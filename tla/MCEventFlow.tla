---------------------------- MODULE MCEventFlow ----------------------------
(***************************************************************************)
(* Small instances of EventFlow for TLC. The blocks of the pool are        *)
(* interchangeable, and so are the producers: the safety runs explore one  *)
(* state of each symmetric set. The liveness run uses no symmetry.         *)
(***************************************************************************)
EXTENDS EventFlow, TLC

Symmetry == Permutations(Mutable) \cup Permutations(Producer)
=============================================================================
