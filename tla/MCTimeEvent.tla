---------------------------- MODULE MCTimeEvent ----------------------------
(* Small instances of TimeEvent for TLC: time events are interchangeable.  *)
EXTENDS TimeEvent, TLC

Symmetry == Permutations(TE)
=============================================================================
