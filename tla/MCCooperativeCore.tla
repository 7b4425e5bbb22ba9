-------------------------- MODULE MCCooperativeCore --------------------------
(* A small instance of CooperativeCore for TLC.                            *)
EXTENDS CooperativeCore

(* On both sides of the border between two bytes of the ready set.         *)
TwoBytes == {8, 9}
=============================================================================
