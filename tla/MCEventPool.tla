---------------------------- MODULE MCEventPool ----------------------------
(* An instance of EventPool for TLC: one-byte block sizes and pointers of  *)
(* four bytes; the last multiple of a pointer is 252.                      *)
EXTENDS EventPool

LargeRequests == {<<255, 252>>, <<512, 253>>}
=============================================================================
