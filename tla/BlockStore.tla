----------------------------- MODULE BlockStore -----------------------------
(***************************************************************************)
(* What the event pools promise their clients: every block is either free  *)
(* or in the hands of one client, which alone may give it back. Blocks are *)
(* added when a pool is initialised and never disappear.                   *)
(***************************************************************************)
VARIABLES
  available,   \* the blocks nobody holds
  held         \* the blocks in the hands of clients

vars == <<available, held>>

Init == available = {} /\ held = {}

Add ==
  /\ available \subseteq available'
  /\ available' \cap held = {}
  /\ UNCHANGED held

Take(b) ==
  /\ b \in available
  /\ available' = available \ {b}
  /\ held' = held \cup {b}

Give(b) ==
  /\ b \in held
  /\ held' = held \ {b}
  /\ available' = available \cup {b}

Next ==
  \/ Add
  \/ \E b \in available : Take(b)
  \/ \E b \in held : Give(b)

Spec == Init /\ [][Next]_vars
=============================================================================
