----------------------------- MODULE MCHsmTimers -----------------------------
(***************************************************************************)
(* What runs handlers and callbacks of the application, explored side by   *)
(* side: the hierarchical state machines, and the timers of POSIX. Neither *)
(* knows of the other; a behaviour is one of the part that part names.     *)
(***************************************************************************)
EXTENDS Hsm, EpfTimer

VARIABLE part

(* In a behaviour of the timers the state machine has one hierarchy.       *)
AllInit ==
  /\ part \in {"hsm", "timers"}
  /\ Init /\ EpfInit
  /\ part # "hsm" => \A s \in State : super[s] = Top

AllNext ==
  \/ part = "hsm" /\ Next /\ UNCHANGED <<epf_vars, part>>
  \/ part = "timers" /\ EpfNext /\ UNCHANGED <<vars, part>>

(* The fairness of each module, for the behaviours that are its own.       *)
AllSpec ==
  /\ AllInit /\ [][AllNext]_<<vars, epf_vars, part>>
  /\ WF_vars(part = "hsm" /\ Transition)
  /\ WF_epf_vars(part = "timers" /\ Ticker)
=============================================================================
