---------------------------- MODULE MCPosixCores ----------------------------
(***************************************************************************)
(* The POSIX cores, which know nothing of each other, explored side by     *)
(* side: the cooperative core, and the start-up and end of the preemptive  *)
(* core. A behaviour is one of the first or of the second, as part says;   *)
(* the variables of the other stay as they are in their initial states.    *)
(***************************************************************************)
EXTENDS CooperativeCore, PosixRun

VARIABLE part

(* Priorities in the same byte of the ready set, one of them in its last   *)
(* bit.                                                                    *)
SameByte == {1, 2, 8}

AllInit ==
  /\ part \in {"cooperative", "preemptive"}
  /\ Init /\ PosixInit
  /\ part # "cooperative" => fuzz = FALSE /\ segments = 0

AllNext ==
  \/ part = "cooperative" /\ Next /\ UNCHANGED <<posix_vars, part>>
  \/ part = "preemptive" /\ PosixNext /\ UNCHANGED <<vars, part>>

(* The fairness of each module, for the behaviours that are its own.       *)
AllSpec ==
  /\ AllInit /\ [][AllNext]_<<vars, posix_vars, part>>
  /\ WF_vars(part = "cooperative" /\ Main)
  /\ WF_posix_vars(part = "preemptive" /\ MainStep)
  /\ \A a \in AO :
       /\ SF_posix_vars(part = "preemptive" /\ Begins(a))
       /\ WF_posix_vars(part = "preemptive" /\ HandlerReturns(a))
=============================================================================
