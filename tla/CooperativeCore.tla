--------------------------- MODULE CooperativeCore ---------------------------
(***************************************************************************)
(* EDF_run of the non-preemptive POSIX cores: the main thread takes the    *)
(* active object that findMax names, processes one of its events, and      *)
(* removes it from the ready set when its queue is empty. Other threads    *)
(* (timers, standard input) post at any time outside the critical section. *)
(* The build for fuzzing runs the same loop once for every segment of its  *)
(* input, until it is idle.                                                *)
(*                                                                         *)
(* A queue is the number of its events: EventQueue is about the rest of    *)
(* it, and about posts to a full queue, which stop the program.            *)
(***************************************************************************)
EXTENDS EmfBitmask

CONSTANTS
  Prio,        \* the priorities of the active objects
  MaskLen,     \* the bytes of EDF_activeObject_bitmask_t
  Capacity,    \* the events that a queue holds
  MaxSegment   \* bound: the segments of the fuzzer's input

ASSUME CoreAssumption ==
  /\ MaskLen \in Nat \ {0}
  /\ Prio \subseteq 1 .. 8 * MaskLen /\ Prio # {}
  /\ Capacity \in Nat \ {0} /\ MaxSegment \in Nat

VARIABLES
  registered,   \* the priorities in use
  pending,      \* the number of events in each queue
  ready_set,
  isRunning,
  pc,           \* where the main thread stands
  prio,         \* the active object it works for, 0 when none
  fuzz,         \* the build: TRUE for the fuzzing core
  segments      \* how many segments of the input are left

vars == <<registered, pending, ready_set, isRunning, pc, prio, fuzz, segments>>

(* The main thread holds the critical section. It never leaves it when     *)
(* EDF_run of the cooperative core returns.                                *)
InCriticalSection == pc = "pick" \/ (pc = "returned" /\ ~fuzz)

Waiting == {p \in registered : pending[p] > 0}

(* EDF_init.                                                               *)
Init ==
  /\ registered = {} /\ pending = [p \in Prio |-> 0]
  /\ ready_set = ClearAll([i \in 0 .. MaskLen - 1 |-> Bit])
  /\ isRunning = FALSE /\ pc = "startup" /\ prio = 0
  /\ fuzz \in BOOLEAN /\ segments \in 0 .. (IF fuzz THEN MaxSegment ELSE 0)

(* Faulty form: a post to an active object that has an event marks it, the *)
(* first one does not.                                                     *)
BugNotify(p) ==
  IF pending[p] = 0 THEN ready_set ELSE SetBit(ready_set, p)

(* EDF_CORE_NOTIFY_EVENT, for the first event of an empty queue.           *)
Notify(p) ==
  IF pending[p] = 0 THEN SetBit(ready_set, p) ELSE ready_set

-----------------------------------------------------------------------------
(* EDF_activeObject_start, by the main thread.                             *)
Start(p) ==
  /\ pc \in {"startup", "dispatch", "idle"} /\ p \notin registered
  /\ registered' = registered \cup {p}
  /\ UNCHANGED <<pending, ready_set, isRunning, pc, prio, fuzz, segments>>

(* A post by a handler, a callback or another thread.                      *)
Post(p) ==
  /\ ~InCriticalSection
  /\ p \in registered /\ pending[p] < Capacity
  /\ pending' = [pending EXCEPT ![p] = @ + 1]
  /\ ready_set' = Notify(p)
  /\ UNCHANGED <<registered, isRunning, pc, prio, fuzz, segments>>

(* EDF_stop, from a handler, a callback, a thread or a signal.             *)
Stop ==
  /\ isRunning' = FALSE
  /\ UNCHANGED <<registered, pending, ready_set, pc, prio, fuzz, segments>>

(* EDF_run from EDF_onStartup to the loop.                                 *)
Run ==
  /\ pc = "startup" /\ ~fuzz
  /\ isRunning' = TRUE /\ pc' = "pick" /\ prio' = 0
  /\ UNCHANGED <<registered, pending, ready_set, fuzz, segments>>

(* The fuzzing core publishes the event of the next segment to its         *)
(* subscribers, and enters the loop; or the input is at its end.           *)
RunSegment(subscribers) ==
  /\ pc \in {"startup", "inject"} /\ fuzz /\ segments > 0
  /\ \A p \in subscribers : pending[p] < Capacity
  /\ pending' = [p \in Prio |-> pending[p] + (IF p \in subscribers THEN 1 ELSE 0)]
  /\ ready_set' = [i \in DOMAIN ready_set |->
       ready_set[i] \cup UNION {Notify(p)[i] : p \in subscribers}]
  /\ isRunning' = TRUE /\ pc' = "pick" /\ prio' = 0
  /\ segments' = segments - 1
  /\ UNCHANGED <<registered, fuzz>>

EndOfInput ==
  /\ pc \in {"startup", "inject"} /\ fuzz
  /\ pc' = "returned"
  /\ UNCHANGED <<registered, pending, ready_set, isRunning, prio, fuzz, segments>>

-----------------------------------------------------------------------------
Pick ==
  /\ pc = "pick" /\ isRunning
  /\ prio' = FindMax(ready_set)
  /\ pc' = IF prio' > 0 THEN "get" ELSE "idle"
  /\ UNCHANGED <<registered, pending, ready_set, isRunning, fuzz, segments>>

(* Faulty form: the loop leaves only when there is nothing to do.          *)
BugLeave ==
  /\ pc = "pick" /\ ~isRunning /\ Waiting = {}
  /\ pc' = (IF fuzz THEN "inject" ELSE "returned") /\ prio' = 0
  /\ UNCHANGED <<registered, pending, ready_set, isRunning, fuzz, segments>>

(* The loop has ended.                                                     *)
Leave ==
  /\ pc = "pick" /\ ~isRunning
  /\ pc' = (IF fuzz THEN "inject" ELSE "returned") /\ prio' = 0
  /\ UNCHANGED <<registered, pending, ready_set, isRunning, fuzz, segments>>

(* EDF_activeObject_get; this core does not wait in it.                    *)
Get ==
  /\ pc = "get"
  /\ pending' = [pending EXCEPT ![prio] = @ - 1]
  /\ pc' = "dispatch"
  /\ UNCHANGED <<registered, ready_set, isRunning, prio, fuzz, segments>>

(* Faulty form: the bit is cleared without a look at the queue.            *)
BugDispatched ==
  /\ pc = "dispatch"
  /\ ready_set' = ClearBit(ready_set, prio)
  /\ pc' = "pick"
  /\ UNCHANGED <<registered, pending, isRunning, prio, fuzz, segments>>

(* The handler returns; the critical section is entered and the queue      *)
(* looked at again.                                                        *)
Dispatched ==
  /\ pc = "dispatch"
  /\ ready_set' = IF pending[prio] = 0 THEN ClearBit(ready_set, prio) ELSE ready_set
  /\ pc' = "pick"
  /\ UNCHANGED <<registered, pending, isRunning, prio, fuzz, segments>>

(* EDF_onIdle returns.                                                     *)
IdleDone ==
  /\ pc = "idle"
  /\ pc' = "pick"
  /\ isRunning' = (isRunning /\ ~fuzz)
  /\ UNCHANGED <<registered, pending, ready_set, prio, fuzz, segments>>

-----------------------------------------------------------------------------
Main ==
  \/ Run \/ Pick \/ Leave \/ Get \/ Dispatched \/ IdleDone \/ EndOfInput
  \/ \E S \in SUBSET registered : RunSegment(S)

Next ==
  \/ Main
  \/ \E p \in Prio : Start(p) \/ Post(p)
  \/ Stop

Spec == Init /\ [][Next]_vars

(* The main thread goes on: handlers and callbacks return.                 *)
FairSpec == Spec /\ WF_vars(Main)

-----------------------------------------------------------------------------
TypeOK ==
  /\ registered \subseteq Prio
  /\ pending \in [Prio -> 0 .. Capacity]
  /\ ready_set \in Bytes(MaskLen)
  /\ isRunning \in BOOLEAN /\ fuzz \in BOOLEAN
  /\ pc \in {"startup", "inject", "pick", "get", "dispatch", "idle", "returned"}
  /\ prio \in registered \cup {0}
  /\ segments \in 0 .. MaxSegment

(* No event is forgotten: an active object with an event is in the ready   *)
(* set, whoever posted it and however that interleaves with the loop. The  *)
(* ready set names only active objects that have one, but for the one      *)
(* whose handler runs, and so EDF_activeObject_get finds an event (its     *)
(* assertion), posts from other threads notwithstanding.                   *)
ReadyIsPending ==
  /\ \A p \in 1 .. 8 * MaskLen :
       /\ p \in Waiting => IsBitSet(ready_set, p)
       /\ IsBitSet(ready_set, p) => p \in Waiting \/ (pc = "dispatch" /\ p = prio)
  /\ pc = "get" => prio \in Waiting

(* The loop always takes the highest-priority active object that has an    *)
(* event ("Find new highest-prio AO ready to run.", edf_core.c:148), and   *)
(* is idle only when none has.                                             *)
HighestFirst ==
  [][pc = "pick" /\ isRunning /\ pc' # "pick" =>
       IF Waiting = {} THEN pc' = "idle" ELSE prio' = Max(Waiting)]_vars

(* The active object with the highest priority is never starved, whatever  *)
(* the others and the other threads post.                                  *)
HighestServed ==
  Max(Prio) \in Waiting /\ pc # "startup" ~>
    (pc = "dispatch" /\ prio = Max(Prio)) \/ pc \in {"inject", "returned"}

(* EDF_stop ends a loop that is running, whatever is still pending.        *)
StopReturns ==
  pc \notin {"startup", "inject"} /\ ~isRunning ~> pc \in {"inject", "returned"}
=============================================================================
