----------------------------- MODULE TimeEvent -----------------------------
(***************************************************************************)
(* The time events of one tick rate (edf_time_event.c). Time events are    *)
(* nodes of singly linked lists: newly armed ones are pushed on new_head;  *)
(* EDF_timeEvent_tick walks the list at armed_head with a pointer to the   *)
(* link that leads to the current node, appends the new list when it       *)
(* reaches the end, and handles one node in each critical section. Between *)
(* two of its critical sections, and before it posts an expired event,     *)
(* active objects and other threads arm, disarm and rearm time events.     *)
(*                                                                         *)
(* before, touched, posts and late do not exist in the code: they remember *)
(* what the properties compare.                                            *)
(***************************************************************************)
EXTENDS Integers, FiniteSets

CONSTANTS
  TE,            \* the time events of the tick rate
  NULL,
  Root,          \* names the link &registry->armed_head
  MaxTick,       \* the largest start and time the clients pass
  Period,        \* the periods they pass, 0 for one-shot time events
  CallsPerTick   \* how many calls interrupt one EDF_timeEvent_tick

ASSUME TimeAssumption ==
  /\ IsFiniteSet(TE) /\ NULL \notin TE /\ Root \notin TE /\ Root # NULL
  /\ MaxTick \in Nat \ {0} /\ Period \subseteq 0 .. MaxTick /\ CallsPerTick \in Nat

VARIABLES
  link,        \* link[Root] is armed_head, link[te] is te->next
  new_head,    \* head of the list of newly armed time events
  cnt,         \* down-counter of each time event, 0 when it is disarmed
  period,      \* reload value, 0 for a one-shot time event
  is_linked,
  te_link,     \* the link that leads the tick to its current node
  walk,        \* the tick: "idle", "step" (in its loop) or "post"
  te,          \* the expired time event that the tick is about to post
  calls,       \* calls that may still interrupt this tick
  failed,      \* an assertion of the API stopped the program
  before,      \* the counters when the tick began
  touched,     \* the time events that were the object of a call since then
  posts,       \* what this tick posted for each time event, counted to 2
  late         \* posts of a disarmed time event since its disarm, to 2

lists == <<link, new_head, is_linked>>
tick == <<te_link, walk, te>>
ghosts == <<before, touched, posts, late>>
vars == <<lists, cnt, period, tick, calls, failed, ghosts>>

(* EDF_timeEvent_new for every time event.                                 *)
Init ==
  /\ link = [n \in TE \cup {Root} |-> NULL]
  /\ new_head = NULL
  /\ cnt = [t \in TE |-> 0]
  /\ period = [t \in TE |-> 0]
  /\ is_linked = [t \in TE |-> FALSE]
  /\ te_link = Root /\ walk = "idle" /\ te = NULL
  /\ calls = CallsPerTick /\ failed = FALSE
  /\ before = cnt /\ touched = {}
  /\ posts = [t \in TE |-> 0] /\ late = [t \in TE |-> 0]

-----------------------------------------------------------------------------
(* What the three calls have in common: a call during a tick counts.       *)
Call(t) ==
  /\ ~failed
  /\ \/ walk = "idle" /\ UNCHANGED calls
     \/ walk # "idle" /\ calls > 0 /\ calls' = calls - 1
  /\ touched' = touched \cup {t}
  /\ UNCHANGED <<tick, before, posts>>

AssertFails ==
  /\ failed' = TRUE
  /\ UNCHANGED <<lists, cnt, period, tick, calls, ghosts>>

(* Faulty form: the test of is_linked is missing.                          *)
BugLinkNew(t) ==
  /\ is_linked' = [is_linked EXCEPT ![t] = TRUE]
  /\ link' = [link EXCEPT ![t] = new_head]
  /\ new_head' = t

(* Link t into the new list, unless it is still in a list.                 *)
LinkNew(t) ==
  \/ is_linked[t] /\ UNCHANGED lists
  \/ /\ ~is_linked[t]
     /\ is_linked' = [is_linked EXCEPT ![t] = TRUE]
     /\ link' = [link EXCEPT ![t] = new_head]
     /\ new_head' = t

(* EDF_timeEvent_arm. An armed time event must not be armed again.         *)
Arm(t, start, per) ==
  \/ ~failed /\ cnt[t] # 0 /\ AssertFails
  \/ /\ cnt[t] = 0
     /\ Call(t)
     /\ cnt' = [cnt EXCEPT ![t] = start]
     /\ period' = [period EXCEPT ![t] = per]
     /\ LinkNew(t)
     /\ late' = [late EXCEPT ![t] = 0]
     /\ UNCHANGED failed

(* EDF_timeEvent_disarm leaves the time event in its list.                 *)
Disarm(t) ==
  /\ Call(t)
  /\ cnt' = [cnt EXCEPT ![t] = 0]
  /\ late' = [late EXCEPT ![t] = 0]
  /\ UNCHANGED <<lists, period, failed>>

(* EDF_timeEvent_rearm keeps the period.                                   *)
Rearm(t, time) ==
  /\ Call(t)
  /\ \/ cnt[t] = 0 /\ LinkNew(t)
     \/ cnt[t] # 0 /\ UNCHANGED lists
  /\ cnt' = [cnt EXCEPT ![t] = time]
  /\ late' = [late EXCEPT ![t] = 0]
  /\ UNCHANGED <<period, failed>>

-----------------------------------------------------------------------------
(* EDF_timeEvent_tick handles one node in each critical section; the first *)
(* one is also the beginning of the tick.                                  *)
AtLoop ==
  /\ ~failed /\ walk \in {"idle", "step"}
  /\ IF walk = "idle"
     THEN /\ calls' = CallsPerTick
          /\ before' = cnt /\ touched' = {} /\ posts' = [t \in TE |-> 0]
     ELSE UNCHANGED <<calls, before, touched, posts>>
  /\ UNCHANGED <<failed, late>>

(* The link that leads to the current node, the new list being attached at *)
(* the end of the armed list; and the current node, NULL at the very end.  *)
Attached ==
  IF link[te_link] = NULL THEN [link EXCEPT ![te_link] = new_head] ELSE link
Current == Attached[te_link]
NewLeft == IF link[te_link] = NULL THEN NULL ELSE new_head

TickEnd ==
  /\ AtLoop /\ Current = NULL
  /\ walk' = "idle" /\ te_link' = Root
  /\ UNCHANGED <<lists, cnt, period, te>>

InLoop(t) ==
  /\ AtLoop /\ t = Current
  /\ new_head' = NewLeft
  /\ UNCHANGED period

(* Faulty form: the walk skips the node behind an unlinked one.            *)
BugUnlink(t) ==
  /\ link' = [Attached EXCEPT ![te_link] = Attached[t]]
  /\ te_link' = IF Attached[t] = NULL THEN te_link ELSE Attached[t]
  /\ is_linked' = [is_linked EXCEPT ![t] = FALSE]

(* Unlink the current node; te_link then leads to the next one.            *)
Unlink(t) ==
  /\ link' = [Attached EXCEPT ![te_link] = Attached[t]]
  /\ is_linked' = [is_linked EXCEPT ![t] = FALSE]
  /\ UNCHANGED te_link

(* Faulty form: the walk stays at the node.                                *)
BugAdvance(t) == link' = Attached /\ UNCHANGED <<te_link, is_linked>>

(* Keep the current node and advance te_link to its link.                  *)
Advance(t) == link' = Attached /\ te_link' = t /\ UNCHANGED is_linked

(* A disarmed time event is unlinked.                                      *)
TickRemove(t) ==
  /\ InLoop(t) /\ cnt[t] = 0
  /\ Unlink(t)
  /\ walk' = "step"
  /\ UNCHANGED <<cnt, te>>

(* An expired one is reloaded or disarmed and unlinked, and is posted      *)
(* after the critical section.                                             *)
TickExpire(t) ==
  /\ InLoop(t) /\ cnt[t] = 1
  /\ cnt' = [cnt EXCEPT ![t] = period[t]]
  /\ \/ period[t] # 0 /\ Advance(t)
     \/ period[t] = 0 /\ Unlink(t)
  /\ walk' = "post" /\ te' = t

Counted(n) == IF n = 2 THEN 2 ELSE n + 1

TickCount(t) ==
  /\ InLoop(t) /\ cnt[t] > 1
  /\ cnt' = [cnt EXCEPT ![t] = @ - 1]
  /\ Advance(t)
  /\ walk' = "step"
  /\ UNCHANGED te

(* Faulty form: the tick posts the event and keeps it.                     *)
BugTickPost ==
  /\ ~failed /\ walk = "post"
  /\ posts' = [posts EXCEPT ![te] = Counted(@)]
  /\ late' = [late EXCEPT ![te] = IF cnt[te] = 0 THEN Counted(@) ELSE 0]
  /\ \/ walk' = "step" /\ te' = NULL
     \/ UNCHANGED <<walk, te>>
  /\ UNCHANGED <<lists, cnt, period, te_link, calls, failed, before, touched>>

(* EDF_activeObject_postFIFO to the time event's active object.            *)
TickPost ==
  /\ ~failed /\ walk = "post"
  /\ posts' = [posts EXCEPT ![te] = Counted(@)]
  /\ late' = [late EXCEPT ![te] = IF cnt[te] = 0 THEN Counted(@) ELSE 0]
  /\ walk' = "step" /\ te' = NULL
  /\ UNCHANGED <<lists, cnt, period, te_link, calls, failed, before, touched>>

-----------------------------------------------------------------------------
TickStep ==
  \/ TickEnd \/ TickPost
  \/ \E t \in TE : TickRemove(t) \/ TickExpire(t) \/ TickCount(t)

Client ==
  \E t \in TE :
    \/ \E start \in 1 .. MaxTick, per \in Period : Arm(t, start, per)
    \/ Disarm(t)
    \/ \E time \in 1 .. MaxTick : Rearm(t, time)

Stopped == failed /\ UNCHANGED vars

Next == TickStep \/ Client \/ Stopped

Spec == Init /\ [][Next]_vars

-----------------------------------------------------------------------------
(* The nodes that lie n links or fewer behind node.                        *)
Reached(node) ==
  LET reach[n \in 0 .. Cardinality(TE)] ==
        IF n = 0 THEN {node} \ {NULL}
        ELSE reach[n - 1] \cup ({link[m] : m \in reach[n - 1]} \ {NULL})
  IN  reach[Cardinality(TE)]

Armed == Reached(link[Root])
NewlyArmed == Reached(new_head)

TypeOK ==
  /\ link \in [TE \cup {Root} -> TE \cup {NULL}]
  /\ new_head \in TE \cup {NULL}
  /\ cnt \in [TE -> 0 .. MaxTick] /\ period \in [TE -> Period \cup {0}]
  /\ is_linked \in [TE -> BOOLEAN]
  /\ te_link \in TE \cup {Root} /\ walk \in {"idle", "step", "post"}
  /\ te \in TE \cup {NULL} /\ (walk = "post" <=> te # NULL)
  /\ calls \in 0 .. CallsPerTick /\ failed \in BOOLEAN
  /\ before \in [TE -> 0 .. MaxTick] /\ touched \subseteq TE
  /\ posts \in [TE -> 0 .. 2] /\ late \in [TE -> 0 .. 2]

(* Whatever interrupts a tick between its critical sections, the two lists *)
(* are apart and end, is_linked says exactly which time events they hold,  *)
(* and the tick's te_link stays a link of the armed list, although the     *)
(* node it stands in may have been disarmed and armed again since. An      *)
(* armed time event is always in a list: arming never relies on a link     *)
(* that the tick is about to remove.                                       *)
ListsSound ==
  /\ TypeOK
  /\ Armed \cap NewlyArmed = {}
  /\ Armed \cup NewlyArmed = {t \in TE : is_linked[t]}
  /\ Cardinality({t \in Armed \cup NewlyArmed : link[t] = NULL})
       = Cardinality({h \in {link[Root], new_head} : h # NULL})
  /\ te_link # Root => te_link \in Armed
  /\ \A t \in TE : cnt[t] # 0 => is_linked[t]

(* One call of EDF_timeEvent_tick counts one tick for every time event     *)
(* that no call touched meanwhile, and posts exactly those that were due:  *)
(* the walk neither skips a node nor visits one twice, whatever others it  *)
(* unlinks or appends on its way.                                          *)
TickExact ==
  walk = "idle" =>
    \A t \in TE \ touched :
      IF before[t] = 1
      THEN posts[t] = 1 /\ cnt[t] = period[t]
      ELSE posts[t] = 0 /\ cnt[t] = IF before[t] = 0 THEN 0 ELSE before[t] - 1

(* A disarmed time event may still be posted, by a tick that found it      *)
(* expired and had not posted it yet, but only once.                       *)
OneLatePost == \A t \in TE : late[t] <= 1

(* EDF_timeEvent_tick returns unless calls keep adding nodes: each node it *)
(* handles is one less in front of it, also when the node it stands in was *)
(* disarmed and armed again meanwhile.                                     *)
Ahead == Reached(link[te_link]) \cup Reached(new_head)
TickAdvances ==
  [][(\E t \in TE : TickRemove(t) \/ TickExpire(t) \/ TickCount(t)) =>
       Cardinality(Ahead') = Cardinality(Ahead) - 1]_vars

(* A time event expires only in a tick that began after it was armed:      *)
(* "Time until first expiration (ticks)." (edf_time_event.h:101) and "Time *)
(* until expiration (ticks)." (edf_time_event.h:121), at least one.        *)
ExpiresInLaterTick ==
  [][walk = "step" /\ walk' = "post" => te' \notin touched]_vars
=============================================================================
