------------------------------ MODULE CortexM ------------------------------
(***************************************************************************)
(* The core for Arm Cortex-M: preemptive scheduling of active objects on   *)
(* one stack. EDF_core_activate calls the handlers of the active objects   *)
(* like functions, on top of the context they preempt: from a post or from *)
(* the end of a scheduler lock in thread mode, or from PendSV after an     *)
(* interrupt. Interrupts come between any two critical sections, and nest. *)
(* One action is one critical section.                                     *)
(*                                                                         *)
(* A queue is the number of its events. Active objects are started before  *)
(* EDF_run, as in the repository's examples.                               *)
(***************************************************************************)
EXTENDS EmfBitmask, SequencesExt

CONSTANTS
  Prio,       \* the priorities of the active objects
  MaxAO,      \* EDF_MAX_ACTIVE_OBJECT
  Capacity,   \* the events that a queue holds
  MaxNest     \* bound: how many interrupts nest

ASSUME CoreAssumption ==
  /\ MaxAO \in 1 .. 64
  /\ Prio \subseteq 1 .. MaxAO /\ Prio # {}
  /\ Capacity \in Nat \ {0} /\ MaxNest \in Nat

VARIABLES
  pthre,        \* preemption-threshold of each registered active object, or 0
  pending,      \* the number of events in each queue
  ready_set,
  active_priority, active_preemption_threshold, next_priority, lock_ceiling,
  stack,        \* the contexts in thread mode, the preempted ones first
  isr,          \* how many interrupt handlers are at work
  pendsv,       \* the PendSV exception is pending
  running       \* EDF_run has unlocked the scheduler

active == <<active_priority, active_preemption_threshold>>
vars == <<pthre, pending, ready_set, active, next_priority, lock_ceiling, stack,
          isr, pendsv, running>>

NotLocked == 255   \* EDF_CORE_SCHED_NOT_LOCKED

(* A context: the active object it runs (0: main and the idle loop), where *)
(* it is, the locals of EDF_core_activate, and those of a publish. Its     *)
(* ceiling is kept for the properties.                                     *)
Context(prio, prio_in, pthre_in) ==
  [prio |-> prio, at |-> "get", prio_in |-> prio_in, pthre_in |-> pthre_in,
   subs_list |-> {}, sched_status |-> NotLocked, ceiling |-> 0]

Idle == [Context(0, 0, 0) EXCEPT !.at = "run"]

Threshold(prio) == IF prio = 0 THEN 0 ELSE pthre[prio]
Registered == {p \in Prio : pthre[p] # 0}
Waiting == {p \in Prio : pending[p] > 0}
Top == Last(stack)
WithTop(context) == Append(Front(stack), context)

(* EDF_init locks the scheduler.                                           *)
Init ==
  /\ pthre = [p \in Prio |-> 0] /\ pending = [p \in Prio |-> 0]
  /\ ready_set = BitmaskOf({}, (MaxAO + 7) \div 8)
  /\ active_priority = 0 /\ active_preemption_threshold = 0
  /\ next_priority = 0 /\ lock_ceiling = MaxAO + 1
  /\ stack = <<Idle>>
  /\ isr = 0 /\ pendsv = FALSE /\ running = FALSE

-----------------------------------------------------------------------------

(* EDF_core_schedule: the active object to activate now, or 0.             *)
Schedule(ready, ceiling) ==
  LET prio == FindMax(ready)
  IN  IF prio <= active_preemption_threshold \/ prio <= ceiling THEN 0 ELSE prio

(* EDF_core_scheduleAfter, with the ready set already updated.             *)
ScheduleAfter(ready, pthre_in) ==
  LET prio == FindMax(ready)
  IN  IF prio <= pthre_in \/ prio <= lock_ceiling THEN 0 ELSE prio

(* EDF_core_activate up to the first handler, on top of the contexts.      *)
Activate(prio, contexts) ==
  /\ stack' = Append(contexts, Context(prio, active_priority, Threshold(active_priority)))
  /\ active_priority' = prio
  /\ active_preemption_threshold' = pthre[prio]
  /\ next_priority' = 0

Reschedule(ready, ceiling, contexts) ==
  LET prio == Schedule(ready, ceiling)
  IN  IF prio # 0 THEN Activate(prio, contexts)
      ELSE stack' = contexts /\ UNCHANGED <<active, next_priority>>

(* A post sets the bit of an empty queue.                                  *)
Marked(prio) == IF pending[prio] = 0 THEN SetBit(ready_set, prio) ELSE ready_set

(* EDF_activeObject_postFIFO from thread mode; contexts is the stack with  *)
(* the poster's next place. Its notification activates at once.            *)
PostFIFO(prio, contexts) ==
  /\ pending[prio] < Capacity
  /\ pending' = [pending EXCEPT ![prio] = @ + 1]
  /\ ready_set' = Marked(prio)
  /\ IF pending[prio] = 0 THEN Reschedule(Marked(prio), lock_ceiling, contexts)
     ELSE stack' = contexts /\ UNCHANGED <<active, next_priority>>

-----------------------------------------------------------------------------
(* The topmost context runs: no interrupt is at work and no PendSV pending.*)
Thread(place) == isr = 0 /\ ~pendsv /\ Top.at = place

(* EDF_activeObject_start: the assertions of EDF_activeObject_register.    *)
Start(prio, threshold) ==
  /\ Thread("run") /\ ~running /\ pthre[prio] = 0
  /\ threshold >= prio
  /\ LET lower == {p \in Registered : p < prio}
         higher == {p \in Registered : p > prio}
     IN  /\ lower # {} => pthre[Max(lower)] <= threshold
         /\ higher # {} => threshold <= pthre[Min(higher)]
  /\ pthre' = [pthre EXCEPT ![prio] = threshold]
  /\ Reschedule(ready_set, lock_ceiling, stack)
  /\ UNCHANGED <<pending, ready_set, lock_ceiling, isr, pendsv, running>>

(* EDF_run unlocks the scheduler; its context is then the idle loop.       *)
Run ==
  /\ Thread("run") /\ ~running
  /\ running' = TRUE
  /\ lock_ceiling' = 0
  /\ Reschedule(ready_set, 0, stack)
  /\ UNCHANGED <<pthre, pending, ready_set, isr, pendsv>>

Post(prio) ==
  /\ Thread("run") /\ prio \in Registered
  /\ PostFIFO(prio, stack)
  /\ UNCHANGED <<pthre, lock_ceiling, isr, pendsv, running>>

(* EDF_activeObject_publish copies the subscribers, ...                    *)
Publish(subscribers) ==
  /\ Thread("run") /\ subscribers \subseteq Registered /\ subscribers # {}
  /\ stack' = WithTop([Top EXCEPT !.at = "lock", !.subs_list = subscribers])
  /\ UNCHANGED <<pthre, pending, ready_set, active, next_priority, lock_ceiling,
                 isr, pendsv, running>>

(* ... locks the scheduler up to the highest one                           *)
(* (EDF_core_lockScheduler), ...                                           *)
Lock ==
  /\ Thread("lock")
  /\ LET ceiling == FindMax(BitmaskOf(Top.subs_list, (MaxAO + 7) \div 8))
     IN IF ceiling > lock_ceiling
        THEN /\ lock_ceiling' = ceiling
             /\ stack' = WithTop([Top EXCEPT !.at = "multicast",
                                    !.sched_status = lock_ceiling, !.ceiling = ceiling])
        ELSE /\ stack' = WithTop([Top EXCEPT !.at = "multicast"])
             /\ UNCHANGED lock_ceiling
  /\ UNCHANGED <<pthre, pending, ready_set, active, next_priority, isr, pendsv,
                 running>>

(* ... posts to one after the other, ...                                   *)
Multicast ==
  /\ Thread("multicast") /\ Top.subs_list # {}
  /\ LET prio == FindMax(BitmaskOf(Top.subs_list, (MaxAO + 7) \div 8))
     IN PostFIFO(prio, WithTop([Top EXCEPT !.subs_list = @ \ {prio}]))
  /\ UNCHANGED <<pthre, lock_ceiling, isr, pendsv, running>>

Unlocked == [Top EXCEPT !.at = "run", !.sched_status = NotLocked, !.ceiling = 0]

(* Faulty form: nothing is scheduled after unlocking.                      *)
BugUnlockOnly ==
  /\ Thread("multicast") /\ Top.subs_list = {}
  /\ lock_ceiling' = IF Top.sched_status # NotLocked THEN Top.sched_status ELSE lock_ceiling
  /\ stack' = WithTop(Unlocked)
  /\ UNCHANGED <<pthre, pending, ready_set, active, next_priority, isr, pendsv, running>>

(* ... and unlocks the scheduler (EDF_core_unlockScheduler).               *)
Unlock ==
  /\ Thread("multicast") /\ Top.subs_list = {}
  /\ IF Top.sched_status # NotLocked
     THEN /\ lock_ceiling' = Top.sched_status
          /\ Reschedule(ready_set, Top.sched_status, WithTop(Unlocked))
     ELSE /\ stack' = WithTop(Unlocked)
          /\ UNCHANGED <<lock_ceiling, active, next_priority>>
  /\ UNCHANGED <<pthre, pending, ready_set, isr, pendsv, running>>

(* The loop of EDF_core_activate: get an event, dispatch it, ...           *)
Get ==
  /\ Thread("get")
  /\ pending' = [pending EXCEPT ![Top.prio] = @ - 1]
  /\ stack' = WithTop([Top EXCEPT !.at = "run"])
  /\ UNCHANGED <<pthre, ready_set, active, next_priority, lock_ceiling, isr, pendsv,
                 running>>

(* Faulty form: only the active priority is restored.                      *)
BugResume ==
  /\ stack' = Front(stack)
  /\ active_priority' = Top.prio_in
  /\ UNCHANGED active_preemption_threshold

(* The preempted context goes on.                                          *)
Resume ==
  /\ stack' = Front(stack)
  /\ active_priority' = Top.prio_in
  /\ active_preemption_threshold' = Top.pthre_in

(* Faulty form: the bit of an empty queue is not cleared.                  *)
BugEmptied == ready_set

Emptied == IF pending[Top.prio] = 0 THEN ClearBit(ready_set, Top.prio) ELSE ready_set

(* ... and take the next active object, or go back.                        *)
Return ==
  /\ Thread("run") /\ Len(stack) > 1
  /\ ready_set' = Emptied
  /\ LET prio == ScheduleAfter(Emptied, Top.pthre_in)
     IN IF prio # 0
        THEN /\ stack' = WithTop([Top EXCEPT !.prio = prio, !.at = "get"])
             /\ active_priority' = prio
             /\ active_preemption_threshold' = pthre[prio]
        ELSE Resume
  /\ UNCHANGED <<pthre, pending, next_priority, lock_ceiling, isr, pendsv, running>>

-----------------------------------------------------------------------------
(* An interrupt handler begins, posts, and ends with EDF_ISRExit. A        *)
(* publish is several posts: it does not lock the scheduler.               *)
ISREntry ==
  /\ isr < MaxNest
  /\ isr' = isr + 1
  /\ UNCHANGED <<pthre, pending, ready_set, active, next_priority, lock_ceiling,
                 stack, pendsv, running>>

ISRPost(prio) ==
  /\ isr > 0 /\ prio \in Registered /\ pending[prio] < Capacity
  /\ pending' = [pending EXCEPT ![prio] = @ + 1]
  /\ ready_set' = Marked(prio)
  /\ UNCHANGED <<pthre, active, next_priority, lock_ceiling, stack, isr, pendsv,
                 running>>

ISRExit ==
  /\ isr > 0
  /\ isr' = isr - 1
  /\ LET prio == Schedule(ready_set, lock_ceiling)
     IN IF prio # 0 THEN next_priority' = prio /\ pendsv' = TRUE
        ELSE UNCHANGED <<next_priority, pendsv>>
  /\ UNCHANGED <<pthre, pending, ready_set, active, lock_ceiling, stack, running>>

(* PendSV_Handler calls EDF_core_activate in thread mode.                  *)
PendSV ==
  /\ isr = 0 /\ pendsv
  /\ pendsv' = FALSE
  /\ Activate(next_priority, stack)
  /\ UNCHANGED <<pthre, pending, ready_set, lock_ceiling, isr, running>>

-----------------------------------------------------------------------------
Next ==
  \/ \E p \in Prio : \E t \in p .. MaxAO : Start(p, t)
  \/ \E p \in Prio : Post(p) \/ ISRPost(p)
  \/ \E S \in SUBSET Prio : Publish(S)
  \/ Run \/ Lock \/ Multicast \/ Unlock \/ Get \/ Return
  \/ ISREntry \/ ISRExit \/ PendSV

Spec == Init /\ [][Next]_vars

-----------------------------------------------------------------------------
Contexts ==
  [prio : Prio \cup {0}, at : {"get", "run", "lock", "multicast"},
   prio_in : Prio \cup {0}, pthre_in : 0 .. MaxAO, subs_list : SUBSET Prio,
   sched_status : 0 .. MaxAO \cup {NotLocked}, ceiling : 0 .. MaxAO]

TypeOK ==
  /\ \A p \in Prio : pthre[p] \in {0} \cup p .. MaxAO
  /\ pending \in [Prio -> 0 .. Capacity]
  /\ ready_set \in Bytes((MaxAO + 7) \div 8)
  /\ {active_priority, next_priority} \subseteq Registered \cup {0}
  /\ active_preemption_threshold \in 0 .. MaxAO
  /\ lock_ceiling \in 0 .. MaxAO + 1
  /\ stack \in Seq(Contexts) /\ stack # <<>>
  /\ isr \in 0 .. MaxNest /\ pendsv \in BOOLEAN /\ running \in BOOLEAN

(* The scheduler's variables describe the stack, through every nesting of  *)
(* activations, locks and interrupts: the priority and the threshold are   *)
(* those of the topmost context, every activation remembers those of the   *)
(* context below it, and the lock ceiling is the highest one held.         *)
(* "Only AOs with prio > pthre can preempt." (edf_active_object.h:143), and*)
(* none that a lock excludes: "Prevents task preemption by active objects  *)
(* with priority at or below the given ceiling." (edf_core.h:73). So a     *)
(* multicast is not interrupted by its subscribers, no handler is entered  *)
(* a second time, and the stack holds at most one context for each active  *)
(* object.                                                                 *)
ContextConsistent ==
  /\ TypeOK
  /\ active_priority = Top.prio
  /\ active_preemption_threshold = Threshold(Top.prio)
  /\ \A i \in 2 .. Len(stack) :
       /\ stack[i].prio_in = stack[i - 1].prio
       /\ stack[i].pthre_in = Threshold(stack[i - 1].prio)
  /\ running => lock_ceiling = Max({stack[i].ceiling : i \in DOMAIN stack})
  /\ \A i, j \in DOMAIN stack : i < j =>
       stack[j].prio > Threshold(stack[i].prio) /\ stack[j].prio > stack[i].ceiling

(* When no interrupt is at work, no active object waits that could preempt *)
(* the one that runs: every post, unlock, return and interrupt has led to  *)
(* its activation.                                                         *)
RunsHighest ==
  running /\ isr = 0 /\ ~pendsv =>
    \A p \in Waiting : p <= active_preemption_threshold \/ p <= lock_ceiling

(* The assertions of EDF_core_activate, EDF_activeObject_get and           *)
(* EDF_core_unlockScheduler: PendSV knows whom to activate although        *)
(* interrupts came after the one that asked for it, an activated active    *)
(* object has an event, a lock is released after those above it.           *)
AssertionsHold ==
  /\ pendsv <=> next_priority # 0
  /\ \A i \in DOMAIN stack :
       /\ stack[i].at = "get" => stack[i].prio \in Waiting
       /\ stack[i].sched_status # NotLocked => stack[i].sched_status < lock_ceiling
=============================================================================
