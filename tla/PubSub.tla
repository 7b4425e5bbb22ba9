------------------------------- MODULE PubSub -------------------------------
(***************************************************************************)
(* The subscriber registry of edf_active_object.c: for each signal a       *)
(* bitmask of the priorities that subscribe to it. One action is one       *)
(* critical section, so subscribeAll and unsubscribeAll take one for each  *)
(* signal, and publish one for its copy of the subscribers and one for     *)
(* each post. What becomes of the event is the subject of EventFlow.       *)
(***************************************************************************)
EXTENDS EmfBitmask

CONSTANTS
  SubPrio,      \* the priorities of the active objects
  UserSignal,   \* EDF_HSM_USER_SIGNAL: the signals below it are reserved
  MaxSignal,    \* subscr_registry.max_signal
  SubsLen       \* the bytes of an EDF_activeObject_bitmask_t

ASSUME PubSubAssumption ==
  /\ SubsLen \in Nat \ {0} /\ SubPrio \subseteq 1 .. 8 * SubsLen
  /\ UserSignal \in Nat \ {0} /\ MaxSignal \in Nat /\ UserSignal <= MaxSignal

VARIABLES
  subscr_list,   \* the entry of a signal is list[signal - 1] of the registry
  sub_call,      \* the loop that each active object is in, and its next signal
  multicast,     \* the publish under way: its copy of the subscribers
  pubsub_failed, \* a failed assertion
  wanted, had,   \* ghosts: the signals that each active object asked for last,
                 \* and those that it had asked for before
  sent, due      \* ghosts: who was posted to, and who subscribed to the signal
                 \* when publish took its copy

pubsub_vars == <<subscr_list, sub_call, multicast, pubsub_failed, wanted, had, sent, due>>

Signals == 1 .. MaxSignal
UserSignals == UserSignal .. MaxSignal
NoCall == [op |-> "none", next |-> 0]
NoSubscribers == BitmaskOf({}, SubsLen)

(* EDF_activeObject_pubSubInit.                                            *)
PubSubInit ==
  /\ subscr_list = [sig \in Signals |-> NoSubscribers]
  /\ sub_call = [p \in SubPrio |-> NoCall]
  /\ multicast = NoSubscribers /\ pubsub_failed = FALSE
  /\ wanted = [p \in SubPrio |-> {}] /\ had = [p \in SubPrio |-> {}]
  /\ sent = {} /\ due = {}

-----------------------------------------------------------------------------
(* An active object calls; what it has had so far is settled.              *)
Calls(p, signals) ==
  /\ ~pubsub_failed /\ sub_call[p] = NoCall
  /\ wanted' = [wanted EXCEPT ![p] = signals]
  /\ had' = [had EXCEPT ![p] = wanted[p]]
  /\ UNCHANGED <<multicast, sent, due>>

(* A signal that is reserved or too large fails an assertion.              *)
Valid(sig) == UserSignal <= sig /\ sig <= MaxSignal

Subscribe(p, sig) ==
  /\ Calls(p, wanted[p] \cup {sig})
  /\ \/ /\ Valid(sig)
        /\ subscr_list' = [subscr_list EXCEPT ![sig] = SetBit(@, p)]
        /\ UNCHANGED pubsub_failed
     \/ ~Valid(sig) /\ pubsub_failed' = TRUE /\ UNCHANGED subscr_list
  /\ UNCHANGED sub_call

Unsubscribe(p, sig) ==
  /\ Calls(p, wanted[p] \ {sig})
  /\ \/ /\ Valid(sig)
        /\ subscr_list' = [subscr_list EXCEPT ![sig] = ClearBit(@, p)]
        /\ UNCHANGED pubsub_failed
     \/ ~Valid(sig) /\ pubsub_failed' = TRUE /\ UNCHANGED subscr_list
  /\ UNCHANGED sub_call

(* The loops run from the entry of the first user signal to the last one.  *)
BugLoop(op) == [op |-> op, next |-> UserSignal + 1]
Loop(op) == [op |-> op, next |-> UserSignal]

SubscribeAll(p) ==
  /\ Calls(p, UserSignals)
  /\ sub_call' = [sub_call EXCEPT ![p] = Loop("subscribeAll")]
  /\ UNCHANGED <<subscr_list, pubsub_failed>>

UnsubscribeAll(p) ==
  /\ Calls(p, {})
  /\ sub_call' = [sub_call EXCEPT ![p] = Loop("unsubscribeAll")]
  /\ UNCHANGED <<subscr_list, pubsub_failed>>

LoopGoesOn(p, op) ==
  LET sig == sub_call[p].next IN
  /\ ~pubsub_failed /\ sub_call[p].op = op
  /\ sub_call' = [sub_call EXCEPT ![p] =
       IF sig < MaxSignal THEN [op |-> op, next |-> sig + 1] ELSE NoCall]
  /\ UNCHANGED <<multicast, pubsub_failed, wanted, had, sent, due>>

SubscribeNext(p) ==
  /\ LoopGoesOn(p, "subscribeAll")
  /\ subscr_list' = [subscr_list EXCEPT ![sub_call[p].next] = SetBit(@, p)]

UnsubscribeNext(p) ==
  /\ LoopGoesOn(p, "unsubscribeAll")
  /\ subscr_list' = [subscr_list EXCEPT ![sub_call[p].next] = ClearBit(@, p)]

-----------------------------------------------------------------------------
(* What an active object asked for and was given so far.                   *)
Given(p) ==
  LET isNew(sig) == sub_call[p] = NoCall \/ sig < sub_call[p].next
  IN {sig \in wanted[p] : isNew(sig)} \cup {sig \in had[p] : ~isNew(sig)}

(* EDF_activeObject_publish, of a reserved signal too. One that is too     *)
(* large fails an assertion. The empty signal, 0, does not, although the   *)
(* list has no entry for it: no client is to publish what the state        *)
(* machines keep for themselves, and the model has nobody do it.           *)
PublishCopy(sig) ==
  /\ ~pubsub_failed /\ ~IsAnySet(multicast)
  /\ \/ /\ sig <= MaxSignal
        /\ multicast' = subscr_list[sig]
        /\ sent' = {} /\ due' = {p \in SubPrio : sig \in Given(p)}
        /\ UNCHANGED pubsub_failed
     \/ sig > MaxSignal /\ pubsub_failed' = TRUE /\ UNCHANGED <<multicast, sent, due>>
  /\ UNCHANGED <<subscr_list, sub_call, wanted, had>>

PublishPost ==
  /\ ~pubsub_failed /\ IsAnySet(multicast)
  /\ LET prio == FindMax(multicast) IN
     /\ multicast' = ClearBit(multicast, prio)
     /\ sent' = sent \cup {prio}
  /\ UNCHANGED <<subscr_list, sub_call, pubsub_failed, wanted, had, due>>

PubSubNext ==
  \/ \E p \in SubPrio :
     \/ \E sig \in 0 .. MaxSignal + 1 : Subscribe(p, sig) \/ Unsubscribe(p, sig)
     \/ SubscribeAll(p) \/ UnsubscribeAll(p) \/ SubscribeNext(p) \/ UnsubscribeNext(p)
  \/ \E sig \in 1 .. MaxSignal + 1 : PublishCopy(sig)
  \/ PublishPost

PubSubSpec == PubSubInit /\ [][PubSubNext]_pubsub_vars

-----------------------------------------------------------------------------
SubscribersOf(bitmask) == {q \in 1 .. 8 * SubsLen : IsBitSet(bitmask, q)}

(* However the calls of active objects and a publish interleave, on bits   *)
(* of the same byte too, a signal has exactly the subscribers that asked   *)
(* for it, signal by signal while a loop is under way, and a reserved one  *)
(* has none; and publish posts to those that subscribed when it took its   *)
(* copy, to each once (subscribe, subscribeAll, unsubscribe,               *)
(* unsubscribeAll, publish).                                               *)
SubscribersExact == pubsub_failed \/
  /\ \A sig \in Signals :
       SubscribersOf(subscr_list[sig]) = {p \in SubPrio : sig \in Given(p)}
  /\ SubscribersOf(multicast) \cap sent = {}
  /\ SubscribersOf(multicast) \cup sent = due
=============================================================================
