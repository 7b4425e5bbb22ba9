------------------------- MODULE Registries_proofs --------------------------
(***************************************************************************)
(* The registries of the framework: who has subscribed to which signal,    *)
(* and the event pools.                                                    *)
(***************************************************************************)
EXTENDS PubSub, EventPool, EmfBitmask_proofs, FiniteSetTheorems, SequenceTheorems

(***************************************************************************)
(* Proof that SubscribersExact is an invariant of the subscriber registry, *)
(* for any priorities, any number of signals and bitmasks of any length.   *)
(***************************************************************************)

(* The loops under way: those of subscribeAll want all user signals, those *)
(* of unsubscribeAll none, and both have a user signal next.               *)
LoopsOK == \A p \in SubPrio :
  \/ sub_call[p] = NoCall
  \/ /\ sub_call[p].next \in UserSignals
     /\ \/ sub_call[p].op = "subscribeAll" /\ wanted[p] = UserSignals
        \/ sub_call[p].op = "unsubscribeAll" /\ wanted[p] = {}

RegistryOK ==
  /\ subscr_list \in [Signals -> Bytes(SubsLen)] /\ multicast \in Bytes(SubsLen)
  /\ sub_call \in [SubPrio -> [op : {"none", "subscribeAll", "unsubscribeAll"}, next : Nat]]
  /\ wanted \in [SubPrio -> SUBSET UserSignals] /\ had \in [SubPrio -> SUBSET UserSignals]
  /\ LoopsOK

(* SubscribersExact bit by bit.                                            *)
BitsExact == \A sig \in Signals, q \in Positions(SubsLen) :
  IsBitSet(subscr_list[sig], q) <=> q \in SubPrio /\ sig \in Given(q)
MulticastExact == \A q \in Positions(SubsLen) :
  /\ IsBitSet(multicast, q) => q \notin sent
  /\ IsBitSet(multicast, q) \/ q \in sent <=> q \in due

(* The invariant stops where an assertion fails: the ghosts hold the       *)
(* signal that was refused from then on.                                   *)
PubSubInv ==
  \/ pubsub_failed
  \/ /\ RegistryOK /\ BitsExact /\ MulticastExact
     /\ sent \subseteq Positions(SubsLen) /\ due \subseteq SubPrio

-----------------------------------------------------------------------------
LEMMA NoSubscribersIsEmpty ==
  /\ NoSubscribers \in Bytes(SubsLen)
  /\ \A q \in Positions(SubsLen) : ~IsBitSet(NoSubscribers, q)
<1>1. NoSubscribers = [i \in 0 .. SubsLen - 1 |-> {}]
  BY PubSubAssumption DEF NoSubscribers, BitmaskOf, Bit
<1>2. NoSubscribers \in Bytes(SubsLen)
  BY <1>1 DEF Bytes
<1>3. ASSUME NEW q \in Positions(SubsLen) PROVE ~IsBitSet(NoSubscribers, q)
  BY <1>1, PositionIsByteAndBit, PubSubAssumption DEF IsBitSet
<1> QED BY <1>2, <1>3

LEMMA PubSubInitially == PubSubInit => PubSubInv
<1> SUFFICES ASSUME PubSubInit PROVE PubSubInv
  OBVIOUS
<1>1. RegistryOK
  BY NoSubscribersIsEmpty, PubSubAssumption
  DEF PubSubInit, RegistryOK, LoopsOK, NoCall, UserSignals
<1>2. BitsExact
  BY NoSubscribersIsEmpty DEF PubSubInit, BitsExact, Given
<1>3. MulticastExact
  BY NoSubscribersIsEmpty DEF PubSubInit, MulticastExact
<1> QED BY <1>1, <1>2, <1>3 DEF PubSubInit, PubSubInv

(* What a write of one bit of one entry does to the registry.              *)
LEMMA OneBitWritten ==
  ASSUME subscr_list \in [Signals -> Bytes(SubsLen)], NEW p \in SubPrio, NEW s \in Signals,
         NEW on \in BOOLEAN,
         subscr_list' = [subscr_list EXCEPT ![s] = IF on THEN SetBit(@, p) ELSE ClearBit(@, p)]
  PROVE  /\ subscr_list' \in [Signals -> Bytes(SubsLen)]
         /\ \A sig \in Signals, q \in Positions(SubsLen) :
              IsBitSet(subscr_list'[sig], q) <=>
                IF sig = s /\ q = p THEN on ELSE IsBitSet(subscr_list[sig], q)
<1>1. p \in Positions(SubsLen) /\ SubsLen \in Nat
  BY PubSubAssumption DEF Positions
<1>2. subscr_list[s] \in Bytes(SubsLen)
  OBVIOUS
<1>3. /\ SetBit(subscr_list[s], p) \in Bytes(SubsLen)
      /\ ClearBit(subscr_list[s], p) \in Bytes(SubsLen)
  BY <1>1, <1>2, SetBitSets, ClearBitClears
<1>4. subscr_list' \in [Signals -> Bytes(SubsLen)]
  BY <1>3
<1>5. ASSUME NEW sig \in Signals, NEW q \in Positions(SubsLen)
      PROVE  IsBitSet(subscr_list'[sig], q) <=>
               IF sig = s /\ q = p THEN on ELSE IsBitSet(subscr_list[sig], q)
  <2>1. /\ IsBitSet(SetBit(subscr_list[s], p), q) <=> q = p \/ IsBitSet(subscr_list[s], q)
        /\ IsBitSet(ClearBit(subscr_list[s], p), q) <=> q # p /\ IsBitSet(subscr_list[s], q)
    BY <1>1, <1>2, SetBitSets, ClearBitClears
  <2>2. CASE sig = s /\ on
    <3>1. subscr_list'[sig] = SetBit(subscr_list[s], p)
      BY <2>2
    <3> QED BY <2>1, <2>2, <3>1
  <2>3. CASE sig = s /\ ~on
    <3>1. subscr_list'[sig] = ClearBit(subscr_list[s], p)
      BY <2>3
    <3> QED BY <2>1, <2>3, <3>1
  <2>4. CASE sig # s
    <3>1. subscr_list'[sig] = subscr_list[sig]
      BY <2>4
    <3> QED BY <2>4, <3>1
  <2> QED BY <2>2, <2>3, <2>4
<1> QED BY <1>4, <1>5

(* A change of the calls leaves the multicast under way alone.             *)
LEMMA MulticastUnchanged ==
  ASSUME PubSubInv, ~pubsub_failed, RegistryOK', BitsExact', UNCHANGED <<multicast, sent, due>>
  PROVE  PubSubInv'
<1>1. MulticastExact'
  BY DEF PubSubInv, MulticastExact
<1> QED BY <1>1 DEF PubSubInv

LEMMA OneSignalPreserves ==
  ASSUME PubSubInv, NEW p \in SubPrio, NEW sig \in 0 .. MaxSignal + 1,
         Subscribe(p, sig) \/ Unsubscribe(p, sig)
  PROVE  PubSubInv'
<1>1. CASE pubsub_failed'
  BY <1>1 DEF PubSubInv
<1>2. CASE ~pubsub_failed'
  <2>1. /\ ~pubsub_failed /\ ~pubsub_failed' /\ sub_call[p] = NoCall /\ sub_call' = sub_call
        /\ Valid(sig) /\ UNCHANGED <<multicast, sent, due>>
        /\ had' = [had EXCEPT ![p] = wanted[p]]
        /\ RegistryOK /\ BitsExact
    BY <1>2 DEF Subscribe, Unsubscribe, Calls, PubSubInv
  <2>2. sig \in UserSignals /\ sig \in Signals
    BY <2>1, PubSubAssumption DEF Valid, UserSignals, Signals
  <2>3. PICK adds \in BOOLEAN :
          /\ subscr_list' = [subscr_list EXCEPT ![sig] =
               IF adds THEN SetBit(@, p) ELSE ClearBit(@, p)]
          /\ wanted' = [wanted EXCEPT ![p] =
               IF adds THEN wanted[p] \cup {sig} ELSE wanted[p] \ {sig}]
    <3>1. CASE Subscribe(p, sig)
      BY <3>1, <2>1 DEF Subscribe, Calls
    <3>2. CASE Unsubscribe(p, sig)
      BY <3>2, <2>1 DEF Unsubscribe, Calls
    <3> QED BY <3>1, <3>2
  <2>4. /\ subscr_list' \in [Signals -> Bytes(SubsLen)]
        /\ \A s \in Signals, q \in Positions(SubsLen) :
             IsBitSet(subscr_list'[s], q) <=>
               IF s = sig /\ q = p THEN adds ELSE IsBitSet(subscr_list[s], q)
    BY <2>1, <2>2, <2>3, OneBitWritten DEF RegistryOK
  <2>5. RegistryOK'
    <3>1. LoopsOK'
      BY <2>1, <2>3 DEF RegistryOK, LoopsOK
    <3>2. wanted' \in [SubPrio -> SUBSET UserSignals] /\ had' \in [SubPrio -> SUBSET UserSignals]
      BY <2>1, <2>2, <2>3 DEF RegistryOK
    <3> QED BY <2>1, <2>4, <3>1, <3>2 DEF RegistryOK
  <2>6. \A q \in SubPrio, s \in Signals : s \in Given(q)' <=>
          IF s = sig /\ q = p THEN adds ELSE s \in Given(q)
    <3> SUFFICES ASSUME NEW q \in SubPrio, NEW s \in Signals
                 PROVE  s \in Given(q)' <=> IF s = sig /\ q = p THEN adds ELSE s \in Given(q)
      OBVIOUS
    <3>1. CASE q = p
      <4>1. Given(q) = wanted[p] /\ Given(q)' = wanted'[p]
        BY <3>1, <2>1 DEF Given
      <4>2. wanted'[p] = IF adds THEN wanted[p] \cup {sig} ELSE wanted[p] \ {sig}
        BY <2>1, <2>3 DEF RegistryOK
      <4> QED BY <3>1, <4>1, <4>2
    <3>2. CASE q # p
      <4>1. wanted'[q] = wanted[q] /\ had'[q] = had[q]
        BY <3>2, <2>1, <2>3 DEF RegistryOK
      <4> QED BY <3>2, <4>1, <2>1 DEF Given
    <3> QED BY <3>1, <3>2
  <2>7. BitsExact'
    BY <2>1, <2>4, <2>6 DEF BitsExact
  <2> QED BY <2>1, <2>5, <2>7, MulticastUnchanged
<1> QED BY <1>1, <1>2

(* The beginning of a loop: nothing is given yet, so what the active       *)
(* object has is what it wanted before.                                    *)
LEMMA LoopBeginPreserves ==
  ASSUME PubSubInv, NEW p \in SubPrio, SubscribeAll(p) \/ UnsubscribeAll(p)
  PROVE  PubSubInv'
<1>1. /\ ~pubsub_failed /\ ~pubsub_failed' /\ sub_call[p] = NoCall
      /\ UNCHANGED <<subscr_list, pubsub_failed, multicast, sent, due>>
      /\ had' = [had EXCEPT ![p] = wanted[p]]
      /\ RegistryOK /\ BitsExact
  BY DEF SubscribeAll, UnsubscribeAll, Calls, PubSubInv
<1>2. PICK op \in {"subscribeAll", "unsubscribeAll"}, signals \in SUBSET UserSignals :
        /\ sub_call' = [sub_call EXCEPT ![p] = [op |-> op, next |-> UserSignal]]
        /\ wanted' = [wanted EXCEPT ![p] = signals]
        /\ op = "subscribeAll" => signals = UserSignals
        /\ op = "unsubscribeAll" => signals = {}
  <2>1. CASE SubscribeAll(p)
    BY <2>1 DEF SubscribeAll, Calls, Loop
  <2>2. CASE UnsubscribeAll(p)
    BY <2>2 DEF UnsubscribeAll, Calls, Loop
  <2> QED BY <2>1, <2>2
<1>3. RegistryOK'
  <2>1. LoopsOK'
    <3> SUFFICES ASSUME NEW q \in SubPrio, sub_call'[q] # NoCall
                 PROVE  /\ sub_call'[q].next \in UserSignals
                        /\ \/ sub_call'[q].op = "subscribeAll" /\ wanted'[q] = UserSignals
                           \/ sub_call'[q].op = "unsubscribeAll" /\ wanted'[q] = {}
      BY DEF LoopsOK
    <3>1. CASE q = p
      <4>1. /\ sub_call'[q] = [op |-> op, next |-> UserSignal]
            /\ wanted'[q] = signals
        BY <3>1, <1>1, <1>2 DEF RegistryOK
      <4>2. UserSignal \in UserSignals
        BY PubSubAssumption DEF UserSignals
      <4> QED BY <4>1, <4>2, <1>2
    <3>2. CASE q # p
      <4>1. sub_call'[q] = sub_call[q] /\ wanted'[q] = wanted[q]
        BY <3>2, <1>1, <1>2 DEF RegistryOK
      <4> QED BY <4>1, <1>1 DEF RegistryOK, LoopsOK
    <3> QED BY <3>1, <3>2
  <2>2. sub_call' \in [SubPrio -> [op : {"none", "subscribeAll", "unsubscribeAll"}, next : Nat]]
    BY <1>1, <1>2, PubSubAssumption DEF RegistryOK
  <2>3. wanted' \in [SubPrio -> SUBSET UserSignals] /\ had' \in [SubPrio -> SUBSET UserSignals]
    BY <1>1, <1>2 DEF RegistryOK
  <2> QED BY <1>1, <2>1, <2>2, <2>3 DEF RegistryOK
<1>4. \A q \in SubPrio : Given(q)' = Given(q)
  <2> SUFFICES ASSUME NEW q \in SubPrio PROVE Given(q)' = Given(q)
    OBVIOUS
  <2>1. CASE q = p
    <3>1. sub_call'[q] # NoCall /\ sub_call'[q].next = UserSignal /\ had'[q] = wanted[q]
      BY <1>1, <1>2, <2>1, PubSubAssumption DEF RegistryOK, NoCall
    <3>2. wanted[q] \subseteq UserSignals /\ wanted'[q] \subseteq UserSignals
      BY <1>1, <1>3 DEF RegistryOK
    <3>3. Given(q) = wanted[q]
      BY <1>1, <2>1 DEF Given
    <3>4. Given(q)' = had'[q]
      BY <3>1, <3>2, PubSubAssumption DEF Given, UserSignals
    <3> QED BY <3>1, <3>3, <3>4
  <2>2. CASE q # p
    <3>1. wanted'[q] = wanted[q] /\ had'[q] = had[q] /\ sub_call'[q] = sub_call[q]
      BY <1>1, <1>2, <2>2 DEF RegistryOK
    <3> QED BY <3>1 DEF Given
  <2> QED BY <2>1, <2>2
<1>5. BitsExact'
  BY <1>1, <1>4 DEF BitsExact
<1> QED BY <1>1, <1>3, <1>5, MulticastUnchanged

(* A round of a loop: the next signal is given.                            *)
LEMMA LoopPreserves ==
  ASSUME PubSubInv, NEW p \in SubPrio, SubscribeNext(p) \/ UnsubscribeNext(p)
  PROVE  PubSubInv'
<1> DEFINE sig == sub_call[p].next
<1>1. /\ ~pubsub_failed /\ ~pubsub_failed' /\ sub_call[p] # NoCall
      /\ UNCHANGED <<pubsub_failed, multicast, sent, due, wanted, had>>
      /\ RegistryOK /\ BitsExact
  BY DEF SubscribeNext, UnsubscribeNext, LoopGoesOn, PubSubInv, NoCall
<1>2. sig \in UserSignals /\ sig \in Signals /\ sig \in Nat
  BY <1>1, PubSubAssumption DEF RegistryOK, LoopsOK, UserSignals, Signals
<1>3. PICK on \in BOOLEAN :
        /\ subscr_list' = [subscr_list EXCEPT ![sig] = IF on THEN SetBit(@, p) ELSE ClearBit(@, p)]
        /\ wanted[p] = IF on THEN UserSignals ELSE {}
  <2>1. CASE SubscribeNext(p)
    BY <2>1, <1>1 DEF SubscribeNext, LoopGoesOn, RegistryOK, LoopsOK
  <2>2. CASE UnsubscribeNext(p)
    BY <2>2, <1>1 DEF UnsubscribeNext, LoopGoesOn, RegistryOK, LoopsOK
  <2> QED BY <2>1, <2>2
<1>4. /\ subscr_list' \in [Signals -> Bytes(SubsLen)]
      /\ \A s \in Signals, q \in Positions(SubsLen) :
           IsBitSet(subscr_list'[s], q) <=>
             IF s = sig /\ q = p THEN on ELSE IsBitSet(subscr_list[s], q)
  BY <1>1, <1>2, <1>3, OneBitWritten DEF RegistryOK
<1>5. sub_call' = [sub_call EXCEPT ![p] =
        IF sig < MaxSignal THEN [op |-> sub_call[p].op, next |-> sig + 1] ELSE NoCall]
  BY DEF SubscribeNext, UnsubscribeNext, LoopGoesOn
<1>6. RegistryOK'
  <2>1. sub_call' \in [SubPrio -> [op : {"none", "subscribeAll", "unsubscribeAll"}, next : Nat]]
    BY <1>1, <1>2, <1>5 DEF RegistryOK, NoCall
  <2>2. LoopsOK'
    <3> SUFFICES ASSUME NEW q \in SubPrio, sub_call'[q] # NoCall
                 PROVE  /\ sub_call'[q].next \in UserSignals
                        /\ \/ sub_call'[q].op = "subscribeAll" /\ wanted'[q] = UserSignals
                           \/ sub_call'[q].op = "unsubscribeAll" /\ wanted'[q] = {}
      BY DEF LoopsOK
    <3>1. CASE q = p
      <4>1. sig < MaxSignal /\ sub_call'[q] = [op |-> sub_call[p].op, next |-> sig + 1]
        BY <3>1, <1>1, <1>5 DEF RegistryOK
      <4>2. sig + 1 \in UserSignals
        BY <4>1, <1>2, PubSubAssumption DEF UserSignals
      <4> QED BY <3>1, <4>1, <4>2, <1>1 DEF RegistryOK, LoopsOK
    <3>2. CASE q # p
      <4>1. sub_call'[q] = sub_call[q]
        BY <3>2, <1>1, <1>5 DEF RegistryOK
      <4> QED BY <4>1, <1>1 DEF RegistryOK, LoopsOK
    <3> QED BY <3>1, <3>2
  <2> QED BY <1>1, <1>4, <2>1, <2>2 DEF RegistryOK
<1>7. \A q \in SubPrio, s \in Signals : s \in Given(q)' <=>
        IF s = sig /\ q = p THEN on ELSE s \in Given(q)
  <2> SUFFICES ASSUME NEW q \in SubPrio, NEW s \in Signals
               PROVE  s \in Given(q)' <=> IF s = sig /\ q = p THEN on ELSE s \in Given(q)
    OBVIOUS
  <2>1. CASE q = p
    <3>1. s \in Given(q) <=> (s < sig /\ s \in wanted[p]) \/ (~(s < sig) /\ s \in had[p])
      BY <2>1, <1>1 DEF Given
    <3>2. s \in Given(q)' <=> (s <= sig /\ s \in wanted[p]) \/ (~(s <= sig) /\ s \in had[p])
      <4>1. CASE sig < MaxSignal
        <5>1. sub_call'[q] # NoCall /\ sub_call'[q].next = sig + 1
          BY <4>1, <2>1, <1>1, <1>2, <1>5 DEF RegistryOK, NoCall
        <5>2. s < sig + 1 <=> s <= sig
          BY <1>2 DEF Signals
        <5> QED BY <5>1, <5>2, <2>1, <1>1 DEF Given
      <4>2. CASE ~(sig < MaxSignal)
        <5>1. sub_call'[q] = NoCall
          BY <4>2, <2>1, <1>1, <1>5 DEF RegistryOK
        <5>2. s <= sig
          BY <4>2, <1>2, PubSubAssumption DEF Signals
        <5> QED BY <5>1, <5>2, <2>1, <1>1 DEF Given
      <4> QED BY <4>1, <4>2
    <3>3. s <= sig <=> s < sig \/ s = sig
      BY <1>2 DEF Signals
    <3>4. s = sig => (s \in wanted[p] <=> on)
      BY <1>2, <1>3
    <3> QED BY <2>1, <3>1, <3>2, <3>3, <3>4, <1>2
  <2>2. CASE q # p
    <3>1. sub_call'[q] = sub_call[q]
      BY <2>2, <1>1, <1>5 DEF RegistryOK
    <3> QED BY <2>2, <3>1, <1>1 DEF Given
  <2> QED BY <2>1, <2>2
<1>8. BitsExact'
  BY <1>1, <1>4, <1>7 DEF BitsExact
<1> QED BY <1>1, <1>6, <1>8, MulticastUnchanged

-----------------------------------------------------------------------------
(* Publish: the copy holds the subscribers, and each post takes one out.   *)
LEMMA CopyPreserves ==
  ASSUME PubSubInv, NEW sig \in 1 .. MaxSignal + 1, PublishCopy(sig)
  PROVE  PubSubInv'
<1> SUFFICES ASSUME sig <= MaxSignal PROVE PubSubInv'
  BY DEF PublishCopy, PubSubInv
<1>0. sig \in Signals
  BY PubSubAssumption DEF Signals
<1>1. /\ ~pubsub_failed /\ RegistryOK /\ BitsExact /\ multicast' = subscr_list[sig]
      /\ sent' = {} /\ due' = {p \in SubPrio : sig \in Given(p)}
      /\ UNCHANGED <<subscr_list, sub_call, pubsub_failed, wanted, had>>
  BY PubSubAssumption DEF PublishCopy, PubSubInv
<1>2. RegistryOK'
  BY <1>0, <1>1 DEF RegistryOK, LoopsOK
<1>3. BitsExact'
  BY <1>1 DEF BitsExact, Given
<1>4. MulticastExact'
  BY <1>0, <1>1 DEF BitsExact, MulticastExact
<1> QED BY <1>1, <1>2, <1>3, <1>4 DEF PubSubInv

LEMMA AnySetHasABit ==
  ASSUME NEW bitmask \in Bytes(SubsLen), IsAnySet(bitmask)
  PROVE  \E q \in Positions(SubsLen) : IsBitSet(bitmask, q)
<1>1. PICK i \in 0 .. SubsLen - 1 : bitmask[i] # {}
  BY DEF IsAnySet, Bytes
<1>2. PICK b \in Bit : b \in bitmask[i]
  BY <1>1 DEF Bytes
<1>3. IsBitSet(bitmask, b + 1 + 8 * i) /\ b + 1 + 8 * i \in Positions(SubsLen)
  BY <1>2, ByteAndBitArePosition, PubSubAssumption DEF IsBitSet
<1> QED BY <1>3

LEMMA PostPreserves ==
  ASSUME PubSubInv, PublishPost
  PROVE  PubSubInv'
<1> DEFINE prio == FindMax(multicast)
<1>1. /\ ~pubsub_failed /\ RegistryOK /\ BitsExact /\ MulticastExact
      /\ sent \subseteq Positions(SubsLen) /\ due \subseteq SubPrio
      /\ IsAnySet(multicast) /\ multicast \in Bytes(SubsLen) /\ SubsLen \in Nat
      /\ multicast' = ClearBit(multicast, prio) /\ sent' = sent \cup {prio}
      /\ UNCHANGED <<subscr_list, sub_call, pubsub_failed, wanted, had, due>>
  BY PubSubAssumption DEF PublishPost, PubSubInv, RegistryOK
<1>2. prio \in Positions(SubsLen) /\ IsBitSet(multicast, prio)
  BY <1>1, AnySetHasABit, FindMaxFindsABit
<1>3. /\ multicast' \in Bytes(SubsLen)
      /\ \A q \in Positions(SubsLen) :
           IsBitSet(multicast', q) <=> q # prio /\ IsBitSet(multicast, q)
  BY <1>1, <1>2, ClearBitClears
<1>4. RegistryOK'
  BY <1>1, <1>3 DEF RegistryOK, LoopsOK
<1>5. BitsExact'
  BY <1>1 DEF BitsExact, Given
<1>6. MulticastExact'
  BY <1>1, <1>2, <1>3 DEF MulticastExact
<1> QED BY <1>1, <1>2, <1>4, <1>5, <1>6 DEF PubSubInv

LEMMA PubSubStep == PubSubInv /\ [PubSubNext]_pubsub_vars => PubSubInv'
<1> SUFFICES ASSUME PubSubInv, [PubSubNext]_pubsub_vars PROVE PubSubInv'
  OBVIOUS
<1>1. CASE \E p \in SubPrio, sig \in 0 .. MaxSignal + 1 : Subscribe(p, sig) \/ Unsubscribe(p, sig)
  BY <1>1, OneSignalPreserves
<1>2. CASE \E p \in SubPrio : SubscribeAll(p) \/ UnsubscribeAll(p)
  BY <1>2, LoopBeginPreserves
<1>3. CASE \E p \in SubPrio : SubscribeNext(p) \/ UnsubscribeNext(p)
  BY <1>3, LoopPreserves
<1>4. CASE \E sig \in 1 .. MaxSignal + 1 : PublishCopy(sig)
  BY <1>4, CopyPreserves
<1>5. CASE PublishPost
  BY <1>5, PostPreserves
<1>6. CASE UNCHANGED pubsub_vars
  BY <1>6 DEF pubsub_vars, PubSubInv, RegistryOK, LoopsOK, BitsExact, MulticastExact, Given
<1> QED BY <1>1, <1>2, <1>3, <1>4, <1>5, <1>6 DEF PubSubNext

LEMMA BitByBit == PubSubInv => SubscribersExact
<1> SUFFICES ASSUME PubSubInv, ~pubsub_failed PROVE SubscribersExact
  BY DEF SubscribersExact
<1>1. /\ BitsExact /\ MulticastExact /\ sent \subseteq Positions(SubsLen) /\ due \subseteq SubPrio
  BY DEF PubSubInv
<1>2. SubPrio \subseteq Positions(SubsLen) /\ Positions(SubsLen) = 1 .. 8 * SubsLen
  BY PubSubAssumption DEF Positions
<1>3. \A sig \in Signals :
        SubscribersOf(subscr_list[sig]) = {p \in SubPrio : sig \in Given(p)}
  BY <1>1, <1>2 DEF BitsExact, SubscribersOf
<1>4. SubscribersOf(multicast) \cap sent = {} /\ SubscribersOf(multicast) \cup sent = due
  BY <1>1, <1>2 DEF MulticastExact, SubscribersOf
<1> QED BY <1>3, <1>4 DEF SubscribersExact

(* A signal has exactly the subscribers that asked for it, signal by       *)
(* signal while subscribeAll or unsubscribeAll is under way, and publish   *)
(* posts once to each of those that subscribed when it took its copy, for  *)
(* any priorities, any number of signals and bitmasks of any length.       *)
THEOREM SubscribersAreExact == PubSubSpec => []SubscribersExact
BY PubSubInitially, PubSubStep, BitByBit, PTL DEF PubSubSpec

-----------------------------------------------------------------------------
(***************************************************************************)
(* Proofs about the event pools, for any number and size of pools, blocks  *)
(* and events: the free lists stay sound, events fit their blocks, and the *)
(* pools implement BlockStore. A free list is a sequence of nodes, so that *)
(* the chain of links of the code is a function of that sequence.          *)
(***************************************************************************)

(* Arithmetic of blocks: i * s is where block i begins.                    *)
LEMMA MultipleAdds ==
  ASSUME NEW i \in Int, NEW j \in Int, NEW s \in Int
  PROVE  (i + j) * s = i * s + j * s /\ i * s \in Int
  OBVIOUS

LEMMA MultipleIsNat ==
  ASSUME NEW i \in Nat, NEW s \in Nat
  PROVE  i * s \in Nat /\ (i >= 1 => i * s >= s)
  OBVIOUS

LEMMA MultipleGrows ==
  ASSUME NEW i \in Nat, NEW j \in Nat, NEW s \in Nat, i <= j
  PROVE  i * s <= j * s
  OBVIOUS

LEMMA MultipleApart ==
  ASSUME NEW i \in Nat, NEW j \in Nat, NEW s \in Nat \ {0}, i < j
  PROVE  i * s + s <= j * s /\ i * s # j * s
  OBVIOUS

LEMMA DivideExact ==
  ASSUME NEW q \in Nat, NEW P \in Nat \ {0}
  PROVE  (q * P) \div P = q /\ (q * P) % P = 0
  OBVIOUS

LEMMA DivideFits ==
  ASSUME NEW a \in Nat, NEW b \in Nat \ {0}
  PROVE  /\ a \div b \in Nat /\ (a \div b) * b <= a /\ a < (a \div b) * b + b
         /\ b <= a => a \div b >= 1
  OBVIOUS

-----------------------------------------------------------------------------
Stride(pool) == pool.block_size \div PtrSize

PoolRec ==
  [block_size : Nat, free_head : Nat \cup {NoBlock}, n_total : Nat, n_free : Nat,
   n_min : Nat, start : {0}, end : Nat, size : Nat]
Words == UNION {[B -> B \cup {NoBlock, Data}] : B \in SUBSET Nat}

(* What EDF_pool_init fixes: blocks of a whole number of pointers, as many *)
(* as fit into the storage.                                                *)
Geometry(pool) ==
  /\ pool.block_size \in 1 .. SizeMod - 1 /\ Stride(pool) \in Nat \ {0}
  /\ pool.block_size = Stride(pool) * PtrSize
  /\ pool.n_total \in 1 .. BlockCntMod - 2
  /\ pool.end = (pool.n_total - 1) * Stride(pool)
  /\ pool.n_total * pool.block_size <= pool.size

(* The free list consists of nodes, from the head, and of all blocks that  *)
(* are not in mine, the blocks in the hands of clients.                    *)
FreeList(pool, w, mine, nodes) ==
  /\ nodes \in [1 .. pool.n_free -> Blocks(pool)]
  /\ \A i, j \in 1 .. pool.n_free : nodes[i] = nodes[j] => i = j
  /\ pool.free_head = IF pool.n_free = 0 THEN NoBlock ELSE nodes[1]
  /\ \A i \in 1 .. pool.n_free :
       w[nodes[i]] = IF i = pool.n_free THEN NoBlock ELSE nodes[i + 1]
  /\ mine = Blocks(pool) \ {nodes[i] : i \in 1 .. pool.n_free}

PoolOK(pool, w, mine) ==
  /\ Geometry(pool)
  /\ w \in [Blocks(pool) -> Blocks(pool) \cup {NoBlock, Data}]
  /\ pool.n_min <= pool.n_free
  /\ \E nodes : FreeList(pool, w, mine, nodes)

(* The events that clients own are in blocks of their own, each in the     *)
(* smallest block that holds it.                                           *)
EventsPlaced ==
  /\ owned \subseteq (DOMAIN pools) \X Nat \X EventSize
  /\ \A x, y \in owned : x[1] = y[1] /\ x[2] = y[2] => x = y
  /\ \A o \in owned : /\ o[3] <= pools[o[1]].block_size
                      /\ \A p \in 1 .. o[1] - 1 : pools[p].block_size < o[3]

PoolInv ==
  /\ pools \in Seq(PoolRec) /\ word \in Seq(Words)
  /\ Len(pools) <= MaxPool /\ Len(word) = Len(pools)
  /\ \A p \in 1 .. Len(pools) : PoolOK(pools[p], word[p], OwnedBlocks(p))
  /\ EventsPlaced
  /\ pools_failed \in {"no", "init", "hang", "no_pool", "exhausted"}

-----------------------------------------------------------------------------
(* The blocks of a pool lie apart, inside its storage.                     *)
LEMMA BlocksLie ==
  ASSUME NEW pool \in PoolRec, Geometry(pool)
  PROVE  /\ \A b \in Blocks(pool) :
              /\ b \in Nat /\ b \in 0 .. pool.end
              /\ b * PtrSize + pool.block_size <= pool.size
              /\ b # pool.end => b + Stride(pool) \in Blocks(pool)
         /\ 0 \in Blocks(pool) /\ pool.end \in Blocks(pool)
         /\ NoBlock \notin Blocks(pool) /\ Data \notin Blocks(pool)
  <1> DEFINE s == Stride(pool)
             n == pool.n_total
  <1>1. /\ PtrSize \in Nat \ {0} /\ SizeMod \in Nat /\ BlockCntMod \in Nat /\ s \in Nat \ {0} /\ n \in Nat
        /\ n >= 1 /\ n <= BlockCntMod - 2 /\ pool.block_size = s * PtrSize /\ pool.block_size \in Nat
        /\ pool.block_size < SizeMod /\ pool.end = (n - 1) * s /\ n * pool.block_size <= pool.size
        /\ n - 1 \in Nat /\ pool.size \in Nat
    BY PoolAssumption DEF Geometry, PoolRec
  <1>2. Blocks(pool) = {i * s : i \in 0 .. n - 1}
    BY DEF Blocks, Stride
  <1> HIDE DEF s, n
  <1>3. ASSUME NEW i \in 0 .. n - 1
        PROVE  /\ i * s \in Nat /\ i * s <= pool.end
               /\ (i * s) * PtrSize + pool.block_size <= pool.size
               /\ i * s # pool.end => i * s + s \in Blocks(pool)
    <2>1. i \in Nat /\ i <= n - 1 /\ i + 1 \in Nat /\ i + 1 <= n
      BY <1>1
    <2>2. i * s \in Nat /\ i * s <= (n - 1) * s
      BY <1>1, <2>1, MultipleIsNat, MultipleGrows
    <2>3. (i * s) * PtrSize = i * pool.block_size
      BY <1>1, <2>1
    <2>4. i * pool.block_size + pool.block_size = (i + 1) * pool.block_size
      BY <1>1, <2>1
    <2>5. (i + 1) * pool.block_size <= n * pool.block_size
      BY <1>1, <2>1, MultipleGrows
    <2>6. i * pool.block_size \in Nat /\ n * pool.block_size \in Nat
      BY <1>1, <2>1, MultipleIsNat
    <2>7. (i * s) * PtrSize + pool.block_size <= pool.size
      BY <1>1, <2>3, <2>4, <2>5, <2>6
    <2>8. i * s # pool.end => i + 1 \in 0 .. n - 1 /\ (i + 1) * s = i * s + s
      BY <1>1, <2>1
    <2> QED BY <1>1, <1>2, <2>2, <2>7, <2>8
  <1>4. 0 \in 0 .. n - 1 /\ n - 1 \in 0 .. n - 1 /\ 0 * s = 0
    BY <1>1
  <1>5. 0 \in Blocks(pool) /\ pool.end \in Blocks(pool)
    BY <1>1, <1>2, <1>4
  <1>6. pool.end \in 0 .. SizeMod * BlockCntMod
    <2>1. s <= s * PtrSize
      BY <1>1
    <2>2. s <= SizeMod
      BY <1>1, <2>1
    <2>3. (n - 1) * s <= BlockCntMod * s
      BY <1>1, MultipleGrows
    <2>4. s * BlockCntMod <= SizeMod * BlockCntMod
      BY <1>1, <2>2, MultipleGrows
    <2>5. BlockCntMod * s = s * BlockCntMod /\ (n - 1) * s \in Nat /\ s * BlockCntMod \in Nat
          /\ SizeMod * BlockCntMod \in Nat
      BY <1>1, MultipleIsNat
    <2> QED BY <1>1, <2>3, <2>4, <2>5
  <1>7. \A b \in Blocks(pool) : b \in Nat /\ b <= pool.end
    BY <1>2, <1>3
  <1>8. SizeMod * BlockCntMod \in Nat
    BY <1>1, MultipleIsNat
  <1>9. NoBlock \notin Blocks(pool) /\ Data \notin Blocks(pool)
    BY <1>6, <1>7, <1>8, PoolAssumption
  <1> QED BY <1>2, <1>3, <1>5, <1>7, <1>9 DEF s

LEMMA BlocksCount ==
  ASSUME NEW pool \in PoolRec, Geometry(pool)
  PROVE  IsFiniteSet(Blocks(pool)) /\ Cardinality(Blocks(pool)) = pool.n_total
  <1> DEFINE s == Stride(pool)
             n == pool.n_total
             f == [i \in 1 .. n |-> (i - 1) * s]
  <1>1. s \in Nat \ {0} /\ n \in Nat /\ n >= 1
    BY PoolAssumption DEF Geometry, PoolRec
  <1>2. Blocks(pool) = {i * s : i \in 0 .. n - 1}
    BY DEF Blocks, Stride
  <1> HIDE DEF s, n
  <1>3. \A i \in 1 .. n : i - 1 \in 0 .. n - 1 /\ i - 1 \in Nat
    BY <1>1
  <1>4. f \in [1 .. n -> Blocks(pool)]
    BY <1>2, <1>3
  <1>5. ASSUME NEW i \in 1 .. n, NEW j \in 1 .. n, f[i] = f[j]
        PROVE  i = j
    <2>1. i - 1 \in Nat /\ j - 1 \in Nat /\ (i - 1) * s = (j - 1) * s
      BY <1>3, <1>5
    <2>2. ~(i - 1 < j - 1) /\ ~(j - 1 < i - 1)
      BY <1>1, <2>1, MultipleApart
    <2> QED BY <1>1, <2>1, <2>2
  <1>6. \A b \in Blocks(pool) : \E i \in 1 .. n : f[i] = b
    <2> SUFFICES ASSUME NEW k \in 0 .. n - 1
                 PROVE  \E i \in 1 .. n : f[i] = k * s
      BY <1>2
    <2>1. k + 1 \in 1 .. n /\ (k + 1) - 1 = k
      BY <1>1
    <2> QED BY <2>1
  <1> HIDE DEF f
  <1>7. f \in Bijection(1 .. n, Blocks(pool))
    BY <1>4, <1>5, <1>6 DEF Bijection, Injection, Surjection, IsInjective
  <1>8. IsFiniteSet(1 .. n) /\ Cardinality(1 .. n) = n
    <2>1. 1 \in Int /\ n \in Int
      BY <1>1
    <2> QED BY <1>1, <2>1, FS_Interval
  <1>9. ExistsBijection(1 .. n, Blocks(pool))
    BY <1>7 DEF ExistsBijection
  <1>10. IsFiniteSet(Blocks(pool)) /\ Cardinality(Blocks(pool)) = n
    BY <1>8, <1>9, FS_Bijection
  <1> QED BY <1>10 DEF n

(* Free and owned blocks are all blocks.                                   *)
Nodes(pool, nodes) == {nodes[i] : i \in 1 .. pool.n_free}

LEMMA FreeCount ==
  ASSUME NEW pool \in PoolRec, Geometry(pool), NEW w, NEW mine, NEW nodes,
         FreeList(pool, w, mine, nodes)
  PROVE  /\ Cardinality(Nodes(pool, nodes)) = pool.n_free
         /\ Nodes(pool, nodes) = Blocks(pool) \ mine
         /\ mine \subseteq Blocks(pool) /\ IsFiniteSet(mine)
         /\ pool.n_free + Cardinality(mine) = pool.n_total
         /\ mine # {} => pool.n_free < pool.n_total
  <1> DEFINE n == pool.n_free
             free == {nodes[i] : i \in 1 .. n}
             all == Blocks(pool)
  <1>1. /\ n \in Nat /\ nodes \in [1 .. n -> all]
        /\ \A i, j \in 1 .. n : nodes[i] = nodes[j] => i = j
        /\ mine = all \ free /\ free \subseteq all
    BY DEF PoolRec, FreeList
  <1>2. IsFiniteSet(all) /\ Cardinality(all) = pool.n_total /\ pool.n_total \in Nat
    BY BlocksCount DEF PoolRec
  <1> HIDE DEF n, all
  <1>3. nodes \in Bijection(1 .. n, free)
    BY <1>1 DEF Bijection, Injection, Surjection, IsInjective
  <1> HIDE DEF free
  <1>4. IsFiniteSet(1 .. n) /\ Cardinality(1 .. n) = n
    <2>1. 1 \in Int /\ n \in Int
      BY <1>1
    <2> QED BY <1>1, <2>1, FS_Interval
  <1>5. IsFiniteSet(free) /\ Cardinality(free) = n
    <2>1. ExistsBijection(1 .. n, free)
      BY <1>3 DEF ExistsBijection
    <2> QED BY <1>4, <2>1, FS_Bijection
  <1>6. /\ IsFiniteSet(mine) /\ Cardinality(mine) = Cardinality(all) - Cardinality(all \cap free)
        /\ all \cap free = free /\ free = all \ mine
    BY <1>1, <1>2, FS_Difference
  <1>7. Cardinality(mine) \in Nat /\ (mine # {} => Cardinality(mine) # 0)
    BY <1>6, FS_CardinalityType, FS_EmptySet
  <1>8. n + Cardinality(mine) = pool.n_total
    <2>1. Cardinality(mine) = pool.n_total - n
      BY <1>2, <1>5, <1>6
    <2> QED BY <1>1, <1>2, <2>1
  <1>9. mine # {} => n < pool.n_total
    BY <1>1, <1>2, <1>7, <1>8
  <1> QED BY <1>1, <1>5, <1>6, <1>8, <1>9 DEF n, all, free, Nodes

-----------------------------------------------------------------------------
(* The chain of links from the head runs through the free list to NoBlock. *)
ChainBy(pool, w) ==
  LET chain[k \in 0 .. pool.n_total] ==
        IF k = 0 THEN pool.free_head
        ELSE IF chain[k - 1] \in Blocks(pool) THEN w[chain[k - 1]]
        ELSE chain[k - 1]
  IN  chain

LEMMA ChainIs ==
  ASSUME NEW pool \in PoolRec, Geometry(pool), NEW w, NEW mine, NEW nodes,
         FreeList(pool, w, mine, nodes)
  PROVE  /\ \A k \in 0 .. pool.n_free - 1 : ChainBy(pool, w)[k] = nodes[k + 1]
         /\ ChainBy(pool, w)[pool.n_free] = NoBlock
  <1> DEFINE N == pool.n_total
             n == pool.n_free
             Step(f, k) == IF k = 0 THEN pool.free_head
                           ELSE IF f[k - 1] \in Blocks(pool) THEN w[f[k - 1]]
                           ELSE f[k - 1]
             g == [k \in 0 .. N |-> IF k < n THEN nodes[k + 1] ELSE NoBlock]
  <1>1. /\ n \in Nat /\ N \in Nat /\ nodes \in [1 .. n -> Blocks(pool)]
        /\ pool.free_head = IF n = 0 THEN NoBlock ELSE nodes[1]
        /\ \A i \in 1 .. n : w[nodes[i]] = IF i = n THEN NoBlock ELSE nodes[i + 1]
        /\ NoBlock \notin Blocks(pool)
    BY BlocksLie DEF PoolRec, FreeList
  <1>2. n <= N
    <2>1. pool.n_free + Cardinality(mine) = pool.n_total /\ IsFiniteSet(mine)
      BY FreeCount
    <2>2. Cardinality(mine) \in Nat
      BY <2>1, FS_CardinalityType
    <2> QED BY <1>1, <2>1, <2>2
  <1>3. ChainBy(pool, w) = CHOOSE f : f = [k \in 0 .. N |-> Step(f, k)]
    BY DEF ChainBy
  <1> HIDE DEF N, n
  <1>4. ASSUME NEW k \in 0 .. N
        PROVE  g[k] = Step(g, k)
    <2>1. CASE k = 0
      BY <1>1, <2>1
    <2>2. CASE k # 0
      <3>1. k - 1 \in 0 .. N /\ (k - 1) + 1 = k /\ g[k - 1] = IF k - 1 < n THEN nodes[k] ELSE NoBlock
        BY <1>1, <2>2
      <3>2. CASE k - 1 < n
        <4>1. k \in 1 .. n /\ (k < n <=> k # n)
          BY <1>1, <2>2, <3>2
        <4>2. g[k] = IF k < n THEN nodes[k + 1] ELSE NoBlock
          OBVIOUS
        <4>3. g[k - 1] = nodes[k] /\ nodes[k] \in Blocks(pool) /\ w[nodes[k]] = g[k]
          BY <1>1, <3>1, <3>2, <4>1, <4>2
        <4> HIDE DEF g
        <4> QED BY <2>2, <4>3
      <3>3. CASE ~(k - 1 < n)
        <4>1. ~(k < n)
          BY <1>1, <3>3
        <4>2. g[k - 1] = NoBlock /\ g[k] = NoBlock
          BY <3>1, <3>3, <4>1
        <4> HIDE DEF g
        <4> QED BY <1>1, <2>2, <4>2
      <3> QED BY <3>2, <3>3
    <2> QED BY <2>1, <2>2
  <1>5. g = [k \in 0 .. N |-> Step(g, k)]
    BY <1>4
  <1>6. ASSUME NEW f, f = [k \in 0 .. N |-> Step(f, k)]
        PROVE  f = g
    <2> DEFINE bad == {k \in 0 .. N : f[k] # g[k]}
    <2>1. ASSUME bad # {}
          PROVE  FALSE
      <3>1. bad \in SUBSET Nat
        BY <1>1
      <3>2. PICK k \in bad : \A y \in bad : k <= y
        BY <2>1, <3>1, LeastNatural
      <3>3. k \in 0 .. N /\ f[k] # g[k]
        BY <3>2
      <3>4. f[k] = Step(f, k) /\ g[k] = Step(g, k)
        BY <1>4, <1>6, <3>3
      <3>5. k # 0
        BY <3>3, <3>4
      <3>6. k - 1 \in 0 .. N /\ ~(k <= k - 1)
        BY <1>1, <3>3, <3>5
      <3>7. f[k - 1] = g[k - 1]
        BY <3>2, <3>6
      <3>8. Step(f, k) = Step(g, k)
        BY <3>7
      <3> QED BY <3>3, <3>4, <3>8
    <2>2. \A k \in 0 .. N : f[k] = g[k]
      BY <2>1
    <2> QED BY <1>6, <2>2
  <1>7. ChainBy(pool, w) = g
    BY <1>3, <1>5, <1>6
  <1>8. /\ n \in 0 .. N /\ ~(n < n)
        /\ \A k \in 0 .. n - 1 : k \in 0 .. N /\ k < n
    BY <1>1, <1>2
  <1>9. /\ \A k \in 0 .. n - 1 : ChainBy(pool, w)[k] = nodes[k + 1]
        /\ ChainBy(pool, w)[n] = NoBlock
    BY <1>7, <1>8
  <1> QED BY <1>9 DEF n

-----------------------------------------------------------------------------
(* The free list after EDF_pool_init, an acquire and a release.            *)
LEMMA NewFreeList ==
  ASSUME NEW pool \in PoolRec, Geometry(pool), pool.n_free = pool.n_total, pool.free_head = 0,
         NEW w, w = [b \in Blocks(pool) |-> IF b = pool.end THEN NoBlock ELSE b + Stride(pool)]
  PROVE  \E nodes : FreeList(pool, w, {}, nodes)
  <1> DEFINE s == Stride(pool)
             n == pool.n_total
             nodes == [i \in 1 .. n |-> (i - 1) * s]
  <1>1. s \in Nat \ {0} /\ n \in Nat /\ n >= 1 /\ pool.end = (n - 1) * s
    BY PoolAssumption DEF Geometry, PoolRec
  <1>2. Blocks(pool) = {i * s : i \in 0 .. n - 1}
    BY DEF Blocks, Stride
  <1>3. w = [b \in Blocks(pool) |-> IF b = pool.end THEN NoBlock ELSE b + s]
    OBVIOUS
  <1> HIDE DEF s
  <1>4. \A i \in 1 .. n : i - 1 \in 0 .. n - 1 /\ i - 1 \in Nat
    BY <1>1
  <1>5. nodes \in [1 .. n -> Blocks(pool)]
    BY <1>2, <1>4
  <1>6. \A i, j \in 1 .. n : i < j => nodes[i] # nodes[j]
    <2> SUFFICES ASSUME NEW i \in 1 .. n, NEW j \in 1 .. n, i < j
                 PROVE  (i - 1) * s # (j - 1) * s
      OBVIOUS
    <2>1. i - 1 \in Nat /\ j - 1 \in Nat /\ i - 1 < j - 1
      BY <1>1
    <2> QED BY <1>1, <2>1, MultipleApart
  <1>7. \A i, j \in 1 .. n : nodes[i] = nodes[j] => i = j
    <2> SUFFICES ASSUME NEW i \in 1 .. n, NEW j \in 1 .. n, nodes[i] = nodes[j]
                 PROVE  i = j
      OBVIOUS
    <2> HIDE DEF nodes
    <2>1. ~(i < j) /\ ~(j < i)
      BY <1>6
    <2> QED BY <1>1, <2>1
  <1>8. ASSUME NEW i \in 1 .. n
        PROVE  w[nodes[i]] = IF i = n THEN NoBlock ELSE nodes[i + 1]
    <2>1. nodes[i] = (i - 1) * s /\ nodes[i] \in Blocks(pool) /\ n \in 1 .. n /\ nodes[n] = pool.end
      BY <1>1, <1>5
    <2>2. i # n => i + 1 \in 1 .. n /\ nodes[i + 1] = (i - 1) * s + s
      <3>1. i # n => i + 1 \in 1 .. n /\ nodes[i + 1] = ((i + 1) - 1) * s
        BY <1>1
      <3>2. ((i + 1) - 1) * s = (i - 1) * s + s
        BY <1>1
      <3> QED BY <3>1, <3>2
    <2>3. i = n <=> nodes[i] = pool.end
      BY <1>7, <2>1
    <2> HIDE DEF nodes
    <2> QED BY <1>3, <2>1, <2>2, <2>3
  <1>9. \A b \in Blocks(pool) : \E i \in 1 .. n : nodes[i] = b
    <2> SUFFICES ASSUME NEW k \in 0 .. n - 1
                 PROVE  \E i \in 1 .. n : nodes[i] = k * s
      BY <1>2
    <2>1. k + 1 \in 1 .. n /\ (k + 1) - 1 = k
      BY <1>1
    <2> QED BY <2>1
  <1>10. nodes[1] = 0 /\ n # 0
    BY <1>1
  <1> HIDE DEF nodes
  <1>11. {} = Blocks(pool) \ {nodes[i] : i \in 1 .. n}
    BY <1>9
  <1>12. n = pool.n_free /\ pool.free_head = 0
    BY DEF n
  <1> HIDE DEF n
  <1>13. FreeList(pool, w, {}, nodes)
    BY <1>5, <1>7, <1>8, <1>10, <1>11, <1>12 DEF FreeList
  <1> QED BY <1>13

LEMMA TakenFreeList ==
  ASSUME NEW pool \in PoolRec, Geometry(pool), NEW w, NEW mine, NEW nodes,
         FreeList(pool, w, mine, nodes), pool.n_free # 0,
         w \in [Blocks(pool) -> Blocks(pool) \cup {NoBlock, Data}],
         NEW pool1, Blocks(pool1) = Blocks(pool), pool1.n_free = pool.n_free - 1,
         pool1.free_head = w[pool.free_head],
         NEW w1, \A b \in Blocks(pool) : b # pool.free_head => w1[b] = w[b]
  PROVE  \E nodes1 : FreeList(pool1, w1, mine \cup {pool.free_head}, nodes1)
  <1> DEFINE n == pool.n_free
             h == pool.free_head
             new == [i \in 1 .. n - 1 |-> nodes[i + 1]]
  <1>1. /\ n \in Nat /\ n # 0 /\ nodes \in [1 .. n -> Blocks(pool)] /\ h = nodes[1]
        /\ \A i, j \in 1 .. n : nodes[i] = nodes[j] => i = j
        /\ \A i \in 1 .. n : w[nodes[i]] = IF i = n THEN NoBlock ELSE nodes[i + 1]
        /\ mine = Blocks(pool) \ {nodes[i] : i \in 1 .. n}
    BY DEF PoolRec, FreeList
  <1>2. \A i \in 1 .. n - 1 : i + 1 \in 1 .. n /\ i \in 1 .. n /\ (i = n - 1 <=> i + 1 = n)
    BY <1>1
  <1>3. new \in [1 .. n - 1 -> Blocks(pool)]
    BY <1>1, <1>2
  <1>4. \A i, j \in 1 .. n - 1 : new[i] = new[j] => i = j
    BY <1>1, <1>2
  <1>5. \A i \in 1 .. n - 1 : new[i] # h
    BY <1>1, <1>2
  <1>6. ASSUME NEW i \in 1 .. n - 1
        PROVE  w1[new[i]] = IF i = n - 1 THEN NoBlock ELSE new[i + 1]
    <2>1. w1[new[i]] = w[nodes[i + 1]] /\ i + 1 \in 1 .. n
      BY <1>2, <1>3, <1>5
    <2>2. i # n - 1 => new[i + 1] = nodes[(i + 1) + 1]
      BY <1>1
    <2> QED BY <1>1, <1>2, <2>1, <2>2
  <1>7. pool1.free_head = IF n - 1 = 0 THEN NoBlock ELSE new[1]
    <2>1. 1 \in 1 .. n /\ (1 = n <=> n - 1 = 0) /\ (n - 1 # 0 => 1 \in 1 .. n - 1)
      BY <1>1
    <2> QED BY <1>1, <2>1
  <1>8. mine \cup {h} = Blocks(pool) \ {new[i] : i \in 1 .. n - 1}
    <2>1. \A i \in 1 .. n : i # 1 => i - 1 \in 1 .. n - 1 /\ new[i - 1] = nodes[i]
      BY <1>1
    <2>2. {nodes[i] : i \in 1 .. n} = {new[i] : i \in 1 .. n - 1} \cup {h}
      <3>1. ASSUME NEW i \in 1 .. n
            PROVE  nodes[i] \in {new[j] : j \in 1 .. n - 1} \cup {h}
        <4>1. CASE i = 1
          BY <1>1, <4>1
        <4>2. CASE i # 1
          BY <2>1, <4>2
        <4> QED BY <4>1, <4>2
      <3>2. ASSUME NEW i \in 1 .. n - 1
            PROVE  new[i] \in {nodes[j] : j \in 1 .. n}
        BY <1>2
      <3>3. h \in {nodes[j] : j \in 1 .. n}
        BY <1>1
      <3> QED BY <3>1, <3>2, <3>3
    <2>3. h \in Blocks(pool) /\ h \notin {new[i] : i \in 1 .. n - 1}
      <3>1. 1 \in 1 .. n
        BY <1>1
      <3> HIDE DEF new
      <3> QED BY <1>1, <1>5, <3>1
    <2> QED BY <1>1, <2>2, <2>3
  <1>9. FreeList(pool1, w1, mine \cup {h}, new)
    <2> HIDE DEF new
    <2> QED BY <1>3, <1>4, <1>6, <1>7, <1>8 DEF FreeList
  <1> QED BY <1>9

LEMMA GivenFreeList ==
  ASSUME NEW pool \in PoolRec, Geometry(pool), NEW w, NEW mine, NEW nodes,
         FreeList(pool, w, mine, nodes), NEW b \in mine,
         w \in [Blocks(pool) -> Blocks(pool) \cup {NoBlock, Data}],
         NEW pool1, Blocks(pool1) = Blocks(pool), pool1.n_free = pool.n_free + 1,
         pool1.free_head = b,
         NEW w1, \A x \in Blocks(pool) : w1[x] = IF x = b THEN pool.free_head ELSE w[x]
  PROVE  \E nodes1 : FreeList(pool1, w1, mine \ {b}, nodes1)
  <1> DEFINE n == pool.n_free
             new == [i \in 1 .. n + 1 |-> IF i = 1 THEN b ELSE nodes[i - 1]]
  <1>1. /\ n \in Nat /\ nodes \in [1 .. n -> Blocks(pool)] /\ b \in Blocks(pool)
        /\ \A i, j \in 1 .. n : nodes[i] = nodes[j] => i = j
        /\ \A i \in 1 .. n : w[nodes[i]] = (IF i = n THEN NoBlock ELSE nodes[i + 1]) /\ nodes[i] # b
        /\ mine = Blocks(pool) \ {nodes[i] : i \in 1 .. n}
        /\ pool.free_head = IF n = 0 THEN NoBlock ELSE nodes[1]
    BY DEF PoolRec, FreeList
  <1>2. \A i \in 1 .. n + 1 : i # 1 => i - 1 \in 1 .. n /\ new[i] = nodes[i - 1]
    BY <1>1
  <1>3. 1 \in 1 .. n + 1 /\ new[1] = b
    BY <1>1
  <1>4. new \in [1 .. n + 1 -> Blocks(pool)]
    BY <1>1, <1>2
  <1>5. \A i, j \in 1 .. n + 1 : new[i] = new[j] => i = j
    <2> SUFFICES ASSUME NEW i \in 1 .. n + 1, NEW j \in 1 .. n + 1, new[i] = new[j]
                 PROVE  i = j
      OBVIOUS
    <2>1. i = 1 <=> j = 1
      BY <1>1, <1>2, <1>3
    <2>2. CASE i # 1 /\ j # 1
      <3>1. i - 1 = j - 1
        BY <1>1, <1>2, <2>2
      <3> QED BY <1>1, <3>1
    <2> QED BY <2>1, <2>2
  <1>6. ASSUME NEW i \in 1 .. n + 1
        PROVE  w1[new[i]] = IF i = n + 1 THEN NoBlock ELSE new[i + 1]
    <2>1. CASE i = 1
      <3>1. w1[new[i]] = pool.free_head
        BY <1>1, <1>3, <2>1
      <3>2. (1 = n + 1 <=> n = 0) /\ (n # 0 => 1 + 1 \in 1 .. n + 1 /\ 1 + 1 # 1 /\ (1 + 1) - 1 = 1)
        BY <1>1
      <3> QED BY <1>1, <1>2, <2>1, <3>1, <3>2
    <2>2. CASE i # 1
      <3>1. i - 1 \in 1 .. n /\ new[i] = nodes[i - 1] /\ new[i] # b /\ new[i] \in Blocks(pool)
        BY <1>1, <1>2, <2>2
      <3>2. w1[new[i]] = w[nodes[i - 1]]
        BY <3>1
      <3>3. /\ i = n + 1 <=> i - 1 = n
            /\ (i - 1) + 1 = i /\ i # n + 1 => i + 1 \in 1 .. n + 1 /\ i + 1 # 1 /\ (i + 1) - 1 = i
        BY <1>1
      <3> QED BY <1>1, <1>2, <3>1, <3>2, <3>3
    <2> QED BY <2>1, <2>2
  <1>7. n + 1 # 0
    BY <1>1
  <1>8. mine \ {b} = Blocks(pool) \ {new[i] : i \in 1 .. n + 1}
    <2>1. \A i \in 1 .. n : i + 1 \in 1 .. n + 1 /\ new[i + 1] = nodes[i]
      BY <1>1
    <2>2. {new[i] : i \in 1 .. n + 1} = {nodes[i] : i \in 1 .. n} \cup {b}
      <3>1. ASSUME NEW i \in 1 .. n + 1
            PROVE  new[i] \in {nodes[j] : j \in 1 .. n} \cup {b}
        BY <1>2, <1>3
      <3>2. ASSUME NEW i \in 1 .. n
            PROVE  nodes[i] \in {new[j] : j \in 1 .. n + 1}
        BY <2>1
      <3>3. b \in {new[j] : j \in 1 .. n + 1}
        BY <1>3
      <3> HIDE DEF new
      <3> QED BY <3>1, <3>2, <3>3
    <2> QED BY <1>1, <2>2
  <1>9. FreeList(pool1, w1, mine \ {b}, new)
    <2> HIDE DEF new
    <2> QED BY <1>3, <1>4, <1>5, <1>6, <1>7, <1>8 DEF FreeList
  <1> QED BY <1>9

-----------------------------------------------------------------------------
(* The steps: all other pools and events stay as they are.                 *)
Mine(own, p) == {o[2] : o \in {x \in own : x[1] = p}}

LEMMA SecondOf ==
  ASSUME NEW A, NEW p, NEW b, NEW e_size
  PROVE  {o[2] : o \in A \cup {<<p, b, e_size>>}} = {o[2] : o \in A} \cup {b}
  <1>1. <<p, b, e_size>>[2] = b
    OBVIOUS
  <1>2. ASSUME NEW o \in A \cup {<<p, b, e_size>>}
        PROVE  o[2] \in {x[2] : x \in A} \cup {b}
    BY <1>1
  <1>3. ASSUME NEW x \in {o[2] : o \in A} \cup {b}
        PROVE  x \in {o[2] : o \in A \cup {<<p, b, e_size>>}}
    <2>1. CASE x = b
      BY <1>1, <2>1
    <2>2. CASE x # b
      BY <2>2
    <2> QED BY <2>1, <2>2
  <1> QED BY <1>2, <1>3

(* What a step does to the blocks of the pools and their owners.           *)
Resting == UNCHANGED <<pools, owned>>
SameBlocks ==
  /\ Len(pools') = Len(pools)
  /\ \A q \in 1 .. Len(pools) : Blocks(pools'[q]) = Blocks(pools[q])
Grown ==
  /\ Len(pools') = Len(pools) + 1 /\ owned' = owned
  /\ \A q \in 1 .. Len(pools) : Blocks(pools'[q]) = Blocks(pools[q])
TakenOut ==
  /\ SameBlocks
  /\ \E p \in 1 .. Len(pools), e_size \in EventSize : \E b \in Blocks(pools[p]) :
       b \notin Mine(owned, p) /\ owned' = owned \cup {<<p, b, e_size>>}
GivenBack == SameBlocks /\ \E o \in owned : owned' = owned \ {o}

LEMMA FailKeeps ==
  ASSUME PoolInv, UNCHANGED <<pools, word, owned>>,
         pools_failed' \in {"no", "init", "hang", "no_pool", "exhausted"}
  PROVE  PoolInv' /\ Resting
  BY DEF PoolInv, EventsPlaced, OwnedBlocks, Resting

LEMMA OneKeeps ==
  ASSUME PoolInv, NEW p \in 1 .. Len(pools),
         pools' \in Seq(PoolRec), Len(pools') = Len(pools),
         word' \in Seq(Words), Len(word') = Len(word),
         \A q \in 1 .. Len(pools) : q # p => pools'[q] = pools[q] /\ word'[q] = word[q],
         PoolOK(pools'[p], word'[p], Mine(owned', p)),
         pools'[p].block_size = pools[p].block_size,
         \A q \in 1 .. Len(pools) : q # p => Mine(owned', q) = Mine(owned, q),
         owned' \subseteq (1 .. Len(pools)) \X Nat \X EventSize,
         \A x, y \in owned' : x[1] = y[1] /\ x[2] = y[2] => x = y,
         \A o \in owned' : /\ o[3] <= pools[o[1]].block_size
                           /\ \A q \in 1 .. o[1] - 1 : pools[q].block_size < o[3],
         pools_failed' = pools_failed
  PROVE  PoolInv'
  <1>1. \A q \in 1 .. Len(pools) : PoolOK(pools[q], word[q], Mine(owned, q))
    BY DEF PoolInv, OwnedBlocks, Mine
  <1>2. \A q \in 1 .. Len(pools) : PoolOK(pools'[q], word'[q], Mine(owned', q))
    <2> SUFFICES ASSUME NEW q \in 1 .. Len(pools)
                 PROVE  PoolOK(pools'[q], word'[q], Mine(owned', q))
      OBVIOUS
    <2>1. CASE q = p
      BY <2>1
    <2>2. CASE q # p
      <3>1. pools'[q] = pools[q] /\ word'[q] = word[q] /\ Mine(owned', q) = Mine(owned, q)
        BY <2>2
      <3>2. PoolOK(pools[q], word[q], Mine(owned, q))
        BY <1>1
      <3> QED BY <3>1, <3>2
    <2> QED BY <2>1, <2>2
  <1>3. \A q \in 1 .. Len(pools') : PoolOK(pools'[q], word'[q], OwnedBlocks(q)')
    BY <1>2 DEF OwnedBlocks, Mine
  <1>4. Len(pools) \in Nat /\ DOMAIN pools' = 1 .. Len(pools)
    BY DEF PoolInv
  <1>5. \A q \in 1 .. Len(pools) : pools'[q].block_size = pools[q].block_size
    OBVIOUS
  <1>6. EventsPlaced'
    <2>1. owned' \subseteq (DOMAIN pools') \X Nat \X EventSize
      BY <1>4
    <2>2. ASSUME NEW o \in owned'
          PROVE  /\ o[3] <= pools'[o[1]].block_size
                 /\ \A q \in 1 .. o[1] - 1 : pools'[q].block_size < o[3]
      <3>1. o[1] \in 1 .. Len(pools)
        OBVIOUS
      <3>2. \A q \in 1 .. o[1] - 1 : q \in 1 .. Len(pools)
        BY <1>4, <3>1
      <3> QED BY <1>5, <3>1, <3>2
    <2> QED BY <2>1, <2>2 DEF EventsPlaced
  <1> QED BY <1>3, <1>6 DEF PoolInv

LEMMA PoolInitKeeps ==
  ASSUME PoolInv, NEW pool_size \in Nat, NEW block_size \in 1 .. SizeMod - 1,
         PoolInit(pool_size, block_size)
  PROVE  PoolInv' /\ (Resting \/ Grown)
  <1> DEFINE size == Rounded(block_size)
             new == NewPool(pool_size, size)
             w == [b \in Blocks(new) |->
                     IF b = new.end THEN NoBlock ELSE b + new.block_size \div PtrSize]
  <1>1. CASE Fail("init") \/ Fail("hang")
    BY <1>1, FailKeeps DEF Fail
  <1>2. CASE ~Fail("init") /\ ~Fail("hang")
    <2>1. /\ Len(pools) # MaxPool /\ size < SizeMod /\ ~(pool_size < size)
          /\ ~(new.n_total >= BlockCntMod - 1)
          /\ pools' = Append(pools, new) /\ word' = Append(word, w)
          /\ owned' = owned /\ pools_failed' = pools_failed
      BY <1>2 DEF PoolInit, LoopEnds
    <2>2. /\ PtrSize \in Nat \ {0} /\ SizeMod \in Nat /\ BlockCntMod \in Nat /\ MaxPool \in Nat
          /\ block_size \in Nat /\ block_size >= 1
      BY PoolAssumption
    <2>3. PICK k \in Nat \ {0} : size = k * PtrSize /\ size \in Nat /\ size >= 1
      <3> DEFINE k == (block_size + PtrSize - 1) \div PtrSize
      <3>1. block_size + PtrSize - 1 \in Nat /\ PtrSize <= block_size + PtrSize - 1
        BY <2>2
      <3>2. k \in Nat /\ k >= 1
        BY <2>2, <3>1, DivideFits
      <3>3. size = k * PtrSize
        BY DEF Rounded
      <3> HIDE DEF k
      <3>4. k * PtrSize \in Nat /\ k * PtrSize >= PtrSize
        BY <2>2, <3>2, MultipleIsNat
      <3> QED BY <2>2, <3>2, <3>3, <3>4
    <2> HIDE DEF size
    <2> DEFINE total == pool_size \div size
    <2>4. total \in Nat /\ total >= 1 /\ total * size <= pool_size
      <3>1. size \in Nat \ {0} /\ size <= pool_size
        BY <2>1, <2>3
      <3>2. total * size <= pool_size /\ total \in Nat
        BY <3>1, DivideFits
      <3>3. total >= 1
        BY <3>1, DivideFits
      <3> QED BY <3>2, <3>3
    <2>5. /\ new.block_size = size /\ new.free_head = 0 /\ new.n_total = total
          /\ new.n_free = total /\ new.n_min = total /\ new.start = 0
          /\ new.end = (total - 1) * (size \div PtrSize) /\ new.size = pool_size
      BY DEF NewPool
    <2>6. size \div PtrSize = k
      BY <2>2, <2>3, DivideExact
    <2>7. (total - 1) * k \in Nat
      <3>1. total - 1 \in Nat
        BY <2>4
      <3> QED BY <2>3, <3>1, MultipleIsNat
    <2>8. new \in PoolRec
      BY <2>3, <2>4, <2>6, <2>7 DEF NewPool, PoolRec
    <2> HIDE DEF new, total
    <2>9. Geometry(new)
      <3>1. Stride(new) = k
        BY <2>5, <2>6 DEF Stride
      <3>2. new.block_size \in 1 .. SizeMod - 1 /\ new.block_size = Stride(new) * PtrSize
        BY <2>1, <2>2, <2>3, <2>5, <3>1
      <3>3. new.n_total \in 1 .. BlockCntMod - 2
        BY <2>1, <2>2, <2>4, <2>5
      <3>4. new.end = (new.n_total - 1) * Stride(new) /\ new.n_total * new.block_size <= new.size
        BY <2>4, <2>5, <2>6, <3>1
      <3> QED BY <2>3, <3>1, <3>2, <3>3, <3>4 DEF Geometry
    <2>10. \E nodes : FreeList(new, w, {}, nodes)
      <3>1. w = [b \in Blocks(new) |-> IF b = new.end THEN NoBlock ELSE b + Stride(new)]
        BY DEF Stride
      <3> HIDE DEF w
      <3> QED BY <2>5, <2>8, <2>9, <3>1, NewFreeList
    <2>11. /\ w \in [Blocks(new) -> Blocks(new) \cup {NoBlock, Data}]
           /\ Blocks(new) \in SUBSET Nat
      <3>1. \A b \in Blocks(new) : b \in Nat /\ (b # new.end => b + Stride(new) \in Blocks(new))
        BY <2>8, <2>9, BlocksLie
      <3> QED BY <3>1 DEF Stride
    <2> HIDE DEF w
    <2>12. PoolOK(new, w, {})
      BY <2>4, <2>5, <2>9, <2>10, <2>11 DEF PoolOK
    <2>13. w \in Words
      BY <2>11 DEF Words
    <2>14. /\ pools \in Seq(PoolRec) /\ word \in Seq(Words) /\ Len(pools) \in Nat
           /\ Len(pools) <= MaxPool /\ Len(word) = Len(pools)
           /\ \A q \in 1 .. Len(pools) : PoolOK(pools[q], word[q], OwnedBlocks(q))
           /\ owned \subseteq (1 .. Len(pools)) \X Nat \X EventSize
           /\ \A x, y \in owned : x[1] = y[1] /\ x[2] = y[2] => x = y
           /\ \A o \in owned : /\ o[3] <= pools[o[1]].block_size
                               /\ \A p \in 1 .. o[1] - 1 : pools[p].block_size < o[3]
           /\ pools_failed \in {"no", "init", "hang", "no_pool", "exhausted"}
      BY DEF PoolInv, EventsPlaced
    <2>15. /\ pools' \in Seq(PoolRec) /\ Len(pools') = Len(pools) + 1
           /\ \A q \in 1 .. Len(pools) : pools'[q] = pools[q]
           /\ pools'[Len(pools) + 1] = new
           /\ word' \in Seq(Words) /\ Len(word') = Len(pools) + 1
           /\ \A q \in 1 .. Len(pools) : word'[q] = word[q]
           /\ word'[Len(pools) + 1] = w
      BY <2>1, <2>8, <2>13, <2>14, AppendProperties
    <2>16. Mine(owned', Len(pools) + 1) = {}
      <3>1. \A o \in owned : o[1] \in 1 .. Len(pools)
        BY <2>14
      <3>2. Len(pools) + 1 \notin 1 .. Len(pools)
        BY <2>14
      <3>3. {x \in owned : x[1] = Len(pools) + 1} = {}
        BY <3>1, <3>2
      <3> QED BY <2>1, <3>3 DEF Mine
    <2>17. \A q \in 1 .. Len(pools) : Mine(owned', q) = OwnedBlocks(q)
      BY <2>1 DEF OwnedBlocks, Mine
    <2>18. \A q \in 1 .. Len(pools') : PoolOK(pools'[q], word'[q], Mine(owned', q))
      <3>1. \A q \in 1 .. Len(pools') : q \in 1 .. Len(pools) \/ q = Len(pools) + 1
        BY <2>14, <2>15
      <3>2. ASSUME NEW q \in 1 .. Len(pools)
            PROVE  PoolOK(pools'[q], word'[q], Mine(owned', q))
        <4>1. /\ pools'[q] = pools[q] /\ word'[q] = word[q] /\ Mine(owned', q) = OwnedBlocks(q)
              /\ PoolOK(pools[q], word[q], OwnedBlocks(q))
          BY <2>14, <2>15, <2>17
        <4> QED BY <4>1
      <3>3. PoolOK(pools'[Len(pools) + 1], word'[Len(pools) + 1], Mine(owned', Len(pools) + 1))
        BY <2>12, <2>15, <2>16
      <3> SUFFICES ASSUME NEW q \in 1 .. Len(pools')
                   PROVE  PoolOK(pools'[q], word'[q], Mine(owned', q))
        OBVIOUS
      <3>4. CASE q \in 1 .. Len(pools)
        BY <3>2, <3>4
      <3>5. CASE q = Len(pools) + 1
        BY <3>3, <3>5
      <3> QED BY <3>1, <3>4, <3>5
    <2>19. EventsPlaced'
      <3>1. DOMAIN pools' = 1 .. Len(pools) + 1 /\ 1 .. Len(pools) \subseteq 1 .. Len(pools) + 1
        BY <2>14, <2>15
      <3>2. owned' \subseteq (DOMAIN pools') \X Nat \X EventSize
        BY <2>1, <2>14, <3>1
      <3>3. ASSUME NEW o \in owned
            PROVE  /\ o[3] <= pools'[o[1]].block_size
                   /\ \A q \in 1 .. o[1] - 1 : pools'[q].block_size < o[3]
        <4>1. o[1] \in 1 .. Len(pools)
          BY <2>14
        <4>2. \A q \in 1 .. o[1] - 1 : q \in 1 .. Len(pools)
          BY <2>14, <4>1
        <4> QED BY <2>14, <2>15, <4>1, <4>2
      <3> QED BY <2>1, <2>14, <3>2, <3>3 DEF EventsPlaced
    <2>20. Len(pools') <= MaxPool
      BY <2>1, <2>2, <2>14, <2>15
    <2>21. \A q \in 1 .. Len(pools') : PoolOK(pools'[q], word'[q], OwnedBlocks(q)')
      BY <2>18 DEF OwnedBlocks, Mine
    <2>22. Grown
      BY <2>1, <2>15 DEF Grown
    <2> QED BY <2>1, <2>14, <2>15, <2>19, <2>20, <2>21, <2>22 DEF PoolInv
  <1> QED BY <1>1, <1>2

LEMMA BestPoolIs ==
  ASSUME PoolInv, NEW e_size \in EventSize, Fitting(e_size) # {}
  PROVE  /\ BestPool(e_size) \in 1 .. Len(pools)
         /\ e_size <= pools[BestPool(e_size)].block_size
         /\ \A q \in 1 .. BestPool(e_size) - 1 : pools[q].block_size < e_size
  <1> DEFINE p == BestPool(e_size)
  <1>1. /\ Len(pools) \in Nat /\ DOMAIN pools = 1 .. Len(pools) /\ e_size \in Nat
        /\ \A q \in 1 .. Len(pools) : pools[q].block_size \in Nat
    <2>1. pools \in Seq(PoolRec)
      BY DEF PoolInv
    <2>2. \A q \in 1 .. Len(pools) : pools[q] \in PoolRec
      BY <2>1
    <2>3. e_size \in Nat
      BY PoolAssumption
    <2>4. \A q \in 1 .. Len(pools) : pools[q].block_size \in Nat
      BY <2>2 DEF PoolRec
    <2> QED BY <2>1, <2>3, <2>4
  <1>2. Fitting(e_size) \in SUBSET Nat
    BY <1>1 DEF Fitting
  <1>3. PICK l \in Fitting(e_size) : \A q \in Fitting(e_size) : l <= q
    BY <1>2, LeastNatural
  <1>4. p \in Fitting(e_size) /\ \A q \in Fitting(e_size) : p <= q
    BY <1>3 DEF BestPool
  <1> HIDE DEF p
  <1>5. p \in 1 .. Len(pools) /\ e_size <= pools[p].block_size
    BY <1>1, <1>4 DEF Fitting
  <1>6. ASSUME NEW q \in 1 .. p - 1
        PROVE  pools[q].block_size < e_size
    <2>1. q \in 1 .. Len(pools) /\ ~(p <= q)
      BY <1>1, <1>5
    <2>2. q \notin Fitting(e_size)
      BY <1>4, <2>1
    <2>3. ~(e_size <= pools[q].block_size)
      BY <1>1, <2>1, <2>2 DEF Fitting
    <2> QED BY <1>1, <2>1, <2>3
  <1> QED BY <1>5, <1>6 DEF p

(* What the invariant says of one pool.                                    *)
LEMMA PoolOf ==
  ASSUME PoolInv, NEW p \in 1 .. Len(pools)
  PROVE  /\ pools[p] \in PoolRec /\ word[p] \in Words
         /\ PoolOK(pools[p], word[p], Mine(owned, p))
         /\ Len(pools) \in Nat /\ DOMAIN pools = 1 .. Len(pools)
         /\ Len(word) = Len(pools) /\ p \in 1 .. Len(word)
  <1>1. /\ pools \in Seq(PoolRec) /\ word \in Seq(Words) /\ Len(word) = Len(pools)
        /\ PoolOK(pools[p], word[p], OwnedBlocks(p))
    BY DEF PoolInv
  <1>2. OwnedBlocks(p) = Mine(owned, p)
    BY DEF OwnedBlocks, Mine
  <1>3. p \in 1 .. Len(word)
    BY <1>1
  <1>4. pools[p] \in PoolRec /\ word[p] \in Words
    BY <1>1, <1>3, ElementOfSeq
  <1> QED BY <1>1, <1>2, <1>3, <1>4

(* The assertions of EDF_pool_acquire on the link hold.                    *)
LEMMA LinkIs ==
  ASSUME NEW pool \in PoolRec, NEW w, NEW mine, NEW nodes, Geometry(pool),
         FreeList(pool, w, mine, nodes), pool.n_free > 0
  PROVE  /\ pool.free_head \in Blocks(pool) /\ pool.free_head \notin mine
         /\ w[pool.free_head] \in Blocks(pool) \cup {NoBlock}
         /\ ~(IF pool.n_free = 1 THEN w[pool.free_head] # NoBlock
              ELSE w[pool.free_head] \notin pool.start .. pool.end)
  <1> DEFINE n == pool.n_free
  <1>1. /\ n \in Nat /\ n > 0 /\ nodes \in [1 .. n -> Blocks(pool)]
        /\ pool.free_head = IF n = 0 THEN NoBlock ELSE nodes[1]
        /\ \A i \in 1 .. n : w[nodes[i]] = IF i = n THEN NoBlock ELSE nodes[i + 1]
        /\ mine = Blocks(pool) \ {nodes[i] : i \in 1 .. n}
        /\ pool.start = 0
    BY DEF PoolRec, FreeList
  <1>2. 1 \in 1 .. n /\ n # 0 /\ (n # 1 => 1 + 1 \in 1 .. n)
    BY <1>1
  <1>3. pool.free_head = nodes[1] /\ nodes[1] \in Blocks(pool)
    BY <1>1, <1>2
  <1>4. w[pool.free_head] = IF n = 1 THEN NoBlock ELSE nodes[1 + 1]
    BY <1>1, <1>2, <1>3
  <1>5. n # 1 => nodes[1 + 1] \in Blocks(pool)
    BY <1>1, <1>2
  <1>6. \A b \in Blocks(pool) : b \in 0 .. pool.end
    BY BlocksLie
  <1>7. pool.free_head \notin mine
    BY <1>1, <1>2, <1>3
  <1> QED BY <1>1, <1>3, <1>4, <1>5, <1>6, <1>7

LEMMA AcquireKeeps ==
  ASSUME PoolInv, NEW e_size \in EventSize, Acquire(e_size)
  PROVE  PoolInv' /\ (Resting \/ TakenOut)
  <1> DEFINE p == BestPool(e_size)
             pool == pools[p]
             h == pool.free_head
             w1 == [word[p] EXCEPT ![h] = Data]
             pool1 == [pool EXCEPT !.free_head = NextFree(p), !.n_free = pool.n_free - 1,
                                   !.n_min = Lowest(p)]
  <1>1. CASE Fail("no_pool") \/ Fail("exhausted")
    BY <1>1, FailKeeps DEF Fail
  <1>2. CASE ~Fail("no_pool") /\ ~Fail("exhausted")
    <2>1. /\ Fitting(e_size) # {} /\ pool.n_free > 0
          /\ \/ (IF pool.n_free = 1 THEN NextFree(p) # NoBlock
                 ELSE NextFree(p) \notin pool.start .. pool.end) /\ Fail("chain")
             \/ /\ pools' = [pools EXCEPT ![p] = pool1]
                /\ word' = [word EXCEPT ![p] = w1]
                /\ owned' = owned \cup {<<p, h, e_size>>} /\ pools_failed' = pools_failed
      <3>1. /\ Fitting(e_size) # {} /\ pool.n_free > 0
            /\ \/ (IF pool.n_free = 1 THEN NextFree(p) # NoBlock
                   ELSE NextFree(p) \notin pool.start .. pool.end) /\ Fail("chain")
               \/ /\ pools' = [pools EXCEPT ![p] =
                       [pool EXCEPT !.free_head = NextFree(p), !.n_free = pool.n_free - 1,
                                    !.n_min = Lowest(p)]]
                  /\ word' = [word EXCEPT ![p][pool.free_head] = Data]
                  /\ owned' = owned \cup {<<p, pool.free_head, e_size>>} /\ pools_failed' = pools_failed
        BY <1>2, Zenon DEF Acquire
      <3>2. [word EXCEPT ![p][pool.free_head] = Data] = [word EXCEPT ![p] = w1]
        OBVIOUS
      <3> QED BY <3>1, <3>2
    <2>2. /\ p \in 1 .. Len(pools) /\ e_size <= pools[p].block_size
          /\ \A q \in 1 .. p - 1 : pools[q].block_size < e_size
      BY <2>1, BestPoolIs
    <2> DEFINE mine == Mine(owned, p)
    <2>3. /\ pool \in PoolRec /\ word[p] \in Words /\ PoolOK(pool, word[p], mine)
          /\ Len(pools) \in Nat /\ DOMAIN pools = 1 .. Len(pools)
          /\ Len(word) = Len(pools) /\ p \in 1 .. Len(word)
          /\ pools \in Seq(PoolRec) /\ word \in Seq(Words)
      BY <2>2, PoolOf DEF PoolInv
    <2>4. PICK nodes : FreeList(pool, word[p], mine, nodes)
      BY <2>3 DEF PoolOK
    <2>5. /\ Geometry(pool) /\ pool.n_min <= pool.n_free
          /\ word[p] \in [Blocks(pool) -> Blocks(pool) \cup {NoBlock, Data}]
      BY <2>3 DEF PoolOK
    <2>6. NextFree(p) = word[p][h]
      BY DEF NextFree
    <2> HIDE DEF p, mine
    <2>7. /\ h \in Blocks(pool) /\ h \notin mine /\ NextFree(p) \in Blocks(pool) \cup {NoBlock}
          /\ ~(IF pool.n_free = 1 THEN NextFree(p) # NoBlock
               ELSE NextFree(p) \notin pool.start .. pool.end)
      BY <2>1, <2>3, <2>4, <2>5, <2>6, LinkIs
    <2>8. \A b \in Blocks(pool) : b \in Nat
      BY <2>3, <2>5, BlocksLie
    <2>9. /\ pools' = [pools EXCEPT ![p] = pool1] /\ word' = [word EXCEPT ![p] = w1]
          /\ owned' = owned \cup {<<p, h, e_size>>} /\ pools_failed' = pools_failed
      BY <2>1, <2>7
    <2>10. /\ pool1 \in PoolRec /\ pool1.n_free = pool.n_free - 1
           /\ pool1.free_head = NextFree(p) /\ pool1.n_min <= pool1.n_free
           /\ pool1.block_size = pool.block_size /\ pool1.n_total = pool.n_total
           /\ pool1.end = pool.end /\ pool1.size = pool.size
      <3>1. pool.n_free \in Nat /\ pool.n_min \in Nat /\ pool.n_free - 1 \in Nat
        <4>1. pool.n_free \in Nat /\ pool.n_min \in Nat
          BY <2>3 DEF PoolRec
        <4>2. pool.n_free > 0
          BY <2>1
        <4> HIDE DEF pool
        <4> QED BY <4>1, <4>2
      <3>2. Lowest(p) \in Nat /\ Lowest(p) <= pool.n_free - 1
        BY <2>5, <3>1 DEF Lowest
      <3>3. NextFree(p) \in Nat \cup {NoBlock}
        BY <2>7, <2>8
      <3> QED BY <2>3, <3>1, <3>2, <3>3 DEF PoolRec
    <2>11. Blocks(pool1) = Blocks(pool) /\ (Geometry(pool) => Geometry(pool1))
      BY <2>10 DEF Blocks, Geometry, Stride
    <2>12. /\ w1 \in [Blocks(pool) -> Blocks(pool) \cup {NoBlock, Data}] /\ w1 \in Words
           /\ \A b \in Blocks(pool) : b # h => w1[b] = word[p][b]
      <3>1. w1 \in [Blocks(pool) -> Blocks(pool) \cup {NoBlock, Data}]
        BY <2>5
      <3>2. Blocks(pool) \in SUBSET Nat
        BY <2>8
      <3>3. \A b \in Blocks(pool) : b # h => w1[b] = word[p][b]
        BY <2>5
      <3> HIDE DEF w1
      <3> QED BY <3>1, <3>2, <3>3 DEF Words
    <2> HIDE DEF pool1, w1
    <2>13. \E nodes1 : FreeList(pool1, w1, mine \cup {h}, nodes1)
      <3>1. pool.n_free # 0 /\ pool1.free_head = word[p][pool.free_head]
        <4>1. pool.n_free \in Nat /\ pool.n_free > 0
          BY <2>1, <2>3 DEF PoolRec
        <4>2. pool1.free_head = word[p][pool.free_head]
          BY <2>6, <2>10
        <4> QED BY <4>1, <4>2
      <3> HIDE DEF pool
      <3>2. /\ pool \in PoolRec /\ Geometry(pool) /\ FreeList(pool, word[p], mine, nodes)
            /\ word[p] \in [Blocks(pool) -> Blocks(pool) \cup {NoBlock, Data}]
            /\ Blocks(pool1) = Blocks(pool) /\ pool1.n_free = pool.n_free - 1
            /\ \A b \in Blocks(pool) : b # pool.free_head => w1[b] = word[p][b]
        BY <2>3, <2>4, <2>5, <2>10, <2>11, <2>12
      <3> QED BY <3>1, <3>2, TakenFreeList
    <2>14. PoolOK(pool1, w1, mine \cup {h})
      BY <2>5, <2>10, <2>11, <2>12, <2>13 DEF PoolOK
    <2>15. /\ pools' \in Seq(PoolRec) /\ Len(pools') = Len(pools) /\ pools'[p] = pool1
           /\ \A q \in 1 .. Len(pools) : q # p => pools'[q] = pools[q]
      BY <2>2, <2>3, <2>9, <2>10, ExceptSeq
    <2>16. /\ word' \in Seq(Words) /\ Len(word') = Len(word) /\ word'[p] = w1
           /\ \A q \in 1 .. Len(pools) : q # p => word'[q] = word[q]
      BY <2>3, <2>9, <2>12, ExceptSeq
    <2>17. Mine(owned', p) = mine \cup {h}
      <3>1. {x \in owned' : x[1] = p} = {x \in owned : x[1] = p} \cup {<<p, h, e_size>>}
        BY <2>9
      <3>2. mine = {o[2] : o \in {x \in owned : x[1] = p}}
        BY DEF Mine, mine
      <3>3. Mine(owned', p) = {o[2] : o \in {x \in owned : x[1] = p} \cup {<<p, h, e_size>>}}
        BY <3>1 DEF Mine
      <3> QED BY <3>2, <3>3, SecondOf
    <2>18. \A q \in 1 .. Len(pools) : q # p => Mine(owned', q) = Mine(owned, q)
      BY <2>9 DEF Mine
    <2>19. /\ owned \subseteq (1 .. Len(pools)) \X Nat \X EventSize
           /\ \A x, y \in owned : x[1] = y[1] /\ x[2] = y[2] => x = y
           /\ \A o \in owned : /\ o[3] <= pools[o[1]].block_size
                               /\ \A q \in 1 .. o[1] - 1 : pools[q].block_size < o[3]
      BY <2>3 DEF PoolInv, EventsPlaced
    <2>20. owned' \subseteq (1 .. Len(pools)) \X Nat \X EventSize
      BY <2>2, <2>7, <2>8, <2>9, <2>19
    <2>21. \A x, y \in owned' : x[1] = y[1] /\ x[2] = y[2] => x = y
      <3>1. ASSUME NEW x \in owned, x[1] = p, x[2] = h
            PROVE  FALSE
        BY <2>7, <3>1 DEF Mine, mine
      <3> QED BY <2>9, <2>19, <3>1
    <2>22. \A o \in owned' : /\ o[3] <= pools[o[1]].block_size
                             /\ \A q \in 1 .. o[1] - 1 : pools[q].block_size < o[3]
      BY <2>2, <2>9, <2>19
    <2> HIDE DEF h, pool
    <2>23. PoolOK(pools'[p], word'[p], Mine(owned', p))
      BY <2>14, <2>15, <2>16, <2>17
    <2>24. pools'[p].block_size = pools[p].block_size
      BY <2>10, <2>15 DEF pool
    <2>25. PoolInv'
      BY <2>2, <2>9, <2>15, <2>16, <2>18, <2>20, <2>21, <2>22, <2>23, <2>24, OneKeeps
    <2>26. SameBlocks
      BY <2>11, <2>15 DEF SameBlocks, pool
    <2>27. h \in Blocks(pools[p]) /\ h \notin Mine(owned, p)
      BY <2>7 DEF pool, mine
    <2>28. TakenOut
      BY <2>2, <2>9, <2>26, <2>27 DEF TakenOut
    <2> QED BY <2>25, <2>28
  <1> QED BY <1>1, <1>2

LEMMA ReleaseKeeps ==
  ASSUME PoolInv, NEW o \in owned, Release(o[1], o[2], o[3])
  PROVE  PoolInv' /\ GivenBack
  <1> DEFINE p == o[1]
             b == o[2]
             pool == pools[p]
             mine == Mine(owned, p)
             w1 == [word[p] EXCEPT ![b] = pool.free_head]
             pool1 == [pool EXCEPT !.free_head = b, !.n_free = pool.n_free + 1]
  <1>1. /\ owned \subseteq (1 .. Len(pools)) \X Nat \X EventSize
        /\ \A x, y \in owned : x[1] = y[1] /\ x[2] = y[2] => x = y
        /\ \A x \in owned : /\ x[3] <= pools[x[1]].block_size
                            /\ \A q \in 1 .. x[1] - 1 : pools[q].block_size < x[3]
    BY DEF PoolInv, EventsPlaced
  <1>2. p \in 1 .. Len(pools) /\ b \in Nat /\ o = <<p, b, o[3]>>
    BY <1>1
  <1>3. /\ pool \in PoolRec /\ word[p] \in Words /\ PoolOK(pool, word[p], mine)
        /\ Len(pools) \in Nat /\ DOMAIN pools = 1 .. Len(pools)
        /\ Len(word) = Len(pools) /\ p \in 1 .. Len(word)
        /\ pools \in Seq(PoolRec) /\ word \in Seq(Words)
    BY <1>2, PoolOf DEF PoolInv
  <1>4. PICK nodes : FreeList(pool, word[p], mine, nodes)
    BY <1>3 DEF PoolOK
  <1>5. /\ Geometry(pool) /\ pool.n_min <= pool.n_free
        /\ word[p] \in [Blocks(pool) -> Blocks(pool) \cup {NoBlock, Data}]
    BY <1>3 DEF PoolOK
  <1>6. b \in mine
    BY DEF Mine
  <1>7. mine \subseteq Blocks(pool) /\ pool.n_free < pool.n_total
    BY <1>3, <1>4, <1>5, <1>6, FreeCount
  <1>8. /\ \A x \in Blocks(pool) : x \in Nat /\ x \in 0 .. pool.end
        /\ b \in Blocks(pool)
    BY <1>3, <1>5, <1>6, <1>7, BlocksLie
  <1>9. pool.start = 0 /\ pool.n_free \in Nat /\ pool.n_total \in Nat /\ pool.n_min \in Nat
    BY <1>3 DEF PoolRec
  <1>10. ~(pool.n_free >= pool.n_total) /\ b \in pool.start .. pool.end
    BY <1>7, <1>8, <1>9
  <1>11. /\ pools' = [pools EXCEPT ![p] = pool1] /\ word' = [word EXCEPT ![p] = w1]
         /\ owned' = owned \ {o} /\ pools_failed' = pools_failed
    <2>1. /\ word' = Link(p, b) /\ owned' = owned \ {<<p, b, o[3]>>} /\ pools_failed' = pools_failed
          /\ pools' = [pools EXCEPT ![p].free_head = b, ![p].n_free = @ + 1]
      BY <1>10 DEF Release
    <2>2. Link(p, b) = [word EXCEPT ![p] = w1]
      BY DEF Link
    <2>3. [pools EXCEPT ![p].free_head = b, ![p].n_free = @ + 1] = [pools EXCEPT ![p] = pool1]
      BY <1>2, <1>3
    <2> QED BY <1>2, <2>1, <2>2, <2>3
  <1> HIDE DEF p, b, mine
  <1>12. /\ pool1 \in PoolRec /\ pool1.n_free = pool.n_free + 1
         /\ pool1.free_head = b /\ pool1.n_min = pool.n_min
         /\ pool1.block_size = pool.block_size /\ pool1.n_total = pool.n_total
         /\ pool1.end = pool.end /\ pool1.size = pool.size
    <2>1. pool.n_free + 1 \in Nat /\ b \in Nat
      BY <1>2, <1>9
    <2>2. pool1 \in PoolRec
      BY <1>3, <2>1 DEF PoolRec
    <2> QED BY <1>3, <2>2 DEF PoolRec
  <1>13. Blocks(pool1) = Blocks(pool) /\ (Geometry(pool) => Geometry(pool1))
    BY <1>12 DEF Blocks, Geometry, Stride
  <1>14. /\ w1 \in [Blocks(pool) -> Blocks(pool) \cup {NoBlock, Data}] /\ w1 \in Words
         /\ \A x \in Blocks(pool) : w1[x] = IF x = b THEN pool.free_head ELSE word[p][x]
    <2>1. pool.free_head \in Blocks(pool) \cup {NoBlock}
      <3>1. pool.n_free # 0 => 1 \in 1 .. pool.n_free
        BY <1>9
      <3> QED BY <1>4, <3>1 DEF FreeList
    <2>2. w1 \in [Blocks(pool) -> Blocks(pool) \cup {NoBlock, Data}]
      BY <1>5, <2>1
    <2>3. Blocks(pool) \in SUBSET Nat
      BY <1>8
    <2>4. \A x \in Blocks(pool) : w1[x] = IF x = b THEN pool.free_head ELSE word[p][x]
      BY <1>5
    <2> HIDE DEF w1
    <2> QED BY <2>2, <2>3, <2>4 DEF Words
  <1> HIDE DEF pool1, w1
  <1>15. \E nodes1 : FreeList(pool1, w1, mine \ {b}, nodes1)
    <2> HIDE DEF pool
    <2>1. /\ pool \in PoolRec /\ Geometry(pool) /\ FreeList(pool, word[p], mine, nodes)
          /\ word[p] \in [Blocks(pool) -> Blocks(pool) \cup {NoBlock, Data}]
          /\ Blocks(pool1) = Blocks(pool) /\ pool1.n_free = pool.n_free + 1
          /\ b \in mine /\ pool1.free_head = b
          /\ \A x \in Blocks(pool) : w1[x] = IF x = b THEN pool.free_head ELSE word[p][x]
      BY <1>3, <1>4, <1>5, <1>6, <1>12, <1>13, <1>14
    <2> QED BY <2>1, GivenFreeList
  <1>16. PoolOK(pool1, w1, mine \ {b})
    <2>1. pool1.n_min <= pool1.n_free
      BY <1>5, <1>9, <1>12
    <2> QED BY <1>5, <1>13, <1>14, <1>15, <2>1 DEF PoolOK
  <1>17. /\ pools' \in Seq(PoolRec) /\ Len(pools') = Len(pools) /\ pools'[p] = pool1
         /\ \A q \in 1 .. Len(pools) : q # p => pools'[q] = pools[q]
    BY <1>2, <1>3, <1>11, <1>12, ExceptSeq
  <1>18. /\ word' \in Seq(Words) /\ Len(word') = Len(word) /\ word'[p] = w1
         /\ \A q \in 1 .. Len(pools) : q # p => word'[q] = word[q]
    BY <1>3, <1>11, <1>14, ExceptSeq
  <1>19. Mine(owned', p) = mine \ {b}
    <2>1. ASSUME NEW x \in owned, x[1] = p, x[2] = b
          PROVE  x = o
      BY <1>1, <2>1 DEF p, b
    <2>2. ASSUME NEW x \in owned'
          PROVE  x[1] = p => x[2] \in mine \ {b}
      BY <1>11, <2>1, <2>2 DEF mine, Mine
    <2>3. ASSUME NEW x \in owned, x[1] = p, x[2] # b
          PROVE  x \in owned'
      BY <1>11, <2>3 DEF b
    <2> QED BY <2>2, <2>3 DEF mine, Mine
  <1>20. \A q \in 1 .. Len(pools) : q # p => Mine(owned', q) = Mine(owned, q)
    <2> SUFFICES ASSUME NEW q \in 1 .. Len(pools), q # p
                 PROVE  Mine(owned', q) = Mine(owned, q)
      OBVIOUS
    <2>1. {x \in owned' : x[1] = q} = {x \in owned : x[1] = q}
      BY <1>11 DEF p
    <2> QED BY <2>1 DEF Mine
  <1>21. /\ owned' \subseteq (1 .. Len(pools)) \X Nat \X EventSize
         /\ \A x, y \in owned' : x[1] = y[1] /\ x[2] = y[2] => x = y
         /\ \A x \in owned' : /\ x[3] <= pools[x[1]].block_size
                              /\ \A q \in 1 .. x[1] - 1 : pools[q].block_size < x[3]
    BY <1>1, <1>11
  <1>22. PoolOK(pools'[p], word'[p], Mine(owned', p))
    BY <1>16, <1>17, <1>18, <1>19
  <1>23. pools'[p].block_size = pools[p].block_size
    BY <1>12, <1>17
  <1>24. GivenBack
    BY <1>11, <1>13, <1>17 DEF GivenBack, SameBlocks
  <1> HIDE DEF pool
  <1>25. PoolInv'
    BY <1>2, <1>11, <1>17, <1>18, <1>20, <1>21, <1>22, <1>23, OneKeeps
  <1> QED BY <1>24, <1>25

-----------------------------------------------------------------------------
(* The invariant holds in every state.                                     *)
LEMMA PoolInvInit ==
  ASSUME PoolsInit
  PROVE  PoolInv
  <1>1. pools = <<>> /\ word = <<>> /\ owned = {} /\ pools_failed = "no"
    BY DEF PoolsInit
  <1>2. MaxPool >= 0 /\ Len(pools) = 0 /\ 1 .. Len(pools) = {}
    BY <1>1, PoolAssumption
  <1> QED BY <1>1, <1>2 DEF PoolInv, EventsPlaced

LEMMA PoolInvNext ==
  ASSUME PoolInv, [PoolsNext]_pools_vars
  PROVE  PoolInv' /\ (Resting \/ Grown \/ TakenOut \/ GivenBack)
  <1>1. ASSUME NEW r \in Request, PoolInit(r[1], r[2])
        PROVE  PoolInv' /\ (Resting \/ Grown)
    <2>1. r[1] \in Nat /\ r[2] \in 1 .. SizeMod - 1
      BY PoolAssumption
    <2> QED BY <1>1, <2>1, PoolInitKeeps
  <1>2. ASSUME NEW s \in EventSize, Acquire(s)
        PROVE  PoolInv' /\ (Resting \/ TakenOut)
    BY <1>2, AcquireKeeps
  <1>3. ASSUME NEW o \in owned, Release(o[1], o[2], o[3])
        PROVE  PoolInv' /\ GivenBack
    BY <1>3, ReleaseKeeps
  <1>4. CASE UNCHANGED pools_vars
    BY <1>4 DEF pools_vars, PoolInv, EventsPlaced, OwnedBlocks, Resting
  <1> QED BY <1>1, <1>2, <1>3, <1>4 DEF PoolsNext, PoolsStopped

LEMMA PoolInvHolds == PoolsSpec => []PoolInv
  BY PoolInvInit, PoolInvNext, PTL DEF PoolsSpec

(* The inductive invariant implies FreeListSound: the types, no failed range *)
(* assertion, and a chain of n_free links through the blocks that no       *)
(* client owns.                                                            *)
LEMMA InvTypes == PoolInv => PoolsTypeOK
  <1> SUFFICES ASSUME PoolInv
               PROVE  PoolsTypeOK
    OBVIOUS
  <1>1. /\ pools \in Seq(PoolRec) /\ DOMAIN pools = 1 .. Len(pools)
        /\ Len(pools) <= MaxPool /\ Len(word) = Len(pools)
        /\ owned \subseteq (DOMAIN pools) \X Nat \X EventSize
        /\ pools_failed \in {"no", "init", "hang", "no_pool", "exhausted"}
    BY DEF PoolInv, EventsPlaced
  <1>2. ASSUME NEW p \in 1 .. Len(pools)
        PROVE  /\ pools[p].block_size \in 1 .. SizeMod - 1
               /\ pools[p].n_total \in 1 .. BlockCntMod - 2
               /\ pools[p].n_min \in 0 .. pools[p].n_free
               /\ pools[p].n_free \in 0 .. pools[p].n_total
               /\ pools[p].free_head \in Blocks(pools[p]) \cup {NoBlock}
               /\ word[p] \in [Blocks(pools[p]) -> Blocks(pools[p]) \cup {NoBlock, Data}]
    <2>1. pools[p] \in PoolRec /\ PoolOK(pools[p], word[p], Mine(owned, p))
      BY PoolOf
    <2>2. PICK nodes : FreeList(pools[p], word[p], Mine(owned, p), nodes)
      BY <2>1 DEF PoolOK
    <2>3. /\ Geometry(pools[p]) /\ pools[p].n_min <= pools[p].n_free
          /\ word[p] \in [Blocks(pools[p]) -> Blocks(pools[p]) \cup {NoBlock, Data}]
      BY <2>1 DEF PoolOK
    <2>4. /\ pools[p].n_free + Cardinality(Mine(owned, p)) = pools[p].n_total
          /\ IsFiniteSet(Mine(owned, p))
      BY <2>1, <2>2, <2>3, FreeCount
    <2>5. Cardinality(Mine(owned, p)) \in Nat
      BY <2>4, FS_CardinalityType
    <2>6. pools[p].n_free \in Nat /\ pools[p].n_min \in Nat /\ pools[p].n_total \in Nat
      BY <2>1 DEF PoolRec
    <2>7. /\ pools[p].block_size \in 1 .. SizeMod - 1 /\ pools[p].n_total \in 1 .. BlockCntMod - 2
      BY <2>3 DEF Geometry
    <2>8. pools[p].free_head \in Blocks(pools[p]) \cup {NoBlock}
      <3>1. pools[p].n_free # 0 => 1 \in 1 .. pools[p].n_free
        BY <2>6
      <3> QED BY <2>2, <3>1 DEF FreeList
    <2>9. pools[p].n_min \in 0 .. pools[p].n_free /\ pools[p].n_free \in 0 .. pools[p].n_total
      BY <2>3, <2>4, <2>5, <2>6
    <2> QED BY <2>3, <2>7, <2>8, <2>9
  <1> QED BY <1>1, <1>2 DEF PoolsTypeOK

(* The free blocks of a pool are those that no client owns.                *)
LEMMA FreeAre ==
  ASSUME PoolInv, NEW p \in 1 .. Len(pools)
  PROVE  /\ Chain(p)[pools[p].n_free] = NoBlock
         /\ FreeBlocks(p) = Blocks(pools[p]) \ OwnedBlocks(p)
         /\ OwnedBlocks(p) \subseteq Blocks(pools[p])
         /\ Cardinality(FreeBlocks(p)) = pools[p].n_free
         /\ pools[p].n_free + Cardinality(OwnedBlocks(p)) = pools[p].n_total
  <1> DEFINE n == pools[p].n_free
             mine == Mine(owned, p)
  <1>1. pools[p] \in PoolRec /\ PoolOK(pools[p], word[p], mine)
    BY PoolOf
  <1>2. PICK nodes : FreeList(pools[p], word[p], mine, nodes)
    BY <1>1 DEF PoolOK
  <1>3. Geometry(pools[p]) /\ n \in Nat
    BY <1>1 DEF PoolOK, PoolRec
  <1>4. Chain(p) = ChainBy(pools[p], word[p]) /\ OwnedBlocks(p) = mine
    BY DEF Chain, ChainBy, OwnedBlocks, Mine
  <1>5. /\ \A k \in 0 .. n - 1 : Chain(p)[k] = nodes[k + 1]
        /\ Chain(p)[n] = NoBlock
    BY <1>1, <1>2, <1>3, <1>4, ChainIs
  <1>6. FreeBlocks(p) = {nodes[i] : i \in 1 .. n}
    <2>1. \A i \in 1 .. n : i - 1 \in 0 .. n - 1 /\ (i - 1) + 1 = i
      BY <1>3
    <2>2. \A k \in 0 .. n - 1 : k + 1 \in 1 .. n
      BY <1>3
    <2>3. FreeBlocks(p) = {Chain(p)[k] : k \in 0 .. n - 1}
      BY DEF FreeBlocks
    <2> HIDE DEF n
    <2>4. ASSUME NEW i \in 1 .. n
          PROVE  nodes[i] \in {Chain(p)[k] : k \in 0 .. n - 1}
      <3>1. i - 1 \in 0 .. n - 1 /\ Chain(p)[i - 1] = nodes[i]
        BY <1>5, <2>1
      <3> QED BY <3>1
    <2>5. ASSUME NEW k \in 0 .. n - 1
          PROVE  Chain(p)[k] \in {nodes[i] : i \in 1 .. n}
      BY <1>5, <2>2
    <2> QED BY <2>3, <2>4, <2>5
  <1>7. /\ Cardinality({nodes[i] : i \in 1 .. n}) = n
        /\ {nodes[i] : i \in 1 .. n} = Blocks(pools[p]) \ mine
        /\ mine \subseteq Blocks(pools[p])
        /\ n + Cardinality(mine) = pools[p].n_total
    <2>1. /\ pools[p] \in PoolRec /\ Geometry(pools[p])
          /\ FreeList(pools[p], word[p], Mine(owned, p), nodes)
      BY <1>1, <1>2, <1>3
    <2> HIDE DEF n, mine
    <2>2. /\ Cardinality(Nodes(pools[p], nodes)) = pools[p].n_free
          /\ Nodes(pools[p], nodes) = Blocks(pools[p]) \ Mine(owned, p)
          /\ Mine(owned, p) \subseteq Blocks(pools[p])
          /\ pools[p].n_free + Cardinality(Mine(owned, p)) = pools[p].n_total
      BY <2>1, FreeCount
    <2> QED BY <2>2 DEF n, mine, Nodes
  <1> QED BY <1>4, <1>5, <1>6, <1>7

(* Whatever the clients write into their blocks, the free list of every    *)
(* pool stays a chain through all blocks that no client owns, and the      *)
(* range assertions of EDF_pool_acquire and EDF_pool_release hold, for     *)
(* every number and size of pools, blocks and events.                      *)
THEOREM FreeListsAlwaysSound == PoolsSpec => []FreeListSound
  <1>1. PoolInv => FreeListSound
    <2> SUFFICES ASSUME PoolInv
                 PROVE  FreeListSound
      OBVIOUS
    <2>1. PoolsTypeOK
      BY InvTypes
    <2>2. pools_failed \notin {"chain", "release"} /\ DOMAIN pools = 1 .. Len(pools)
      BY DEF PoolInv
    <2>3. ASSUME NEW p \in 1 .. Len(pools)
          PROVE  /\ Chain(p)[pools[p].n_free] = NoBlock
                 /\ FreeBlocks(p) \subseteq Blocks(pools[p]) \ OwnedBlocks(p)
                 /\ Cardinality(FreeBlocks(p)) = pools[p].n_free
                 /\ pools[p].n_free + Cardinality(OwnedBlocks(p)) = pools[p].n_total
      <3>1. FreeBlocks(p) = Blocks(pools[p]) \ OwnedBlocks(p)
        BY FreeAre
      <3> QED BY <3>1, FreeAre
    <2> QED BY <2>1, <2>2, <2>3 DEF FreeListSound
  <1> QED BY <1>1, PoolInvHolds, PTL

(* Every event that a client owns lies inside its block and inside the     *)
(* storage of its pool, in an aligned block of the smallest pool whose     *)
(* blocks hold it.                                                         *)
THEOREM EventsAlwaysFit == PoolsSpec => []EventFits
  <1>1. PoolInv => EventFits
    <2> SUFFICES ASSUME PoolInv, NEW o \in owned
                 PROVE  /\ o[3] <= pools[o[1]].block_size
                        /\ o[2] * PtrSize + pools[o[1]].block_size <= pools[o[1]].size
                        /\ pools[o[1]].block_size % PtrSize = 0
                        /\ \A p \in 1 .. o[1] - 1 : pools[p].block_size < o[3]
      BY DEF EventFits
    <2> DEFINE pool == pools[o[1]]
    <2>1. /\ o[1] \in 1 .. Len(pools) /\ o[3] <= pool.block_size
          /\ \A p \in 1 .. o[1] - 1 : pools[p].block_size < o[3]
      BY DEF PoolInv, EventsPlaced
    <2>2. pool \in PoolRec /\ PoolOK(pool, word[o[1]], Mine(owned, o[1]))
      BY <2>1, PoolOf
    <2>3. Geometry(pool)
      BY <2>2 DEF PoolOK
    <2>4. o[2] \in Blocks(pool)
      <3>1. OwnedBlocks(o[1]) \subseteq Blocks(pool)
        BY <2>1, FreeAre
      <3> QED BY <3>1 DEF OwnedBlocks
    <2>5. o[2] * PtrSize + pool.block_size <= pool.size
      BY <2>2, <2>3, <2>4, BlocksLie
    <2>6. pool.block_size % PtrSize = 0
      <3>1. Stride(pool) \in Nat /\ pool.block_size = Stride(pool) * PtrSize /\ PtrSize \in Nat \ {0}
        BY <2>3, PoolAssumption DEF Geometry
      <3> HIDE DEF pool
      <3>2. (Stride(pool) * PtrSize) % PtrSize = 0
        BY <3>1, DivideExact
      <3> QED BY <3>1, <3>2
    <2> QED BY <2>1, <2>5, <2>6
  <1> QED BY <1>1, PoolInvHolds, PTL

(* The pools implement the block store: an operation adds blocks that      *)
(* nobody holds, moves one free block to a client or one block of a client *)
(* back, or changes neither set.                                           *)
Avail(ps, own) == UNION {{p} \X (Blocks(ps[p]) \ Mine(own, p)) : p \in 1 .. Len(ps)}
Held(own) == {<<o[1], o[2]>> : o \in own}

LEMMA AvailIs ==
  ASSUME PoolInv
  PROVE  UNION {{p} \X FreeBlocks(p) : p \in DOMAIN pools} = Avail(pools, owned)
  <1>1. DOMAIN pools = 1 .. Len(pools)
    BY DEF PoolInv
  <1>2. \A p \in 1 .. Len(pools) : FreeBlocks(p) = Blocks(pools[p]) \ Mine(owned, p)
    BY FreeAre DEF OwnedBlocks, Mine
  <1> QED BY <1>1, <1>2 DEF Avail

LEMMA InAvail ==
  ASSUME NEW ps, NEW own, NEW p, NEW b
  PROVE  <<p, b>> \in Avail(ps, own)
           <=> p \in 1 .. Len(ps) /\ b \in Blocks(ps[p]) /\ b \notin Mine(own, p)
  BY DEF Avail

LEMMA InHeld ==
  ASSUME NEW own, NEW p, NEW b
  PROVE  <<p, b>> \in Held(own) <=> b \in Mine(own, p)
  BY DEF Held, Mine

LEMMA AvailApart ==
  ASSUME NEW ps, NEW own
  PROVE  Avail(ps, own) \cap Held(own) = {}
  <1> SUFFICES ASSUME NEW x \in Avail(ps, own), x \in Held(own)
               PROVE  FALSE
    OBVIOUS
  <1>1. PICK o \in own : x = <<o[1], o[2]>>
    BY DEF Held
  <1> QED BY <1>1, InAvail, InHeld

LEMMA GrownAdds ==
  ASSUME PoolInv, Grown
  PROVE  /\ Avail(pools, owned) \subseteq Avail(pools', owned')
         /\ Avail(pools', owned') \cap Held(owned) = {} /\ Held(owned') = Held(owned)
  <1>1. Len(pools) \in Nat
    BY DEF PoolInv
  <1>2. /\ Len(pools') = Len(pools) + 1 /\ owned' = owned
        /\ \A q \in 1 .. Len(pools) : Blocks(pools'[q]) = Blocks(pools[q])
    BY DEF Grown
  <1>3. 1 .. Len(pools) \subseteq 1 .. Len(pools')
    BY <1>1, <1>2
  <1>4. Avail(pools, owned) \subseteq Avail(pools', owned')
    BY <1>2, <1>3 DEF Avail
  <1>5. Avail(pools', owned) \cap Held(owned) = {}
    BY AvailApart
  <1> QED BY <1>2, <1>4, <1>5

LEMMA TakenTakes ==
  ASSUME PoolInv, TakenOut
  PROVE  \E x \in Avail(pools, owned) :
           /\ Avail(pools', owned') = Avail(pools, owned) \ {x}
           /\ Held(owned') = Held(owned) \cup {x}
  <1>1. PICK p \in 1 .. Len(pools), e_size \in EventSize : \E b \in Blocks(pools[p]) :
          b \notin Mine(owned, p) /\ owned' = owned \cup {<<p, b, e_size>>}
    BY DEF TakenOut
  <1>2. PICK b \in Blocks(pools[p]) :
          b \notin Mine(owned, p) /\ owned' = owned \cup {<<p, b, e_size>>}
    BY <1>1
  <1>3. /\ Len(pools') = Len(pools)
        /\ \A q \in 1 .. Len(pools) : Blocks(pools'[q]) = Blocks(pools[q])
    BY DEF TakenOut, SameBlocks
  <1>4. <<p, b>> \in Avail(pools, owned)
    BY <1>2, InAvail
  <1>5. /\ Mine(owned', p) = Mine(owned, p) \cup {b}
        /\ \A q : q # p => Mine(owned', q) = Mine(owned, q)
    <2>1. /\ {x \in owned' : x[1] = p} = {x \in owned : x[1] = p} \cup {<<p, b, e_size>>}
          /\ \A q : q # p => {x \in owned' : x[1] = q} = {x \in owned : x[1] = q}
      BY <1>2
    <2>2. Mine(owned', p) = {x[2] : x \in {y \in owned : y[1] = p} \cup {<<p, b, e_size>>}}
      BY <2>1 DEF Mine
    <2>3. Mine(owned', p) = Mine(owned, p) \cup {b}
      BY <2>2, SecondOf DEF Mine
    <2> QED BY <2>1, <2>3 DEF Mine
  <1>6. Avail(pools', owned') = Avail(pools, owned) \ {<<p, b>>}
    <2>1. ASSUME NEW q \in 1 .. Len(pools), NEW c
          PROVE  <<q, c>> \in Avail(pools', owned')
                   <=> <<q, c>> \in Avail(pools, owned) \ {<<p, b>>}
      <3>1. <<q, c>> \in Avail(pools', owned')
              <=> c \in Blocks(pools[q]) /\ c \notin Mine(owned', q)
        BY <1>3, InAvail
      <3>2. <<q, c>> \in Avail(pools, owned)
              <=> c \in Blocks(pools[q]) /\ c \notin Mine(owned, q)
        BY InAvail
      <3>3. <<q, c>> = <<p, b>> <=> q = p /\ c = b
        OBVIOUS
      <3> QED BY <1>5, <3>1, <3>2, <3>3
    <2>2. \A ps, own : \A x \in Avail(ps, own) : \E q \in 1 .. Len(ps) : \E c : x = <<q, c>>
      BY DEF Avail
    <2>3. ASSUME NEW x \in Avail(pools', owned')
          PROVE  x \in Avail(pools, owned) \ {<<p, b>>}
      BY <1>3, <2>1, <2>2
    <2>4. ASSUME NEW x \in Avail(pools, owned) \ {<<p, b>>}
          PROVE  x \in Avail(pools', owned')
      BY <1>3, <2>1, <2>2
    <2> QED BY <2>3, <2>4
  <1>7. Held(owned') = Held(owned) \cup {<<p, b>>}
    <2>1. <<p, b, e_size>>[1] = p /\ <<p, b, e_size>>[2] = b
      OBVIOUS
    <2> QED BY <1>2, <2>1 DEF Held
  <1> QED BY <1>4, <1>6, <1>7

LEMMA GivenGives ==
  ASSUME PoolInv, GivenBack
  PROVE  \E x \in Held(owned) :
           /\ Avail(pools', owned') = Avail(pools, owned) \cup {x}
           /\ Held(owned') = Held(owned) \ {x}
  <1>1. PICK o \in owned : owned' = owned \ {o}
    BY DEF GivenBack
  <1> DEFINE p == o[1]
             b == o[2]
  <1>2. /\ Len(pools') = Len(pools)
        /\ \A q \in 1 .. Len(pools) : Blocks(pools'[q]) = Blocks(pools[q])
    BY DEF GivenBack, SameBlocks
  <1>3. /\ owned \subseteq (1 .. Len(pools)) \X Nat \X EventSize
        /\ \A x, y \in owned : x[1] = y[1] /\ x[2] = y[2] => x = y
    BY DEF PoolInv, EventsPlaced
  <1>4. p \in 1 .. Len(pools) /\ <<p, b>> \in Held(owned)
    BY <1>3 DEF Held
  <1>5. b \in Blocks(pools[p])
    BY <1>4, FreeAre DEF OwnedBlocks
  <1>6. /\ Mine(owned', p) = Mine(owned, p) \ {b}
        /\ \A q : q # p => Mine(owned', q) = Mine(owned, q)
    <2>1. ASSUME NEW x \in owned, x[1] = p, x[2] = b
          PROVE  x = o
      BY <1>3, <2>1
    <2>2. ASSUME NEW x \in owned'
          PROVE  x[1] = p => x[2] \in Mine(owned, p) \ {b}
      BY <1>1, <2>1, <2>2 DEF Mine
    <2>3. ASSUME NEW x \in owned, x[1] = p, x[2] # b
          PROVE  x \in owned'
      BY <1>1, <2>3
    <2>4. \A q : q # p => {x \in owned' : x[1] = q} = {x \in owned : x[1] = q}
      BY <1>1
    <2>5. \A q : q # p => Mine(owned', q) = Mine(owned, q)
      BY <2>4 DEF Mine
    <2> HIDE DEF p, b
    <2>6. Mine(owned', p) = Mine(owned, p) \ {b}
      BY <2>2, <2>3 DEF Mine
    <2> QED BY <2>5, <2>6
  <1>7. b \in Mine(owned, p)
    BY DEF Mine
  <1>8. Held(owned') = Held(owned) \ {<<p, b>>}
    BY <1>1, <1>3 DEF Held
  <1> HIDE DEF p, b
  <1>9. Avail(pools', owned') = Avail(pools, owned) \cup {<<p, b>>}
    <2>1. ASSUME NEW q \in 1 .. Len(pools), NEW c
          PROVE  <<q, c>> \in Avail(pools', owned')
                   <=> <<q, c>> \in Avail(pools, owned) \cup {<<p, b>>}
      <3>1. <<q, c>> \in Avail(pools', owned')
              <=> c \in Blocks(pools[q]) /\ c \notin Mine(owned', q)
        BY <1>2, InAvail
      <3>2. <<q, c>> \in Avail(pools, owned)
              <=> c \in Blocks(pools[q]) /\ c \notin Mine(owned, q)
        BY InAvail
      <3>3. <<q, c>> = <<p, b>> <=> q = p /\ c = b
        OBVIOUS
      <3> QED BY <1>5, <1>6, <3>1, <3>2, <3>3
    <2>2. \A ps, own : \A x \in Avail(ps, own) : \E q \in 1 .. Len(ps) : \E c : x = <<q, c>>
      BY DEF Avail
    <2>3. ASSUME NEW x \in Avail(pools', owned')
          PROVE  x \in Avail(pools, owned) \cup {<<p, b>>}
      BY <1>2, <2>1, <2>2
    <2>4. ASSUME NEW x \in Avail(pools, owned) \cup {<<p, b>>}
          PROVE  x \in Avail(pools', owned')
      BY <1>2, <1>4, <2>1, <2>2
    <2> QED BY <2>3, <2>4
  <1> QED BY <1>4, <1>8, <1>9

THEOREM PoolsImplementStore == PoolsSpec => ImplementsStore
  <1> DEFINE available == UNION {{p} \X FreeBlocks(p) : p \in DOMAIN pools}
             held == {<<o[1], o[2]>> : o \in owned}
  <1>1. PoolsInit => Store!Init
    <2>1. PoolsInit => DOMAIN pools = {} /\ owned = {}
      BY DEF PoolsInit
    <2>2. DOMAIN pools = {} => UNION {{p} \X FreeBlocks(p) : p \in DOMAIN pools} = {}
      OBVIOUS
    <2>3. owned = {} => {<<o[1], o[2]>> : o \in owned} = {}
      OBVIOUS
    <2> QED BY <2>1, <2>2, <2>3 DEF Store!Init
  <1>2. PoolInv => available = Avail(pools, owned)
    BY AvailIs
  <1>3. PoolInv' => (available = Avail(pools, owned))'
    BY <1>2, PTL
  <1>4. PoolInv /\ PoolInv' /\ [PoolsNext]_pools_vars => [Store!Next]_Store!vars
    <2> SUFFICES ASSUME PoolInv, PoolInv', [PoolsNext]_pools_vars
                 PROVE  [Store!Next]_Store!vars
      OBVIOUS
    <2>1. /\ available = Avail(pools, owned) /\ available' = Avail(pools', owned')
          /\ held = Held(owned) /\ held' = Held(owned')
      <3>1. available = Avail(pools, owned)
        BY AvailIs
      <3>2. available' = Avail(pools', owned')
        BY <1>3
      <3> QED BY <3>1, <3>2 DEF Held
    <2>2. Resting \/ Grown \/ TakenOut \/ GivenBack
      BY PoolInvNext
    <2> HIDE DEF available, held
    <2>3. CASE Resting
      <3>1. available' = available /\ held' = held
        BY <2>1, <2>3 DEF Resting
      <3> QED BY <3>1 DEF Store!vars, available, held
    <2>4. CASE Grown
      <3>1. available \subseteq available' /\ available' \cap held = {} /\ held' = held
        BY <2>1, <2>4, GrownAdds
      <3> QED BY <3>1 DEF Store!Next, Store!Add, available, held
    <2>5. CASE TakenOut
      <3>1. \E x \in available : available' = available \ {x} /\ held' = held \cup {x}
        BY <2>1, <2>5, TakenTakes
      <3> QED BY <3>1 DEF Store!Next, Store!Take, available, held
    <2>6. CASE GivenBack
      <3>1. \E x \in held : available' = available \cup {x} /\ held' = held \ {x}
        BY <2>1, <2>6, GivenGives
      <3> QED BY <3>1 DEF Store!Next, Store!Give, available, held
    <2> QED BY <2>2, <2>3, <2>4, <2>5, <2>6
  <1> QED BY <1>1, <1>4, PoolInvHolds, PTL DEF PoolsSpec, ImplementsStore, Store!Spec
=============================================================================
