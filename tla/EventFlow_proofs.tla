------------------------- MODULE EventFlow_proofs -------------------------
(***************************************************************************)
(* Events, their references and their queues: first types and wake-ups,    *)
(* then reference counting.                                                *)
(***************************************************************************)
EXTENDS EventFlow, EmfBitmask_proofs, FiniteSetTheorems

(***************************************************************************)
(* For any number of active objects, producers and events, any queue       *)
(* lengths and any number of calls: every variable of EventFlow keeps its  *)
(* type, no thread works on a missing event, and no active object sleeps   *)
(* while its queue holds an event.                                         *)
(***************************************************************************)

(* What a thread has in hand at each of its places: the API call under way *)
(* has its event, a block about to be released is a pool event, and a      *)
(* handler that is not finished has the event it handles.                  *)
HandlerRuns(a) ==
  \/ pc[a] \in {"run", "multicast", "recall_post", "recall_drop", "flush"}
  \/ pc[a] \in {"gc", "release"} /\ after[a] # "get"

ControlOK ==
  /\ \A t \in Thread :
       /\ pc[t] \in {"multicast", "recall_post", "recall_drop", "gc", "release"}
            => arg[t] \in Event
       /\ pc[t] = "release" => arg[t] \in Mutable
  /\ \A a \in AO : HandlerRuns(a) => cur[a] \in Event

(* The inductive invariant.                                                *)
FlowInv == TypeOK /\ ControlOK /\ NoLostWakeup

LEMMA Bounds ==
  /\ MaxAO \in Nat /\ Budget \in Nat /\ DeferCap \in Nat
  /\ NULL \notin Event
  BY FlowAssumption

LEMMA InitFlow ==
  ASSUME Init
  PROVE  FlowInv
  BY Bounds
  DEF Init, FlowInv, TypeOK, ControlOK, HandlerRuns, NoLostWakeup, Thread, Event, Place

-----------------------------------------------------------------------------
(* The parts that several actions share.                                   *)

LEMMA FailFlow ==
  ASSUME FlowInv, NEW why \in Check, Fail(why)
  PROVE  FlowInv'
  <1>1. TypeOK'
    BY DEF FlowInv, TypeOK, Fail
  <1>2. ControlOK'
    BY DEF FlowInv, ControlOK, HandlerRuns, Fail
  <1>3. NoLostWakeup'
    BY DEF FlowInv, NoLostWakeup, Fail
  <1>4. QED
    BY <1>1, <1>2, <1>3 DEF FlowInv

LEMMA PostFailsFlow ==
  ASSUME FlowInv, NEW q, NEW cap, NEW e, PostFails(q, cap, e)
  PROVE  FlowInv'
  <1>1. Fail("full") \/ Fail("margin")
    BY DEF PostFails
  <1>2. QED
    BY <1>1, FailFlow DEF Check

LEMMA AddRefType ==
  ASSUME TypeOK, NEW e \in Event, MarginLeft(e), AddRef(e)
  PROVE  ref_cnt' \in [Mutable -> 0 .. 2 * MaxAO]
  BY Bounds DEF TypeOK, MarginLeft, AddRef

LEMMA CalledType ==
  ASSUME TypeOK, NEW t \in Thread, calls[t] > 0, Called(t)
  PROVE  calls' \in [Thread -> 0 .. Budget]
  BY Bounds DEF TypeOK, Called

LEMMA SentType ==
  ASSUME TypeOK, NEW t \in Thread, NEW call, NEW e, MaySend(t, call, e), Sent(t, e)
  PROVE  /\ calls' \in [Thread -> 0 .. Budget]
         /\ fresh' \in [Thread -> Mutable \cup {NULL}]
  <1>1. CASE e = fresh[t]
    BY <1>1 DEF TypeOK, Sent
  <1>2. CASE e # fresh[t]
    BY <1>2, CalledType DEF TypeOK, Sent, MaySend, MayCall
  <1>3. QED
    BY <1>1, <1>2

(* A signal moves a waiting thread, and no other.                          *)
LEMMA NotifiedMoves ==
  ASSUME TypeOK, NEW a
  PROVE  /\ Notified(pc, a) \in [Thread -> Place]
         /\ \A t \in Thread :
              \/ Notified(pc, a)[t] = pc[t]
              \/ t = a /\ pc[t] = "wait" /\ Notified(pc, a)[t] = "get"
         /\ a \in Thread /\ e_queue[a] = <<>> => Notified(pc, a)[a] # "wait"
  <1> DEFINE signalled == e_queue[a] = <<>> /\ pc[a] = "wait"
             moved == Notified(pc, a)
  <1>1. /\ signalled => moved = [pc EXCEPT ![a] = "get"]
        /\ ~signalled => moved = pc
    BY DEF Notified
  <1>2. pc \in [Thread -> Place] /\ "get" \in Place
    BY DEF TypeOK, Place
  <1> HIDE DEF moved, signalled
  <1>3. moved \in [Thread -> Place]
    BY <1>1, <1>2
  <1>4. ASSUME NEW t \in Thread
        PROVE  \/ moved[t] = pc[t]
               \/ t = a /\ pc[t] = "wait" /\ moved[t] = "get"
    BY <1>1, <1>2 DEF signalled
  <1>5. a \in Thread /\ e_queue[a] = <<>> => moved[a] # "wait"
    BY <1>1, <1>2, Zenon DEF signalled
  <1>6. QED
    BY <1>3, <1>4, <1>5 DEF moved

-----------------------------------------------------------------------------
(* One lemma for each action.                                              *)

LEMMA GetFlow ==
  ASSUME FlowInv, NEW a \in AO, Get(a)
  PROVE  FlowInv'
  <1> USE Bounds DEF FlowInv, Thread, Place
  <1>1. TypeOK'
    BY   DEF TypeOK, Get
  <1>2. ControlOK'
    BY DEF TypeOK, ControlOK, HandlerRuns, Get
  <1>3. NoLostWakeup'
    BY DEF TypeOK, NoLostWakeup, Get
  <1>4. QED
    BY <1>1, <1>2, <1>3

LEMMA WaitFlow ==
  ASSUME FlowInv, NEW a \in AO, Wait(a)
  PROVE  FlowInv'
  <1> USE Bounds DEF FlowInv, Thread, Place
  <1>1. TypeOK'
    BY   DEF TypeOK, Wait
  <1>2. ControlOK'
    BY DEF TypeOK, ControlOK, HandlerRuns, Wait
  <1>3. NoLostWakeup'
    BY DEF TypeOK, NoLostWakeup, Wait
  <1>4. QED
    BY <1>1, <1>2, <1>3

LEMMA SpuriousWakeupFlow ==
  ASSUME FlowInv, NEW a \in AO, SpuriousWakeup(a)
  PROVE  FlowInv'
  <1> USE Bounds DEF FlowInv, Thread, Place
  <1>1. TypeOK'
    BY   DEF TypeOK, SpuriousWakeup
  <1>2. ControlOK'
    BY DEF TypeOK, ControlOK, HandlerRuns, SpuriousWakeup
  <1>3. NoLostWakeup'
    BY DEF TypeOK, NoLostWakeup, SpuriousWakeup
  <1>4. QED
    BY <1>1, <1>2, <1>3

LEMMA ReturnFlow ==
  ASSUME FlowInv, NEW a \in AO, Return(a)
  PROVE  FlowInv'
  <1> USE Bounds DEF FlowInv, Thread, Place
  <1>1. TypeOK'
    BY   DEF TypeOK, Return
  <1>2. ControlOK'
    BY DEF TypeOK, ControlOK, HandlerRuns, Return
  <1>3. NoLostWakeup'
    BY DEF TypeOK, NoLostWakeup, Return
  <1>4. QED
    BY <1>1, <1>2, <1>3

LEMMA PublishEndFlow ==
  ASSUME FlowInv, NEW t \in Thread, PublishEnd(t)
  PROVE  FlowInv'
  <1> USE Bounds DEF FlowInv, Thread, Place
  <1>1. TypeOK'
    BY   DEF TypeOK, PublishEnd
  <1>2. ControlOK'
    BY DEF TypeOK, ControlOK, HandlerRuns, PublishEnd
  <1>3. NoLostWakeup'
    BY DEF TypeOK, NoLostWakeup, PublishEnd
  <1>4. QED
    BY <1>1, <1>2, <1>3

LEMMA FlushEndFlow ==
  ASSUME FlowInv, NEW a \in AO, FlushEnd(a)
  PROVE  FlowInv'
  <1> USE Bounds DEF FlowInv, Thread, Place
  <1>1. TypeOK'
    BY   DEF TypeOK, FlushEnd
  <1>2. ControlOK'
    BY DEF TypeOK, ControlOK, HandlerRuns, FlushEnd
  <1>3. NoLostWakeup'
    BY DEF TypeOK, NoLostWakeup, FlushEnd
  <1>4. QED
    BY <1>1, <1>2, <1>3

LEMMA GcLastFlow ==
  ASSUME FlowInv, NEW t \in Thread, GcLast(t)
  PROVE  FlowInv'
  <1> USE Bounds DEF FlowInv, Thread, Place
  <1>1. TypeOK'
    BY   DEF TypeOK, GcLast, LastReference
  <1>2. ControlOK'
    BY DEF TypeOK, ControlOK, HandlerRuns, GcLast, LastReference
  <1>3. NoLostWakeup'
    BY DEF TypeOK, NoLostWakeup, GcLast, LastReference
  <1>4. QED
    BY <1>1, <1>2, <1>3

LEMMA SubscribeFlow ==
  ASSUME FlowInv, NEW a \in AO, Subscribe(a) \/ Unsubscribe(a)
  PROVE  FlowInv'
  <1> USE Bounds DEF FlowInv, Thread, Place
  <1>1. calls' \in [Thread -> 0 .. Budget]
    BY CalledType DEF Subscribe, Unsubscribe, MayCall
  <1>2. subscriber' \subseteq AO
    BY DEF TypeOK, Subscribe, Unsubscribe
  <1>3. TypeOK'
    BY <1>1, <1>2 DEF TypeOK, Subscribe, Unsubscribe
  <1>4. ControlOK'
    BY DEF TypeOK, ControlOK, HandlerRuns, Subscribe, Unsubscribe
  <1>5. NoLostWakeup'
    BY DEF TypeOK, NoLostWakeup, Subscribe, Unsubscribe
  <1>6. QED
    BY <1>3, <1>4, <1>5

LEMMA FlushDeferredFlow ==
  ASSUME FlowInv, NEW a \in AO, FlushDeferred(a)
  PROVE  FlowInv'
  <1> USE Bounds DEF FlowInv, Thread, Place
  <1>1. PICK num \in 1 .. DeferCap :
          /\ to_flush' = [to_flush EXCEPT ![a] = num]
          /\ pc[a] = "run" /\ pc' = [pc EXCEPT ![a] = "flush"]
          /\ Called(a) /\ calls[a] > 0
          /\ UNCHANGED <<free, ref_cnt, e_queue, deferred, subscriber, cur, fresh, arg,
                         subs_list, after, failed>>
    BY DEF FlushDeferred, MayCall
  <1>2. calls' \in [Thread -> 0 .. Budget]
    BY <1>1, CalledType
  <1>3. to_flush' \in [AO -> 0 .. DeferCap]
    BY <1>1 DEF TypeOK
  <1>4. pc' \in [Thread -> Place]
    BY <1>1 DEF TypeOK
  <1>5. TypeOK'
    BY <1>1, <1>2, <1>3, <1>4 DEF TypeOK
  <1>6. ControlOK'
    BY <1>1 DEF TypeOK, ControlOK, HandlerRuns
  <1>7. NoLostWakeup'
    BY <1>1 DEF TypeOK, NoLostWakeup
  <1>8. QED
    BY <1>5, <1>6, <1>7

LEMMA FlushNextFlow ==
  ASSUME FlowInv, NEW a \in AO, FlushNext(a)
  PROVE  FlowInv'
  <1> USE Bounds DEF FlowInv, Thread, Place
  <1>1. to_flush' \in [AO -> 0 .. DeferCap]
    BY DEF TypeOK, FlushNext
  <1>2. deferred' \in [AO -> Seq(Event)] /\ Head(deferred[a]) \in Event
    BY DEF TypeOK, FlushNext
  <1>3. TypeOK'
    BY <1>1, <1>2 DEF TypeOK, FlushNext
  <1>4. ControlOK'
    BY <1>2 DEF TypeOK, ControlOK, HandlerRuns, FlushNext
  <1>5. NoLostWakeup'
    BY DEF TypeOK, NoLostWakeup, FlushNext
  <1>6. QED
    BY <1>3, <1>4, <1>5

LEMMA GcDropFlow ==
  ASSUME FlowInv, NEW t \in Thread, GcDrop(t)
  PROVE  FlowInv'
  <1> USE Bounds DEF FlowInv, Thread, Place
  <1>1. ref_cnt' \in [Mutable -> 0 .. 2 * MaxAO]
    BY DEF TypeOK, GcDrop, LastReference
  <1>2. pc' \in [Thread -> Place]
    BY DEF TypeOK, GcDrop
  <1>3. TypeOK'
    BY <1>1, <1>2 DEF TypeOK, GcDrop
  <1>4. ControlOK'
    BY DEF TypeOK, ControlOK, HandlerRuns, GcDrop
  <1>5. NoLostWakeup'
    BY DEF TypeOK, NoLostWakeup, GcDrop
  <1>6. QED
    BY <1>3, <1>4, <1>5

LEMMA ReleaseFlow ==
  ASSUME FlowInv, NEW t \in Thread, Release(t)
  PROVE  FlowInv'
  <1> USE Bounds DEF FlowInv, Thread, Place
  <1>1. CASE free = Mutable
    BY <1>1, FailFlow DEF Release, Check
  <1>2. CASE ~(free = Mutable)
    <2> USE <1>2
    <2>1. free' \subseteq Mutable
      BY DEF TypeOK, ControlOK, Release
    <2>2. pc' \in [Thread -> Place]
      BY DEF TypeOK, Release
    <2>3. arg' \in [Thread -> Event \cup {NULL}]
      BY DEF TypeOK, Release
    <2>4. TypeOK'
      BY <2>1, <2>2, <2>3 DEF TypeOK, Release
    <2>5. ControlOK'
      BY DEF TypeOK, ControlOK, HandlerRuns, Release
    <2>6. NoLostWakeup'
      BY DEF TypeOK, NoLostWakeup, Release
    <2>7. QED
      BY <2>4, <2>5, <2>6
  <1>3. QED
    BY <1>1, <1>2

LEMMA RecallDropFlow ==
  ASSUME FlowInv, NEW a \in AO, RecallDrop(a)
  PROVE  FlowInv'
  <1> USE Bounds DEF FlowInv, Thread, Place
  <1>1. CASE arg[a] \in Mutable /\ ref_cnt[arg[a]] < 2
    BY <1>1, FailFlow DEF RecallDrop, Check
  <1>2. CASE ~(arg[a] \in Mutable /\ ref_cnt[arg[a]] < 2)
    <2>1. /\ ref_cnt' = IF arg[a] \in Mutable THEN [ref_cnt EXCEPT ![arg[a]] = @ - 1]
                                              ELSE ref_cnt
          /\ pc[a] = "recall_drop" /\ pc' = [pc EXCEPT ![a] = "run"]
          /\ arg' = [arg EXCEPT ![a] = NULL]
          /\ UNCHANGED <<free, e_queue, deferred, subscriber, cur, fresh, subs_list,
                         to_flush, after, calls, failed>>
      BY <1>2 DEF RecallDrop
    <2>2. ref_cnt' \in [Mutable -> 0 .. 2 * MaxAO]
      BY <1>2, <2>1 DEF TypeOK
    <2>3. pc' \in [Thread -> Place]
      BY <2>1 DEF TypeOK
    <2>4. arg' \in [Thread -> Event \cup {NULL}]
      BY <2>1 DEF TypeOK
    <2>5. TypeOK'
      BY <2>1, <2>2, <2>3, <2>4 DEF TypeOK
    <2>6. ControlOK'
      BY <2>1 DEF TypeOK, ControlOK, HandlerRuns
    <2>7. NoLostWakeup'
      BY <2>1 DEF TypeOK, NoLostWakeup
    <2>8. QED
      BY <2>5, <2>6, <2>7
  <1>3. QED
    BY <1>1, <1>2

LEMMA RecallFlow ==
  ASSUME FlowInv, NEW a \in AO, Recall(a)
  PROVE  FlowInv'
  <1> USE Bounds DEF FlowInv, Thread, Place
  <1>1. CASE deferred[a] = <<>>
    BY <1>1, FailFlow DEF Recall, Check
  <1>2. CASE deferred[a] # <<>>
    <2>1. /\ arg' = [arg EXCEPT ![a] = Head(deferred[a])]
          /\ deferred' = [deferred EXCEPT ![a] = Tail(@)]
          /\ pc[a] = "run" /\ pc' = [pc EXCEPT ![a] = "recall_post"]
          /\ Called(a) /\ calls[a] > 0
          /\ UNCHANGED <<free, ref_cnt, e_queue, subscriber, cur, fresh, subs_list,
                         to_flush, after, failed>>
      BY <1>2 DEF Recall, MayCall
    <2>2. calls' \in [Thread -> 0 .. Budget]
      BY <2>1, CalledType
    <2>3. deferred[a] \in Seq(Event)
      BY DEF TypeOK
    <2>4. Head(deferred[a]) \in Event /\ Tail(deferred[a]) \in Seq(Event)
      BY <1>2, <2>3
    <2>5. deferred' \in [AO -> Seq(Event)]
      BY <2>1, <2>4 DEF TypeOK
    <2>6. pc' \in [Thread -> Place]
      BY <2>1 DEF TypeOK
    <2>7. arg' \in [Thread -> Event \cup {NULL}]
      BY <2>1, <2>4 DEF TypeOK
    <2>8. TypeOK'
      BY <2>1, <2>2, <2>5, <2>6, <2>7 DEF TypeOK
    <2>9. ControlOK'
      BY <2>1, <2>4 DEF TypeOK, ControlOK, HandlerRuns
    <2>10. NoLostWakeup'
      BY <2>1 DEF TypeOK, NoLostWakeup
    <2>11. QED
      BY <2>8, <2>9, <2>10
  <1>3. QED
    BY <1>1, <1>2

LEMMA NewFlow ==
  ASSUME FlowInv, NEW t \in Thread, New(t)
  PROVE  FlowInv'
  <1> USE Bounds DEF FlowInv, Thread, Place
  <1>1. CASE free = {}
    BY <1>1, FailFlow DEF New, Check
  <1>2. CASE ~(free = {})
    <2> USE <1>2
    <2>1. PICK e \in free :
            /\ free' = free \ {e}
            /\ ref_cnt' = [ref_cnt EXCEPT ![e] = 0]
            /\ fresh' = [fresh EXCEPT ![t] = e]
            /\ Called(t) /\ calls[t] > 0
            /\ UNCHANGED <<e_queue, deferred, subscriber, pc, cur, arg, subs_list,
                           to_flush, after, failed>>
      BY DEF New, MayCall
    <2>2. calls' \in [Thread -> 0 .. Budget]
      BY <2>1, CalledType
    <2>3. free' \subseteq Mutable /\ ref_cnt' \in [Mutable -> 0 .. 2 * MaxAO]
      BY <2>1 DEF TypeOK
    <2>4. fresh' \in [Thread -> Mutable \cup {NULL}]
      BY <2>1 DEF TypeOK
    <2>5. TypeOK'
      BY <2>1, <2>2, <2>3, <2>4 DEF TypeOK
    <2>6. ControlOK' /\ NoLostWakeup'
      BY <2>1 DEF ControlOK, HandlerRuns, NoLostWakeup
    <2>7. QED
      BY <2>5, <2>6
  <1>3. QED
    BY <1>1, <1>2

LEMMA PostFlow ==
  ASSUME FlowInv, NEW t \in Thread, NEW a \in AO, NEW e \in Event, Post(t, a, e)
  PROVE  FlowInv'
  <1> USE Bounds DEF FlowInv, Thread, Place
  <1>1. CASE PostFails(e_queue[a], QueueCap, e)
    BY <1>1, PostFailsFlow
  <1>2. CASE ~PostFails(e_queue[a], QueueCap, e)
    <2>1. /\ e_queue' = [e_queue EXCEPT ![a] = Append(@, e)]
          /\ AddRef(e) /\ MarginLeft(e)
          /\ pc' = Notified(pc, a)
          /\ Sent(t, e) /\ MaySend(t, "post", e)
          /\ UNCHANGED <<free, deferred, subscriber, cur, arg, subs_list, to_flush,
                         after, failed>>
      BY <1>2 DEF Post, PostSucceeds
    <2>2. ref_cnt' \in [Mutable -> 0 .. 2 * MaxAO]
      BY <2>1, AddRefType
    <2>3. calls' \in [Thread -> 0 .. Budget] /\ fresh' \in [Thread -> Mutable \cup {NULL}]
      BY <2>1, SentType
    <2>4. e_queue' \in [AO -> Seq(Event)]
      BY <2>1 DEF TypeOK
    <2>5. TypeOK'
      BY <2>1, <2>2, <2>3, <2>4, NotifiedMoves DEF TypeOK
    <2>6. ControlOK'
      BY <2>1, NotifiedMoves DEF ControlOK, HandlerRuns
    <2>7. NoLostWakeup'
      BY <2>1, NotifiedMoves DEF NoLostWakeup, TypeOK
    <2>8. QED
      BY <2>5, <2>6, <2>7
  <1>3. QED
    BY <1>1, <1>2

LEMMA PublishFlow ==
  ASSUME FlowInv, NEW t \in Thread, NEW e \in Event, Publish(t, e)
  PROVE  FlowInv'
  <1> USE Bounds DEF FlowInv, Thread, Place
  <1>1. CASE ~MarginLeft(e)
    BY <1>1, FailFlow DEF Publish, Check
  <1>2. CASE MarginLeft(e)
    <2>1. /\ MaySend(t, "publish", e) /\ Sent(t, e) /\ AddRef(e)
          /\ arg' = [arg EXCEPT ![t] = e]
          /\ subs_list' = [subs_list EXCEPT ![t] = subscriber]
          /\ pc[t] = "run" /\ pc' = [pc EXCEPT ![t] = "multicast"]
          /\ UNCHANGED <<free, e_queue, deferred, subscriber, cur, to_flush, after,
                         failed>>
      BY <1>2 DEF Publish, MaySend, MayCall
    <2>2. ref_cnt' \in [Mutable -> 0 .. 2 * MaxAO]
      BY <1>2, <2>1, AddRefType
    <2>3. calls' \in [Thread -> 0 .. Budget] /\ fresh' \in [Thread -> Mutable \cup {NULL}]
      BY <2>1, SentType
    <2>4. subs_list' \in [Thread -> SUBSET AO]
      BY <2>1 DEF TypeOK
    <2>5. pc' \in [Thread -> Place]
      BY <2>1 DEF TypeOK
    <2>6. arg' \in [Thread -> Event \cup {NULL}]
      BY <2>1 DEF TypeOK
    <2>7. TypeOK'
      BY <2>1, <2>2, <2>3, <2>4, <2>5, <2>6 DEF TypeOK
    <2>8. ControlOK'
      BY <2>1 DEF TypeOK, ControlOK, HandlerRuns
    <2>9. NoLostWakeup'
      BY <2>1 DEF TypeOK, NoLostWakeup
    <2>10. QED
      BY <2>7, <2>8, <2>9
  <1>3. QED
    BY <1>1, <1>2

LEMMA DeferFlow ==
  ASSUME FlowInv, NEW a \in AO, Defer(a)
  PROVE  FlowInv'
  <1> USE Bounds DEF FlowInv, Thread, Place
  <1>1. CASE PostFails(deferred[a], DeferCap, cur[a])
    BY <1>1, PostFailsFlow
  <1>2. CASE ~PostFails(deferred[a], DeferCap, cur[a])
    <2>1. /\ deferred' = [deferred EXCEPT ![a] = Append(@, cur[a])]
          /\ AddRef(cur[a]) /\ MarginLeft(cur[a])
          /\ Called(a) /\ calls[a] > 0 /\ pc[a] = "run"
          /\ UNCHANGED <<free, e_queue, subscriber, pc, cur, fresh, arg, subs_list,
                         to_flush, after, failed>>
      BY <1>2 DEF Defer, PostSucceeds, MayCall
    <2>2. cur[a] \in Event
      BY <2>1 DEF ControlOK, HandlerRuns
    <2>3. ref_cnt' \in [Mutable -> 0 .. 2 * MaxAO]
      BY <2>1, <2>2, AddRefType
    <2>4. calls' \in [Thread -> 0 .. Budget]
      BY <2>1, CalledType
    <2>5. deferred' \in [AO -> Seq(Event)]
      BY <2>1, <2>2 DEF TypeOK
    <2>6. TypeOK'
      BY <2>1, <2>3, <2>4, <2>5 DEF TypeOK
    <2>7. ControlOK' /\ NoLostWakeup'
      BY <2>1 DEF ControlOK, HandlerRuns, NoLostWakeup
    <2>8. QED
      BY <2>6, <2>7
  <1>3. QED
    BY <1>1, <1>2

LEMMA RecallPostFlow ==
  ASSUME FlowInv, NEW a \in AO, RecallPost(a)
  PROVE  FlowInv'
  <1> USE Bounds DEF FlowInv, Thread, Place
  <1>1. CASE PostFails(e_queue[a], QueueCap, arg[a])
    BY <1>1, PostFailsFlow
  <1>2. CASE ~PostFails(e_queue[a], QueueCap, arg[a])
    <2>1. /\ e_queue' = [e_queue EXCEPT ![a] = <<arg[a]>> \o @]
          /\ AddRef(arg[a]) /\ MarginLeft(arg[a])
          /\ pc[a] = "recall_post" /\ pc' = [pc EXCEPT ![a] = "recall_drop"]
          /\ UNCHANGED <<free, deferred, subscriber, cur, fresh, arg, subs_list,
                         to_flush, after, calls, failed>>
      BY <1>2 DEF RecallPost, PostSucceeds
    <2>2. arg[a] \in Event
      BY <2>1 DEF ControlOK
    <2>3. ref_cnt' \in [Mutable -> 0 .. 2 * MaxAO]
      BY <2>1, <2>2, AddRefType
    <2>4. e_queue' \in [AO -> Seq(Event)]
      BY <2>1, <2>2 DEF TypeOK
    <2>5. pc' \in [Thread -> Place]
      BY <2>1 DEF TypeOK
    <2>6. TypeOK'
      BY <2>1, <2>3, <2>4, <2>5 DEF TypeOK
    <2>7. ControlOK'
      BY <2>1 DEF TypeOK, ControlOK, HandlerRuns
    <2>8. NoLostWakeup'
      BY <2>1 DEF TypeOK, NoLostWakeup
    <2>9. QED
      BY <2>6, <2>7, <2>8
  <1>3. QED
    BY <1>1, <1>2

(* The active object that publish posts to next: findMax of its copy of    *)
(* the subscriber list.                                                    *)
LEMMA MulticastFlow ==
  ASSUME FlowInv, NEW t \in Thread, Multicast(t)
  PROVE  FlowInv'
  <1> USE Bounds DEF FlowInv, Thread, Place
  <1> DEFINE e == arg[t]
  <1>1. PICK prio : prio = FindMax(BitmaskOf(subs_list[t], (MaxAO + 7) \div 8))
    OBVIOUS
  <1>2. CASE PostFails(e_queue[prio], QueueCap, e)
    BY <1>2, PostFailsFlow
  <1>3. CASE ~PostFails(e_queue[prio], QueueCap, e)
    <2>1. /\ pc[t] = "multicast"
          /\ e_queue' = [e_queue EXCEPT ![prio] = Append(@, e)]
          /\ AddRef(e) /\ MarginLeft(e)
          /\ pc' = Notified(pc, prio)
          /\ subs_list' = [subs_list EXCEPT ![t] = @ \ {prio}]
          /\ UNCHANGED <<free, deferred, subscriber, cur, fresh, arg, to_flush,
                         after, calls, failed>>
      BY <1>1, <1>3 DEF Multicast, PostSucceeds
    <2>2. e \in Event
      BY <2>1 DEF ControlOK
    <2>3. ref_cnt' \in [Mutable -> 0 .. 2 * MaxAO]
      BY <2>1, <2>2, AddRefType
    <2>4. e_queue' \in [AO -> Seq(Event)]
      <3>1. CASE prio \in AO
        <4>1. Append(e_queue[prio], e) \in Seq(Event)
          BY <2>2, <3>1 DEF TypeOK
        <4>2. QED
          BY <2>1, <4>1 DEF TypeOK
      <3>2. CASE prio \notin AO
        BY <2>1, <3>2 DEF TypeOK
      <3>3. QED
        BY <3>1, <3>2
    <2>5. subs_list' \in [Thread -> SUBSET AO]
      BY <2>1 DEF TypeOK
    <2>6. TypeOK'
      BY <2>1, <2>3, <2>4, <2>5, NotifiedMoves DEF TypeOK
    <2>7. ControlOK'
      BY <2>1, NotifiedMoves DEF ControlOK, HandlerRuns
    <2>8. NoLostWakeup'
      BY <2>1, NotifiedMoves DEF NoLostWakeup, TypeOK
    <2>9. QED
      BY <2>6, <2>7, <2>8
  <1>4. QED
    BY <1>2, <1>3

-----------------------------------------------------------------------------
LEMMA NextFlow ==
  ASSUME FlowInv, [Next]_vars
  PROVE  FlowInv'
  <1>1. ASSUME NEW t \in Thread, Proceed(t)
        PROVE  FlowInv'
    BY <1>1, MulticastFlow, PublishEndFlow, GcDropFlow, GcLastFlow, ReleaseFlow
    DEF Proceed
  <1>2. ASSUME NEW t \in Thread, Call(t)
        PROVE  FlowInv'
    BY <1>2, NewFlow, PublishFlow, PostFlow DEF Call
  <1>3. ASSUME NEW a \in AO, AOProceeds(a)
        PROVE  FlowInv'
    BY <1>3, GetFlow, WaitFlow, ReturnFlow, RecallPostFlow, RecallDropFlow,
       FlushNextFlow, FlushEndFlow
    DEF AOProceeds
  <1>4. ASSUME NEW a \in AO, AOCall(a)
        PROVE  FlowInv'
    BY <1>4, SubscribeFlow, DeferFlow, RecallFlow, FlushDeferredFlow DEF AOCall
  <1>5. ASSUME UNCHANGED vars
        PROVE  FlowInv'
    BY <1>5
    DEF vars, FlowInv, TypeOK, ControlOK, HandlerRuns, NoLostWakeup
  <1>6. QED
    BY <1>1, <1>2, <1>3, <1>4, <1>5, SpuriousWakeupFlow DEF Next, Stopped

(* The inductive invariant holds in every state of every execution: the    *)
(* API calls never lose the event they work on.                            *)
THEOREM FlowInvariant == Spec => []FlowInv
  <1>1. Init => FlowInv
    BY InitFlow
  <1>2. FlowInv /\ [Next]_vars => FlowInv'
    BY NextFlow
  <1>3. QED
    BY <1>1, <1>2, PTL DEF Spec

(* In every execution every variable keeps its type: in particular the     *)
(* 8-bit ref_cnt of a block stays within the margin that the posts assert. *)
THEOREM FlowTypeOK == Spec => []TypeOK
  <1>1. FlowInv => TypeOK
    BY DEF FlowInv
  <1>2. QED
    BY <1>1, FlowInvariant, PTL

(* In every execution no active object waits on its condition variable     *)
(* (EDF_CORE_WAIT_FOR_EVENT) while its queue holds an event.               *)
THEOREM FlowNoLostWakeup == Spec => []NoLostWakeup
  <1>1. FlowInv => NoLostWakeup
    BY DEF FlowInv
  <1>2. QED
    BY <1>1, FlowInvariant, PTL

-----------------------------------------------------------------------------
(***************************************************************************)
(* Reference counting, for any number of threads, events and queue entries *)
(* and any calls the handlers make: the counter of a live event is exactly *)
(* the number of places that hold it, and no block is used, released twice *)
(* or lost. The number of places is the sum of four cardinalities; the     *)
(* first part says what each kind of assignment does to one of them, the   *)
(* second what each action does to the sum, the third keeps the invariant. *)
(***************************************************************************)

Is(x, y) == IF x = y THEN 1 ELSE 0

(* The elements of S that f maps to e, and the places of e in the          *)
(* sequences that q holds.                                                 *)
Holders(f, S, e) == {x \in S : f[x] = e}
Places(q, cap, e) == {r \in AO \X (1 .. cap) :
                        r[2] \in DOMAIN q[r[1]] /\ q[r[1]][r[2]] = e}
Held(f, S, e) == Cardinality(Holders(f, S, e))
Placed(q, cap, e) == Cardinality(Places(q, cap, e))

WithinCap(q, cap) == \A a \in AO : q[a] \in Seq(Event) /\ Len(q[a]) <= cap

(* g is f with v at x; q with v taken from the front of its sequence at a; *)
(* q with v added at the end of it.                                        *)
Changes(f, g, S, x, v) == g[x] = v /\ \A y \in S : y # x => g[y] = f[y]
Takes(q, g, cap, a, v) ==
  /\ WithinCap(q, cap) /\ WithinCap(g, cap)
  /\ q[a] # <<>> /\ v = Head(q[a]) /\ Changes(q, g, AO, a, Tail(q[a]))
Appends(q, g, cap, a, v) ==
  /\ WithinCap(q, cap) /\ WithinCap(g, cap)
  /\ Len(q[a]) < cap /\ v \in Event /\ Changes(q, g, AO, a, Append(q[a], v))

LEMMA FiniteThreads == IsFiniteSet(AO) /\ IsFiniteSet(Thread)
  <1>1. IsFiniteSet(1 .. MaxAO)
    BY FS_Interval, FlowAssumption
  <1>2. IsFiniteSet(AO)
    BY <1>1, FS_Subset, FlowAssumption
  <1>3. IsFiniteSet(AO \cup Producer)
    BY <1>2, FS_Union, FlowAssumption
  <1>4. QED
    BY <1>2, <1>3 DEF Thread

(* What an assignment to one entry of a function does.                     *)
LEMMA HeldUpdate ==
  ASSUME NEW S, IsFiniteSet(S), NEW f, NEW g, NEW x \in S, NEW v, NEW e,
         Changes(f, g, S, x, v)
  PROVE  Held(g, S, e) + Is(f[x], e) = Held(f, S, e) + Is(v, e)
  <1> USE DEF Changes
  <1> DEFINE F == Holders(f, S, e)
             G == Holders(g, S, e)
  <1>1. F \in SUBSET S /\ G \in SUBSET S
    BY DEF Holders
  <1>2. IsFiniteSet(F) /\ IsFiniteSet(G)
    BY <1>1, FS_Subset
  <1>3. F \ {x} = G \ {x}
    BY DEF Holders
  <1>4. (x \in F <=> f[x] = e) /\ (x \in G <=> v = e)
    BY DEF Holders
  <1> HIDE DEF F, G
  <1>5. /\ Cardinality(F) \in Nat /\ Cardinality(G) \in Nat
        /\ Cardinality(F \ {x}) = IF x \in F THEN Cardinality(F) - 1 ELSE Cardinality(F)
        /\ Cardinality(G \ {x}) = IF x \in G THEN Cardinality(G) - 1 ELSE Cardinality(G)
    BY <1>2, FS_RemoveElement, FS_CardinalityType
  <1>6. Cardinality(G) + Is(f[x], e) = Cardinality(F) + Is(v, e)
    <2>1. /\ Is(f[x], e) = IF x \in F THEN 1 ELSE 0
          /\ Is(v, e) = IF x \in G THEN 1 ELSE 0
      BY <1>4 DEF Is
    <2>2. PICK c : c = Cardinality(F \ {x})
      OBVIOUS
    <2>3. c = Cardinality(G \ {x})
      BY <1>3, <2>2
    <2>4. /\ c = Cardinality(F) - (IF x \in F THEN 1 ELSE 0)
          /\ c = Cardinality(G) - (IF x \in G THEN 1 ELSE 0)
      BY <1>5, <2>2, <2>3
    <2>5. QED
      BY <1>5, <2>1, <2>4
  <1>7. QED
    BY <1>5, <1>6 DEF F, G, Held

LEMMA HeldCounts ==
  ASSUME NEW S, IsFiniteSet(S), NEW f, NEW e
  PROVE  /\ Held(f, S, e) \in Nat
         /\ Held(f, S, e) = 0 <=> \A x \in S : f[x] # e
         /\ \A x, y \in S : f[x] = e /\ f[y] = e /\ x # y => Held(f, S, e) > 1
  <1> DEFINE F == Holders(f, S, e)
  <1>1. F \in SUBSET S /\ (\A x \in S : x \in F <=> f[x] = e)
    BY DEF Holders
  <1>2. Held(f, S, e) = Cardinality(F)
    BY DEF Held
  <1> HIDE DEF F
  <1>3. IsFiniteSet(F)
    BY <1>1, FS_Subset
  <1>4. Cardinality(F) \in Nat /\ (Cardinality(F) = 0 <=> F = {})
    BY <1>3, FS_CardinalityType, FS_EmptySet
  <1>5. ASSUME NEW x \in S, NEW y \in S, f[x] = e, f[y] = e, x # y
        PROVE  Cardinality(F) > 1
    <2>1. x \in F /\ y \in F
      BY <1>1, <1>5
    <2>2. Cardinality(F) = 1 => \E z : F = {z}
      BY <1>3, FS_Singleton
    <2>3. QED
      BY <1>4, <1>5, <2>1, <2>2
  <1>6. QED
    BY <1>1, <1>2, <1>4, <1>5

LEMMA PlacesFinite ==
  ASSUME NEW q, NEW cap \in Nat, NEW e
  PROVE  /\ IsFiniteSet(Places(q, cap, e)) /\ Placed(q, cap, e) \in Nat
         /\ Placed(q, cap, e) = 0 <=> Places(q, cap, e) = {}
  <1>1. IsFiniteSet(1 .. cap)
    BY FS_Interval
  <1>2. IsFiniteSet(AO \X (1 .. cap))
    BY <1>1, FiniteThreads, FS_Product
  <1>3. Places(q, cap, e) \in SUBSET (AO \X (1 .. cap))
    BY DEF Places
  <1>4. IsFiniteSet(Places(q, cap, e))
    BY <1>2, <1>3, FS_Subset
  <1>5. QED
    BY <1>4, FS_CardinalityType, FS_EmptySet DEF Placed

(* A queue that an operation changes stays within its capacity.            *)
LEMMA CapKept ==
  ASSUME NEW cap, NEW q, NEW g, NEW a \in AO, WithinCap(q, cap),
         g[a] \in Seq(Event), Len(g[a]) <= cap, \A b \in AO : b # a => g[b] = q[b]
  PROVE  WithinCap(g, cap)
  <1>1. ASSUME NEW b \in AO
        PROVE  g[b] \in Seq(Event) /\ Len(g[b]) <= cap
    BY DEF WithinCap
  <1>2. QED
    BY <1>1 DEF WithinCap

(* A post at the end of a queue.                                           *)
LEMMA PlacedAppend ==
  ASSUME NEW cap \in Nat, NEW q, NEW g, NEW a \in AO, NEW v, NEW e,
         Appends(q, g, cap, a, v)
  PROVE  Placed(g, cap, e) = Placed(q, cap, e) + Is(v, e)
  <1>a. /\ WithinCap(q, cap) /\ Len(q[a]) < cap /\ v \in Event
        /\ g[a] = Append(q[a], v) /\ \A b \in AO : b # a => g[b] = q[b]
    BY DEF Appends, Changes
  <1> DEFINE n == Len(q[a]) + 1
             P == Places(q, cap, e)
             G == Places(g, cap, e)
  <1>1. q[a] \in Seq(Event) /\ n \in 1 .. cap /\ <<a, n>> \in AO \X (1 .. cap)
    BY <1>a DEF WithinCap
  <1>2. /\ g[a] \in Seq(Event) /\ Len(g[a]) = n /\ g[a][n] = v
        /\ DOMAIN q[a] = 1 .. n - 1 /\ DOMAIN g[a] = 1 .. n
        /\ \A i \in 1 .. n - 1 : g[a][i] = q[a][i]
    BY <1>a, <1>1
  <1>4. ASSUME NEW b \in AO, NEW i \in 1 .. cap
        PROVE  <<b, i>> \in G <=> <<b, i>> \in P \/ (b = a /\ i = n /\ v = e)
    <2>1. CASE b # a
      BY <1>a, <2>1 DEF Places
    <2>2. CASE b = a
      BY <1>1, <1>2, <2>2 DEF Places
    <2>3. QED
      BY <2>1, <2>2
  <1>5. <<a, n>> \notin P
    BY <1>2 DEF Places
  <1>6. P \in SUBSET (AO \X (1 .. cap)) /\ G \in SUBSET (AO \X (1 .. cap))
    BY DEF Places
  <1>7. G = IF v = e THEN P \cup {<<a, n>>} ELSE P
    <2> HIDE DEF P, G, n
    <2>1. ASSUME NEW r
          PROVE  r \in G <=> r \in P \/ (r = <<a, n>> /\ v = e)
      <3>1. CASE r \in AO \X (1 .. cap)
        <4>1. PICK b \in AO, i \in 1 .. cap : r = <<b, i>>
          BY <3>1
        <4>2. r = <<a, n>> <=> b = a /\ i = n
          BY <4>1
        <4>3. QED
          BY <1>4, <4>1, <4>2
      <3>2. CASE r \notin AO \X (1 .. cap)
        BY <1>1, <1>6, <3>2
      <3>3. QED
        BY <3>1, <3>2
    <2>2. QED
      BY <2>1
  <1>8. Cardinality(G) = Cardinality(P) + Is(v, e)
    <2>1. IsFiniteSet(P) /\ Cardinality(P) \in Nat
      BY PlacesFinite DEF Placed
    <2> HIDE DEF P, G, n
    <2>2. Cardinality(P \cup {<<a, n>>}) = Cardinality(P) + 1
      BY <1>5, <2>1, FS_AddElement
    <2>3. QED
      BY <1>7, <2>1, <2>2 DEF Is
  <1>9. QED
    BY <1>8 DEF Placed

(* Taking the event at the front: the places behind it move up by one.     *)
LEMMA PlacedTail ==
  ASSUME NEW cap \in Nat, NEW q, NEW g, NEW a \in AO, NEW v, NEW e,
         Takes(q, g, cap, a, v)
  PROVE  Placed(q, cap, e) = Placed(g, cap, e) + Is(v, e)
  <1>a. /\ WithinCap(q, cap) /\ q[a] # <<>> /\ v = Head(q[a])
        /\ g[a] = Tail(q[a]) /\ \A b \in AO : b # a => g[b] = q[b]
    BY DEF Takes, Changes
  <1> DEFINE n == Len(q[a])
             P == Places(q, cap, e)
             G == Places(g, cap, e)
             up == [r \in G |-> IF r[1] = a THEN <<a, r[2] + 1>> ELSE r]
  <1>1. q[a] \in Seq(Event) /\ n \in 1 .. cap /\ <<a, 1>> \in AO \X (1 .. cap)
    BY <1>a DEF WithinCap
  <1>2. /\ g[a] \in Seq(Event) /\ Len(g[a]) = n - 1 /\ v = q[a][1]
        /\ DOMAIN q[a] = 1 .. n /\ DOMAIN g[a] = 1 .. n - 1
        /\ \A i \in 1 .. n - 1 : g[a][i] = q[a][i + 1]
    BY <1>a, <1>1
  <1>4. P \in SUBSET (AO \X (1 .. cap)) /\ G \in SUBSET (AO \X (1 .. cap))
    BY DEF Places
  <1>5. <<a, 1>> \in P <=> v = e
    BY <1>1, <1>2 DEF Places
  <1>6. ASSUME NEW i \in 1 .. cap
        PROVE  <<a, i>> \in G <=> i + 1 \in 1 .. cap /\ <<a, i + 1>> \in P
    <2>1. <<a, i>> \in G <=> i \in 1 .. n - 1 /\ g[a][i] = e
      BY <1>1, <1>2 DEF Places
    <2>2. i + 1 \in 1 .. cap =>
            (<<a, i + 1>> \in P <=> i + 1 \in 1 .. n /\ q[a][i + 1] = e)
      BY <1>1, <1>2 DEF Places
    <2>3. i \in 1 .. n - 1 <=> i + 1 \in 1 .. cap /\ i + 1 \in 1 .. n
      BY <1>1
    <2> HIDE DEF P, G, n
    <2>4. QED
      BY <1>2, <2>1, <2>2, <2>3
  <1>7. ASSUME NEW b \in AO, NEW i \in 1 .. cap, b # a
        PROVE  <<b, i>> \in G <=> <<b, i>> \in P
    BY <1>a, <1>7 DEF Places
  <1>8. up \in Bijection(G, P \ {<<a, 1>>})
    <2> HIDE DEF P, G, n
    <2>1. ASSUME NEW r \in G
          PROVE  up[r] \in P \ {<<a, 1>>}
      <3>1. PICK b \in AO, i \in 1 .. cap : r = <<b, i>>
        BY <1>4
      <3>2. CASE b = a
        BY <1>6, <3>1, <3>2
      <3>3. CASE b # a
        BY <1>7, <3>1, <3>3
      <3>4. QED
        BY <3>2, <3>3
    <2>2. ASSUME NEW r \in G, NEW s \in G, up[r] = up[s]
          PROVE  r = s
      <3>1. PICK b \in AO, i \in 1 .. cap : r = <<b, i>>
        BY <1>4
      <3>2. PICK c \in AO, j \in 1 .. cap : s = <<c, j>>
        BY <1>4
      <3>3. QED
        BY <2>2, <3>1, <3>2
    <2>3. ASSUME NEW s \in P \ {<<a, 1>>}
          PROVE  \E r \in G : up[r] = s
      <3>1. PICK b \in AO, i \in 1 .. cap : s = <<b, i>>
        BY <1>4
      <3>2. CASE b = a
        <4>1. i - 1 \in 1 .. cap /\ (i - 1) + 1 = i
          BY <3>1, <3>2
        <4>2. <<a, i - 1>> \in G
          BY <1>6, <3>1, <3>2, <4>1
        <4>3. QED
          BY <3>1, <3>2, <4>1, <4>2
      <3>3. CASE b # a
        BY <1>7, <3>1, <3>3
      <3>4. QED
        BY <3>2, <3>3
    <2>4. up \in [G -> P \ {<<a, 1>>}]
      BY <2>1
    <2> HIDE DEF up
    <2>5. QED
      BY <2>2, <2>3, <2>4 DEF Bijection, Injection, Surjection, IsInjective
  <1>9. Cardinality(P) = Cardinality(G) + Is(v, e)
    <2>1. IsFiniteSet(P) /\ IsFiniteSet(G) /\ Cardinality(P) \in Nat
      BY PlacesFinite DEF Placed
    <2>2. ExistsBijection(G, P \ {<<a, 1>>})
      BY <1>8 DEF ExistsBijection
    <2> HIDE DEF P, G, n, up
    <2>3. Cardinality(P \ {<<a, 1>>}) = Cardinality(G)
      BY <2>1, <2>2, FS_Bijection
    <2>4. Cardinality(P \ {<<a, 1>>})
            = IF <<a, 1>> \in P THEN Cardinality(P) - 1 ELSE Cardinality(P)
      BY <2>1, FS_RemoveElement
    <2>5. QED
      BY <1>5, <2>1, <2>3, <2>4 DEF Is
  <1>10. QED
    BY <1>9 DEF Placed

-----------------------------------------------------------------------------
(* The number of references, and what it must be in each state.            *)
RefSum(q, d, c, g, e) ==
  Placed(q, QueueCap, e) + Placed(d, DeferCap, e) + Held(c, AO, e) + Held(g, Thread, e)

Refs(e) == RefSum(e_queue, deferred, cur, arg, e)
Owners(e) == Held(fresh, Thread, e)

(* A free block is referenced and owned by nobody. The counter of another  *)
(* one is its number of references, and who allocated it owns it until it  *)
(* has the first one.                                                      *)
CountedAt(is_free, cnt, refs, owners) ==
  IF is_free THEN refs = 0 /\ owners = 0
  ELSE /\ cnt = refs
       /\ IF refs > 0 THEN owners = 0 ELSE owners = 1

Counted == \A e \in Mutable : CountedAt(e \in free, ref_cnt[e], Refs(e), Owners(e))

Released == \A t \in Thread : pc[t] = "release" => Refs(arg[t]) = 1

(* A thread holds no event at the places where it works on none, and the   *)
(* event that recall has posted is in front of the queue until recall ends.*)
HandsOK ==
  /\ \A t \in Thread : pc[t] \in {"run", "get", "wait", "flush"} => arg[t] = NULL
  /\ \A a \in AO : ~HandlerRuns(a) => cur[a] = NULL
  /\ \A a \in AO :
       pc[a] = "recall_drop" => e_queue[a] # <<>> /\ Head(e_queue[a]) = arg[a]

Shape ==
  /\ WithinCap(e_queue, QueueCap) /\ WithinCap(deferred, DeferCap)
  /\ HandsOK /\ NoInternalFailure

RefInv == FlowInv /\ Shape /\ Counted /\ Released

LEMMA Caps ==
  /\ QueueCap \in Nat /\ DeferCap \in Nat /\ NULL \notin Mutable /\ NULL \notin Event
  /\ Mutable \subseteq Event /\ AO \subseteq Thread /\ IsFiniteSet(AO) /\ IsFiniteSet(Thread)
  BY FlowAssumption, FiniteThreads DEF Event, Thread

LEMMA SumNat ==
  ASSUME NEW q, NEW d, NEW c, NEW g, NEW e
  PROVE  /\ Placed(q, QueueCap, e) \in Nat /\ Placed(d, DeferCap, e) \in Nat
         /\ Held(c, AO, e) \in Nat /\ Held(g, Thread, e) \in Nat
         /\ RefSum(q, d, c, g, e) \in Nat
  <1>1. Placed(q, QueueCap, e) \in Nat /\ Placed(d, DeferCap, e) \in Nat
    BY Caps, PlacesFinite
  <1>2. Held(c, AO, e) \in Nat /\ Held(g, Thread, e) \in Nat
    BY Caps, HeldCounts
  <1>3. QED
    BY <1>1, <1>2 DEF RefSum

(* Who works on an event refers to it; two who do are two references.      *)
LEMMA ArgRefers ==
  ASSUME NEW t \in Thread
  PROVE  /\ Refs(arg[t]) > 0
         /\ \A u \in Thread : u # t /\ arg[u] = arg[t] => Refs(arg[t]) > 1
         /\ \A a \in AO : cur[a] = arg[t] => Refs(arg[t]) > 1
         /\ Placed(e_queue, QueueCap, arg[t]) > 0 => Refs(arg[t]) > 1
  <1> DEFINE e == arg[t]
             P == Placed(e_queue, QueueCap, e)
             D == Placed(deferred, DeferCap, e)
             C == Held(cur, AO, e)
             G == Held(arg, Thread, e)
  <1>1. P \in Nat /\ D \in Nat /\ C \in Nat /\ G \in Nat
    BY SumNat
  <1>2. G # 0 /\ (\A u \in Thread : u # t /\ arg[u] = e => G > 1)
    BY Caps, HeldCounts
  <1>3. \A a \in AO : cur[a] = e => C # 0
    BY Caps, HeldCounts
  <1>4. Refs(e) = P + D + C + G
    BY DEF Refs, RefSum
  <1>5. ASSUME NEW u \in Thread, u # t, arg[u] = e
        PROVE  Refs(e) > 1
    <2>1. G > 1
      BY <1>2, <1>5
    <2> HIDE DEF P, D, C, G
    <2>2. QED
      BY <1>1, <1>4, <2>1
  <1>6. ASSUME NEW a \in AO, cur[a] = e
        PROVE  Refs(e) > 1
    <2>1. C # 0
      BY <1>3, <1>6
    <2> HIDE DEF P, D, C, G
    <2>2. QED
      BY <1>1, <1>2, <1>4, <2>1
  <1>7. Refs(e) > 0 /\ (P > 0 => Refs(e) > 1)
    <2> HIDE DEF P, D, C, G
    <2>1. QED
      BY <1>1, <1>2, <1>4
  <1>8. QED
    BY <1>5, <1>6, <1>7

LEMMA CurRefers ==
  ASSUME NEW a \in AO
  PROVE  Refs(cur[a]) > 0
  <1>1. Held(cur, AO, cur[a]) # 0
    BY Caps, HeldCounts
  <1>2. QED
    BY <1>1, SumNat DEF Refs, RefSum

-----------------------------------------------------------------------------
(* What the invariant says of the event that a thread is about to send,    *)
(* post or drop: it is not free, and no other thread is releasing it.      *)
Reached(t, e) ==
  \/ e = fresh[t]
  \/ t \in AO /\ e = cur[t]
  \/ pc[t] # "release" /\ e = arg[t]

LEMMA ReachedLive ==
  ASSUME RefInv, NEW t \in Thread, NEW e \in Mutable, Reached(t, e)
  PROVE  /\ e \notin free
         /\ \A u \in Thread : pc[u] = "release" => arg[u] # e
         /\ e # fresh[t] => Refs(e) > 0 /\ Owners(e) = 0
         /\ e = fresh[t] => Refs(e) = 0 /\ Owners(e) = 1
  <1>1. CountedAt(e \in free, ref_cnt[e], Refs(e), Owners(e))
    BY DEF RefInv, Counted
  <1>2. Refs(e) \in Nat
    BY SumNat DEF Refs
  <1>3. \A u \in Thread : pc[u] = "release" => Refs(arg[u]) = 1
    BY DEF RefInv, Released
  <1>4. CASE e = fresh[t]
    <2>1. Owners(e) # 0
      BY <1>4, Caps, HeldCounts DEF Owners
    <2>2. e \notin free /\ Refs(e) = 0 /\ Owners(e) = 1
      BY <1>1, <1>2, <2>1 DEF CountedAt
    <2>3. QED
      BY <1>3, <1>4, <2>2
  <1>5. CASE e # fresh[t] /\ t \in AO /\ e = cur[t]
    <2>1. Refs(e) > 0
      BY <1>5, CurRefers
    <2>2. \A u \in Thread : pc[u] = "release" => arg[u] # e
      BY <1>3, <1>5, ArgRefers
    <2>3. QED
      BY <1>1, <1>2, <1>5, <2>1, <2>2 DEF CountedAt
  <1>6. CASE e # fresh[t] /\ pc[t] # "release" /\ e = arg[t]
    <2>1. Refs(e) > 0
      BY <1>6, ArgRefers
    <2>2. \A u \in Thread : pc[u] = "release" => arg[u] # e
      BY <1>3, <1>6, ArgRefers
    <2>3. QED
      BY <1>1, <1>2, <1>6, <2>1, <2>2 DEF CountedAt
  <1>7. QED
    BY <1>4, <1>5, <1>6 DEF Reached

(* A step that moves references about, or none.                            *)
SameRefs == \A e \in Mutable : Refs(e)' = Refs(e)

(* A step after which only threads that were releasing a block are.        *)
NoNewRelease ==
  \A t \in Thread : pc'[t] = "release" => pc[t] = "release" /\ arg'[t] = arg[t]

LEMMA SameRefsKeeps ==
  ASSUME RefInv, UNCHANGED <<free, ref_cnt, fresh>>, SameRefs, NoNewRelease
  PROVE  Counted' /\ Released'
  <1>1. Counted'
    <2>1. ASSUME NEW e \in Mutable
          PROVE  CountedAt(e \in free, ref_cnt[e], Refs(e), Owners(e))'
      <3>1. CountedAt(e \in free, ref_cnt[e], Refs(e), Owners(e))
        BY DEF RefInv, Counted
      <3>2. Owners(e)' = Owners(e)
        BY DEF Owners
      <3>3. QED
        BY <3>1, <3>2 DEF SameRefs, CountedAt
    <2>2. QED
      BY <2>1 DEF Counted
  <1>2. Released'
    <2>1. ASSUME NEW t \in Thread, pc'[t] = "release"
          PROVE  Refs(arg[t])' = 1
      <3>1. pc[t] = "release" /\ arg'[t] = arg[t]
        BY <2>1 DEF NoNewRelease
      <3>2. arg[t] \in Mutable /\ Refs(arg[t]) = 1
        BY <3>1 DEF RefInv, Released, FlowInv, ControlOK
      <3>3. PICK e \in Mutable : e = arg[t]
        BY <3>2
      <3>4. Refs(e)' = 1
        BY <3>2, <3>3 DEF SameRefs
      <3>5. QED
        BY <3>1, <3>3, <3>4 DEF Refs
    <2>2. QED
      BY <2>1 DEF Released
  <1>3. QED
    BY <1>1, <1>2

(* The releasing threads, after a step that leaves their events alone.     *)
LEMMA ReleasedKeeps ==
  ASSUME RefInv, NoNewRelease,
         \A t \in Thread : pc[t] = "release" /\ pc'[t] = "release"
                             => \A e \in Mutable : e = arg[t] => Refs(e)' = Refs(e)
  PROVE  Released'
  <1>1. ASSUME NEW t \in Thread, pc'[t] = "release"
        PROVE  Refs(arg[t])' = 1
    <2>1. pc[t] = "release" /\ arg'[t] = arg[t]
      BY <1>1 DEF NoNewRelease
    <2>2. arg[t] \in Mutable /\ Refs(arg[t]) = 1
      BY <2>1 DEF RefInv, Released, FlowInv, ControlOK
    <2>3. PICK e \in Mutable : e = arg[t]
      BY <2>2
    <2>4. Refs(e)' = 1
      BY <1>1, <2>1, <2>2, <2>3
    <2>5. QED
      BY <2>1, <2>3, <2>4 DEF Refs
  <1>2. QED
    BY <1>1 DEF Released

(* A step of t that adds one reference to x.                               *)
LEMMA AddsKeeps ==
  ASSUME RefInv, NEW t \in Thread, NEW x \in Event, x \in Mutable => Reached(t, x),
         AddRef(x), free' = free, NoNewRelease,
         \A e \in Mutable : Refs(e)' = Refs(e) + Is(x, e),
         \A e \in Mutable : Owners(e)' = IF e = x THEN 0 ELSE Owners(e)
  PROVE  Counted' /\ Released'
  <1>1. ASSUME NEW e \in Mutable
        PROVE  CountedAt(e \in free, ref_cnt[e], Refs(e), Owners(e))'
    <2>1. CountedAt(e \in free, ref_cnt[e], Refs(e), Owners(e)) /\ Refs(e) \in Nat
      BY SumNat DEF RefInv, Counted, Refs
    <2>2. ref_cnt \in [Mutable -> 0 .. 2 * MaxAO]
      BY DEF RefInv, FlowInv, TypeOK
    <2>3. CASE e = x
      <3>1. e \notin free /\ Reached(t, e)
        BY <2>3, ReachedLive
      <3>2. ref_cnt'[e] = ref_cnt[e] + 1
        BY <2>2, <2>3 DEF AddRef
      <3>3. Refs(e)' = Refs(e) + 1 /\ Owners(e)' = 0
        BY <2>3 DEF Is
      <3>4. QED
        BY <2>1, <3>1, <3>2, <3>3 DEF CountedAt
    <2>4. CASE e # x
      <3>1. ref_cnt'[e] = ref_cnt[e]
        BY <2>2, <2>4 DEF AddRef
      <3>2. Refs(e)' = Refs(e) /\ Owners(e)' = Owners(e)
        BY <2>1, <2>4 DEF Is
      <3>3. QED
        BY <2>1, <3>1, <3>2 DEF CountedAt
    <2>5. QED
      BY <2>3, <2>4
  <1>2. ASSUME NEW u \in Thread, pc[u] = "release", NEW e \in Mutable, e = arg[u]
        PROVE  Refs(e)' = Refs(e)
    <2>1. e # x
      BY <1>2, ReachedLive
    <2>2. QED
      BY <2>1, SumNat DEF Is, Refs
  <1>3. Released'
    BY <1>2, ReleasedKeeps
  <1>4. QED
    BY <1>1, <1>3 DEF Counted

(* A step of t that drops one of several references to the event x it      *)
(* works on.                                                               *)
LEMMA DropsKeeps ==
  ASSUME RefInv, NEW t \in Thread, NEW x \in Event, x = arg[t], pc[t] # "release",
         x \in Mutable => ref_cnt[x] > 1,
         ref_cnt' = IF x \in Mutable THEN [ref_cnt EXCEPT ![x] = @ - 1] ELSE ref_cnt,
         UNCHANGED <<free, fresh>>, NoNewRelease,
         \A e \in Mutable : Refs(e)' = Refs(e) - Is(x, e)
  PROVE  Counted' /\ Released'
  <1>1. ASSUME NEW e \in Mutable
        PROVE  CountedAt(e \in free, ref_cnt[e], Refs(e), Owners(e))'
    <2>1. CountedAt(e \in free, ref_cnt[e], Refs(e), Owners(e)) /\ Refs(e) \in Nat
      BY SumNat DEF RefInv, Counted, Refs
    <2>2. ref_cnt \in [Mutable -> 0 .. 2 * MaxAO]
      BY DEF RefInv, FlowInv, TypeOK
    <2>3. Owners(e)' = Owners(e)
      BY DEF Owners
    <2>4. CASE e = x
      <3>1. e \notin free
        BY <2>4, ReachedLive DEF Reached
      <3>2. ref_cnt'[e] = ref_cnt[e] - 1 /\ ref_cnt[e] > 1
        BY <2>2, <2>4
      <3>3. Refs(e)' = Refs(e) - 1
        BY <2>4 DEF Is
      <3>4. QED
        BY <2>1, <2>3, <3>1, <3>2, <3>3 DEF CountedAt
    <2>5. CASE e # x
      <3>1. ref_cnt'[e] = ref_cnt[e]
        BY <2>2, <2>5
      <3>2. Refs(e)' = Refs(e)
        BY <2>1, <2>5 DEF Is
      <3>3. QED
        BY <2>1, <2>3, <3>1, <3>2 DEF CountedAt
    <2>6. QED
      BY <2>4, <2>5
  <1>2. ASSUME NEW u \in Thread, pc[u] = "release", NEW e \in Mutable, e = arg[u]
        PROVE  Refs(e)' = Refs(e)
    <2>1. e # x
      BY <1>2, ReachedLive DEF Reached
    <2>2. QED
      BY <2>1, SumNat DEF Is, Refs
  <1>3. Released'
    BY <1>2, ReleasedKeeps
  <1>4. QED
    BY <1>1, <1>3 DEF Counted

-----------------------------------------------------------------------------
(* A step that leaves every reference where it is.                         *)
LEMMA IdleKeeps ==
  ASSUME RefInv, NoNewRelease,
         UNCHANGED <<free, ref_cnt, e_queue, deferred, cur, fresh, arg>>
  PROVE  /\ Counted' /\ Released'
         /\ WithinCap(e_queue, QueueCap)' /\ WithinCap(deferred, DeferCap)'
  <1>1. SameRefs
    BY DEF SameRefs, Refs
  <1>2. WithinCap(e_queue, QueueCap)' /\ WithinCap(deferred, DeferCap)'
    BY DEF RefInv, Shape
  <1>3. QED
    BY <1>1, <1>2, SameRefsKeeps

LEMMA FailRefs ==
  ASSUME RefInv, FlowInv', NEW why \in {"pool", "full", "margin", "empty"}, Fail(why)
  PROVE  RefInv'
  <1>1. NoNewRelease
    BY DEF Fail, NoNewRelease
  <1>2. HandsOK'
    BY DEF RefInv, Shape, HandsOK, HandlerRuns, Fail
  <1>3. NoInternalFailure'
    BY DEF NoInternalFailure, Fail
  <1>4. QED
    BY <1>1, <1>2, <1>3, IdleKeeps DEF Fail, RefInv, Shape

LEMMA PostFailsRefs ==
  ASSUME RefInv, FlowInv', NEW q, NEW cap, NEW e, PostFails(q, cap, e)
  PROVE  RefInv'
  BY FailRefs DEF PostFails

LEMMA WaitRefs ==
  ASSUME RefInv, FlowInv', NEW a \in AO, Wait(a) \/ SpuriousWakeup(a)
  PROVE  RefInv'
  <1>1. /\ pc[a] \in {"get", "wait"}
        /\ pc' = [pc EXCEPT ![a] = "wait"] \/ pc' = [pc EXCEPT ![a] = "get"]
        /\ UNCHANGED <<free, ref_cnt, e_queue, deferred, cur, fresh, arg, after, failed>>
    BY DEF Wait, SpuriousWakeup
  <1>2. pc \in [Thread -> Place] /\ a \in Thread
    BY Caps DEF RefInv, FlowInv, TypeOK
  <1>3. NoNewRelease
    BY <1>1, <1>2 DEF NoNewRelease
  <1>4. HandsOK'
    BY <1>1, <1>2, Caps DEF RefInv, Shape, HandsOK, HandlerRuns
  <1>5. NoInternalFailure'
    BY <1>1 DEF RefInv, Shape, NoInternalFailure
  <1>6. QED
    BY <1>1, <1>3, <1>4, <1>5, IdleKeeps DEF RefInv, Shape

LEMMA PublishEndRefs ==
  ASSUME RefInv, FlowInv', NEW t \in Thread, PublishEnd(t)
  PROVE  RefInv'
  <1>1. pc \in [Thread -> Place] /\ after \in [Thread -> {"run", "get", "flush"}]
    BY DEF RefInv, FlowInv, TypeOK
  <1>2. NoNewRelease
    BY <1>1 DEF NoNewRelease, PublishEnd
  <1>3. HandsOK'
    BY <1>1, Caps DEF RefInv, Shape, HandsOK, HandlerRuns, PublishEnd
  <1>4. NoInternalFailure'
    BY DEF RefInv, Shape, NoInternalFailure, PublishEnd
  <1>5. QED
    BY <1>2, <1>3, <1>4, IdleKeeps DEF RefInv, Shape, PublishEnd

LEMMA FlushDeferredRefs ==
  ASSUME RefInv, FlowInv', NEW a \in AO, FlushDeferred(a) \/ FlushEnd(a)
  PROVE  RefInv'
  <1>1. /\ pc[a] \in {"run", "flush"}
        /\ pc' = [pc EXCEPT ![a] = "flush"] \/ pc' = [pc EXCEPT ![a] = "run"]
        /\ UNCHANGED <<free, ref_cnt, e_queue, deferred, cur, fresh, arg, after, failed>>
    BY DEF FlushDeferred, FlushEnd, MayCall
  <1>2. pc \in [Thread -> Place] /\ a \in Thread
    BY Caps DEF RefInv, FlowInv, TypeOK
  <1>3. NoNewRelease
    BY <1>1, <1>2 DEF NoNewRelease
  <1>4. HandsOK'
    BY <1>1, <1>2, Caps DEF RefInv, Shape, HandsOK, HandlerRuns
  <1>5. NoInternalFailure'
    BY <1>1 DEF RefInv, Shape, NoInternalFailure
  <1>6. QED
    BY <1>1, <1>3, <1>4, <1>5, IdleKeeps DEF RefInv, Shape

LEMMA SubscribeRefs ==
  ASSUME RefInv, FlowInv', NEW a \in AO, Subscribe(a) \/ Unsubscribe(a)
  PROVE  RefInv'
  <1>1. UNCHANGED <<free, ref_cnt, e_queue, deferred, cur, fresh, arg, after, pc, failed>>
    BY DEF Subscribe, Unsubscribe
  <1>2. NoNewRelease
    BY <1>1 DEF NoNewRelease
  <1>3. HandsOK' /\ NoInternalFailure'
    BY <1>1 DEF RefInv, Shape, HandsOK, HandlerRuns, NoInternalFailure
  <1>4. QED
    BY <1>1, <1>2, <1>3, IdleKeeps DEF RefInv, Shape

(* The last reference: the counter of a block that a thread works on is    *)
(* exact, so it is 1, and the reference is the one of this thread.         *)
LEMMA GcLastRefs ==
  ASSUME RefInv, FlowInv', NEW t \in Thread, GcLast(t)
  PROVE  RefInv'
  <1>1. /\ pc[t] = "gc" /\ pc' = [pc EXCEPT ![t] = "release"]
        /\ arg[t] \in Mutable /\ ref_cnt[arg[t]] <= 1
        /\ UNCHANGED <<free, ref_cnt, e_queue, deferred, cur, fresh, arg, after, failed>>
    BY DEF GcLast, LastReference
  <1>2. /\ pc \in [Thread -> Place] /\ after \in [Thread -> {"run", "get", "flush"}]
        /\ ref_cnt[arg[t]] \in Nat
    BY <1>1, FlowAssumption DEF RefInv, FlowInv, TypeOK
  <1>3. Refs(arg[t]) = 1
    <2>1. arg[t] \notin free
      BY <1>1, ReachedLive DEF Reached
    <2>2. ref_cnt[arg[t]] = Refs(arg[t])
      BY <1>1, <2>1 DEF RefInv, Counted, CountedAt
    <2>3. Refs(arg[t]) > 0
      BY ArgRefers
    <2>4. QED
      BY <1>1, <1>2, <2>2, <2>3
  <1>4. Counted'
    BY <1>1 DEF RefInv, Counted, CountedAt, Refs, Owners
  <1>5. Released'
    BY <1>1, <1>2, <1>3 DEF RefInv, Released, Refs
  <1>6. HandsOK'
    BY <1>1, <1>2, Caps DEF RefInv, Shape, HandsOK, HandlerRuns
  <1>7. NoInternalFailure' /\ WithinCap(e_queue, QueueCap)' /\ WithinCap(deferred, DeferCap)'
    BY <1>1 DEF RefInv, Shape, NoInternalFailure
  <1>8. QED
    BY <1>4, <1>5, <1>6, <1>7 DEF RefInv, Shape

-----------------------------------------------------------------------------
(* The steps that move one reference.                                      *)

LEMMA Types ==
  ASSUME RefInv
  PROVE  /\ pc \in [Thread -> Place] /\ after \in [Thread -> {"run", "get", "flush"}]
         /\ cur \in [AO -> Event \cup {NULL}] /\ arg \in [Thread -> Event \cup {NULL}]
         /\ fresh \in [Thread -> Mutable \cup {NULL}]
         /\ e_queue \in [AO -> Seq(Event)] /\ deferred \in [AO -> Seq(Event)]
         /\ ref_cnt \in [Mutable -> 0 .. 2 * MaxAO]
         /\ WithinCap(e_queue, QueueCap) /\ WithinCap(deferred, DeferCap)
  BY DEF RefInv, FlowInv, TypeOK, Shape

(* What assigning to arg and to cur does to the sum.                       *)
LEMMA ArgMoves ==
  ASSUME RefInv, NEW t \in Thread, NEW v, NEW e
  PROVE  arg' = [arg EXCEPT ![t] = v]
           => Held(arg', Thread, e) + Is(arg[t], e) = Held(arg, Thread, e) + Is(v, e)
  <1>1. arg' = [arg EXCEPT ![t] = v] => Changes(arg, arg', Thread, t, v)
    BY Types DEF Changes
  <1>2. QED
    BY <1>1, Caps, HeldUpdate

LEMMA CurMoves ==
  ASSUME RefInv, NEW a \in AO, NEW v, NEW e
  PROVE  cur' = [cur EXCEPT ![a] = v]
           => Held(cur', AO, e) + Is(cur[a], e) = Held(cur, AO, e) + Is(v, e)
  <1>1. cur' = [cur EXCEPT ![a] = v] => Changes(cur, cur', AO, a, v)
    BY Types DEF Changes
  <1>2. QED
    BY <1>1, Caps, HeldUpdate

(* The operations of the queues: get, postFIFO, and postLIFO, which taking *)
(* the event undoes.                                                       *)
LEMMA TailTakes ==
  ASSUME NEW cap \in Nat, NEW q \in [AO -> Seq(Event)], WithinCap(q, cap),
         NEW a \in AO, q[a] # <<>>
  PROVE  Takes(q, [q EXCEPT ![a] = Tail(@)], cap, a, Head(q[a]))
  <1> DEFINE g == [q EXCEPT ![a] = Tail(@)]
  <1>1. /\ g[a] = Tail(q[a]) /\ \A b \in AO : b # a => g[b] = q[b]
        /\ g[a] \in Seq(Event) /\ Len(g[a]) <= cap
    BY DEF WithinCap
  <1> HIDE DEF g
  <1>2. WithinCap(g, cap)
    BY <1>1, CapKept
  <1>3. QED
    BY <1>1, <1>2 DEF Takes, Changes, g

LEMMA AppendAppends ==
  ASSUME NEW cap \in Nat, NEW q \in [AO -> Seq(Event)], WithinCap(q, cap),
         NEW a \in AO, Len(q[a]) < cap, NEW v \in Event
  PROVE  Appends(q, [q EXCEPT ![a] = Append(@, v)], cap, a, v)
  <1> DEFINE g == [q EXCEPT ![a] = Append(@, v)]
  <1>1. /\ g[a] = Append(q[a], v) /\ \A b \in AO : b # a => g[b] = q[b]
        /\ g[a] \in Seq(Event) /\ Len(g[a]) <= cap
    BY DEF WithinCap
  <1> HIDE DEF g
  <1>2. WithinCap(g, cap)
    BY <1>1, CapKept
  <1>3. QED
    BY <1>1, <1>2 DEF Appends, Changes, g

LEMMA PushUndone ==
  ASSUME NEW cap \in Nat, NEW q \in [AO -> Seq(Event)], WithinCap(q, cap),
         NEW a \in AO, Len(q[a]) < cap, NEW v \in Event
  PROVE  Takes([q EXCEPT ![a] = <<v>> \o @], q, cap, a, v)
  <1> DEFINE g == [q EXCEPT ![a] = <<v>> \o @]
  <1>1. /\ \A b \in AO : b # a => g[b] = q[b]
        /\ g[a] \in Seq(Event) /\ Len(g[a]) <= cap
        /\ g[a] # <<>> /\ Head(g[a]) = v
    BY DEF WithinCap
  <1>2. q[a] = Tail(g[a])
    BY DEF WithinCap
  <1> HIDE DEF g
  <1>3. WithinCap(g, cap)
    BY <1>1, CapKept
  <1>4. QED
    BY <1>1, <1>2, <1>3 DEF Takes, Changes, g

LEMMA IsNull ==
  ASSUME NEW e \in Mutable
  PROVE  Is(NULL, e) = 0
  BY Caps DEF Is

LEMMA SumPrime ==
  ASSUME NEW e
  PROVE  /\ Refs(e) = Placed(e_queue, QueueCap, e) + Placed(deferred, DeferCap, e)
                         + Held(cur, AO, e) + Held(arg, Thread, e)
         /\ Refs(e)' = Placed(e_queue', QueueCap, e) + Placed(deferred', DeferCap, e)
                         + Held(cur', AO, e) + Held(arg', Thread, e)
         /\ Placed(e_queue, QueueCap, e) \in Nat /\ Placed(e_queue', QueueCap, e) \in Nat
         /\ Placed(deferred, DeferCap, e) \in Nat /\ Placed(deferred', DeferCap, e) \in Nat
         /\ Held(cur, AO, e) \in Nat /\ Held(cur', AO, e) \in Nat
         /\ Held(arg, Thread, e) \in Nat /\ Held(arg', Thread, e) \in Nat
  <1>1. /\ Placed(e_queue, QueueCap, e) \in Nat /\ Placed(e_queue', QueueCap, e) \in Nat
        /\ Placed(deferred, DeferCap, e) \in Nat /\ Placed(deferred', DeferCap, e) \in Nat
    BY Caps, PlacesFinite
  <1>2. /\ Held(cur, AO, e) \in Nat /\ Held(cur', AO, e) \in Nat
        /\ Held(arg, Thread, e) \in Nat /\ Held(arg', Thread, e) \in Nat
    BY Caps, HeldCounts
  <1>3. QED
    BY <1>1, <1>2 DEF Refs, RefSum

LEMMA IsNat ==
  ASSUME NEW x, NEW y
  PROVE  Is(x, y) \in 0 .. 1
  BY DEF Is

LEMMA GetRefs ==
  ASSUME RefInv, FlowInv', NEW a \in AO, Get(a)
  PROVE  RefInv'
  <1> DEFINE front == Head(e_queue[a])
  <1>1. /\ pc[a] = "get" /\ pc' = [pc EXCEPT ![a] = "run"] /\ e_queue[a] # <<>>
        /\ cur' = [cur EXCEPT ![a] = front]
        /\ e_queue' = [e_queue EXCEPT ![a] = Tail(@)]
        /\ UNCHANGED <<free, ref_cnt, deferred, fresh, arg, after, failed>>
    BY DEF Get
  <1>2. cur[a] = NULL
    BY <1>1 DEF RefInv, Shape, HandsOK, HandlerRuns
  <1>3. e_queue'[a] = Tail(e_queue[a]) /\ (\A b \in AO : b # a => e_queue'[b] = e_queue[b])
    BY <1>1, Types
  <1>4. Takes(e_queue, e_queue', QueueCap, a, front)
    BY <1>1, Types, Caps, TailTakes
  <1>5. \A e : Held(cur', AO, e) + Is(NULL, e) = Held(cur, AO, e) + Is(front, e)
    BY <1>1, <1>2, CurMoves
  <1>6. SameRefs
    <2>1. ASSUME NEW e \in Mutable
          PROVE  Refs(e)' = Refs(e)
      <3>1. /\ Placed(e_queue, QueueCap, e) = Placed(e_queue', QueueCap, e) + Is(front, e)
            /\ Held(cur', AO, e) = Held(cur, AO, e) + Is(front, e)
            /\ deferred' = deferred /\ arg' = arg
        <4>1. Held(cur', AO, e) + Is(NULL, e) = Held(cur, AO, e) + Is(front, e)
          BY <1>5
        <4>2. Is(NULL, e) = 0 /\ Held(cur', AO, e) \in Nat
          BY IsNull, SumPrime
        <4>3. Held(cur', AO, e) = Held(cur, AO, e) + Is(front, e)
          BY <4>1, <4>2
        <4>4. Placed(e_queue, QueueCap, e) = Placed(e_queue', QueueCap, e) + Is(front, e)
          BY <1>4, Caps, PlacedTail
        <4>5. QED
          BY <1>1, <4>3, <4>4
      <3>2. QED
        BY <3>1, SumPrime, IsNat
    <2>2. QED
      BY <2>1 DEF SameRefs
  <1>7. NoNewRelease
    BY <1>1, Types DEF NoNewRelease
  <1>8. HandsOK'
    BY <1>1, <1>3, Types, Caps DEF RefInv, Shape, HandsOK, HandlerRuns
  <1>9. NoInternalFailure' /\ WithinCap(deferred, DeferCap)'
    BY <1>1 DEF RefInv, Shape, NoInternalFailure
  <1>10. WithinCap(e_queue, QueueCap)'
    BY <1>4 DEF Takes
  <1>11. QED
    BY <1>1, <1>6, <1>7, <1>8, <1>9, <1>10, SameRefsKeeps DEF RefInv, Shape

LEMMA ReturnRefs ==
  ASSUME RefInv, FlowInv', NEW a \in AO, Return(a)
  PROVE  RefInv'
  <1>1. /\ pc[a] = "run" /\ pc' = [pc EXCEPT ![a] = "gc"]
        /\ arg' = [arg EXCEPT ![a] = cur[a]] /\ cur' = [cur EXCEPT ![a] = NULL]
        /\ after' = [after EXCEPT ![a] = "get"]
        /\ UNCHANGED <<free, ref_cnt, e_queue, deferred, fresh, failed>>
    BY DEF Return
  <1>2. arg[a] = NULL /\ a \in Thread
    BY <1>1, Caps DEF RefInv, Shape, HandsOK
  <1>3. SameRefs
    <2>1. ASSUME NEW e \in Mutable
          PROVE  Refs(e)' = Refs(e)
      <3>1. Held(arg', Thread, e) + Is(NULL, e) = Held(arg, Thread, e) + Is(cur[a], e)
        BY <1>1, <1>2, ArgMoves
      <3>2. Held(cur', AO, e) + Is(cur[a], e) = Held(cur, AO, e) + Is(NULL, e)
        BY <1>1, CurMoves
      <3>3. e_queue' = e_queue /\ deferred' = deferred
        BY <1>1
      <3>4. QED
        BY <3>1, <3>2, <3>3, SumPrime, IsNat
    <2>2. QED
      BY <2>1 DEF SameRefs
  <1>4. NoNewRelease
    BY <1>1, <1>2, Types DEF NoNewRelease
  <1>5. HandsOK'
    BY <1>1, <1>2, Types, Caps DEF RefInv, Shape, HandsOK, HandlerRuns
  <1>6. /\ NoInternalFailure'
        /\ WithinCap(e_queue, QueueCap)' /\ WithinCap(deferred, DeferCap)'
    BY <1>1 DEF RefInv, Shape, NoInternalFailure
  <1>7. QED
    BY <1>1, <1>3, <1>4, <1>5, <1>6, SameRefsKeeps DEF RefInv, Shape

(* Recall and flush take an event from the deferred queue.                 *)
LEMMA TakeDeferredRefs ==
  ASSUME RefInv, FlowInv', NEW a \in AO, FlushNext(a) \/ Recall(a)
  PROVE  RefInv'
  <1> DEFINE front == Head(deferred[a])
  <1>1. CASE deferred[a] = <<>>
    BY <1>1, FailRefs DEF FlushNext, Recall
  <1>2. CASE deferred[a] # <<>>
    <2>1. /\ pc[a] \in {"run", "flush"}
          /\ \/ pc' = [pc EXCEPT ![a] = "recall_post"] /\ after' = after
             \/ pc' = [pc EXCEPT ![a] = "gc"] /\ after' = [after EXCEPT ![a] = "flush"]
          /\ arg' = [arg EXCEPT ![a] = front]
          /\ deferred' = [deferred EXCEPT ![a] = Tail(@)]
          /\ UNCHANGED <<free, ref_cnt, e_queue, cur, fresh, failed>>
      BY <1>2 DEF FlushNext, Recall, MayCall
    <2>2. arg[a] = NULL /\ a \in Thread
      BY <2>1, Caps DEF RefInv, Shape, HandsOK
    <2>3. Takes(deferred, deferred', DeferCap, a, front)
      BY <1>2, <2>1, Types, Caps, TailTakes
    <2>4. SameRefs
      <3>1. ASSUME NEW e \in Mutable
            PROVE  Refs(e)' = Refs(e)
        <4>1. Held(arg', Thread, e) + Is(NULL, e) = Held(arg, Thread, e) + Is(front, e)
          <5>1. arg' = [arg EXCEPT ![a] = front]
            BY <2>1
          <5>2. Held(arg', Thread, e) + Is(arg[a], e) = Held(arg, Thread, e) + Is(front, e)
            BY <2>2, <5>1, ArgMoves
          <5>3. QED
            BY <2>2, <5>2
        <4>2. Placed(deferred, DeferCap, e) = Placed(deferred', DeferCap, e) + Is(front, e)
          BY <2>3, Caps, PlacedTail
        <4>3. e_queue' = e_queue /\ cur' = cur
          BY <2>1
        <4>4. QED
          BY <4>1, <4>2, <4>3, SumPrime, IsNat, IsNull
      <3>2. QED
        BY <3>1 DEF SameRefs
    <2>5. NoNewRelease
      BY <2>1, <2>2, Types DEF NoNewRelease
    <2>6. HandsOK'
      BY <2>1, <2>2, Types, Caps DEF RefInv, Shape, HandsOK, HandlerRuns
    <2>7. NoInternalFailure' /\ WithinCap(e_queue, QueueCap)'
      BY <2>1 DEF RefInv, Shape, NoInternalFailure
    <2>8. WithinCap(deferred, DeferCap)'
      BY <2>3 DEF Takes
    <2>9. QED
      BY <2>1, <2>4, <2>5, <2>6, <2>7, <2>8, SameRefsKeeps DEF RefInv, Shape
  <1>3. QED
    BY <1>1, <1>2

-----------------------------------------------------------------------------
(* The steps that drop a reference.                                        *)

LEMMA GcDropRefs ==
  ASSUME RefInv, FlowInv', NEW t \in Thread, GcDrop(t)
  PROVE  RefInv'
  <1> DEFINE x == arg[t]
  <1>1. /\ pc[t] = "gc" /\ pc' = [pc EXCEPT ![t] = after[t]]
        /\ x \in Mutable => ~(ref_cnt[x] <= 1)
        /\ ref_cnt' = IF x \in Mutable THEN [ref_cnt EXCEPT ![x] = @ - 1] ELSE ref_cnt
        /\ arg' = [arg EXCEPT ![t] = NULL]
        /\ UNCHANGED <<free, e_queue, deferred, cur, fresh, after, failed>>
    BY DEF GcDrop, LastReference
  <1>2. x \in Event
    BY <1>1 DEF RefInv, FlowInv, ControlOK
  <1>3. x \in Mutable => ref_cnt[x] > 1
    BY <1>1, Types, FlowAssumption
  <1>4. ASSUME NEW e \in Mutable
        PROVE  Refs(e)' = Refs(e) - Is(x, e)
    <2>1. Held(arg', Thread, e) + Is(x, e) = Held(arg, Thread, e) + Is(NULL, e)
      BY <1>1, ArgMoves
    <2>2. e_queue' = e_queue /\ cur' = cur /\ deferred' = deferred
      BY <1>1
    <2>3. QED
      BY <2>1, <2>2, SumPrime, IsNat, IsNull
  <1>5. NoNewRelease
    BY <1>1, Types DEF NoNewRelease
  <1>6. Counted' /\ Released'
    BY <1>1, <1>2, <1>3, <1>4, <1>5, DropsKeeps
  <1>7. HandsOK'
    BY <1>1, Types, Caps DEF RefInv, Shape, HandsOK, HandlerRuns
  <1>8. /\ NoInternalFailure'
        /\ WithinCap(e_queue, QueueCap)' /\ WithinCap(deferred, DeferCap)'
    BY <1>1 DEF RefInv, Shape, NoInternalFailure
  <1>9. QED
    BY <1>6, <1>7, <1>8 DEF RefInv, Shape

(* An event in front of a queue has a place there.                         *)
LEMMA FrontPlaced ==
  ASSUME NEW a \in AO, WithinCap(e_queue, QueueCap), e_queue[a] # <<>>
  PROVE  Placed(e_queue, QueueCap, Head(e_queue[a])) > 0
  <1> DEFINE e == Head(e_queue[a])
  <1>1. e_queue[a] \in Seq(Event) /\ Len(e_queue[a]) <= QueueCap
    BY DEF WithinCap
  <1>2. 1 \in DOMAIN e_queue[a] /\ 1 \in 1 .. QueueCap /\ e_queue[a][1] = e
    BY <1>1, Caps
  <1>3. <<a, 1>> \in Places(e_queue, QueueCap, e)
    BY <1>2 DEF Places
  <1>4. Placed(e_queue, QueueCap, e) \in Nat /\ Placed(e_queue, QueueCap, e) # 0
    BY <1>3, Caps, PlacesFinite
  <1>5. QED
    BY <1>4

(* The assertion of recall (ref_cnt >= 2) holds: recall itself and the     *)
(* front of the queue are two references.                                  *)
LEMMA RecalledTwice ==
  ASSUME RefInv, NEW a \in AO, pc[a] = "recall_drop", arg[a] \in Mutable
  PROVE  ref_cnt[arg[a]] > 1
  <1>1. e_queue[a] # <<>> /\ Head(e_queue[a]) = arg[a] /\ a \in Thread
    BY Caps DEF RefInv, Shape, HandsOK
  <1>2. Placed(e_queue, QueueCap, arg[a]) > 0
    BY <1>1, Types, FrontPlaced
  <1>3. Refs(arg[a]) > 1
    BY <1>1, <1>2, ArgRefers
  <1>4. arg[a] \notin free
    BY <1>1, ReachedLive DEF Reached
  <1>5. QED
    BY <1>3, <1>4 DEF RefInv, Counted, CountedAt

LEMMA RecallDropRefs ==
  ASSUME RefInv, FlowInv', NEW a \in AO, RecallDrop(a)
  PROVE  RefInv'
  <1> DEFINE x == arg[a]
  <1>1. pc[a] = "recall_drop" /\ a \in Thread
    BY Caps DEF RecallDrop
  <1>2. x \in Mutable => ref_cnt[x] > 1
    BY <1>1, RecalledTwice
  <1>3. ~(x \in Mutable /\ ref_cnt[x] < 2)
    BY <1>2, Types, FlowAssumption
  <1>4. /\ ref_cnt' = IF x \in Mutable THEN [ref_cnt EXCEPT ![x] = @ - 1] ELSE ref_cnt
        /\ pc' = [pc EXCEPT ![a] = "run"]
        /\ arg' = [arg EXCEPT ![a] = NULL]
        /\ UNCHANGED <<free, e_queue, deferred, cur, fresh, after, failed>>
    BY <1>3 DEF RecallDrop
  <1>5. x \in Event
    BY <1>1 DEF RefInv, FlowInv, ControlOK
  <1>6. ASSUME NEW e \in Mutable
        PROVE  Refs(e)' = Refs(e) - Is(x, e)
    <2>1. Held(arg', Thread, e) + Is(x, e) = Held(arg, Thread, e) + Is(NULL, e)
      BY <1>1, <1>4, ArgMoves
    <2>2. e_queue' = e_queue /\ cur' = cur /\ deferred' = deferred
      BY <1>4
    <2>3. QED
      BY <2>1, <2>2, SumPrime, IsNat, IsNull
  <1>7. NoNewRelease
    BY <1>1, <1>4, Types DEF NoNewRelease
  <1>8. Counted' /\ Released'
    BY <1>1, <1>2, <1>4, <1>5, <1>6, <1>7, DropsKeeps
  <1>9. HandsOK'
    BY <1>1, <1>4, Types, Caps DEF RefInv, Shape, HandsOK, HandlerRuns
  <1>10. /\ NoInternalFailure'
         /\ WithinCap(e_queue, QueueCap)' /\ WithinCap(deferred, DeferCap)'
    BY <1>4 DEF RefInv, Shape, NoInternalFailure
  <1>11. QED
    BY <1>8, <1>9, <1>10 DEF RefInv, Shape

(* The pool is not full when a block returns to it: the block is not there.*)
LEMMA ReleaseRefs ==
  ASSUME RefInv, FlowInv', NEW t \in Thread, Release(t)
  PROVE  RefInv'
  <1> DEFINE x == arg[t]
  <1>1. pc[t] = "release" /\ x \in Mutable /\ Refs(x) = 1
    BY DEF Release, RefInv, Released, FlowInv, ControlOK
  <1>2. CountedAt(x \in free, ref_cnt[x], Refs(x), Owners(x))
    BY <1>1 DEF RefInv, Counted
  <1>3. x \notin free /\ Owners(x) = 0
    BY <1>1, <1>2 DEF CountedAt
  <1>4. /\ free' = free \cup {x}
        /\ pc' = [pc EXCEPT ![t] = after[t]]
        /\ arg' = [arg EXCEPT ![t] = NULL]
        /\ UNCHANGED <<ref_cnt, e_queue, deferred, cur, fresh, after, failed>>
    BY <1>1, <1>3 DEF Release
  <1>5. ASSUME NEW e \in Mutable
        PROVE  Refs(e)' = Refs(e) - Is(x, e)
    <2>1. Held(arg', Thread, e) + Is(x, e) = Held(arg, Thread, e) + Is(NULL, e)
      BY <1>4, ArgMoves
    <2>2. e_queue' = e_queue /\ cur' = cur /\ deferred' = deferred
      BY <1>4
    <2>3. QED
      BY <2>1, <2>2, SumPrime, IsNat, IsNull
  <1>6. Counted'
    <2>1. ASSUME NEW e \in Mutable
          PROVE  CountedAt(e \in free, ref_cnt[e], Refs(e), Owners(e))'
      <3>1. CountedAt(e \in free, ref_cnt[e], Refs(e), Owners(e)) /\ Refs(e) \in Nat
        BY SumNat DEF RefInv, Counted, Refs
      <3>2. Owners(e)' = Owners(e) /\ ref_cnt'[e] = ref_cnt[e]
        BY <1>4 DEF Owners
      <3>3. CASE e = x
        <4>1. e \in free' /\ Refs(e)' = 0
          BY <1>1, <1>4, <1>5, <3>3 DEF Is
        <4>2. QED
          BY <1>3, <3>2, <3>3, <4>1 DEF CountedAt
      <3>4. CASE e # x
        <4>1. (e \in free' <=> e \in free) /\ Refs(e)' = Refs(e)
          BY <1>4, <1>5, <3>1, <3>4 DEF Is
        <4>2. QED
          BY <3>1, <3>2, <4>1 DEF CountedAt
      <3>5. QED
        BY <3>3, <3>4
    <2>2. QED
      BY <2>1 DEF Counted
  <1>7. NoNewRelease
    BY <1>1, <1>4, Types DEF NoNewRelease
  <1>8. ASSUME NEW u \in Thread, pc[u] = "release", pc'[u] = "release",
               NEW e \in Mutable, e = arg[u]
        PROVE  Refs(e)' = Refs(e)
    <2>1. u # t
      BY <1>1, <1>4, <1>8, Types
    <2>2. e # x
      BY <1>1, <1>8, <2>1, ArgRefers
    <2>3. QED
      BY <1>5, <2>2, SumNat DEF Is, Refs
  <1>9. Released'
    BY <1>7, <1>8, ReleasedKeeps
  <1>10. HandsOK'
    BY <1>1, <1>4, Types, Caps DEF RefInv, Shape, HandsOK, HandlerRuns
  <1>11. /\ NoInternalFailure'
         /\ WithinCap(e_queue, QueueCap)' /\ WithinCap(deferred, DeferCap)'
    BY <1>4 DEF RefInv, Shape, NoInternalFailure
  <1>12. QED
    BY <1>6, <1>9, <1>10, <1>11 DEF RefInv, Shape

LEMMA NewRefs ==
  ASSUME RefInv, FlowInv', NEW t \in Thread, New(t)
  PROVE  RefInv'
  <1>1. CASE free = {}
    BY <1>1, FailRefs DEF New
  <1>2. CASE free # {}
    <2>1. PICK x \in free :
            /\ free' = free \ {x} /\ fresh[t] = NULL
            /\ ref_cnt' = [ref_cnt EXCEPT ![x] = 0]
            /\ fresh' = [fresh EXCEPT ![t] = x]
            /\ UNCHANGED <<e_queue, deferred, pc, cur, arg, after, failed>>
      BY <1>2 DEF New
    <2>2. x \in Mutable
      BY DEF RefInv, FlowInv, TypeOK
    <2>3. ASSUME NEW e \in Mutable
          PROVE  Owners(e)' = Owners(e) + Is(x, e) /\ Owners(e) \in Nat
      <3>1. Changes(fresh, fresh', Thread, t, x)
        BY <2>1, Types DEF Changes
      <3>2. Held(fresh', Thread, e) + Is(NULL, e) = Held(fresh, Thread, e) + Is(x, e)
        BY <2>1, <3>1, Caps, HeldUpdate
      <3>3. Held(fresh', Thread, e) \in Nat /\ Held(fresh, Thread, e) \in Nat
        BY Caps, HeldCounts
      <3>4. QED
        BY <3>2, <3>3, IsNull DEF Owners
    <2>4. SameRefs
      BY <2>1 DEF SameRefs, Refs
    <2>5. Counted'
      <3>1. ASSUME NEW e \in Mutable
            PROVE  CountedAt(e \in free, ref_cnt[e], Refs(e), Owners(e))'
        <4>1. CountedAt(e \in free, ref_cnt[e], Refs(e), Owners(e)) /\ Refs(e)' = Refs(e)
          BY <2>4 DEF RefInv, Counted, SameRefs
        <4>2. CASE e = x
          <5>1. e \notin free' /\ ref_cnt'[e] = 0 /\ Refs(e)' = 0 /\ Owners(e)' = 1
            BY <2>1, <2>2, <2>3, <4>1, <4>2, Types DEF CountedAt, Is
          <5>2. QED
            BY <5>1 DEF CountedAt
        <4>3. CASE e # x
          <5>1. /\ e \in free' <=> e \in free
                /\ ref_cnt'[e] = ref_cnt[e] /\ Owners(e)' = Owners(e)
            BY <2>1, <2>2, <2>3, <4>3, Types DEF Is
          <5>2. QED
            BY <4>1, <5>1 DEF CountedAt
        <4>4. QED
          BY <4>2, <4>3
      <3>2. QED
        BY <3>1 DEF Counted
    <2>6. NoNewRelease
      BY <2>1 DEF NoNewRelease
    <2>7. Released'
      BY <2>4, <2>6, ReleasedKeeps DEF SameRefs
    <2>8. HandsOK'
      BY <2>1 DEF RefInv, Shape, HandsOK, HandlerRuns
    <2>9. /\ NoInternalFailure'
          /\ WithinCap(e_queue, QueueCap)' /\ WithinCap(deferred, DeferCap)'
      BY <2>1 DEF RefInv, Shape, NoInternalFailure
    <2>10. QED
      BY <2>5, <2>7, <2>8, <2>9 DEF RefInv, Shape
  <1>3. QED
    BY <1>1, <1>2

-----------------------------------------------------------------------------
(* The steps that add a reference.                                         *)

(* Who sends an event reaches it, and no longer owns it.                   *)
LEMMA SentOwners ==
  ASSUME RefInv, NEW t \in Thread, NEW call, NEW x \in Event,
         MaySend(t, call, x), Sent(t, x)
  PROVE  /\ x \in Mutable => Reached(t, x)
         /\ \A e \in Mutable : Owners(e)' = IF e = x THEN 0 ELSE Owners(e)
  <1>1. x \in Mutable => Reached(t, x)
    BY FlowAssumption DEF MaySend, Reached
  <1>2. CASE x = fresh[t]
    <2>1. x \in Mutable /\ fresh' = [fresh EXCEPT ![t] = NULL]
      BY <1>2, Types, Caps DEF Sent
    <2>2. Changes(fresh, fresh', Thread, t, NULL)
      BY <2>1, Types DEF Changes
    <2>3. Owners(x) = 1
      BY <1>1, <1>2, <2>1, ReachedLive
    <2>4. ASSUME NEW e \in Mutable
          PROVE  Owners(e)' = IF e = x THEN 0 ELSE Owners(e)
      <3>1. Held(fresh', Thread, e) + Is(x, e) = Held(fresh, Thread, e) + Is(NULL, e)
        BY <1>2, <2>2, Caps, HeldUpdate
      <3>2. Held(fresh', Thread, e) \in Nat /\ Held(fresh, Thread, e) \in Nat
        BY Caps, HeldCounts
      <3>3. Owners(e)' + Is(x, e) = Owners(e) /\ Owners(e)' \in Nat /\ Owners(e) \in Nat
        BY <3>1, <3>2, IsNull DEF Owners
      <3>4. QED
        BY <2>3, <3>3 DEF Is
    <2>5. QED
      BY <1>1, <2>4
  <1>3. CASE x # fresh[t]
    <2>1. fresh' = fresh
      BY <1>3 DEF Sent
    <2>2. x \in Mutable => Owners(x) = 0
      BY <1>1, <1>3, ReachedLive
    <2>3. QED
      BY <1>1, <2>1, <2>2 DEF Owners
  <1>4. QED
    BY <1>2, <1>3

(* Who posts the event of its dispatch or of its call does not own it.     *)
LEMMA UsedOwners ==
  ASSUME RefInv, NEW t \in Thread, NEW x \in Event, fresh' = fresh,
         (pc[t] # "release" /\ x = arg[t]) \/ (t \in AO /\ x = cur[t])
  PROVE  /\ x \in Mutable => Reached(t, x)
         /\ \A e \in Mutable : Owners(e)' = IF e = x THEN 0 ELSE Owners(e)
  <1>1. x \in Mutable => Reached(t, x)
    BY DEF Reached
  <1>2. Refs(x) > 0
    BY ArgRefers, CurRefers
  <1>3. x \in Mutable => Owners(x) = 0
    <2>1. ASSUME x \in Mutable
          PROVE  Owners(x) = 0
      <3>1. x \notin free
        BY <1>1, <2>1, ReachedLive
      <3>2. QED
        BY <1>2, <2>1, <3>1 DEF RefInv, Counted, CountedAt
    <2>2. QED
      BY <2>1
  <1>4. QED
    BY <1>1, <1>3 DEF Owners

(* A signal wakes a waiting thread, which holds nothing.                   *)
LEMMA NotifiedKeeps ==
  ASSUME RefInv, NEW a, pc' = Notified(pc, a), arg' = arg
  PROVE  /\ NoNewRelease
         /\ \A t \in Thread : pc'[t] = pc[t] \/ (pc[t] = "wait" /\ pc'[t] = "get")
  <1>1. TypeOK
    BY DEF RefInv, FlowInv
  <1>2. QED
    BY <1>1, NotifiedMoves DEF NoNewRelease

(* A post to a queue that is not empty leaves its front where it is.       *)
LEMMA PostHands ==
  ASSUME RefInv, NEW a \in AO, NEW x, Appends(e_queue, e_queue', QueueCap, a, x),
         \A u \in Thread : pc'[u] = pc[u] \/ (pc[u] = "wait" /\ pc'[u] = "get"),
         UNCHANGED <<cur, arg, after>>
  PROVE  HandsOK'
  <1>1. \A u \in Thread : pc'[u] \in {"run", "get", "wait", "flush"} => arg'[u] = NULL
    BY DEF RefInv, Shape, HandsOK
  <1>2. \A b \in AO : ~HandlerRuns(b)' => cur'[b] = NULL
    BY Caps DEF RefInv, Shape, HandsOK, HandlerRuns
  <1>3. ASSUME NEW b \in AO, e_queue[b] # <<>>
        PROVE  e_queue'[b] # <<>> /\ Head(e_queue'[b]) = Head(e_queue[b])
    <2>1. e_queue[b] \in Seq(Event) /\ x \in Event
      BY Types DEF Appends
    <2>2. e_queue'[b] = Append(e_queue[b], x) \/ e_queue'[b] = e_queue[b]
      BY DEF Appends, Changes
    <2>3. QED
      BY <1>3, <2>1, <2>2
  <1>4. \A b \in AO :
          pc'[b] = "recall_drop" => e_queue'[b] # <<>> /\ Head(e_queue'[b]) = arg'[b]
    BY <1>3, Caps DEF RefInv, Shape, HandsOK
  <1>5. QED
    BY <1>1, <1>2, <1>4 DEF HandsOK

LEMMA PostRefs ==
  ASSUME RefInv, FlowInv', NEW t \in Thread, NEW a \in AO, NEW x \in Event, Post(t, a, x)
  PROVE  RefInv'
  <1>1. CASE PostFails(e_queue[a], QueueCap, x)
    BY <1>1, PostFailsRefs
  <1>2. CASE ~PostFails(e_queue[a], QueueCap, x)
    <2>1. /\ Len(e_queue[a]) < QueueCap
          /\ e_queue' = [e_queue EXCEPT ![a] = Append(@, x)]
          /\ AddRef(x) /\ MaySend(t, "post", x) /\ Sent(t, x)
          /\ pc' = Notified(pc, a)
          /\ UNCHANGED <<free, deferred, cur, arg, after, failed>>
      BY <1>2 DEF Post, PostSucceeds
    <2>2. Appends(e_queue, e_queue', QueueCap, a, x)
      BY <2>1, Types, Caps, AppendAppends
    <2>3. ASSUME NEW e \in Mutable
          PROVE  Refs(e)' = Refs(e) + Is(x, e)
      <3>1. Placed(e_queue', QueueCap, e) = Placed(e_queue, QueueCap, e) + Is(x, e)
        BY <2>2, Caps, PlacedAppend
      <3>2. deferred' = deferred /\ cur' = cur /\ arg' = arg
        BY <2>1
      <3>3. QED
        BY <3>1, <3>2, SumPrime, IsNat
    <2>4. /\ NoNewRelease
          /\ \A u \in Thread : pc'[u] = pc[u] \/ (pc[u] = "wait" /\ pc'[u] = "get")
      BY <2>1, NotifiedKeeps
    <2>5. Counted' /\ Released'
      BY <2>1, <2>3, <2>4, SentOwners, AddsKeeps
    <2>6. HandsOK'
      BY <2>1, <2>2, <2>4, PostHands
    <2>7. NoInternalFailure' /\ WithinCap(deferred, DeferCap)'
      BY <2>1 DEF RefInv, Shape, NoInternalFailure
    <2>8. WithinCap(e_queue, QueueCap)'
      BY <2>2 DEF Appends
    <2>9. QED
      BY <2>5, <2>6, <2>7, <2>8 DEF RefInv, Shape
  <1>3. QED
    BY <1>1, <1>2

LEMMA PublishRefs ==
  ASSUME RefInv, FlowInv', NEW t \in Thread, NEW x \in Event, Publish(t, x)
  PROVE  RefInv'
  <1>1. CASE ~MarginLeft(x)
    BY <1>1, FailRefs DEF Publish
  <1>2. CASE MarginLeft(x)
    <2>1. /\ pc[t] = "run" /\ pc' = [pc EXCEPT ![t] = "multicast"]
          /\ AddRef(x) /\ MaySend(t, "publish", x) /\ Sent(t, x)
          /\ arg' = [arg EXCEPT ![t] = x]
          /\ UNCHANGED <<free, e_queue, deferred, cur, after, failed>>
      BY <1>2 DEF Publish, MaySend, MayCall
    <2>2. arg[t] = NULL
      BY <2>1 DEF RefInv, Shape, HandsOK
    <2>3. ASSUME NEW e \in Mutable
          PROVE  Refs(e)' = Refs(e) + Is(x, e)
      <3>1. Held(arg', Thread, e) + Is(NULL, e) = Held(arg, Thread, e) + Is(x, e)
        BY <2>1, <2>2, ArgMoves
      <3>2. e_queue' = e_queue /\ deferred' = deferred /\ cur' = cur
        BY <2>1
      <3>3. QED
        BY <3>1, <3>2, SumPrime, IsNat, IsNull
    <2>4. NoNewRelease
      BY <2>1, Types DEF NoNewRelease
    <2>5. Counted' /\ Released'
      BY <2>1, <2>3, <2>4, SentOwners, AddsKeeps
    <2>6. HandsOK'
      BY <2>1, Types, Caps DEF RefInv, Shape, HandsOK, HandlerRuns
    <2>7. /\ NoInternalFailure'
          /\ WithinCap(e_queue, QueueCap)' /\ WithinCap(deferred, DeferCap)'
      BY <2>1 DEF RefInv, Shape, NoInternalFailure
    <2>8. QED
      BY <2>5, <2>6, <2>7 DEF RefInv, Shape
  <1>3. QED
    BY <1>1, <1>2

LEMMA DeferRefs ==
  ASSUME RefInv, FlowInv', NEW a \in AO, Defer(a)
  PROVE  RefInv'
  <1> DEFINE x == cur[a]
  <1>1. CASE PostFails(deferred[a], DeferCap, x)
    BY <1>1, PostFailsRefs
  <1>2. CASE ~PostFails(deferred[a], DeferCap, x)
    <2>1. /\ pc[a] = "run" /\ Len(deferred[a]) < DeferCap
          /\ deferred' = [deferred EXCEPT ![a] = Append(@, x)]
          /\ AddRef(x)
          /\ UNCHANGED <<free, e_queue, pc, cur, fresh, arg, after, failed>>
      BY <1>2 DEF Defer, PostSucceeds, MayCall
    <2>2. x \in Event /\ a \in Thread
      BY <2>1, Caps DEF RefInv, FlowInv, ControlOK, HandlerRuns
    <2>3. Appends(deferred, deferred', DeferCap, a, x)
      BY <2>1, <2>2, Types, Caps, AppendAppends
    <2>4. ASSUME NEW e \in Mutable
          PROVE  Refs(e)' = Refs(e) + Is(x, e)
      <3>1. Placed(deferred', DeferCap, e) = Placed(deferred, DeferCap, e) + Is(x, e)
        BY <2>3, Caps, PlacedAppend
      <3>2. e_queue' = e_queue /\ cur' = cur /\ arg' = arg
        BY <2>1
      <3>3. QED
        BY <3>1, <3>2, SumPrime, IsNat
    <2>5. NoNewRelease
      BY <2>1 DEF NoNewRelease
    <2>6. /\ x \in Mutable => Reached(a, x)
          /\ \A e \in Mutable : Owners(e)' = IF e = x THEN 0 ELSE Owners(e)
      BY <2>1, <2>2, UsedOwners
    <2>7. Counted' /\ Released'
      BY <2>1, <2>2, <2>4, <2>5, <2>6, AddsKeeps
    <2>8. HandsOK'
      BY <2>1 DEF RefInv, Shape, HandsOK, HandlerRuns
    <2>9. NoInternalFailure' /\ WithinCap(e_queue, QueueCap)'
      BY <2>1 DEF RefInv, Shape, NoInternalFailure
    <2>10. WithinCap(deferred, DeferCap)'
      BY <2>3 DEF Appends
    <2>11. QED
      BY <2>7, <2>8, <2>9, <2>10 DEF RefInv, Shape
  <1>3. QED
    BY <1>1, <1>2

LEMMA RecallPostRefs ==
  ASSUME RefInv, FlowInv', NEW a \in AO, RecallPost(a)
  PROVE  RefInv'
  <1> DEFINE x == arg[a]
  <1>1. CASE PostFails(e_queue[a], QueueCap, x)
    BY <1>1, PostFailsRefs
  <1>2. CASE ~PostFails(e_queue[a], QueueCap, x)
    <2>1. /\ Len(e_queue[a]) < QueueCap
          /\ pc[a] = "recall_post" /\ pc' = [pc EXCEPT ![a] = "recall_drop"]
          /\ e_queue' = [e_queue EXCEPT ![a] = <<x>> \o @]
          /\ AddRef(x)
          /\ UNCHANGED <<free, deferred, cur, fresh, arg, after, failed>>
      BY <1>2 DEF RecallPost, PostSucceeds
    <2>2. x \in Event /\ a \in Thread
      BY <2>1, Caps DEF RefInv, FlowInv, ControlOK
    <2>3. Takes(e_queue', e_queue, QueueCap, a, x)
      BY <2>1, <2>2, Types, Caps, PushUndone
    <2>4. ASSUME NEW e \in Mutable
          PROVE  Refs(e)' = Refs(e) + Is(x, e)
      <3>1. Placed(e_queue', QueueCap, e) = Placed(e_queue, QueueCap, e) + Is(x, e)
        BY <2>3, Caps, PlacedTail
      <3>2. deferred' = deferred /\ cur' = cur /\ arg' = arg
        BY <2>1
      <3>3. QED
        BY <3>1, <3>2, SumPrime, IsNat
    <2>5. NoNewRelease
      BY <2>1, Types DEF NoNewRelease
    <2>6. /\ x \in Mutable => Reached(a, x)
          /\ \A e \in Mutable : Owners(e)' = IF e = x THEN 0 ELSE Owners(e)
      BY <2>1, <2>2, UsedOwners
    <2>7. Counted' /\ Released'
      BY <2>1, <2>2, <2>4, <2>5, <2>6, AddsKeeps
    <2>8. HandsOK'
      <3>1. e_queue'[a] # <<>> /\ Head(e_queue'[a]) = x
        BY <2>3 DEF Takes
      <3>2. \A b \in AO : b # a => e_queue'[b] = e_queue[b]
        BY <2>3 DEF Takes, Changes
      <3>3. QED
        BY <2>1, <2>2, <3>1, <3>2, Types, Caps DEF RefInv, Shape, HandsOK, HandlerRuns
    <2>9. NoInternalFailure' /\ WithinCap(deferred, DeferCap)'
      BY <2>1 DEF RefInv, Shape, NoInternalFailure
    <2>10. WithinCap(e_queue, QueueCap)'
      BY <2>3 DEF Takes
    <2>11. QED
      BY <2>7, <2>8, <2>9, <2>10 DEF RefInv, Shape
  <1>3. QED
    BY <1>1, <1>2

(* The active object that publish posts to next is one of those left.      *)
LEMMA NextSubscriber ==
  ASSUME NEW S \in SUBSET AO, S # {}
  PROVE  FindMax(BitmaskOf(S, (MaxAO + 7) \div 8)) \in S
  <1> DEFINE len == (MaxAO + 7) \div 8
             mask == BitmaskOf(S, len)
  <1>1. len \in Nat /\ 1 .. MaxAO \subseteq Positions(len)
    BY FlowAssumption DEF Positions
  <1>2. S \subseteq Positions(len)
    BY <1>1, FlowAssumption
  <1>3. mask \in Bytes(len)
    BY <1>1 DEF BitmaskOf, Bytes
  <1>4. ASSUME NEW q \in Positions(len)
        PROVE  IsBitSet(mask, q) <=> q \in S
    <2>1. ByteOf(q) \in 0 .. len - 1 /\ BitOf(q) \in Bit
      BY <1>1, PositionIsByteAndBit
    <2>2. 8 * ByteOf(q) + BitOf(q) + 1 = q
      BY DEF ByteOf, BitOf, Positions
    <2>3. mask[ByteOf(q)] = {b \in Bit : 8 * ByteOf(q) + b + 1 \in S}
      BY <2>1 DEF BitmaskOf
    <2>4. QED
      BY <2>1, <2>2, <2>3 DEF IsBitSet
  <1> HIDE DEF mask, len
  <1>5. PICK q \in S : q \in Positions(len) /\ IsBitSet(mask, q)
    BY <1>2, <1>4
  <1>6. FindMax(mask) \in Positions(len) /\ IsBitSet(mask, FindMax(mask))
    BY <1>1, <1>3, <1>5, FindMaxFindsABit
  <1>7. FindMax(mask) \in S
    BY <1>4, <1>6
  <1>8. QED
    BY <1>7 DEF mask, len

LEMMA MulticastRefs ==
  ASSUME RefInv, FlowInv', NEW t \in Thread, Multicast(t)
  PROVE  RefInv'
  <1> DEFINE x == arg[t]
  <1>1. subs_list[t] \in SUBSET AO /\ subs_list[t] # {}
    BY DEF Multicast, RefInv, FlowInv, TypeOK
  <1>2. PICK a \in AO : a = FindMax(BitmaskOf(subs_list[t], (MaxAO + 7) \div 8))
    BY <1>1, NextSubscriber
  <1>3. CASE PostFails(e_queue[a], QueueCap, x)
    BY <1>3, PostFailsRefs
  <1>4. CASE ~PostFails(e_queue[a], QueueCap, x)
    <2>1. /\ pc[t] = "multicast" /\ Len(e_queue[a]) < QueueCap
          /\ e_queue' = [e_queue EXCEPT ![a] = Append(@, x)]
          /\ AddRef(x)
          /\ pc' = Notified(pc, a)
          /\ UNCHANGED <<free, deferred, cur, fresh, arg, after, failed>>
      BY <1>2, <1>4 DEF Multicast, PostSucceeds
    <2>2. x \in Event
      BY <2>1 DEF RefInv, FlowInv, ControlOK
    <2>3. Appends(e_queue, e_queue', QueueCap, a, x)
      BY <2>1, <2>2, Types, Caps, AppendAppends
    <2>4. ASSUME NEW e \in Mutable
          PROVE  Refs(e)' = Refs(e) + Is(x, e)
      <3>1. Placed(e_queue', QueueCap, e) = Placed(e_queue, QueueCap, e) + Is(x, e)
        BY <2>3, Caps, PlacedAppend
      <3>2. deferred' = deferred /\ cur' = cur /\ arg' = arg
        BY <2>1
      <3>3. QED
        BY <3>1, <3>2, SumPrime, IsNat
    <2>5. /\ NoNewRelease
          /\ \A u \in Thread : pc'[u] = pc[u] \/ (pc[u] = "wait" /\ pc'[u] = "get")
      BY <2>1, NotifiedKeeps
    <2>6. /\ x \in Mutable => Reached(t, x)
          /\ \A e \in Mutable : Owners(e)' = IF e = x THEN 0 ELSE Owners(e)
      BY <2>1, <2>2, UsedOwners
    <2>7. Counted' /\ Released'
      BY <2>1, <2>2, <2>4, <2>5, <2>6, AddsKeeps
    <2>8. HandsOK'
      BY <2>1, <2>3, <2>5, PostHands
    <2>9. NoInternalFailure' /\ WithinCap(deferred, DeferCap)'
      BY <2>1 DEF RefInv, Shape, NoInternalFailure
    <2>10. WithinCap(e_queue, QueueCap)'
      BY <2>3 DEF Appends
    <2>11. QED
      BY <2>7, <2>8, <2>9, <2>10 DEF RefInv, Shape
  <1>5. QED
    BY <1>3, <1>4

-----------------------------------------------------------------------------
LEMMA InitRefs ==
  ASSUME Init
  PROVE  RefInv
  <1>1. FlowInv
    BY InitFlow
  <1>2. Shape
    <2>1. \A a \in AO : e_queue[a] = <<>> /\ deferred[a] = <<>>
      BY DEF Init
    <2>2. WithinCap(e_queue, QueueCap) /\ WithinCap(deferred, DeferCap)
      <3>1. <<>> \in Seq(Event) /\ Len(<<>>) = 0
        OBVIOUS
      <3>2. Len(<<>>) <= QueueCap /\ Len(<<>>) <= DeferCap
        BY <3>1, Caps
      <3>3. ASSUME NEW a \in AO
            PROVE  /\ e_queue[a] \in Seq(Event) /\ Len(e_queue[a]) <= QueueCap
                   /\ deferred[a] \in Seq(Event) /\ Len(deferred[a]) <= DeferCap
        BY <2>1, <3>1, <3>2, Zenon
      <3>4. QED
        BY <3>3 DEF WithinCap
    <2>3. HandsOK
      BY Caps DEF Init, HandsOK, HandlerRuns
    <2>4. QED
      BY <2>2, <2>3 DEF Init, Shape, NoInternalFailure
  <1>3. ASSUME NEW e \in Mutable
        PROVE  CountedAt(e \in free, ref_cnt[e], Refs(e), Owners(e))
    <2>1. Places(e_queue, QueueCap, e) = {} /\ Places(deferred, DeferCap, e) = {}
      <3>1. \A a \in AO : DOMAIN e_queue[a] = {} /\ DOMAIN deferred[a] = {}
        BY DEF Init
      <3>2. QED
        BY <3>1 DEF Places
    <2>2. Placed(e_queue, QueueCap, e) = 0 /\ Placed(deferred, DeferCap, e) = 0
      BY <2>1, Caps, PlacesFinite
    <2>3. /\ \A a \in AO : cur[a] # e
          /\ \A t \in Thread : arg[t] # e /\ fresh[t] # e
      BY Caps DEF Init
    <2>4. Held(cur, AO, e) = 0 /\ Held(arg, Thread, e) = 0 /\ Owners(e) = 0
      BY <2>3, Caps, HeldCounts DEF Owners
    <2>5. Refs(e) = 0
      BY <2>2, <2>4 DEF Refs, RefSum
    <2>6. e \in free
      BY DEF Init
    <2>7. QED
      BY <2>4, <2>5, <2>6 DEF CountedAt
  <1>4. Released
    BY DEF Init, Released
  <1>5. QED
    BY <1>1, <1>2, <1>3, <1>4 DEF RefInv, Counted

LEMMA NextRefs ==
  ASSUME RefInv, [Next]_vars
  PROVE  RefInv'
  <1>1. FlowInv'
    BY NextFlow DEF RefInv
  <1>2. ASSUME NEW t \in Thread, Proceed(t)
        PROVE  RefInv'
    BY <1>1, <1>2, MulticastRefs, PublishEndRefs, GcDropRefs, GcLastRefs, ReleaseRefs
    DEF Proceed
  <1>3. ASSUME NEW t \in Thread, Call(t)
        PROVE  RefInv'
    BY <1>1, <1>3, NewRefs, PublishRefs, PostRefs DEF Call
  <1>4. ASSUME NEW a \in AO, AOProceeds(a)
        PROVE  RefInv'
    BY <1>1, <1>4, GetRefs, WaitRefs, ReturnRefs, RecallPostRefs, RecallDropRefs,
       TakeDeferredRefs, FlushDeferredRefs
    DEF AOProceeds
  <1>5. ASSUME NEW a \in AO, AOCall(a)
        PROVE  RefInv'
    BY <1>1, <1>5, SubscribeRefs, DeferRefs, TakeDeferredRefs, FlushDeferredRefs DEF AOCall
  <1>6. ASSUME UNCHANGED vars
        PROVE  RefInv'
    <2>1. UNCHANGED <<free, ref_cnt, e_queue, deferred, cur, fresh, arg, pc, after, failed>>
      BY <1>6 DEF vars
    <2>2. NoNewRelease
      BY <2>1 DEF NoNewRelease
    <2>3. HandsOK' /\ NoInternalFailure'
      BY <2>1 DEF RefInv, Shape, HandsOK, HandlerRuns, NoInternalFailure
    <2>4. QED
      BY <1>1, <2>1, <2>2, <2>3, IdleKeeps DEF RefInv, Shape
  <1>7. QED
    BY <1>1, <1>2, <1>3, <1>4, <1>5, <1>6, WaitRefs DEF Next, Stopped

(* The counts of the proof are those of the model.                         *)
LEMMA CountsAreReferences ==
  ASSUME NEW e
  PROVE  /\ References(e) = Refs(e) /\ Refs(e) \in Nat
         /\ Cardinality(Allocating(e)) = Owners(e)
         /\ Owners(e) = 0 => Allocating(e) = {}
  <1>1. /\ Queued(e) = Places(e_queue, QueueCap, e)
        /\ Deferred(e) = Places(deferred, DeferCap, e)
        /\ Dispatching(e) = Holders(cur, AO, e)
        /\ Handling(e) = Holders(arg, Thread, e)
    BY DEF Queued, Deferred, Dispatching, Handling, Places, Holders
  <1>2. References(e) = Refs(e) /\ Refs(e) \in Nat
    BY <1>1, SumNat DEF References, Refs, RefSum, Placed, Held
  <1>3. Cardinality(Allocating(e)) = Owners(e)
    BY DEF Allocating, Owners, Held, Holders
  <1>4. Owners(e) = 0 => \A t \in Thread : fresh[t] # e
    BY Caps, HeldCounts DEF Owners
  <1>5. QED
    BY <1>2, <1>3, <1>4 DEF Allocating

LEMMA RefInvMeans ==
  ASSUME RefInv
  PROVE  RefCountExact /\ NoUseAfterFree /\ ReleaseIsLast /\ NoInternalFailure
  <1>1. \A e \in Mutable : CountedAt(e \in free, ref_cnt[e], Refs(e), Owners(e))
    BY DEF RefInv, Counted
  <1>2. TypeOK /\ free \subseteq Mutable
    BY DEF RefInv, FlowInv, TypeOK
  <1>3. RefCountExact
    BY <1>1, <1>2, CountsAreReferences DEF RefCountExact, CountedAt
  <1>4. \A e \in free : References(e) = 0 /\ Allocating(e) = {}
    BY <1>1, <1>2, CountsAreReferences DEF CountedAt
  <1>5. \A e \in Mutable \ free :
          IF References(e) > 0 THEN Allocating(e) = {}
          ELSE Cardinality(Allocating(e)) = 1
    BY <1>1, CountsAreReferences DEF CountedAt
  <1>6. ReleaseIsLast
    BY CountsAreReferences DEF ReleaseIsLast, RefInv, Released
  <1>7. QED
    BY <1>3, <1>4, <1>5, <1>6 DEF NoUseAfterFree, RefInv, Shape

LEMMA RefInvariant == Spec => []RefInv
  <1>1. Init => RefInv
    BY InitRefs
  <1>2. RefInv /\ [Next]_vars => RefInv'
    BY NextRefs
  <1>3. QED
    BY <1>1, <1>2, PTL DEF Spec

(* In every execution the counter of a live event is the number of places  *)
(* that refer to it: what postFIFO, postLIFO, publish, defer, recall and   *)
(* EDF_event_gc add and drop always balances.                              *)
THEOREM FlowRefCountExact == Spec => []RefCountExact
  BY RefInvariant, RefInvMeans, PTL

(* In every execution a block in the free list is reachable from nowhere,  *)
(* and one that is not there is referenced or owned by whoever allocated   *)
(* it: no use after EDF_pool_release, no double release, no leak.          *)
THEOREM FlowNoUseAfterFree == Spec => []NoUseAfterFree
  BY RefInvariant, RefInvMeans, PTL

(* Between the critical section in which EDF_event_gc finds the last       *)
(* reference and the one in which it releases the block, nobody else gets  *)
(* hold of the event.                                                      *)
THEOREM FlowReleaseIsLast == Spec => []ReleaseIsLast
  BY RefInvariant, RefInvMeans, PTL

(* The assertions that recall and EDF_pool_release make about the counter  *)
(* and the pool never fire.                                                *)
THEOREM FlowNoInternalFailure == Spec => []NoInternalFailure
  BY RefInvariant, RefInvMeans, PTL
=============================================================================
