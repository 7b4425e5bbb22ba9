----------------------------- MODULE EventFlow -----------------------------
(***************************************************************************)
(* The life of an event in the Event-Driven Framework: allocated from a    *)
(* pool, posted or published, dispatched, deferred and recalled, and       *)
(* recycled by EDF_event_gc when its last reference goes (edf_event.c,     *)
(* edf_pool.c, edf_active_object.c), under the preemptive POSIX core:      *)
(* every active object is a thread, other threads (the application's main, *)
(* the ticker) produce events, and the threads interleave between any two  *)
(* critical sections. One action is one critical section.                  *)
(*                                                                         *)
(* An active object's queue and its deferred queue are the bounded deques  *)
(* that EventQueue.tla implements. What an event handler or a producer     *)
(* calls is up to the application; the bound Budget limits how many calls  *)
(* one dispatch makes and how many a producer makes in all, the sending of *)
(* the events they allocate not counted.                                   *)
(***************************************************************************)
EXTENDS Integers, Sequences, FiniteSets, SequencesExt, EmfBitmask

CONSTANTS
  AO,         \* the active objects: each is its priority
  Producer,   \* threads that are not active objects
  Mutable,    \* the blocks of the event pool
  Static,     \* immutable events (pool_num = 0), as the time events are
  NULL,
  QueueCap,   \* entries of an active object's queue, front_e included
  DeferCap,   \* entries of its deferred queue, front_e included
  MaxAO,      \* EDF_MAX_ACTIVE_OBJECT
  AOCalls,    \* the API calls that event handlers make
  ProducerCalls, \* the API calls that producers make
  Budget      \* how many calls a handler, and a producer, makes

Thread == AO \cup Producer
Event == Mutable \cup Static

ASSUME FlowAssumption ==
  /\ MaxAO \in 1 .. 64 /\ AO \subseteq 1 .. MaxAO
  /\ IsFiniteSet(Producer) /\ Producer \cap AO = {}
  /\ NULL \notin Event /\ Mutable \cap Static = {}
  /\ QueueCap \in Nat \ {0} /\ DeferCap \in Nat \ {0}
  /\ Budget \in Nat
  /\ AOCalls \subseteq {"new", "post", "publish", "defer", "recall", "flush",
                        "subscribe"}
  /\ ProducerCalls \subseteq {"new", "post", "publish"}

VARIABLES
  free,        \* the blocks in the pool's free list
  ref_cnt,     \* the reference counter in each block
  e_queue,     \* each active object's queue
  deferred,    \* each active object's deferred queue
  subscriber,  \* the subscriber list of the one published signal
  pc,          \* where each thread is
  cur,         \* the event an active object is dispatching
  fresh,       \* the event a thread allocated and did not send yet
  arg,         \* the event of the API call under way
  subs_list,   \* publish's local copy of the subscriber list
  to_flush,    \* how many events flushDeferred may still remove
  after,       \* where EDF_event_gc returns to
  calls,       \* calls left to the handler or the producer
  failed       \* the failed check that stopped the program, or "no"

vars == <<free, ref_cnt, e_queue, deferred, subscriber, pc, cur, fresh, arg,
          subs_list, to_flush, after, calls, failed>>

Init ==
  /\ free = Mutable
  /\ ref_cnt = [e \in Mutable |-> 0]
  /\ e_queue = [a \in AO |-> <<>>]
  /\ deferred = [a \in AO |-> <<>>]
  /\ subscriber = AO
  /\ pc = [t \in Thread |-> IF t \in AO THEN "get" ELSE "run"]
  /\ cur = [a \in AO |-> NULL]
  /\ fresh = [t \in Thread |-> NULL]
  /\ arg = [t \in Thread |-> NULL]
  /\ subs_list = [t \in Thread |-> {}]
  /\ to_flush = [a \in AO |-> 0]
  /\ after = [t \in Thread |-> "run"]
  /\ calls = [t \in Thread |-> Budget]
  /\ failed = "no"

-----------------------------------------------------------------------------
(* EAF_onError stops the program inside the critical section.              *)
Fail(why) ==
  /\ failed' = why
  /\ UNCHANGED <<free, ref_cnt, e_queue, deferred, subscriber, pc, cur, fresh,
                 arg, subs_list, to_flush, after, calls>>

(* Faulty form: the condition variable is not signalled.                   *)
BugNotified(pcs, a) == pcs

(* EDF_CORE_NOTIFY_EVENT: an event posted to the empty queue of a waiting  *)
(* active object signals its condition variable.                           *)
Notified(pcs, a) ==
  IF e_queue[a] = <<>> /\ pcs[a] = "wait" THEN [pcs EXCEPT ![a] = "get"] ELSE pcs

(* The margin that every post asserts before it takes a reference.         *)
MarginLeft(e) == e \in Mutable => ref_cnt[e] < 2 * MaxAO

AddRef(e) ==
  ref_cnt' = IF e \in Mutable THEN [ref_cnt EXCEPT ![e] = @ + 1] ELSE ref_cnt

(* The post of e to queue q of capacity cap fails, for why.                *)
PostFails(q, cap, e) ==
  \/ Len(q) = cap /\ Fail("full")
  \/ Len(q) < cap /\ ~MarginLeft(e) /\ Fail("margin")

PostSucceeds(q, cap, e) == Len(q) < cap /\ MarginLeft(e)

MayCall(t, call) ==
  /\ failed = "no" /\ pc[t] = "run"
  /\ call \in (IF t \in AO THEN AOCalls ELSE ProducerCalls)
  /\ calls[t] > 0

Called(t) == calls' = [calls EXCEPT ![t] = @ - 1]

(* What a thread may send: the event it just allocated, which it must send *)
(* once and then forget, the event it is dispatching, or a static event.   *)
MaySend(t, call, e) ==
  \/ failed = "no" /\ pc[t] = "run" /\ e = fresh[t]
  \/ MayCall(t, call) /\ e \in Static
  \/ MayCall(t, call) /\ t \in AO /\ e = cur[t]

Sent(t, e) ==
  \/ e = fresh[t] /\ fresh' = [fresh EXCEPT ![t] = NULL] /\ UNCHANGED calls
  \/ e # fresh[t] /\ Called(t) /\ UNCHANGED fresh

-----------------------------------------------------------------------------
(* EDF_activeObject_get: wait until the queue holds an event, take it. The *)
(* dispatch then runs the handler, which makes its calls.                  *)
Get(a) ==
  /\ failed = "no" /\ pc[a] = "get" /\ e_queue[a] # <<>>
  /\ cur' = [cur EXCEPT ![a] = Head(e_queue[a])]
  /\ e_queue' = [e_queue EXCEPT ![a] = Tail(@)]
  /\ pc' = [pc EXCEPT ![a] = "run"]
  /\ calls' = [calls EXCEPT ![a] = Budget]
  /\ UNCHANGED <<free, ref_cnt, deferred, subscriber, fresh, arg, subs_list,
                 to_flush, after, failed>>

Wait(a) ==
  /\ failed = "no" /\ pc[a] = "get" /\ e_queue[a] = <<>>
  /\ pc' = [pc EXCEPT ![a] = "wait"]
  /\ UNCHANGED <<free, ref_cnt, e_queue, deferred, subscriber, cur, fresh, arg,
                 subs_list, to_flush, after, calls, failed>>

(* pthread_cond_wait may return without a signal.                          *)
SpuriousWakeup(a) ==
  /\ failed = "no" /\ pc[a] = "wait"
  /\ pc' = [pc EXCEPT ![a] = "get"]
  /\ UNCHANGED <<free, ref_cnt, e_queue, deferred, subscriber, cur, fresh, arg,
                 subs_list, to_flush, after, calls, failed>>

(* The handler returns and the thread loop calls EDF_event_gc. An event    *)
(* the handler allocated must have been sent.                              *)
Return(a) ==
  /\ failed = "no" /\ pc[a] = "run" /\ fresh[a] = NULL
  /\ pc' = [pc EXCEPT ![a] = "gc"]
  /\ arg' = [arg EXCEPT ![a] = cur[a]]
  /\ cur' = [cur EXCEPT ![a] = NULL]
  /\ after' = [after EXCEPT ![a] = "get"]
  /\ UNCHANGED <<free, ref_cnt, e_queue, deferred, subscriber, fresh, subs_list,
                 to_flush, calls, failed>>

-----------------------------------------------------------------------------
(* EDF_event_initMutable takes a block from the pool; an empty pool is     *)
(* fatal.                                                                  *)
New(t) ==
  /\ MayCall(t, "new") /\ fresh[t] = NULL
  /\ \/ free = {} /\ Fail("pool")
     \/ \E e \in free :
          /\ free' = free \ {e}
          /\ ref_cnt' = [ref_cnt EXCEPT ![e] = 0]
          /\ fresh' = [fresh EXCEPT ![t] = e]
          /\ Called(t)
          /\ UNCHANGED <<e_queue, deferred, subscriber, pc, cur, arg, subs_list,
                         to_flush, after, failed>>

(* EDF_activeObject_postFIFO to the active object a.                       *)
Post(t, a, e) ==
  /\ MaySend(t, "post", e)
  /\ \/ PostFails(e_queue[a], QueueCap, e)
     \/ /\ PostSucceeds(e_queue[a], QueueCap, e)
        /\ e_queue' = [e_queue EXCEPT ![a] = Append(@, e)]
        /\ AddRef(e)
        /\ pc' = Notified(pc, a)
        /\ Sent(t, e)
        /\ UNCHANGED <<free, deferred, subscriber, cur, arg, subs_list, to_flush,
                       after, failed>>

(* Faulty form: publish takes no reference of its own.                     *)
BugPublish(t, e) ==
  /\ MaySend(t, "publish", e)
  /\ Sent(t, e)
  /\ arg' = [arg EXCEPT ![t] = e]
  /\ subs_list' = [subs_list EXCEPT ![t] = subscriber]
  /\ pc' = [pc EXCEPT ![t] = "multicast"]
  /\ UNCHANGED <<free, ref_cnt, e_queue, deferred, subscriber, cur, to_flush,
                 after, failed>>

(* EDF_activeObject_publish, up to the end of its critical section: take a *)
(* reference of its own and copy the subscriber list.                      *)
Publish(t, e) ==
  /\ MaySend(t, "publish", e)
  /\ \/ ~MarginLeft(e) /\ Fail("margin")
     \/ /\ MarginLeft(e)
        /\ AddRef(e)
        /\ Sent(t, e)
        /\ arg' = [arg EXCEPT ![t] = e]
        /\ subs_list' = [subs_list EXCEPT ![t] = subscriber]
        /\ pc' = [pc EXCEPT ![t] = "multicast"]
        /\ UNCHANGED <<free, e_queue, deferred, subscriber, cur, to_flush, after,
                       failed>>

(* The subscribers get the event one by one, in the order of findMax: this *)
(* core has no scheduler lock, so other threads run in between.            *)
Multicast(t) ==
  /\ failed = "no" /\ pc[t] = "multicast" /\ subs_list[t] # {}
  /\ LET prio == FindMax(BitmaskOf(subs_list[t], (MaxAO + 7) \div 8))
         e == arg[t]
     IN \/ PostFails(e_queue[prio], QueueCap, e)
        \/ /\ PostSucceeds(e_queue[prio], QueueCap, e)
           /\ e_queue' = [e_queue EXCEPT ![prio] = Append(@, e)]
           /\ AddRef(e)
           /\ pc' = Notified(pc, prio)
           /\ subs_list' = [subs_list EXCEPT ![t] = @ \ {prio}]
           /\ UNCHANGED <<free, deferred, subscriber, cur, fresh, arg, to_flush,
                          after, calls, failed>>

(* Faulty form: publish keeps its own reference.                           *)
BugPublishEnd(t) ==
  /\ failed = "no" /\ pc[t] = "multicast" /\ subs_list[t] = {}
  /\ pc' = [pc EXCEPT ![t] = "run"]
  /\ arg' = [arg EXCEPT ![t] = NULL]
  /\ UNCHANGED <<free, ref_cnt, e_queue, deferred, subscriber, cur, fresh,
                 subs_list, to_flush, after, calls, failed>>

(* No subscriber is left: publish drops its own reference.                 *)
PublishEnd(t) ==
  /\ failed = "no" /\ pc[t] = "multicast" /\ subs_list[t] = {}
  /\ pc' = [pc EXCEPT ![t] = "gc"]
  /\ after' = [after EXCEPT ![t] = "run"]
  /\ UNCHANGED <<free, ref_cnt, e_queue, deferred, subscriber, cur, fresh, arg,
                 subs_list, to_flush, calls, failed>>

(* EDF_activeObject_subscribe and EDF_activeObject_unsubscribe.            *)
Subscribe(a) ==
  /\ MayCall(a, "subscribe")
  /\ subscriber' = subscriber \cup {a}
  /\ Called(a)
  /\ UNCHANGED <<free, ref_cnt, e_queue, deferred, pc, cur, fresh, arg,
                 subs_list, to_flush, after, failed>>

Unsubscribe(a) ==
  /\ MayCall(a, "subscribe")
  /\ subscriber' = subscriber \ {a}
  /\ Called(a)
  /\ UNCHANGED <<free, ref_cnt, e_queue, deferred, pc, cur, fresh, arg,
                 subs_list, to_flush, after, failed>>

-----------------------------------------------------------------------------
(* EDF_activeObject_defer: the event being dispatched goes to the deferred *)
(* queue.                                                                  *)
Defer(a) ==
  /\ MayCall(a, "defer")
  /\ \/ PostFails(deferred[a], DeferCap, cur[a])
     \/ /\ PostSucceeds(deferred[a], DeferCap, cur[a])
        /\ deferred' = [deferred EXCEPT ![a] = Append(@, cur[a])]
        /\ AddRef(cur[a])
        /\ Called(a)
        /\ UNCHANGED <<free, e_queue, subscriber, pc, cur, fresh, arg, subs_list,
                       to_flush, after, failed>>

(* EDF_activeObject_recall is three critical sections: take the event from *)
(* the deferred queue, post it to the front of the active object's queue,  *)
(* and drop the deferred queue's reference. The deferred queue must not be *)
(* empty.                                                                  *)
Recall(a) ==
  /\ MayCall(a, "recall")
  /\ \/ deferred[a] = <<>> /\ Fail("empty")
     \/ /\ deferred[a] # <<>>
        /\ arg' = [arg EXCEPT ![a] = Head(deferred[a])]
        /\ deferred' = [deferred EXCEPT ![a] = Tail(@)]
        /\ pc' = [pc EXCEPT ![a] = "recall_post"]
        /\ Called(a)
        /\ UNCHANGED <<free, ref_cnt, e_queue, subscriber, cur, fresh, subs_list,
                       to_flush, after, failed>>

(* Faulty form: the recalled event keeps only the deferred queue's         *)
(* reference.                                                              *)
BugRecallPost(a) ==
  /\ failed = "no" /\ pc[a] = "recall_post"
  /\ PostSucceeds(e_queue[a], QueueCap, arg[a])
  /\ e_queue' = [e_queue EXCEPT ![a] = <<arg[a]>> \o @]
  /\ pc' = [pc EXCEPT ![a] = "recall_drop"]
  /\ UNCHANGED <<free, ref_cnt, deferred, subscriber, cur, fresh, arg, subs_list,
                 to_flush, after, calls, failed>>

RecallPost(a) ==
  /\ failed = "no" /\ pc[a] = "recall_post"
  /\ \/ PostFails(e_queue[a], QueueCap, arg[a])
     \/ /\ PostSucceeds(e_queue[a], QueueCap, arg[a])
        /\ e_queue' = [e_queue EXCEPT ![a] = <<arg[a]>> \o @]
        /\ AddRef(arg[a])
        /\ pc' = [pc EXCEPT ![a] = "recall_drop"]
        /\ UNCHANGED <<free, deferred, subscriber, cur, fresh, arg, subs_list,
                       to_flush, after, calls, failed>>

(* Faulty form: the deferred queue's reference is not dropped.             *)
BugRecallDrop(a) ==
  /\ failed = "no" /\ pc[a] = "recall_drop"
  /\ pc' = [pc EXCEPT ![a] = "run"]
  /\ arg' = [arg EXCEPT ![a] = NULL]
  /\ UNCHANGED <<free, ref_cnt, e_queue, deferred, subscriber, cur, fresh,
                 subs_list, to_flush, after, calls, failed>>

RecallDrop(a) ==
  /\ failed = "no" /\ pc[a] = "recall_drop"
  /\ IF arg[a] \in Mutable /\ ref_cnt[arg[a]] < 2 THEN Fail("ref_cnt")
     ELSE
        /\ ref_cnt' = IF arg[a] \in Mutable THEN [ref_cnt EXCEPT ![arg[a]] = @ - 1]
                                            ELSE ref_cnt
        /\ pc' = [pc EXCEPT ![a] = "run"]
        /\ arg' = [arg EXCEPT ![a] = NULL]
        /\ UNCHANGED <<free, e_queue, deferred, subscriber, cur, fresh, subs_list,
                       to_flush, after, calls, failed>>

(* EDF_activeObject_flushDeferred(num): up to num times, take an event     *)
(* from the deferred queue and recycle it.                                 *)
FlushDeferred(a) ==
  /\ MayCall(a, "flush")
  /\ \E num \in 1 .. DeferCap : to_flush' = [to_flush EXCEPT ![a] = num]
  /\ pc' = [pc EXCEPT ![a] = "flush"]
  /\ Called(a)
  /\ UNCHANGED <<free, ref_cnt, e_queue, deferred, subscriber, cur, fresh, arg,
                 subs_list, after, failed>>

FlushNext(a) ==
  /\ failed = "no" /\ pc[a] = "flush"
  /\ to_flush[a] > 0 /\ deferred[a] # <<>>
  /\ to_flush' = [to_flush EXCEPT ![a] = @ - 1]
  /\ arg' = [arg EXCEPT ![a] = Head(deferred[a])]
  /\ deferred' = [deferred EXCEPT ![a] = Tail(@)]
  /\ pc' = [pc EXCEPT ![a] = "gc"]
  /\ after' = [after EXCEPT ![a] = "flush"]
  /\ UNCHANGED <<free, ref_cnt, e_queue, subscriber, cur, fresh, subs_list,
                 calls, failed>>

FlushEnd(a) ==
  /\ failed = "no" /\ pc[a] = "flush"
  /\ to_flush[a] = 0 \/ deferred[a] = <<>>
  /\ to_flush' = [to_flush EXCEPT ![a] = 0]
  /\ pc' = [pc EXCEPT ![a] = "run"]
  /\ UNCHANGED <<free, ref_cnt, e_queue, deferred, subscriber, cur, fresh, arg,
                 subs_list, after, calls, failed>>

-----------------------------------------------------------------------------
(* Faulty form: the last reference is found one too early.                 *)
BugNextToLastReference(e) == e \in Mutable /\ ref_cnt[e] <= 2

(* EDF_event_gc: drop one reference, or, when it is the last one, leave    *)
(* the critical section and release the block in a critical section of the *)
(* pool's own.                                                             *)
LastReference(e) == e \in Mutable /\ ref_cnt[e] <= 1

GcDrop(t) ==
  /\ failed = "no" /\ pc[t] = "gc"
  /\ ~LastReference(arg[t])
  /\ ref_cnt' = IF arg[t] \in Mutable THEN [ref_cnt EXCEPT ![arg[t]] = @ - 1]
                                      ELSE ref_cnt
  /\ pc' = [pc EXCEPT ![t] = after[t]]
  /\ arg' = [arg EXCEPT ![t] = NULL]
  /\ UNCHANGED <<free, e_queue, deferred, subscriber, cur, fresh, subs_list,
                 to_flush, after, calls, failed>>

GcLast(t) ==
  /\ failed = "no" /\ pc[t] = "gc"
  /\ LastReference(arg[t])
  /\ pc' = [pc EXCEPT ![t] = "release"]
  /\ UNCHANGED <<free, ref_cnt, e_queue, deferred, subscriber, cur, fresh, arg,
                 subs_list, to_flush, after, calls, failed>>

Release(t) ==
  /\ failed = "no" /\ pc[t] = "release"
  /\ IF free = Mutable THEN Fail("release")
     ELSE
        /\ free' = free \cup {arg[t]}
        /\ pc' = [pc EXCEPT ![t] = after[t]]
        /\ arg' = [arg EXCEPT ![t] = NULL]
        /\ UNCHANGED <<ref_cnt, e_queue, deferred, subscriber, cur, fresh,
                       subs_list, to_flush, after, calls, failed>>

-----------------------------------------------------------------------------
(* A step of the thread's own code, and a call of its handler.             *)
Proceed(t) ==
  \/ Multicast(t) \/ PublishEnd(t)
  \/ GcDrop(t) \/ GcLast(t) \/ Release(t)

AOProceeds(a) ==
  \/ Get(a) \/ Wait(a) \/ Return(a)
  \/ RecallPost(a) \/ RecallDrop(a)
  \/ FlushNext(a) \/ FlushEnd(a)

Call(t) == New(t) \/ \E e \in Event : Publish(t, e) \/ \E a \in AO : Post(t, a, e)

AOCall(a) ==
  \/ Subscribe(a) \/ Unsubscribe(a)
  \/ Defer(a) \/ Recall(a) \/ FlushDeferred(a)

Stopped == failed # "no" /\ UNCHANGED vars

Next ==
  \/ \E t \in Thread : Proceed(t) \/ Call(t)
  \/ \E a \in AO : AOProceeds(a) \/ AOCall(a) \/ SpuriousWakeup(a)
  \/ Stopped

Spec == Init /\ [][Next]_vars

(* Every thread runs: an active object's thread never stays at a step it   *)
(* can take, a producer finishes the calls it began, and who allocated an  *)
(* event sends it.                                                         *)
FairSpec ==
  /\ Spec
  /\ \A a \in AO : WF_vars(AOProceeds(a))
  /\ \A t \in Thread : WF_vars(Proceed(t)) /\ WF_vars(fresh[t] # NULL /\ Call(t))

-----------------------------------------------------------------------------
(* The places of a thread, and the checks that stop the program.           *)
Place == {"run", "get", "wait", "multicast", "recall_post", "recall_drop",
          "flush", "gc", "release"}
Check == {"pool", "full", "margin", "empty", "ref_cnt", "release"}

(* Every variable holds a value of its type; the 8-bit counter of a block  *)
(* never exceeds the margin that the posts and publish assert.             *)
TypeOK ==
  /\ free \subseteq Mutable
  /\ ref_cnt \in [Mutable -> 0 .. 2 * MaxAO]
  /\ e_queue \in [AO -> Seq(Event)]
  /\ deferred \in [AO -> Seq(Event)]
  /\ subscriber \subseteq AO
  /\ pc \in [Thread -> Place]
  /\ cur \in [AO -> Event \cup {NULL}]
  /\ fresh \in [Thread -> Mutable \cup {NULL}]
  /\ arg \in [Thread -> Event \cup {NULL}]
  /\ subs_list \in [Thread -> SUBSET AO]
  /\ to_flush \in [AO -> 0 .. DeferCap]
  /\ after \in [Thread -> {"run", "get", "flush"}]
  /\ calls \in [Thread -> 0 .. Budget]
  /\ failed \in Check \cup {"no"}

(* The references to e: its places in the queues, the dispatches of it and *)
(* the API calls that work on it.                                          *)
Queued(e) == {r \in AO \X (1 .. QueueCap) :
                r[2] \in DOMAIN e_queue[r[1]] /\ e_queue[r[1]][r[2]] = e}
Deferred(e) == {r \in AO \X (1 .. DeferCap) :
                  r[2] \in DOMAIN deferred[r[1]] /\ deferred[r[1]][r[2]] = e}
Dispatching(e) == {a \in AO : cur[a] = e}
Handling(e) == {t \in Thread : arg[t] = e}
Allocating(e) == {t \in Thread : fresh[t] = e}

References(e) ==
  Cardinality(Queued(e)) + Cardinality(Deferred(e))
    + Cardinality(Dispatching(e)) + Cardinality(Handling(e))

(* Across every interleaving of publishing, posting, deferring, recalling, *)
(* flushing and recycling threads, the counter of a live event is exactly  *)
(* the number of references to it (the increments in postFIFO, postLIFO,   *)
(* publish and the queues; the decrements in EDF_event_gc and recall).     *)
RefCountExact == TypeOK /\ \A e \in Mutable \ free : ref_cnt[e] = References(e)

(* A block in the free list is reachable from nowhere, so no thread uses   *)
(* an event after EDF_pool_release and none is released twice; a block     *)
(* that is not there is referenced, or still its allocator's and then      *)
(* nobody else's, so no sequence of calls leaks one.                       *)
NoUseAfterFree ==
  /\ \A e \in free : References(e) = 0 /\ Allocating(e) = {}
  /\ \A e \in Mutable \ free :
       IF References(e) > 0 THEN Allocating(e) = {}
       ELSE Cardinality(Allocating(e)) = 1

(* EDF_event_gc decides in one critical section that its reference is the  *)
(* last one and releases the block in another: in between, no other thread *)
(* gets hold of the event.                                                 *)
ReleaseIsLast ==
  \A t \in Thread : pc[t] = "release" => References(arg[t]) = 1

(* An active object never sleeps on its condition variable while its queue *)
(* holds an event: a post to an empty queue signals, and the posts to a    *)
(* queue that is not empty, which do not, find its thread awake.           *)
NoLostWakeup == \A a \in AO : pc[a] = "wait" => e_queue[a] = <<>>

(* The assertion of recall (ref_cnt >= 2) and that of EDF_pool_release     *)
(* (the pool is not full) never fire.                                      *)
NoInternalFailure == failed \notin {"ref_cnt", "release"}

(* Every event in an active object's queue is eventually dispatched by it, *)
(* unless a failed check stops the program.                                *)
QueuedIsDispatched ==
  \A a \in AO, e \in Event :
    (\E i \in DOMAIN e_queue[a] : e_queue[a][i] = e)
      ~> (cur[a] = e \/ failed # "no")

(* Every allocated event is eventually back in the pool, unless a handler  *)
(* deferred it or the program stopped.                                     *)
EventuallyRecycled ==
  \A e \in Mutable :
    e \notin free ~> (e \in free \/ Deferred(e) # {} \/ failed # "no")
=============================================================================
