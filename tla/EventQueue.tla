----------------------------- MODULE EventQueue -----------------------------
(***************************************************************************)
(* The event queue of edf_event_queue.c: one event in front_e and the      *)
(* others in a ring buffer that is filled at head and emptied at tail,     *)
(* both indices moving counter-clockwise. The same representation is used  *)
(* by the active objects' own queues (EDF_activeObject_postFIFO, postLIFO  *)
(* and get repeat this code and add the notification of the scheduler).    *)
(* Every operation is one critical section, hence one action.              *)
(***************************************************************************)
EXTENDS Integers, Sequences

CONSTANTS
  Event,   \* the events (pointers) a client may post
  NULL,    \* the null pointer
  QLen,    \* q_len, the length of the ring: the queue also holds front_e
  CntMod   \* one more than the largest EDF_eventQueue_cnt_t: 2^8 or 2^16

(* q_len is itself an EDF_eventQueue_cnt_t.                                *)
ASSUME QueueAssumption ==
  /\ NULL \notin Event
  /\ CntMod \in Nat \ {0, 1}
  /\ QLen \in 0 .. CntMod - 1

VARIABLES
  front_e,   \* the event at the front, NULL when the queue is empty
  ring,      \* the ring buffer
  head,      \* where the next FIFO post is stored
  tail,      \* where the next event is taken from
  n_free,    \* number of free entries
  n_min,     \* minimum of n_free so far
  got,       \* what the last EDF_eventQueue_get returned
  failed     \* the failed check that stopped the program, or "no"

vars == <<front_e, ring, head, tail, n_free, n_min, got, failed>>

Slots == 0 .. QLen - 1
Cnt == 0 .. CntMod - 1

-----------------------------------------------------------------------------
(* Faulty forms of two definitions below: with one of them in place of the *)
(* real one, TLC finds a property of this module violated.                 *)

(* The head moves before the event is stored.                              *)
BugPostFIFO(e) ==
  /\ failed = "no" /\ n_free > 0
  /\ n_free' = n_free - 1
  /\ n_min' = IF n_min > n_free - 1 THEN n_free - 1 ELSE n_min
  /\ \/ /\ front_e = NULL
        /\ front_e' = e
        /\ UNCHANGED <<ring, head>>
     \/ /\ front_e # NULL
        /\ head' = (IF head = 0 THEN QLen ELSE head) - 1
        /\ ring' = [ring EXCEPT ![head'] = e]
        /\ UNCHANGED front_e
  /\ UNCHANGED <<tail, got, failed>>

(* The old front is stored before the tail moves.                          *)
BugPostLIFO(e) ==
  /\ failed = "no" /\ n_free > 0
  /\ n_free' = n_free - 1
  /\ n_min' = IF n_min > n_free - 1 THEN n_free - 1 ELSE n_min
  /\ front_e' = e
  /\ \/ /\ front_e = NULL
        /\ UNCHANGED <<ring, tail>>
     \/ /\ front_e # NULL
        /\ tail' = (IF tail + 1 = QLen THEN 0 ELSE tail + 1)
        /\ ring' = [ring EXCEPT ![tail] = front_e]
  /\ UNCHANGED <<head, got, failed>>

-----------------------------------------------------------------------------
(* EDF_eventQueue_init. The ring is the caller's storage: nothing clears it. *)
Init ==
  /\ front_e = NULL
  /\ ring \in [Slots -> Event \cup {NULL}]
  /\ head = 0
  /\ tail = 0
  /\ n_free = (QLen + 1) % CntMod
  /\ n_min = n_free
  /\ got = NULL
  /\ failed = "no"

(* The index one step counter-clockwise, and one step clockwise.           *)
StepBack(i) == (IF i = 0 THEN QLen ELSE i) - 1
StepForward(i) == IF i + 1 = QLen THEN 0 ELSE i + 1

(* Both posts take a free entry and update the minimum.                    *)
TakeEntry ==
  /\ n_free' = n_free - 1
  /\ n_min' = IF n_min > n_free - 1 THEN n_free - 1 ELSE n_min

PostFIFO(e) ==
  /\ failed = "no" /\ n_free > 0
  /\ TakeEntry
  /\ \/ /\ front_e = NULL
        /\ front_e' = e
        /\ UNCHANGED <<ring, head>>
     \/ /\ front_e # NULL
        /\ ring' = [ring EXCEPT ![head] = e]
        /\ head' = StepBack(head)
        /\ UNCHANGED front_e
  /\ UNCHANGED <<tail, got, failed>>

PostLIFO(e) ==
  /\ failed = "no" /\ n_free > 0
  /\ TakeEntry
  /\ front_e' = e
  /\ \/ /\ front_e = NULL
        /\ UNCHANGED <<ring, tail>>
     \/ /\ front_e # NULL
        /\ tail' = StepForward(tail)
        /\ ring' = [ring EXCEPT ![tail'] = front_e]
  /\ UNCHANGED <<head, got, failed>>

(* EAF_ERROR: a post to a full queue is never tolerated.                   *)
PostFull ==
  /\ failed = "no" /\ n_free = 0
  /\ failed' = "full"
  /\ UNCHANGED <<front_e, ring, head, tail, n_free, n_min, got>>

(* The get of a non-empty queue refills front_e from the ring if the ring  *)
(* holds anything; the two assertions of the code stop the program.        *)
GetFront ==
  /\ failed = "no" /\ front_e # NULL
  /\ n_free' = (n_free + 1) % CntMod
  /\ \/ /\ n_free' <= QLen
        /\ IF ring[tail] = NULL
           THEN /\ failed' = "assert"
                /\ UNCHANGED <<front_e, tail, got>>
           ELSE /\ front_e' = ring[tail]
                /\ tail' = StepBack(tail)
                /\ got' = front_e
                /\ UNCHANGED failed
     \/ /\ n_free' > QLen
        /\ front_e' = NULL
        /\ UNCHANGED tail
        /\ IF n_free' # QLen + 1
           THEN /\ failed' = "assert"
                /\ UNCHANGED got
           ELSE /\ got' = front_e
                /\ UNCHANGED failed
  /\ UNCHANGED <<ring, head, n_min>>

GetEmpty ==
  /\ failed = "no" /\ front_e = NULL
  /\ got' = NULL
  /\ UNCHANGED <<front_e, ring, head, tail, n_free, n_min, failed>>

(* The default EAF_onError never returns.                                  *)
Stopped ==
  /\ failed # "no"
  /\ UNCHANGED vars

Next ==
  \/ \E e \in Event : PostFIFO(e)
  \/ \E e \in Event : PostLIFO(e)
  \/ PostFull
  \/ GetFront
  \/ GetEmpty
  \/ Stopped

Spec == Init /\ [][Next]_vars

-----------------------------------------------------------------------------
(* EDF_eventQueue_getNumOccupied, and the events in the order in which     *)
(* gets will return them.                                                  *)
NumOccupied == (QLen + 1 - n_free) % CntMod

(* The slot k places behind the tail.                                      *)
SlotBehind(k) == IF k <= tail THEN tail - k ELSE tail - k + QLen

Contents ==
  [i \in 1 .. NumOccupied |->
     IF i = 1 THEN front_e ELSE ring[SlotBehind(i - 2)]]

-----------------------------------------------------------------------------
(* Every variable holds a value of its type; the indices stay in the ring. *)
TypeOK ==
  /\ front_e \in Event \cup {NULL}
  /\ ring \in [Slots -> Event \cup {NULL}]
  /\ head \in Slots \cup {0}
  /\ tail \in Slots \cup {0}
  /\ n_free \in 0 .. QLen + 1
  /\ n_min \in 0 .. n_free
  /\ got \in Event \cup {NULL}
  /\ failed \in {"no", "full", "assert"}

(* Whatever mix of posts at both ends and gets a client makes, the indices *)
(* and the counter describe one gapless run of live slots: front_e is NULL *)
(* exactly when every entry is free, head lies as many slots behind tail   *)
(* as there are events in the ring, and no live slot holds NULL            *)
(* (edf_event_queue.c, all of postFIFO, postLIFO and get).                 *)
RingConsistent ==
  /\ front_e = NULL <=> n_free = QLen + 1
  /\ head = IF front_e = NULL THEN tail ELSE SlotBehind(QLen - n_free)
  /\ \A k \in 0 .. QLen - n_free - 1 : ring[SlotBehind(k)] \in Event

(* The two assertions inside EDF_eventQueue_get (lines 240 and 255) never  *)
(* fire: the only way a queue stops the program is an overrun.             *)
NoAssertFails == failed # "assert"

(* The ring buffer implements the bounded double-ended queue.              *)
Deque == INSTANCE BoundedDeque WITH
  Capacity <- QLen + 1,
  items    <- Contents,
  low      <- n_min,
  taken    <- got,
  overrun  <- (failed = "full")

ImplementsDeque == Deque!Spec
=============================================================================
