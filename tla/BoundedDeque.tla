---------------------------- MODULE BoundedDeque ----------------------------
(***************************************************************************)
(* What an event queue promises its clients: a bounded double-ended queue. *)
(* Posting FIFO adds at the back, posting LIFO adds at the front, a get    *)
(* always takes the front, and a post to a full queue is a fatal error.    *)
(* EventQueue.tla, the ring buffer of edf_event_queue.c, implements it.    *)
(***************************************************************************)
EXTENDS Integers, Sequences

CONSTANTS
  Event,     \* the events that can be queued
  NULL,      \* what a get of an empty queue returns
  Capacity   \* how many events the queue holds

VARIABLES
  items,     \* the queued events, the next one to be taken first
  low,       \* the smallest number of free entries there ever was
  taken,     \* what the last get returned
  overrun    \* a post found the queue full: the program has stopped

vars == <<items, low, taken, overrun>>

Init ==
  /\ items = <<>>
  /\ low = Capacity
  /\ taken = NULL
  /\ overrun = FALSE

(* The queue takes the contents s, which the low-water mark must notice.   *)
Becomes(s) ==
  /\ items' = s
  /\ low' = IF Capacity - Len(s) < low THEN Capacity - Len(s) ELSE low

PushBack(e) ==
  /\ ~overrun /\ Len(items) < Capacity
  /\ Becomes(Append(items, e))
  /\ UNCHANGED <<taken, overrun>>

PushFront(e) ==
  /\ ~overrun /\ Len(items) < Capacity
  /\ Becomes(<<e>> \o items)
  /\ UNCHANGED <<taken, overrun>>

PopFront ==
  /\ ~overrun /\ items # <<>>
  /\ taken' = Head(items)
  /\ items' = Tail(items)
  /\ UNCHANGED <<low, overrun>>

PopEmpty ==
  /\ ~overrun /\ items = <<>>
  /\ taken' = NULL
  /\ UNCHANGED <<items, low, overrun>>

Overrun ==
  /\ ~overrun /\ Len(items) = Capacity
  /\ overrun' = TRUE
  /\ UNCHANGED <<items, low, taken>>

Next ==
  \/ \E e \in Event : PushBack(e) \/ PushFront(e)
  \/ PopFront
  \/ PopEmpty
  \/ Overrun

Spec == Init /\ [][Next]_vars
=============================================================================
