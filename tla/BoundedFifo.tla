---------------------------- MODULE BoundedFifo ----------------------------
(***************************************************************************)
(* What a FIFO promises: it keeps all of what is pushed, behind what it    *)
(* holds, hands out exactly as many items as asked for, in the order they  *)
(* came in, and refuses a request just when it exceeds what is free or     *)
(* used. ByteFifo, ArrayFifo and the transmit buffer of Stdio implement    *)
(* it; they record in call what each operation was called with.            *)
(***************************************************************************)
EXTENDS Integers, Sequences

CONSTANT Item

VARIABLES
  capacity,
  items,     \* the oldest first
  call,      \* the last operation with its arguments
  out,       \* what the last operation that reads returned
  refused    \* whether the last operation was refused

fifo_vars == <<capacity, items, call, out, refused>>

Init == items = <<>> /\ call = [op |-> "init"] /\ out = <<>> /\ refused = FALSE

Free == capacity - Len(items)

(* A request that can be met is met as a whole, any other changes nothing. *)
Answer(possible, kept, read) ==
  \/ possible /\ items' = kept /\ out' = read /\ refused' = FALSE
  \/ ~possible /\ UNCHANGED <<items, out>> /\ refused' = TRUE

Behind(n) == SubSeq(items, n + 1, Len(items))

Push(data) == data \in Seq(Item) /\ Answer(Len(data) <= Free, items \o data, out)
Pop(n) == Answer(n <= Len(items), Behind(n), SubSeq(items, 1, n))
Peek(offset, n) ==
  Answer(offset + n <= Len(items), items, SubSeq(items, offset + 1, offset + n))
Drop(n) == Answer(n <= Len(items), Behind(n), out)
Flush == Answer(TRUE, <<>>, out)

Next ==
  /\ UNCHANGED capacity
  /\ \/ call'.op = "push" /\ Push(call'.data)
     \/ call'.op = "pop" /\ Pop(call'.len)
     \/ call'.op = "peek" /\ Peek(call'.offset, call'.len)
     \/ call'.op = "drop" /\ Drop(call'.len)
     \/ call'.op = "flush" /\ Flush

Spec == Init /\ [][Next]_fifo_vars
=============================================================================
