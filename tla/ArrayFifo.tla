------------------------------ MODULE ArrayFifo ------------------------------
(***************************************************************************)
(* The FIFO of slots of emf_array_fifo.c: a ring of n_slots slots of       *)
(* slot_size bytes in one array, with two indices and, in place of a       *)
(* count, a flag that tells a full ring from an empty one.                 *)
(***************************************************************************)
EXTENDS Integers, Sequences

CONSTANTS
  Content,    \* a few bytes
  Garbage,    \* what the storage holds before it is written
  SlotCounts, \* the numbers of slots that the application may choose
  SlotSize    \* slot_size

ASSUME ArrayFifoAssumption ==
  SlotCounts \subseteq Nat \ {0} /\ SlotSize \in Nat \ {0}

VARIABLES n_slots, array, a_head, a_tail, full,
  a_out,      \* what the last pop or peek copied
  a_call,     \* ghost: the last operation; each is about one slot
  a_refused   \* whether its assertion failed

a_vars == <<n_slots, array, a_head, a_tail, full, a_out, a_call, a_refused>>

(* EMF_arrayFifo_init.                                                     *)
ArrayInit ==
  /\ n_slots \in SlotCounts
  /\ array = [i \in 0 .. n_slots * SlotSize - 1 |-> Garbage]
  /\ a_head = 0 /\ a_tail = 0 /\ full = FALSE
  /\ a_out = <<>> /\ a_call = [op |-> "init"] /\ a_refused = FALSE

NextSlot(idx) == (idx + 1) % n_slots

ReadSlot(slot_idx) == [i \in 1 .. SlotSize |-> array[(slot_idx * SlotSize) + i - 1]]
WriteSlot(slot_idx, data) ==
  [k \in DOMAIN array |->
     IF k \div SlotSize = slot_idx THEN data[(k % SlotSize) + 1] ELSE array[k]]

IsEmpty == ~full /\ a_head = a_tail

NumUsed ==
  IF full THEN n_slots
  ELSE IF a_head >= a_tail THEN a_head - a_tail
  ELSE n_slots - (a_tail - a_head)

ARefuse == a_refused' = TRUE /\ UNCHANGED <<n_slots, array, a_head, a_tail, full, a_out>>

(* Faulty form: the push that fills the ring does not mark it as full.     *)
BugArrayPush(data) ==
  /\ a_call' = [op |-> "push", data |-> <<data>>]
  /\ \/ full /\ ARefuse
     \/ /\ ~full
        /\ array' = WriteSlot(a_head, data)
        /\ a_head' = NextSlot(a_head)
        /\ UNCHANGED <<n_slots, a_tail, full, a_out, a_refused>>

ArrayPush(data) ==
  /\ a_call' = [op |-> "push", data |-> <<data>>]
  /\ \/ full /\ ARefuse
     \/ /\ ~full
        /\ array' = WriteSlot(a_head, data)
        /\ a_head' = NextSlot(a_head)
        /\ full' = (NextSlot(a_head) = a_tail)
        /\ UNCHANGED <<n_slots, a_tail, a_out, a_refused>>

ReleaseSlot ==
  /\ a_tail' = NextSlot(a_tail) /\ full' = FALSE
  /\ UNCHANGED <<n_slots, array, a_head, a_refused>>

ArrayPop ==
  /\ a_call' = [op |-> "pop", len |-> 1]
  /\ \/ IsEmpty /\ ARefuse
     \/ ~IsEmpty /\ a_out' = <<ReadSlot(a_tail)>> /\ ReleaseSlot

ArrayPeek ==
  /\ a_call' = [op |-> "peek", offset |-> 0, len |-> 1]
  /\ \/ IsEmpty /\ ARefuse
     \/ /\ ~IsEmpty /\ a_out' = <<ReadSlot(a_tail)>>
        /\ UNCHANGED <<n_slots, array, a_head, a_tail, full, a_refused>>

ArrayDrop ==
  /\ a_call' = [op |-> "drop", len |-> 1]
  /\ \/ IsEmpty /\ ARefuse
     \/ ~IsEmpty /\ ReleaseSlot /\ UNCHANGED a_out

ArrayFlush ==
  /\ a_call' = [op |-> "flush"]
  /\ a_head' = 0 /\ a_tail' = 0 /\ full' = FALSE
  /\ UNCHANGED <<n_slots, array, a_out, a_refused>>

ArrayStopped == a_refused /\ UNCHANGED a_vars

ArrayCall ==
  /\ ~a_refused
  /\ \/ \E data \in [1 .. SlotSize -> Content] : ArrayPush(data)
     \/ ArrayPop \/ ArrayPeek \/ ArrayDrop \/ ArrayFlush

ArrayNext == ArrayCall \/ ArrayStopped

ArraySpec == ArrayInit /\ [][ArrayNext]_a_vars

-----------------------------------------------------------------------------
(* The FIFO implements BoundedFifo for any number of slots, one included:  *)
(* the flag and the indices always tell full from empty, so that a slot is *)
(* refused just when all are used, or none is, and one that was pushed is  *)
(* there until it is popped, dropped or flushed; getUsed agrees with what  *)
(* is in it, and slots do not overlap (emf_array_fifo.c).                  *)
ArrayFifoSpec == INSTANCE BoundedFifo WITH
  Item <- [1 .. SlotSize -> Content], capacity <- n_slots,
  items <- [i \in 1 .. NumUsed |-> ReadSlot((a_tail + i - 1) % n_slots)],
  call <- a_call, out <- a_out, refused <- a_refused
ImplementsArrayFifo == ArrayFifoSpec!Spec
=============================================================================
