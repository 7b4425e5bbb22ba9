------------------------------ MODULE ByteFifo ------------------------------
(***************************************************************************)
(* The FIFO of bytes of emf_byte_fifo.c: a ring with a write index, a read *)
(* index and a count, to which any number of bytes is pushed at once.      *)
(***************************************************************************)
EXTENDS Integers, Sequences

CONSTANTS
  Byte,       \* a few bytes
  Sizes,      \* the storage sizes that the application may choose
  IndexMod,   \* one more than the largest uint32_t
  Unwritten   \* what the storage holds before it is written

(* Index plus length must stay in the type: a storage of more than half    *)
(* the range of its index would be corrupted by the sum in advanceIndex.   *)
ASSUME ByteFifoAssumption ==
  /\ IndexMod \in Nat \ {0} /\ Sizes \subseteq 1 .. IndexMod \div 2
  /\ Unwritten \notin Byte

VARIABLES size, storage, b_head, b_tail, used,
  b_out,      \* the output buffer of the last operation that filled one
  b_call,     \* ghost: the last operation and its arguments
  b_refused   \* whether its assertion failed

b_vars == <<size, storage, b_head, b_tail, used, b_out, b_call, b_refused>>

(* EMF_byteFifo_init.                                                      *)
ByteInit ==
  /\ size \in Sizes
  /\ storage = [i \in 0 .. size - 1 |-> Unwritten]
  /\ b_head = 0 /\ b_tail = 0 /\ used = 0
  /\ b_out = <<>> /\ b_call = [op |-> "init"] /\ b_refused = FALSE

(* Faulty form: the sum is cut to the size instead of wrapped.             *)
BugAdvanceIndex(idx, offset) ==
  LET sum == (idx + offset) % IndexMod IN IF sum >= size THEN 0 ELSE sum
AdvanceIndex(idx, offset) ==
  LET sum == (idx + offset) % IndexMod IN IF sum >= size THEN sum % size ELSE sum

(* The indices that the loops of readBytes and writeBytes pass, from start. *)
Passed(start, len) == [i \in 1 .. len |-> (start + i - 1) % size]

ReadBytes(start, len) == [i \in 1 .. len |-> storage[Passed(start, len)[i]]]
WriteBytes(start, data) ==
  [k \in DOMAIN storage |->
     IF \E i \in DOMAIN data : Passed(start, Len(data))[i] = k
     THEN data[CHOOSE i \in DOMAIN data : Passed(start, Len(data))[i] = k]
     ELSE storage[k]]

GetUsed == used
GetFree == size - used

(* An assertion on the arguments stops the program.                        *)
BRefuse == b_refused' = TRUE /\ UNCHANGED <<size, storage, b_head, b_tail, used, b_out>>

BytePush(data) ==
  /\ b_call' = [op |-> "push", data |-> data]
  /\ \/ Len(data) > GetFree /\ BRefuse
     \/ /\ Len(data) <= GetFree
        /\ storage' = WriteBytes(b_head, data)
        /\ b_head' = AdvanceIndex(b_head, Len(data))
        /\ used' = used + Len(data)
        /\ UNCHANGED <<size, b_tail, b_out, b_refused>>

Consume(len) ==
  /\ b_tail' = AdvanceIndex(b_tail, len)
  /\ used' = used - len
  /\ UNCHANGED <<size, storage, b_head, b_refused>>

BytePop(len) ==
  /\ b_call' = [op |-> "pop", len |-> len]
  /\ \/ len > GetUsed /\ BRefuse
     \/ len <= GetUsed /\ b_out' = ReadBytes(b_tail, len) /\ Consume(len)

(* peek is peekAt with offset 0.                                           *)
BytePeekAt(offset, len) ==
  /\ b_call' = [op |-> "peek", offset |-> offset, len |-> len]
  /\ \/ offset + len > GetUsed /\ BRefuse
     \/ /\ offset + len <= GetUsed
        /\ b_out' = ReadBytes(AdvanceIndex(b_tail, offset), len)
        /\ UNCHANGED <<size, storage, b_head, b_tail, used, b_refused>>

ByteDrop(len) ==
  /\ b_call' = [op |-> "drop", len |-> len]
  /\ \/ len > GetUsed /\ BRefuse
     \/ len <= GetUsed /\ Consume(len) /\ UNCHANGED b_out

ByteFlush ==
  /\ b_call' = [op |-> "flush"]
  /\ b_head' = 0 /\ b_tail' = 0 /\ used' = 0
  /\ UNCHANGED <<size, storage, b_out, b_refused>>

ByteStopped == b_refused /\ UNCHANGED b_vars

ByteCall ==
  /\ ~b_refused
  /\ \/ \E n \in 0 .. size + 1 : \E data \in [1 .. n -> Byte] : BytePush(data)
     \/ \E n \in 0 .. size + 1 : BytePop(n) \/ ByteDrop(n)
     \/ \E offset, n \in 0 .. size : BytePeekAt(offset, n)
     \/ ByteFlush

ByteNext == ByteCall \/ ByteStopped

ByteSpec == ByteInit /\ [][ByteNext]_b_vars

-----------------------------------------------------------------------------
(* The FIFO implements BoundedFifo: whatever the storage size and the      *)
(* order of calls, a push adds all of its bytes behind the others, pops    *)
(* and peeks return the bytes that they ask for in the order in which they *)
(* went in, however the copies wrap, and an assertion fails just for a     *)
(* request that exceeds what is free or used (emf_byte_fifo.c).            *)
ByteFifoSpec == INSTANCE BoundedFifo WITH
  Item <- Byte, capacity <- size,
  items <- ReadBytes(b_tail, used), call <- b_call, out <- b_out, refused <- b_refused
ImplementsByteFifo == ByteFifoSpec!Spec
=============================================================================
