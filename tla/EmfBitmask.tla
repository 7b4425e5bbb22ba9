----------------------------- MODULE EmfBitmask -----------------------------
(***************************************************************************)
(* The bitmask of emf_bitmask.c, used for the set of ready active objects  *)
(* and for the subscribers of a signal. A bitmask is an array of bytes, a  *)
(* byte the set of its bits that are 1; bit positions are counted from 1.  *)
(***************************************************************************)
EXTENDS Integers, FiniteSets, FiniteSetsExt

Bit == 0 .. 7
Bytes(len) == [0 .. len - 1 -> SUBSET Bit]

ByteOf(pos) == (pos - 1) \div 8
BitOf(pos) == (pos - 1) % 8

ClearAll(bitmask) == [i \in DOMAIN bitmask |-> {}]
IsAnySet(bitmask) == \E i \in DOMAIN bitmask : bitmask[i] # {}
IsBitSet(bitmask, pos) == BitOf(pos) \in bitmask[ByteOf(pos)]
SetBit(bitmask, pos) == [bitmask EXCEPT ![ByteOf(pos)] = @ \cup {BitOf(pos)}]
ClearBit(bitmask, pos) == [bitmask EXCEPT ![ByteOf(pos)] = @ \ {BitOf(pos)}]

(* EBF_utils_log2: the 1-based position of the leading bit of a byte.      *)
Log2(byte) == Max(byte) + 1

NonEmpty(bitmask) == {i \in DOMAIN bitmask : bitmask[i] # {}}

(* Faulty form: the trailing bit of the byte.                              *)
BugFindMax(bitmask) ==
  IF NonEmpty(bitmask) = {} THEN 0
  ELSE LET i == Min(NonEmpty(bitmask)) IN Min(bitmask[i]) + 1 + 8 * i

(* The loop visits the bytes from the last to the first, and every         *)
(* non-empty byte overwrites what the bytes after it gave.                 *)
FindMax(bitmask) ==
  IF NonEmpty(bitmask) = {} THEN 0
  ELSE LET i == Min(NonEmpty(bitmask)) IN Log2(bitmask[i]) + 8 * i

(* The bitmask in which exactly the positions of a set are set.            *)
BitmaskOf(set, len) ==
  [i \in 0 .. len - 1 |-> {b \in Bit : 8 * i + b + 1 \in set}]
=============================================================================
