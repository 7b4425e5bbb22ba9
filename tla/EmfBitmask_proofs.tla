-------------------------- MODULE EmfBitmask_proofs --------------------------
(***************************************************************************)
(* What the operations of the bitmask do, for a bitmask of any length.     *)
(***************************************************************************)
EXTENDS EmfBitmask, WellFoundedInduction, TLAPS

Positions(len) == 1 .. 8 * len

(* A position is a byte and a bit, and no two positions are the same.      *)
LEMMA PositionIsByteAndBit ==
  ASSUME NEW len \in Nat, NEW p \in Positions(len), NEW q \in Positions(len)
  PROVE  /\ ByteOf(p) \in 0 .. len - 1 /\ BitOf(p) \in Bit
         /\ ByteOf(p) = ByteOf(q) /\ BitOf(p) = BitOf(q) => p = q
  BY DEF Positions, ByteOf, BitOf, Bit

LEMMA ByteAndBitArePosition ==
  ASSUME NEW len \in Nat, NEW i \in 0 .. len - 1, NEW b \in Bit
  PROVE  /\ b + 1 + 8 * i \in Positions(len)
         /\ ByteOf(b + 1 + 8 * i) = i /\ BitOf(b + 1 + 8 * i) = b
  BY DEF Positions, ByteOf, BitOf, Bit

LEMMA ClearAllClears ==
  ASSUME NEW len \in Nat, NEW bitmask \in Bytes(len)
  PROVE  /\ ClearAll(bitmask) \in Bytes(len)
         /\ \A q \in Positions(len) : ~IsBitSet(ClearAll(bitmask), q)
  <1>1. ClearAll(bitmask) \in Bytes(len)
    BY DEF ClearAll, Bytes
  <1>2. ASSUME NEW q \in Positions(len) PROVE ~IsBitSet(ClearAll(bitmask), q)
    BY PositionIsByteAndBit DEF ClearAll, Bytes, IsBitSet
  <1> QED BY <1>1, <1>2

(* EMF_bitmask_setBit sets its bit and leaves the others alone.            *)
LEMMA SetBitSets ==
  ASSUME NEW len \in Nat, NEW bitmask \in Bytes(len),
         NEW p \in Positions(len), NEW q \in Positions(len)
  PROVE  /\ SetBit(bitmask, p) \in Bytes(len)
         /\ IsBitSet(SetBit(bitmask, p), q) <=> q = p \/ IsBitSet(bitmask, q)
  <1>1. /\ ByteOf(p) \in 0 .. len - 1 /\ BitOf(p) \in Bit
        /\ ByteOf(q) \in 0 .. len - 1 /\ BitOf(q) \in Bit
        /\ ByteOf(p) = ByteOf(q) /\ BitOf(p) = BitOf(q) => p = q
    BY PositionIsByteAndBit
  <1> QED BY <1>1 DEF SetBit, IsBitSet, Bytes

(* EMF_bitmask_clearBit clears its bit and leaves the others alone.        *)
LEMMA ClearBitClears ==
  ASSUME NEW len \in Nat, NEW bitmask \in Bytes(len),
         NEW p \in Positions(len), NEW q \in Positions(len)
  PROVE  /\ ClearBit(bitmask, p) \in Bytes(len)
         /\ IsBitSet(ClearBit(bitmask, p), q) <=> q # p /\ IsBitSet(bitmask, q)
  <1>1. /\ ByteOf(p) \in 0 .. len - 1 /\ BitOf(p) \in Bit
        /\ ByteOf(q) \in 0 .. len - 1 /\ BitOf(q) \in Bit
        /\ ByteOf(p) = ByteOf(q) /\ BitOf(p) = BitOf(q) => p = q
    BY PositionIsByteAndBit
  <1> QED BY <1>1 DEF ClearBit, IsBitSet, Bytes

-----------------------------------------------------------------------------
LEMMA LeastNatural ==
  ASSUME NEW S \in SUBSET Nat, S # {}
  PROVE  \E x \in S : \A y \in S : x <= y
  <1>1. OpToRel(<, Nat) = {ss \in Nat \X Nat : ss[1] < ss[2]}
    BY DEF OpToRel
  <1>2. PICK x \in S : \A y \in S : <<y, x>> \notin OpToRel(<, Nat)
    BY NatLessThanWellFounded, WFMin, Zenon
  <1>3. ASSUME NEW y \in S PROVE x <= y
    <2>1. <<y, x>> \notin {ss \in Nat \X Nat : ss[1] < ss[2]}
      BY <1>1, <1>2, Zenon
    <2> QED BY <2>1
  <1> QED BY <1>3

LEMMA MinOfNat ==
  ASSUME NEW S \in SUBSET Nat, S # {}
  PROVE  Min(S) \in S /\ \A y \in S : Min(S) <= y
  BY LeastNatural DEF Min

(* The greatest element of a bounded set mirrors a least one.              *)
LEMMA MaxOfNat ==
  ASSUME NEW n \in Nat, NEW S \in SUBSET (0 .. n), S # {}
  PROVE  Max(S) \in S /\ \A y \in S : y <= Max(S)
  <1> DEFINE mirror == {k \in 0 .. n : n - k \in S}
  <1>1. mirror \in SUBSET Nat
    OBVIOUS
  <1>2. mirror # {}
    <2>1. PICK s \in S : TRUE
      OBVIOUS
    <2>2. n - s \in mirror
      BY <2>1
    <2> QED BY <2>2
  <1>3. PICK k \in mirror : \A j \in mirror : k <= j
    <2> HIDE DEF mirror
    <2> QED BY <1>1, <1>2, LeastNatural
  <1>4. n - k \in S
    OBVIOUS
  <1>5. ASSUME NEW y \in S PROVE n - k >= y
    <2>1. n - y \in mirror
      OBVIOUS
    <2> QED BY <2>1, <1>3
  <1>6. \E x \in S : \A y \in S : x >= y
    BY <1>4, <1>5
  <1> QED BY <1>6 DEF Max

LEMMA MaxOfByte ==
  ASSUME NEW byte \in SUBSET Bit, byte # {}
  PROVE  Max(byte) \in byte /\ \A y \in byte : y <= Max(byte)
  BY MaxOfNat DEF Bit

(* EMF_bitmask_findMax gives the position of a bit that is set, or 0 when  *)
(* none is.                                                                *)
THEOREM FindMaxFindsABit ==
  ASSUME NEW len \in Nat, NEW bitmask \in Bytes(len)
  PROVE  \/ /\ FindMax(bitmask) = 0
            /\ \A q \in Positions(len) : ~IsBitSet(bitmask, q)
         \/ /\ FindMax(bitmask) \in Positions(len)
            /\ IsBitSet(bitmask, FindMax(bitmask))
  <1>1. CASE NonEmpty(bitmask) = {}
    <2>1. ASSUME NEW q \in Positions(len) PROVE ~IsBitSet(bitmask, q)
      <3>1. ByteOf(q) \in DOMAIN bitmask
        BY PositionIsByteAndBit DEF Bytes
      <3> QED BY <1>1, <3>1 DEF NonEmpty, IsBitSet
    <2> QED BY <1>1, <2>1 DEF FindMax
  <1>2. CASE NonEmpty(bitmask) # {}
    <2> DEFINE i == Min(NonEmpty(bitmask))
               b == Max(bitmask[i])
    <2>1. NonEmpty(bitmask) \in SUBSET Nat
      BY DEF NonEmpty, Bytes
    <2>2. i \in 0 .. len - 1 /\ bitmask[i] \in SUBSET Bit /\ bitmask[i] # {}
      BY <1>2, <2>1, MinOfNat DEF NonEmpty, Bytes
    <2>3. b \in bitmask[i] /\ b \in Bit
      BY <2>2, MaxOfByte
    <2>4. FindMax(bitmask) = b + 1 + 8 * i
      BY <1>2 DEF FindMax, Log2
    <2> HIDE DEF i, b
    <2>5. /\ FindMax(bitmask) \in Positions(len)
          /\ ByteOf(FindMax(bitmask)) = i /\ BitOf(FindMax(bitmask)) = b
      BY <2>2, <2>3, <2>4, ByteAndBitArePosition
    <2> QED BY <2>3, <2>5 DEF IsBitSet
  <1> QED BY <1>1, <1>2

(* In a bitmask of one byte it is the highest of them.                     *)
THEOREM FindMaxInOneByte ==
  ASSUME NEW bitmask \in Bytes(1), NEW q \in Positions(1), IsBitSet(bitmask, q)
  PROVE  q <= FindMax(bitmask)
  <1>1. ByteOf(q) = 0 /\ BitOf(q) = q - 1
    BY DEF Positions, ByteOf, BitOf
  <1>2. bitmask[0] \in SUBSET Bit /\ q - 1 \in bitmask[0]
    BY <1>1 DEF IsBitSet, Bytes
  <1>3. NonEmpty(bitmask) = {0}
    BY <1>2 DEF NonEmpty, Bytes
  <1>4. Min({0}) = 0
    BY MinOfNat
  <1>5. FindMax(bitmask) = Max(bitmask[0]) + 1
    <2>1. FindMax(bitmask) = Max(bitmask[0]) + 1 + 8 * 0
      BY <1>3, <1>4 DEF FindMax, Log2
    <2>2. Max(bitmask[0]) \in Int
      BY <1>2, MaxOfByte DEF Bit
    <2> QED BY <2>1, <2>2
  <1>6. Max(bitmask[0]) \in Int /\ q - 1 <= Max(bitmask[0])
    BY <1>2, MaxOfByte DEF Bit
  <1> QED BY <1>5, <1>6 DEF Positions
=============================================================================
