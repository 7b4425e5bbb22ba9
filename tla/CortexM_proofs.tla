--------------------------- MODULE CortexM_proofs ---------------------------
(***************************************************************************)
(* The Cortex-M core, for any active objects, thresholds, queue lengths    *)
(* and any nesting of interrupts: the scheduler's variables describe the   *)
(* contexts on the stack, no assertion fires, and with a ready set of one  *)
(* byte nobody waits who could preempt the one that runs.                  *)
(***************************************************************************)
EXTENDS CortexM, EmfBitmask_proofs, SequenceTheorems

MaskLen == (MaxAO + 7) \div 8

(* The invariant by what it is about: thresholds, the stack, the locks held*)
(* by the contexts on it, the lock ceiling in force, and the ready set.    *)
Thresholds == {pt \in [Prio -> 0 .. MaxAO] : \A p \in Prio : pt[p] # 0 => p <= pt[p]}
Reg(pt) == {p \in Prio : pt[p] # 0}
Thr(pt, p) == IF p = 0 THEN 0 ELSE pt[p]

Nested(st, pt) ==
  /\ st \in Seq(Contexts) /\ st # <<>> /\ st[1].prio = 0
  /\ \A i \in 2 .. Len(st) :
       /\ st[i].prio \in Reg(pt)
       /\ st[i].prio_in = st[i - 1].prio
       /\ st[i].pthre_in = Thr(pt, st[i - 1].prio)
  /\ \A i \in 1 .. Len(st) : st[i].subs_list \subseteq Reg(pt)
  /\ \A i, j \in 1 .. Len(st) : i < j =>
       st[j].prio > Thr(pt, st[i].prio) /\ st[j].prio > st[i].ceiling

(* A context c above the first n holds a lock only while it multicasts, its*)
(* ceiling is above theirs, and it remembers the highest of those.         *)
LockIs(c, st, n) ==
  /\ c.at # "multicast" => c.sched_status = NotLocked
  /\ c.sched_status = NotLocked => c.ceiling = 0
  /\ c.sched_status # NotLocked =>
       /\ c.sched_status < c.ceiling
       /\ c.sched_status = 0 \/ \E k \in 1 .. n : c.sched_status = st[k].ceiling
       /\ \A k \in 1 .. n : st[k].ceiling <= c.sched_status

Locks(st) == \A i \in 1 .. Len(st) : LockIs(st[i], st, i - 1)

InForce(st, lc) ==
  /\ lc = 0 \/ \E i \in 1 .. Len(st) : lc = st[i].ceiling
  /\ \A i \in 1 .. Len(st) : st[i].ceiling <= lc

(* Who waits is in the ready set; who is in it waits or is at work, and    *)
(* who has been activated and has not got its event yet waits.             *)
Ready(rs, pd, st, pt) ==
  /\ \A q \in Positions(MaskLen) : IsBitSet(rs, q) =>
       /\ q \in Reg(pt)
       /\ pd[q] > 0 \/ \E i \in 1 .. Len(st) : st[i].prio = q
  /\ \A p \in Prio : pd[p] > 0 => IsBitSet(rs, p)
Gets(pd, st) == \A i \in 1 .. Len(st) :
  st[i].at = "get" => st[i].prio \in Prio /\ pd[st[i].prio] > 0

(* Until EDF_run unlocks the scheduler, main is the only context.          *)
Sound(st, pt, run, lc, rs, pd) ==
  /\ Nested(st, pt) /\ Locks(st)
  /\ IF run THEN InForce(st, lc)
     ELSE Len(st) = 1 /\ Last(st).sched_status = NotLocked /\ lc = MaxAO + 1
  /\ Ready(rs, pd, st, pt) /\ Gets(pd, st)

Pending ==
  /\ next_priority \in Reg(pthre) \cup {0}
  /\ pendsv <=> next_priority # 0
  /\ pendsv => /\ next_priority > active_preemption_threshold
               /\ next_priority > lock_ceiling
               /\ pending[next_priority] > 0

Typed ==
  /\ pthre \in Thresholds /\ pending \in [Prio -> 0 .. Capacity]
  /\ ready_set \in Bytes(MaskLen) /\ lock_ceiling \in 0 .. MaxAO + 1
  /\ isr \in 0 .. MaxNest /\ pendsv \in BOOLEAN /\ running \in BOOLEAN

(* The scheduler's variables describe the topmost context.                 *)
Described ==
  /\ active_priority = Last(stack).prio
  /\ active_preemption_threshold = Thr(pthre, Last(stack).prio)

CortexInv ==
  /\ Typed
  /\ Sound(stack, pthre, running, lock_ceiling, ready_set, pending)
  /\ Described
  /\ Pending

(* What the scheduler sees, in a ready set of any length: while it is not  *)
(* locked it has nothing to activate that an interrupt does not serve.     *)
HighestInv ==
  LET prio == FindMax(ready_set) IN
  /\ running /\ isr = 0 /\ ~pendsv =>
       prio <= active_preemption_threshold \/ prio <= lock_ceiling
  /\ isr = 0 /\ pendsv => prio <= next_priority

-----------------------------------------------------------------------------
LEMMA Constants ==
  /\ MaxAO \in 1 .. 64 /\ Prio \subseteq 1 .. MaxAO
  /\ MaskLen \in Nat /\ Prio \subseteq Positions(MaskLen)
  /\ NotLocked \notin 0 .. MaxAO /\ Capacity \in Nat \ {0} /\ MaxNest \in Nat
  BY CoreAssumption DEF MaskLen, Positions, NotLocked

LEMMA Priorities ==
  Prio \cup {0} \subseteq 0 .. MaxAO /\ 0 \in 0 .. MaxAO /\ 0 \notin Prio
  BY Constants

LEMMA Counts ==
  ASSUME NEW n \in 0 .. Capacity
  PROVE  n \in Nat /\ (n > 0 => n - 1 \in 0 .. Capacity)
  BY CoreAssumption

LEMMA Beginning ==
  ASSUME NEW S, NEW st \in Seq(S), NEW n \in 0 .. Len(st)
  PROVE  /\ SubSeq(st, 1, n) \in Seq(S) /\ Len(SubSeq(st, 1, n)) = n
         /\ \A i \in 1 .. n : SubSeq(st, 1, n)[i] = st[i]
  <1>1. n \in Int /\ 1 \in Int /\ \A i \in 1 .. n : st[i] \in S
    OBVIOUS
  <1>2. /\ SubSeq(st, 1, n) \in Seq(S)
        /\ Len(SubSeq(st, 1, n)) = IF 1 <= n THEN n - 1 + 1 ELSE 0
        /\ \A i \in 1 .. n - 1 + 1 : SubSeq(st, 1, n)[i] = st[1 + i - 1]
    BY <1>1, SubSeqProperties
  <1> QED BY <1>2

LEMMA FrontIs ==
  ASSUME NEW S, NEW st \in Seq(S), st # <<>>
  PROVE  /\ Len(st) \in Nat \ {0}
         /\ Front(st) \in Seq(S) /\ Len(Front(st)) = Len(st) - 1
         /\ \A i \in 1 .. Len(st) - 1 : Front(st)[i] = st[i]
  <1>1. Len(st) \in Nat \ {0} /\ Len(st) - 1 \in 0 .. Len(st)
    OBVIOUS
  <1> QED BY <1>1, Beginning DEF Front

(* The sequences that stand for the stack after a step.                    *)
LEMMA LastReplaced ==
  ASSUME NEW S, NEW st \in Seq(S), st # <<>>, NEW c \in S
  PROVE  LET new == Append(Front(st), c) IN
         /\ new \in Seq(S) /\ new # <<>> /\ Len(new) = Len(st) /\ Len(st) \in Nat \ {0}
         /\ \A i \in 1 .. Len(st) - 1 : new[i] = st[i]
         /\ new[Len(st)] = c /\ Last(new) = c
  BY FrontIs DEF Last

LEMMA Pushed ==
  ASSUME NEW S, NEW st \in Seq(S), NEW c \in S
  PROVE  LET new == Append(st, c) IN
         /\ new \in Seq(S) /\ new # <<>> /\ Len(new) = Len(st) + 1 /\ Len(st) \in Nat
         /\ \A i \in 1 .. Len(st) : new[i] = st[i]
         /\ new[Len(st) + 1] = c /\ Last(new) = c
  BY DEF Last

LEMMA Popped ==
  ASSUME NEW S, NEW st \in Seq(S), Len(st) > 1
  PROVE  /\ Front(st) \in Seq(S) /\ Front(st) # <<>>
         /\ Len(Front(st)) = Len(st) - 1 /\ Len(st) \in Nat
         /\ \A i \in 1 .. Len(st) - 1 : Front(st)[i] = st[i]
         /\ Last(Front(st)) = st[Len(st) - 1]
  <1>1. st # <<>> /\ Len(st) - 1 \in 1 .. Len(st) - 1
    OBVIOUS
  <1> QED BY <1>1, FrontIs DEF Last

(* EMF_bitmask for a set of priorities, and its highest bit.               *)
LEMMA BitmaskOfSet ==
  ASSUME NEW len \in Nat, NEW set \in SUBSET Positions(len), NEW q \in Positions(len)
  PROVE  /\ BitmaskOf(set, len) \in Bytes(len)
         /\ IsBitSet(BitmaskOf(set, len), q) <=> q \in set
  <1>1. /\ ByteOf(q) \in 0 .. len - 1 /\ BitOf(q) \in Bit
        /\ 8 * ByteOf(q) + BitOf(q) + 1 = q
    BY DEF Positions, ByteOf, BitOf, Bit
  <1>2. BitmaskOf(set, len) \in Bytes(len)
    BY DEF BitmaskOf, Bytes
  <1> QED BY <1>1, <1>2 DEF BitmaskOf, IsBitSet

LEMMA FindMaxOfSet ==
  ASSUME NEW set \in SUBSET Prio, set # {}
  PROVE  FindMax(BitmaskOf(set, (MaxAO + 7) \div 8)) \in set
  <1> DEFINE mask == BitmaskOf(set, MaskLen)
  <1>1. /\ MaskLen \in Nat /\ set \in SUBSET Positions(MaskLen) /\ mask \in Bytes(MaskLen)
        /\ \A q \in Positions(MaskLen) : IsBitSet(mask, q) <=> q \in set
    <2>1. MaskLen \in Nat /\ set \in SUBSET Positions(MaskLen)
      BY Constants
    <2>2. PICK p \in Positions(MaskLen) : TRUE
      BY <2>1
    <2> QED BY <2>1, <2>2, BitmaskOfSet
  <1>2. PICK q \in set : q \in Positions(MaskLen)
    BY <1>1
  <1> HIDE DEF mask
  <1>3. FindMax(mask) \in Positions(MaskLen) /\ IsBitSet(mask, FindMax(mask))
    BY <1>1, <1>2, FindMaxFindsABit
  <1>4. FindMax(mask) \in set
    BY <1>1, <1>3
  <1> QED BY <1>4 DEF mask, MaskLen

-----------------------------------------------------------------------------
(* What a step may do to the stack. Its topmost context moves on, ...      *)
LEMMA NestedMoves ==
  ASSUME NEW pt \in Thresholds, NEW st, Nested(st, pt), NEW c \in Contexts,
         c.prio = Last(st).prio, c.prio_in = Last(st).prio_in,
         c.pthre_in = Last(st).pthre_in, c.subs_list \subseteq Reg(pt)
  PROVE  Nested(Append(Front(st), c), pt)
  <1> DEFINE new == Append(Front(st), c)
  <1>1. /\ st \in Seq(Contexts) /\ st # <<>> /\ Last(st) = st[Len(st)]
        /\ new \in Seq(Contexts) /\ new # <<>> /\ Len(new) = Len(st) /\ Len(st) \in Nat \ {0}
        /\ \A i \in 1 .. Len(st) - 1 : new[i] = st[i]
        /\ new[Len(st)] = c
    BY LastReplaced DEF Nested, Last
  <1> HIDE DEF new
  <1>2. \A i \in 1 .. Len(st) :
          /\ new[i].prio = st[i].prio /\ new[i].prio_in = st[i].prio_in
          /\ new[i].pthre_in = st[i].pthre_in
    BY <1>1
  <1>3. \A i \in 1 .. Len(st) : new[i].subs_list \subseteq Reg(pt)
    BY <1>1 DEF Nested
  <1>4. new[1].prio = 0 /\ \A i \in 2 .. Len(new) :
          /\ new[i].prio \in Reg(pt) /\ new[i].prio_in = new[i - 1].prio
          /\ new[i].pthre_in = Thr(pt, new[i - 1].prio)
    BY <1>1, <1>2 DEF Nested
  <1>5. ASSUME NEW i \in 1 .. Len(new), NEW j \in 1 .. Len(new), i < j
        PROVE  new[j].prio > Thr(pt, new[i].prio) /\ new[j].prio > new[i].ceiling
    <2>1. new[i] = st[i] /\ i \in 1 .. Len(st) /\ j \in 1 .. Len(st)
      BY <1>1, <1>5
    <2> QED BY <1>2, <1>5, <2>1 DEF Nested
  <1>6. Nested(new, pt)
    BY <1>1, <1>3, <1>4, <1>5 DEF Nested
  <1> QED BY <1>6 DEF new

(* A priority above the topmost threshold is above all of them, and above  *)
(* every priority on the stack.                                            *)
LEMMA Numbers ==
  ASSUME NEW pt \in Thresholds, NEW c \in Contexts
  PROVE  /\ c.prio \in Prio \cup {0} /\ c.prio \in 0 .. MaxAO
         /\ Thr(pt, c.prio) \in 0 .. MaxAO /\ c.ceiling \in 0 .. MaxAO
         /\ c.prio \in Reg(pt) => c.prio <= Thr(pt, c.prio)
  <1>1. c.prio \in Prio \cup {0} /\ c.ceiling \in 0 .. MaxAO
    BY DEF Contexts
  <1>2. Prio \cup {0} \subseteq 0 .. MaxAO /\ 0 \notin Prio
    BY Constants
  <1> QED BY <1>1, <1>2 DEF Thr, Thresholds, Reg

LEMMA AboveAll ==
  ASSUME NEW pt \in Thresholds, NEW st, Nested(st, pt), NEW p \in Int,
         p > Thr(pt, Last(st).prio), NEW i \in 1 .. Len(st)
  PROVE  p > Thr(pt, st[i].prio) /\ p > st[i].prio
  <1>1. st \in Seq(Contexts) /\ Len(st) \in Nat \ {0} /\ Last(st) = st[Len(st)]
    BY DEF Nested, Last
  <1>2. \A k \in 1 .. Len(st) :
          /\ st[k] \in Contexts
          /\ st[k].prio \in Int /\ Thr(pt, st[k].prio) \in Int
          /\ st[k].prio <= Thr(pt, st[k].prio)
    <2> TAKE k \in 1 .. Len(st)
    <2>1. st[k] \in Contexts
      BY <1>1
    <2>2. st[k].prio = 0 \/ st[k].prio \in Reg(pt)
      BY <1>1 DEF Nested
    <2>3. st[k].prio \in 0 .. MaxAO /\ Thr(pt, st[k].prio) \in 0 .. MaxAO
          /\ (st[k].prio \in Reg(pt) => st[k].prio <= Thr(pt, st[k].prio))
      BY <2>1, Numbers
    <2> QED BY <2>1, <2>2, <2>3, Constants
  <1>3. i < Len(st) => st[Len(st)].prio > Thr(pt, st[i].prio)
    BY <1>1 DEF Nested
  <1>4. i = Len(st) \/ i < Len(st)
    BY <1>1
  <1>5. Len(st) \in 1 .. Len(st)
    BY <1>1
  <1> QED BY <1>1, <1>2, <1>3, <1>4, <1>5

(* ... another one is put on top of it, ...                                *)
LEMMA NestedGrows ==
  ASSUME NEW pt \in Thresholds, NEW st, Nested(st, pt), NEW c \in Contexts,
         c.prio \in Reg(pt), c.prio > Thr(pt, Last(st).prio),
         c.prio_in = Last(st).prio, c.pthre_in = Thr(pt, Last(st).prio),
         c.subs_list \subseteq Reg(pt),
         \A i \in 1 .. Len(st) : c.prio > st[i].ceiling
  PROVE  Nested(Append(st, c), pt)
  <1> DEFINE new == Append(st, c)
  <1>1. st \in Seq(Contexts) /\ Len(st) \in Nat \ {0} /\ Last(st) = st[Len(st)]
    BY DEF Nested, Last
  <1>2. /\ new \in Seq(Contexts) /\ new # <<>> /\ Len(new) = Len(st) + 1
        /\ \A i \in 1 .. Len(st) : new[i] = st[i]
        /\ new[Len(st) + 1] = c
    BY <1>1, Pushed
  <1> HIDE DEF new
  <1>3. \A i \in 1 .. Len(new) : new[i].subs_list \subseteq Reg(pt)
    BY <1>1, <1>2 DEF Nested
  <1>4. new[1].prio = 0 /\ \A i \in 2 .. Len(new) :
          /\ new[i].prio \in Reg(pt) /\ new[i].prio_in = new[i - 1].prio
          /\ new[i].pthre_in = Thr(pt, new[i - 1].prio)
    <2>1. new[1].prio = 0
      BY <1>1, <1>2 DEF Nested
    <2>2. ASSUME NEW i \in 2 .. Len(new)
          PROVE  /\ new[i].prio \in Reg(pt) /\ new[i].prio_in = new[i - 1].prio
                 /\ new[i].pthre_in = Thr(pt, new[i - 1].prio)
      <3>1. CASE i = Len(st) + 1
        <4>1. new[i] = c /\ new[i - 1] = Last(st)
          BY <1>1, <1>2, <3>1
        <4> QED BY <4>1
      <3>2. CASE i # Len(st) + 1
        <4>1. i \in 2 .. Len(st) /\ new[i] = st[i] /\ new[i - 1] = st[i - 1]
          BY <1>1, <1>2, <3>2
        <4> QED BY <4>1 DEF Nested
      <3> QED BY <3>1, <3>2
    <2> QED BY <2>1, <2>2
  <1>5. ASSUME NEW i \in 1 .. Len(new), NEW j \in 1 .. Len(new), i < j
        PROVE  new[j].prio > Thr(pt, new[i].prio) /\ new[j].prio > new[i].ceiling
    <2>1. i \in 1 .. Len(st) /\ new[i] = st[i]
      BY <1>1, <1>2, <1>5
    <2>2. CASE j = Len(st) + 1
      <3>1. c.prio \in Int
        BY Numbers, Constants
      <3> QED BY <1>2, <2>1, <2>2, <3>1, AboveAll
    <2>3. CASE j \in 1 .. Len(st)
      BY <1>2, <1>5, <2>1, <2>3 DEF Nested
    <2> QED BY <1>1, <1>2, <2>2, <2>3
  <1>6. Nested(new, pt)
    BY <1>1, <1>2, <1>3, <1>4, <1>5 DEF Nested
  <1> QED BY <1>6 DEF new

(* ... or it goes away.                                                    *)
LEMMA NestedShrinks ==
  ASSUME NEW pt \in Thresholds, NEW st, Nested(st, pt), Len(st) > 1
  PROVE  /\ Nested(Front(st), pt)
         /\ Last(Front(st)).prio = Last(st).prio_in
         /\ Thr(pt, Last(Front(st)).prio) = Last(st).pthre_in
  <1>1. /\ st \in Seq(Contexts) /\ Front(st) \in Seq(Contexts) /\ Front(st) # <<>>
        /\ Len(Front(st)) = Len(st) - 1 /\ Len(st) \in Nat
        /\ \A i \in 1 .. Len(st) - 1 : Front(st)[i] = st[i]
        /\ Last(Front(st)) = st[Len(st) - 1] /\ Last(st) = st[Len(st)]
    BY Popped DEF Nested, Last
  <1>2. /\ st[Len(st)].prio_in = st[Len(st) - 1].prio
        /\ st[Len(st)].pthre_in = Thr(pt, st[Len(st) - 1].prio)
    BY <1>1 DEF Nested
  <1>3. Nested(Front(st), pt)
    BY <1>1 DEF Nested
  <1> QED BY <1>1, <1>2, <1>3

LEMMA LockStays ==
  ASSUME NEW c, NEW st, NEW new, NEW n \in Int, \A k \in 1 .. n : new[k] = st[k],
         LockIs(c, st, n)
  PROVE  LockIs(c, new, n)
  BY DEF LockIs

LEMMA LocksMoves ==
  ASSUME NEW st \in Seq(Contexts), st # <<>>, Locks(st), NEW c \in Contexts,
         LockIs(c, st, Len(st) - 1)
  PROVE  Locks(Append(Front(st), c))
  <1> DEFINE new == Append(Front(st), c)
  <1>1. /\ Len(new) = Len(st) /\ Len(st) \in Nat \ {0}
        /\ \A i \in 1 .. Len(st) - 1 : new[i] = st[i]
        /\ new[Len(st)] = c
    BY LastReplaced
  <1> HIDE DEF new
  <1>2. ASSUME NEW i \in 1 .. Len(st)
        PROVE  LockIs(new[i], new, i - 1)
    <2>1. i - 1 \in Int /\ \A k \in 1 .. i - 1 : new[k] = st[k]
      BY <1>1
    <2>2. LockIs(new[i], st, i - 1)
      BY <1>1 DEF Locks
    <2> QED BY <2>1, <2>2, LockStays
  <1>3. Locks(new)
    BY <1>1, <1>2 DEF Locks
  <1> QED BY <1>3 DEF new

(* Contexts that begin or end hold no lock.                                *)
LEMMA LocksGrows ==
  ASSUME NEW st \in Seq(Contexts), Locks(st), NEW c \in Contexts,
         c.sched_status = NotLocked, c.ceiling = 0
  PROVE  Locks(Append(st, c))
  <1> DEFINE new == Append(st, c)
  <1>1. /\ Len(new) = Len(st) + 1 /\ Len(st) \in Nat
        /\ \A i \in 1 .. Len(st) : new[i] = st[i]
        /\ new[Len(st) + 1] = c
    BY Pushed
  <1> HIDE DEF new
  <1>2. ASSUME NEW i \in 1 .. Len(st) + 1
        PROVE  LockIs(new[i], new, i - 1)
    <2>1. CASE i = Len(st) + 1
      BY <1>1, <2>1 DEF LockIs
    <2>2. CASE i \in 1 .. Len(st)
      <3>1. i - 1 \in Int /\ \A k \in 1 .. i - 1 : new[k] = st[k]
        BY <1>1, <2>2
      <3>2. LockIs(new[i], st, i - 1)
        BY <1>1, <2>2 DEF Locks
      <3> QED BY <3>1, <3>2, LockStays
    <2> QED BY <1>1, <2>1, <2>2
  <1>3. Locks(new)
    BY <1>1, <1>2 DEF Locks
  <1> QED BY <1>3 DEF new

LEMMA LocksShrinks ==
  ASSUME NEW st \in Seq(Contexts), Len(st) > 1, Locks(st)
  PROVE  Locks(Front(st))
  <1>1. /\ Len(Front(st)) = Len(st) - 1 /\ Len(st) \in Nat
        /\ \A i \in 1 .. Len(st) - 1 : Front(st)[i] = st[i]
    BY Popped
  <1>2. ASSUME NEW i \in 1 .. Len(st) - 1
        PROVE  LockIs(Front(st)[i], Front(st), i - 1)
    <2>1. i - 1 \in Int /\ \A k \in 1 .. i - 1 : Front(st)[k] = st[k]
      BY <1>1
    <2>2. LockIs(Front(st)[i], st, i - 1)
      BY <1>1 DEF Locks
    <2> QED BY <2>1, <2>2, LockStays
  <1> QED BY <1>1, <1>2 DEF Locks

-----------------------------------------------------------------------------
(* The lock ceiling, when nobody locks or unlocks, ...                     *)
LEMMA InForceMoves ==
  ASSUME NEW st \in Seq(Contexts), st # <<>>, NEW c \in Contexts, NEW lc,
         InForce(st, lc), c.ceiling = Last(st).ceiling
  PROVE  InForce(Append(Front(st), c), lc)
  <1> DEFINE new == Append(Front(st), c)
  <1>1. /\ Len(new) = Len(st) /\ Len(st) \in Nat \ {0} /\ Last(st) = st[Len(st)]
        /\ \A i \in 1 .. Len(st) - 1 : new[i] = st[i]
        /\ new[Len(st)] = c
    BY LastReplaced DEF Last
  <1> HIDE DEF new
  <1>2. \A i \in 1 .. Len(st) : new[i].ceiling = st[i].ceiling
    BY <1>1
  <1>3. InForce(new, lc)
    BY <1>1, <1>2 DEF InForce
  <1> QED BY <1>3 DEF new

LEMMA InForceGrows ==
  ASSUME NEW st \in Seq(Contexts), NEW c \in Contexts, NEW lc \in Nat,
         InForce(st, lc), c.ceiling = 0
  PROVE  InForce(Append(st, c), lc)
  <1> DEFINE new == Append(st, c)
  <1>1. /\ Len(new) = Len(st) + 1 /\ Len(st) \in Nat
        /\ \A i \in 1 .. Len(st) : new[i] = st[i]
        /\ new[Len(st) + 1] = c
    BY Pushed
  <1> HIDE DEF new
  <1>2. InForce(new, lc)
    BY <1>1 DEF InForce
  <1> QED BY <1>2 DEF new

LEMMA InForceShrinks ==
  ASSUME NEW st \in Seq(Contexts), Len(st) > 1, NEW lc,
         InForce(st, lc), Last(st).ceiling = 0
  PROVE  InForce(Front(st), lc)
  <1>1. /\ Len(Front(st)) = Len(st) - 1 /\ Len(st) \in Nat /\ Last(st) = st[Len(st)]
        /\ \A i \in 1 .. Len(st) - 1 : Front(st)[i] = st[i]
    BY Popped DEF Last
  <1> QED BY <1>1 DEF InForce

(* ... when the topmost context locks up to a higher ceiling, ...          *)
LEMMA InForceLocks ==
  ASSUME NEW st \in Seq(Contexts), st # <<>>, NEW c \in Contexts, NEW lc \in Nat,
         InForce(st, lc), c.ceiling > lc
  PROVE  InForce(Append(Front(st), c), c.ceiling)
  <1> DEFINE new == Append(Front(st), c)
  <1>1. /\ Len(new) = Len(st) /\ Len(st) \in Nat \ {0}
        /\ \A i \in 1 .. Len(st) - 1 : new[i] = st[i]
        /\ new[Len(st)] = c
    BY LastReplaced
  <1> HIDE DEF new
  <1>2. c.ceiling \in Nat /\ \A i \in 1 .. Len(st) : st[i].ceiling \in Nat
    <2>1. \A d \in Contexts : d.ceiling \in Nat
      BY Constants DEF Contexts
    <2> QED BY <2>1
  <1>3. InForce(new, c.ceiling)
    BY <1>1, <1>2 DEF InForce
  <1> QED BY <1>3 DEF new

(* ... and when it gives back what it locked.                              *)
LEMMA InForceUnlocks ==
  ASSUME NEW st \in Seq(Contexts), st # <<>>, NEW c \in Contexts, Locks(st),
         Last(st).sched_status # NotLocked, c.ceiling = 0
  PROVE  InForce(Append(Front(st), c), Last(st).sched_status)
  <1> DEFINE new == Append(Front(st), c)
             sched == Last(st).sched_status
  <1>1. /\ Len(new) = Len(st) /\ Len(st) \in Nat \ {0} /\ Last(st) = st[Len(st)]
        /\ \A i \in 1 .. Len(st) - 1 : new[i] = st[i]
        /\ new[Len(st)] = c
    BY LastReplaced DEF Last
  <1>2. Last(st) \in Contexts
    BY <1>1
  <1>3. sched \in Nat
    BY <1>2, Constants DEF Contexts
  <1>4. /\ sched = 0 \/ \E k \in 1 .. Len(st) - 1 : sched = st[k].ceiling
        /\ \A k \in 1 .. Len(st) - 1 : st[k].ceiling <= sched
    <2>1. LockIs(st[Len(st)], st, Len(st) - 1)
      BY <1>1 DEF Locks
    <2> QED BY <1>1, <2>1 DEF LockIs
  <1> HIDE DEF new, sched
  <1>5. InForce(new, sched)
    BY <1>1, <1>3, <1>4 DEF InForce
  <1> QED BY <1>5 DEF new, sched

-----------------------------------------------------------------------------
(* The ready set, when nobody posts: the topmost context moves on, ...     *)
LEMMA ReadyMoves ==
  ASSUME NEW rs, NEW pd, NEW pt, NEW st \in Seq(Contexts), NEW new \in Seq(Contexts),
         Len(new) = Len(st), \A i \in 1 .. Len(st) : new[i].prio = st[i].prio,
         Ready(rs, pd, st, pt)
  PROVE  Ready(rs, pd, new, pt)
  BY DEF Ready

LEMMA SoundMoves ==
  ASSUME NEW pt \in Thresholds, NEW st, NEW run \in BOOLEAN, NEW lc, NEW rs, NEW pd,
         Sound(st, pt, run, lc, rs, pd), NEW c \in Contexts,
         c.prio = Last(st).prio, c.prio_in = Last(st).prio_in,
         c.pthre_in = Last(st).pthre_in, c.subs_list \subseteq Reg(pt),
         c.sched_status = Last(st).sched_status, c.ceiling = Last(st).ceiling,
         c.at # "multicast" => c.sched_status = NotLocked, c.at # "get"
  PROVE  /\ Sound(Append(Front(st), c), pt, run, lc, rs, pd)
         /\ Last(Append(Front(st), c)) = c
  <1> DEFINE new == Append(Front(st), c)
  <1>1. /\ st \in Seq(Contexts) /\ st # <<>> /\ Last(st) = st[Len(st)]
        /\ new \in Seq(Contexts) /\ Len(new) = Len(st) /\ Len(st) \in Nat \ {0}
        /\ \A i \in 1 .. Len(st) - 1 : new[i] = st[i]
        /\ new[Len(st)] = c /\ Last(new) = c
    BY LastReplaced DEF Sound, Nested, Last
  <1>2. Nested(new, pt)
    BY NestedMoves DEF Sound
  <1>3. Locks(new)
    <2>1. LockIs(st[Len(st)], st, Len(st) - 1)
      BY <1>1 DEF Sound, Locks
    <2>2. LockIs(c, st, Len(st) - 1)
      BY <1>1, <2>1 DEF LockIs
    <2> QED BY <1>1, <2>2, LocksMoves DEF Sound
  <1>4. InForce(st, lc) => InForce(new, lc)
    BY <1>1, InForceMoves
  <1> HIDE DEF new
  <1>5. Ready(rs, pd, new, pt)
    <2>1. \A i \in 1 .. Len(st) : new[i].prio = st[i].prio
      BY <1>1
    <2> QED BY <1>1, <2>1, ReadyMoves DEF Sound
  <1>6. Gets(pd, new)
    BY <1>1 DEF Sound, Gets
  <1>7. Sound(new, pt, run, lc, rs, pd)
    BY <1>1, <1>2, <1>3, <1>4, <1>5, <1>6 DEF Sound
  <1> QED BY <1>1, <1>7 DEF new

(* ... an active object that waits is activated, ...                       *)
LEMMA SoundGrows ==
  ASSUME NEW pt \in Thresholds, NEW st, NEW run \in BOOLEAN, NEW lc \in 0 .. MaxAO + 1,
         NEW rs, NEW pd \in [Prio -> Nat],
         Sound(st, pt, run, lc, rs, pd), NEW c \in Contexts,
         c.prio \in Reg(pt), c.prio > Thr(pt, Last(st).prio), c.prio > lc,
         c.prio_in = Last(st).prio, c.pthre_in = Thr(pt, Last(st).prio),
         c.subs_list \subseteq Reg(pt), c.sched_status = NotLocked, c.ceiling = 0,
         pd[c.prio] > 0
  PROVE  Sound(Append(st, c), pt, run, lc, rs, pd) /\ Last(Append(st, c)) = c
  <1> DEFINE new == Append(st, c)
  <1>1. /\ st \in Seq(Contexts) /\ new \in Seq(Contexts) /\ Len(new) = Len(st) + 1
        /\ Len(st) \in Nat /\ \A i \in 1 .. Len(st) : new[i] = st[i]
        /\ new[Len(st) + 1] = c /\ Last(new) = c
    BY Pushed DEF Sound, Nested
  <1>2. c.prio \in 0 .. MaxAO /\ c.prio \in Prio
    <2>1. c.prio \in 0 .. MaxAO
      BY Numbers
    <2> QED BY <2>1 DEF Reg
  <1>3. run /\ InForce(st, lc)
    BY <1>2, Constants DEF Sound
  <1>4. \A i \in 1 .. Len(st) : c.prio > st[i].ceiling
    <2> TAKE i \in 1 .. Len(st)
    <2>1. st[i] \in Contexts
      BY <1>1
    <2>2. st[i].ceiling \in 0 .. MaxAO
      BY <2>1, Numbers
    <2>3. st[i].ceiling <= lc
      BY <1>3 DEF InForce
    <2> QED BY <1>2, <2>2, <2>3, Constants
  <1>5. Nested(new, pt)
    BY <1>4, NestedGrows DEF Sound
  <1>6. Locks(new)
    BY <1>1, LocksGrows DEF Sound
  <1>7. InForce(new, lc)
    <2>1. lc \in Nat
      BY Constants
    <2> QED BY <1>1, <1>3, <2>1, InForceGrows
  <1> HIDE DEF new
  <1>8. Ready(rs, pd, new, pt)
    BY <1>1 DEF Sound, Ready
  <1>9. Gets(pd, new)
    BY <1>1, <1>2 DEF Sound, Gets
  <1>10. Sound(new, pt, run, lc, rs, pd)
    BY <1>3, <1>5, <1>6, <1>7, <1>8, <1>9 DEF Sound
  <1> QED BY <1>1, <1>10 DEF new

(* ... or one that has no lock goes, with its bit unless it still waits.   *)
LEMMA SoundShrinks ==
  ASSUME NEW pt \in Thresholds, NEW st, NEW run \in BOOLEAN, NEW lc, NEW rs, NEW rest, NEW pd,
         Sound(st, pt, run, lc, rs, pd), Len(st) > 1, Last(st).ceiling = 0,
         \A q \in Positions(MaskLen) : IsBitSet(rest, q) <=>
           IsBitSet(rs, q) /\ (q = Last(st).prio => pd[q] > 0)
  PROVE  /\ Sound(Front(st), pt, run, lc, rest, pd) /\ run
         /\ Last(Front(st)).prio = Last(st).prio_in
         /\ Thr(pt, Last(Front(st)).prio) = Last(st).pthre_in
  <1>1. /\ st \in Seq(Contexts) /\ Last(st) = st[Len(st)]
        /\ Front(st) \in Seq(Contexts) /\ Len(Front(st)) = Len(st) - 1
        /\ Len(st) \in Nat /\ \A i \in 1 .. Len(st) - 1 : Front(st)[i] = st[i]
    BY Popped DEF Sound, Nested, Last
  <1>2. run /\ InForce(Front(st), lc)
    BY <1>1, InForceShrinks DEF Sound
  <1>3. Ready(rest, pd, Front(st), pt)
    <2>1. ASSUME NEW q \in Positions(MaskLen), IsBitSet(rest, q)
          PROVE  q \in Reg(pt) /\ (pd[q] > 0 \/ \E i \in 1 .. Len(Front(st)) : Front(st)[i].prio = q)
      <3>1. q \in Reg(pt) /\ (pd[q] > 0 \/ \E i \in 1 .. Len(st) : st[i].prio = q)
        BY <2>1 DEF Sound, Ready
      <3> QED BY <1>1, <2>1, <3>1
    <2>2. ASSUME NEW p \in Prio, pd[p] > 0
          PROVE  IsBitSet(rest, p)
      <3>1. IsBitSet(rs, p) /\ p \in Positions(MaskLen)
        BY <2>2, Constants DEF Sound, Ready
      <3> QED BY <2>2, <3>1
    <2> QED BY <2>1, <2>2 DEF Ready
  <1>4. Gets(pd, Front(st))
    BY <1>1 DEF Sound, Gets
  <1>5. Locks(Front(st))
    BY <1>1, LocksShrinks DEF Sound
  <1> QED BY <1>2, <1>3, <1>4, <1>5, NestedShrinks DEF Sound

(* Whom the scheduler selects is registered and waits.                     *)
LEMMA MaySchedule ==
  ASSUME NEW pt \in Thresholds, NEW st, NEW run \in BOOLEAN, NEW lc \in 0 .. MaxAO + 1,
         NEW rs \in Bytes(MaskLen), NEW pd \in [Prio -> Nat],
         Sound(st, pt, run, lc, rs, pd),
         FindMax(rs) > Thr(pt, Last(st).prio), FindMax(rs) > lc
  PROVE  FindMax(rs) \in Reg(pt) /\ pd[FindMax(rs)] > 0
  <1>1. FindMax(rs) # 0
    BY Constants
  <1>2. FindMax(rs) \in Positions(MaskLen) /\ IsBitSet(rs, FindMax(rs))
    BY <1>1, FindMaxFindsABit, Constants
  <1>3. /\ FindMax(rs) \in Reg(pt)
        /\ pd[FindMax(rs)] > 0 \/ \E i \in 1 .. Len(st) : st[i].prio = FindMax(rs)
    BY <1>2 DEF Sound, Ready
  <1>4. FindMax(rs) \in Int
    BY <1>2 DEF Positions
  <1> DEFINE prio == FindMax(rs)
  <1>5. prio \in Int /\ prio > Thr(pt, Last(st).prio)
    BY <1>4
  <1> HIDE DEF prio
  <1>6. \A i \in 1 .. Len(st) : prio > st[i].prio
    BY <1>5, AboveAll DEF Sound
  <1>7. \A i \in 1 .. Len(st) : prio # st[i].prio
    <2> TAKE i \in 1 .. Len(st)
    <2>1. st[i].prio \in Int
      <3>1. st[i] \in Contexts
        BY DEF Sound, Nested
      <3> QED BY <3>1, Numbers, Constants
    <2> QED BY <1>5, <1>6, <2>1
  <1> QED BY <1>3, <1>7 DEF prio

LEMMA ScheduledIsInt ==
  ASSUME NEW rs \in Bytes(MaskLen)
  PROVE  FindMax(rs) \in Nat
  BY FindMaxFindsABit, Constants DEF Positions

-----------------------------------------------------------------------------
(* EDF_core_activate on top of the contexts, for one that waits.           *)
LEMMA ActivateKeeps ==
  ASSUME pthre \in Thresholds, NEW st, NEW run \in BOOLEAN, NEW lc \in 0 .. MaxAO + 1,
         NEW rs, NEW pd \in [Prio -> Nat], Sound(st, pthre, run, lc, rs, pd),
         active_priority = Last(st).prio,
         NEW p \in Reg(pthre), p > Thr(pthre, Last(st).prio), p > lc, pd[p] > 0,
         Activate(p, st)
  PROVE  /\ Sound(stack', pthre, run, lc, rs, pd)
         /\ active_priority' = Last(stack').prio
         /\ active_preemption_threshold' = Thr(pthre, Last(stack').prio)
         /\ next_priority' = 0
         /\ active_preemption_threshold' >= p
  <1> DEFINE c == Context(p, active_priority, Threshold(active_priority))
  <1>1. Last(st) \in Contexts
    BY DEF Sound, Nested, Last
  <1>2. /\ p \in Prio /\ p # 0 /\ active_priority \in Prio \cup {0}
        /\ Threshold(active_priority) = Thr(pthre, Last(st).prio)
        /\ Threshold(active_priority) \in 0 .. MaxAO
    <2>1. p \in Prio /\ active_priority \in Prio \cup {0}
      BY <1>1, Numbers DEF Reg
    <2>2. Thr(pthre, Last(st).prio) \in 0 .. MaxAO
      BY <1>1, Numbers
    <2> QED BY <2>1, <2>2, Constants DEF Threshold, Thr
  <1>3. /\ c \in Contexts /\ c.prio = p /\ c.prio_in = active_priority /\ c.subs_list = {}
        /\ c.pthre_in = Threshold(active_priority) /\ c.ceiling = 0
        /\ c.sched_status = NotLocked
    BY <1>2, Constants DEF Context, Contexts
  <1>4. stack' = Append(st, c) /\ active_priority' = p /\ next_priority' = 0
        /\ active_preemption_threshold' = pthre[p]
    BY DEF Activate
  <1> HIDE DEF c
  <1>5. Sound(stack', pthre, run, lc, rs, pd) /\ Last(stack') = c
    BY <1>2, <1>3, <1>4, SoundGrows
  <1>6. pthre[p] = Thr(pthre, p) /\ pthre[p] >= p
    BY <1>2, Constants DEF Thr, Thresholds, Reg
  <1> QED BY <1>3, <1>4, <1>5, <1>6

LEMMA RescheduleKeeps ==
  ASSUME pthre \in Thresholds, NEW st, NEW run \in BOOLEAN, NEW lc \in 0 .. MaxAO + 1,
         NEW rs \in Bytes(MaskLen), NEW pd \in [Prio -> Nat],
         Sound(st, pthre, run, lc, rs, pd),
         active_priority = Last(st).prio,
         active_preemption_threshold = Thr(pthre, Last(st).prio),
         next_priority = 0, Reschedule(rs, lc, st)
  PROVE  /\ Sound(stack', pthre, run, lc, rs, pd)
         /\ active_priority' = Last(stack').prio
         /\ active_preemption_threshold' = Thr(pthre, Last(stack').prio)
         /\ next_priority' = 0
         /\ FindMax(rs) <= active_preemption_threshold' \/ FindMax(rs) <= lc
  <1>1. FindMax(rs) \in Nat /\ active_preemption_threshold \in 0 .. MaxAO
    <2>1. Last(st) \in Contexts
      BY DEF Sound, Nested, Last
    <2> QED BY <2>1, ScheduledIsInt, Numbers
  <1>2. CASE FindMax(rs) <= active_preemption_threshold \/ FindMax(rs) <= lc
    BY <1>2 DEF Reschedule, Schedule, active
  <1>3. CASE FindMax(rs) > active_preemption_threshold /\ FindMax(rs) > lc
    <2>1. FindMax(rs) \in Reg(pthre) /\ pd[FindMax(rs)] > 0
      BY <1>3, MaySchedule
    <2>2. Activate(FindMax(rs), st)
      BY <1>1, <1>3, Constants DEF Reschedule, Schedule
    <2> HIDE DEF Activate
    <2>3. /\ Sound(stack', pthre, run, lc, rs, pd)
          /\ active_priority' = Last(stack').prio
          /\ active_preemption_threshold' = Thr(pthre, Last(stack').prio)
          /\ next_priority' = 0
          /\ active_preemption_threshold' >= FindMax(rs)
      BY <1>3, <2>1, <2>2, ActivateKeeps
    <2> QED BY <1>1, <2>1, <2>2, <2>3, Constants DEF Activate, Thresholds, Reg
  <1> QED BY <1>1, <1>2, <1>3, Constants

(* A post: the bit of an empty queue is set, that of another one is.       *)
LEMMA MarkedKeeps ==
  ASSUME pthre \in Thresholds, pending \in [Prio -> 0 .. Capacity],
         ready_set \in Bytes(MaskLen),
         NEW st, NEW run \in BOOLEAN, NEW lc,
         Sound(st, pthre, run, lc, ready_set, pending),
         NEW p \in Reg(pthre), pending[p] < Capacity
  PROVE  /\ Sound(st, pthre, run, lc, Marked(p), [pending EXCEPT ![p] = @ + 1])
         /\ Marked(p) \in Bytes(MaskLen)
         /\ [pending EXCEPT ![p] = @ + 1] \in [Prio -> 0 .. Capacity]
         /\ \A q \in Prio : pending[q] > 0 => [pending EXCEPT ![p] = @ + 1][q] > 0
  <1> DEFINE pd == [pending EXCEPT ![p] = @ + 1]
  <1>1. /\ p \in Prio /\ p \in Positions(MaskLen) /\ MaskLen \in Nat
        /\ Prio \subseteq Positions(MaskLen)
    BY Constants DEF Reg
  <1>2. /\ pd \in [Prio -> 0 .. Capacity] /\ pd[p] > 0
        /\ \A q \in Prio : q # p => pd[q] = pending[q]
        /\ \A q \in Prio : pending[q] > 0 => pd[q] > 0
    BY <1>1, Constants
  <1>3. /\ Marked(p) \in Bytes(MaskLen)
        /\ \A q \in Positions(MaskLen) :
             IsBitSet(Marked(p), q) <=> q = p \/ IsBitSet(ready_set, q)
    <2>1. pending[p] # 0 => IsBitSet(ready_set, p)
      BY <1>1, Constants DEF Sound, Ready
    <2> QED BY <1>1, <2>1, SetBitSets DEF Marked
  <1> HIDE DEF pd
  <1>4. Ready(Marked(p), pd, st, pthre)
    <2>1. ASSUME NEW q \in Positions(MaskLen), IsBitSet(Marked(p), q)
          PROVE  q \in Reg(pthre) /\ (pd[q] > 0 \/ \E i \in 1 .. Len(st) : st[i].prio = q)
      <3>1. CASE q = p
        BY <1>2, <3>1
      <3>2. CASE q # p
        <4>1. q \in Reg(pthre) /\ (pending[q] > 0 \/ \E i \in 1 .. Len(st) : st[i].prio = q)
          BY <1>3, <2>1, <3>2 DEF Sound, Ready
        <4>2. q \in Prio
          BY <4>1 DEF Reg
        <4> QED BY <1>2, <4>1, <4>2
      <3> QED BY <3>1, <3>2
    <2>2. ASSUME NEW q \in Prio, pd[q] > 0
          PROVE  IsBitSet(Marked(p), q)
      BY <1>1, <1>2, <1>3, <2>2 DEF Sound, Ready
    <2> QED BY <2>1, <2>2 DEF Ready
  <1>5. Gets(pd, st)
    BY <1>2 DEF Sound, Gets
  <1>6. Sound(st, pthre, run, lc, Marked(p), pd)
    BY <1>4, <1>5 DEF Sound
  <1> QED BY <1>2, <1>3, <1>6 DEF pd

(* EDF_activeObject_postFIFO in thread mode. While the ready set stays as  *)
(* it is, so does what the scheduler sees.                                 *)
LEMMA PostKeeps ==
  ASSUME Typed, NEW st,
         Sound(st, pthre, running, lock_ceiling, ready_set, pending),
         active_priority = Last(st).prio,
         active_preemption_threshold = Thr(pthre, Last(st).prio),
         next_priority = 0, NEW p \in Reg(pthre), PostFIFO(p, st),
         UNCHANGED <<pthre, lock_ceiling, isr, pendsv, running>>, ~pendsv
  PROVE  /\ CortexInv'
         /\ HighestInv /\ isr = 0 => HighestInv'
  <1>1. /\ Sound(st, pthre, running, lock_ceiling, ready_set', pending')
        /\ ready_set' \in Bytes(MaskLen) /\ pending' \in [Prio -> 0 .. Capacity]
    <2>1. ready_set' = Marked(p) /\ pending' = [pending EXCEPT ![p] = @ + 1]
          /\ pending[p] < Capacity
      BY DEF PostFIFO
    <2> HIDE DEF PostFIFO
    <2>2. /\ Sound(st, pthre, running, lock_ceiling, Marked(p), [pending EXCEPT ![p] = @ + 1])
          /\ Marked(p) \in Bytes(MaskLen)
          /\ [pending EXCEPT ![p] = @ + 1] \in [Prio -> 0 .. Capacity]
      <3>1. /\ pthre \in Thresholds /\ pending \in [Prio -> 0 .. Capacity]
            /\ ready_set \in Bytes(MaskLen) /\ running \in BOOLEAN
        BY DEF Typed
      <3> QED BY <2>1, <3>1, MarkedKeeps
    <2> QED BY <2>1, <2>2
  <1>2. Typed'
    BY <1>1 DEF Typed
  <1>3. /\ Sound(stack', pthre, running, lock_ceiling, ready_set', pending')
        /\ active_priority' = Last(stack').prio
        /\ active_preemption_threshold' = Thr(pthre, Last(stack').prio)
        /\ next_priority' = 0
        /\ \/ FindMax(ready_set') <= active_preemption_threshold'
           \/ FindMax(ready_set') <= lock_ceiling
           \/ /\ ready_set' = ready_set
              /\ active_preemption_threshold' = active_preemption_threshold
    <2>1. CASE pending[p] = 0
      <3>1. Reschedule(ready_set', lock_ceiling, st)
        BY <2>1 DEF PostFIFO
      <3>2. pending' \in [Prio -> Nat]
        BY <1>1, Constants
      <3> HIDE DEF Reschedule
      <3> QED BY <1>1, <3>1, <3>2, RescheduleKeeps DEF Typed
    <2>2. CASE pending[p] # 0
      BY <1>1, <2>2 DEF PostFIFO, active, Marked
    <2> QED BY <2>1, <2>2
  <1>4. CortexInv'
    BY <1>2, <1>3 DEF CortexInv, Described, Pending
  <1>5. HighestInv /\ isr = 0 => HighestInv'
    BY <1>3 DEF HighestInv
  <1> QED BY <1>4, <1>5

-----------------------------------------------------------------------------
LEMMA TopIs ==
  ASSUME CortexInv
  PROVE  /\ stack \in Seq(Contexts) /\ stack # <<>> /\ Top \in Contexts
         /\ Top = Last(stack) /\ Top = stack[Len(stack)] /\ Len(stack) \in Nat \ {0}
         /\ Top.subs_list \subseteq Reg(pthre)
         /\ LockIs(Top, stack, Len(stack) - 1)
  <1>1. /\ stack \in Seq(Contexts) /\ stack # <<>> /\ Top \in Contexts
        /\ Top = Last(stack) /\ Top = stack[Len(stack)] /\ Len(stack) \in Nat \ {0}
    BY DEF CortexInv, Sound, Nested, Top, Last
  <1>2. Len(stack) \in 1 .. Len(stack)
    BY <1>1
  <1>3. Top.subs_list \subseteq Reg(pthre)
    BY <1>1, <1>2 DEF CortexInv, Sound, Nested
  <1>4. LockIs(Top, stack, Len(stack) - 1)
    BY <1>1, <1>2 DEF CortexInv, Sound, Locks
  <1> QED BY <1>1, <1>3, <1>4

(* Steps of thread mode that schedule nobody, and change only the place of *)
(* the topmost context and its subscribers.                                *)
LEMMA TopMoves ==
  ASSUME CortexInv, NEW c \in Contexts,
         c.prio = Top.prio, c.prio_in = Top.prio_in, c.pthre_in = Top.pthre_in,
         c.subs_list \subseteq Reg(pthre),
         c.sched_status = Top.sched_status, c.ceiling = Top.ceiling,
         c.at # "multicast" => c.sched_status = NotLocked, c.at # "get"
  PROVE  /\ Sound(WithTop(c), pthre, running, lock_ceiling, ready_set, pending)
         /\ Last(WithTop(c)) = c
  BY TopIs, SoundMoves DEF CortexInv, Typed, WithTop

LEMMA StartKeeps ==
  ASSUME CortexInv, HighestInv, NEW prio \in Prio, NEW threshold \in prio .. MaxAO,
         Start(prio, threshold)
  PROVE  CortexInv' /\ HighestInv'
  <1>1. /\ ~running /\ isr = 0 /\ ~pendsv /\ pthre[prio] = 0
        /\ pthre' = [pthre EXCEPT ![prio] = threshold]
        /\ Reschedule(ready_set, lock_ceiling, stack)
        /\ UNCHANGED <<pending, ready_set, lock_ceiling, isr, pendsv, running>>
    BY DEF Start, Thread
  <1>2. Len(stack) = 1 /\ lock_ceiling = MaxAO + 1 /\ Last(stack) = stack[1]
        /\ stack[1].prio = 0
    BY <1>1, TopIs DEF CortexInv, Sound, Nested, Last
  <1>3. FindMax(ready_set) <= lock_ceiling
    <2>1. FindMax(ready_set) \in Positions(MaskLen) /\ IsBitSet(ready_set, FindMax(ready_set))
          => FindMax(ready_set) \in Prio
      BY DEF CortexInv, Sound, Ready, Reg
    <2>2. FindMax(ready_set) = 0 \/ FindMax(ready_set) \in Prio
      BY <2>1, FindMaxFindsABit, Constants DEF CortexInv, Typed
    <2>3. FindMax(ready_set) \in 0 .. MaxAO
      BY <2>2, Priorities
    <2> QED BY <1>2, <2>3, Constants
  <1>4. UNCHANGED <<stack, active_priority, active_preemption_threshold, next_priority>>
    BY <1>1, <1>3 DEF Reschedule, Schedule, active
  <1>5. pthre' \in Thresholds /\ Reg(pthre) \subseteq Reg(pthre')
    BY <1>1, Constants DEF CortexInv, Typed, Thresholds, Reg
  <1>6. Nested(stack, pthre')
    BY <1>2, <1>5 DEF CortexInv, Sound, Nested
  <1>7. Ready(ready_set, pending, stack, pthre')
    BY <1>5 DEF CortexInv, Sound, Ready
  <1>8. Sound(stack', pthre', running', lock_ceiling', ready_set', pending')
    BY <1>1, <1>4, <1>6, <1>7 DEF CortexInv, Sound
  <1>9. Typed' /\ Described'
    BY <1>1, <1>2, <1>4, <1>5 DEF CortexInv, Typed, Described, Thr
  <1>10. Pending'
    BY <1>1, <1>4 DEF CortexInv, Pending
  <1> QED BY <1>1, <1>8, <1>9, <1>10 DEF CortexInv, HighestInv

LEMMA RunKeeps ==
  ASSUME CortexInv, HighestInv, Run
  PROVE  CortexInv' /\ HighestInv'
  <1>1. /\ ~running /\ isr = 0 /\ ~pendsv /\ running' = TRUE /\ lock_ceiling' = 0
        /\ Reschedule(ready_set, 0, stack)
        /\ UNCHANGED <<pthre, pending, ready_set, isr, pendsv>>
    BY DEF Run, Thread
  <1>2. InForce(stack, 0)
    <2>1. Len(stack) = 1 /\ Top.sched_status = NotLocked
      BY <1>1, TopIs DEF CortexInv, Sound
    <2>2. Top.ceiling = 0
      BY <2>1, TopIs DEF LockIs
    <2> QED BY <2>1, <2>2, TopIs DEF InForce
  <1>3. Sound(stack, pthre, TRUE, 0, ready_set, pending)
    BY <1>2 DEF CortexInv, Sound
  <1>4. pending \in [Prio -> Nat] /\ 0 \in 0 .. MaxAO + 1 /\ next_priority = 0
    BY <1>1, Constants DEF CortexInv, Typed, Pending
  <1>5. /\ Sound(stack', pthre, TRUE, 0, ready_set, pending)
        /\ active_priority' = Last(stack').prio
        /\ active_preemption_threshold' = Thr(pthre, Last(stack').prio)
        /\ next_priority' = 0
        /\ FindMax(ready_set) <= active_preemption_threshold' \/ FindMax(ready_set) <= 0
    <2> HIDE DEF Reschedule
    <2> QED BY <1>1, <1>3, <1>4, RescheduleKeeps DEF CortexInv, Typed, Described
  <1> QED BY <1>1, <1>4, <1>5 DEF CortexInv, Typed, Described, Pending, HighestInv

LEMMA PublishKeeps ==
  ASSUME CortexInv, HighestInv, NEW S \in SUBSET Prio, Publish(S)
  PROVE  CortexInv' /\ HighestInv'
  <1> DEFINE c == [Top EXCEPT !.at = "lock", !.subs_list = S]
  <1>1. /\ S \subseteq Reg(pthre) /\ stack' = WithTop(c) /\ Top.at = "run"
        /\ UNCHANGED <<pthre, pending, ready_set, active_priority,
                       active_preemption_threshold, next_priority, lock_ceiling,
                       isr, pendsv, running>>
    BY DEF Publish, Thread, Registered, Reg, active
  <1>2. /\ c \in Contexts /\ c.prio = Top.prio /\ c.prio_in = Top.prio_in
        /\ c.pthre_in = Top.pthre_in /\ c.subs_list = S /\ c.at = "lock"
        /\ c.sched_status = Top.sched_status /\ c.ceiling = Top.ceiling
    BY TopIs DEF Contexts
  <1>3. c.sched_status = NotLocked
    BY <1>1, <1>2, TopIs DEF LockIs
  <1> HIDE DEF c
  <1>4. /\ Sound(stack', pthre, running, lock_ceiling, ready_set, pending)
        /\ Last(stack') = c
    BY <1>1, <1>2, <1>3, TopMoves
  <1> QED BY <1>1, <1>2, <1>4, TopIs DEF CortexInv, Typed, Described, Pending, HighestInv

LEMMA LockKeeps ==
  ASSUME CortexInv, HighestInv, Lock
  PROVE  CortexInv' /\ HighestInv'
  <1> DEFINE ceiling == FindMax(BitmaskOf(Top.subs_list, (MaxAO + 7) \div 8))
             d == [Top EXCEPT !.at = "multicast"]
             c == [Top EXCEPT !.at = "multicast", !.sched_status = lock_ceiling,
                              !.ceiling = ceiling]
  <1>1. /\ isr = 0 /\ ~pendsv /\ Top.at = "lock"
        /\ \/ /\ ceiling > lock_ceiling /\ lock_ceiling' = ceiling
              /\ stack' = WithTop(c)
           \/ lock_ceiling' = lock_ceiling /\ stack' = WithTop(d)
        /\ UNCHANGED <<pthre, pending, ready_set, active_priority,
                       active_preemption_threshold, next_priority,
                       isr, pendsv, running>>
    BY DEF Lock, Thread, active
  <1>2. Top.sched_status = NotLocked /\ Top.ceiling = 0
    BY <1>1, TopIs DEF LockIs
  <1>3. CASE lock_ceiling' = lock_ceiling /\ stack' = WithTop(d)
    <2>1. /\ d \in Contexts /\ d.prio = Top.prio /\ d.prio_in = Top.prio_in
          /\ d.pthre_in = Top.pthre_in /\ d.subs_list = Top.subs_list /\ d.at = "multicast"
          /\ d.sched_status = Top.sched_status /\ d.ceiling = Top.ceiling
      BY TopIs DEF Contexts
    <2> HIDE DEF d, c, ceiling
    <2>2. /\ Sound(stack', pthre, running, lock_ceiling, ready_set, pending)
          /\ Last(stack') = d
      BY <1>3, <2>1, TopIs, TopMoves
    <2> QED BY <1>1, <1>3, <2>1, <2>2, TopIs
         DEF CortexInv, Typed, Described, Pending, HighestInv
  <1>4. CASE ceiling > lock_ceiling /\ lock_ceiling' = ceiling /\ stack' = WithTop(c)
    <2>1. ceiling \in 0 .. MaxAO
      <3>1. Top.subs_list \in SUBSET Prio
        BY TopIs DEF Contexts
      <3>2. CASE Top.subs_list # {}
        <4>1. ceiling \in Top.subs_list
          BY <3>1, <3>2, FindMaxOfSet
        <4> HIDE DEF ceiling
        <4>2. ceiling \in Prio
          BY <3>1, <4>1
        <4> QED BY <4>2, Constants
      <3>3. CASE Top.subs_list = {}
        <4>1. BitmaskOf({}, MaskLen) \in Bytes(MaskLen)
              /\ \A q \in Positions(MaskLen) : ~IsBitSet(BitmaskOf({}, MaskLen), q)
          <5>1. BitmaskOf({}, MaskLen) \in Bytes(MaskLen)
            BY DEF BitmaskOf, Bytes
          <5>2. {} \in SUBSET Positions(MaskLen)
            OBVIOUS
          <5> QED BY <5>1, <5>2, Constants, BitmaskOfSet
        <4>2. FindMax(BitmaskOf({}, MaskLen)) = 0
          BY <4>1, FindMaxFindsABit, Constants
        <4> QED BY <3>3, <4>2, Constants DEF MaskLen
      <3> QED BY <3>2, <3>3
    <2> HIDE DEF ceiling
    <2>2. lock_ceiling \in Nat /\ lock_ceiling \in 0 .. MaxAO /\ running
          /\ InForce(stack, lock_ceiling) /\ lock_ceiling # NotLocked
      BY <1>4, <2>1, Constants DEF CortexInv, Typed, Sound
    <2>3. /\ c \in Contexts /\ c.prio = Top.prio /\ c.prio_in = Top.prio_in
          /\ c.pthre_in = Top.pthre_in /\ c.subs_list = Top.subs_list /\ c.at = "multicast"
          /\ c.sched_status = lock_ceiling /\ c.ceiling = ceiling
      BY <2>1, <2>2, TopIs DEF Contexts
    <2> HIDE DEF c
    <2> DEFINE new == Append(Front(stack), c)
    <2>4. /\ Nested(new, pthre)
          /\ Len(new) = Len(stack) /\ Len(stack) \in Nat \ {0} /\ new \in Seq(Contexts)
          /\ \A i \in 1 .. Len(stack) - 1 : new[i] = stack[i]
          /\ new[Len(stack)] = c /\ Last(new) = c
      BY <2>3, TopIs, NestedMoves, LastReplaced DEF CortexInv, Typed, Sound
    <2>5. LockIs(c, stack, Len(stack) - 1)
      BY <1>2, <1>4, <2>2, <2>3, TopIs DEF LockIs, InForce
    <2>6. Locks(new)
      BY <2>3, <2>5, TopIs, LocksMoves DEF CortexInv, Sound
    <2>7. InForce(new, ceiling)
      BY <1>4, <2>2, <2>3, TopIs, InForceLocks
    <2> HIDE DEF new
    <2>8. Ready(ready_set, pending, new, pthre)
      <3>1. \A i \in 1 .. Len(stack) : new[i].prio = stack[i].prio
        BY <2>3, <2>4, TopIs
      <3> QED BY <2>4, <3>1, TopIs, ReadyMoves DEF CortexInv, Sound
    <2>9. Gets(pending, new)
      BY <2>3, <2>4 DEF CortexInv, Sound, Gets
    <2>10. Sound(stack', pthre, running, ceiling, ready_set, pending) /\ Last(stack') = c
      BY <1>4, <2>2, <2>4, <2>6, <2>7, <2>8, <2>9 DEF Sound, WithTop, new
    <2>11. CortexInv'
      <3>1. Typed' /\ Pending'
        BY <1>1, <1>4, <2>1, Constants DEF CortexInv, Typed, Pending
      <3>2. Described'
        BY <1>1, <2>3, <2>10, TopIs DEF CortexInv, Described
      <3>3. Sound(stack, pthre, running, lock_ceiling, ready_set, pending)'
        BY <1>1, <1>4, <2>10
      <3> QED BY <3>1, <3>2, <3>3 DEF CortexInv
    <2>12. HighestInv'
      <3>1. FindMax(ready_set) \in Nat
        BY ScheduledIsInt DEF CortexInv, Typed
      <3> QED BY <1>1, <1>4, <2>1, <2>2, <3>1, Constants DEF HighestInv
    <2> QED BY <2>11, <2>12
  <1> QED BY <1>1, <1>3, <1>4

LEMMA PostStepKeeps ==
  ASSUME CortexInv, HighestInv, NEW prio \in Prio, Post(prio)
  PROVE  CortexInv' /\ HighestInv'
  <1>1. /\ isr = 0 /\ ~pendsv /\ prio \in Reg(pthre) /\ PostFIFO(prio, stack)
        /\ UNCHANGED <<pthre, lock_ceiling, isr, pendsv, running>>
    BY DEF Post, Thread, Registered, Reg
  <1>2. next_priority = 0
    BY <1>1 DEF CortexInv, Pending
  <1> QED BY <1>1, <1>2, PostKeeps DEF CortexInv, Described

LEMMA MulticastKeeps ==
  ASSUME CortexInv, HighestInv, Multicast
  PROVE  CortexInv' /\ HighestInv'
  <1> DEFINE prio == FindMax(BitmaskOf(Top.subs_list, (MaxAO + 7) \div 8))
             c == [Top EXCEPT !.subs_list = @ \ {prio}]
  <1>1. /\ isr = 0 /\ ~pendsv /\ Top.at = "multicast" /\ Top.subs_list # {}
        /\ PostFIFO(prio, WithTop(c))
        /\ UNCHANGED <<pthre, lock_ceiling, isr, pendsv, running>>
    BY DEF Multicast, Thread
  <1>2. prio \in Reg(pthre)
    <2>1. Top.subs_list \in SUBSET Prio
      BY TopIs DEF Contexts
    <2> QED BY <1>1, <2>1, FindMaxOfSet, TopIs
  <1> HIDE DEF prio
  <1>3. /\ c \in Contexts /\ c.prio = Top.prio /\ c.prio_in = Top.prio_in
        /\ c.pthre_in = Top.pthre_in /\ c.subs_list \subseteq Top.subs_list
        /\ c.at = "multicast"
        /\ c.sched_status = Top.sched_status /\ c.ceiling = Top.ceiling
    BY <1>1, TopIs DEF Contexts
  <1> HIDE DEF c
  <1>4. /\ Sound(WithTop(c), pthre, running, lock_ceiling, ready_set, pending)
        /\ Last(WithTop(c)) = c
    BY <1>3, TopIs, TopMoves
  <1>5. next_priority = 0
    BY <1>1 DEF CortexInv, Pending
  <1>6. active_priority = Last(WithTop(c)).prio
        /\ active_preemption_threshold = Thr(pthre, Last(WithTop(c)).prio)
    BY <1>3, <1>4, TopIs DEF CortexInv, Described
  <1> QED BY <1>1, <1>2, <1>4, <1>5, <1>6, PostKeeps DEF CortexInv

LEMMA UnlockKeeps ==
  ASSUME CortexInv, HighestInv, Unlock
  PROVE  CortexInv' /\ HighestInv'
  <1> DEFINE c == Unlocked
  <1>1. /\ isr = 0 /\ ~pendsv /\ Top.at = "multicast"
        /\ IF Top.sched_status # NotLocked
           THEN /\ lock_ceiling' = Top.sched_status
                /\ Reschedule(ready_set, Top.sched_status, WithTop(c))
           ELSE /\ stack' = WithTop(c)
                /\ UNCHANGED <<lock_ceiling, active_priority,
                               active_preemption_threshold, next_priority>>
        /\ UNCHANGED <<pthre, pending, ready_set, isr, pendsv, running>>
    BY DEF Unlock, Thread, active
  <1>2. /\ c \in Contexts /\ c.prio = Top.prio /\ c.prio_in = Top.prio_in
        /\ c.pthre_in = Top.pthre_in /\ c.subs_list = Top.subs_list /\ c.at = "run"
        /\ c.sched_status = NotLocked /\ c.ceiling = 0
    BY TopIs, Priorities DEF Contexts, Unlocked
  <1>3. next_priority = 0
    BY <1>1 DEF CortexInv, Pending
  <1> HIDE DEF c, Reschedule
  <1>4. CASE Top.sched_status = NotLocked
    <2>1. Top.ceiling = 0
      BY <1>4, TopIs DEF LockIs
    <2>2. /\ Sound(stack', pthre, running, lock_ceiling, ready_set, pending)
          /\ Last(stack') = c
      BY <1>1, <1>2, <1>4, <2>1, TopIs, TopMoves
    <2> QED BY <1>1, <1>2, <1>4, <2>2, TopIs
         DEF CortexInv, Typed, Described, Pending, HighestInv
  <1>5. CASE Top.sched_status # NotLocked
    <2> DEFINE sched == Top.sched_status
               new == Append(Front(stack), c)
    <2>1. running /\ sched \in 0 .. MaxAO /\ sched \in 0 .. MaxAO + 1
      <3>1. sched \in 0 .. MaxAO
        BY <1>5, TopIs DEF Contexts
      <3>2. sched \in 0 .. MaxAO + 1
        BY <3>1, Constants
      <3> QED BY <1>5, <3>1, <3>2, TopIs DEF CortexInv, Sound
    <2>2. /\ Nested(new, pthre)
          /\ Len(new) = Len(stack) /\ Len(stack) \in Nat \ {0} /\ new \in Seq(Contexts)
          /\ \A i \in 1 .. Len(stack) - 1 : new[i] = stack[i]
          /\ new[Len(stack)] = c /\ Last(new) = c
      BY <1>2, TopIs, NestedMoves, LastReplaced DEF CortexInv, Typed, Sound
    <2>3. LockIs(c, stack, Len(stack) - 1)
      BY <1>2 DEF LockIs
    <2>4. Locks(new)
      BY <1>2, <2>3, TopIs, LocksMoves DEF CortexInv, Sound
    <2>5. InForce(new, sched)
      BY <1>2, <1>5, TopIs, InForceUnlocks DEF CortexInv, Sound
    <2> HIDE DEF new
    <2>6. Ready(ready_set, pending, new, pthre)
      <3>1. \A i \in 1 .. Len(stack) : new[i].prio = stack[i].prio
        BY <1>2, <2>2, TopIs
      <3> QED BY <2>2, <3>1, TopIs, ReadyMoves DEF CortexInv, Sound
    <2>7. Gets(pending, new)
      BY <1>2, <2>2 DEF CortexInv, Sound, Gets
    <2>8. Sound(new, pthre, running, sched, ready_set, pending)
      BY <2>1, <2>2, <2>4, <2>5, <2>6, <2>7 DEF Sound
    <2>9. active_priority = Last(new).prio
          /\ active_preemption_threshold = Thr(pthre, Last(new).prio)
      BY <1>2, <2>2, TopIs DEF CortexInv, Described
    <2>10. Reschedule(ready_set, sched, new)
      BY <1>1, <1>5 DEF new, WithTop
    <2>11. /\ pthre \in Thresholds /\ running \in BOOLEAN /\ ready_set \in Bytes(MaskLen)
           /\ pending \in [Prio -> Nat]
      BY Constants DEF CortexInv, Typed
    <2> HIDE DEF sched
    <2>12. /\ Sound(stack', pthre, running, sched, ready_set, pending)
           /\ active_priority' = Last(stack').prio
           /\ active_preemption_threshold' = Thr(pthre, Last(stack').prio)
           /\ next_priority' = 0
           /\ FindMax(ready_set) <= active_preemption_threshold' \/ FindMax(ready_set) <= sched
      BY <1>3, <2>1, <2>8, <2>9, <2>10, <2>11, RescheduleKeeps
    <2>13. lock_ceiling' = sched
      BY <1>1, <1>5 DEF sched
    <2> QED BY <1>1, <1>3, <2>1, <2>12, <2>13
         DEF CortexInv, Typed, Described, Pending, HighestInv
  <1> QED BY <1>4, <1>5

(* The event that is got was there for the topmost context alone.          *)
LEMMA GetKeeps ==
  ASSUME CortexInv, HighestInv, Get
  PROVE  CortexInv' /\ HighestInv'
  <1> DEFINE c == [Top EXCEPT !.at = "run"]
             pd == [pending EXCEPT ![Top.prio] = @ - 1]
             new == Append(Front(stack), c)
  <1>1. /\ isr = 0 /\ ~pendsv /\ Top.at = "get" /\ pending' = pd /\ stack' = new
        /\ UNCHANGED <<pthre, ready_set, active_priority,
                       active_preemption_threshold, next_priority, lock_ceiling,
                       isr, pendsv, running>>
    BY DEF Get, Thread, active, WithTop
  <1>2. /\ c \in Contexts /\ c.prio = Top.prio /\ c.prio_in = Top.prio_in
        /\ c.pthre_in = Top.pthre_in /\ c.subs_list = Top.subs_list /\ c.at = "run"
        /\ c.sched_status = Top.sched_status /\ c.ceiling = Top.ceiling
        /\ c.sched_status = NotLocked
    <2>1. Top.sched_status = NotLocked
      BY <1>1, TopIs DEF LockIs
    <2> QED BY <2>1, TopIs DEF Contexts
  <1>3. Top.prio \in Prio /\ pending[Top.prio] > 0
    BY <1>1, TopIs DEF CortexInv, Sound, Gets
  <1>4. /\ pd \in [Prio -> 0 .. Capacity]
        /\ \A q \in Prio : q # Top.prio => pd[q] = pending[q]
        /\ \A q \in Prio : pd[q] > 0 => pending[q] > 0
    <2>1. pending \in [Prio -> 0 .. Capacity] /\ pending[Top.prio] \in 0 .. Capacity
      BY <1>3 DEF CortexInv, Typed
    <2>2. pending[Top.prio] - 1 \in 0 .. Capacity
      BY <1>3, <2>1, Counts
    <2>3. \A q \in Prio : q # Top.prio => pd[q] = pending[q]
      BY <2>1
    <2> QED BY <1>3, <2>1, <2>2, <2>3
  <1>5. /\ Sound(new, pthre, running, lock_ceiling, ready_set, pending)
        /\ Last(new) = c
    BY <1>1, <1>2, TopIs, TopMoves DEF WithTop
  <1>6. /\ Len(new) = Len(stack) /\ Len(stack) \in Nat \ {0} /\ new \in Seq(Contexts)
        /\ \A i \in 1 .. Len(stack) - 1 : new[i] = stack[i]
        /\ new[Len(stack)] = c
    BY <1>2, TopIs, LastReplaced
  <1> HIDE DEF c, pd, new
  <1>7. Ready(ready_set, pd, new, pthre)
    <2>1. ASSUME NEW q \in Positions(MaskLen), IsBitSet(ready_set, q)
          PROVE  q \in Reg(pthre) /\ (pd[q] > 0 \/ \E i \in 1 .. Len(new) : new[i].prio = q)
      <3>1. q \in Reg(pthre) /\ (pending[q] > 0 \/ \E i \in 1 .. Len(new) : new[i].prio = q)
        BY <1>5, <2>1 DEF Sound, Ready
      <3>2. q \in Prio
        BY <3>1 DEF Reg
      <3>3. q = Top.prio => new[Len(stack)].prio = q
        BY <1>2, <1>6
      <3> QED BY <1>4, <1>6, <3>1, <3>2, <3>3
    <2> QED BY <1>4, <1>5, <2>1 DEF Sound, Ready
  <1>8. Gets(pd, new)
    <2> SUFFICES ASSUME NEW i \in 1 .. Len(new), new[i].at = "get"
                 PROVE  new[i].prio \in Prio /\ pd[new[i].prio] > 0
      BY DEF Gets
    <2>1. i \in 1 .. Len(stack) - 1 /\ new[i] = stack[i] /\ i < Len(stack)
      BY <1>2, <1>6
    <2>2. stack[i].prio \in Prio /\ pending[stack[i].prio] > 0
      BY <1>6, <2>1 DEF CortexInv, Sound, Gets
    <2>3. Len(stack) \in 1 .. Len(stack) /\ i \in 1 .. Len(stack)
      BY <1>6, <2>1
    <2>4. Top.prio > Thr(pthre, stack[i].prio)
      BY <2>1, <2>3, TopIs DEF CortexInv, Sound, Nested
    <2>5. stack[i].prio # Top.prio
      <3>1. stack[i] \in Contexts /\ (stack[i].prio = 0 \/ stack[i].prio \in Reg(pthre))
        BY <2>3, TopIs DEF CortexInv, Sound, Nested
      <3>2. stack[i].prio \in Reg(pthre)
        BY <2>2, <3>1, Constants
      <3>3. /\ stack[i].prio <= Thr(pthre, stack[i].prio)
            /\ stack[i].prio \in 0 .. MaxAO /\ Thr(pthre, stack[i].prio) \in 0 .. MaxAO
        BY <3>1, <3>2, Numbers DEF CortexInv, Typed
      <3> QED BY <1>3, <2>4, <3>3, Constants
    <2> QED BY <1>4, <2>1, <2>2, <2>5
  <1>9. Sound(new, pthre, running, lock_ceiling, ready_set, pd)
    BY <1>5, <1>7, <1>8 DEF Sound
  <1>10. Typed' /\ Pending'
    BY <1>1, <1>4 DEF CortexInv, Typed, Pending
  <1>11. Described'
    BY <1>1, <1>2, <1>5, TopIs DEF CortexInv, Described
  <1>12. HighestInv'
    BY <1>1 DEF HighestInv
  <1> QED BY <1>1, <1>9, <1>10, <1>11, <1>12 DEF CortexInv

LEMMA ReturnKeeps ==
  ASSUME CortexInv, HighestInv, Return
  PROVE  CortexInv' /\ HighestInv'
  <1> DEFINE prio == FindMax(Emptied)
             c == [Top EXCEPT !.prio = prio, !.at = "get"]
             below == Front(stack)
  <1>1. /\ isr = 0 /\ ~pendsv /\ Top.at = "run" /\ Len(stack) > 1 /\ ready_set' = Emptied
        /\ IF ScheduleAfter(Emptied, Top.pthre_in) # 0
           THEN /\ stack' = Append(below, [Top EXCEPT !.prio = ScheduleAfter(Emptied, Top.pthre_in),
                                                     !.at = "get"])
                /\ active_priority' = ScheduleAfter(Emptied, Top.pthre_in)
                /\ active_preemption_threshold' = pthre[ScheduleAfter(Emptied, Top.pthre_in)]
           ELSE Resume
        /\ UNCHANGED <<pthre, pending, next_priority, lock_ceiling, isr, pendsv, running>>
    BY DEF Return, Thread, WithTop
  <1>2. Top.sched_status = NotLocked /\ Top.ceiling = 0
    BY <1>1, TopIs DEF LockIs
  <1>3. /\ Emptied \in Bytes(MaskLen)
        /\ \A q \in Positions(MaskLen) : IsBitSet(Emptied, q) <=>
             IsBitSet(ready_set, q) /\ (q = Top.prio => pending[q] > 0)
    <2>1. Top.prio \in Prio /\ Top.prio \in Positions(MaskLen) /\ ready_set \in Bytes(MaskLen)
          /\ pending[Top.prio] \in Nat /\ MaskLen \in Nat
      <3>1. Top.prio \in Reg(pthre)
        <4>1. Top = stack[Len(stack)] /\ Len(stack) \in 2 .. Len(stack)
          BY <1>1, TopIs
        <4>2. \A i \in 2 .. Len(stack) : stack[i].prio \in Reg(pthre)
          BY DEF CortexInv, Sound, Nested
        <4> QED BY <4>1, <4>2
      <3>2. Top.prio \in Prio /\ pending \in [Prio -> 0 .. Capacity]
            /\ ready_set \in Bytes(MaskLen)
        BY <3>1 DEF CortexInv, Typed, Reg
      <3>3. pending[Top.prio] \in 0 .. Capacity
        BY <3>2
      <3>4. pending[Top.prio] \in Nat
        BY <3>3, Counts
      <3> QED BY <3>2, <3>4, Constants
    <2>2. CASE pending[Top.prio] = 0
      BY <2>1, <2>2, ClearBitClears DEF Emptied
    <2>3. CASE pending[Top.prio] # 0
      BY <2>1, <2>3 DEF Emptied
    <2> QED BY <2>2, <2>3
  <1> HIDE DEF Emptied
  <1>4. /\ Sound(below, pthre, running, lock_ceiling, Emptied, pending) /\ running
        /\ Last(below).prio = Top.prio_in /\ Thr(pthre, Last(below).prio) = Top.pthre_in
    BY <1>1, <1>2, <1>3, TopIs, SoundShrinks DEF CortexInv, Typed
  <1>5. prio \in Nat /\ Top.pthre_in \in 0 .. MaxAO /\ next_priority = 0
        /\ pending \in [Prio -> Nat] /\ lock_ceiling \in 0 .. MaxAO + 1
    BY <1>1, <1>3, ScheduledIsInt, TopIs, Constants DEF Contexts, CortexInv, Typed, Pending
  <1>6. CASE prio <= Top.pthre_in \/ prio <= lock_ceiling
    <2>1. stack' = below /\ active_priority' = Top.prio_in
          /\ active_preemption_threshold' = Top.pthre_in
      BY <1>1, <1>6 DEF ScheduleAfter, Resume
    <2> HIDE DEF below, prio
    <2>2. CortexInv'
      BY <1>1, <1>3, <1>4, <1>5, <2>1 DEF CortexInv, Typed, Described, Pending
    <2>3. HighestInv'
      BY <1>1, <1>6, <2>1 DEF HighestInv, prio
    <2> QED BY <2>2, <2>3
  <1>7. CASE prio > Top.pthre_in /\ prio > lock_ceiling
    <2>1. prio \in Reg(pthre) /\ pending[prio] > 0
      BY <1>3, <1>4, <1>5, <1>7, MaySchedule DEF CortexInv, Typed
    <2>2. prio \in Prio /\ prio # 0 /\ pthre[prio] >= prio /\ Thr(pthre, prio) = pthre[prio]
      BY <2>1, <1>5, <1>7, Constants DEF Reg, CortexInv, Typed, Thresholds, Thr
    <2>3. /\ c \in Contexts /\ c.prio = prio /\ c.prio_in = Top.prio_in
          /\ c.pthre_in = Top.pthre_in /\ c.subs_list = Top.subs_list
          /\ c.sched_status = NotLocked /\ c.ceiling = 0
      <3> HIDE DEF prio
      <3> QED BY <1>2, <2>2, TopIs DEF Contexts
    <2>4. stack' = Append(below, c) /\ active_priority' = prio
          /\ active_preemption_threshold' = pthre[prio]
      <3>1. ScheduleAfter(Emptied, Top.pthre_in) = prio
        BY <1>5, <1>7, Constants DEF ScheduleAfter
      <3> QED BY <1>1, <2>2, <3>1
    <2> HIDE DEF c, below
    <2>5. /\ Sound(stack', pthre, running, lock_ceiling, Emptied, pending)
          /\ Last(stack') = c
      <3>1. pthre \in Thresholds /\ running \in BOOLEAN
        BY DEF CortexInv, Typed
      <3> HIDE DEF prio
      <3>2. /\ c.prio \in Reg(pthre) /\ c.prio > Thr(pthre, Last(below).prio)
            /\ c.prio > lock_ceiling /\ pending[c.prio] > 0
            /\ c.prio_in = Last(below).prio /\ c.pthre_in = Thr(pthre, Last(below).prio)
            /\ c.subs_list \subseteq Reg(pthre)
        BY <1>4, <1>7, <2>1, <2>3, TopIs
      <3>3. /\ Sound(Append(below, c), pthre, running, lock_ceiling, Emptied, pending)
            /\ Last(Append(below, c)) = c
        <4>1. /\ Sound(below, pthre, running, lock_ceiling, Emptied, pending)
              /\ c \in Contexts /\ c.sched_status = NotLocked /\ c.ceiling = 0
              /\ lock_ceiling \in 0 .. MaxAO + 1 /\ pending \in [Prio -> Nat]
          BY <1>4, <1>5, <2>3
        <4> QED BY <3>1, <3>2, <4>1, SoundGrows
      <3> QED BY <2>4, <3>3
    <2>6. CortexInv'
      BY <1>1, <1>3, <1>5, <2>2, <2>3, <2>4, <2>5 DEF CortexInv, Typed, Described, Pending
    <2>7. HighestInv'
      BY <1>1, <2>2, <2>4 DEF HighestInv
    <2> QED BY <2>6, <2>7
  <1> QED BY <1>5, <1>6, <1>7, Constants

(* Interrupts leave the stack alone. Who PendSV will activate goes on      *)
(* waiting, above the threshold and the ceiling that its exit has seen.    *)
LEMMA ISREntryKeeps ==
  ASSUME CortexInv, HighestInv, ISREntry
  PROVE  CortexInv' /\ HighestInv'
  <1>1. /\ isr < MaxNest /\ isr' = isr + 1
        /\ UNCHANGED <<pthre, pending, ready_set, active_priority,
                       active_preemption_threshold, next_priority, lock_ceiling,
                       stack, pendsv, running>>
    BY DEF ISREntry, active
  <1>2. isr' \in 0 .. MaxNest /\ isr' # 0
    BY <1>1, Constants DEF CortexInv, Typed
  <1>3. Typed' /\ Described' /\ Pending'
    BY <1>1, <1>2 DEF CortexInv, Typed, Described, Pending
  <1>4. Sound(stack, pthre, running, lock_ceiling, ready_set, pending)'
    BY <1>1 DEF CortexInv
  <1> QED BY <1>2, <1>3, <1>4 DEF CortexInv, HighestInv

LEMMA ISRPostKeeps ==
  ASSUME CortexInv, HighestInv, NEW prio \in Prio, ISRPost(prio)
  PROVE  CortexInv' /\ HighestInv'
  <1>1. /\ isr > 0 /\ prio \in Reg(pthre) /\ pending[prio] < Capacity
        /\ pending' = [pending EXCEPT ![prio] = @ + 1] /\ ready_set' = Marked(prio)
        /\ UNCHANGED <<pthre, active_priority, active_preemption_threshold,
                       next_priority, lock_ceiling, stack, isr, pendsv, running>>
    BY DEF ISRPost, Registered, Reg, active
  <1>2. /\ Sound(stack, pthre, running, lock_ceiling, Marked(prio), [pending EXCEPT ![prio] = @ + 1])
        /\ Marked(prio) \in Bytes(MaskLen)
        /\ [pending EXCEPT ![prio] = @ + 1] \in [Prio -> 0 .. Capacity]
        /\ \A q \in Prio : pending[q] > 0 => [pending EXCEPT ![prio] = @ + 1][q] > 0
    <2>1. /\ pthre \in Thresholds /\ pending \in [Prio -> 0 .. Capacity]
          /\ ready_set \in Bytes(MaskLen) /\ running \in BOOLEAN
          /\ Sound(stack, pthre, running, lock_ceiling, ready_set, pending)
      BY DEF CortexInv, Typed
    <2> QED BY <1>1, <2>1, MarkedKeeps
  <1>3. /\ Sound(stack', pthre', running', lock_ceiling', ready_set', pending')
        /\ ready_set' \in Bytes(MaskLen) /\ pending' \in [Prio -> 0 .. Capacity]
        /\ \A q \in Prio : pending[q] > 0 => pending'[q] > 0
    BY <1>1, <1>2
  <1>4. Typed' /\ Described'
    BY <1>1, <1>3 DEF CortexInv, Typed, Described
  <1>5. Pending'
    <2>1. next_priority # 0 => next_priority \in Prio
      BY DEF CortexInv, Pending, Reg
    <2> QED BY <1>1, <1>3, <2>1 DEF CortexInv, Pending
  <1>6. isr' # 0
    BY <1>1, Constants DEF CortexInv, Typed
  <1> QED BY <1>3, <1>4, <1>5, <1>6 DEF CortexInv, HighestInv

LEMMA ISRExitKeeps ==
  ASSUME CortexInv, HighestInv, ISRExit
  PROVE  CortexInv' /\ HighestInv'
  <1> DEFINE prio == FindMax(ready_set)
  <1>1. /\ isr > 0 /\ isr' = isr - 1
        /\ IF Schedule(ready_set, lock_ceiling) # 0
           THEN next_priority' = Schedule(ready_set, lock_ceiling) /\ pendsv' = TRUE
           ELSE next_priority' = next_priority /\ pendsv' = pendsv
        /\ UNCHANGED <<pthre, pending, ready_set, active_priority,
                       active_preemption_threshold, lock_ceiling, stack, running>>
    BY DEF ISRExit, active
  <1>2. isr' \in 0 .. MaxNest
    BY <1>1, Constants DEF CortexInv, Typed
  <1>3. /\ prio \in Nat /\ active_preemption_threshold \in 0 .. MaxAO
        /\ lock_ceiling \in 0 .. MaxAO + 1 /\ pending \in [Prio -> Nat]
        /\ active_preemption_threshold = Thr(pthre, Last(stack).prio)
    <2>1. prio \in Nat /\ lock_ceiling \in 0 .. MaxAO + 1 /\ pending \in [Prio -> Nat]
      BY ScheduledIsInt, Constants DEF CortexInv, Typed
    <2>2. active_preemption_threshold = Thr(pthre, Last(stack).prio)
      BY DEF CortexInv, Described
    <2>3. Thr(pthre, Last(stack).prio) \in 0 .. MaxAO
      BY TopIs, Numbers DEF CortexInv, Typed
    <2> QED BY <2>1, <2>2, <2>3
  <1>4. Sound(stack, pthre, running, lock_ceiling, ready_set, pending)'
    BY <1>1 DEF CortexInv
  <1>5. CASE prio <= active_preemption_threshold \/ prio <= lock_ceiling
    <2>1. next_priority' = next_priority /\ pendsv' = pendsv
      BY <1>1, <1>5 DEF Schedule
    <2>2. Typed' /\ Described' /\ Pending'
      BY <1>1, <1>2, <2>1 DEF CortexInv, Typed, Described, Pending
    <2>3. pendsv => prio <= next_priority
      <3>1. pendsv => /\ next_priority > active_preemption_threshold
                      /\ next_priority > lock_ceiling
                      /\ next_priority \in Prio
        BY DEF CortexInv, Pending, Reg
      <3>2. pendsv => next_priority \in 0 .. MaxAO
        BY <3>1, Priorities
      <3> QED BY <1>3, <1>5, <3>1, <3>2, Constants
    <2>4. HighestInv'
      BY <1>1, <1>5, <2>1, <2>3 DEF HighestInv
    <2> QED BY <1>4, <2>2, <2>4 DEF CortexInv
  <1>6. CASE prio > active_preemption_threshold /\ prio > lock_ceiling
    <2>1. prio \in Reg(pthre) /\ pending[prio] > 0
      BY <1>3, <1>6, MaySchedule DEF CortexInv, Typed
    <2>2. Schedule(ready_set, lock_ceiling) = prio /\ prio # 0
      BY <1>3, <1>6, Constants DEF Schedule
    <2> HIDE DEF prio
    <2>3. next_priority' = prio /\ pendsv' = TRUE
      BY <1>1, <2>2
    <2>4. Typed' /\ Described' /\ Pending'
      BY <1>1, <1>2, <1>6, <2>1, <2>2, <2>3 DEF CortexInv, Typed, Described, Pending
    <2>5. HighestInv'
      BY <1>1, <1>3, <2>3 DEF HighestInv, prio
    <2> QED BY <1>4, <2>4, <2>5 DEF CortexInv
  <1> QED BY <1>3, <1>5, <1>6, Constants

LEMMA PendSVKeeps ==
  ASSUME CortexInv, HighestInv, PendSV
  PROVE  CortexInv' /\ HighestInv'
  <1>1. /\ isr = 0 /\ pendsv /\ pendsv' = FALSE /\ Activate(next_priority, stack)
        /\ UNCHANGED <<pthre, pending, ready_set, lock_ceiling, isr, running>>
    BY DEF PendSV
  <1>2. /\ next_priority \in Reg(pthre) /\ next_priority > Thr(pthre, Last(stack).prio)
        /\ next_priority > lock_ceiling /\ pending[next_priority] > 0
        /\ active_priority = Last(stack).prio
    BY <1>1 DEF CortexInv, Pending, Described
  <1>3. pending \in [Prio -> Nat]
    BY Constants DEF CortexInv, Typed
  <1> HIDE DEF Activate
  <1>4. /\ Sound(stack', pthre, running, lock_ceiling, ready_set, pending)
        /\ active_priority' = Last(stack').prio
        /\ active_preemption_threshold' = Thr(pthre, Last(stack').prio)
        /\ next_priority' = 0
        /\ active_preemption_threshold' >= next_priority
    BY <1>1, <1>2, <1>3, ActivateKeeps DEF CortexInv, Typed
  <1>5. CortexInv'
    BY <1>1, <1>4 DEF CortexInv, Typed, Described, Pending
  <1>6. HighestInv'
    <2>1. FindMax(ready_set) <= next_priority /\ FindMax(ready_set) \in Nat
      BY <1>1, ScheduledIsInt DEF HighestInv, CortexInv, Typed
    <2>2. next_priority \in 0 .. MaxAO
      BY <1>2, Priorities DEF Reg
    <2>3. active_preemption_threshold' \in 0 .. MaxAO
      <3>1. Last(stack') \in Contexts
        BY <1>4 DEF Sound, Nested, Last
      <3> QED BY <1>4, <3>1, Numbers DEF CortexInv, Typed
    <2>4. FindMax(ready_set) <= active_preemption_threshold'
      BY <1>4, <2>1, <2>2, <2>3, Constants
    <2> QED BY <1>1, <2>4 DEF HighestInv
  <1> QED BY <1>5, <1>6

-----------------------------------------------------------------------------
LEMMA CortexInit ==
  ASSUME Init
  PROVE  CortexInv /\ HighestInv
  <1> DEFINE c == Idle
  <1>1. /\ c \in Contexts /\ c.prio = 0 /\ c.subs_list = {} /\ c.at = "run"
        /\ c.sched_status = NotLocked /\ c.ceiling = 0
    BY Priorities DEF Idle, Context, Contexts
  <1>2. stack = <<c>> /\ Len(stack) = 1 /\ stack[1] = c /\ Last(stack) = c
        /\ stack \in Seq(Contexts) /\ stack # <<>>
    <2> HIDE DEF c
    <2>1. stack = <<c>>
      BY DEF Init, c
    <2> QED BY <1>1, <2>1 DEF Last
  <1> HIDE DEF c
  <1>3. /\ \A q \in Positions(MaskLen) : ~IsBitSet(ready_set, q)
        /\ ready_set \in Bytes(MaskLen)
    <2>1. ready_set = BitmaskOf({}, MaskLen)
      BY DEF Init, MaskLen
    <2>2. BitmaskOf({}, MaskLen) \in Bytes(MaskLen) /\ {} \in SUBSET Positions(MaskLen)
      BY DEF BitmaskOf, Bytes
    <2> QED BY <2>1, <2>2, BitmaskOfSet, Constants
  <1>4. /\ pthre = [p \in Prio |-> 0] /\ pending = [p \in Prio |-> 0]
        /\ active_priority = 0 /\ active_preemption_threshold = 0
        /\ next_priority = 0 /\ lock_ceiling = MaxAO + 1
        /\ isr = 0 /\ pendsv = FALSE /\ running = FALSE
    BY DEF Init
  <1>5. Typed
    <2>1. 0 \in 0 .. Capacity /\ MaxAO + 1 \in 0 .. MaxAO + 1 /\ 0 \in 0 .. MaxNest
      BY Constants
    <2> QED BY <1>3, <1>4, <2>1, Priorities DEF Typed, Thresholds
  <1>6. Nested(stack, pthre)
    BY <1>1, <1>2 DEF Nested
  <1>7. Locks(stack)
    BY <1>1, <1>2 DEF Locks, LockIs
  <1>8. Ready(ready_set, pending, stack, pthre) /\ Gets(pending, stack)
    <2>1. \A p \in Prio : ~(pending[p] > 0)
      BY <1>4
    <2> QED BY <1>1, <1>2, <1>3, <2>1 DEF Ready, Gets
  <1>9. Described /\ Pending
    BY <1>1, <1>2, <1>4 DEF Described, Pending, Thr
  <1> QED BY <1>1, <1>2, <1>4, <1>5, <1>6, <1>7, <1>8, <1>9 DEF CortexInv, Sound, HighestInv

LEMMA CortexNext ==
  ASSUME CortexInv, HighestInv, [Next]_vars
  PROVE  CortexInv' /\ HighestInv'
  <1>1. CASE UNCHANGED vars
    BY <1>1 DEF vars, active, CortexInv, Typed, Described, Pending, HighestInv, Top
  <1>2. ASSUME NEW p \in Prio, NEW t \in p .. MaxAO, Start(p, t)
        PROVE  CortexInv' /\ HighestInv'
    BY <1>2, StartKeeps
  <1>3. ASSUME NEW p \in Prio, Post(p)
        PROVE  CortexInv' /\ HighestInv'
    BY <1>3, PostStepKeeps
  <1>4. ASSUME NEW p \in Prio, ISRPost(p)
        PROVE  CortexInv' /\ HighestInv'
    BY <1>4, ISRPostKeeps
  <1>5. ASSUME NEW S \in SUBSET Prio, Publish(S)
        PROVE  CortexInv' /\ HighestInv'
    BY <1>5, PublishKeeps
  <1>6. CASE Run
    BY <1>6, RunKeeps
  <1>7. CASE Lock
    BY <1>7, LockKeeps
  <1>8. CASE Multicast
    BY <1>8, MulticastKeeps
  <1>9. CASE Unlock
    BY <1>9, UnlockKeeps
  <1>10. CASE Get
    BY <1>10, GetKeeps
  <1>11. CASE Return
    BY <1>11, ReturnKeeps
  <1>12. CASE ISREntry
    BY <1>12, ISREntryKeeps
  <1>13. CASE ISRExit
    BY <1>13, ISRExitKeeps
  <1>14. CASE PendSV
    BY <1>14, PendSVKeeps
  <1> QED BY <1>1, <1>2, <1>3, <1>4, <1>5, <1>6, <1>7, <1>8, <1>9, <1>10, <1>11,
             <1>12, <1>13, <1>14 DEF Next

LEMMA CortexAlways == Spec => [](CortexInv /\ HighestInv)
  <1>1. Init => CortexInv /\ HighestInv
    BY CortexInit
  <1>2. CortexInv /\ HighestInv /\ [Next]_vars => (CortexInv /\ HighestInv)'
    BY CortexNext
  <1> QED BY <1>1, <1>2, PTL DEF Spec

-----------------------------------------------------------------------------
LEMMA ContextsFit ==
  ASSUME CortexInv
  PROVE  ContextConsistent
  <1>1. /\ \A c \in Contexts : c.prio \in Prio \cup {0} /\ c.ceiling \in 0 .. MaxAO
        /\ \A i \in 1 .. Len(stack) : stack[i] \in Contexts
    <2>1. \A c \in Contexts : c.prio \in Prio \cup {0} /\ c.ceiling \in 0 .. MaxAO
      BY DEF Contexts
    <2> QED BY <2>1, TopIs
  <1>2. \A p : p \in Prio \cup {0} => Threshold(p) = Thr(pthre, p)
    BY DEF Threshold, Thr
  <1>3. \A i \in 1 .. Len(stack) : Threshold(stack[i].prio) = Thr(pthre, stack[i].prio)
    BY <1>1, <1>2
  <1>4. DOMAIN stack = 1 .. Len(stack) /\ Len(stack) \in 1 .. Len(stack) /\ 1 \in 1 .. Len(stack)
    BY TopIs
  <1>5. TypeOK
    <2>1. \A p \in Prio : pthre[p] \in {0} \cup p .. MaxAO
      <3> TAKE p \in Prio
      <3>1. pthre[p] \in 0 .. MaxAO /\ (pthre[p] # 0 => p <= pthre[p])
        BY DEF CortexInv, Typed, Thresholds
      <3>2. p \in 0 .. MaxAO
        BY Priorities
      <3> QED BY <3>1, <3>2, Constants
    <2>2. active_priority \in Registered \cup {0}
      <3>1. Top.prio = 0 \/ Top.prio \in Reg(pthre)
        BY <1>4, TopIs DEF CortexInv, Sound, Nested
      <3> QED BY <3>1, TopIs DEF CortexInv, Described, Registered, Reg
    <2>3. active_preemption_threshold \in 0 .. MaxAO
      BY TopIs, Numbers DEF CortexInv, Typed, Described
    <2>4. next_priority \in Registered \cup {0}
      BY DEF CortexInv, Pending, Registered, Reg
    <2> QED BY <2>1, <2>2, <2>3, <2>4, TopIs DEF TypeOK, CortexInv, Typed, MaskLen
  <1>6. active_priority = Top.prio /\ active_preemption_threshold = Threshold(Top.prio)
    BY <1>3, <1>4, TopIs DEF CortexInv, Described
  <1>7. \A i \in 2 .. Len(stack) :
          /\ stack[i].prio_in = stack[i - 1].prio
          /\ stack[i].pthre_in = Threshold(stack[i - 1].prio)
    <2> TAKE i \in 2 .. Len(stack)
    <2>1. i - 1 \in 1 .. Len(stack)
      BY <1>4, TopIs
    <2> QED BY <1>3, <2>1 DEF CortexInv, Sound, Nested
  <1>8. running => lock_ceiling = Max({stack[i].ceiling : i \in DOMAIN stack})
    <2> SUFFICES ASSUME running
                 PROVE  lock_ceiling = Max({stack[i].ceiling : i \in DOMAIN stack})
      OBVIOUS
    <2> DEFINE held == {stack[i].ceiling : i \in DOMAIN stack}
    <2>1. InForce(stack, lock_ceiling)
      BY DEF CortexInv, Sound
    <2>2. held \in SUBSET (0 .. MaxAO) /\ held # {}
      BY <1>1, <1>4
    <2>3. lock_ceiling \in held /\ \A x \in held : x <= lock_ceiling
      <3>1. \A x \in held : x <= lock_ceiling
        BY <1>4, <2>1 DEF InForce
      <3>2. CASE \E i \in 1 .. Len(stack) : lock_ceiling = stack[i].ceiling
        BY <1>4, <3>1, <3>2
      <3>3. CASE lock_ceiling = 0
        <4>1. stack[1].ceiling \in held /\ stack[1].ceiling \in 0 .. MaxAO
          BY <1>1, <1>4
        <4>2. stack[1].ceiling = 0
          <5>1. stack[1].ceiling <= 0
            BY <3>1, <3>3, <4>1
          <5> HIDE DEF held
          <5> QED BY <4>1, <5>1, Constants
        <4> QED BY <3>1, <3>3, <4>1, <4>2
      <3> QED BY <2>1, <3>2, <3>3 DEF InForce
    <2> HIDE DEF held
    <2>4. MaxAO \in Nat
      BY Constants
    <2>5. Max(held) \in held /\ \A y \in held : y <= Max(held)
      BY <2>2, <2>4, MaxOfNat
    <2>6. Max(held) <= lock_ceiling /\ lock_ceiling <= Max(held)
      BY <2>3, <2>5
    <2>7. Max(held) \in Int /\ lock_ceiling \in Int
      <3>1. Max(held) \in 0 .. MaxAO /\ lock_ceiling \in 0 .. MaxAO
        BY <2>2, <2>3, <2>5
      <3> QED BY <2>4, <3>1
    <2>8. lock_ceiling = Max(held)
      BY <2>6, <2>7
    <2> QED BY <2>8 DEF held
  <1>9. \A i, j \in DOMAIN stack : i < j =>
          stack[j].prio > Threshold(stack[i].prio) /\ stack[j].prio > stack[i].ceiling
    BY <1>3, <1>4 DEF CortexInv, Sound, Nested
  <1> QED BY <1>5, <1>6, <1>7, <1>8, <1>9 DEF ContextConsistent

(* The scheduler's variables describe the stack, through every nesting of  *)
(* activations, locks and interrupts, and a context is only preempted by   *)
(* one above its threshold and its lock.                                   *)
THEOREM ContextsAlwaysConsistent == Spec => []ContextConsistent
  <1>1. CortexInv /\ HighestInv => ContextConsistent
    BY ContextsFit
  <1> QED BY <1>1, CortexAlways, PTL

(* The assertions of EDF_core_activate, EDF_activeObject_get and           *)
(* EDF_core_unlockScheduler never fire.                                    *)
THEOREM AssertionsAlwaysHold == Spec => []AssertionsHold
  <1>1. ASSUME CortexInv
        PROVE  AssertionsHold
    <2>1. DOMAIN stack = 1 .. Len(stack)
      BY <1>1, TopIs
    <2> SUFFICES ASSUME NEW i \in 1 .. Len(stack)
                 PROVE  /\ stack[i].at = "get" => stack[i].prio \in Waiting
                        /\ stack[i].sched_status # NotLocked =>
                             stack[i].sched_status < lock_ceiling
      BY <1>1, <2>1 DEF AssertionsHold, CortexInv, Pending
    <2>2. stack[i].at = "get" => stack[i].prio \in Waiting
      BY <1>1 DEF CortexInv, Sound, Gets, Waiting
    <2>3. ASSUME stack[i].sched_status # NotLocked
          PROVE  stack[i].sched_status < lock_ceiling
      <3>1. running
        BY <1>1, <2>3, TopIs DEF CortexInv, Sound
      <3>2. stack[i].ceiling <= lock_ceiling /\ lock_ceiling \in 0 .. MaxAO + 1
        BY <1>1, <3>1 DEF CortexInv, Typed, Sound, InForce
      <3>3. LockIs(stack[i], stack, i - 1)
        BY <1>1 DEF CortexInv, Sound, Locks
      <3>4. stack[i].sched_status < stack[i].ceiling
        BY <2>3, <3>3 DEF LockIs
      <3>5. stack[i].ceiling \in 0 .. MaxAO /\ stack[i].sched_status \in 0 .. MaxAO
        <4>1. stack[i] \in Contexts
          BY <1>1, TopIs
        <4> QED BY <2>3, <4>1 DEF Contexts
      <3> QED BY <3>2, <3>4, <3>5, Constants
    <2> QED BY <2>2, <2>3
  <1>2. CortexInv /\ HighestInv => AssertionsHold
    BY <1>1
  <1> QED BY <1>2, CortexAlways, PTL

(* With a ready set of one byte the highest bit is the highest priority:   *)
(* when no interrupt is at work, nobody waits who could preempt the active *)
(* object that runs.                                                       *)
THEOREM HighestAlwaysRuns == MaxAO <= 8 => (Spec => []RunsHighest)
  <1> SUFFICES ASSUME MaxAO <= 8
               PROVE  Spec => []RunsHighest
    OBVIOUS
  <1>1. ASSUME CortexInv, HighestInv
        PROVE  RunsHighest
    <2> SUFFICES ASSUME running, isr = 0, ~pendsv, NEW p \in Prio, pending[p] > 0
                 PROVE  p <= active_preemption_threshold \/ p <= lock_ceiling
      BY DEF RunsHighest, Waiting
    <2>1. MaskLen = 1 /\ Prio \subseteq Positions(1)
      BY Constants DEF MaskLen
    <2>2. IsBitSet(ready_set, p)
      BY <1>1 DEF CortexInv, Sound, Ready
    <2>3. ready_set \in Bytes(1) /\ p \in Positions(1)
      BY <1>1, <2>1 DEF CortexInv, Typed
    <2>4. p <= FindMax(ready_set)
      BY <2>2, <2>3, FindMaxInOneByte
    <2>5. FindMax(ready_set) \in Nat /\ p \in 0 .. MaxAO
      BY <1>1, ScheduledIsInt, Priorities DEF CortexInv, Typed
    <2>6. FindMax(ready_set) <= active_preemption_threshold \/ FindMax(ready_set) <= lock_ceiling
      BY <1>1 DEF HighestInv
    <2>7. active_preemption_threshold \in 0 .. MaxAO /\ lock_ceiling \in 0 .. MaxAO + 1
      BY <1>1, TopIs, Numbers DEF CortexInv, Typed, Described
    <2> QED BY <2>4, <2>5, <2>6, <2>7, Constants
  <1>2. CortexInv /\ HighestInv => RunsHighest
    BY <1>1
  <1> QED BY <1>2, CortexAlways, PTL
=============================================================================
