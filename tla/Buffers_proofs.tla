-------------------------- MODULE Buffers_proofs --------------------------
(***************************************************************************)
(* The ring buffers: the event queue, the FIFO of bytes, the FIFO of       *)
(* slots, and the standard output of the STM32. Behind them, what is       *)
(* written into buffers: the codecs and the formatted output.              *)
(***************************************************************************)
EXTENDS EventQueue, ByteFifo, ArrayFifo, Stdio, Codecs, PrintLog, EmfBitmask_proofs,
        SequenceTheorems

(***************************************************************************)
(* The event queue is proved correct for every ring length that leaves     *)
(* room for front_e in the counter type: its indices and counter stay      *)
(* consistent, no assertion of EDF_eventQueue_get can fail, and the ring   *)
(* implements the bounded double-ended queue.                              *)
(***************************************************************************)

(* The inductive invariant: the assertions of a get hold because the slots *)
(* it reads are the live ones.                                             *)
QueueInv == TypeOK /\ RingConsistent /\ NoAssertFails

LEMMA ModuloSmall ==
  ASSUME NEW n \in Nat \ {0}, NEW a \in 0 .. n - 1
  PROVE  a % n = a
  OBVIOUS

LEMMA SlotBehindType ==
  ASSUME TypeOK, NEW k \in 0 .. QLen - 1
  PROVE  SlotBehind(k) \in Slots
  BY QueueAssumption DEF TypeOK, SlotBehind, Slots

LEMMA InitQueueInv ==
  ASSUME QLen + 1 < CntMod, Init
  PROVE  QueueInv
  <1>1. n_free = QLen + 1
    BY ModuloSmall, QueueAssumption DEF Init
  <1>2. QED
    BY <1>1, QueueAssumption
    DEF Init, QueueInv, TypeOK, RingConsistent, NoAssertFails, SlotBehind

LEMMA PostFIFOQueueInv ==
  ASSUME QueueInv, NEW e \in Event, PostFIFO(e)
  PROVE  QueueInv'
  <1> USE QueueAssumption DEF QueueInv, TypeOK, RingConsistent, NoAssertFails,
          PostFIFO, TakeEntry, SlotBehind, Slots
  <1>1. CASE front_e = NULL
    BY <1>1
  <1>2. CASE front_e # NULL
    <2>1. QLen > 0 /\ head \in Slots
      BY <1>2
    <2>2. TypeOK' /\ NoAssertFails'
      BY <1>2, <2>1 DEF StepBack
    <2>3. head' = SlotBehind(QLen - n_free)'
      BY <1>2, <2>1 DEF StepBack
    <2>4. ASSUME NEW k \in 0 .. QLen - n_free' - 1
          PROVE  ring'[SlotBehind(k)'] \in Event
      <3>1. CASE k = QLen - n_free
        BY <1>2, <2>1, <3>1
      <3>2. CASE k < QLen - n_free
        BY <1>2, <2>1, <3>2
      <3>3. QED
        BY <2>4, <3>1, <3>2
    <2>5. QED
      BY <1>2, <2>2, <2>3, <2>4
  <1>3. QED
    BY <1>1, <1>2

LEMMA PostLIFOQueueInv ==
  ASSUME QueueInv, NEW e \in Event, PostLIFO(e)
  PROVE  QueueInv'
  <1> USE QueueAssumption DEF QueueInv, TypeOK, RingConsistent, NoAssertFails,
          SlotBehind, Slots
  <1>1. CASE front_e = NULL
    BY <1>1 DEF PostLIFO, TakeEntry
  <1>2. CASE front_e # NULL
    <2>1. /\ tail \in 0 .. QLen - 1 /\ n_free \in 1 .. QLen
          /\ tail' = StepForward(tail) /\ ring' = [ring EXCEPT ![tail'] = front_e]
          /\ n_free' = n_free - 1 /\ front_e' = e /\ head' = head
      BY <1>2 DEF PostLIFO, TakeEntry
    <2>2. tail' \in 0 .. QLen - 1
      BY <2>1 DEF StepForward
    <2>3. TypeOK' /\ NoAssertFails'
      BY <1>2, <2>1, <2>2 DEF PostLIFO, TakeEntry
    <2>4. ASSUME NEW k \in 0 .. QLen - 1
          PROVE  SlotBehind(k + 1)' = SlotBehind(k)
      BY <2>1 DEF StepForward
    <2>5. head' = SlotBehind(QLen - n_free)'
      <3>1. PICK r \in 0 .. QLen - 1 : r = QLen - n_free
        BY <2>1
      <3>2. head' = SlotBehind(r) /\ QLen - n_free' = r + 1
        BY <1>2, <2>1, <3>1
      <3>3. QED
        BY <2>4, <3>2
    <2>6. ASSUME NEW k \in 0 .. QLen - n_free' - 1
          PROVE  ring'[SlotBehind(k)'] \in Event
      <3>1. CASE k = 0
        BY <1>2, <2>1, <2>2, <3>1
      <3>2. CASE k > 0
        <4>1. PICK j \in 0 .. QLen - n_free - 1 : k = j + 1
          <5>1. k - 1 \in 0 .. QLen - n_free - 1 /\ k = (k - 1) + 1
            BY <2>1, <3>2
          <5>2. QED
            BY <5>1
        <4>2. SlotBehind(k)' = SlotBehind(j)
          <5>1. j \in 0 .. QLen - 1
            BY <2>1
          <5>2. SlotBehind(j + 1)' = SlotBehind(j)
            BY <2>4, <5>1
          <5>3. QED
            BY <4>1, <5>2
        <4>3. SlotBehind(j) # tail' /\ SlotBehind(j) \in Slots
          BY <2>1, <4>1, <3>2 DEF StepForward
        <4>4. ring[SlotBehind(j)] \in Event
          OBVIOUS
        <4>5. QED
          BY <2>1, <4>2, <4>3, <4>4
      <3>3. QED
        BY <2>6, <3>1, <3>2
    <2>7. front_e' # NULL /\ n_free' # QLen + 1
      BY <2>1
    <2>8. QED
      BY <2>3, <2>5, <2>6, <2>7
  <1>3. QED
    BY <1>1, <1>2

LEMMA GetFrontQueueInv ==
  ASSUME QLen + 1 < CntMod, QueueInv, GetFront
  PROVE  QueueInv'
  <1> USE QueueAssumption DEF QueueInv, TypeOK, RingConsistent, NoAssertFails,
          SlotBehind, Slots
  <1>1. n_free' = n_free + 1
    <2>1. n_free + 1 \in 0 .. CntMod - 1 /\ CntMod \in Nat \ {0}
      BY DEF GetFront
    <2>2. QED
      BY <2>1, ModuloSmall DEF GetFront
  <1>2. CASE n_free' <= QLen
    <2>1. ring[tail] \in Event /\ tail \in 0 .. QLen - 1
      <3>1. 0 \in 0 .. QLen - n_free - 1 /\ SlotBehind(0) = tail
        BY <1>1, <1>2
      <3>2. QED
        BY <1>1, <1>2, <3>1
    <2>2. /\ n_free \in 0 .. QLen - 1 /\ front_e \in Event /\ head' = head
          /\ front_e' = ring[tail] /\ tail' = StepBack(tail) /\ ring' = ring
      BY <1>1, <1>2, <2>1 DEF GetFront
    <2>3. TypeOK' /\ NoAssertFails'
      BY <1>1, <1>2, <2>1, <2>2 DEF GetFront, StepBack
    <2>4. ASSUME NEW k \in 0 .. QLen - 1
          PROVE  SlotBehind(k)' = SlotBehind(k + 1)
      BY <2>1, <2>2 DEF StepBack
    <2>5. head' = SlotBehind(QLen - n_free)'
      <3>1. PICK r \in 0 .. QLen - 1 : r = QLen - n_free'
        BY <1>1, <2>2
      <3>2. head' = SlotBehind(r + 1)
        BY <1>1, <2>2, <3>1
      <3>3. SlotBehind(r)' = SlotBehind(r + 1)
        BY <2>4
      <3>4. QED
        BY <2>1, <3>1, <3>2, <3>3
    <2>6. ASSUME NEW k \in 0 .. QLen - n_free' - 1
          PROVE  ring'[SlotBehind(k)'] \in Event
      <3>1. k + 1 \in 0 .. QLen - n_free - 1 /\ k \in 0 .. QLen - 1
        BY <1>1, <2>2
      <3>2. SlotBehind(k)' = SlotBehind(k + 1)
        BY <2>4, <3>1
      <3>3. ring[SlotBehind(k + 1)] \in Event
        BY <3>1
      <3>4. QED
        BY <2>2, <3>2, <3>3
    <2>7. front_e' # NULL /\ n_free' # QLen + 1
      BY <1>1, <2>1, <2>2
    <2>8. QED
      BY <2>3, <2>5, <2>6, <2>7
  <1>3. CASE n_free' > QLen
    BY <1>1, <1>3 DEF GetFront
  <1>4. QED
    BY <1>1, <1>2, <1>3

LEMMA NextQueueInv ==
  ASSUME QLen + 1 < CntMod, QueueInv, [Next]_vars
  PROVE  QueueInv'
  <1>1. CASE \E e \in Event : PostFIFO(e) \/ PostLIFO(e)
    BY <1>1, PostFIFOQueueInv, PostLIFOQueueInv
  <1>2. CASE GetFront
    BY <1>2, GetFrontQueueInv
  <1>3. CASE PostFull \/ GetEmpty \/ Stopped \/ UNCHANGED vars
    BY <1>3, QueueAssumption
    DEF QueueInv, TypeOK, RingConsistent, NoAssertFails, SlotBehind, Slots,
        PostFull, GetEmpty, Stopped, vars
  <1>4. QED
    BY <1>1, <1>2, <1>3 DEF Next

(* For every ring length below the counter's limit, the indices and the    *)
(* counter of edf_event_queue.c stay consistent and its assertions hold.   *)
THEOREM QueueCorrect ==
  ASSUME QLen + 1 < CntMod
  PROVE  Spec => [](TypeOK /\ RingConsistent /\ NoAssertFails)
  <1>1. Init => QueueInv
    BY InitQueueInv
  <1>2. QueueInv /\ [Next]_vars => QueueInv'
    BY NextQueueInv
  <1>3. QED
    BY <1>1, <1>2, PTL DEF Spec, QueueInv

-----------------------------------------------------------------------------
LEMMA FunctionIsSeq ==
  ASSUME NEW S, NEW n \in Nat, NEW f \in [1 .. n -> S]
  PROVE  f \in Seq(S) /\ Len(f) = n
  BY SeqDef

(* What the queue holds, read off the ring.                                *)
ContentsFacts ==
  /\ NumOccupied = QLen + 1 - n_free
  /\ Contents \in Seq(Event)
  /\ Len(Contents) = QLen + 1 - n_free
  /\ \A i \in 1 .. QLen + 1 - n_free :
       Contents[i] = IF i = 1 THEN front_e ELSE ring[SlotBehind(i - 2)]

LEMMA ContentsAreSeq ==
  ASSUME QLen + 1 < CntMod
  PROVE  QueueInv => ContentsFacts
  <1> SUFFICES ASSUME QueueInv PROVE ContentsFacts
    OBVIOUS
  <1> USE QueueAssumption DEF QueueInv, TypeOK, RingConsistent
  <1>1. NumOccupied = QLen + 1 - n_free /\ NumOccupied \in Nat
    <2>1. QLen + 1 - n_free \in 0 .. CntMod - 1 /\ CntMod \in Nat \ {0}
      OBVIOUS
    <2>2. QED
      BY <2>1, ModuloSmall DEF NumOccupied
  <1>2. ASSUME NEW i \in 1 .. NumOccupied
        PROVE  (IF i = 1 THEN front_e ELSE ring[SlotBehind(i - 2)]) \in Event
    <2>1. CASE i = 1
      BY <1>1, <2>1
    <2>2. CASE i # 1
      <3>1. i - 2 \in 0 .. QLen - n_free - 1
        BY <1>1, <2>2
      <3>2. QED
        BY <2>2, <3>1
    <2>3. QED
      BY <2>1, <2>2
  <1>3. Contents \in [1 .. NumOccupied -> Event]
    BY <1>2 DEF Contents
  <1>4. QED
    BY <1>1, <1>3, FunctionIsSeq DEF ContentsFacts, Contents

LEMMA ContentsBothStates ==
  ASSUME QLen + 1 < CntMod, QueueInv, QueueInv'
  PROVE  ContentsFacts /\ ContentsFacts'
  <1>1. (QueueInv => ContentsFacts) /\ (QueueInv => ContentsFacts)'
    BY ContentsAreSeq, PTL
  <1>2. QED
    BY <1>1

(* A FIFO post adds the event behind all the others.                       *)
LEMMA PostFIFOAppends ==
  ASSUME QLen + 1 < CntMod, QueueInv, QueueInv', NEW e \in Event, PostFIFO(e)
  PROVE  Contents' = Append(Contents, e)
  <1> USE QueueAssumption DEF QueueInv, TypeOK
  <1>1. ContentsFacts /\ ContentsFacts'
    BY ContentsBothStates
  <1>2. n_free \in 1 .. QLen + 1 /\ n_free' = n_free - 1 /\ tail' = tail
    BY DEF PostFIFO, TakeEntry
  <1>3. Len(Contents') = Len(Append(Contents, e))
    BY <1>1, <1>2, AppendProperties DEF ContentsFacts
  <1>4. ASSUME NEW i \in 1 .. Len(Contents')
        PROVE  Contents'[i] = Append(Contents, e)[i]
    <2>1. i \in 1 .. QLen + 2 - n_free /\ Len(Contents) = QLen + 1 - n_free
      BY <1>1, <1>2 DEF ContentsFacts
    <2>2. Append(Contents, e)[i] = IF i <= Len(Contents) THEN Contents[i] ELSE e
      BY <1>1, <2>1, AppendProperties DEF ContentsFacts
    <2>3. Contents'[i] = IF i = 1 THEN front_e' ELSE ring'[SlotBehind(i - 2)']
      BY <1>1, <1>2, <2>1 DEF ContentsFacts
    <2>4. CASE front_e = NULL
      <3>1. n_free = QLen + 1
        BY <2>4 DEF RingConsistent
      <3>2. i = 1 /\ Len(Contents) = 0
        BY <2>1, <3>1
      <3>3. front_e' = e
        BY <2>4 DEF PostFIFO
      <3> QED BY <2>2, <2>3, <3>2, <3>3
    <2>5. CASE front_e # NULL
      <3>1. /\ head \in Slots /\ n_free \in 1 .. QLen
            /\ ring' = [ring EXCEPT ![head] = e] /\ front_e' = front_e
            /\ head = SlotBehind(QLen - n_free) /\ QLen > 0
        BY <2>5 DEF PostFIFO, RingConsistent, Slots
      <3>2. CASE i = 1
        BY <1>1, <2>1, <2>2, <2>3, <3>1, <3>2 DEF ContentsFacts
      <3>3. CASE i # 1 /\ i <= Len(Contents)
        <4>1. /\ SlotBehind(i - 2)' = SlotBehind(i - 2)
              /\ SlotBehind(i - 2) # head
              /\ SlotBehind(i - 2) \in Slots
          BY <1>2, <2>1, <3>1, <3>3 DEF SlotBehind, Slots
        <4>2. QED
          BY <1>1, <2>1, <2>2, <2>3, <3>1, <3>3, <4>1 DEF ContentsFacts
      <3>4. CASE i = Len(Contents) + 1 /\ i # 1
        <4>1. SlotBehind(i - 2)' = head
          BY <1>2, <2>1, <3>1, <3>4 DEF SlotBehind
        <4>2. QED
          BY <2>1, <2>2, <2>3, <3>1, <3>4, <4>1
      <3>5. QED
        BY <2>1, <3>2, <3>3, <3>4
    <2>6. QED
      BY <2>4, <2>5
  <1>5. QED
    <2>1. Contents' \in Seq(Event) /\ Append(Contents, e) \in Seq(Event)
      BY <1>1, AppendProperties DEF ContentsFacts
    <2>2. QED
      BY <1>3, <1>4, <2>1, SeqEqual

(* A LIFO post puts the event in front of all the others.                  *)
LEMMA PostLIFOPrepends ==
  ASSUME QLen + 1 < CntMod, QueueInv, QueueInv', NEW e \in Event, PostLIFO(e)
  PROVE  Contents' = <<e>> \o Contents
  <1> USE QueueAssumption DEF QueueInv, TypeOK
  <1>1. ContentsFacts /\ ContentsFacts'
    BY ContentsBothStates
  <1>2. n_free \in 1 .. QLen + 1 /\ n_free' = n_free - 1 /\ front_e' = e
    BY DEF PostLIFO, TakeEntry
  <1>3. /\ <<e>> \in Seq(Event) /\ Len(<<e>>) = 1 /\ <<e>>[1] = e
        /\ Contents \in Seq(Event) /\ Contents' \in Seq(Event)
    BY <1>1 DEF ContentsFacts
  <1>4. /\ <<e>> \o Contents \in Seq(Event)
        /\ Len(<<e>> \o Contents) = 1 + Len(Contents)
        /\ \A i \in 1 .. 1 + Len(Contents) : (<<e>> \o Contents)[i] =
              IF i <= 1 THEN <<e>>[i] ELSE Contents[i - 1]
    <2> DEFINE u == <<e>>
    <2>1. u \in Seq(Event) /\ Contents \in Seq(Event) /\ Len(u) = 1
      BY <1>3
    <2> HIDE DEF u
    <2>2. /\ u \o Contents \in Seq(Event)
          /\ Len(u \o Contents) = Len(u) + Len(Contents)
          /\ \A i \in 1 .. Len(u) + Len(Contents) : (u \o Contents)[i] =
                IF i <= Len(u) THEN u[i] ELSE Contents[i - Len(u)]
      BY <2>1, ConcatProperties, Zenon
    <2>3. QED
      BY <2>1, <2>2 DEF u
  <1>5. Len(Contents') = Len(<<e>> \o Contents)
    BY <1>1, <1>2, <1>4 DEF ContentsFacts
  <1>6. ASSUME NEW i \in 1 .. Len(Contents')
        PROVE  Contents'[i] = (<<e>> \o Contents)[i]
    <2>1. i \in 1 .. QLen + 2 - n_free /\ Len(Contents) = QLen + 1 - n_free
      BY <1>1, <1>2 DEF ContentsFacts
    <2>2. Contents'[i] = IF i = 1 THEN e ELSE ring'[SlotBehind(i - 2)']
      BY <1>1, <1>2, <2>1 DEF ContentsFacts
    <2>3. CASE i = 1
      BY <1>3, <1>4, <2>1, <2>2, <2>3
    <2>4. CASE i > 1
      <3>1. (<<e>> \o Contents)[i] = Contents[i - 1]
        BY <1>4, <2>1, <2>4
      <3>2. /\ tail \in 0 .. QLen - 1 /\ n_free \in 1 .. QLen
            /\ tail' = StepForward(tail)
            /\ ring' = [ring EXCEPT ![tail'] = front_e]
        BY <1>1, <2>1, <2>4 DEF PostLIFO, RingConsistent, Slots
      <3>3. CASE i = 2
        <4>1. SlotBehind(i - 2)' = tail' /\ tail' \in Slots
          BY <3>2, <3>3 DEF SlotBehind, StepForward, Slots
        <4>2. Contents'[i] = ring'[tail']
          BY <2>2, <3>3, <4>1
        <4>3. Contents[i - 1] = front_e
          <5>1. i - 1 = 1 /\ 1 \in 1 .. QLen + 1 - n_free
            BY <3>2, <3>3
          <5>2. QED
            BY <1>1, <5>1 DEF ContentsFacts
        <4>4. ring'[tail'] = front_e
          BY <3>2, <4>1
        <4>5. QED
          BY <3>1, <4>2, <4>3, <4>4
      <3>4. CASE i > 2
        <4>1. PICK k \in 0 .. QLen - n_free - 1 : i = k + 3
          <5>1. i - 3 \in 0 .. QLen - n_free - 1 /\ i = (i - 3) + 3
            BY <2>1, <3>2, <3>4
          <5>2. QED
            BY <5>1
        <4>2. /\ SlotBehind(k + 1)' = SlotBehind(k)
              /\ SlotBehind(k) # tail'
              /\ SlotBehind(k) \in Slots
          BY <3>2, <4>1 DEF SlotBehind, StepForward, Slots
        <4>3. Contents'[i] = ring'[SlotBehind(k + 1)']
          BY <2>2, <4>1
        <4>4. Contents[i - 1] = ring[SlotBehind(k)]
          <5>1. i - 1 \in 1 .. QLen + 1 - n_free /\ i - 1 # 1 /\ (i - 1) - 2 = k
            BY <2>1, <3>2, <4>1
          <5>2. QED
            BY <1>1, <5>1 DEF ContentsFacts
        <4>5. QED
          BY <3>1, <3>2, <4>2, <4>3, <4>4
      <3>5. i = 2 \/ i > 2
        BY <2>1, <2>4
      <3>6. QED
        BY <3>3, <3>4, <3>5
    <2>5. QED
      BY <2>1, <2>3, <2>4
  <1>7. QED
    BY <1>3, <1>4, <1>5, <1>6, SeqEqual

(* A get of a non-empty queue returns the front and leaves the rest.       *)
LEMMA GetFrontPops ==
  ASSUME QLen + 1 < CntMod, QueueInv, QueueInv', GetFront
  PROVE  /\ Contents # <<>>
         /\ got' = Head(Contents)
         /\ Contents' = Tail(Contents)
  <1> USE QueueAssumption DEF QueueInv, TypeOK
  <1>1. ContentsFacts /\ ContentsFacts'
    BY ContentsBothStates
  <1>2. n_free \in 0 .. QLen /\ front_e \in Event /\ n_free' = n_free + 1
    <2>1. n_free \in 0 .. QLen /\ front_e \in Event
      BY DEF GetFront, RingConsistent
    <2>2. n_free + 1 \in 0 .. CntMod - 1 /\ CntMod \in Nat \ {0}
      BY <2>1
    <2>3. QED
      BY <2>1, <2>2, ModuloSmall DEF GetFront
  <1>3. /\ Contents \in Seq(Event) /\ Len(Contents) > 0
        /\ Contents # <<>> /\ Contents[1] = front_e
    BY <1>1, <1>2 DEF ContentsFacts
  <1>4. got' = front_e /\ Head(Contents) = front_e
    BY <1>2, <1>3 DEF GetFront, NoAssertFails
  <1>5. /\ Tail(Contents) \in Seq(Event)
        /\ Len(Tail(Contents)) = Len(Contents) - 1
        /\ \A i \in 1 .. Len(Tail(Contents)) : Tail(Contents)[i] = Contents[i + 1]
    BY <1>3, HeadTailProperties
  <1>6. ASSUME NEW i \in 1 .. Len(Contents')
        PROVE  Contents'[i] = Tail(Contents)[i]
    <2>1. /\ i \in 1 .. QLen - n_free /\ n_free' <= QLen
          /\ i \in Nat /\ (i = 1 \/ i > 1)
      BY <1>1, <1>2 DEF ContentsFacts
    <2>2. /\ tail \in 0 .. QLen - 1 /\ tail' = StepBack(tail)
          /\ front_e' = ring[tail] /\ ring' = ring
      BY <1>2, <2>1 DEF GetFront, NoAssertFails, Slots
    <2>3. Tail(Contents)[i] = ring[SlotBehind(i - 1)]
      <3>1. i \in 1 .. Len(Tail(Contents))
        BY <1>1, <1>2, <1>5, <2>1 DEF ContentsFacts
      <3>2. /\ i + 1 \in 1 .. QLen + 1 - n_free /\ i + 1 # 1
            /\ (i + 1) - 2 = i - 1
        BY <2>1
      <3>3. QED
        BY <1>1, <1>5, <3>1, <3>2 DEF ContentsFacts
    <2>4. Contents'[i] = IF i = 1 THEN front_e' ELSE ring'[SlotBehind(i - 2)']
      BY <1>1, <1>2, <2>1 DEF ContentsFacts
    <2>5. CASE i = 1
      <3>1. SlotBehind(i - 1) = tail
        BY <2>2, <2>5 DEF SlotBehind
      <3>2. QED
        BY <2>2, <2>3, <2>4, <2>5, <3>1
    <2>6. CASE i > 1
      <3>1. PICK k \in 0 .. QLen - 1 : i = k + 2
        <4>1. i - 2 \in 0 .. QLen - 1 /\ i = (i - 2) + 2
          BY <1>2, <2>1, <2>6
        <4>2. QED
          BY <4>1
      <3>2. SlotBehind(k)' = SlotBehind(k + 1)
        BY <2>2 DEF SlotBehind, StepBack
      <3>3. Contents'[i] = ring[SlotBehind(k)']
        BY <2>2, <2>4, <3>1
      <3>4. Tail(Contents)[i] = ring[SlotBehind(k + 1)]
        <4>1. i - 1 = k + 1
          BY <3>1
        <4>2. QED
          BY <2>3, <4>1
      <3>5. QED
        BY <3>2, <3>3, <3>4
    <2>7. QED
      BY <2>1, <2>5, <2>6
  <1>7. Len(Contents') = Len(Tail(Contents))
    BY <1>1, <1>2, <1>5 DEF ContentsFacts
  <1>8. Contents' = Tail(Contents)
    BY <1>1, <1>5, <1>6, <1>7, SeqEqual DEF ContentsFacts
  <1>9. QED
    BY <1>3, <1>4, <1>8

-----------------------------------------------------------------------------
LEMMA InitRefines ==
  ASSUME QLen + 1 < CntMod, Init
  PROVE  Deque!Init
  <1>1. QueueInv
    BY InitQueueInv
  <1>2. ContentsFacts
    BY <1>1, ContentsAreSeq
  <1>3. n_free = QLen + 1
    BY ModuloSmall, QueueAssumption DEF Init
  <1>4. Contents = <<>>
    BY <1>2, <1>3, EmptySeq, QueueAssumption DEF ContentsFacts
  <1>5. QED
    BY <1>3, <1>4 DEF Init, Deque!Init

LEMMA NextRefines ==
  ASSUME QLen + 1 < CntMod, QueueInv, QueueInv', [Next]_vars
  PROVE  [Deque!Next]_(Deque!vars)
  <1> USE QueueAssumption DEF QueueInv, TypeOK
  <1>1. ContentsFacts /\ ContentsFacts'
    BY ContentsBothStates
  <1>2. ASSUME NEW e \in Event, PostFIFO(e)
        PROVE  Deque!PushBack(e)
    <2>1. Contents' = Append(Contents, e)
      BY <1>2, PostFIFOAppends
    <2>2. QED
      BY <1>1, <1>2, <2>1
      DEF PostFIFO, TakeEntry, Deque!PushBack, Deque!Becomes, ContentsFacts
  <1>3. ASSUME NEW e \in Event, PostLIFO(e)
        PROVE  Deque!PushFront(e)
    <2>1. Contents' = <<e>> \o Contents
      BY <1>3, PostLIFOPrepends
    <2>2. QED
      BY <1>1, <1>3, <2>1
      DEF PostLIFO, TakeEntry, Deque!PushFront, Deque!Becomes, ContentsFacts
  <1>4. CASE GetFront
    <2>1. Contents # <<>> /\ got' = Head(Contents) /\ Contents' = Tail(Contents)
      BY <1>4, GetFrontPops
    <2>2. n_min' = n_min /\ failed' = failed /\ failed = "no"
      BY <1>4 DEF GetFront, NoAssertFails
    <2>3. QED
      BY <2>1, <2>2 DEF Deque!PopFront, Deque!Next
  <1>5. CASE PostFull
    <2>1. Len(Contents) = QLen + 1
      BY <1>1, <1>5 DEF PostFull, ContentsFacts
    <2>2. Contents' = Contents
      BY <1>5 DEF PostFull, Contents, NumOccupied, SlotBehind
    <2>3. QED
      BY <1>5, <2>1, <2>2 DEF PostFull, Deque!Overrun, Deque!Next
  <1>6. CASE GetEmpty
    <2>1. Contents = <<>>
      BY <1>1, <1>6, EmptySeq DEF GetEmpty, RingConsistent, ContentsFacts
    <2>2. Contents' = Contents
      BY <1>6 DEF GetEmpty, Contents, NumOccupied, SlotBehind
    <2>3. QED
      BY <1>6, <2>1, <2>2 DEF GetEmpty, Deque!PopEmpty, Deque!Next
  <1>7. CASE Stopped \/ UNCHANGED vars
    BY <1>7 DEF Stopped, vars, Deque!vars, Contents, NumOccupied, SlotBehind
  <1>8. QED
    BY <1>2, <1>3, <1>4, <1>5, <1>6, <1>7 DEF Next, Deque!Next

(* For every ring length below the counter's limit, the ring buffer of     *)
(* edf_event_queue.c behaves like the bounded double-ended queue.          *)
THEOREM QueueImplementsDeque ==
  ASSUME QLen + 1 < CntMod
  PROVE  Spec => ImplementsDeque
  <1>1. Init => QueueInv /\ Deque!Init
    BY InitQueueInv, InitRefines
  <1>2. QueueInv /\ [Next]_vars => QueueInv'
    BY NextQueueInv
  <1>3. QueueInv /\ QueueInv' /\ [Next]_vars => [Deque!Next]_(Deque!vars)
    BY NextRefines
  <1>4. QED
    BY <1>1, <1>2, <1>3, PTL DEF Spec, ImplementsDeque, Deque!Spec

-----------------------------------------------------------------------------
(***************************************************************************)
(* Proofs that the two FIFOs of the middleware implement BoundedFifo, for  *)
(* any storage and any calls. Both are rings, whose indices pass the end   *)
(* of the storage at most once between two items that are in use; the      *)
(* proofs replace the remainders of the code by that one case distinction. *)
(***************************************************************************)

(* Place k of a ring of n places, counted past its end.                    *)
Around(k, n) == IF k < n THEN k ELSE k - n

LEMMA RemainderIsAround ==
  ASSUME NEW n \in Nat \ {0}, NEW k \in 0 .. 2 * n - 1
  PROVE  k % n = Around(k, n)
<1>1. CASE k < n
  BY <1>1 DEF Around
<1>2. CASE ~(k < n)
  <2>1. k - n \in 0 .. n - 1 /\ k = n * 1 + (k - n)
    BY <1>2
  <2> QED BY <2>1, <1>2 DEF Around
<1> QED BY <1>1, <1>2

LEMMA FunctionIsSequence ==
  ASSUME NEW S, NEW n \in Nat, NEW f \in [1 .. n -> S]
  PROVE  f \in Seq(S) /\ Len(f) = n
BY SeqDef

LEMMA SubSeqIsFunction ==
  ASSUME NEW S, NEW n \in Nat, NEW s \in [1 .. n -> S],
         NEW a \in 1 .. n + 1, NEW b \in a - 1 .. n
  PROVE  SubSeq(s, a, b) = [i \in 1 .. b - a + 1 |-> s[a + i - 1]]
<1>1. \A i \in a .. b : s[i] \in S
  OBVIOUS
<1>2. /\ SubSeq(s, a, b) \in Seq(S) /\ Len(SubSeq(s, a, b)) = b - a + 1
      /\ \A i \in 1 .. b - a + 1 : SubSeq(s, a, b)[i] = s[a + i - 1]
  BY <1>1, SubSeqProperties
<1>3. SubSeq(s, a, b) \in [1 .. b - a + 1 -> S]
  BY <1>2, LenProperties
<1> QED BY <1>2, <1>3

(* What u holds is what s holds and behind it what t holds.                *)
LEMMA IsConcatenation ==
  ASSUME NEW S, NEW s \in Seq(S), NEW t \in Seq(S), NEW u \in Seq(S),
         Len(u) = Len(s) + Len(t),
         \A i \in 1 .. Len(u) : u[i] = IF i <= Len(s) THEN s[i] ELSE t[i - Len(s)]
  PROVE  u = s \o t
<1>1. /\ s \o t \in Seq(S) /\ Len(s \o t) = Len(s) + Len(t)
      /\ \A i \in 1 .. Len(s) + Len(t) :
           (s \o t)[i] = IF i <= Len(s) THEN s[i] ELSE t[i - Len(s)]
  BY ConcatProperties
<1>2. \A i \in 1 .. Len(u) : u[i] = (s \o t)[i]
  BY <1>1, Zenon
<1>3. Len(u) = Len(s \o t)
  BY <1>1, Zenon
<1> QED BY <1>1, <1>2, <1>3, SeqEqual, Zenon

-----------------------------------------------------------------------------
(* The bytes in use lie between the tail and the head, and are bytes that  *)
(* were pushed.                                                            *)
ByteInv ==
  /\ size \in Sizes /\ storage \in [0 .. size - 1 -> Byte \cup {Unwritten}]
  /\ b_tail \in 0 .. size - 1 /\ used \in 0 .. size
  /\ b_head = Around(b_tail + used, size)
  /\ \A i \in 1 .. used : storage[Around(b_tail + i - 1, size)] \in Byte
  /\ b_refused \in BOOLEAN

LEMMA SizeFits ==
  ASSUME ByteInv
  PROVE  size \in Nat \ {0} /\ 2 * size <= IndexMod /\ IndexMod \in Nat \ {0}
BY ByteFifoAssumption DEF ByteInv

LEMMA AdvanceIsAround ==
  ASSUME ByteInv, NEW idx \in 0 .. size - 1, NEW offset \in 0 .. size
  PROVE  AdvanceIndex(idx, offset) = Around(idx + offset, size)
<1>1. size \in Nat \ {0} /\ 2 * size <= IndexMod /\ IndexMod \in Nat \ {0}
  BY SizeFits
<1>2. idx + offset \in 0 .. IndexMod - 1 /\ idx + offset \in 0 .. 2 * size - 1
  BY <1>1
<1>3. (idx + offset) % IndexMod = idx + offset
  BY <1>1, <1>2
<1>4. (idx + offset) % size = Around(idx + offset, size)
  BY <1>1, <1>2, RemainderIsAround
<1>5. AdvanceIndex(idx, offset) =
        IF idx + offset >= size THEN (idx + offset) % size ELSE idx + offset
  BY <1>3, Zenon DEF AdvanceIndex
<1>6. idx + offset >= size <=> ~(idx + offset < size)
  BY <1>1, <1>2
<1> QED BY <1>4, <1>5, <1>6 DEF Around

LEMMA ReadIsAround ==
  ASSUME ByteInv, NEW start \in 0 .. size - 1, NEW len \in 0 .. size
  PROVE  /\ ReadBytes(start, len) = [i \in 1 .. len |-> storage[Around(start + i - 1, size)]]
         /\ \A i \in 1 .. len : Passed(start, len)[i] = Around(start + i - 1, size)
<1>1. ASSUME NEW i \in 1 .. len PROVE Passed(start, len)[i] = Around(start + i - 1, size)
  <2>1. size \in Nat \ {0} /\ start + i - 1 \in 0 .. 2 * size - 1
    BY SizeFits
  <2> QED BY <2>1, RemainderIsAround DEF Passed
<1> QED BY <1>1 DEF ReadBytes

(* What the FIFO holds.                                                    *)
ByteItems == ReadBytes(b_tail, used)

ByteItemsFacts ==
  /\ ByteItems = [i \in 1 .. used |-> storage[Around(b_tail + i - 1, size)]]
  /\ ByteItems \in [1 .. used -> Byte] /\ ByteItems \in Seq(Byte)
  /\ Len(ByteItems) = used /\ used \in Nat

LEMMA ByteItemsAre == ByteInv => ByteItemsFacts
<1> SUFFICES ASSUME ByteInv PROVE ByteItemsFacts
  OBVIOUS
<1>1. ByteItems = [i \in 1 .. used |-> storage[Around(b_tail + i - 1, size)]]
  BY ReadIsAround DEF ByteInv, ByteItems
<1>2. used \in Nat
  BY SizeFits DEF ByteInv
<1>3. \A i \in 1 .. used : storage[Around(b_tail + i - 1, size)] \in Byte
  BY DEF ByteInv
<1>4. ByteItems \in [1 .. used -> Byte]
  BY <1>1, <1>3
<1> QED BY <1>1, <1>2, <1>4, FunctionIsSequence DEF ByteItemsFacts

LEMMA ByteItemsBothStates ==
  ASSUME ByteInv, ByteInv' PROVE ByteItemsFacts /\ ByteItemsFacts'
<1>1. (ByteInv => ByteItemsFacts) /\ (ByteInv => ByteItemsFacts)'
  BY ByteItemsAre, PTL
<1> QED BY <1>1

LEMMA ByteInitially ==
  ASSUME ByteInit
  PROVE  ByteInv /\ ByteFifoSpec!Init
<1>1. ByteInv
  <2>1. /\ size \in Sizes /\ storage \in [0 .. size - 1 -> Byte \cup {Unwritten}]
        /\ b_tail \in 0 .. size - 1 /\ used \in 0 .. size
        /\ b_head = Around(b_tail + used, size) /\ 1 .. used = {}
    BY ByteFifoAssumption DEF ByteInit, Around
  <2>2. b_refused \in BOOLEAN
    BY Zenon DEF ByteInit
  <2> QED BY <2>1, <2>2, Zenon DEF ByteInv
<1>2. ByteItems = <<>>
  BY <1>1, ByteItemsAre DEF ByteInit, ByteItemsFacts
<1> QED BY <1>1, <1>2 DEF ByteInit, ByteFifoSpec!Init, ByteItems

(* A push writes behind the bytes in use and leaves those alone.           *)
LEMMA PushWrites ==
  ASSUME ByteInv, NEW n \in 0 .. size - used, NEW data \in [1 .. n -> Byte],
         storage' = WriteBytes(b_head, data)
  PROVE  /\ storage' \in [0 .. size - 1 -> Byte \cup {Unwritten}]
         /\ \A i \in 1 .. used + n : storage'[Around(b_tail + i - 1, size)] =
              IF i <= used THEN storage[Around(b_tail + i - 1, size)] ELSE data[i - used]
<1> DEFINE place == Passed(b_head, n)
<1>1. size \in Nat \ {0} /\ used \in 0 .. size /\ b_tail \in 0 .. size - 1 /\ n \in 0 .. size
  BY SizeFits DEF ByteInv
<1>2. b_head \in 0 .. size - 1 /\ Len(data) = n /\ DOMAIN data = 1 .. n
  BY <1>1, FunctionIsSequence DEF ByteInv, Around
<1>3. \A i \in 1 .. n : place[i] = Around(b_tail + used + i - 1, size)
  <2> SUFFICES ASSUME NEW i \in 1 .. n PROVE place[i] = Around(b_tail + used + i - 1, size)
    OBVIOUS
  <2>1. place[i] = Around(b_head + i - 1, size)
    BY <1>1, <1>2, ReadIsAround
  <2> QED BY <1>1, <2>1 DEF ByteInv, Around
<1>4. \A i, j \in 1 .. n : place[i] = place[j] => i = j
  BY <1>1, <1>3 DEF Around
<1>5. \A k \in 0 .. size - 1 : storage'[k] =
        IF \E i \in 1 .. n : place[i] = k
        THEN data[CHOOSE i \in 1 .. n : place[i] = k] ELSE storage[k]
  BY <1>2 DEF WriteBytes, ByteInv
<1>6. storage' \in [0 .. size - 1 -> Byte \cup {Unwritten}]
  <2>1. DOMAIN storage = 0 .. size - 1
    BY DEF ByteInv
  <2>2. storage' = [k \in 0 .. size - 1 |->
          IF \E i \in 1 .. n : place[i] = k
          THEN data[CHOOSE i \in 1 .. n : place[i] = k] ELSE storage[k]]
    BY <1>2, <2>1 DEF WriteBytes
  <2>3. ASSUME NEW k \in 0 .. size - 1 PROVE storage'[k] \in Byte \cup {Unwritten}
    <3>1. CASE \E i \in 1 .. n : place[i] = k
      <4>1. (CHOOSE i \in 1 .. n : place[i] = k) \in 1 .. n
        BY <3>1
      <4> QED BY <1>5, <3>1, <4>1
    <3>2. CASE ~(\E i \in 1 .. n : place[i] = k)
      BY <1>5, <3>2 DEF ByteInv
    <3> QED BY <3>1, <3>2
  <2> QED BY <2>2, <2>3
<1>7. ASSUME NEW i \in 1 .. used
      PROVE  storage'[Around(b_tail + i - 1, size)] = storage[Around(b_tail + i - 1, size)]
  <2>1. Around(b_tail + i - 1, size) \in 0 .. size - 1
    BY <1>1 DEF Around
  <2>2. \A j \in 1 .. n : place[j] # Around(b_tail + i - 1, size)
    BY <1>1, <1>3 DEF Around
  <2> QED BY <1>5, <2>1, <2>2
<1>8. ASSUME NEW j \in 1 .. n
      PROVE  storage'[Around(b_tail + used + j - 1, size)] = data[j]
  <2> DEFINE k == Around(b_tail + used + j - 1, size)
  <2>1. k \in 0 .. size - 1
    BY <1>1 DEF Around
  <2>2. place[j] = k /\ (CHOOSE i \in 1 .. n : place[i] = k) = j
    BY <1>3, <1>4
  <2> QED BY <1>5, <2>1, <2>2
<1>9. ASSUME NEW i \in 1 .. used + n
      PROVE  storage'[Around(b_tail + i - 1, size)] =
               IF i <= used THEN storage[Around(b_tail + i - 1, size)] ELSE data[i - used]
  <2>1. CASE i <= used
    <3>1. i \in 1 .. used
      BY <1>1, <2>1
    <3> QED BY <1>7, <2>1, <3>1
  <2>2. CASE ~(i <= used)
    <3>1. i - used \in 1 .. n /\ b_tail + used + (i - used) - 1 = b_tail + i - 1
      BY <1>1, <2>2
    <3> QED BY <1>8, <2>2, <3>1
  <2> QED BY <2>1, <2>2
<1> QED BY <1>6, <1>9

(* A refusal changes nothing.                                              *)
LEMMA ByteRefuses ==
  ASSUME ByteInv, BRefuse
  PROVE  ByteInv' /\ ByteItems' = ByteItems /\ UNCHANGED <<size, b_out>> /\ b_refused' = TRUE
<1>1. b_refused' = TRUE /\ UNCHANGED <<size, storage, b_head, b_tail, used, b_out>>
  BY DEF BRefuse
<1> QED BY <1>1 DEF ByteInv, ByteItems, ReadBytes, Passed

LEMMA BytePushRefines ==
  ASSUME ByteInv, b_refused = FALSE,
         NEW n \in 0 .. size + 1, NEW data \in [1 .. n -> Byte], BytePush(data)
  PROVE  ByteInv' /\ ByteFifoSpec!Next
<1>1. size \in Nat \ {0} /\ used \in 0 .. size /\ b_tail \in 0 .. size - 1
      /\ n \in Nat /\ Len(data) = n /\ data \in Seq(Byte)
  BY SizeFits, FunctionIsSequence DEF ByteInv
<1>2. b_call'.op = "push" /\ b_call'.data = data
  BY DEF BytePush
<1>5. ByteFifoSpec!Free = size - used
  BY ByteItemsAre DEF ByteFifoSpec!Free, ByteItems, ByteItemsFacts
<1>3. CASE n > size - used
  <2>1. BRefuse
    BY <1>1, <1>3 DEF BytePush, GetFree
  <2>2. ByteInv' /\ ByteItems' = ByteItems /\ UNCHANGED <<size, b_out>> /\ b_refused' = TRUE
    BY <2>1, ByteRefuses
  <2>3. ~(Len(data) <= ByteFifoSpec!Free)
    BY <1>1, <1>3, <1>5
  <2>4. ByteFifoSpec!Push(data)
    BY <1>1, <2>2, <2>3, Zenon DEF ByteFifoSpec!Push, ByteFifoSpec!Answer, ByteItems
  <2> QED BY <1>2, <2>2, <2>4, Zenon DEF ByteFifoSpec!Next
<1>4. CASE n <= size - used
  <2>1. /\ storage' = WriteBytes(b_head, data) /\ b_head' = AdvanceIndex(b_head, n)
        /\ used' = used + n /\ UNCHANGED <<size, b_tail, b_out, b_refused>>
    BY <1>1, <1>4 DEF BytePush, GetFree
  <2>2. /\ storage' \in [0 .. size - 1 -> Byte \cup {Unwritten}]
        /\ \A i \in 1 .. used + n : storage'[Around(b_tail + i - 1, size)] =
             IF i <= used THEN storage[Around(b_tail + i - 1, size)] ELSE data[i - used]
    <3>1. n \in 0 .. size - used
      BY <1>1, <1>4
    <3> QED BY <2>1, <3>1, PushWrites
  <2>3. b_head' = Around(b_tail + used + n, size)
    <3>1. b_head \in 0 .. size - 1 /\ n \in 0 .. size
      BY <1>1, <1>4 DEF ByteInv, Around
    <3>2. b_head' = Around(b_head + n, size)
      BY <2>1, <3>1, AdvanceIsAround
    <3> QED BY <1>1, <1>4, <3>1, <3>2 DEF ByteInv, Around
  <2>4. \A i \in 1 .. used + n : storage'[Around(b_tail + i - 1, size)] \in Byte
    <3> SUFFICES ASSUME NEW i \in 1 .. used + n
                 PROVE  storage'[Around(b_tail + i - 1, size)] \in Byte
      OBVIOUS
    <3>1. CASE i <= used
      <4>1. i \in 1 .. used
        BY <1>1, <3>1
      <4>2. storage[Around(b_tail + i - 1, size)] \in Byte
        BY <4>1 DEF ByteInv
      <4> QED BY <2>2, <3>1, <4>2
    <3>2. CASE ~(i <= used)
      <4>1. i - used \in 1 .. n
        BY <1>1, <3>2
      <4> QED BY <2>2, <3>2, <4>1
    <3> QED BY <3>1, <3>2
  <2>5. ByteInv'
    <3>1. used + n \in 0 .. size /\ b_tail + used + n = b_tail + (used + n)
      BY <1>1, <1>4
    <3>2. b_head' = Around(b_tail' + used', size')
      BY <2>1, <2>3, <3>1
    <3> QED BY <1>1, <2>1, <2>2, <2>4, <3>1, <3>2 DEF ByteInv
  <2>6. ByteItemsFacts /\ ByteItemsFacts'
    BY <2>5, ByteItemsBothStates
  <2>7. ByteItems' = ByteItems \o data
    <3>1. /\ ByteItems \in Seq(Byte) /\ Len(ByteItems) = used
          /\ ByteItems' \in Seq(Byte) /\ Len(ByteItems') = used + n
      BY <2>1, <2>6 DEF ByteItemsFacts
    <3>2. ASSUME NEW i \in 1 .. used + n
          PROVE  ByteItems'[i] = IF i <= used THEN ByteItems[i] ELSE data[i - used]
      <4>1. ByteItems'[i] = storage'[Around(b_tail + i - 1, size)]
        BY <2>1, <2>6 DEF ByteItemsFacts
      <4>2. CASE i <= used
        <5>1. i \in 1 .. used
          BY <1>1, <4>2
        <5>2. ByteItems[i] = storage[Around(b_tail + i - 1, size)]
          BY <2>6, <5>1 DEF ByteItemsFacts
        <5> QED BY <2>2, <4>1, <4>2, <5>2
      <4>3. CASE ~(i <= used)
        BY <2>2, <4>1, <4>3
      <4> QED BY <4>2, <4>3
    <3>3. \A i \in 1 .. Len(ByteItems') :
            ByteItems'[i] = IF i <= Len(ByteItems) THEN ByteItems[i] ELSE data[i - Len(ByteItems)]
      BY <3>1, <3>2, Zenon
    <3>4. Len(ByteItems') = Len(ByteItems) + Len(data)
      BY <1>1, <3>1, Zenon
    <3> HIDE DEF ByteItems
    <3> QED BY <1>1, <3>1, <3>3, <3>4, IsConcatenation
  <2>8. Len(data) <= ByteFifoSpec!Free
    BY <1>1, <1>4, <1>5
  <2>9. UNCHANGED <<size, b_out>> /\ b_refused' = FALSE
    BY <2>1
  <2>10. ByteFifoSpec!Push(data)
    BY <1>1, <2>7, <2>8, <2>9, Zenon DEF ByteFifoSpec!Push, ByteFifoSpec!Answer, ByteItems
  <2> QED BY <1>2, <2>5, <2>9, <2>10, Zenon DEF ByteFifoSpec!Next
<1> QED BY <1>1, <1>3, <1>4

(* A pop or drop takes bytes away at the tail.                             *)
LEMMA ConsumeTakes ==
  ASSUME ByteInv, NEW len \in 0 .. used, Consume(len)
  PROVE  ByteInv' /\ ByteItems' = SubSeq(ByteItems, len + 1, Len(ByteItems))
<1>1. size \in Nat \ {0} /\ used \in 0 .. size /\ b_tail \in 0 .. size - 1 /\ len \in 0 .. size
  BY SizeFits DEF ByteInv
<1>2. /\ b_tail' = Around(b_tail + len, size) /\ used' = used - len
      /\ UNCHANGED <<size, storage, b_head, b_refused>>
  BY <1>1, AdvanceIsAround DEF Consume
<1>3. \A i \in 1 .. used - len :
        /\ i + len \in 1 .. used
        /\ Around(b_tail' + i - 1, size) = Around(b_tail + (i + len) - 1, size)
  BY <1>1, <1>2 DEF Around
<1>4. ByteInv'
  <2>1. b_tail' \in 0 .. size - 1 /\ used' \in 0 .. size /\ b_head = Around(b_tail' + used', size)
    BY <1>1, <1>2 DEF ByteInv, Around
  <2>2. \A i \in 1 .. used - len : storage[Around(b_tail' + i - 1, size)] \in Byte
    BY <1>3 DEF ByteInv
  <2> QED BY <1>2, <2>1, <2>2 DEF ByteInv
<1>5. ByteItemsFacts /\ ByteItemsFacts'
  BY <1>4, ByteItemsBothStates
<1>6. SubSeq(ByteItems, len + 1, used) =
        [i \in 1 .. used - (len + 1) + 1 |-> ByteItems[(len + 1) + i - 1]]
  BY <1>1, <1>5, SubSeqIsFunction DEF ByteItemsFacts
<1>7. \A i \in 1 .. used - len : ByteItems'[i] = ByteItems[(len + 1) + i - 1]
  <2> SUFFICES ASSUME NEW i \in 1 .. used - len
               PROVE  ByteItems'[i] = ByteItems[(len + 1) + i - 1]
    OBVIOUS
  <2>1. ByteItems'[i] = storage[Around(b_tail' + i - 1, size)]
    BY <1>2, <1>5 DEF ByteItemsFacts
  <2>2. ByteItems[i + len] = storage[Around(b_tail + (i + len) - 1, size)]
    BY <1>3, <1>5 DEF ByteItemsFacts
  <2>3. (len + 1) + i - 1 = i + len
    BY <1>1
  <2> QED BY <1>3, <2>1, <2>2, <2>3
<1>8. used - (len + 1) + 1 = used - len
  BY <1>1
<1>9. ByteItems' \in [1 .. used - len -> Byte]
  BY <1>2, <1>5 DEF ByteItemsFacts
<1> QED BY <1>4, <1>5, <1>6, <1>7, <1>8, <1>9 DEF ByteItemsFacts

(* What a read returns.                                                    *)
LEMMA ReadIsSubSeq ==
  ASSUME ByteInv, NEW offset \in Nat, NEW len \in Nat, offset + len <= used
  PROVE  ReadBytes(AdvanceIndex(b_tail, offset), len) =
           SubSeq(ByteItems, offset + 1, offset + len)
<1>1. size \in Nat \ {0} /\ used \in 0 .. size /\ b_tail \in 0 .. size - 1
      /\ offset \in 0 .. size /\ len \in 0 .. size
  BY SizeFits DEF ByteInv
<1>2. AdvanceIndex(b_tail, offset) = Around(b_tail + offset, size)
      /\ Around(b_tail + offset, size) \in 0 .. size - 1
  BY <1>1, AdvanceIsAround DEF Around
<1>3. ReadBytes(AdvanceIndex(b_tail, offset), len) =
        [i \in 1 .. len |-> storage[Around(Around(b_tail + offset, size) + i - 1, size)]]
  BY <1>1, <1>2, ReadIsAround
<1>4. ByteItemsFacts
  BY ByteItemsAre
<1>5. SubSeq(ByteItems, offset + 1, offset + len) =
        [i \in 1 .. offset + len - (offset + 1) + 1 |-> ByteItems[(offset + 1) + i - 1]]
  BY <1>1, <1>4, SubSeqIsFunction DEF ByteItemsFacts
<1>6. offset + len - (offset + 1) + 1 = len
  OBVIOUS
<1>7. \A i \in 1 .. len :
        storage[Around(Around(b_tail + offset, size) + i - 1, size)] =
          ByteItems[(offset + 1) + i - 1]
  <2> SUFFICES ASSUME NEW i \in 1 .. len
               PROVE  storage[Around(Around(b_tail + offset, size) + i - 1, size)] =
                        ByteItems[(offset + 1) + i - 1]
    OBVIOUS
  <2>1. (offset + 1) + i - 1 = offset + i /\ offset + i \in 1 .. used
    BY <1>1
  <2>2. ByteItems[offset + i] = storage[Around(b_tail + (offset + i) - 1, size)]
    BY <1>4, <2>1 DEF ByteItemsFacts
  <2>3. Around(Around(b_tail + offset, size) + i - 1, size) = Around(b_tail + (offset + i) - 1, size)
    BY <1>1, <2>1 DEF Around
  <2> QED BY <2>1, <2>2, <2>3
<1> QED BY <1>3, <1>5, <1>6, <1>7

(* Pops and drops are refused alike.                                       *)
LEMMA BytePopRefines ==
  ASSUME ByteInv, b_refused = FALSE, NEW n \in 0 .. size + 1, BytePop(n) \/ ByteDrop(n)
  PROVE  ByteInv' /\ ByteFifoSpec!Next
<1>1. size \in Nat \ {0} /\ used \in 0 .. size /\ b_tail \in 0 .. size - 1 /\ n \in Nat
      /\ Len(ByteItems) = used
  BY SizeFits, ByteItemsAre DEF ByteInv, ByteItemsFacts
<1>2. \/ BytePop(n) /\ b_call'.op = "pop" /\ b_call'.len = n
      \/ ByteDrop(n) /\ b_call'.op = "drop" /\ b_call'.len = n
  BY DEF BytePop, ByteDrop
<1>3. CASE n > used
  <2>1. BRefuse
    BY <1>1, <1>3 DEF BytePop, ByteDrop, GetUsed
  <2>2. ByteInv' /\ ByteItems' = ByteItems /\ UNCHANGED <<size, b_out>> /\ b_refused' = TRUE
    BY <2>1, ByteRefuses
  <2>3. ~(n <= Len(ByteItems))
    BY <1>1, <1>3
  <2>4. ByteFifoSpec!Pop(n) /\ ByteFifoSpec!Drop(n)
    BY <2>2, <2>3, Zenon
       DEF ByteFifoSpec!Pop, ByteFifoSpec!Drop, ByteFifoSpec!Answer, ByteItems
  <2> QED BY <1>2, <2>2, <2>4, Zenon DEF ByteFifoSpec!Next
<1>4. CASE ~(n > used)
  <2>1. n \in 0 .. used /\ 0 + n <= used /\ 0 \in Nat /\ n <= Len(ByteItems)
    BY <1>1, <1>4
  <2>2. Consume(n)
    BY <1>4 DEF BytePop, ByteDrop, GetUsed
  <2>3. ByteInv' /\ ByteItems' = SubSeq(ByteItems, n + 1, Len(ByteItems))
    BY <2>1, <2>2, ConsumeTakes
  <2>4. ReadBytes(b_tail, n) = SubSeq(ByteItems, 1, n)
    <3>1. AdvanceIndex(b_tail, 0) = b_tail
      BY <1>1, AdvanceIsAround DEF Around
    <3>2. 0 + 1 = 1 /\ 0 + n = n
      BY <1>1
    <3> QED BY <1>1, <2>1, <3>1, <3>2, ReadIsSubSeq
  <2>5. UNCHANGED size /\ b_refused' = FALSE
    BY <2>2 DEF Consume
  <2>6. CASE BytePop(n) /\ b_call'.op = "pop" /\ b_call'.len = n
    <3>1. b_out' = SubSeq(ByteItems, 1, n)
      BY <1>4, <2>4, <2>6 DEF BytePop, GetUsed
    <3>2. ByteFifoSpec!Pop(n)
      BY <2>1, <2>3, <2>5, <3>1, Zenon
         DEF ByteFifoSpec!Pop, ByteFifoSpec!Answer, ByteFifoSpec!Behind, ByteItems
    <3> QED BY <2>3, <2>5, <2>6, <3>2, Zenon DEF ByteFifoSpec!Next
  <2>7. CASE ByteDrop(n) /\ b_call'.op = "drop" /\ b_call'.len = n
    <3>1. b_out' = b_out
      BY <1>4, <2>7 DEF ByteDrop, GetUsed
    <3>2. ByteFifoSpec!Drop(n)
      BY <2>1, <2>3, <2>5, <3>1, Zenon
         DEF ByteFifoSpec!Drop, ByteFifoSpec!Answer, ByteFifoSpec!Behind, ByteItems
    <3> QED BY <2>3, <2>5, <2>7, <3>2, Zenon DEF ByteFifoSpec!Next
  <2> QED BY <1>2, <2>6, <2>7
<1> QED BY <1>3, <1>4

LEMMA BytePeekRefines ==
  ASSUME ByteInv, b_refused = FALSE, NEW offset \in 0 .. size, NEW n \in 0 .. size,
         BytePeekAt(offset, n)
  PROVE  ByteInv' /\ ByteFifoSpec!Next
<1>1. size \in Nat \ {0} /\ used \in 0 .. size /\ offset \in Nat /\ n \in Nat /\ offset + n \in Nat
      /\ Len(ByteItems) = used
  BY SizeFits, ByteItemsAre DEF ByteInv, ByteItemsFacts
<1>2. b_call'.op = "peek" /\ b_call'.offset = offset /\ b_call'.len = n
  BY DEF BytePeekAt
<1>3. CASE offset + n > used
  <2>1. BRefuse
    BY <1>1, <1>3 DEF BytePeekAt, GetUsed
  <2>2. ByteInv' /\ ByteItems' = ByteItems /\ UNCHANGED <<size, b_out>> /\ b_refused' = TRUE
    BY <2>1, ByteRefuses
  <2>3. ~(offset + n <= Len(ByteItems))
    BY <1>1, <1>3
  <2>4. ByteFifoSpec!Peek(offset, n)
    BY <2>2, <2>3, Zenon DEF ByteFifoSpec!Peek, ByteFifoSpec!Answer, ByteItems
  <2> QED BY <1>2, <2>2, <2>4, Zenon DEF ByteFifoSpec!Next
<1>4. CASE ~(offset + n > used)
  <2>1. offset + n <= used /\ offset + n <= Len(ByteItems)
    BY <1>1, <1>4
  <2>2. /\ b_out' = ReadBytes(AdvanceIndex(b_tail, offset), n)
        /\ UNCHANGED <<size, storage, b_head, b_tail, used, b_refused>>
    BY <1>4 DEF BytePeekAt, GetUsed
  <2>3. ByteInv' /\ ByteItems' = ByteItems
    BY <2>2 DEF ByteInv, ByteItems, ReadBytes, Passed
  <2>4. b_out' = SubSeq(ByteItems, offset + 1, offset + n)
    BY <1>1, <2>1, <2>2, ReadIsSubSeq
  <2>5. UNCHANGED size /\ b_refused' = FALSE
    BY <2>2
  <2>6. ByteFifoSpec!Peek(offset, n)
    BY <2>1, <2>3, <2>4, <2>5, Zenon DEF ByteFifoSpec!Peek, ByteFifoSpec!Answer, ByteItems
  <2> QED BY <1>2, <2>3, <2>5, <2>6, Zenon DEF ByteFifoSpec!Next
<1> QED BY <1>3, <1>4

LEMMA ByteFlushRefines ==
  ASSUME ByteInv, b_refused = FALSE, ByteFlush
  PROVE  ByteInv' /\ ByteFifoSpec!Next
<1>1. /\ b_head' = 0 /\ b_tail' = 0 /\ used' = 0
      /\ UNCHANGED <<size, storage, b_out>> /\ b_refused' = FALSE
  BY DEF ByteFlush
<1>2. ByteInv'
  <2>1. /\ size' \in Sizes /\ storage' \in [0 .. size' - 1 -> Byte \cup {Unwritten}]
        /\ b_tail' \in 0 .. size' - 1 /\ used' \in 0 .. size'
        /\ b_head' = Around(b_tail' + used', size') /\ 1 .. used' = {}
    BY <1>1, SizeFits DEF ByteInv, Around
  <2>2. b_refused' \in BOOLEAN
    BY <1>1, Zenon
  <2> QED BY <2>1, <2>2, Zenon DEF ByteInv
<1>3. ByteItems' = <<>>
  BY <1>1, <1>2, ByteItemsBothStates DEF ByteItemsFacts
<1>4. ByteFifoSpec!Flush
  BY <1>1, <1>3 DEF ByteFifoSpec!Flush, ByteFifoSpec!Answer, ByteItems
<1>5. b_call'.op = "flush"
  BY DEF ByteFlush
<1> QED BY <1>1, <1>2, <1>4, <1>5 DEF ByteFifoSpec!Next

LEMMA ByteStepRefines ==
  ByteInv /\ [ByteNext]_b_vars => ByteInv' /\ [ByteFifoSpec!Next]_(ByteFifoSpec!fifo_vars)
<1> SUFFICES ASSUME ByteInv, [ByteNext]_b_vars
             PROVE  ByteInv' /\ [ByteFifoSpec!Next]_(ByteFifoSpec!fifo_vars)
  OBVIOUS
<1>1. CASE UNCHANGED b_vars
  BY <1>1 DEF b_vars, ByteInv, ByteFifoSpec!fifo_vars, ReadBytes, Passed
<1>2. CASE ByteCall
  <2>1. b_refused = FALSE
    <3>1. b_refused \in BOOLEAN
      BY DEF ByteInv
    <3> QED BY <1>2, <3>1 DEF ByteCall
  <2>2. CASE \E n \in 0 .. size + 1 : \E data \in [1 .. n -> Byte] : BytePush(data)
    BY <2>1, <2>2, BytePushRefines
  <2>3. CASE \E n \in 0 .. size + 1 : BytePop(n) \/ ByteDrop(n)
    BY <2>1, <2>3, BytePopRefines
  <2>4. CASE \E offset, n \in 0 .. size : BytePeekAt(offset, n)
    BY <2>1, <2>4, BytePeekRefines
  <2>5. CASE ByteFlush
    BY <2>1, <2>5, ByteFlushRefines
  <2> QED BY <1>2, <2>2, <2>3, <2>4, <2>5 DEF ByteCall
<1>3. CASE ByteStopped
  BY <1>1, <1>3 DEF ByteStopped
<1> QED BY <1>1, <1>2, <1>3 DEF ByteNext

(* The FIFO of bytes implements the bounded FIFO, for any storage of at    *)
(* most half the range of its indices and any bytes: a push appends all of *)
(* its bytes, a pop, peek or drop is about as many as it was called with,  *)
(* the oldest first, and just what exceeds the free or used is refused.    *)
THEOREM ByteFifoCorrect == ByteSpec => ImplementsByteFifo
<1>1. ByteInit => ByteInv /\ ByteFifoSpec!Init
  BY ByteInitially
<1>2. ByteInv /\ [ByteNext]_b_vars => ByteInv' /\ [ByteFifoSpec!Next]_(ByteFifoSpec!fifo_vars)
  BY ByteStepRefines
<1> QED BY <1>1, <1>2, PTL DEF ByteSpec, ImplementsByteFifo, ByteFifoSpec!Spec

-----------------------------------------------------------------------------
(* A byte of the array belongs to one slot.                                *)
LEMMA SlotAndByte ==
  ASSUME NEW n \in Nat \ {0}, NEW s \in 0 .. n - 1, NEW m \in Nat \ {0}, NEW r \in 0 .. m - 1
  PROVE  /\ (s * m) + r \in 0 .. n * m - 1
         /\ ((s * m) + r) \div m = s /\ ((s * m) + r) % m = r
<1>1. (s * m) + r \in 0 .. n * m - 1
  <2>1. PICK d \in Nat : n = s + 1 + d
    <3>1. n - s - 1 \in Nat /\ n = s + 1 + (n - s - 1)
      OBVIOUS
    <3> QED BY <3>1
  <2>2. n * m = (s * m) + m + (d * m)
    BY <2>1
  <2>3. s * m \in Nat /\ d * m \in Nat
    BY <2>1
  <2> QED BY <2>2, <2>3
<1>2. ((s * m) + r) \div m = s
  OBVIOUS
<1>3. ((s * m) + r) % m = r
  OBVIOUS
<1> QED BY <1>1, <1>2, <1>3

(* The slots in use lie between the tail and the head, and hold what was   *)
(* pushed; the flag can only be set when the indices are equal.            *)
ArrayInv ==
  /\ n_slots \in SlotCounts
  /\ array \in [0 .. n_slots * SlotSize - 1 -> Content \cup {Garbage}]
  /\ a_head \in 0 .. n_slots - 1 /\ a_tail \in 0 .. n_slots - 1
  /\ full \in BOOLEAN /\ (full => a_head = a_tail)
  /\ \A i \in 1 .. NumUsed :
       ReadSlot(Around(a_tail + i - 1, n_slots)) \in [1 .. SlotSize -> Content]
  /\ a_refused \in BOOLEAN

(* What the FIFO holds.                                                    *)
ArrayItems == [i \in 1 .. NumUsed |-> ReadSlot((a_tail + i - 1) % n_slots)]

ArrayItemsFacts ==
  /\ ArrayItems = [i \in 1 .. NumUsed |-> ReadSlot(Around(a_tail + i - 1, n_slots))]
  /\ ArrayItems \in [1 .. NumUsed -> [1 .. SlotSize -> Content]]
  /\ ArrayItems \in Seq([1 .. SlotSize -> Content])
  /\ Len(ArrayItems) = NumUsed

LEMMA NumUsedFacts ==
  ASSUME ArrayInv
  PROVE  /\ n_slots \in Nat \ {0} /\ NumUsed \in 0 .. n_slots
         /\ a_head = Around(a_tail + NumUsed, n_slots)
         /\ full <=> NumUsed = n_slots
         /\ IsEmpty <=> NumUsed = 0
<1>1. n_slots \in Nat \ {0}
  BY ArrayFifoAssumption DEF ArrayInv
<1> QED BY <1>1 DEF ArrayInv, NumUsed, IsEmpty, Around

LEMMA ArrayItemsAre == ArrayInv => ArrayItemsFacts
<1> SUFFICES ASSUME ArrayInv PROVE ArrayItemsFacts
  OBVIOUS
<1>1. n_slots \in Nat \ {0} /\ NumUsed \in 0 .. n_slots /\ a_tail \in 0 .. n_slots - 1
  BY NumUsedFacts DEF ArrayInv
<1>2. \A i \in 1 .. NumUsed : (a_tail + i - 1) % n_slots = Around(a_tail + i - 1, n_slots)
  <2> SUFFICES ASSUME NEW i \in 1 .. NumUsed
               PROVE  (a_tail + i - 1) % n_slots = Around(a_tail + i - 1, n_slots)
    OBVIOUS
  <2>1. a_tail + i - 1 \in 0 .. 2 * n_slots - 1
    BY <1>1
  <2> QED BY <1>1, <2>1, RemainderIsAround
<1>3. ArrayItems = [i \in 1 .. NumUsed |-> ReadSlot(Around(a_tail + i - 1, n_slots))]
  BY <1>2 DEF ArrayItems
<1>4. ArrayItems \in [1 .. NumUsed -> [1 .. SlotSize -> Content]]
  BY <1>3 DEF ArrayInv
<1>5. NumUsed \in Nat
  BY <1>1
<1>6. ArrayItems \in Seq([1 .. SlotSize -> Content]) /\ Len(ArrayItems) = NumUsed
  BY <1>4, <1>5, FunctionIsSequence, Zenon
<1> QED BY <1>3, <1>4, <1>6 DEF ArrayItemsFacts

LEMMA ArrayItemsBothStates ==
  ASSUME ArrayInv, ArrayInv' PROVE ArrayItemsFacts /\ ArrayItemsFacts'
<1>1. (ArrayInv => ArrayItemsFacts) /\ (ArrayInv => ArrayItemsFacts)'
  BY ArrayItemsAre, PTL
<1> QED BY <1>1

(* Slots do not overlap: a write changes what is read from one of them.    *)
LEMMA WriteThenRead ==
  ASSUME ArrayInv, NEW h \in 0 .. n_slots - 1, NEW data \in [1 .. SlotSize -> Content],
         array' = WriteSlot(h, data)
  PROVE  /\ array' \in [0 .. n_slots * SlotSize - 1 -> Content \cup {Garbage}]
         /\ \A s \in 0 .. n_slots - 1 :
              [i \in 1 .. SlotSize |-> array'[(s * SlotSize) + i - 1]] =
                IF s = h THEN data ELSE ReadSlot(s)
<1>1. n_slots \in Nat \ {0} /\ SlotSize \in Nat \ {0}
      /\ DOMAIN array = 0 .. n_slots * SlotSize - 1
  BY NumUsedFacts, ArrayFifoAssumption DEF ArrayInv
<1>2. array' = [k \in 0 .. n_slots * SlotSize - 1 |->
        IF k \div SlotSize = h THEN data[(k % SlotSize) + 1] ELSE array[k]]
  BY <1>1 DEF WriteSlot
<1>3. ASSUME NEW k \in 0 .. n_slots * SlotSize - 1 PROVE array'[k] \in Content \cup {Garbage}
  <2>1. (k % SlotSize) + 1 \in 1 .. SlotSize
    BY <1>1
  <2> QED BY <1>2, <2>1 DEF ArrayInv
<1>4. ASSUME NEW s \in 0 .. n_slots - 1, NEW i \in 1 .. SlotSize
      PROVE  array'[(s * SlotSize) + i - 1] = IF s = h THEN data[i] ELSE ReadSlot(s)[i]
  <2> DEFINE k == (s * SlotSize) + (i - 1)
  <2>1. i - 1 \in 0 .. SlotSize - 1 /\ (i - 1) + 1 = i
    BY <1>1
  <2>2. k \in 0 .. n_slots * SlotSize - 1 /\ k \div SlotSize = s /\ k % SlotSize = i - 1
    BY <1>1, <2>1, SlotAndByte
  <2>3. array'[k] = IF s = h THEN data[i] ELSE array[k]
    BY <1>2, <2>1, <2>2
  <2>4. (s * SlotSize) + i - 1 = k
    BY <1>1
  <2>5. ReadSlot(s)[i] = array[k]
    BY <2>4 DEF ReadSlot
  <2> QED BY <2>3, <2>4, <2>5
<1>5. ASSUME NEW s \in 0 .. n_slots - 1
      PROVE  [i \in 1 .. SlotSize |-> array'[(s * SlotSize) + i - 1]] =
               IF s = h THEN data ELSE ReadSlot(s)
  <2>1. ReadSlot(s) = [i \in 1 .. SlotSize |-> ReadSlot(s)[i]]
    BY DEF ReadSlot
  <2> QED BY <1>4, <2>1
<1> QED BY <1>2, <1>3, <1>5

(* A refusal changes nothing.                                              *)
LEMMA ArrayRefuses ==
  ASSUME ArrayInv, ARefuse
  PROVE  /\ ArrayInv' /\ ArrayItems' = ArrayItems /\ UNCHANGED <<n_slots, a_out>>
         /\ a_refused' = TRUE
<1>1. a_refused' = TRUE /\ UNCHANGED <<n_slots, array, a_head, a_tail, full, a_out>>
  BY DEF ARefuse
<1> QED BY <1>1 DEF ArrayInv, ArrayItems, ReadSlot, NumUsed

LEMMA NextSlotIsAround ==
  ASSUME ArrayInv, NEW idx \in 0 .. n_slots - 1
  PROVE  NextSlot(idx) = Around(idx + 1, n_slots)
<1>1. n_slots \in Nat \ {0} /\ idx + 1 \in 0 .. 2 * n_slots - 1
  BY NumUsedFacts
<1> QED BY <1>1, RemainderIsAround DEF NextSlot

LEMMA ArrayPushRefines ==
  ASSUME ArrayInv, a_refused = FALSE, NEW data \in [1 .. SlotSize -> Content], ArrayPush(data)
  PROVE  ArrayInv' /\ ArrayFifoSpec!Next
<1> DEFINE n == NumUsed
<1>1. /\ n_slots \in Nat \ {0} /\ n \in 0 .. n_slots /\ (full <=> n = n_slots)
      /\ a_head = Around(a_tail + n, n_slots)
      /\ a_head \in 0 .. n_slots - 1 /\ a_tail \in 0 .. n_slots - 1
  BY NumUsedFacts DEF ArrayInv
<1>4. a_call'.op = "push" /\ a_call'.data = <<data>>
  BY DEF ArrayPush
<1>5. /\ <<data>> \in Seq([1 .. SlotSize -> Content]) /\ Len(<<data>>) = 1 /\ <<data>>[1] = data
      /\ ArrayFifoSpec!Free = n_slots - n
  <2>1. Len(ArrayItems) = n
    BY ArrayItemsAre DEF ArrayItemsFacts
  <2>2. ArrayFifoSpec!Free = n_slots - n
    BY <2>1, Zenon DEF ArrayFifoSpec!Free, ArrayItems
  <2>3. <<data>> \in Seq([1 .. SlotSize -> Content]) /\ Len(<<data>>) = 1 /\ <<data>>[1] = data
    OBVIOUS
  <2> QED BY <2>2, <2>3
<1>2. CASE full
  <2>1. ARefuse
    BY <1>2 DEF ArrayPush
  <2>2. ArrayInv' /\ ArrayItems' = ArrayItems /\ UNCHANGED <<n_slots, a_out>> /\ a_refused' = TRUE
    BY <2>1, ArrayRefuses
  <2>3. ~(Len(<<data>>) <= ArrayFifoSpec!Free)
    BY <1>1, <1>2, <1>5
  <2>4. ArrayFifoSpec!Push(<<data>>)
    BY <1>5, <2>2, <2>3, Zenon DEF ArrayFifoSpec!Push, ArrayFifoSpec!Answer, ArrayItems
  <2> QED BY <1>4, <2>2, <2>4, Zenon DEF ArrayFifoSpec!Next
<1>3. CASE ~full
  <2>1. /\ array' = WriteSlot(a_head, data) /\ a_head' = Around(a_head + 1, n_slots)
        /\ full' = (a_head' = a_tail) /\ UNCHANGED <<n_slots, a_tail, a_out, a_refused>>
    BY <1>1, <1>3, NextSlotIsAround DEF ArrayPush
  <2>2. /\ array' \in [0 .. n_slots * SlotSize - 1 -> Content \cup {Garbage}]
        /\ \A s \in 0 .. n_slots - 1 :
             [i \in 1 .. SlotSize |-> array'[(s * SlotSize) + i - 1]] =
               IF s = a_head THEN data ELSE ReadSlot(s)
    BY <1>1, <2>1, WriteThenRead
  <2>3. NumUsed' = n + 1
    <3>1. CASE a_head' = a_tail
      <4>1. full' = TRUE
        BY <2>1, <3>1, Zenon
      <4>2. NumUsed' = n_slots
        BY <2>1, <4>1 DEF NumUsed
      <4>3. n + 1 = n_slots
        BY <1>1, <1>3, <2>1, <3>1 DEF Around
      <4> QED BY <4>2, <4>3
    <3>2. CASE a_head' # a_tail
      <4>1. full' = FALSE
        BY <2>1, <3>2, Zenon
      <4>2. NumUsed' = IF a_head' >= a_tail THEN a_head' - a_tail ELSE n_slots - (a_tail - a_head')
        BY <2>1, <4>1 DEF NumUsed
      <4> QED BY <1>1, <1>3, <2>1, <3>2, <4>2 DEF Around
    <3> QED BY <3>1, <3>2
  <2>4. ASSUME NEW i \in 1 .. n + 1
        PROVE  ReadSlot(Around(a_tail + i - 1, n_slots))' =
                 IF i <= n THEN ReadSlot(Around(a_tail + i - 1, n_slots)) ELSE data
    <3> DEFINE s == Around(a_tail + i - 1, n_slots)
    <3>1. s \in 0 .. n_slots - 1 /\ (s = a_head <=> ~(i <= n))
      BY <1>1, <1>3 DEF Around
    <3>2. ReadSlot(s)' = [j \in 1 .. SlotSize |-> array'[(s * SlotSize) + j - 1]]
      BY <2>1 DEF ReadSlot
    <3> QED BY <2>2, <3>1, <3>2
  <2>5. ASSUME NEW i \in 1 .. n + 1
        PROVE  ReadSlot(Around(a_tail + i - 1, n_slots))' \in [1 .. SlotSize -> Content]
    <3>1. CASE i <= n
      <4>1. i \in 1 .. n
        BY <1>1, <3>1
      <4>2. ReadSlot(Around(a_tail + i - 1, n_slots)) \in [1 .. SlotSize -> Content]
        BY <4>1 DEF ArrayInv
      <4> QED BY <2>4, <3>1, <4>2
    <3>2. CASE ~(i <= n)
      BY <2>4, <3>2
    <3> QED BY <3>1, <3>2
  <2>6. ArrayInv'
    <3>1. a_head' \in 0 .. n_slots - 1 /\ full' \in BOOLEAN /\ (full' => a_head' = a_tail')
      <4>1. a_head' \in 0 .. n_slots - 1
        BY <1>1, <2>1 DEF Around
      <4>2. full' \in BOOLEAN /\ (full' => a_head' = a_tail)
        BY <2>1, Zenon
      <4> QED BY <2>1, <4>1, <4>2
    <3> QED BY <1>1, <2>1, <2>2, <2>3, <2>5, <3>1 DEF ArrayInv
  <2>7. ArrayItemsFacts /\ ArrayItemsFacts'
    BY <2>6, ArrayItemsBothStates
  <2>8. ArrayItems' = ArrayItems \o <<data>>
    <3> DEFINE M == [1 .. SlotSize -> Content]
    <3>1. /\ ArrayItems \in Seq(M) /\ Len(ArrayItems) = n
          /\ ArrayItems' \in Seq(M) /\ Len(ArrayItems') = n + 1
      BY <2>3, <2>7 DEF ArrayItemsFacts
    <3>2. ASSUME NEW i \in 1 .. n + 1
          PROVE  ArrayItems'[i] = IF i <= n THEN ArrayItems[i] ELSE <<data>>[i - n]
      <4>1. ArrayItems'[i] = ReadSlot(Around(a_tail + i - 1, n_slots))'
        BY <2>3, <2>7 DEF ArrayItemsFacts
      <4>2. CASE i <= n
        <5>1. i \in 1 .. n
          BY <1>1, <4>2
        <5>2. ArrayItems[i] = ReadSlot(Around(a_tail + i - 1, n_slots))
          BY <2>7, <5>1 DEF ArrayItemsFacts
        <5> QED BY <2>4, <4>1, <4>2, <5>2, Zenon
      <4>3. CASE ~(i <= n)
        <5>1. i - n = 1
          BY <1>1, <4>3
        <5> QED BY <1>5, <2>4, <4>1, <4>3, <5>1, Zenon
      <4> QED BY <4>2, <4>3
    <3>3. \A i \in 1 .. Len(ArrayItems') :
            ArrayItems'[i] = IF i <= Len(ArrayItems) THEN ArrayItems[i]
                             ELSE <<data>>[i - Len(ArrayItems)]
      BY <3>1, <3>2, Zenon
    <3>4. Len(ArrayItems') = Len(ArrayItems) + Len(<<data>>)
      BY <1>5, <3>1, Zenon
    <3> HIDE DEF ArrayItems, M
    <3>5. <<data>> \in Seq(M)
      BY <1>5, Zenon DEF M
    <3> QED BY <3>1, <3>3, <3>4, <3>5, IsConcatenation, Zenon
  <2>9. Len(<<data>>) <= ArrayFifoSpec!Free
    BY <1>1, <1>3, <1>5
  <2>10. UNCHANGED <<n_slots, a_out>> /\ a_refused' = FALSE
    BY <2>1
  <2>11. ArrayFifoSpec!Push(<<data>>)
    BY <1>5, <2>8, <2>9, <2>10, Zenon DEF ArrayFifoSpec!Push, ArrayFifoSpec!Answer, ArrayItems
  <2> QED BY <1>4, <2>6, <2>10, <2>11, Zenon DEF ArrayFifoSpec!Next
<1> QED BY <1>2, <1>3

LEMMA ReleaseTakes ==
  ASSUME ArrayInv, ~IsEmpty, ReleaseSlot
  PROVE  ArrayInv' /\ ArrayItems' = SubSeq(ArrayItems, 1 + 1, Len(ArrayItems))
<1> DEFINE n == NumUsed
<1>1. /\ n_slots \in Nat \ {0} /\ n \in 1 .. n_slots
      /\ a_head \in 0 .. n_slots - 1 /\ a_tail \in 0 .. n_slots - 1
      /\ a_head = Around(a_tail + n, n_slots)
  BY NumUsedFacts DEF ArrayInv
<1>2. /\ a_tail' = Around(a_tail + 1, n_slots) /\ full' = FALSE
      /\ UNCHANGED <<n_slots, array, a_head, a_refused>>
  BY <1>1, NextSlotIsAround DEF ReleaseSlot
<1>3. NumUsed' = n - 1
  BY <1>1, <1>2 DEF NumUsed, Around
<1>4. \A i \in 1 .. n - 1 :
        /\ i + 1 \in 1 .. n
        /\ Around(a_tail' + i - 1, n_slots) = Around(a_tail + (i + 1) - 1, n_slots)
  BY <1>1, <1>2 DEF Around
<1>5. \A i \in 1 .. n - 1 : ReadSlot(Around(a_tail + i - 1, n_slots))' =
        ReadSlot(Around(a_tail + (i + 1) - 1, n_slots))
  <2> SUFFICES ASSUME NEW i \in 1 .. n - 1
               PROVE  ReadSlot(Around(a_tail + i - 1, n_slots))' =
                        ReadSlot(Around(a_tail + (i + 1) - 1, n_slots))
    OBVIOUS
  <2>1. Around(a_tail + i - 1, n_slots)' = Around(a_tail + (i + 1) - 1, n_slots)
    BY <1>2, <1>4
  <2> QED BY <1>2, <2>1 DEF ReadSlot
<1>6. ArrayInv'
  <2>1. a_tail' \in 0 .. n_slots - 1
    BY <1>1, <1>2 DEF Around
  <2>2. \A i \in 1 .. n - 1 :
          ReadSlot(Around(a_tail + i - 1, n_slots))' \in [1 .. SlotSize -> Content]
    BY <1>4, <1>5 DEF ArrayInv
  <2> QED BY <1>1, <1>2, <1>3, <2>1, <2>2 DEF ArrayInv
<1>7. ArrayItemsFacts /\ ArrayItemsFacts'
  BY <1>6, ArrayItemsBothStates
<1>8. SubSeq(ArrayItems, 1 + 1, n) = [i \in 1 .. n - (1 + 1) + 1 |-> ArrayItems[(1 + 1) + i - 1]]
  <2>1. n \in Nat /\ 1 + 1 \in 1 .. n + 1 /\ n \in (1 + 1) - 1 .. n
    BY <1>1
  <2>2. ArrayItems \in [1 .. n -> [1 .. SlotSize -> Content]]
    BY <1>7 DEF ArrayItemsFacts
  <2> QED BY <2>1, <2>2, SubSeqIsFunction
<1>9. ArrayItems' = [i \in 1 .. n - 1 |-> ReadSlot(Around(a_tail + i - 1, n_slots))']
  BY <1>3, <1>7 DEF ArrayItemsFacts
<1>10. \A i \in 1 .. n - 1 : ArrayItems[(1 + 1) + i - 1] =
         ReadSlot(Around(a_tail + (i + 1) - 1, n_slots))
  <2> SUFFICES ASSUME NEW i \in 1 .. n - 1
               PROVE  ArrayItems[(1 + 1) + i - 1] = ReadSlot(Around(a_tail + (i + 1) - 1, n_slots))
    OBVIOUS
  <2>1. (1 + 1) + i - 1 = i + 1
    BY <1>1
  <2> QED BY <1>4, <1>7, <2>1 DEF ArrayItemsFacts
<1>11. n - (1 + 1) + 1 = n - 1 /\ Len(ArrayItems) = n
  BY <1>1, <1>7 DEF ArrayItemsFacts
<1> QED BY <1>5, <1>6, <1>8, <1>9, <1>10, <1>11

LEMMA FirstSlot ==
  ASSUME ArrayInv, ~IsEmpty
  PROVE  <<ReadSlot(a_tail)>> = SubSeq(ArrayItems, 1, 1) /\ 1 \in 0 .. Len(ArrayItems)
<1>1. /\ n_slots \in Nat \ {0} /\ NumUsed \in Nat /\ 1 \in 1 .. NumUsed
      /\ a_tail \in 0 .. n_slots - 1 /\ ArrayItemsFacts
  BY NumUsedFacts, ArrayItemsAre DEF ArrayInv
<1>2. ArrayItems[1] = ReadSlot(Around(a_tail + 1 - 1, n_slots))
  BY <1>1 DEF ArrayItemsFacts
<1>3. Around(a_tail + 1 - 1, n_slots) = a_tail
  BY <1>1 DEF Around
<1>4. SubSeq(ArrayItems, 1, 1) = [i \in 1 .. 1 - 1 + 1 |-> ArrayItems[1 + i - 1]]
  <2>1. 1 \in 1 .. NumUsed + 1 /\ 1 \in 1 - 1 .. NumUsed
    BY <1>1
  <2> QED BY <1>1, <2>1, SubSeqIsFunction DEF ArrayItemsFacts
<1>5. <<ReadSlot(a_tail)>> = [i \in 1 .. 1 |-> ReadSlot(a_tail)]
  OBVIOUS
<1> QED BY <1>1, <1>2, <1>3, <1>4, <1>5 DEF ArrayItemsFacts

(* Pops, peeks and drops are refused alike.                                *)
LEMMA ArrayReadRefines ==
  ASSUME ArrayInv, a_refused = FALSE, ArrayPop \/ ArrayPeek \/ ArrayDrop
  PROVE  ArrayInv' /\ ArrayFifoSpec!Next
<1>1. /\ Len(ArrayItems) = NumUsed /\ NumUsed \in Nat /\ (IsEmpty <=> NumUsed = 0)
      /\ 0 + 1 = 1
  BY ArrayItemsAre, NumUsedFacts DEF ArrayItemsFacts
<1>2. \/ ArrayPop /\ a_call'.op = "pop" /\ a_call'.len = 1
      \/ ArrayDrop /\ a_call'.op = "drop" /\ a_call'.len = 1
      \/ ArrayPeek /\ a_call'.op = "peek" /\ a_call'.offset = 0 /\ a_call'.len = 1
  BY DEF ArrayPop, ArrayDrop, ArrayPeek
<1>3. CASE IsEmpty
  <2>1. ARefuse
    BY <1>3 DEF ArrayPop, ArrayPeek, ArrayDrop
  <2>2. ArrayInv' /\ ArrayItems' = ArrayItems /\ UNCHANGED <<n_slots, a_out>> /\ a_refused' = TRUE
    BY <2>1, ArrayRefuses
  <2>3. ~(1 <= Len(ArrayItems)) /\ ~(0 + 1 <= Len(ArrayItems))
    BY <1>1, <1>3
  <2>4. ArrayFifoSpec!Pop(1) /\ ArrayFifoSpec!Drop(1) /\ ArrayFifoSpec!Peek(0, 1)
    BY <2>2, <2>3, Zenon
       DEF ArrayFifoSpec!Pop, ArrayFifoSpec!Drop, ArrayFifoSpec!Peek, ArrayFifoSpec!Answer,
           ArrayItems
  <2> QED BY <1>2, <2>2, <2>4, Zenon DEF ArrayFifoSpec!Next
<1>4. CASE ~IsEmpty
  <2>1. /\ <<ReadSlot(a_tail)>> = SubSeq(ArrayItems, 1, 1)
        /\ 1 <= Len(ArrayItems) /\ 0 + 1 <= Len(ArrayItems)
    BY <1>1, <1>4, FirstSlot
  <2>2. ASSUME ReleaseSlot
        PROVE  /\ ArrayInv' /\ ArrayItems' = SubSeq(ArrayItems, 1 + 1, Len(ArrayItems))
               /\ UNCHANGED n_slots /\ a_refused' = FALSE
    BY <1>4, <2>2, ReleaseTakes DEF ReleaseSlot
  <2>3. CASE ArrayPop /\ a_call'.op = "pop" /\ a_call'.len = 1
    <3>1. ReleaseSlot /\ a_out' = SubSeq(ArrayItems, 1, 1)
      BY <1>4, <2>1, <2>3 DEF ArrayPop
    <3>2. ArrayFifoSpec!Pop(1)
      BY <2>1, <2>2, <3>1, Zenon
         DEF ArrayFifoSpec!Pop, ArrayFifoSpec!Answer, ArrayFifoSpec!Behind, ArrayItems
    <3> QED BY <2>2, <2>3, <3>1, <3>2, Zenon DEF ArrayFifoSpec!Next
  <2>4. CASE ArrayDrop /\ a_call'.op = "drop" /\ a_call'.len = 1
    <3>1. ReleaseSlot /\ a_out' = a_out
      BY <1>4, <2>4 DEF ArrayDrop
    <3>2. ArrayFifoSpec!Drop(1)
      BY <2>1, <2>2, <3>1, Zenon
         DEF ArrayFifoSpec!Drop, ArrayFifoSpec!Answer, ArrayFifoSpec!Behind, ArrayItems
    <3> QED BY <2>2, <2>4, <3>1, <3>2, Zenon DEF ArrayFifoSpec!Next
  <2>5. CASE ArrayPeek /\ a_call'.op = "peek" /\ a_call'.offset = 0 /\ a_call'.len = 1
    <3>1. /\ a_out' = SubSeq(ArrayItems, 0 + 1, 0 + 1)
          /\ UNCHANGED <<n_slots, array, a_head, a_tail, full>> /\ a_refused' = FALSE
      BY <1>1, <1>4, <2>1, <2>5, Zenon DEF ArrayPeek
    <3>2. ArrayInv' /\ ArrayItems' = ArrayItems
      BY <3>1 DEF ArrayInv, ArrayItems, ReadSlot, NumUsed
    <3>3. ArrayFifoSpec!Peek(0, 1)
      BY <2>1, <3>1, <3>2, Zenon DEF ArrayFifoSpec!Peek, ArrayFifoSpec!Answer, ArrayItems
    <3> QED BY <2>5, <3>1, <3>2, <3>3, Zenon DEF ArrayFifoSpec!Next
  <2> QED BY <1>2, <2>3, <2>4, <2>5
<1> QED BY <1>3, <1>4

LEMMA ArrayFlushRefines ==
  ASSUME ArrayInv, a_refused = FALSE, ArrayFlush
  PROVE  ArrayInv' /\ ArrayFifoSpec!Next
<1>1. /\ a_head' = 0 /\ a_tail' = 0 /\ full' = FALSE
      /\ UNCHANGED <<n_slots, array, a_out>> /\ a_refused' = FALSE
  BY DEF ArrayFlush
<1>2. NumUsed' = 0
  BY <1>1 DEF NumUsed
<1>3. ArrayInv'
  <2>1. n_slots \in Nat \ {0}
    BY NumUsedFacts
  <2>2. 0 \in 0 .. n_slots - 1 /\ 1 .. NumUsed' = {}
    BY <1>2, <2>1
  <2> QED BY <1>1, <2>2 DEF ArrayInv
<1>4. ArrayItems' = <<>>
  BY <1>2, <1>3, ArrayItemsBothStates DEF ArrayItemsFacts
<1>5. ArrayFifoSpec!Flush
  BY <1>1, <1>4 DEF ArrayFifoSpec!Flush, ArrayFifoSpec!Answer, ArrayItems
<1>6. a_call'.op = "flush"
  BY DEF ArrayFlush
<1> QED BY <1>1, <1>3, <1>5, <1>6 DEF ArrayFifoSpec!Next

LEMMA ArrayInitially ==
  ASSUME ArrayInit
  PROVE  ArrayInv /\ ArrayFifoSpec!Init
<1>1. NumUsed = 0 /\ n_slots \in Nat \ {0}
  BY ArrayFifoAssumption DEF ArrayInit, NumUsed
<1>2. ArrayInv
  <2>1. 0 \in 0 .. n_slots - 1 /\ 1 .. NumUsed = {}
    BY <1>1
  <2> QED BY <2>1 DEF ArrayInit, ArrayInv
<1>3. ArrayItems = <<>>
  BY <1>1, <1>2, ArrayItemsAre DEF ArrayItemsFacts
<1> QED BY <1>2, <1>3 DEF ArrayInit, ArrayFifoSpec!Init, ArrayItems

LEMMA ArrayStepRefines ==
  ArrayInv /\ [ArrayNext]_a_vars => ArrayInv' /\ [ArrayFifoSpec!Next]_(ArrayFifoSpec!fifo_vars)
<1> SUFFICES ASSUME ArrayInv, [ArrayNext]_a_vars
             PROVE  ArrayInv' /\ [ArrayFifoSpec!Next]_(ArrayFifoSpec!fifo_vars)
  OBVIOUS
<1>1. CASE UNCHANGED a_vars
  BY <1>1 DEF a_vars, ArrayInv, ArrayFifoSpec!fifo_vars, ReadSlot, NumUsed
<1>2. CASE ArrayCall
  <2>1. a_refused = FALSE
    <3>1. a_refused \in BOOLEAN
      BY DEF ArrayInv
    <3> QED BY <1>2, <3>1 DEF ArrayCall
  <2>2. CASE \E data \in [1 .. SlotSize -> Content] : ArrayPush(data)
    BY <2>1, <2>2, ArrayPushRefines
  <2>3. CASE ArrayPop \/ ArrayPeek \/ ArrayDrop
    BY <2>1, <2>3, ArrayReadRefines
  <2>4. CASE ArrayFlush
    BY <2>1, <2>4, ArrayFlushRefines
  <2> QED BY <1>2, <2>2, <2>3, <2>4 DEF ArrayCall
<1>3. CASE ArrayStopped
  BY <1>1, <1>3 DEF ArrayStopped
<1> QED BY <1>1, <1>2, <1>3 DEF ArrayNext

(* The FIFO of slots implements the bounded FIFO, for any number and size  *)
(* of slots and any content: with a flag in place of a count, a slot that  *)
(* was pushed is there until it is popped, dropped or flushed, and just a  *)
(* push to a full ring and a read of an empty one are refused.             *)
THEOREM ArrayFifoCorrect == ArraySpec => ImplementsArrayFifo
<1>1. ArrayInit => ArrayInv /\ ArrayFifoSpec!Init
  BY ArrayInitially
<1>2. ArrayInv /\ [ArrayNext]_a_vars => ArrayInv' /\ [ArrayFifoSpec!Next]_(ArrayFifoSpec!fifo_vars)
  BY ArrayStepRefines
<1> QED BY <1>1, <1>2, PTL DEF ArraySpec, ImplementsArrayFifo, ArrayFifoSpec!Spec

(***************************************************************************)
(* The standard output of the STM32: its transmit ring implements          *)
(* BoundedFifo although the interrupt handler takes bytes out of it        *)
(* between any two steps of the application.                               *)
(***************************************************************************)

(* The bytes in use lie between the head and the tail; the transmit        *)
(* interrupt can only be enabled in an initialized USART, so that          *)
(* configuring it anew does not silence a message under way.               *)
StdoutInv ==
  /\ buffer \in [0 .. TxCapacity - 1 -> TxByte \cup {Unsent}]
  /\ tx_head \in 0 .. TxCapacity - 1 /\ tx_count \in 0 .. TxCapacity
  /\ tx_tail = Around(tx_head + tx_count, TxCapacity)
  /\ \A i \in 1 .. tx_count : buffer[Around(tx_head + i - 1, TxCapacity)] \in TxByte
  /\ txeie \in BOOLEAN /\ initialized \in BOOLEAN /\ (txeie => initialized)
  /\ InterruptsServed

StdoutItems == [i \in 1 .. tx_count |-> buffer[(tx_head + i - 1) % TxCapacity]]

StdoutItemsFacts ==
  /\ StdoutItems = [i \in 1 .. tx_count |-> buffer[Around(tx_head + i - 1, TxCapacity)]]
  /\ StdoutItems \in [1 .. tx_count -> TxByte] /\ StdoutItems \in Seq(TxByte)
  /\ Len(StdoutItems) = tx_count /\ tx_count \in Nat

LEMMA StdoutItemsAre == StdoutInv => StdoutItemsFacts
<1> SUFFICES ASSUME StdoutInv PROVE StdoutItemsFacts
  OBVIOUS
<1>1. TxCapacity \in Nat \ {0} /\ tx_count \in Nat
  BY StdioAssumption DEF StdoutInv
<1>2. ASSUME NEW i \in 1 .. tx_count
      PROVE  (tx_head + i - 1) % TxCapacity = Around(tx_head + i - 1, TxCapacity)
  <2>1. tx_head + i - 1 \in 0 .. 2 * TxCapacity - 1
    BY <1>1 DEF StdoutInv
  <2> QED BY <1>1, <2>1, RemainderIsAround
<1>3. StdoutItems = [i \in 1 .. tx_count |-> buffer[Around(tx_head + i - 1, TxCapacity)]]
  BY <1>2 DEF StdoutItems
<1>4. StdoutItems \in [1 .. tx_count -> TxByte]
  BY <1>3 DEF StdoutInv
<1> QED BY <1>1, <1>3, <1>4, FunctionIsSequence DEF StdoutItemsFacts

LEMMA StdoutItemsBothStates ==
  ASSUME StdoutInv, StdoutInv' PROVE StdoutItemsFacts /\ StdoutItemsFacts'
<1>1. (StdoutInv => StdoutItemsFacts) /\ (StdoutInv => StdoutItemsFacts)'
  BY StdoutItemsAre, PTL
<1> QED BY <1>1

LEMMA StdoutInitially ==
  ASSUME StdioInit
  PROVE  StdoutInv /\ StdoutFifo!Init
<1>1. StdoutInv
  <2>1. /\ buffer \in [0 .. TxCapacity - 1 -> TxByte \cup {Unsent}]
        /\ tx_head \in 0 .. TxCapacity - 1 /\ tx_count \in 0 .. TxCapacity
        /\ tx_tail = Around(tx_head + tx_count, TxCapacity) /\ 1 .. tx_count = {}
    BY StdioAssumption DEF StdioInit, Around
  <2>2. ~(tx_count > 0)
    BY DEF StdioInit
  <2>3. /\ txeie \in BOOLEAN /\ initialized \in BOOLEAN /\ (txeie => initialized)
        /\ InterruptsServed
    BY <2>2, Zenon DEF StdioInit, InterruptsServed
  <2> QED BY <2>1, <2>3 DEF StdoutInv
<1>2. StdoutItems = <<>>
  BY <1>1, StdoutItemsAre DEF StdioInit, StdoutItemsFacts
<1> QED BY <1>1, <1>2 DEF StdioInit, StdoutFifo!Init, StdoutItems

(* How far behind t place k of a ring lies.                                *)
LEMMA RemainderOfDifference ==
  ASSUME NEW n \in Nat \ {0}, NEW k \in 0 .. n - 1, NEW t \in 0 .. n - 1
  PROVE  (k - t) % n = IF k >= t THEN k - t ELSE k - t + n
<1>1. CASE k >= t
  BY <1>1
<1>2. CASE ~(k >= t)
  <2>1. k - t + n \in 0 .. n - 1 /\ k - t = n * (-1) + (k - t + n)
    BY <1>2
  <2> QED BY <2>1, <1>2
<1> QED BY <1>1, <1>2

(* A message is written behind the bytes in use and leaves those alone.    *)
LEMMA MessageIsWritten ==
  ASSUME StdoutInv, NEW n \in 1 .. TxCapacity - tx_count, NEW data \in [1 .. n -> TxByte],
         buffer' = [k \in DOMAIN buffer |->
             LET i == ((k - tx_tail) % TxCapacity) + 1
             IN IF i <= n THEN data[i] ELSE buffer[k]]
  PROVE  /\ buffer' \in [0 .. TxCapacity - 1 -> TxByte \cup {Unsent}]
         /\ \A i \in 1 .. tx_count + n : buffer'[Around(tx_head + i - 1, TxCapacity)] =
              IF i <= tx_count THEN buffer[Around(tx_head + i - 1, TxCapacity)]
              ELSE data[i - tx_count]
<1> DEFINE C == TxCapacity
           back(k) == (k - tx_tail) % C
<1>1. /\ C \in Nat \ {0} /\ tx_count \in 0 .. C /\ tx_head \in 0 .. C - 1
      /\ tx_tail \in 0 .. C - 1 /\ tx_tail = Around(tx_head + tx_count, C)
      /\ n \in 1 .. C - tx_count /\ n \in Nat
  BY StdioAssumption DEF StdoutInv, Around
<1>2. ASSUME NEW k \in 0 .. C - 1
      PROVE  /\ back(k) = IF k >= tx_tail THEN k - tx_tail ELSE k - tx_tail + C
             /\ back(k) + 1 \in 1 .. C
  <2>1. back(k) = IF k >= tx_tail THEN k - tx_tail ELSE k - tx_tail + C
    BY <1>1, RemainderOfDifference
  <2> HIDE DEF back
  <2> QED BY <1>1, <2>1
<1>3. buffer' = [k \in 0 .. C - 1 |-> IF back(k) + 1 <= n THEN data[back(k) + 1] ELSE buffer[k]]
  BY DEF StdoutInv
<1> HIDE DEF back, C
<1>4. ASSUME NEW k \in 0 .. C - 1
      PROVE  (IF back(k) + 1 <= n THEN data[back(k) + 1] ELSE buffer[k]) \in TxByte \cup {Unsent}
  <2>1. back(k) + 1 <= n => back(k) + 1 \in 1 .. n
    BY <1>1, <1>2
  <2>2. buffer[k] \in TxByte \cup {Unsent}
    BY DEF StdoutInv, C
  <2> QED BY <2>1, <2>2
<1>5. buffer' \in [0 .. C - 1 -> TxByte \cup {Unsent}]
  BY <1>3, <1>4
<1>6. ASSUME NEW i \in 1 .. tx_count + n
      PROVE  buffer'[Around(tx_head + i - 1, C)] =
               IF i <= tx_count THEN buffer[Around(tx_head + i - 1, C)] ELSE data[i - tx_count]
  <2> DEFINE k == Around(tx_head + i - 1, C)
  <2>1. k \in 0 .. C - 1
    BY <1>1 DEF Around
  <2>2. back(k) = IF k >= tx_tail THEN k - tx_tail ELSE k - tx_tail + C
    BY <1>2, <2>1
  <2>3. i <= tx_count => ~(back(k) + 1 <= n)
    BY <1>1, <2>2 DEF Around
  <2>4. ~(i <= tx_count) => back(k) + 1 = i - tx_count /\ back(k) + 1 <= n
    BY <1>1, <2>2 DEF Around
  <2>5. buffer'[k] = IF back(k) + 1 <= n THEN data[back(k) + 1] ELSE buffer[k]
    BY <1>3, <2>1
  <2> QED BY <2>3, <2>4, <2>5
<1> QED BY <1>5, <1>6 DEF C

(* Steps that leave the ring and the transmit interrupt alone.             *)
LEMMA RingAlone ==
  ASSUME StdoutInv, UNCHANGED <<buffer, tx_head, tx_tail, tx_count, dr>>,
         initialized' \in BOOLEAN, initialized => initialized',
         txeie' = txeie, InterruptsServed'
  PROVE  StdoutInv' /\ StdoutItems' = StdoutItems
BY DEF StdoutInv, StdoutItems

LEMMA WriteRefines ==
  ASSUME StdoutInv, NEW n \in 0 .. TxCapacity + 1, NEW data \in [1 .. n -> TxByte],
         StdoutWrite(data)
  PROVE  StdoutInv' /\ [StdoutFifo!Next]_(StdoutFifo!fifo_vars)
<1>1. /\ n \in Nat /\ Len(data) = n /\ data \in Seq(TxByte)
      /\ TxCapacity \in Nat \ {0} /\ tx_count \in 0 .. TxCapacity
      /\ tx_head \in 0 .. TxCapacity - 1 /\ tx_tail \in 0 .. TxCapacity - 1
      /\ txeie \in BOOLEAN /\ initialized \in BOOLEAN
      /\ (txeie <=> tx_count > 0) /\ (lost => ore \/ stdio_failed) /\ (txeie => initialized)
  BY StdioAssumption, FunctionIsSequence DEF StdoutInv, Around, InterruptsServed
<1>2. UNCHANGED <<dr, txe, rxne, ore, lost>> /\ ~stdio_failed
  BY DEF StdoutWrite, usart, MayEnter
<1>3. CASE n \notin 1 .. TxCapacity
  <2>1. stdio_failed' = TRUE /\ UNCHANGED <<initialized, buffer, tx_head, tx_tail, tx_count,
                                            txeie, request, rejected>>
    BY <1>1, <1>3 DEF StdoutWrite, tx_ring, reply
  <2>2. InterruptsServed'
    BY <1>1, <2>1 DEF InterruptsServed
  <2>3. StdoutInv' /\ StdoutItems' = StdoutItems
    BY <1>1, <1>2, <2>1, <2>2, RingAlone
  <2> QED BY <1>2, <2>1, <2>3 DEF StdoutFifo!fifo_vars, StdoutItems
<1>4. CASE n \in 1 .. TxCapacity /\ n <= TxCapacity - tx_count
  <2>1. /\ initialized' = TRUE
        /\ buffer' = [k \in DOMAIN buffer |->
             LET i == ((k - tx_tail) % TxCapacity) + 1
             IN IF i <= n THEN data[i] ELSE buffer[k]]
        /\ tx_tail' = (tx_tail + n) % TxCapacity /\ tx_count' = tx_count + n
        /\ txeie' = TRUE /\ rejected' = FALSE /\ UNCHANGED <<tx_head, stdio_failed>>
        /\ request'.op = "push" /\ request'.data = data
    <3>1. /\ initialized' = TRUE
          /\ buffer' = [k \in DOMAIN buffer |->
               LET i == ((k - tx_tail) % TxCapacity) + 1
               IN IF i <= Len(data) THEN data[i] ELSE buffer[k]]
          /\ tx_tail' = (tx_tail + Len(data)) % TxCapacity /\ tx_count' = tx_count + Len(data)
          /\ TxInterrupt(TRUE) /\ rejected' = FALSE /\ UNCHANGED <<tx_head, stdio_failed>>
          /\ request' = [op |-> "push", data |-> data]
      BY <1>1, <1>4 DEF StdoutWrite, Fits
    <3>2. txeie' = TRUE
      BY <3>1, Zenon DEF TxInterrupt
    <3>3. request'.op = "push" /\ request'.data = data
      BY <3>1
    <3> QED BY <1>1, <3>1, <3>2, <3>3, Zenon
  <2>2. /\ buffer' \in [0 .. TxCapacity - 1 -> TxByte \cup {Unsent}]
        /\ \A i \in 1 .. tx_count + n : buffer'[Around(tx_head + i - 1, TxCapacity)] =
             IF i <= tx_count THEN buffer[Around(tx_head + i - 1, TxCapacity)]
             ELSE data[i - tx_count]
    <3>1. n \in 1 .. TxCapacity - tx_count
      BY <1>1, <1>4
    <3> QED BY <2>1, <3>1, MessageIsWritten
  <2>3. tx_tail' = Around(tx_head + (tx_count + n), TxCapacity)
    <3>1. tx_tail + n \in 0 .. 2 * TxCapacity - 1
      BY <1>1, <1>4
    <3>2. tx_tail' = Around(tx_tail + n, TxCapacity)
      BY <1>1, <2>1, <3>1, RemainderIsAround
    <3> QED BY <1>1, <1>4, <3>2 DEF StdoutInv, Around
  <2>4. \A i \in 1 .. tx_count + n : buffer'[Around(tx_head + i - 1, TxCapacity)] \in TxByte
    <3> SUFFICES ASSUME NEW i \in 1 .. tx_count + n
                 PROVE  buffer'[Around(tx_head + i - 1, TxCapacity)] \in TxByte
      OBVIOUS
    <3>1. CASE i <= tx_count
      <4>1. i \in 1 .. tx_count
        BY <1>1, <3>1
      <4>2. buffer[Around(tx_head + i - 1, TxCapacity)] \in TxByte
        BY <4>1 DEF StdoutInv
      <4> QED BY <2>2, <3>1, <4>2
    <3>2. CASE ~(i <= tx_count)
      <4>1. i - tx_count \in 1 .. n
        BY <1>1, <3>2
      <4> QED BY <2>2, <3>2, <4>1
    <3> QED BY <3>1, <3>2
  <2>5. StdoutInv'
    <3>1. tx_count + n \in 0 .. TxCapacity /\ tx_count + n > 0
      BY <1>1, <1>4
    <3>2. InterruptsServed'
      BY <1>1, <1>2, <2>1, <3>1 DEF InterruptsServed
    <3> QED BY <1>1, <2>1, <2>2, <2>3, <2>4, <3>1, <3>2 DEF StdoutInv
  <2>6. StdoutItemsFacts /\ StdoutItemsFacts'
    BY <2>5, StdoutItemsBothStates
  <2>7. StdoutItems' = StdoutItems \o data
    <3>1. /\ StdoutItems \in Seq(TxByte) /\ Len(StdoutItems) = tx_count
          /\ StdoutItems' \in Seq(TxByte) /\ Len(StdoutItems') = tx_count + n
      BY <2>1, <2>6 DEF StdoutItemsFacts
    <3>2. ASSUME NEW i \in 1 .. tx_count + n
          PROVE  StdoutItems'[i] = IF i <= tx_count THEN StdoutItems[i] ELSE data[i - tx_count]
      <4>1. StdoutItems'[i] = buffer'[Around(tx_head + i - 1, TxCapacity)]
        BY <2>1, <2>6 DEF StdoutItemsFacts
      <4>2. CASE i <= tx_count
        <5>1. i \in 1 .. tx_count
          BY <1>1, <4>2
        <5>2. StdoutItems[i] = buffer[Around(tx_head + i - 1, TxCapacity)]
          BY <2>6, <5>1 DEF StdoutItemsFacts
        <5> QED BY <2>2, <4>1, <4>2, <5>2
      <4>3. CASE ~(i <= tx_count)
        BY <2>2, <4>1, <4>3
      <4> QED BY <4>2, <4>3
    <3>3. \A i \in 1 .. Len(StdoutItems') :
            StdoutItems'[i] = IF i <= Len(StdoutItems) THEN StdoutItems[i]
                              ELSE data[i - Len(StdoutItems)]
      BY <3>1, <3>2, Zenon
    <3>4. Len(StdoutItems') = Len(StdoutItems) + Len(data)
      BY <1>1, <3>1, Zenon
    <3> HIDE DEF StdoutItems
    <3> QED BY <1>1, <3>1, <3>3, <3>4, IsConcatenation
  <2>8. Len(data) <= StdoutFifo!Free
    <3>1. n <= TxCapacity - Len(StdoutItems)
      BY <1>1, <1>4, <2>6 DEF StdoutItemsFacts
    <3> QED BY <1>1, <3>1, Zenon DEF StdoutFifo!Free, StdoutItems
  <2>9. StdoutFifo!Push(request'.data)
    BY <1>1, <1>2, <2>1, <2>7, <2>8, Zenon DEF StdoutFifo!Push, StdoutFifo!Answer, StdoutItems
  <2>10. StdoutFifo!Next
    BY <2>1, <2>9 DEF StdoutFifo!Next
  <2> QED BY <2>5, <2>10
<1>5. CASE n \in 1 .. TxCapacity /\ ~(n <= TxCapacity - tx_count)
  <2>1. /\ initialized' = TRUE /\ txeie' = (initialized /\ txeie)
        /\ rejected' = TRUE /\ request'.op = "push" /\ request'.data = data
        /\ UNCHANGED <<buffer, tx_head, tx_tail, tx_count, stdio_failed>>
    BY <1>1, <1>5 DEF StdoutWrite, Fits, TxInterrupt, tx_ring
  <2>2. txeie' = txeie
    BY <1>1, <2>1
  <2>3. InterruptsServed'
    BY <1>1, <1>2, <2>1, <2>2 DEF InterruptsServed
  <2>4. StdoutInv' /\ StdoutItems' = StdoutItems
    BY <1>1, <1>2, <2>1, <2>2, <2>3, RingAlone
  <2>5. ~(n <= TxCapacity - Len(StdoutItems))
    BY <1>1, <1>5, StdoutItemsAre DEF StdoutItemsFacts
  <2>6. ~(Len(data) <= StdoutFifo!Free)
    BY <1>1, <2>5, Zenon DEF StdoutFifo!Free, StdoutItems
  <2>7. StdoutFifo!Push(request'.data)
    BY <1>1, <1>2, <2>1, <2>4, <2>6, Zenon DEF StdoutFifo!Push, StdoutFifo!Answer, StdoutItems
  <2>8. StdoutFifo!Next
    BY <2>1, <2>7 DEF StdoutFifo!Next
  <2> QED BY <2>4, <2>8
<1> QED BY <1>1, <1>3, <1>4, <1>5

(* The handler takes a byte at the head.                                   *)
LEMMA TransmitRefines ==
  ASSUME StdoutInv, IrqTransmit
  PROVE  StdoutInv' /\ [StdoutFifo!Next]_(StdoutFifo!fifo_vars)
<1>1. /\ TxCapacity \in Nat \ {0} /\ tx_count \in 0 .. TxCapacity
      /\ tx_head \in 0 .. TxCapacity - 1 /\ tx_tail = Around(tx_head + tx_count, TxCapacity)
      /\ txeie \in BOOLEAN /\ initialized \in BOOLEAN
      /\ (txeie <=> tx_count > 0) /\ (lost => ore \/ stdio_failed) /\ (txeie => initialized)
  BY StdioAssumption DEF StdoutInv, InterruptsServed
<1>2. /\ UNCHANGED <<initialized, buffer, tx_tail, ore, lost, stdio_failed>>
      /\ txeie' = (txeie /\ (txe => tx_count' # 0))
  BY DEF IrqTransmit
<1>3. CASE txe /\ txeie /\ tx_count > 0
  <2>1. /\ dr' = <<buffer[tx_head]>> /\ rejected' = FALSE
        /\ request'.op = "pop" /\ request'.len = 1
        /\ tx_head' = (tx_head + 1) % TxCapacity /\ tx_count' = tx_count - 1
    BY <1>3 DEF IrqTransmit
  <2>2. tx_head' = Around(tx_head + 1, TxCapacity)
    <3>1. tx_head + 1 \in 0 .. 2 * TxCapacity - 1
      BY <1>1
    <3> QED BY <1>1, <2>1, <3>1, RemainderIsAround
  <2>3. \A i \in 1 .. tx_count - 1 :
          /\ i + 1 \in 1 .. tx_count
          /\ Around(tx_head' + i - 1, TxCapacity) = Around(tx_head + (i + 1) - 1, TxCapacity)
    BY <1>1, <2>2 DEF Around
  <2>4. StdoutInv'
    <3>1. /\ tx_head' \in 0 .. TxCapacity - 1 /\ tx_count' \in 0 .. TxCapacity
          /\ tx_tail = Around(tx_head' + tx_count', TxCapacity)
      BY <1>1, <1>3, <2>1, <2>2 DEF Around
    <3>2. \A i \in 1 .. tx_count - 1 : buffer[Around(tx_head' + i - 1, TxCapacity)] \in TxByte
      BY <2>3 DEF StdoutInv
    <3>3. txeie' \in BOOLEAN /\ (txeie' <=> tx_count' > 0) /\ (txeie' => txeie)
      <4>1. tx_count' # 0 <=> tx_count' > 0
        BY <1>1, <1>3, <2>1
      <4>2. txeie' = (tx_count' # 0)
        BY <1>1, <1>2, <1>3, Zenon
      <4> QED BY <1>3, <4>1, <4>2, Zenon
    <3>4. InterruptsServed'
      BY <1>1, <1>2, <3>3 DEF InterruptsServed
    <3> QED BY <1>1, <1>2, <2>1, <3>1, <3>2, <3>3, <3>4 DEF StdoutInv
  <2>5. StdoutItemsFacts /\ StdoutItemsFacts'
    BY <2>4, StdoutItemsBothStates
  <2>6. StdoutItems' = SubSeq(StdoutItems, 1 + 1, Len(StdoutItems))
    <3>1. SubSeq(StdoutItems, 2, tx_count) = [i \in 1 .. tx_count - 2 + 1 |-> StdoutItems[2 + i - 1]]
      BY <1>1, <1>3, <2>5, SubSeqIsFunction DEF StdoutItemsFacts
    <3>2. ASSUME NEW i \in 1 .. tx_count - 1
          PROVE  StdoutItems'[i] = StdoutItems[2 + i - 1]
      <4>1. StdoutItems'[i] = buffer[Around(tx_head' + i - 1, TxCapacity)]
        BY <1>2, <2>1, <2>5 DEF StdoutItemsFacts
      <4>2. StdoutItems[i + 1] = buffer[Around(tx_head + (i + 1) - 1, TxCapacity)]
        BY <2>3, <2>5 DEF StdoutItemsFacts
      <4>3. 2 + i - 1 = i + 1
        OBVIOUS
      <4> QED BY <2>3, <4>1, <4>2, <4>3
    <3>3. tx_count - 2 + 1 = tx_count - 1 /\ 1 + 1 = 2
      BY <1>1
    <3>4. StdoutItems' \in [1 .. tx_count - 1 -> TxByte]
      BY <2>1, <2>5 DEF StdoutItemsFacts
    <3> QED BY <2>5, <3>1, <3>2, <3>3, <3>4 DEF StdoutItemsFacts
  <2>7. dr' = SubSeq(StdoutItems, 1, 1)
    <3>1. SubSeq(StdoutItems, 1, 1) = [i \in 1 .. 1 - 1 + 1 |-> StdoutItems[1 + i - 1]]
      BY <1>1, <1>3, <2>5, SubSeqIsFunction DEF StdoutItemsFacts
    <3>2. 1 \in 1 .. tx_count /\ Around(tx_head + 1 - 1, TxCapacity) = tx_head
      BY <1>1, <1>3 DEF Around
    <3>3. StdoutItems[1] = buffer[tx_head]
      BY <2>5, <3>2 DEF StdoutItemsFacts
    <3>4. 1 .. 1 - 1 + 1 = {1} /\ 1 + 1 - 1 = 1
      OBVIOUS
    <3>5. SubSeq(StdoutItems, 1, 1) = [i \in {1} |-> StdoutItems[1 + i - 1]]
      BY <3>1, <3>4
    <3>6. <<buffer[tx_head]>> = [i \in {1} |-> StdoutItems[1 + i - 1]]
      BY <3>3, <3>4
    <3> QED BY <2>1, <3>5, <3>6
  <2>8. 1 <= Len(StdoutItems)
    BY <1>1, <1>3, <2>5 DEF StdoutItemsFacts
  <2>9. StdoutFifo!Pop(request'.len)
    BY <2>1, <2>6, <2>7, <2>8, Zenon
       DEF StdoutFifo!Pop, StdoutFifo!Answer, StdoutFifo!Behind, StdoutItems
  <2>10. StdoutFifo!Next
    BY <2>1, <2>9 DEF StdoutFifo!Next
  <2> QED BY <2>4, <2>10
<1>4. CASE ~(txe /\ txeie /\ tx_count > 0)
  <2>1. UNCHANGED <<dr, txe, request, rejected, tx_head, tx_count>>
    BY <1>4 DEF IrqTransmit, reply
  <2>2. txeie' = txeie
    BY <1>1, <1>2, <1>4, <2>1
  <2>3. InterruptsServed'
    BY <1>1, <1>2, <2>1, <2>2 DEF InterruptsServed
  <2>4. StdoutInv' /\ StdoutItems' = StdoutItems
    BY <1>1, <1>2, <2>1, <2>2, <2>3, RingAlone
  <2> QED BY <2>1, <2>4 DEF StdoutFifo!fifo_vars, StdoutItems
<1> QED BY <1>3, <1>4

(* All other steps: configuring the input, and the rest of the handler.    *)
LEMMA ElsewhereStutters ==
  ASSUME StdoutInv,
         \/ \E on \in BOOLEAN : SetStdinListener(on)
         \/ IrqEntry \/ IrqOverrun \/ IrqReceive \/ IrqNothingReceived \/ ListenerReturns
         \/ ByteSent \/ ByteReceived \/ UNCHANGED stdio_vars
  PROVE  StdoutInv' /\ [StdoutFifo!Next]_(StdoutFifo!fifo_vars)
<1>1. /\ txeie \in BOOLEAN /\ initialized \in BOOLEAN
      /\ (txeie <=> tx_count > 0) /\ (lost => ore \/ stdio_failed) /\ (txeie => initialized)
  BY DEF StdoutInv, InterruptsServed
<1> USE DEF tx_ring, usart, irq, bounds, reply
<1>2. UNCHANGED <<buffer, tx_head, tx_tail, tx_count, dr, request, rejected>>
  BY DEF SetStdinListener, IrqEntry, IrqOverrun, IrqReceive, IrqNothingReceived, Received,
         ListenerReturns, ByteSent, ByteReceived, stdio_vars
<1>3. initialized' \in BOOLEAN /\ (initialized => initialized') /\ txeie' = txeie
  <2>1. CASE \E on \in BOOLEAN : SetStdinListener(on)
    BY <1>1, <2>1 DEF SetStdinListener, TxInterrupt
  <2>2. CASE ~\E on \in BOOLEAN : SetStdinListener(on)
    BY <1>1, <2>2 DEF IrqEntry, IrqOverrun, IrqReceive, IrqNothingReceived, Received,
         ListenerReturns, ByteSent, ByteReceived, stdio_vars
  <2> QED BY <2>1, <2>2
<1>4. lost' => ore' \/ stdio_failed'
  BY <1>1 DEF SetStdinListener, IrqEntry, IrqOverrun, IrqReceive, IrqNothingReceived, Received,
         ListenerReturns, ByteSent, ByteReceived, stdio_vars
<1>5. InterruptsServed'
  BY <1>1, <1>2, <1>3, <1>4 DEF InterruptsServed
<1>6. StdoutInv' /\ StdoutItems' = StdoutItems
  BY <1>2, <1>3, <1>5, RingAlone
<1> QED BY <1>2, <1>6 DEF StdoutFifo!fifo_vars, StdoutItems

LEMMA StdoutStepRefines ==
  StdoutInv /\ [StdioNext]_stdio_vars
    => StdoutInv' /\ [StdoutFifo!Next]_(StdoutFifo!fifo_vars)
<1> SUFFICES ASSUME StdoutInv, [StdioNext]_stdio_vars
             PROVE  StdoutInv' /\ [StdoutFifo!Next]_(StdoutFifo!fifo_vars)
  OBVIOUS
<1>1. ASSUME NEW n \in 0 .. TxCapacity + 1, NEW data \in [1 .. n -> TxByte], StdoutWrite(data)
      PROVE  StdoutInv' /\ [StdoutFifo!Next]_(StdoutFifo!fifo_vars)
  BY <1>1, WriteRefines
<1>2. CASE IrqTransmit
  BY <1>2, TransmitRefines
<1>3. CASE \/ \E on \in BOOLEAN : SetStdinListener(on)
           \/ IrqEntry \/ IrqOverrun \/ IrqReceive \/ IrqNothingReceived \/ ListenerReturns
           \/ ByteSent \/ ByteReceived \/ UNCHANGED stdio_vars
  BY <1>3, ElsewhereStutters
<1> QED BY <1>1, <1>2, <1>3 DEF StdioNext, Irq, AtRest

(* A write appends its whole message or, if that does not fit, nothing,    *)
(* and a byte leaves the ring only by being written to USART_DR, the       *)
(* oldest one first, for any capacity, any messages and any interleaving   *)
(* of writes, listener and handler; and the transmit interrupt is enabled  *)
(* exactly while there is something to send.                               *)
THEOREM StdoutCorrect == StdioSpec => ImplementsStdout
<1>1. StdioInit => StdoutInv /\ StdoutFifo!Init
  BY StdoutInitially
<1>2. StdoutInv /\ [StdioNext]_stdio_vars
        => StdoutInv' /\ [StdoutFifo!Next]_(StdoutFifo!fifo_vars)
  BY StdoutStepRefines
<1>3. StdoutInv => InterruptsServed
  BY DEF StdoutInv
<1> QED BY <1>1, <1>2, <1>3, PTL DEF StdioSpec, ImplementsStdout, StdoutFifo!Spec

(***************************************************************************)
(* The codecs, for blocks of any length, any radix and messages of any     *)
(* length: COBS, the checksum and the byte orders are inverse to each      *)
(* other.                                                                  *)
(***************************************************************************)

(* Induction up to n, as a fact about the set of the numbers it reaches.   *)
LEMMA Reaches ==
  ASSUME NEW n \in Nat, NEW S, 0 \in S, \A i \in 1 .. n : i - 1 \in S => i \in S
  PROVE  \A i \in 0 .. n : i \in S
  <1> DEFINE missed == {i \in 0 .. n : i \notin S}
  <1>1. ASSUME missed # {}
        PROVE  FALSE
    <2>1. missed \in SUBSET Nat
      OBVIOUS
    <2>2. PICK k \in missed : \A j \in missed : k <= j
      <3> HIDE DEF missed
      <3> QED BY <1>1, <2>1, LeastNatural
    <2>3. k \in 1 .. n /\ k - 1 \in 0 .. n /\ ~(k <= k - 1)
      BY <2>2
    <2>4. k - 1 \in S
      BY <2>2, <2>3
    <2> QED BY <2>2, <2>3, <2>4
  <1> QED BY <1>1

(* A function that is defined by recursion over 0 .. n, with a step that   *)
(* stays in S, exists, has its values in S and is the only one.            *)
Stays(S, n, F) == \A i \in 1 .. n : \A x \in S : F[i][x] \in S
Iterates(f, S, base, n, F) ==
  /\ f \in [0 .. n -> S] /\ f[0] = base /\ \A i \in 1 .. n : f[i] = F[i][f[i - 1]]
  /\ \A g : g[0] = base /\ (\A i \in 1 .. n : g[i - 1] \in S => g[i] = F[i][g[i - 1]])
       => \A i \in 0 .. n : g[i] = f[i]

LEMMA Iteration ==
  ASSUME NEW S, NEW base \in S, NEW n \in Nat, NEW F, Stays(S, n, F)
  PROVE  \E f : Iterates(f, S, base, n, F)
  <1> DEFINE Upto(k) == \E f \in [0 .. k -> S] :
                          f[0] = base /\ \A i \in 1 .. k : f[i] = F[i][f[i - 1]]
             able == {k \in 0 .. n : Upto(k)}
  <1>1. Upto(0)
    <2> DEFINE f == [i \in 0 .. 0 |-> base]
    <2>1. f \in [0 .. 0 -> S] /\ f[0] = base /\ \A i \in 1 .. 0 : FALSE
      OBVIOUS
    <2> HIDE DEF f
    <2> QED BY <2>1
  <1>2. ASSUME NEW k \in 1 .. n, Upto(k - 1)
        PROVE  Upto(k)
    <2>1. PICK f \in [0 .. k - 1 -> S] :
            f[0] = base /\ \A i \in 1 .. k - 1 : f[i] = F[i][f[i - 1]]
      BY <1>2
    <2> DEFINE g == [i \in 0 .. k |-> IF i < k THEN f[i] ELSE F[k][f[k - 1]]]
    <2>2. k - 1 \in 0 .. k - 1 /\ F[k][f[k - 1]] \in S
      BY <2>1 DEF Stays
    <2>3. \A i \in 0 .. k : i # k => i \in 0 .. k - 1 /\ i < k /\ g[i] = f[i]
      OBVIOUS
    <2>4. g[k] = F[k][f[k - 1]] /\ g[k - 1] = f[k - 1]
      OBVIOUS
    <2>5. g \in [0 .. k -> S]
      <3>1. \A i \in 0 .. k : g[i] \in S
        BY <2>1, <2>2, <2>3, <2>4
      <3> QED BY <3>1
    <2>6. \A i \in 1 .. k : g[i] = F[i][g[i - 1]]
      <3> TAKE i \in 1 .. k
      <3>1. CASE i = k
        BY <2>4, <3>1
      <3>2. CASE i # k
        <4>1. i \in 1 .. k - 1 /\ i \in 0 .. k /\ i - 1 \in 0 .. k /\ i - 1 # k
          BY <3>2
        <4>2. g[i] = f[i] /\ g[i - 1] = f[i - 1]
          BY <2>3, <3>2, <4>1
        <4> QED BY <2>1, <4>1, <4>2
      <3> QED BY <3>1, <3>2
    <2>7. g[0] = base
      BY <2>1, <2>3
    <2> HIDE DEF g
    <2> QED BY <2>5, <2>6, <2>7
  <1>3. Upto(n)
    <2> HIDE DEF Upto
    <2>1. 0 \in able /\ \A i \in 1 .. n : i - 1 \in able => i \in able
      BY <1>1, <1>2
    <2> HIDE DEF able
    <2>2. n \in able
      BY <2>1, Reaches
    <2> QED BY <2>2 DEF able
  <1>4. PICK f \in [0 .. n -> S] : f[0] = base /\ \A i \in 1 .. n : f[i] = F[i][f[i - 1]]
    BY <1>3
  <1>5. ASSUME NEW g, g[0] = base, \A i \in 1 .. n : g[i - 1] \in S => g[i] = F[i][g[i - 1]]
        PROVE  \A i \in 0 .. n : g[i] = f[i]
    <2> DEFINE same == {i \in 0 .. n : g[i] = f[i]}
    <2>1. 0 \in same
      BY <1>4, <1>5
    <2>2. ASSUME NEW i \in 1 .. n, i - 1 \in same
          PROVE  i \in same
      <3>1. i \in 0 .. n /\ i - 1 \in 0 .. n
        OBVIOUS
      <3>2. g[i - 1] = f[i - 1] /\ f[i - 1] \in S
        BY <1>4, <2>2, <3>1
      <3>3. g[i] = f[i]
        BY <1>4, <1>5, <3>2
      <3> QED BY <3>1, <3>3
    <2> HIDE DEF same
    <2>3. \A i \in 0 .. n : i \in same
      BY <2>1, <2>2, Reaches
    <2> QED BY <2>3 DEF same
  <1> QED BY <1>4, <1>5 DEF Iterates

-----------------------------------------------------------------------------
Octet == 0 .. Radix - 1
Empty == [out |-> <<>>, block |-> <<>>]
Coders == [out : Seq(Nat), block : Seq(Nat)]

LEMMA ByteStaysInCoders ==
  ASSUME NEW s \in Coders, NEW byte \in Nat
  PROVE  CobsByte(s, byte) \in Coders
  <1>1. Append(s.block, byte) \in Seq(Nat) /\ Len(s.block) \in Nat
    BY DEF Coders
  <1>2. \A b \in Seq(Nat) : [out |-> s.out \o <<Len(b) + 1>> \o b, block |-> <<>>] \in Coders
    <2> TAKE b \in Seq(Nat)
    <2>1. <<Len(b) + 1>> \in Seq(Nat) /\ s.out \in Seq(Nat)
      BY DEF Coders
    <2>2. s.out \o <<Len(b) + 1>> \in Seq(Nat)
      BY <2>1, ConcatProperties
    <2>3. s.out \o <<Len(b) + 1>> \o b \in Seq(Nat)
      BY <2>2, ConcatProperties
    <2> QED BY <2>3 DEF Coders
  <1>3. s.block \in Seq(Nat) /\ [s EXCEPT !.block = Append(s.block, byte)] \in Coders
        /\ [s EXCEPT !.block = Append(s.block, byte)].out = s.out
        /\ [s EXCEPT !.block = Append(s.block, byte)].block = Append(s.block, byte)
    BY <1>1 DEF Coders
  <1> QED BY <1>1, <1>2, <1>3 DEF CobsByte, CobsClose

LEMMA EncoderIs ==
  ASSUME NEW data \in Seq(Nat)
  PROVE  /\ CobsEncoder(data) \in [0 .. Len(data) -> Coders]
         /\ CobsEncoder(data)[0] = Empty
         /\ \A i \in 1 .. Len(data) :
              CobsEncoder(data)[i] = CobsByte(CobsEncoder(data)[i - 1], data[i])
  <1> DEFINE n == Len(data)
             Steps(f) == f = [i \in 0 .. n |->
                               IF i = 0 THEN Empty ELSE CobsByte(f[i - 1], data[i])]
             F == [i \in 1 .. n |-> [x \in Coders |-> CobsByte(x, data[i])]]
  <1>1. n \in Nat /\ Empty \in Coders /\ \A i \in 1 .. n : data[i] \in Nat
    BY DEF Empty, Coders
  <1>2. \A i \in 1 .. n : \A x \in Coders : F[i][x] = CobsByte(x, data[i]) /\ F[i][x] \in Coders
    BY <1>1, ByteStaysInCoders
  <1> HIDE DEF F, n
  <1>3. PICK f : Iterates(f, Coders, Empty, n, F)
    <2>1. Stays(Coders, n, F)
      BY <1>2 DEF Stays
    <2> QED BY <1>1, <2>1, Iteration
  <1>4. Steps(f)
    <2>1. \A i \in 0 .. n : i # 0 => i \in 1 .. n /\ i - 1 \in 0 .. n
      BY <1>1
    <2>2. \A i \in 0 .. n : f[i] = IF i = 0 THEN Empty ELSE CobsByte(f[i - 1], data[i])
      BY <1>2, <1>3, <2>1 DEF Iterates
    <2> QED BY <1>3, <2>2 DEF Iterates
  <1> DEFINE e == CobsEncoder(data)
  <1>5. Steps(e)
    <2>1. e = CHOOSE g : Steps(g)
      BY DEF CobsEncoder, Empty, n
    <2> HIDE DEF Steps, e
    <2> QED BY <1>4, <2>1
  <1> HIDE DEF e
  <1>6. e[0] = Empty /\ \A i \in 1 .. n : e[i] = CobsByte(e[i - 1], data[i])
    BY <1>1, <1>5
  <1>7. \A i \in 0 .. n : e[i] = f[i]
    BY <1>2, <1>3, <1>6 DEF Iterates
  <1>8. e \in [0 .. n -> Coders]
    <2>1. e = [i \in 0 .. n |-> e[i]]
      BY <1>5
    <2> HIDE DEF Steps
    <2> QED BY <1>3, <1>7, <2>1 DEF Iterates
  <1> QED BY <1>6, <1>8 DEF e, n

-----------------------------------------------------------------------------
Zero(in, i) ==
  IF in[i] < CobsCodeMax /\ i + in[i] <= Len(in) /\ in[i + in[i]] # Delimiter
  THEN <<Delimiter>> ELSE <<>>
Found(b, o) == [found |-> b, out |-> o]
Decoded(f, in, i) ==
  IF i > Len(in) \/ in[i] - 1 > Len(in) - i THEN Found(FALSE, <<>>)
  ELSE IF in[i] = Delimiter THEN Found(TRUE, <<>>)
  ELSE Found(f[i + in[i]].found,
             SubSeq(in, i + 1, i + in[i] - 1) \o Zero(in, i) \o f[i + in[i]].out)
Decodes(f, in, a) == f = [i \in a .. Len(in) + 1 |-> Decoded(f, in, i)]

LEMMA DecodesExists ==
  ASSUME NEW in \in Seq(Nat)
  PROVE  \E f : Decodes(f, in, 1)
  <1> DEFINE n == Len(in)
             none == {k \in Nat : k <= n /\ ~\E f : Decodes(f, in, n + 1 - k)}
  <1>0. n \in Nat
    OBVIOUS
  <1>1. ASSUME none # {}
        PROVE  FALSE
    <2>0. none \in SUBSET Nat
      OBVIOUS
    <2>1. PICK k \in none : \A j \in none : k <= j
      <3> HIDE DEF none
      <3> QED BY <1>1, <2>0, LeastNatural
    <2>2. k # 0
      <3>1. Decodes([i \in n + 1 .. n + 1 |-> Found(FALSE, <<>>)], in, n + 1 - 0)
        <4>1. n + 1 - 0 = n + 1 /\ \A i \in n + 1 .. n + 1 : i > n
          BY <1>0
        <4>2. \A h : \A i \in n + 1 .. n + 1 : Decoded(h, in, i) = Found(FALSE, <<>>)
          BY <4>1 DEF Decoded
        <4> QED BY <4>1, <4>2 DEF Decodes
      <3> QED BY <2>1, <3>1
    <2> DEFINE a == n + 1 - k
    <2>3. k \in Nat /\ k <= n /\ k - 1 \in Nat /\ ~(k <= k - 1) /\ n + 1 - (k - 1) = a + 1
          /\ a \in 1 .. n
      BY <1>0, <2>1, <2>2
    <2>4. PICK f : Decodes(f, in, a + 1)
      BY <2>1, <2>3
    <2> HIDE DEF n, a
    <2> DEFINE g == [i \in a .. n + 1 |-> IF i = a THEN Decoded(f, in, a) ELSE f[i]]
    <2>5. \A i \in a + 1 .. n + 1 : f[i] = Decoded(f, in, i) /\ g[i] = f[i]
      <3> TAKE i \in a + 1 .. n + 1
      <3>1. i # a /\ i \in a .. n + 1
        BY <1>0, <2>3
      <3>2. f[i] = Decoded(f, in, i)
        BY <2>4 DEF Decodes, n
      <3> QED BY <3>1, <3>2
    <2>6. \A i \in a .. n + 1 : Decoded(g, in, i) = Decoded(f, in, i)
      <3> TAKE i \in a .. n + 1
      <3>1. CASE i > n \/ in[i] - 1 > n - i \/ in[i] = Delimiter
        BY <3>1 DEF Decoded, n
      <3>2. CASE ~(i > n \/ in[i] - 1 > n - i \/ in[i] = Delimiter)
        <4>1. i \in 1 .. n /\ in[i] \in Nat
          BY <1>0, <2>3, <3>2 DEF n
        <4>2. i + in[i] \in a + 1 .. n + 1
          BY <1>0, <2>3, <3>2, <4>1 DEF Delimiter
        <4>3. f[i + in[i]] = g[i + in[i]]
          BY <2>5, <4>2
        <4> HIDE DEF g
        <4> QED BY <4>3 DEF Decoded
      <3> QED BY <3>1, <3>2
    <2>7. \A i \in a .. n + 1 : g[i] = Decoded(g, in, i)
      <3> TAKE i \in a .. n + 1
      <3>1. i # a => i \in a + 1 .. n + 1
        BY <1>0, <2>3
      <3>2. g[i] = Decoded(f, in, i)
        BY <2>5, <3>1
      <3> QED BY <2>6, <3>2
    <2>8. g = [i \in a .. n + 1 |-> g[i]]
      OBVIOUS
    <2> HIDE DEF g
    <2>9. Decodes(g, in, a)
      BY <2>7, <2>8 DEF Decodes, n
    <2> QED BY <2>1, <2>9 DEF a, n
  <1>2. n \notin none /\ n + 1 - n = 1
    BY <1>0, <1>1
  <1> QED BY <1>0, <1>2

LEMMA DecoderIs ==
  ASSUME NEW in \in Seq(Nat)
  PROVE  \A i \in 1 .. Len(in) + 1 : CobsDecoder(in)[i] = Decoded(CobsDecoder(in), in, i)
  <1> DEFINE Steps(f) == f = [i \in 1 .. Len(in) + 1 |->
        IF i > Len(in) \/ in[i] - 1 > Len(in) - i THEN [found |-> FALSE, out |-> <<>>]
        ELSE IF in[i] = Delimiter THEN [found |-> TRUE, out |-> <<>>]
        ELSE LET next == i + in[i]
                 zero == in[i] < CobsCodeMax /\ next <= Len(in) /\ in[next] # Delimiter
             IN [found |-> f[next].found,
                 out |-> SubSeq(in, i + 1, next - 1)
                           \o (IF zero THEN <<Delimiter>> ELSE <<>>) \o f[next].out]]
  <1>1. ASSUME NEW f
        PROVE  Steps(f) <=> Decodes(f, in, 1)
    <2> DEFINE body(i) ==
          IF i > Len(in) \/ in[i] - 1 > Len(in) - i THEN [found |-> FALSE, out |-> <<>>]
          ELSE IF in[i] = Delimiter THEN [found |-> TRUE, out |-> <<>>]
          ELSE LET next == i + in[i]
                   zero == in[i] < CobsCodeMax /\ next <= Len(in) /\ in[next] # Delimiter
               IN [found |-> f[next].found,
                   out |-> SubSeq(in, i + 1, next - 1)
                             \o (IF zero THEN <<Delimiter>> ELSE <<>>) \o f[next].out]
    <2>1. \A i \in 1 .. Len(in) + 1 : body(i) = Decoded(f, in, i)
      <3> TAKE i \in 1 .. Len(in) + 1
      <3>1. CASE i > Len(in) \/ in[i] - 1 > Len(in) - i
        BY <3>1 DEF Decoded, Found
      <3>2. CASE ~(i > Len(in) \/ in[i] - 1 > Len(in) - i) /\ in[i] = Delimiter
        BY <3>2 DEF Decoded, Found
      <3>3. CASE ~(i > Len(in) \/ in[i] - 1 > Len(in) - i) /\ in[i] # Delimiter
        <4> DEFINE next == i + in[i]
                   zero == in[i] < CobsCodeMax /\ next <= Len(in) /\ in[next] # Delimiter
                   mark == IF zero THEN <<Delimiter>> ELSE <<>>
        <4>1. body(i) = [found |-> f[next].found,
                         out |-> SubSeq(in, i + 1, next - 1) \o mark \o f[next].out]
          BY <3>3, Zenon
        <4>2. Decoded(f, in, i) = [found |-> f[next].found,
                         out |-> SubSeq(in, i + 1, next - 1) \o Zero(in, i) \o f[next].out]
          <5>1. Decoded(f, in, i) = Found(f[next].found,
                          SubSeq(in, i + 1, next - 1) \o Zero(in, i) \o f[next].out)
            BY <3>3 DEF Decoded
          <5> QED BY <5>1 DEF Found
        <4>3. Zero(in, i) = mark
          BY Zenon DEF Zero
        <4> HIDE DEF mark, body
        <4> QED BY <4>1, <4>2, <4>3
      <3> QED BY <3>1, <3>2, <3>3
    <2>2. Steps(f) <=> f = [i \in 1 .. Len(in) + 1 |-> body(i)]
      OBVIOUS
    <2> HIDE DEF body, Steps
    <2> QED BY <2>1, <2>2 DEF Decodes
  <1>2. \E f : Steps(f)
    BY <1>1, DecodesExists
  <1>3. CobsDecoder(in) = CHOOSE f : Steps(f)
    BY DEF CobsDecoder
  <1> HIDE DEF Steps
  <1>4. Decodes(CobsDecoder(in), in, 1)
    BY <1>1, <1>2, <1>3
  <1> QED BY <1>4 DEF Decodes

-----------------------------------------------------------------------------
(* Induction from the end of a sequence of n bytes to its start.           *)
LEMMA Descends ==
  ASSUME NEW n \in Nat, NEW S,
         \A i \in 1 .. n : (\A j \in i + 1 .. n : j \in S) => i \in S
  PROVE  \A i \in 1 .. n : i \in S
  <1> DEFINE behind == {k \in 0 .. n : \A j \in n + 1 - k .. n : j \in S}
  <1>1. 0 \in behind
    <2>1. \A j \in n + 1 - 0 .. n : FALSE
      OBVIOUS
    <2> QED BY <2>1
  <1>2. ASSUME NEW k \in 1 .. n, k - 1 \in behind
        PROVE  k \in behind
    <2>1. n + 1 - k \in 1 .. n /\ n + 1 - (k - 1) = (n + 1 - k) + 1 /\ k \in 0 .. n
      OBVIOUS
    <2>2. \A j \in (n + 1 - k) + 1 .. n : j \in S
      BY <1>2, <2>1
    <2>3. n + 1 - k \in S
      BY <2>1, <2>2
    <2>4. \A j \in n + 1 - k .. n : j = n + 1 - k \/ j \in (n + 1 - k) + 1 .. n
      OBVIOUS
    <2> QED BY <2>1, <2>2, <2>3, <2>4
  <1> HIDE DEF behind
  <1>3. \A k \in 0 .. n : k \in behind
    BY <1>1, <1>2, Reaches
  <1>4. n \in behind /\ n + 1 - n = 1
    BY <1>3
  <1> QED BY <1>4 DEF behind

(* A whole block in front of byte Len(in) + 1.                             *)
Block(in, i) == i <= Len(in) /\ in[i] - 1 <= Len(in) - i /\ in[i] # Delimiter
Outputs == [found : BOOLEAN, out : Seq(Nat)]
Chunk(in, i) == SubSeq(in, i + 1, i + in[i] - 1) \o Zero(in, i)

(* Concatenation that the provers do not take apart.                       *)
Seqs(S) == Seq(S)
Cat(a, b) == a \o b

LEMMA Cats ==
  \A S : \A a, b, c \in Seqs(S) : Cat(a, b) \in Seqs(S) /\ Cat(Cat(a, b), c) = Cat(a, Cat(b, c))
  BY ConcatProperties, ConcatAssociative DEF Seqs, Cat

LEMMA BlockEnds ==
  ASSUME NEW in \in Seq(Nat), NEW i \in 1 .. Len(in) + 1, Block(in, i)
  PROVE  /\ i \in 1 .. Len(in) /\ in[i] \in Nat /\ i + in[i] \in i + 1 .. Len(in) + 1
         /\ Chunk(in, i) \in Seqs(Nat)
  <1>1. i \in 1 .. Len(in) /\ in[i] \in Nat /\ i + in[i] \in i + 1 .. Len(in) + 1
    BY DEF Block, Delimiter
  <1>2. SubSeq(in, i + 1, i + in[i] - 1) \in Seq(Nat)
    <2>1. i + 1 \in 1 .. Len(in) + 1 /\ i + in[i] - 1 \in i .. Len(in)
      BY <1>1
    <2> QED BY <2>1, SubSeqProperties
  <1>3. Zero(in, i) \in Seq(Nat)
    BY DEF Zero, Delimiter
  <1>4. Cat(SubSeq(in, i + 1, i + in[i] - 1), Zero(in, i)) \in Seqs(Nat)
    <2>1. SubSeq(in, i + 1, i + in[i] - 1) \in Seqs(Nat) /\ Zero(in, i) \in Seqs(Nat)
      BY <1>2, <1>3 DEF Seqs
    <2> QED BY <2>1, Cats
  <1> QED BY <1>1, <1>4 DEF Chunk, Cat

LEMMA DecoderStep ==
  ASSUME NEW in \in Seq(Nat), NEW i \in 1 .. Len(in) + 1
  PROVE  LET d == CobsDecoder(in)
         IN /\ Block(in, i) =>
                 d[i] = Found(d[i + in[i]].found, Cat(Chunk(in, i), d[i + in[i]].out))
            /\ ~Block(in, i) => /\ d[i].out = <<>>
                                /\ d[i].found <=> i <= Len(in) /\ in[i] = Delimiter
  <1> DEFINE d == CobsDecoder(in)
  <1>1. d[i] = Decoded(d, in, i)
    BY DecoderIs
  <1> HIDE DEF d
  <1>2. Len(in) \in Nat /\ (i <= Len(in) => in[i] \in Nat)
    OBVIOUS
  <1>3. CASE Block(in, i)
    <2>1. ~(i > Len(in) \/ in[i] - 1 > Len(in) - i) /\ in[i] # Delimiter
      BY <1>2, <1>3 DEF Block
    <2>2. Decoded(d, in, i) = Found(d[i + in[i]].found, Cat(Chunk(in, i), d[i + in[i]].out))
      BY <2>1 DEF Decoded, Cat, Chunk
    <2> QED BY <1>1, <1>3, <2>2 DEF d
  <1>4. CASE ~Block(in, i)
    <2>1. CASE i > Len(in) \/ in[i] - 1 > Len(in) - i
      <3>1. d[i] = Found(FALSE, <<>>)
        BY <1>1, <2>1 DEF Decoded
      <3>2. ~(i <= Len(in) /\ in[i] = Delimiter)
        BY <1>2, <2>1 DEF Delimiter
      <3> QED BY <1>4, <3>1, <3>2 DEF Found, d
    <2>2. CASE ~(i > Len(in) \/ in[i] - 1 > Len(in) - i)
      <3>1. i <= Len(in) /\ in[i] = Delimiter
        BY <1>2, <1>4, <2>2 DEF Block
      <3>2. d[i] = Found(TRUE, <<>>)
        BY <1>1, <2>2, <3>1 DEF Decoded
      <3> QED BY <1>4, <3>1, <3>2 DEF Found, d
    <2> QED BY <2>1, <2>2
  <1> QED BY <1>3, <1>4

LEMMA DecoderOutputs ==
  ASSUME NEW in \in Seq(Nat)
  PROVE  \A i \in 1 .. Len(in) + 1 : CobsDecoder(in)[i] \in Outputs
  <1> DEFINE d == CobsDecoder(in)
             n == Len(in) + 1
             good == {i \in 1 .. n : d[i] \in Outputs}
  <1>1. ASSUME NEW i \in 1 .. n, \A j \in i + 1 .. n : j \in good
        PROVE  i \in good
    <2>1. CASE Block(in, i)
      <3>1. i + in[i] \in i + 1 .. n /\ Chunk(in, i) \in Seqs(Nat)
        BY <2>1, BlockEnds
      <3>2. d[i + in[i]] \in Outputs
        BY <1>1, <3>1
      <3>3. d[i + in[i]].found \in BOOLEAN /\ d[i + in[i]].out \in Seq(Nat)
        BY <3>2 DEF Outputs
      <3>4. d[i + in[i]].out \in Seqs(Nat)
        BY <3>3 DEF Seqs
      <3>5. Cat(Chunk(in, i), d[i + in[i]].out) \in Seq(Nat)
        <4>1. Cat(Chunk(in, i), d[i + in[i]].out) \in Seqs(Nat)
          BY <3>1, <3>4, Cats
        <4> QED BY <4>1 DEF Seqs
      <3>6. d[i] = Found(d[i + in[i]].found, Cat(Chunk(in, i), d[i + in[i]].out))
        BY <2>1, DecoderStep
      <3>7. d[i] \in Outputs
        BY <3>3, <3>5, <3>6 DEF Outputs, Found
      <3> QED BY <3>7
    <2>2. CASE ~Block(in, i)
      <3>1. d[i] = Found(TRUE, <<>>) \/ d[i] = Found(FALSE, <<>>)
        <4>1. d[i] = Decoded(d, in, i)
          BY DecoderIs
        <4>2. Len(in) \in Nat /\ (i <= Len(in) => in[i] \in Nat)
          OBVIOUS
        <4> HIDE DEF d
        <4>3. CASE i > Len(in) \/ in[i] - 1 > Len(in) - i
          BY <4>1, <4>3 DEF Decoded
        <4>4. CASE ~(i > Len(in) \/ in[i] - 1 > Len(in) - i)
          <5>1. in[i] = Delimiter
            BY <2>2, <4>2, <4>4 DEF Block
          <5> QED BY <4>1, <4>4, <5>1 DEF Decoded
        <4> QED BY <4>3, <4>4
      <3>2. d[i] \in Outputs
        <4>1. Found(TRUE, <<>>) \in Outputs /\ Found(FALSE, <<>>) \in Outputs
          BY DEF Found, Outputs
        <4> QED BY <3>1, <4>1
      <3> QED BY <3>2
    <2> QED BY <2>1, <2>2
  <1>2. n \in Nat
    OBVIOUS
  <1> HIDE DEF good, n
  <1>3. \A i \in 1 .. n : i \in good
    BY <1>1, <1>2, Descends
  <1> QED BY <1>3 DEF good, n

(* What holds no delimiter holds no packet.                                *)
LEMMA NoPacketFound ==
  ASSUME NEW in \in Seq(Nat), \A i \in 1 .. Len(in) : in[i] # Delimiter
  PROVE  ~CobsDecoder(in)[1].found
  <1> DEFINE d == CobsDecoder(in)
             n == Len(in) + 1
             good == {i \in 1 .. n : ~d[i].found}
  <1>1. ASSUME NEW i \in 1 .. n, \A j \in i + 1 .. n : j \in good
        PROVE  i \in good
    <2>1. CASE Block(in, i)
      <3>1. i + in[i] \in i + 1 .. n
        BY <2>1, BlockEnds
      <3>2. ~d[i + in[i]].found
        BY <1>1, <3>1
      <3>3. d[i] = Found(d[i + in[i]].found, Cat(Chunk(in, i), d[i + in[i]].out))
        BY <2>1, DecoderStep
      <3>4. ~d[i].found
        BY <3>2, <3>3 DEF Found
      <3> QED BY <3>4
    <2>2. CASE ~Block(in, i)
      <3>1. ~(i <= Len(in) /\ in[i] = Delimiter)
        OBVIOUS
      <3> QED BY <2>2, <3>1, DecoderStep
    <2> QED BY <2>1, <2>2
  <1>2. n \in Nat /\ 1 \in 1 .. n
    OBVIOUS
  <1> HIDE DEF good, n
  <1>3. \A i \in 1 .. n : i \in good
    BY <1>1, <1>2, Descends
  <1> QED BY <1>2, <1>3 DEF good

-----------------------------------------------------------------------------
(* A block that is closed behind the bytes out.                            *)
Closed(out, b) == out \o <<Len(b) + 1>> \o b

LEMMA CatIs ==
  ASSUME NEW S, NEW a \in Seq(S), NEW b \in Seq(S)
  PROVE  /\ Cat(a, b) \in Seq(S) /\ Len(Cat(a, b)) = Len(a) + Len(b)
         /\ \A j \in 1 .. Len(a) + Len(b) :
              Cat(a, b)[j] = IF j <= Len(a) THEN a[j] ELSE b[j - Len(a)]
  BY ConcatProperties DEF Cat

LEMMA ClosedIs ==
  ASSUME NEW out \in Seq(Nat), NEW b \in Seq(Nat)
  PROVE  LET c == Closed(out, b)
         IN /\ c \in Seq(Nat) /\ Len(c) = Len(out) + 1 + Len(b)
            /\ \A j \in 1 .. Len(out) : c[j] = out[j]
            /\ c[Len(out) + 1] = Len(b) + 1
            /\ \A j \in 1 .. Len(b) : c[Len(out) + 1 + j] = b[j]
  <1> DEFINE code == <<Len(b) + 1>>
             front == Cat(out, code)
             c == Cat(front, b)
  <1>1. code \in Seq(Nat) /\ Len(code) = 1 /\ code[1] = Len(b) + 1
    OBVIOUS
  <1> HIDE DEF code
  <1>2. /\ front \in Seq(Nat) /\ Len(front) = Len(out) + 1
        /\ \A j \in 1 .. Len(front) : front[j] = IF j <= Len(out) THEN out[j] ELSE code[j - Len(out)]
    <2>1. /\ front \in Seq(Nat) /\ Len(front) = Len(out) + Len(code)
          /\ \A j \in 1 .. Len(out) + Len(code) :
               front[j] = IF j <= Len(out) THEN out[j] ELSE code[j - Len(out)]
      BY <1>1, CatIs
    <2> QED BY <1>1, <2>1
  <1> HIDE DEF front
  <1>3. /\ c \in Seq(Nat) /\ Len(c) = Len(front) + Len(b)
        /\ \A j \in 1 .. Len(c) : c[j] = IF j <= Len(front) THEN front[j] ELSE b[j - Len(front)]
    <2>1. /\ c \in Seq(Nat) /\ Len(c) = Len(front) + Len(b)
          /\ \A j \in 1 .. Len(front) + Len(b) :
               c[j] = IF j <= Len(front) THEN front[j] ELSE b[j - Len(front)]
      BY <1>2, CatIs
    <2> QED BY <2>1
  <1> HIDE DEF c
  <1>4. Len(out) \in Nat /\ Len(b) \in Nat
    OBVIOUS
  <1>5. \A j \in 1 .. Len(out) : c[j] = out[j]
    <2> TAKE j \in 1 .. Len(out)
    <2>1. j \in 1 .. Len(c) /\ j \in 1 .. Len(front) /\ j <= Len(front) /\ j <= Len(out)
      <3>1. Len(front) = Len(out) + 1 /\ Len(c) = Len(out) + 1 + Len(b)
        BY <1>2, <1>3
      <3> QED BY <1>4, <3>1
    <2> QED BY <1>2, <1>3, <2>1
  <1>6. c[Len(out) + 1] = Len(b) + 1
    <2>1. Len(out) + 1 \in 1 .. Len(c) /\ Len(out) + 1 \in 1 .. Len(front)
          /\ Len(out) + 1 <= Len(front) /\ ~(Len(out) + 1 <= Len(out)) /\ (Len(out) + 1) - Len(out) = 1
      BY <1>2, <1>3, <1>4
    <2> QED BY <1>1, <1>2, <1>3, <2>1
  <1>7. \A j \in 1 .. Len(b) : c[Len(out) + 1 + j] = b[j]
    <2> TAKE j \in 1 .. Len(b)
    <2>1. Len(out) + 1 + j \in 1 .. Len(c) /\ ~(Len(out) + 1 + j <= Len(front))
          /\ (Len(out) + 1 + j) - Len(front) = j
      BY <1>2, <1>3, <1>4
    <2> QED BY <1>3, <2>1
  <1>8. c = Closed(out, b)
    BY DEF c, front, code, Closed, Cat
  <1> QED BY <1>2, <1>3, <1>5, <1>6, <1>7, <1>8

Starts(in, p) == Len(p) <= Len(in) /\ \A j \in 1 .. Len(p) : in[j] = p[j]

(* In front of byte i the decoder has read the bytes o.                    *)
Ahead(in, i, o) ==
  LET d == CobsDecoder(in)
  IN i \in 1 .. Len(in) + 1 /\ d[1].found = d[i].found /\ d[1].out = Cat(o, d[i].out)
Reads(out, o) ==
  \A in \in Seq(Nat) : Starts(in, out) /\ Len(out) < Len(in) /\ in[Len(out) + 1] # Delimiter
                         => Ahead(in, Len(out) + 1, o)

LEMMA ClosedIsRead ==
  ASSUME NEW out \in Seq(Nat), NEW b \in Seq(Nat), NEW o \in Seq(Nat), Reads(out, o),
         NEW in \in Seq(Nat), Starts(in, Closed(out, b))
  PROVE  LET i == Len(out) + 1
         IN in[i] = Len(b) + 1 /\ Ahead(in, i + in[i], Cat(o, Cat(b, Zero(in, i))))
  <1> DEFINE i == Len(out) + 1
             next == i + in[i]
             d == CobsDecoder(in)
             z == Zero(in, i)
  <1>0. Len(out) \in Nat /\ Len(b) \in Nat /\ Len(in) \in Nat
    OBVIOUS
  <1>1. /\ i <= Len(in) /\ in[i] = Len(b) + 1 /\ in[i] # Delimiter /\ i \in 1 .. Len(in)
        /\ i + Len(b) <= Len(in)
        /\ \A j \in 1 .. Len(out) : in[j] = out[j]
        /\ \A j \in 1 .. Len(b) : in[i + j] = b[j]
    <2>1. LET c == Closed(out, b)
          IN /\ Len(c) = Len(out) + 1 + Len(b)
             /\ \A j \in 1 .. Len(out) : c[j] = out[j]
             /\ c[Len(out) + 1] = Len(b) + 1
             /\ \A j \in 1 .. Len(b) : c[Len(out) + 1 + j] = b[j]
      BY ClosedIs
    <2> DEFINE c == Closed(out, b)
    <2> HIDE DEF c
    <2>2. Len(c) <= Len(in) /\ \A j \in 1 .. Len(c) : in[j] = c[j]
      BY DEF Starts, c
    <2>3. /\ Len(c) = Len(out) + 1 + Len(b)
          /\ \A j \in 1 .. Len(out) : c[j] = out[j]
          /\ c[Len(out) + 1] = Len(b) + 1
          /\ \A j \in 1 .. Len(b) : c[Len(out) + 1 + j] = b[j]
      BY <2>1 DEF c
    <2>4. Len(out) + 1 \in 1 .. Len(c) /\ \A j \in 1 .. Len(out) : j \in 1 .. Len(c)
      BY <1>0, <2>3
    <2>5. \A j \in 1 .. Len(b) : Len(out) + 1 + j \in 1 .. Len(c)
      BY <1>0, <2>3
    <2>6. in[i] = Len(b) + 1
      BY <2>2, <2>3, <2>4
    <2>7. /\ \A j \in 1 .. Len(out) : in[j] = out[j]
          /\ \A j \in 1 .. Len(b) : in[i + j] = b[j]
      BY <2>2, <2>3, <2>4, <2>5
    <2>8. i <= Len(in) /\ i \in 1 .. Len(in) /\ i + Len(b) <= Len(in) /\ Len(b) + 1 # Delimiter
      BY <1>0, <2>2, <2>3 DEF Delimiter
    <2> QED BY <2>6, <2>7, <2>8
  <1>2. Block(in, i)
    BY <1>0, <1>1 DEF Block
  <1>3. Ahead(in, i, o)
    <2>1. Starts(in, out) /\ Len(out) < Len(in) /\ in[Len(out) + 1] # Delimiter
      BY <1>0, <1>1 DEF Starts
    <2> QED BY <2>1 DEF Reads
  <1>4. i \in 1 .. Len(in) + 1
    BY <1>0, <1>1
  <1>5. d[i] = Found(d[next].found, Cat(Chunk(in, i), d[next].out))
    BY <1>2, <1>4, DecoderStep
  <1>6. next \in 1 .. Len(in) + 1
    BY <1>0, <1>1
  <1>7. Chunk(in, i) = Cat(b, z)
    <2>1. next - 1 = i + Len(b) /\ i + 1 \in 1 .. Len(in) + 1 /\ i + Len(b) \in i .. Len(in)
      BY <1>0, <1>1
    <2> DEFINE s == SubSeq(in, i + 1, i + Len(b))
    <2>2. s \in Seq(Nat) /\ Len(s) = Len(b) /\ \A j \in 1 .. Len(b) : s[j] = in[(i + 1) + j - 1]
      <3> DEFINE from == i + 1
                 to == i + Len(b)
      <3>1. from \in Int /\ to \in Int /\ (\A j \in from .. to : in[j] \in Nat)
            /\ to - from + 1 = Len(b) /\ (from <= to \/ Len(b) = 0)
        BY <1>0, <1>1
      <3> HIDE DEF from, to
      <3>2. /\ SubSeq(in, from, to) \in Seq(Nat)
            /\ Len(SubSeq(in, from, to)) = IF from <= to THEN to - from + 1 ELSE 0
            /\ \A j \in 1 .. to - from + 1 : SubSeq(in, from, to)[j] = in[from + j - 1]
        BY <3>1, SubSeqProperties
      <3> QED BY <1>0, <3>1, <3>2 DEF from, to
    <2>3. \A j \in 1 .. Len(b) : (i + 1) + j - 1 = i + j
      BY <1>0
    <2> HIDE DEF s, i
    <2>4. \A j \in 1 .. Len(b) : s[j] = b[j]
      BY <1>1, <2>2, <2>3
    <2>5. s = b
      BY <2>2, <2>4, SeqEqual
    <2>6. Chunk(in, i) = s \o Zero(in, i)
      <3>1. SubSeq(in, i + 1, i + in[i] - 1) = s
        <4>1. i + in[i] - 1 = i + Len(b)
          BY <1>0, <1>1, <2>1 DEF i
        <4> QED BY <4>1, Zenon DEF s
      <3> QED BY <3>1, Zenon DEF Chunk
    <2> QED BY <2>5, <2>6 DEF Cat
  <1>8. d[next] \in Outputs
    BY <1>6, DecoderOutputs
  <1> HIDE DEF d, z, next, i
  <1>9. d[1].found = d[i].found /\ d[1].out = Cat(o, d[i].out)
    BY <1>3 DEF Ahead, d
  <1>10. d[i].found = d[next].found /\ d[i].out = Cat(Cat(b, z), d[next].out)
    BY <1>5, <1>7 DEF Found
  <1>11. o \in Seqs(Nat) /\ b \in Seqs(Nat) /\ z \in Seqs(Nat) /\ d[next].out \in Seqs(Nat)
    BY <1>8 DEF Outputs, Seqs, z, Zero, Delimiter
  <1>12. Cat(o, Cat(Cat(b, z), d[next].out)) = Cat(Cat(o, Cat(b, z)), d[next].out)
    <2>1. Cat(b, z) \in Seqs(Nat)
      BY <1>11, Cats
    <2> DEFINE y == Cat(b, z)
               e == d[next].out
    <2>2. o \in Seqs(Nat) /\ y \in Seqs(Nat) /\ e \in Seqs(Nat)
      BY <1>11, <2>1
    <2> HIDE DEF y, e
    <2>3. Cat(o, Cat(y, e)) = Cat(Cat(o, y), e)
      BY <2>2, Cats
    <2> QED BY <2>3 DEF y, e
  <1>13. Ahead(in, next, Cat(o, Cat(b, z)))
    BY <1>6, <1>9, <1>10, <1>12 DEF Ahead, d
  <1> QED BY <1>1, <1>13 DEF next, i, z

-----------------------------------------------------------------------------
LEMMA CatUnits ==
  ASSUME NEW m \in Seq(Nat)
  PROVE  Cat(m, <<>>) = m /\ Cat(<<>>, m) = m
  BY ConcatEmptySeq DEF Cat

LEMMA AppendIsCat ==
  ASSUME NEW m \in Seq(Nat), NEW x \in Nat
  PROVE  Append(m, x) = Cat(m, <<x>>) /\ <<x>> \in Seq(Nat)
  <1>1. Append(m, x) = m \o <<x>>
    BY AppendIsConcat
  <1> QED BY <1>1 DEF Cat

(* The decoder reads a block with the delimiter that it stands for, and a  *)
(* full block without one.                                                 *)
LEMMA ClosedReads ==
  ASSUME NEW out \in Seq(Nat), NEW b \in Seq(Nat), NEW o \in Seq(Nat), Reads(out, o)
  PROVE  /\ Len(b) < CobsBlockMax => Reads(Closed(out, b), Cat(o, Cat(b, <<Delimiter>>)))
         /\ Len(b) = CobsBlockMax => Reads(Closed(out, b), Cat(o, b))
  <1> DEFINE c == Closed(out, b)
             i == Len(out) + 1
  <1>1. c \in Seq(Nat) /\ Len(c) = Len(out) + 1 + Len(b)
    BY ClosedIs
  <1>2. Len(out) \in Nat /\ Len(b) \in Nat /\ CobsBlockMax \in Nat
    BY CodecAssumption
  <1>3. ASSUME NEW in \in Seq(Nat), Starts(in, c), Len(c) < Len(in), in[Len(c) + 1] # Delimiter
        PROVE  /\ Len(b) < CobsBlockMax => Ahead(in, Len(c) + 1, Cat(o, Cat(b, <<Delimiter>>)))
               /\ Len(b) = CobsBlockMax => Ahead(in, Len(c) + 1, Cat(o, b))
    <2>1. in[i] = Len(b) + 1 /\ Ahead(in, i + in[i], Cat(o, Cat(b, Zero(in, i))))
      BY <1>3, ClosedIsRead
    <2>2. i + in[i] = Len(c) + 1 /\ Len(c) + 1 <= Len(in)
      <3>1. Len(in) \in Nat /\ Len(c) \in Nat
        BY <1>1
      <3> HIDE DEF c
      <3> QED BY <1>1, <1>2, <1>3, <2>1, <3>1
    <2>3. Zero(in, i) = IF in[i] < CobsCodeMax THEN <<Delimiter>> ELSE <<>>
      <3> HIDE DEF c, i
      <3> QED BY <1>3, <2>2 DEF Zero
    <2>4. CASE Len(b) < CobsBlockMax
      <3>1. in[i] < CobsCodeMax /\ Len(b) # CobsBlockMax
        BY <1>2, <2>1, <2>4 DEF CobsCodeMax
      <3> QED BY <2>1, <2>2, <2>3, <3>1
    <2>5. CASE Len(b) = CobsBlockMax
      <3>1. ~(in[i] < CobsCodeMax) /\ ~(Len(b) < CobsBlockMax)
        BY <1>2, <2>1, <2>5 DEF CobsCodeMax
      <3>2. Cat(b, <<>>) = b
        BY CatUnits
      <3> QED BY <2>1, <2>2, <2>3, <3>1, <3>2
    <2> QED BY <2>4, <2>5
  <1> HIDE DEF c
  <1>4. /\ Len(b) < CobsBlockMax => Reads(c, Cat(o, Cat(b, <<Delimiter>>)))
        /\ Len(b) = CobsBlockMax => Reads(c, Cat(o, b))
    BY <1>3 DEF Reads
  <1> QED BY <1>4 DEF c

Bare(p) == \A j \in 1 .. Len(p) : p[j] # Delimiter

LEMMA ClosedIsBare ==
  ASSUME NEW out \in Seq(Nat), NEW b \in Seq(Nat), Bare(out), Bare(b)
  PROVE  Bare(Closed(out, b))
  <1> DEFINE c == Closed(out, b)
  <1>1. /\ Len(c) = Len(out) + 1 + Len(b)
        /\ \A j \in 1 .. Len(out) : c[j] = out[j]
        /\ c[Len(out) + 1] = Len(b) + 1
        /\ \A j \in 1 .. Len(b) : c[Len(out) + 1 + j] = b[j]
    BY ClosedIs
  <1>2. Len(out) \in Nat /\ Len(b) \in Nat
    OBVIOUS
  <1> HIDE DEF c
  <1>3. ASSUME NEW j \in 1 .. Len(c)
        PROVE  c[j] # Delimiter
    <2>1. CASE j <= Len(out)
      <3>1. j \in 1 .. Len(out)
        BY <1>1, <1>2, <2>1
      <3> QED BY <1>1, <3>1 DEF Bare
    <2>2. CASE j = Len(out) + 1
      BY <1>1, <1>2, <2>2 DEF Delimiter
    <2>3. CASE j > Len(out) + 1
      <3>1. j - Len(out) - 1 \in 1 .. Len(b) /\ Len(out) + 1 + (j - Len(out) - 1) = j
        BY <1>1, <1>2, <2>3
      <3>2. c[j] = b[j - Len(out) - 1]
        BY <1>1, <3>1
      <3> QED BY <3>1, <3>2 DEF Bare
    <2> QED BY <1>1, <1>2, <2>1, <2>2, <2>3
  <1> QED BY <1>3 DEF Bare, c

(* The inductive invariant of the encoder: what is closed reads as the     *)
(* bytes o, and it is longer than they are by the number of full blocks.   *)
EncodedAs(s, m, o, q) ==
  /\ o \in Seq(Nat) /\ q \in Nat
  /\ m = Cat(o, s.block) /\ Reads(s.out, o)
  /\ Len(s.out) = Len(o) + q /\ q * CobsBlockMax <= Len(o)
Encoded(s, m) ==
  /\ s \in Coders /\ Len(s.block) < CobsBlockMax /\ Bare(s.out) /\ Bare(s.block)
  /\ \E o, q : EncodedAs(s, m, o, q)

LEMMA NothingEncoded == Encoded(Empty, <<>>)
  <1>1. ASSUME NEW in \in Seq(Nat), Starts(in, <<>>), Len(<<>>) < Len(in)
        PROVE  Ahead(in, Len(<<>>) + 1, <<>>)
    <2>1. Len(<<>>) + 1 = 1 /\ 1 \in 1 .. Len(in) + 1
      BY <1>1
    <2>2. CobsDecoder(in)[1].out \in Seq(Nat)
      BY <2>1, DecoderOutputs DEF Outputs
    <2>3. Cat(<<>>, CobsDecoder(in)[1].out) = CobsDecoder(in)[1].out
      BY <2>2, CatUnits
    <2> QED BY <2>1, <2>3 DEF Ahead
  <1>2. Reads(<<>>, <<>>)
    BY <1>1 DEF Reads
  <1>3. /\ Empty.out = <<>> /\ Empty.block = <<>> /\ Empty \in Coders
        /\ Len(<<>>) = 0 /\ Len(<<>>) < CobsBlockMax /\ 0 * CobsBlockMax <= 0 /\ <<>> \in Seq(Nat)
    BY CodecAssumption DEF Empty, Coders
  <1>4. Cat(<<>>, <<>>) = <<>>
    BY <1>3, CatUnits
  <1>5. Bare(<<>>)
    BY DEF Bare
  <1>6. EncodedAs(Empty, <<>>, <<>>, 0)
    BY <1>2, <1>3, <1>4 DEF EncodedAs
  <1> QED BY <1>3, <1>5, <1>6 DEF Encoded

LEMMA NatStep ==
  ASSUME NEW q \in Nat, NEW B \in Nat
  PROVE  (q + 1) * B = q * B + B
  OBVIOUS

(* A byte that is no delimiter and is appended to a block.                 *)
LEMMA GrownBlock ==
  ASSUME NEW b \in Seq(Nat), NEW byte \in Nat, byte # Delimiter, Bare(b)
  PROVE  Append(b, byte) \in Seq(Nat) /\ Len(Append(b, byte)) = Len(b) + 1 /\ Bare(Append(b, byte))
  <1>1. /\ Append(b, byte) \in Seq(Nat) /\ Len(Append(b, byte)) = Len(b) + 1
        /\ \A j \in 1 .. Len(b) + 1 : Append(b, byte)[j] = IF j <= Len(b) THEN b[j] ELSE byte
    OBVIOUS
  <1>2. Len(b) \in Nat
    OBVIOUS
  <1> QED BY <1>1, <1>2 DEF Bare

LEMMA ByteEncoded ==
  ASSUME NEW s, NEW m \in Seq(Nat), Encoded(s, m), NEW byte \in Nat
  PROVE  Encoded(CobsByte(s, byte), Append(m, byte))
  <1> DEFINE out == s.out
             b == s.block
             b2 == Append(b, byte)
             t == CobsByte(s, byte)
             m2 == Append(m, byte)
  <1>1. PICK o, q : EncodedAs(s, m, o, q)
    BY DEF Encoded
  <1>2. /\ out \in Seq(Nat) /\ b \in Seq(Nat) /\ Len(b) < CobsBlockMax /\ Bare(out) /\ Bare(b)
        /\ o \in Seq(Nat) /\ q \in Nat /\ m = Cat(o, b) /\ Reads(out, o)
        /\ Len(out) = Len(o) + q /\ q * CobsBlockMax <= Len(o)
    BY <1>1 DEF Encoded, EncodedAs, Coders
  <1>3. s = [out |-> out, block |-> b] /\ t \in Coders
    BY ByteStaysInCoders DEF Encoded, Coders
  <1>4. m2 = Cat(o, Cat(b, <<byte>>)) /\ b2 = Cat(b, <<byte>>) /\ <<byte>> \in Seq(Nat)
        /\ Cat(b, <<byte>>) \in Seq(Nat)
    <2>1. m2 = Cat(m, <<byte>>) /\ b2 = Cat(b, <<byte>>) /\ <<byte>> \in Seq(Nat)
      BY <1>2, AppendIsCat
    <2>2. o \in Seqs(Nat) /\ b \in Seqs(Nat) /\ <<byte>> \in Seqs(Nat)
      BY <1>2, <2>1 DEF Seqs
    <2> DEFINE one == <<byte>>
    <2> HIDE DEF one, b, m2
    <2>3. Cat(Cat(o, b), one) = Cat(o, Cat(b, one)) /\ Cat(b, one) \in Seqs(Nat)
      BY <2>2, Cats DEF one
    <2> QED BY <1>2, <2>1, <2>3 DEF one, Seqs
  <1>5. Len(out) \in Nat /\ Len(b) \in Nat /\ Len(o) \in Nat /\ CobsBlockMax \in Nat \ {0}
    BY <1>2, CodecAssumption
  <1> HIDE DEF m2, out, b
  <1>6. CASE byte = Delimiter
    <2> DEFINE c == Closed(out, b)
               o2 == Cat(o, Cat(b, <<byte>>))
    <2>1. t.out = c /\ t.block = <<>>
      BY <1>6 DEF CobsByte, CobsClose, Closed, out, b
    <2>2. Bare(c) /\ Len(c) = Len(out) + 1 + Len(b) /\ Reads(c, o2)
      BY <1>2, <1>6, ClosedIs, ClosedIsBare, ClosedReads
    <2>3. o2 \in Seq(Nat) /\ Len(o2) = Len(o) + Len(b) + 1
      <3>1. Len(<<byte>>) = 1
        OBVIOUS
      <3> DEFINE y == Cat(b, <<byte>>)
      <3>2. y \in Seq(Nat) /\ Len(y) = Len(b) + Len(<<byte>>)
        BY <1>2, <1>4, CatIs
      <3>3. o2 \in Seq(Nat) /\ Len(o2) = Len(o) + Len(y)
        BY <1>2, <3>2, CatIs
      <3> HIDE DEF o2, y
      <3> QED BY <1>5, <3>1, <3>2, <3>3
    <2>4. Cat(o2, <<>>) = o2
      BY <2>3, CatUnits
    <2> HIDE DEF c, o2, t
    <2>5. Len(c) = Len(o2) + q /\ q * CobsBlockMax <= Len(o2)
      <3>1. q * CobsBlockMax \in Nat
        BY <1>2, <1>5
      <3> QED BY <1>2, <1>5, <2>2, <2>3, <3>1
    <2>6. EncodedAs(t, m2, o2, q)
      BY <1>2, <1>4, <2>1, <2>2, <2>3, <2>4, <2>5 DEF EncodedAs, o2
    <2>7. Len(<<>>) < CobsBlockMax /\ Bare(<<>>)
      BY <1>5 DEF Bare
    <2> QED BY <1>3, <2>1, <2>2, <2>6, <2>7 DEF Encoded, m2, t
  <1>7. CASE byte # Delimiter /\ Len(b2) + 1 = CobsCodeMax
    <2> DEFINE c == Closed(out, b2)
               o2 == Cat(o, b2)
    <2>0. b2 \in Seq(Nat) /\ Len(b2) = Len(b) + 1 /\ Bare(b2)
      BY <1>2, <1>7, GrownBlock
    <2>1. t.out = c /\ t.block = <<>>
      <3>1. [s EXCEPT !.block = Append(s.block, byte)].block = b2
            /\ [s EXCEPT !.block = Append(s.block, byte)].out = out
        BY <1>3 DEF b
      <3> QED BY <1>7, <3>1 DEF CobsByte, CobsClose, Closed
    <2>2. Len(b2) = CobsBlockMax
      BY <1>5, <1>7, <2>0 DEF CobsCodeMax
    <2> HIDE DEF b2
    <2>3. Bare(c) /\ Len(c) = Len(out) + 1 + Len(b2) /\ Reads(c, o2)
      BY <1>2, <2>0, <2>2, ClosedIs, ClosedIsBare, ClosedReads
    <2>4. o2 \in Seq(Nat) /\ Len(o2) = Len(o) + Len(b2)
      BY <1>2, <2>0, CatIs
    <2>5. Cat(o2, <<>>) = o2
      BY <2>4, CatUnits
    <2>6. m2 = o2
      BY <1>4 DEF b2
    <2> HIDE DEF c, o2, t
    <2>7. Len(c) = Len(o2) + (q + 1) /\ (q + 1) * CobsBlockMax <= Len(o2)
      <3>1. q * CobsBlockMax \in Nat /\ (q + 1) * CobsBlockMax = q * CobsBlockMax + CobsBlockMax
        BY <1>2, <1>5, NatStep
      <3> QED BY <1>2, <1>5, <2>2, <2>3, <2>4, <3>1
    <2>8. EncodedAs(t, m2, o2, q + 1)
      BY <1>2, <2>1, <2>3, <2>4, <2>5, <2>6, <2>7 DEF EncodedAs
    <2>9. Len(<<>>) < CobsBlockMax /\ Bare(<<>>)
      BY <1>5 DEF Bare
    <2> QED BY <1>3, <2>1, <2>3, <2>8, <2>9 DEF Encoded, m2, t
  <1>8. CASE byte # Delimiter /\ Len(b2) + 1 # CobsCodeMax
    <2>1. b2 \in Seq(Nat) /\ Len(b2) = Len(b) + 1 /\ Bare(b2)
      BY <1>2, <1>8, GrownBlock
    <2>2. t.out = out /\ t.block = b2
      <3>1. [s EXCEPT !.block = Append(s.block, byte)].block = b2
            /\ [s EXCEPT !.block = Append(s.block, byte)].out = out
        BY <1>3 DEF b
      <3> QED BY <1>8, <3>1 DEF CobsByte
    <2>3. Len(b2) < CobsBlockMax
      <3> HIDE DEF b2
      <3>1. Len(b2) + 1 # CobsBlockMax + 1 /\ Len(b) < CobsBlockMax
        BY <1>2, <1>8 DEF CobsCodeMax
      <3> QED BY <1>5, <2>1, <3>1
    <2> HIDE DEF t, b2
    <2>4. EncodedAs(t, m2, o, q)
      BY <1>2, <1>4, <2>2 DEF EncodedAs, b2
    <2> QED BY <1>2, <1>3, <2>1, <2>2, <2>3, <2>4 DEF Encoded, m2, t
  <1> QED BY <1>6, <1>7, <1>8

LEMMA PrefixGrows ==
  ASSUME NEW m \in Seq(Nat), NEW n \in 1 .. Len(m)
  PROVE  /\ SubSeq(m, 1, n - 1) \in Seq(Nat) /\ m[n] \in Nat
         /\ SubSeq(m, 1, n) = Append(SubSeq(m, 1, n - 1), m[n])
  OBVIOUS

LEMMA EncoderEncodes ==
  ASSUME NEW m \in Seq(Nat)
  PROVE  Encoded(CobsEncoder(m)[Len(m)], m)
  <1> DEFINE n == Len(m)
             e == CobsEncoder(m)
             good == {i \in 0 .. n : Encoded(e[i], SubSeq(m, 1, i))}
  <1>1. n \in Nat /\ SubSeq(m, 1, 0) = <<>> /\ SubSeq(m, 1, n) = m
    OBVIOUS
  <1>2. 0 \in good
    <2>1. e[0] = Empty
      BY EncoderIs
    <2>2. Encoded(e[0], SubSeq(m, 1, 0))
      <3> HIDE DEF e
      <3> QED BY <1>1, <2>1, NothingEncoded, Zenon
    <2>3. 0 \in 0 .. n
      BY <1>1
    <2> QED BY <2>2, <2>3
  <1>3. ASSUME NEW i \in 1 .. n, i - 1 \in good
        PROVE  i \in good
    <2>1. e[i] = CobsByte(e[i - 1], m[i])
      BY EncoderIs
    <2>2. Encoded(e[i - 1], SubSeq(m, 1, i - 1))
      BY <1>3
    <2>3. /\ SubSeq(m, 1, i - 1) \in Seq(Nat) /\ m[i] \in Nat
          /\ SubSeq(m, 1, i) = Append(SubSeq(m, 1, i - 1), m[i])
      BY PrefixGrows
    <2> DEFINE p == SubSeq(m, 1, i - 1)
               before == e[i - 1]
    <2> HIDE DEF p, before
    <2>4. p \in Seq(Nat) /\ Encoded(before, p)
      BY <2>2, <2>3 DEF p, before
    <2>5. Encoded(CobsByte(before, m[i]), Append(p, m[i]))
      BY <2>3, <2>4, ByteEncoded
    <2>6. Encoded(e[i], SubSeq(m, 1, i))
      <3> HIDE DEF e
      <3> QED BY <2>1, <2>3, <2>5, Zenon DEF p, before
    <2>7. i \in 0 .. n
      OBVIOUS
    <2> QED BY <2>6, <2>7
  <1> HIDE DEF good, n
  <1>4. n \in good
    <2>1. \A i \in 1 .. n : i - 1 \in good => i \in good
      BY <1>3
    <2>2. \A i \in 0 .. n : i \in good
      BY <1>1, <1>2, <2>1, Reaches
    <2> QED BY <1>1, <2>2
  <1>5. Encoded(e[n], SubSeq(m, 1, n))
    BY <1>4 DEF good
  <1>6. Encoded(e[n], m)
    BY <1>1, <1>5, Zenon
  <1> QED BY <1>6 DEF n

LEMMA MultipleFits ==
  ASSUME NEW B \in Nat \ {0}, NEW q \in Nat, NEW a \in Nat, q * B <= a
  PROVE  q <= a \div B /\ a \div B \in Nat
  <1> DEFINE d == a \div B
  <1>1. d \in Nat /\ a < (d + 1) * B
    OBVIOUS
  <1> HIDE DEF d
  <1>2. ASSUME q > d
        PROVE  FALSE
    <2>1. q - (d + 1) \in Nat
      BY <1>1, <1>2
    <2>2. (q - (d + 1)) * B >= 0
      BY <2>1
    <2>3. (q - (d + 1)) * B = q * B - (d + 1) * B
      BY <1>1
    <2>4. q * B \in Int /\ (d + 1) * B \in Int
      BY <1>1
    <2> DEFINE x == q * B
               y == (d + 1) * B
               z == (q - (d + 1)) * B
    <2>5. x \in Int /\ y \in Int /\ z = x - y /\ z >= 0 /\ x <= a /\ a < y
      BY <1>1, <2>2, <2>3, <2>4
    <2> HIDE DEF x, y, z
    <2> QED BY <2>5
  <1>3. q <= d
    BY <1>1, <1>2
  <1> QED BY <1>1, <1>3 DEF d

LEMMA PacketIsRead ==
  ASSUME NEW s, NEW m \in Seq(Nat), Encoded(s, m),
         NEW in \in Seq(Nat), Starts(in, Append(Closed(s.out, s.block), Delimiter))
  PROVE  CobsDecode(in) = [found |-> TRUE, out |-> m]
  <1> DEFINE out == s.out
             b == s.block
             c == Closed(out, b)
             i == Len(out) + 1
             n == Len(c) + 1
             d == CobsDecoder(in)
  <1>1. PICK o, q : EncodedAs(s, m, o, q)
    BY DEF Encoded
  <1>2. out \in Seq(Nat) /\ b \in Seq(Nat) /\ o \in Seq(Nat) /\ m = Cat(o, b) /\ Reads(out, o)
    BY <1>1 DEF Encoded, EncodedAs, Coders
  <1> HIDE DEF out, b
  <1>3. c \in Seq(Nat) /\ Len(c) = Len(out) + 1 + Len(b)
    BY <1>2, ClosedIs
  <1>4. Starts(in, c) /\ n <= Len(in) /\ in[n] = Delimiter /\ n \in 1 .. Len(in)
    <2> DEFINE p == Append(c, Delimiter)
    <2> HIDE DEF c
    <2>1. /\ Len(p) = n /\ Len(c) \in Nat /\ Len(in) \in Nat /\ p[n] = Delimiter
          /\ \A j \in 1 .. Len(c) : p[j] = c[j]
      <3>1. Delimiter \in Nat /\ c \in Seq(Nat) /\ Len(in) \in Nat
        BY <1>3 DEF Delimiter
      <3> HIDE DEF n
      <3>2. /\ Len(p) = Len(c) + 1 /\ Len(c) \in Nat /\ p[Len(c) + 1] = Delimiter
            /\ \A j \in 1 .. Len(c) : p[j] = c[j]
        BY <3>1
      <3> QED BY <3>1, <3>2 DEF n
    <2>2. Len(p) <= Len(in) /\ \A j \in 1 .. Len(p) : in[j] = p[j]
      BY DEF Starts, c, out, b
    <2> HIDE DEF p
    <2>3. n \in 1 .. Len(p) /\ \A j \in 1 .. Len(c) : j \in 1 .. Len(p)
      BY <2>1
    <2>4. in[n] = Delimiter /\ \A j \in 1 .. Len(c) : in[j] = c[j]
      BY <2>1, <2>2, <2>3
    <2>5. Len(c) <= Len(in) /\ n <= Len(in) /\ n \in 1 .. Len(in)
      BY <2>1, <2>2
    <2> QED BY <2>4, <2>5 DEF Starts
  <1>5. in[i] = Len(b) + 1 /\ Ahead(in, i + in[i], Cat(o, Cat(b, Zero(in, i))))
    BY <1>2, <1>4, ClosedIsRead
  <1>6. i + in[i] = n
    <2>1. Len(out) \in Nat /\ Len(b) \in Nat
      BY <1>2
    <2> HIDE DEF c
    <2> QED BY <1>3, <1>5, <2>1
  <1>7. Zero(in, i) = <<>>
    BY <1>4, <1>6 DEF Zero
  <1>8. Cat(b, <<>>) = b
    BY <1>2, CatUnits
  <1>9. Ahead(in, n, m)
    BY <1>2, <1>5, <1>6, <1>7, <1>8
  <1>10. d[n].out = <<>> /\ d[n].found
    <2>1. ~Block(in, n) /\ n \in 1 .. Len(in) + 1
      BY <1>4 DEF Block
    <2> HIDE DEF n
    <2> QED BY <1>4, <2>1, DecoderStep
  <1>11. d[1] \in Outputs /\ d[n] \in Outputs
    <2>1. 1 \in 1 .. Len(in) + 1 /\ n \in 1 .. Len(in) + 1
      BY <1>4
    <2> HIDE DEF n
    <2> QED BY <2>1, DecoderOutputs
  <1> HIDE DEF n, d
  <1>12. d[1].found = d[n].found /\ d[1].out = Cat(m, d[n].out)
    BY <1>9 DEF Ahead, d
  <1>13. d[1].out = m
    BY <1>10, <1>12, CatUnits
  <1>14. d[1].found = TRUE
    BY <1>10, <1>11, <1>12 DEF Outputs
  <1>15. d[1] = [found |-> TRUE, out |-> m]
    BY <1>11, <1>13, <1>14 DEF Outputs
  <1>16. CobsDecode(in) = d[1]
    BY <1>14 DEF CobsDecode, d
  <1> QED BY <1>15, <1>16

LEMMA FramesHold ==
  ASSUME message \in Seq(Nat)
  PROVE  CobsFrames
  <1> DEFINE s == CobsEncoder(message)[Len(message)]
             out == s.out
             b == s.block
             c == Closed(out, b)
             packet == CobsEncode(message)
  <1>1. Encoded(s, message)
    BY EncoderEncodes
  <1>2. packet = Append(c, Delimiter)
    BY DEF CobsEncode, CobsClose, Closed
  <1> HIDE DEF s, packet
  <1>3. PICK o, q : EncodedAs(s, message, o, q)
    BY <1>1 DEF Encoded
  <1>4. /\ out \in Seq(Nat) /\ b \in Seq(Nat) /\ o \in Seq(Nat) /\ q \in Nat
        /\ message = Cat(o, b) /\ Bare(out) /\ Bare(b)
        /\ Len(out) = Len(o) + q /\ q * CobsBlockMax <= Len(o)
    BY <1>1, <1>3 DEF Encoded, EncodedAs, Coders
  <1> HIDE DEF out, b
  <1>5. c \in Seq(Nat) /\ Len(c) = Len(out) + 1 + Len(b) /\ Bare(c)
    BY <1>4, ClosedIs, ClosedIsBare
  <1>6. Len(message) = Len(o) + Len(b)
    BY <1>4, CatIs
  <1>7. Len(out) \in Nat /\ Len(b) \in Nat /\ Len(o) \in Nat /\ CobsBlockMax \in Nat \ {0}
    BY <1>4, CodecAssumption
  <1> HIDE DEF c
  <1>8. /\ packet \in Seq(Nat) /\ Len(packet) = Len(c) + 1 /\ Len(c) \in Nat
        /\ packet[Len(c) + 1] = Delimiter /\ \A j \in 1 .. Len(c) : packet[j] = c[j]
        /\ DOMAIN packet = 1 .. Len(packet)
    BY <1>2, <1>5 DEF Delimiter
  <1>9. \A i \in DOMAIN packet : packet[i] = Delimiter <=> i = Len(packet)
    <2>1. \A i \in DOMAIN packet : i = Len(c) + 1 \/ i \in 1 .. Len(c)
      BY <1>8
    <2>2. \A i \in 1 .. Len(c) : i # Len(c) + 1
      BY <1>8
    <2> QED BY <1>5, <1>8, <2>1, <2>2 DEF Bare
  <1>10. Len(packet) <= Len(message) + (Len(message) \div CobsBlockMax) + 2
    <2>1. q * CobsBlockMax \in Nat /\ q * CobsBlockMax <= Len(message) /\ Len(message) \in Nat
      BY <1>4, <1>6, <1>7
    <2>2. q <= Len(message) \div CobsBlockMax /\ Len(message) \div CobsBlockMax \in Nat
      BY <1>4, <1>7, <2>1, MultipleFits
    <2> DEFINE z == Len(message) \div CobsBlockMax
    <2> HIDE DEF z
    <2>3. q <= z /\ z \in Nat
      BY <2>2 DEF z
    <2>4. Len(packet) <= Len(message) + z + 2
      BY <1>4, <1>5, <1>6, <1>7, <1>8, <2>3
    <2> QED BY <2>4 DEF z
  <1>11. ASSUME NEW rest \in {<<>>, packet}
         PROVE  CobsDecode(packet \o rest) = [found |-> TRUE, out |-> message]
    <2> DEFINE in == Cat(packet, rest)
    <2>1. rest \in Seq(Nat)
      <3>1. rest = <<>> \/ rest = packet
        BY <1>11
      <3>2. <<>> \in Seq(Nat) /\ packet \in Seq(Nat)
        BY <1>8
      <3> QED BY <3>1, <3>2, Zenon
    <2>2. /\ in \in Seq(Nat) /\ Len(in) = Len(packet) + Len(rest)
          /\ \A j \in 1 .. Len(packet) + Len(rest) :
               in[j] = IF j <= Len(packet) THEN packet[j] ELSE rest[j - Len(packet)]
      BY <1>8, <2>1, CatIs
    <2>3. Len(packet) \in Nat /\ Len(rest) \in Nat
      BY <1>8, <2>1
    <2> HIDE DEF in
    <2>4. Starts(in, packet)
      BY <2>2, <2>3 DEF Starts
    <2>5. Starts(in, Append(Closed(s.out, s.block), Delimiter))
      BY <1>2, <2>4 DEF c, out, b
    <2>6. CobsDecode(in) = [found |-> TRUE, out |-> message]
      BY <1>1, <2>2, <2>5, PacketIsRead
    <2> QED BY <2>6 DEF in, Cat
  <1>12. ASSUME NEW n \in 1 .. Len(packet) - 1
         PROVE  ~CobsDecode(SubSeq(packet, 1, n)).found
    <2> DEFINE in == SubSeq(packet, 1, n)
    <2>1. in \in Seq(Nat) /\ Len(in) = n /\ \A j \in 1 .. n : in[j] = packet[j]
      BY <1>8
    <2>2. \A j \in 1 .. n : j \in DOMAIN packet /\ j # Len(packet)
      BY <1>8
    <2> HIDE DEF in
    <2>3. \A j \in 1 .. Len(in) : in[j] # Delimiter
      BY <1>9, <2>1, <2>2
    <2>4. ~CobsDecoder(in)[1].found
      BY <2>1, <2>3, NoPacketFound
    <2>5. CobsDecode(in) = [found |-> FALSE, out |-> <<>>]
      BY <2>4 DEF CobsDecode
    <2> QED BY <2>5 DEF in
  <1> QED BY <1>9, <1>10, <1>11, <1>12 DEF CobsFrames, packet

-----------------------------------------------------------------------------
(* The checksum. A register of 16 bits stays one.                          *)
Register == SUBSET (0 .. 15)
Octets == SUBSET (0 .. 7)

LEMMA ShiftStays ==
  ASSUME NEW crc \in Register
  PROVE  CrcShift(crc) \in Register
  BY DEF CrcShift, Xor, CrcPoly, Register

Fed(crc, bits) == Xor(crc, {i + 8 : i \in bits})

LEMMA FedStays ==
  ASSUME NEW crc \in Register, NEW bits \in Octets
  PROVE  Fed(crc, bits) \in Register
  <1>1. \A i \in bits : i + 8 \in 0 .. 15
    BY DEF Octets
  <1> DEFINE high == {i + 8 : i \in bits}
  <1>2. \A k \in high : k \in 0 .. 15
    BY <1>1
  <1> HIDE DEF high
  <1>3. Xor(crc, high) \in Register
    BY <1>2 DEF Xor, Register
  <1> QED BY <1>3 DEF Fed, high

(* The register after n shifts.                                            *)
CrcSteps(f, crc, bits) ==
  /\ f[0] = Fed(crc, bits) /\ \A n \in 1 .. 8 : f[n] = CrcShift(f[n - 1])
  /\ \A n \in 0 .. 8 : f[n] \in Register

LEMMA CrcByteIs ==
  ASSUME NEW crc \in Register, NEW bits \in Octets
  PROVE  \E f : CrcSteps(f, crc, bits) /\ CrcByte(crc, bits) = f[8]
  <1> DEFINE start == Fed(crc, bits)
             Steps(f) == f = [n \in 0 .. 8 |-> IF n = 0 THEN Fed(crc, bits) ELSE CrcShift(f[n - 1])]
             F == [n \in 1 .. 8 |-> [x \in Register |-> CrcShift(x)]]
  <1>1. 8 \in Nat /\ start \in Register
    BY FedStays
  <1>2. \A n \in 1 .. 8 : \A x \in Register : F[n][x] = CrcShift(x) /\ F[n][x] \in Register
    BY ShiftStays
  <1> HIDE DEF F, start
  <1>3. PICK f : Iterates(f, Register, start, 8, F)
    <2>1. Stays(Register, 8, F)
      BY <1>2 DEF Stays
    <2> QED BY <1>1, <2>1, Iteration
  <1>4. Steps(f)
    <2>1. \A n \in 0 .. 8 : n # 0 => n \in 1 .. 8 /\ n - 1 \in 0 .. 8
      OBVIOUS
    <2>2. \A n \in 0 .. 8 : f[n] = IF n = 0 THEN Fed(crc, bits) ELSE CrcShift(f[n - 1])
      BY <1>2, <1>3, <2>1 DEF Iterates, start
    <2> QED BY <1>3, <2>2 DEF Iterates
  <1> DEFINE e == CHOOSE g : Steps(g)
  <1>5. Steps(e)
    <2> HIDE DEF Steps
    <2> QED BY <1>4
  <1>6. CrcByte(crc, bits) = e[8]
    BY DEF CrcByte, Fed
  <1> HIDE DEF e
  <1>7. e[0] = start /\ \A n \in 1 .. 8 : e[n] = CrcShift(e[n - 1])
    BY <1>5 DEF start
  <1>8. \A n \in 0 .. 8 : e[n] = f[n]
    BY <1>2, <1>3, <1>7 DEF Iterates
  <1>9. \A n \in 0 .. 8 : f[n] \in Register
    BY <1>3 DEF Iterates
  <1>10. CrcSteps(e, crc, bits)
    BY <1>7, <1>8, <1>9 DEF CrcSteps, start
  <1> QED BY <1>6, <1>10

(* The bits 0 .. 7 leave the register by no shift but the last of eight.   *)
LEMMA LowBitsRise ==
  ASSUME NEW crc, NEW bits, NEW f, CrcSteps(f, crc, bits), Fed(crc, bits) \in Octets
  PROVE  f[8] = {j + 8 : j \in Fed(crc, bits)}
  <1> DEFINE low == Fed(crc, bits)
             risen(n) == {j + n : j \in low}
             good == {n \in 0 .. 8 : f[n] = risen(n)}
  <1>1. f[0] = low /\ \A j \in low : j \in 0 .. 7
    BY DEF CrcSteps, Octets
  <1> HIDE DEF low
  <1>2. 0 \in good
    <2>1. low = risen(0)
      <3>1. \A j \in low : j + 0 = j
        BY <1>1
      <3> QED BY <3>1
    <2> QED BY <1>1, <2>1
  <1>3. ASSUME NEW n \in 1 .. 8, n - 1 \in good
        PROVE  n \in good
    <2> DEFINE x == risen(n - 1)
    <2>1. f[n] = CrcShift(x)
      BY <1>3 DEF CrcSteps
    <2>2. \A k \in x : k \in 0 .. 14
      BY <1>1
    <2>3. 15 \notin x /\ x \ {15} = x
      BY <2>2
    <2>4. {k + 1 : k \in x} = risen(n)
      <3>1. \A j \in low : (j + (n - 1)) + 1 = j + n
        BY <1>1
      <3> QED BY <3>1
    <2> HIDE DEF x, risen
    <2>5. CrcShift(x) = {k + 1 : k \in x}
      BY <2>3 DEF CrcShift
    <2>6. f[n] = risen(n) /\ n \in 0 .. 8
      BY <2>1, <2>4, <2>5
    <2> QED BY <2>6
  <1> HIDE DEF good
  <1>4. 8 \in good
    <2>1. \A n \in 1 .. 8 : n - 1 \in good => n \in good
      BY <1>3
    <2>2. 8 \in Nat
      OBVIOUS
    <2>3. \A n \in 0 .. 8 : n \in good
      BY <1>2, <2>1, <2>2, Reaches
    <2> QED BY <2>3
  <1>5. f[8] = risen(8)
    BY <1>4 DEF good
  <1> QED BY <1>5 DEF low

CrcRuns(f, data) ==
  /\ f[0] = CrcInitValue /\ \A n \in 1 .. Len(data) : f[n] = CrcByte(f[n - 1], data[n])
  /\ \A n \in 0 .. Len(data) : f[n] \in Register

LEMMA CrcByteStays ==
  ASSUME NEW crc \in Register, NEW bits \in Octets
  PROVE  CrcByte(crc, bits) \in Register
  <1>1. PICK f : CrcSteps(f, crc, bits) /\ CrcByte(crc, bits) = f[8]
    BY CrcByteIs
  <1>2. 8 \in 0 .. 8
    OBVIOUS
  <1> QED BY <1>1, <1>2 DEF CrcSteps

LEMMA CrcIs ==
  ASSUME NEW data \in Seq(Octets)
  PROVE  \E f : CrcRuns(f, data) /\ Crc16CCITT(data) = f[Len(data)]
  <1> DEFINE n == Len(data)
             Steps(f) == f = [i \in 0 .. n |->
                               IF i = 0 THEN CrcInitValue ELSE CrcByte(f[i - 1], data[i])]
             F == [i \in 1 .. n |-> [x \in Register |-> CrcByte(x, data[i])]]
  <1>1. n \in Nat /\ CrcInitValue \in Register /\ \A i \in 1 .. n : data[i] \in Octets
    BY DEF CrcInitValue, Register
  <1>2. \A i \in 1 .. n : \A x \in Register : F[i][x] = CrcByte(x, data[i]) /\ F[i][x] \in Register
    BY <1>1, CrcByteStays
  <1> HIDE DEF F, n
  <1>3. PICK f : Iterates(f, Register, CrcInitValue, n, F)
    <2>1. Stays(Register, n, F)
      BY <1>2 DEF Stays
    <2> QED BY <1>1, <2>1, Iteration
  <1>4. Steps(f)
    <2>1. \A i \in 0 .. n : i # 0 => i \in 1 .. n /\ i - 1 \in 0 .. n
      BY <1>1
    <2>2. \A i \in 0 .. n : f[i] = IF i = 0 THEN CrcInitValue ELSE CrcByte(f[i - 1], data[i])
      BY <1>2, <1>3, <2>1 DEF Iterates
    <2> QED BY <1>3, <2>2 DEF Iterates
  <1> DEFINE e == CHOOSE g : Steps(g)
  <1>5. Steps(e)
    <2> HIDE DEF Steps
    <2> QED BY <1>4
  <1>6. Crc16CCITT(data) = e[n]
    BY DEF Crc16CCITT, n
  <1> HIDE DEF e
  <1>7. e[0] = CrcInitValue /\ \A i \in 1 .. n : e[i] = CrcByte(e[i - 1], data[i])
    BY <1>1, <1>5
  <1>8. \A i \in 0 .. n : e[i] = f[i] /\ f[i] \in Register
    BY <1>2, <1>3, <1>7 DEF Iterates
  <1>9. CrcRuns(e, data)
    BY <1>7, <1>8 DEF CrcRuns, n
  <1> QED BY <1>6, <1>9 DEF n

(* The checksum of two bytes more.                                         *)
LEMMA CrcGoesOn ==
  ASSUME NEW data \in Seq(Octets), NEW hi \in Octets, NEW lo \in Octets
  PROVE  /\ Crc16CCITT(data) \in Register
         /\ Crc16CCITT(data \o <<hi, lo>>) = CrcByte(CrcByte(Crc16CCITT(data), hi), lo)
  <1> DEFINE two == <<hi, lo>>
             data2 == Cat(data, two)
             n == Len(data)
  <1>1. two \in Seq(Octets) /\ Len(two) = 2 /\ two[1] = hi /\ two[2] = lo
    OBVIOUS
  <1> HIDE DEF two
  <1>2. /\ data2 \in Seq(Octets) /\ Len(data2) = Len(data) + Len(two)
        /\ \A j \in 1 .. Len(data) + Len(two) :
             data2[j] = IF j <= Len(data) THEN data[j] ELSE two[j - Len(data)]
    BY <1>1, CatIs
  <1> HIDE DEF data2
  <1>3. n \in Nat /\ Len(data2) = n + 2 /\ data2[n + 1] = hi /\ data2[n + 2] = lo
        /\ \A j \in 1 .. n : data2[j] = data[j]
    <2>1. n \in Nat /\ Len(data2) = n + 2
      BY <1>1, <1>2
    <2>2. \A j \in 1 .. n + 2 : data2[j] = IF j <= n THEN data[j] ELSE two[j - n]
      BY <1>1, <1>2
    <2> HIDE DEF n
    <2>3. data2[n + 1] = two[(n + 1) - n] /\ data2[n + 2] = two[(n + 2) - n]
      BY <2>1, <2>2
    <2>4. (n + 1) - n = 1 /\ (n + 2) - n = 2
      BY <2>1
    <2>5. \A j \in 1 .. n : data2[j] = data[j]
      BY <2>1, <2>2
    <2> QED BY <1>1, <2>1, <2>3, <2>4, <2>5
  <1>4. PICK f : CrcRuns(f, data) /\ Crc16CCITT(data) = f[n]
    BY CrcIs
  <1>5. PICK g : CrcRuns(g, data2) /\ Crc16CCITT(data2) = g[n + 2]
    BY <1>2, <1>3, CrcIs
  <1> DEFINE same == {i \in 0 .. n : f[i] = g[i]}
  <1>6. 0 \in same
    BY <1>3, <1>4, <1>5 DEF CrcRuns
  <1> HIDE DEF n
  <1>7. ASSUME NEW i \in 1 .. n, i - 1 \in same
        PROVE  i \in same
    <2>1. f[i] = CrcByte(f[i - 1], data[i])
      BY <1>4 DEF CrcRuns, n
    <2>2. g[i] = CrcByte(g[i - 1], data2[i])
      <3>1. i \in 1 .. Len(data2)
        BY <1>3
      <3> QED BY <1>5, <3>1 DEF CrcRuns
    <2>3. f[i - 1] = g[i - 1] /\ data2[i] = data[i] /\ i \in 0 .. n
      BY <1>3, <1>7
    <2> QED BY <2>1, <2>2, <2>3
  <1> HIDE DEF same
  <1>8. n \in same
    <2>1. \A i \in 1 .. n : i - 1 \in same => i \in same
      BY <1>7
    <2>2. \A i \in 0 .. n : i \in same
      BY <1>3, <1>6, <2>1, Reaches
    <2> QED BY <1>3, <2>2
  <1>9. f[n] = g[n] /\ f[n] \in Register
    <2>1. n \in 0 .. n
      BY <1>3
    <2> QED BY <1>4, <1>8, <2>1 DEF same, CrcRuns, n
  <1>10. g[n + 1] = CrcByte(g[n], hi) /\ g[n + 2] = CrcByte(g[n + 1], lo)
    <2>1. n + 1 \in 1 .. Len(data2) /\ n + 2 \in 1 .. Len(data2) /\ (n + 1) - 1 = n /\ (n + 2) - 1 = n + 1
      BY <1>3
    <2> QED BY <1>3, <1>5, <2>1 DEF CrcRuns
  <1>11. Crc16CCITT(data2) = CrcByte(CrcByte(Crc16CCITT(data), hi), lo)
    BY <1>4, <1>5, <1>9, <1>10
  <1> QED BY <1>4, <1>9, <1>11 DEF data2, two, Cat

LEMMA ResidueIsZero ==
  ASSUME message \in Seq(Nat)
  PROVE  CrcResidueIsZero
  <1> DEFINE data == [i \in DOMAIN message |-> BitsOf(message[i])]
             crc == Crc16CCITT(data)
             hi == {i - 8 : i \in crc \cap 8 .. 15}
             lo == crc \cap 0 .. 7
  <1>1. data \in Seq(Octets)
    <2>1. DOMAIN message = 1 .. Len(message) /\ Len(message) \in Nat
      OBVIOUS
    <2>2. \A i \in DOMAIN message : BitsOf(message[i]) \in Octets
      BY DEF BitsOf, Octets
    <2>3. data \in [1 .. Len(message) -> Octets]
      BY <2>1, <2>2
    <2> QED BY <2>1, <2>3
  <1> HIDE DEF data
  <1>2. hi \in Octets /\ lo \in Octets
    BY DEF Octets
  <1> HIDE DEF hi, lo
  <1>3. crc \in Register /\ Crc16CCITT(data \o <<hi, lo>>) = CrcByte(CrcByte(crc, hi), lo)
    BY <1>1, <1>2, CrcGoesOn
  <1> HIDE DEF crc
  <1>4. Fed(crc, hi) = lo
    <2>1. {i + 8 : i \in hi} = crc \cap 8 .. 15
      <3>1. \A i \in crc \cap 8 .. 15 : (i - 8) + 8 = i
        OBVIOUS
      <3> QED BY <3>1 DEF hi
    <2>2. \A i \in crc : i \in 0 .. 7 <=> i \notin 8 .. 15
      BY <1>3 DEF Register
    <2> DEFINE up == crc \cap 8 .. 15
    <2>3. Xor(crc, up) = crc \cap 0 .. 7
      BY <2>2 DEF Xor
    <2> QED BY <2>1, <2>3 DEF Fed, lo
  <1>5. CrcByte(crc, hi) = {j + 8 : j \in lo}
    <2>1. PICK f : CrcSteps(f, crc, hi) /\ CrcByte(crc, hi) = f[8]
      BY <1>2, <1>3, CrcByteIs
    <2> QED BY <1>2, <1>4, <2>1, LowBitsRise
  <1> DEFINE high == CrcByte(crc, hi)
  <1>6. high \in Register
    BY <1>2, <1>3, CrcByteStays
  <1> HIDE DEF high
  <1>7. Fed(high, lo) = {}
    BY <1>5 DEF Fed, Xor, high
  <1>8. CrcByte(high, lo) = {}
    <2>1. PICK f : CrcSteps(f, high, lo) /\ CrcByte(high, lo) = f[8]
      BY <1>2, <1>6, CrcByteIs
    <2>2. {} \in Octets
      BY DEF Octets
    <2>3. f[8] = {j + 8 : j \in Fed(high, lo)}
      BY <1>7, <2>1, <2>2, LowBitsRise
    <2> QED BY <1>7, <2>1, <2>3
  <1> QED BY <1>3, <1>8 DEF CrcResidueIsZero, high, data, crc, hi, lo

-----------------------------------------------------------------------------
(* Numbers. What is shifted in is shifted out.                             *)
LEMMA OneDigit ==
  ASSUME NEW R \in Nat \ {0}, NEW a \in Nat, NEW d \in 0 .. R - 1
  PROVE  (R * a + d) \div R = a /\ (R * a + d) % R = d /\ R * a + d \in Nat
  OBVIOUS

LEMMA DivisionStays ==
  ASSUME NEW R \in Nat \ {0}, NEW a \in Nat
  PROVE  a \div R \in Nat
  OBVIOUS

NumberRuns(f, digits, n) ==
  f[0] = 0 /\ \A i \in 1 .. n : f[i] = Radix * f[i - 1] + digits[i]
DigitRuns(f, in, k) ==
  f[0] = in /\ \A i \in 1 .. k : f[i] = f[i - 1] \div Radix

LEMMA NumberIs ==
  ASSUME NEW n \in Nat, NEW digits, \A i \in 1 .. n : digits[i] \in Octet
  PROVE  /\ \E f \in [0 .. n -> Nat] : NumberRuns(f, digits, n)
         /\ \A f : NumberRuns(f, digits, n) => f[n] = Number(digits, n)
  <1> DEFINE Steps(f) == f = [i \in 0 .. n |->
                               IF i = 0 THEN 0 ELSE Radix * f[i - 1] + digits[i]]
             F == [i \in 1 .. n |-> [x \in Nat |-> Radix * x + digits[i]]]
  <1>1. 0 \in Nat /\ Radix \in Nat \ {0}
    BY CodecAssumption
  <1>2. \A i \in 1 .. n : \A x \in Nat : F[i][x] = Radix * x + digits[i] /\ F[i][x] \in Nat
    BY <1>1, OneDigit DEF Octet
  <1> HIDE DEF F
  <1>3. PICK f : Iterates(f, Nat, 0, n, F)
    <2>1. Stays(Nat, n, F)
      BY <1>2 DEF Stays
    <2> QED BY <1>1, <2>1, Iteration
  <1>4. f \in [0 .. n -> Nat] /\ NumberRuns(f, digits, n)
    <2>1. \A i \in 1 .. n : i - 1 \in 0 .. n
      OBVIOUS
    <2> QED BY <1>2, <1>3, <2>1 DEF Iterates, NumberRuns
  <1>5. Steps(f)
    <2>1. \A i \in 0 .. n : i # 0 => i \in 1 .. n
      OBVIOUS
    <2>2. \A i \in 0 .. n : f[i] = IF i = 0 THEN 0 ELSE Radix * f[i - 1] + digits[i]
      BY <1>4, <2>1 DEF NumberRuns
    <2> QED BY <1>4, <2>2
  <1> DEFINE e == CHOOSE g : Steps(g)
  <1>6. Steps(e)
    <2> HIDE DEF Steps
    <2> QED BY <1>5
  <1>7. Number(digits, n) = e[n]
    BY DEF Number
  <1> HIDE DEF e
  <1>8. NumberRuns(e, digits, n)
    BY <1>6 DEF NumberRuns
  <1>9. ASSUME NEW g, NumberRuns(g, digits, n)
        PROVE  g[n] = f[n]
    <2>1. g[0] = 0 /\ \A i \in 1 .. n : g[i - 1] \in Nat => g[i] = F[i][g[i - 1]]
      BY <1>2, <1>9 DEF NumberRuns
    <2>2. n \in 0 .. n
      OBVIOUS
    <2> QED BY <1>3, <2>1, <2>2 DEF Iterates
  <1>10. e[n] = f[n]
    BY <1>8, <1>9
  <1> QED BY <1>4, <1>7, <1>9, <1>10

LEMMA DigitIs ==
  ASSUME NEW in \in Nat, NEW k \in Nat
  PROVE  \E f : DigitRuns(f, in, k) /\ Digit(in, k) = f[k] % Radix
  <1> DEFINE Steps(f) == f = [i \in 0 .. k |-> IF i = 0 THEN in ELSE f[i - 1] \div Radix]
             F == [i \in 1 .. k |-> [x \in Nat |-> x \div Radix]]
  <1>1. Radix \in Nat \ {0}
    BY CodecAssumption
  <1>2. \A i \in 1 .. k : \A x \in Nat : F[i][x] = x \div Radix /\ F[i][x] \in Nat
    BY <1>1, DivisionStays
  <1> HIDE DEF F
  <1>3. PICK f : Iterates(f, Nat, in, k, F)
    <2>1. Stays(Nat, k, F)
      BY <1>2 DEF Stays
    <2> QED BY <2>1, Iteration
  <1>4. f \in [0 .. k -> Nat] /\ DigitRuns(f, in, k)
    <2>1. \A i \in 1 .. k : i - 1 \in 0 .. k
      OBVIOUS
    <2> QED BY <1>2, <1>3, <2>1 DEF Iterates, DigitRuns
  <1>5. Steps(f)
    <2>1. \A i \in 0 .. k : i # 0 => i \in 1 .. k
      OBVIOUS
    <2>2. \A i \in 0 .. k : f[i] = IF i = 0 THEN in ELSE f[i - 1] \div Radix
      BY <1>4, <2>1 DEF DigitRuns
    <2> QED BY <1>4, <2>2
  <1> DEFINE e == CHOOSE g : Steps(g)
  <1>6. Steps(e)
    <2> HIDE DEF Steps
    <2> QED BY <1>5
  <1>7. Digit(in, k) = e[k] % Radix
    BY DEF Digit
  <1> HIDE DEF e
  <1>8. DigitRuns(e, in, k)
    BY <1>6 DEF DigitRuns
  <1> QED BY <1>7, <1>8

LEMMA DigitOfNumber ==
  ASSUME NEW n \in Nat, NEW digits, \A i \in 1 .. n : digits[i] \in Octet, NEW k \in 0 .. n - 1
  PROVE  Digit(Number(digits, n), k) = digits[n - k]
  <1>1. PICK f \in [0 .. n -> Nat] : NumberRuns(f, digits, n)
    BY NumberIs
  <1>2. Number(digits, n) = f[n] /\ f[n] \in Nat
    <2>1. f[n] = Number(digits, n)
      BY <1>1, NumberIs
    <2>2. n \in 0 .. n
      OBVIOUS
    <2> QED BY <1>1, <2>1, <2>2
  <1>3. PICK g : DigitRuns(g, f[n], k) /\ Digit(f[n], k) = g[k] % Radix
    BY <1>2, DigitIs
  <1> DEFINE same == {i \in 0 .. k : g[i] = f[n - i]}
  <1>4. ASSUME NEW j \in 1 .. n
        PROVE  /\ f[j] \div Radix = f[j - 1] /\ f[j] % Radix = digits[j]
    <2>1. f[j] = Radix * f[j - 1] + digits[j] /\ digits[j] \in Octet
      BY <1>1 DEF NumberRuns
    <2>2. f[j - 1] \in Nat /\ Radix \in Nat \ {0}
      BY <1>1, CodecAssumption
    <2> DEFINE a == f[j - 1]
               d == digits[j]
    <2> HIDE DEF a, d
    <2>3. (Radix * a + d) \div Radix = a /\ (Radix * a + d) % Radix = d
      <3>1. a \in Nat /\ d \in 0 .. Radix - 1 /\ Radix \in Nat \ {0}
        BY <2>1, <2>2 DEF a, d, Octet
      <3> QED BY <3>1, OneDigit
    <2> QED BY <2>1, <2>3 DEF a, d
  <1>5. 0 \in same
    BY <1>3 DEF DigitRuns
  <1>6. ASSUME NEW i \in 1 .. k, i - 1 \in same
        PROVE  i \in same
    <2>1. g[i] = g[i - 1] \div Radix /\ g[i - 1] = f[n - (i - 1)] /\ i \in 0 .. k
      BY <1>3, <1>6 DEF DigitRuns
    <2>2. n - (i - 1) \in 1 .. n /\ (n - (i - 1)) - 1 = n - i
      OBVIOUS
    <2>3. f[n - (i - 1)] \div Radix = f[n - i]
      BY <1>4, <2>2
    <2> QED BY <2>1, <2>3
  <1> HIDE DEF same
  <1>7. k \in same
    <2>1. \A i \in 1 .. k : i - 1 \in same => i \in same
      BY <1>6
    <2>2. \A i \in 0 .. k : i \in same
      <3>1. k \in Nat
        OBVIOUS
      <3> QED BY <1>5, <2>1, <3>1, Reaches
    <2> QED BY <2>2
  <1>8. g[k] = f[n - k] /\ n - k \in 1 .. n
    BY <1>7 DEF same
  <1> QED BY <1>2, <1>3, <1>4, <1>8

LEMMA SameDigits ==
  ASSUME NEW n \in Nat, NEW a, NEW b, \A i \in 1 .. n : a[i] \in Octet /\ a[i] = b[i]
  PROVE  Number(a, n) = Number(b, n) /\ Number(a, n) \in Nat
  <1>1. PICK f \in [0 .. n -> Nat] : NumberRuns(f, a, n)
    BY NumberIs
  <1>2. NumberRuns(f, b, n)
    BY <1>1 DEF NumberRuns
  <1>3. f[n] = Number(a, n)
    BY <1>1, NumberIs
  <1>4. f[n] = Number(b, n)
    <2>1. \A i \in 1 .. n : b[i] \in Octet
      OBVIOUS
    <2> QED BY <1>2, <2>1, NumberIs
  <1>5. n \in 0 .. n
    OBVIOUS
  <1> QED BY <1>1, <1>3, <1>4, <1>5

LEMMA NumberOfOne ==
  ASSUME NEW digits, digits[1] \in Octet
  PROVE  Number(digits, 1) = digits[1]
  <1>1. \A i \in 1 .. 1 : i = 1
    OBVIOUS
  <1>2. 1 \in Nat /\ \A i \in 1 .. 1 : digits[i] \in Octet
    BY <1>1, Zenon
  <1>3. PICK f : NumberRuns(f, digits, 1)
    BY <1>2, NumberIs
  <1>4. f[1] = Number(digits, 1)
    BY <1>2, <1>3, NumberIs
  <1>5. f[1] = Radix * 0 + digits[1]
    BY <1>3 DEF NumberRuns
  <1> QED BY <1>4, <1>5, CodecAssumption DEF Octet

(* A message of n bytes, read and written in both orders.                  *)
LEMMA ReadAndWritten ==
  ASSUME NEW m \in Seq(Octet), NEW n \in 1 .. Len(m)
  PROVE  LET p == SubSeq(m, 1, n)
         IN /\ WriteBE(ReadBE(m, n), n) = p /\ WriteLE(ReadLE(m, n), n) = p
            /\ ReadLE(Reverse(p), n) = ReadBE(m, n)
            /\ Reverse(WriteLE(ReadBE(m, n), n)) = p
  <1> DEFINE p == SubSeq(m, 1, n)
             back == [i \in 1 .. n |-> m[n + 1 - i]]
             v == ReadBE(m, n)
             w == ReadLE(m, n)
  <1>1. /\ n \in Nat /\ p \in Seq(Octet) /\ Len(p) = n
        /\ \A i \in 1 .. n : m[i] \in Octet /\ p[i] = m[i]
    OBVIOUS
  <1>2. \A i \in 1 .. n : n + 1 - i \in 1 .. n /\ n + 1 - (n + 1 - i) = i
    OBVIOUS
  <1>3. \A i \in 1 .. n : back[i] = m[n + 1 - i] /\ back[i] \in Octet
    BY <1>1, <1>2
  <1>4. v = Number(m, n) /\ w = Number(back, n)
    BY DEF ReadBE, ReadLE
  <1> HIDE DEF p, back, v, w
  <1>5. p = [i \in 1 .. n |-> m[i]]
    <2>1. p = [i \in 1 .. Len(p) |-> p[i]]
      BY <1>1
    <2> QED BY <1>1, <2>1
  <1>6. ASSUME NEW i \in 1 .. n
        PROVE  Digit(v, n - i) = m[i] /\ Digit(w, i - 1) = m[i] /\ Digit(v, i - 1) = m[n + 1 - i]
    <2>1. n - i \in 0 .. n - 1 /\ i - 1 \in 0 .. n - 1 /\ n - (n - i) = i /\ n - (i - 1) = n + 1 - i
      BY <1>1
    <2>2. Digit(v, n - i) = m[n - (n - i)] /\ Digit(v, i - 1) = m[n - (i - 1)]
      BY <1>1, <1>4, <2>1, DigitOfNumber
    <2>3. Digit(w, i - 1) = back[n - (i - 1)]
      BY <1>1, <1>3, <1>4, <2>1, DigitOfNumber
    <2>4. back[n + 1 - i] = m[i]
      BY <1>2, <1>3
    <2> QED BY <2>1, <2>2, <2>3, <2>4
  <1>7. WriteBE(v, n) = p
    BY <1>5, <1>6 DEF WriteBE
  <1>8. WriteLE(w, n) = p
    BY <1>5, <1>6 DEF WriteLE
  <1>9. Reverse(WriteLE(v, n)) = p
    <2> DEFINE u == [i \in 1 .. n |-> m[n + 1 - i]]
    <2>1. WriteLE(v, n) = u
      BY <1>6 DEF WriteLE
    <2>2. u \in Seq(Octet) /\ Len(u) = n
      <3>1. u \in [1 .. n -> Octet]
        BY <1>1, <1>2
      <3> HIDE DEF u
      <3> QED BY <1>1, <3>1
    <2>3. \A i \in 1 .. n : u[(n - i) + 1] = m[i]
      <3>1. \A i \in 1 .. n : (n - i) + 1 = n + 1 - i
        BY <1>1
      <3> QED BY <1>2, <3>1
    <2> HIDE DEF u
    <2>4. Reverse(u) = [i \in 1 .. n |-> u[(n - i) + 1]]
      BY <2>2 DEF Reverse
    <2> QED BY <1>5, <2>1, <2>3, <2>4
  <1>10. ReadLE(Reverse(p), n) = v
    <2> DEFINE r == Reverse(p)
               a == [i \in 1 .. n |-> r[n + 1 - i]]
    <2>1. r = [i \in 1 .. n |-> p[(n - i) + 1]]
      BY <1>1 DEF Reverse
    <2> HIDE DEF r
    <2>2. \A i \in 1 .. n : a[i] = m[i]
      <3> TAKE i \in 1 .. n
      <3>1. n + 1 - i \in 1 .. n /\ (n - (n + 1 - i)) + 1 = i
        BY <1>1
      <3> QED BY <1>1, <2>1, <3>1
    <2>3. ReadLE(r, n) = Number(a, n)
      BY DEF ReadLE
    <2> HIDE DEF a
    <2>4. Number(m, n) = Number(a, n)
      BY <1>1, <2>2, SameDigits
    <2> QED BY <1>4, <2>3, <2>4 DEF r
  <1> QED BY <1>7, <1>8, <1>9, <1>10 DEF p, v, w

LEMMA NumbersHold ==
  ASSUME message \in Seq(Octet)
  PROVE  NumbersSurvive
  <1> SUFFICES ASSUME Len(message) = 8
               PROVE  /\ WritesBE(ReadsBE(message)) = [n \in 1 .. 8 |-> SubSeq(message, 1, n)]
                      /\ WritesLE(ReadsLE(message)) = [n \in 1 .. 8 |-> SubSeq(message, 1, n)]
                      /\ U64ReadBuffLE(Reverse(message)) = U64ReadBuffBE(message)
                      /\ \A n \in 1 .. 8 : LET be == ReadsBE(message)[n] IN
                           /\ ReadBuffBE(message, be, n) = be
                           /\ ReadBuffLE(Reverse(SubSeq(message, 1, n)), be, n) = be
                           /\ WriteBuffBE(SubSeq(message, 1, n), be, n) = SubSeq(message, 1, n)
                           /\ Reverse(WriteBuffLE(SubSeq(message, 1, n), be, n)) =
                                (IF Sized(n) THEN SubSeq(message, 1, n)
                                 ELSE Reverse(SubSeq(message, 1, n)))
    BY DEF NumbersSurvive
  <1> DEFINE m == message
             p(n) == SubSeq(m, 1, n)
  <1>1. ASSUME NEW n \in 1 .. 8
        PROVE  /\ WriteBE(ReadBE(m, n), n) = p(n) /\ WriteLE(ReadLE(m, n), n) = p(n)
               /\ ReadLE(Reverse(p(n)), n) = ReadBE(m, n)
               /\ Reverse(WriteLE(ReadBE(m, n), n)) = p(n)
    BY ReadAndWritten
  <1>2. m[1] \in Octet /\ p(1) = <<m[1]>> /\ p(8) = m
    <2>1. p(8) = m /\ m[1] \in Octet
      OBVIOUS
    <2>2. p(1) \in Seq(Octet) /\ Len(p(1)) = 1 /\ p(1)[1] = m[1]
      OBVIOUS
    <2> HIDE DEF p, m
    <2>3. p(1) = <<m[1]>>
      BY <2>2
    <2> QED BY <2>1, <2>3
  <1>3. ReadBE(m, 1) = m[1]
    BY <1>2, NumberOfOne DEF ReadBE
  <1>4. \A n \in 1 .. 8 : ReadsBE(m)[n] = ReadBE(m, n)
    BY <1>3 DEF ReadsBE, U16ReadBuffBE, U24ReadBuffBE, U32ReadBuffBE, U40ReadBuffBE,
                U48ReadBuffBE, U56ReadBuffBE, U64ReadBuffBE
  <1>5. WritesBE(ReadsBE(m)) = [n \in 1 .. 8 |-> p(n)]
    <2> DEFINE ws == WritesBE(ReadsBE(m))
    <2> HIDE DEF p
    <2>1. ws = <<p(1), p(2), p(3), p(4), p(5), p(6), p(7), p(8)>>
      BY <1>1, <1>2, <1>4 DEF ReadsBE, WritesBE, U16ReadBuffBE, U24ReadBuffBE, U32ReadBuffBE,
         U40ReadBuffBE, U48ReadBuffBE, U56ReadBuffBE, U64ReadBuffBE, U16WriteBuffBE, U24WriteBuffBE,
         U32WriteBuffBE, U40WriteBuffBE, U48WriteBuffBE, U56WriteBuffBE, U64WriteBuffBE
    <2> QED BY <2>1
  <1>6. WritesLE(ReadsLE(m)) = [n \in 1 .. 8 |-> p(n)]
    <2> DEFINE ws == WritesLE(ReadsLE(m))
    <2> HIDE DEF p
    <2>1. ws = <<p(1), p(2), p(3), p(4), p(5), p(6), p(7), p(8)>>
      BY <1>1, <1>2 DEF ReadsLE, WritesLE, U16ReadBuffLE, U24ReadBuffLE, U32ReadBuffLE,
         U40ReadBuffLE, U48ReadBuffLE, U56ReadBuffLE, U64ReadBuffLE, U16WriteBuffLE, U24WriteBuffLE,
         U32WriteBuffLE, U40WriteBuffLE, U48WriteBuffLE, U56WriteBuffLE, U64WriteBuffLE
    <2> QED BY <2>1
  <1>7. U64ReadBuffLE(Reverse(m)) = U64ReadBuffBE(m)
    <2> HIDE DEF p, m
    <2>1. ReadLE(Reverse(p(8)), 8) = ReadBE(m, 8) /\ p(8) = m
      BY <1>1, <1>2
    <2> QED BY <2>1, Zenon DEF U64ReadBuffLE, U64ReadBuffBE
  <1>8. ASSUME NEW n \in 1 .. 8
        PROVE  LET be == ReadsBE(m)[n] IN
                 /\ ReadBuffBE(m, be, n) = be
                 /\ ReadBuffLE(Reverse(p(n)), be, n) = be
                 /\ WriteBuffBE(p(n), be, n) = p(n)
                 /\ Reverse(WriteBuffLE(p(n), be, n)) =
                      (IF Sized(n) THEN p(n) ELSE Reverse(p(n)))
    <2> HIDE DEF p, m
    <2>1. ReadsBE(m)[n] = ReadBE(m, n)
      BY <1>4
    <2> QED BY <1>1, <2>1 DEF ReadBuffBE, ReadBuffLE, WriteBuffBE, WriteBuffLE
  <1> QED BY <1>5, <1>6, <1>7, <1>8

(* Of every message that the application builds, everything that the       *)
(* codecs write they read back (emf_cobs.c, emf_crc.c, emf_endian.c).      *)
THEOREM CodecsAreInverse == CodecSpec => []PacketsSurvive
  <1> DEFINE Typed == message \in Seq(Octet)
  <1>1. CodecInit => Typed
    BY DEF CodecInit
  <1>2. Typed /\ [CodecNext]_message => Typed'
    <2>1. ASSUME Typed, CodecNext PROVE Typed'
      <3>1. PICK byte \in Octet : message' = Append(message, byte)
        BY <2>1 DEF CodecNext, Octet
      <3> QED BY <2>1, <3>1
    <2>2. ASSUME Typed, UNCHANGED message PROVE Typed'
      BY <2>2 DEF Octet
    <2> QED BY <2>1, <2>2
  <1>3. Typed => PacketsSurvive
    <2> SUFFICES ASSUME Typed PROVE PacketsSurvive
      OBVIOUS
    <2>1. Octet \subseteq Nat
      BY CodecAssumption DEF Octet
    <2>2. message \in Seq(Nat)
      <3>1. message \in [1 .. Len(message) -> Octet] /\ Len(message) \in Nat
        OBVIOUS
      <3>2. message \in [1 .. Len(message) -> Nat]
        BY <2>1, <3>1
      <3> QED BY <3>1, <3>2
    <2> QED BY <2>2, FramesHold, ResidueIsZero, NumbersHold DEF PacketsSurvive
  <1> QED BY <1>1, <1>2, <1>3, PTL DEF CodecSpec

(***************************************************************************)
(* Formatted output, for any buffer length, directives and formats: what   *)
(* is printed is what was asked for, or nothing.                           *)
(***************************************************************************)

(* What a message holds: digits and strings. The provers know no literal   *)
(* for a string, so those of the code are named.                           *)
Marks == {"-", ".", "%", "?", "ERROR", "WARNING", "INFO", "DEBUG"}
Char == Nat \cup STRING \cup Marks

(* The digits of a number.                                                 *)
DigitsBody(f, n) == IF n < 10 THEN <<n>> ELSE Append(f[n \div 10], n % 10)
DigitsUpto(f, k) == f = [n \in 0 .. k |-> DigitsBody(f, n)]

LEMMA TenthIsLess ==
  ASSUME NEW n \in Nat, n >= 10
  PROVE  n \div 10 \in Nat /\ n \div 10 < n /\ n \div 10 >= 1
  OBVIOUS

LEMMA DigitsExist ==
  ASSUME NEW k \in Nat
  PROVE  \E f : DigitsUpto(f, k)
  <1> DEFINE able == {i \in 0 .. k : \E f : DigitsUpto(f, i)}
  <1>1. 0 \in able
    <2> DEFINE f == [n \in 0 .. 0 |-> <<0>>]
    <2>1. \A n \in 0 .. 0 : n = 0
      OBVIOUS
    <2>2. \A h : DigitsBody(h, 0) = <<0>>
      BY DEF DigitsBody
    <2>3. DigitsUpto(f, 0)
      BY <2>1, <2>2 DEF DigitsUpto
    <2> QED BY <2>3
  <1>2. ASSUME NEW i \in 1 .. k, i - 1 \in able
        PROVE  i \in able
    <2>1. PICK f : DigitsUpto(f, i - 1)
      BY <1>2
    <2> DEFINE g == [n \in 0 .. i |-> IF n < i THEN f[n] ELSE DigitsBody(f, i)]
    <2>2. \A n \in 0 .. i : n # i => n \in 0 .. i - 1 /\ n < i
      OBVIOUS
    <2>3. \A n \in 0 .. i : g[n] = DigitsBody(f, n)
      BY <2>1, <2>2 DEF DigitsUpto
    <2>4. \A n \in 0 .. i : DigitsBody(f, n) = DigitsBody(g, n)
      <3> TAKE n \in 0 .. i
      <3>1. CASE n < 10
        BY <3>1 DEF DigitsBody
      <3>2. CASE ~(n < 10)
        <4>1. n \div 10 \in Nat /\ n \div 10 < n
          BY <3>2, TenthIsLess
        <4>2. n \div 10 \in 0 .. i /\ n \div 10 < i
          BY <4>1
        <4>3. g[n \div 10] = f[n \div 10]
          BY <4>2
        <4> HIDE DEF g
        <4> QED BY <3>2, <4>3 DEF DigitsBody
      <3> QED BY <3>1, <3>2
    <2>5. g = [n \in 0 .. i |-> g[n]]
      OBVIOUS
    <2> HIDE DEF g
    <2>6. DigitsUpto(g, i)
      BY <2>3, <2>4, <2>5 DEF DigitsUpto
    <2> QED BY <2>6
  <1> HIDE DEF able
  <1>3. k \in able
    <2>1. \A i \in 1 .. k : i - 1 \in able => i \in able
      BY <1>2
    <2>2. \A i \in 0 .. k : i \in able
      BY <1>1, <2>1, Reaches
    <2> QED BY <2>2
  <1> QED BY <1>3 DEF able

LEMMA DigitsUnique ==
  ASSUME NEW k \in Nat, NEW f, DigitsUpto(f, k), NEW l \in Nat, NEW g, DigitsUpto(g, l),
         NEW n \in Nat, n <= k, n <= l
  PROVE  f[n] = g[n]
  <1> DEFINE differ == {i \in Nat : i <= k /\ i <= l /\ f[i] # g[i]}
  <1>1. ASSUME differ # {}
        PROVE  FALSE
    <2>1. differ \in SUBSET Nat
      OBVIOUS
    <2>2. PICK i \in differ : \A j \in differ : i <= j
      <3> HIDE DEF differ
      <3> QED BY <1>1, <2>1, LeastNatural
    <2>3. f[i] = DigitsBody(f, i) /\ g[i] = DigitsBody(g, i)
      <3>1. i \in 0 .. k /\ i \in 0 .. l
        BY <2>2
      <3> HIDE DEF differ
      <3> QED BY <3>1, Zenon DEF DigitsUpto
    <2>4. CASE i < 10
      BY <2>2, <2>3, <2>4 DEF DigitsBody
    <2>5. CASE ~(i < 10)
      <3>1. i \div 10 \in Nat /\ i \div 10 < i
        BY <2>2, <2>5, TenthIsLess
      <3>2. f[i \div 10] = g[i \div 10]
        BY <2>2, <3>1
      <3>3. DigitsBody(f, i) = DigitsBody(g, i)
        BY <2>5, <3>2 DEF DigitsBody
      <3> QED BY <2>2, <2>3, <3>3
    <2> QED BY <2>4, <2>5
  <1> QED BY <1>1

LEMMA DigitsAre ==
  ASSUME NEW val \in Nat
  PROVE  /\ val < 10 => Digits(val) = <<val>>
         /\ val >= 10 => Digits(val) = Append(Digits(val \div 10), val % 10)
  <1> DEFINE Steps(k, f) == f = [n \in 0 .. k |-> IF n < 10 THEN <<n>>
                                                   ELSE Append(f[n \div 10], n % 10)]
             d(k) == CHOOSE f : Steps(k, f)
  <1>1. ASSUME NEW k \in Nat
        PROVE  DigitsUpto(d(k), k) /\ Digits(k) = d(k)[k]
    <2>1. \A f : Steps(k, f) <=> DigitsUpto(f, k)
      BY DEF DigitsUpto, DigitsBody
    <2>2. \E f : Steps(k, f)
      BY <2>1, DigitsExist
    <2>3. Digits(k) = d(k)[k]
      BY DEF Digits
    <2>4. Steps(k, d(k))
      <3> HIDE DEF Steps
      <3> QED BY <2>2
    <2> HIDE DEF Steps, d
    <2> QED BY <2>1, <2>3, <2>4
  <1> HIDE DEF d
  <1>2. d(val)[val] = DigitsBody(d(val), val)
    <2> DEFINE f == d(val)
    <2>1. DigitsUpto(f, val) /\ val \in 0 .. val
      BY <1>1
    <2> HIDE DEF f
    <2>2. f[val] = DigitsBody(f, val)
      BY <2>1 DEF DigitsUpto
    <2> QED BY <2>2 DEF f
  <1>3. CASE val < 10
    <2>1. DigitsBody(d(val), val) = <<val>> /\ ~(val >= 10)
      BY <1>3 DEF DigitsBody
    <2>2. Digits(val) = d(val)[val]
      BY <1>1
    <2> QED BY <1>2, <2>1, <2>2
  <1>4. CASE val >= 10
    <2> DEFINE tenth == val \div 10
               f == d(val)
               g == d(tenth)
    <2>1. tenth \in Nat /\ tenth < val
      BY <1>4, TenthIsLess
    <2> HIDE DEF tenth
    <2>2. DigitsUpto(f, val) /\ DigitsUpto(g, tenth) /\ Digits(tenth) = g[tenth] /\ Digits(val) = f[val]
      BY <1>1, <2>1
    <2> HIDE DEF f, g
    <2>3. tenth <= val /\ tenth <= tenth
      BY <2>1
    <2>4. f[tenth] = g[tenth]
      BY <2>1, <2>2, <2>3, DigitsUnique
    <2>5. f[val] = Append(f[tenth], val % 10)
      BY <1>2, <1>4 DEF f, DigitsBody, tenth
    <2>6. Digits(val) = Append(Digits(tenth), val % 10) /\ ~(val < 10)
      BY <1>4, <2>2, <2>4, <2>5
    <2> QED BY <2>6 DEF tenth
  <1> QED BY <1>3, <1>4

LEMMA AppendStays ==
  ASSUME NEW S, NEW a \in Seq(S), NEW x \in S
  PROVE  /\ Append(a, x) \in Seq(S) /\ Len(Append(a, x)) = Len(a) + 1 /\ Len(a) \in Nat
         /\ \A j \in 1 .. Len(a) : Append(a, x)[j] = a[j]
         /\ Append(a, x)[Len(a) + 1] = x
  OBVIOUS

LEMMA DigitsType ==
  ASSUME NEW val \in Nat
  PROVE  Digits(val) \in Seq(Nat)
  <1> DEFINE bad == {n \in Nat : Digits(n) \notin Seq(Nat)}
  <1>1. ASSUME bad # {}
        PROVE  FALSE
    <2>1. bad \in SUBSET Nat
      OBVIOUS
    <2>2. PICK n \in bad : \A j \in bad : n <= j
      <3> HIDE DEF bad
      <3> QED BY <1>1, <2>1, LeastNatural
    <2>3. n \in Nat /\ Digits(n) \notin Seq(Nat)
      BY <2>2
    <2>4. CASE n < 10
      <3>1. Digits(n) = <<n>>
        BY <2>3, <2>4, DigitsAre
      <3> QED BY <2>3, <3>1
    <2>5. CASE n >= 10
      <3>1. n \div 10 \in Nat /\ n \div 10 < n
        BY <2>3, <2>5, TenthIsLess
      <3>2. Digits(n \div 10) \in Seq(Nat)
        BY <2>2, <3>1
      <3>3. Digits(n) = Append(Digits(n \div 10), n % 10)
        BY <2>3, <2>5, DigitsAre
      <3>4. n % 10 \in Nat
        BY <2>3
      <3>5. Append(Digits(n \div 10), n % 10) \in Seq(Nat)
        BY <3>2, <3>4, AppendStays
      <3> QED BY <2>3, <3>3, <3>5
    <2> QED BY <2>3, <2>4, <2>5
  <1> QED BY <1>1

(* Sequences that differ in a place that both have.                        *)
Parted(a, b) == \E j \in 1 .. Len(a) : j \in 1 .. Len(b) /\ a[j] # b[j]

LEMMA PartedIsDifferent ==
  ASSUME NEW a, NEW b, Parted(a, b)
  PROVE  a # b
  BY DEF Parted

LEMMA PartedGoesOn ==
  ASSUME NEW S, NEW a \in Seq(S), NEW b \in Seq(S), Parted(a, b), NEW u \in Seq(S), NEW v \in Seq(S)
  PROVE  Parted(Cat(a, u), Cat(b, v))
  <1>1. PICK j \in 1 .. Len(a) : j \in 1 .. Len(b) /\ a[j] # b[j]
    BY DEF Parted
  <1> DEFINE x == Cat(a, u)
             y == Cat(b, v)
  <1>2. /\ Len(x) = Len(a) + Len(u)
        /\ \A i \in 1 .. Len(a) + Len(u) : x[i] = IF i <= Len(a) THEN a[i] ELSE u[i - Len(a)]
    BY CatIs
  <1>3. /\ Len(y) = Len(b) + Len(v)
        /\ \A i \in 1 .. Len(b) + Len(v) : y[i] = IF i <= Len(b) THEN b[i] ELSE v[i - Len(b)]
    BY CatIs
  <1>4. Len(a) \in Nat /\ Len(b) \in Nat /\ Len(u) \in Nat /\ Len(v) \in Nat
    OBVIOUS
  <1> HIDE DEF x, y
  <1>5. j \in 1 .. Len(x) /\ j \in 1 .. Len(y) /\ x[j] = a[j] /\ y[j] = b[j]
    BY <1>1, <1>2, <1>3, <1>4
  <1>6. Parted(x, y)
    BY <1>1, <1>5 DEF Parted
  <1> QED BY <1>6 DEF x, y

LEMMA PartedBehind ==
  ASSUME NEW S, NEW p \in Seq(S), NEW a \in Seq(S), NEW b \in Seq(S), Parted(a, b)
  PROVE  Parted(Cat(p, a), Cat(p, b))
  <1>1. PICK j \in 1 .. Len(a) : j \in 1 .. Len(b) /\ a[j] # b[j]
    BY DEF Parted
  <1> DEFINE x == Cat(p, a)
             y == Cat(p, b)
  <1>2. /\ Len(x) = Len(p) + Len(a)
        /\ \A i \in 1 .. Len(p) + Len(a) : x[i] = IF i <= Len(p) THEN p[i] ELSE a[i - Len(p)]
    BY CatIs
  <1>3. /\ Len(y) = Len(p) + Len(b)
        /\ \A i \in 1 .. Len(p) + Len(b) : y[i] = IF i <= Len(p) THEN p[i] ELSE b[i - Len(p)]
    BY CatIs
  <1>4. Len(a) \in Nat /\ Len(b) \in Nat /\ Len(p) \in Nat
    OBVIOUS
  <1> HIDE DEF x, y
  <1> DEFINE i == Len(p) + j
  <1>5. i \in 1 .. Len(x) /\ i \in 1 .. Len(y) /\ ~(i <= Len(p)) /\ i - Len(p) = j
    BY <1>1, <1>2, <1>3, <1>4
  <1> HIDE DEF i
  <1>6. x[i] = a[j] /\ y[i] = b[j]
    BY <1>2, <1>3, <1>5
  <1>7. Parted(x, y)
    BY <1>1, <1>5, <1>6 DEF Parted
  <1> QED BY <1>7 DEF x, y

(* The digits of the next number are others, from some digit on.           *)
LEMMA NextDigitsParted ==
  ASSUME NEW val \in Nat
  PROVE  Parted(Digits(val), Digits(val + 1))
  <1> DEFINE bad == {n \in Nat : ~Parted(Digits(n), Digits(n + 1))}
  <1>1. ASSUME bad # {}
        PROVE  FALSE
    <2>1. bad \in SUBSET Nat
      OBVIOUS
    <2>2. PICK n \in bad : \A j \in bad : n <= j
      <3> HIDE DEF bad
      <3> QED BY <1>1, <2>1, LeastNatural
    <2>3. n \in Nat /\ ~Parted(Digits(n), Digits(n + 1)) /\ n + 1 \in Nat
      BY <2>2
    <2>4. CASE n < 9
      <3>1. Digits(n) = <<n>> /\ Digits(n + 1) = <<n + 1>>
        BY <2>3, <2>4, DigitsAre
      <3>2. Parted(<<n>>, <<n + 1>>)
        BY <2>3 DEF Parted
      <3> QED BY <2>3, <3>1, <3>2
    <2>5. CASE n = 9
      <3>1. Digits(9) = <<9>> /\ Digits(1) = <<1>>
        BY DigitsAre
      <3>2. 10 \div 10 = 1 /\ 10 % 10 = 0
        OBVIOUS
      <3>3. Digits(10) = Append(Digits(1), 0)
        BY <3>2, DigitsAre
      <3>4. Parted(<<9>>, Append(<<1>>, 0))
        BY DEF Parted
      <3>5. Digits(10) = Append(<<1>>, 0)
        BY <3>1, <3>3, Zenon
      <3>6. Parted(Digits(9), Digits(10))
        BY <3>1, <3>4, <3>5, Zenon
      <3>7. n + 1 = 10
        BY <2>5
      <3>8. Parted(Digits(n), Digits(n + 1))
        BY <2>5, <3>6, <3>7, Zenon
      <3> QED BY <2>3, <3>8, Zenon
    <2>6. CASE n >= 10
      <3> DEFINE a == Digits(n \div 10)
                 b == Digits((n + 1) \div 10)
                 x == n % 10
                 y == (n + 1) % 10
      <3>1. n \div 10 \in Nat /\ n \div 10 < n /\ (n + 1) \div 10 \in Nat /\ x \in Nat /\ y \in Nat
        BY <2>3, <2>6, TenthIsLess
      <3>2. Digits(n) = Append(a, x)
        BY <2>3, <2>6, DigitsAre
      <3>3. Digits(n + 1) = Append(b, y)
        <4>1. n + 1 >= 10
          BY <2>3, <2>6
        <4> QED BY <2>3, <4>1, DigitsAre
      <3>4. a \in Seq(Nat) /\ b \in Seq(Nat)
        BY <3>1, DigitsType
      <3>5. CASE n % 10 < 9
        <4>1. (n + 1) \div 10 = n \div 10 /\ x # y
          BY <2>3, <3>5
        <4> HIDE DEF a, x, y
        <4>2. Digits(n + 1) = Append(a, y)
          BY <3>3, <4>1 DEF a
        <4>3. Parted(Append(a, x), Append(a, y))
          <5> DEFINE u == Append(a, x)
                     v == Append(a, y)
          <5>1. Len(u) = Len(a) + 1 /\ Len(a) \in Nat /\ u[Len(a) + 1] = x
            BY <3>1, <3>4, AppendStays
          <5>2. Len(v) = Len(a) + 1 /\ v[Len(a) + 1] = y
            BY <3>1, <3>4, AppendStays
          <5> HIDE DEF u, v
          <5>3. Len(a) + 1 \in 1 .. Len(u) /\ Len(a) + 1 \in 1 .. Len(v)
            BY <5>1, <5>2
          <5>4. Parted(u, v)
            BY <4>1, <5>1, <5>2, <5>3 DEF Parted
          <5> QED BY <5>4 DEF u, v
        <4> QED BY <2>3, <3>2, <4>2, <4>3
      <3>6. CASE n % 10 >= 9
        <4>1. (n + 1) \div 10 = n \div 10 + 1
          BY <2>3, <3>6
        <4>2. n \div 10 \notin bad
          BY <2>2, <3>1
        <4>3. Parted(a, b)
          BY <3>1, <4>1, <4>2
        <4> HIDE DEF a, b, x, y
        <4>4. <<x>> \in Seq(Nat) /\ <<y>> \in Seq(Nat)
          BY <3>1
        <4>5. Parted(Cat(a, <<x>>), Cat(b, <<y>>))
          BY <3>4, <4>3, <4>4, PartedGoesOn
        <4>6. Cat(a, <<x>>) = Append(a, x) /\ Cat(b, <<y>>) = Append(b, y)
          BY <3>1, <3>4, AppendIsCat
        <4> QED BY <2>3, <3>2, <3>3, <4>5, <4>6
      <3>7. n % 10 \in 0 .. 9
        BY <2>3
      <3> QED BY <3>5, <3>6, <3>7
    <2> QED BY <2>3, <2>4, <2>5, <2>6
  <1> QED BY <1>1

-----------------------------------------------------------------------------
(* The message that is built. Until it overflows, to write is to append.   *)
Buffers == [data : Seq(Char), overflow : BOOLEAN]
FitsIn(b) == b \in Buffers /\ Len(b.data) <= PrintMax
Wrote(b, w, c) == FitsIn(c) /\ (~c.overflow => ~b.overflow /\ c.data = Cat(b.data, w))

LEMMA WroteBoth ==
  ASSUME NEW a, FitsIn(a), NEW b, NEW c, NEW u \in Seq(Char), NEW v \in Seq(Char),
         Wrote(a, u, b), Wrote(b, v, c)
  PROVE  Wrote(a, Cat(u, v), c)
  <1>1. CASE c.overflow
    BY <1>1 DEF Wrote
  <1>2. CASE ~c.overflow
    <2>1. /\ FitsIn(c) /\ ~b.overflow /\ c.data = Cat(b.data, v) /\ ~a.overflow
          /\ b.data = Cat(a.data, u)
      BY <1>2 DEF Wrote
    <2>2. a.data \in Seqs(Char) /\ u \in Seqs(Char) /\ v \in Seqs(Char)
      BY DEF FitsIn, Buffers, Seqs
    <2>3. Cat(Cat(a.data, u), v) = Cat(a.data, Cat(u, v))
      <3> DEFINE e == a.data
      <3>1. e \in Seqs(Char) /\ u \in Seqs(Char) /\ v \in Seqs(Char)
        BY <2>2
      <3> HIDE DEF e
      <3>2. Cat(Cat(e, u), v) = Cat(e, Cat(u, v))
        BY <3>1, Cats
      <3> QED BY <3>2 DEF e
    <2> QED BY <2>1, <2>3 DEF Wrote
  <1> QED BY <1>1, <1>2

LEMMA CharWritten ==
  ASSUME NEW b, FitsIn(b), NEW x \in Char
  PROVE  Wrote(b, <<x>>, WriteChar(b, x)) /\ <<x>> \in Seq(Char)
  <1>1. b \in Buffers /\ Len(b.data) \in Nat /\ b.data \in Seq(Char) /\ PrintMax \in Nat
    BY PrintAssumption DEF FitsIn, Buffers
  <1>2. <<x>> \in Seq(Char)
    OBVIOUS
  <1>3. CASE Len(b.data) < PrintMax
    <2> DEFINE y == Append(b.data, x)
               c == [b EXCEPT !.data = y]
    <2>1. y \in Seq(Char) /\ Len(y) = Len(b.data) + 1 /\ y = Cat(b.data, <<x>>)
      <3>1. y = b.data \o <<x>>
        BY <1>1, AppendIsConcat
      <3> QED BY <1>1, <3>1, AppendStays DEF Cat
    <2>2. WriteChar(b, x) = c
      BY <1>3 DEF WriteChar
    <2> HIDE DEF y
    <2>3. c \in Buffers /\ c.data = y /\ c.overflow = b.overflow
      BY <1>1, <2>1 DEF Buffers
    <2> HIDE DEF c
    <2>4. Len(y) <= PrintMax
      BY <1>1, <1>3, <2>1
    <2> QED BY <1>2, <2>1, <2>2, <2>3, <2>4 DEF Wrote, FitsIn
  <1>4. CASE ~(Len(b.data) < PrintMax)
    <2> DEFINE c == [b EXCEPT !.overflow = TRUE]
    <2>1. WriteChar(b, x) = c
      BY <1>4 DEF WriteChar
    <2>2. c \in Buffers /\ c.data = b.data /\ c.overflow = TRUE
      BY <1>1 DEF Buffers
    <2> HIDE DEF c
    <2> QED BY <1>2, <2>1, <2>2 DEF Wrote, FitsIn
  <1> QED BY <1>3, <1>4

LEMMA StrWritten ==
  ASSUME NEW b, FitsIn(b), NEW str \in Seq(Char)
  PROVE  Wrote(b, str, WriteStr(b, str))
  <1> DEFINE n == Len(str)
             S == {c \in Buffers : FitsIn(c)}
             Steps(f) == f = [i \in 0 .. n |-> IF i = 0 THEN b ELSE WriteChar(f[i - 1], str[i])]
             F == [i \in 1 .. n |-> [x \in S |-> WriteChar(x, str[i])]]
  <1>1. n \in Nat /\ b \in S /\ \A i \in 1 .. n : str[i] \in Char
    BY DEF FitsIn
  <1>2. \A i \in 1 .. n : \A x \in S : F[i][x] = WriteChar(x, str[i]) /\ F[i][x] \in S
    <2>1. ASSUME NEW i \in 1 .. n, NEW x \in S
          PROVE  WriteChar(x, str[i]) \in S
      <3>1. Wrote(x, <<str[i]>>, WriteChar(x, str[i]))
        BY <1>1, CharWritten
      <3> QED BY <3>1 DEF Wrote, FitsIn
    <2> HIDE DEF S
    <2> QED BY <2>1
  <1> HIDE DEF F, n
  <1>3. PICK f : Iterates(f, S, b, n, F)
    <2> HIDE DEF S
    <2>1. Stays(S, n, F)
      BY <1>2 DEF Stays
    <2> QED BY <1>1, <2>1, Iteration
  <1>4. Steps(f)
    <2>1. \A i \in 0 .. n : i # 0 => i \in 1 .. n /\ i - 1 \in 0 .. n
      BY <1>1
    <2> HIDE DEF S
    <2>2. \A i \in 0 .. n : f[i] = IF i = 0 THEN b ELSE WriteChar(f[i - 1], str[i])
      BY <1>2, <1>3, <2>1 DEF Iterates
    <2> QED BY <1>3, <2>2 DEF Iterates
  <1> DEFINE e == CHOOSE g : Steps(g)
  <1>5. Steps(e)
    <2> HIDE DEF Steps
    <2> QED BY <1>4
  <1>6. WriteStr(b, str) = e[n]
    BY DEF WriteStr, n
  <1> HIDE DEF e
  <1>7. e[0] = b /\ \A i \in 1 .. n : e[i] = WriteChar(e[i - 1], str[i])
    BY <1>1, <1>5
  <1> DEFINE good == {i \in 0 .. n : Wrote(b, SubSeq(str, 1, i), e[i])}
  <1>8. 0 \in good
    <2>1. SubSeq(str, 1, 0) = <<>> /\ 0 \in 0 .. n
      BY <1>1
    <2>2. Cat(b.data, <<>>) = b.data
      BY ConcatEmptySeq DEF FitsIn, Buffers, Cat
    <2>3. Wrote(b, <<>>, b)
      BY <2>2 DEF Wrote
    <2> QED BY <1>7, <2>1, <2>3
  <1>9. ASSUME NEW i \in 1 .. n, i - 1 \in good
        PROVE  i \in good
    <2> DEFINE p == SubSeq(str, 1, i - 1)
               x == str[i]
               c == e[i - 1]
    <2>1. p \in Seq(Char) /\ x \in Char /\ SubSeq(str, 1, i) = Append(p, x) /\ i \in 0 .. n
      BY DEF n
    <2>2. Wrote(b, p, c) /\ e[i] = WriteChar(c, x)
      BY <1>7, <1>9
    <2> HIDE DEF p, x, c
    <2>3. Wrote(c, <<x>>, WriteChar(c, x)) /\ <<x>> \in Seq(Char)
      BY <2>1, <2>2, CharWritten DEF Wrote
    <2>4. Wrote(b, Cat(p, <<x>>), WriteChar(c, x))
      BY <2>1, <2>2, <2>3, WroteBoth
    <2>5. Cat(p, <<x>>) = SubSeq(str, 1, i)
      <3>1. Append(p, x) = p \o <<x>>
        BY <2>1, AppendIsConcat
      <3> QED BY <2>1, <3>1, Zenon DEF Cat
    <2>6. Wrote(b, SubSeq(str, 1, i), e[i])
      BY <2>2, <2>4, <2>5, Zenon
    <2> QED BY <2>1, <2>6
  <1> HIDE DEF good
  <1>10. n \in good
    <2>1. \A i \in 1 .. n : i - 1 \in good => i \in good
      BY <1>9
    <2>2. \A i \in 0 .. n : i \in good
      BY <1>1, <1>8, <2>1, Reaches
    <2> QED BY <1>1, <2>2
  <1>11. SubSeq(str, 1, n) = str
    BY DEF n
  <1> QED BY <1>6, <1>10, <1>11 DEF good

LEMMA NothingWritten ==
  ASSUME NEW b, FitsIn(b)
  PROVE  Wrote(b, <<>>, b)
  <1>1. Cat(b.data, <<>>) = b.data
    BY ConcatEmptySeq DEF FitsIn, Buffers, Cat
  <1> QED BY <1>1 DEF Wrote

LEMMA CatType ==
  ASSUME NEW u \in Seq(Char), NEW v \in Seq(Char)
  PROVE  Cat(u, v) \in Seq(Char)
  BY CatIs

LEMMA DigitsAreChars ==
  ASSUME NEW val \in Nat
  PROVE  Digits(val) \in Seq(Char)
  <1> DEFINE s == Digits(val)
  <1>1. s \in Seq(Nat)
    BY DigitsType
  <1> HIDE DEF s
  <1>2. Nat \subseteq Char
    BY DEF Char
  <1>3. s \in Seq(Char)
    BY <1>1, <1>2
  <1> QED BY <1>3 DEF s

LEMMA UintWritten ==
  ASSUME NEW b, FitsIn(b), NEW val \in Nat
  PROVE  Wrote(b, Digits(val), WriteUint(b, val))
  BY StrWritten, DigitsAreChars DEF WriteUint

(* What is written of a float: the sign, the integer part, the point and   *)
(* the fraction.                                                           *)
Sign(val) == IF val < 0 THEN <<"-">> ELSE <<>>
Magnitude(val) == IF val < 0 THEN -val ELSE val
Whole(val) == Magnitude(val) \div 1000
Fraction(val) == ((Magnitude(val) % 1000) + 5) \div 10
Zeros(val) == IF Fraction(val) < 10 THEN <<0>> ELSE <<>>
FractionOut(val) == Cat(Zeros(val), Digits(Fraction(val)))
FloatOut(val) == Cat(Cat(Cat(Sign(val), Digits(Whole(val))), <<".">>), FractionOut(val))

LEMMA FloatNumbers ==
  ASSUME NEW val \in Int
  PROVE  /\ Magnitude(val) \in Nat /\ Whole(val) \in Nat /\ Fraction(val) \in 0 .. 100
         /\ Magnitude(val) = 1000 * Whole(val) + (Magnitude(val) % 1000)
         /\ Magnitude(val) % 1000 \in 0 .. 999
         /\ Sign(val) \in Seq(Char) /\ Zeros(val) \in Seq(Char) /\ <<".">> \in Seq(Char)
  <1>1. Magnitude(val) \in Nat
    BY DEF Magnitude
  <1> DEFINE m == Magnitude(val)
  <1> HIDE DEF m
  <1>2. m \in Nat /\ m \div 1000 \in Nat /\ m % 1000 \in 0 .. 999 /\ m = 1000 * (m \div 1000) + (m % 1000)
    BY <1>1 DEF m
  <1>3. ((m % 1000) + 5) \div 10 \in 0 .. 100
    BY <1>2
  <1>4. Sign(val) \in Seq(Char) /\ Zeros(val) \in Seq(Char) /\ <<".">> \in Seq(Char)
    <2>1. "-" \in Char /\ "." \in Char /\ 0 \in Char
      BY DEF Char, Marks
    <2> HIDE DEF Char
    <2>2. <<"-">> \in Seq(Char) /\ <<".">> \in Seq(Char) /\ <<0>> \in Seq(Char) /\ <<>> \in Seq(Char)
      BY <2>1
    <2> QED BY <2>2 DEF Sign, Zeros
  <1> QED BY <1>1, <1>2, <1>3, <1>4 DEF m, Whole, Fraction

LEMMA IntWritten ==
  ASSUME NEW b, FitsIn(b), NEW val \in Int
  PROVE  /\ Wrote(b, Cat(Sign(val), Digits(Magnitude(val))), WriteInt(b, val))
         /\ Sign(val) \in Seq(Char) /\ Digits(Magnitude(val)) \in Seq(Char)
  <1>1. Sign(val) \in Seq(Char) /\ Magnitude(val) \in Nat /\ Digits(Magnitude(val)) \in Seq(Char)
    BY FloatNumbers, DigitsAreChars
  <1> DEFINE c == IF val < 0 THEN WriteChar(b, "-") ELSE b
  <1>2. Wrote(b, Sign(val), c) /\ FitsIn(c)
    <2>1. "-" \in Char
      BY DEF Char, Marks
    <2>2. Wrote(b, <<"-">>, WriteChar(b, "-")) /\ Wrote(b, <<>>, b)
      BY <2>1, CharWritten, NothingWritten
    <2> QED BY <2>2 DEF Sign, Wrote
  <1>3. WriteInt(b, val) = WriteUint(c, Magnitude(val))
    BY DEF WriteInt, Magnitude
  <1> HIDE DEF c
  <1>4. Wrote(c, Digits(Magnitude(val)), WriteUint(c, Magnitude(val)))
    BY <1>1, <1>2, UintWritten
  <1>5. Wrote(b, Cat(Sign(val), Digits(Magnitude(val))), WriteUint(c, Magnitude(val)))
    BY <1>1, <1>2, <1>4, WroteBoth
  <1> QED BY <1>1, <1>3, <1>5

LEMMA FloatWritten ==
  ASSUME NEW b, FitsIn(b), NEW val \in Int
  PROVE  Wrote(b, FloatOut(val), WriteFloat(b, val)) /\ FloatOut(val) \in Seq(Char)
  <1> DEFINE c == IF val < 0 THEN WriteChar(b, "-") ELSE b
             d == WriteUint(c, Whole(val))
             e == WriteChar(d, ".")
             f == IF Fraction(val) < 10 THEN WriteChar(e, 0) ELSE e
             g == WriteUint(f, Fraction(val))
             u == Cat(Sign(val), Digits(Whole(val)))
             v == Cat(u, <<".">>)
             w == FractionOut(val)
  <1>1. /\ Sign(val) \in Seq(Char) /\ Zeros(val) \in Seq(Char) /\ <<".">> \in Seq(Char)
        /\ Whole(val) \in Nat /\ Fraction(val) \in Nat
    <2>1. Fraction(val) \in 0 .. 100
      BY FloatNumbers
    <2>2. Fraction(val) \in Nat
      BY <2>1
    <2> QED BY <2>2, FloatNumbers
  <1>2. Digits(Whole(val)) \in Seq(Char) /\ Digits(Fraction(val)) \in Seq(Char)
    BY <1>1, DigitsAreChars
  <1>3. u \in Seq(Char) /\ v \in Seq(Char) /\ w \in Seq(Char) /\ FloatOut(val) \in Seq(Char)
    <2>1. u \in Seq(Char)
      BY <1>1, <1>2, CatType
    <2>2. v \in Seq(Char)
      <3> HIDE DEF u
      <3> QED BY <1>1, <2>1, CatType
    <2>3. w \in Seq(Char)
      BY <1>1, <1>2, CatType DEF FractionOut
    <2>4. FloatOut(val) \in Seq(Char)
      <3> HIDE DEF v, w
      <3>1. Cat(v, w) \in Seq(Char)
        BY <2>2, <2>3, CatType
      <3> QED BY <3>1 DEF FloatOut, v, w
    <2> QED BY <2>1, <2>2, <2>3, <2>4
  <1>4. WriteFloat(b, val) = g
    BY DEF WriteFloat, WriteFraction, Whole, Fraction, Magnitude
  <1>5. "-" \in Char /\ "." \in Char /\ 0 \in Char
    BY DEF Char, Marks
  <1>6. Wrote(b, Sign(val), c) /\ FitsIn(c)
    <2>1. Wrote(b, <<"-">>, WriteChar(b, "-")) /\ Wrote(b, <<>>, b)
      BY <1>5, CharWritten, NothingWritten
    <2> QED BY <2>1 DEF Sign, Wrote
  <1> HIDE DEF c
  <1>7. Wrote(c, Digits(Whole(val)), d) /\ FitsIn(d)
    BY <1>1, <1>6, UintWritten DEF Wrote
  <1> HIDE DEF d
  <1>8. Wrote(d, <<".">>, e) /\ FitsIn(e)
    BY <1>5, <1>7, CharWritten DEF Wrote
  <1> HIDE DEF e
  <1>9. Wrote(e, Zeros(val), f) /\ FitsIn(f)
    <2>1. Wrote(e, <<0>>, WriteChar(e, 0)) /\ Wrote(e, <<>>, e)
      BY <1>5, <1>8, CharWritten, NothingWritten
    <2> QED BY <2>1 DEF Zeros, Wrote
  <1> HIDE DEF f
  <1>10. Wrote(f, Digits(Fraction(val)), g)
    BY <1>1, <1>9, UintWritten
  <1> HIDE DEF g
  <1>11. Wrote(b, u, d)
    BY <1>1, <1>2, <1>6, <1>7, WroteBoth
  <1>12. Wrote(b, v, e)
    <2> HIDE DEF u
    <2> QED BY <1>1, <1>3, <1>8, <1>11, WroteBoth
  <1>13. Wrote(e, w, g)
    BY <1>1, <1>2, <1>8, <1>9, <1>10, WroteBoth DEF FractionOut
  <1> HIDE DEF v, w
  <1>14. Wrote(b, Cat(v, w), g)
    BY <1>3, <1>12, <1>13, WroteBoth
  <1> QED BY <1>3, <1>4, <1>14 DEF FloatOut, v, w, u

LEMMA UnitAndOthers ==
  ASSUME NEW a, NEW v, NEW w, NEW S, a \in S, v \in Seq(S), w \in Seq(S), Len(w) = Len(v) + 1,
         w[1] = a, \A i \in 1 .. Len(v) : w[i + 1] = v[i]
  PROVE  Cat(<<a>>, v) = w
  <1> DEFINE u == <<a>>
             x == Cat(u, v)
  <1>1. u \in Seq(S) /\ Len(u) = 1 /\ u[1] = a
    OBVIOUS
  <1> HIDE DEF u
  <1>2. /\ x \in Seq(S) /\ Len(x) = Len(u) + Len(v)
        /\ \A j \in 1 .. Len(u) + Len(v) : x[j] = IF j <= Len(u) THEN u[j] ELSE v[j - Len(u)]
    BY <1>1, CatIs
  <1> HIDE DEF x
  <1>3. Len(v) \in Nat
    OBVIOUS
  <1>4. Len(x) = Len(w)
    BY <1>1, <1>2, <1>3
  <1>5. ASSUME NEW j \in 1 .. Len(x)
        PROVE  x[j] = w[j]
    <2>1. CASE j = 1
      BY <1>1, <1>2, <1>3, <2>1
    <2>2. CASE j # 1
      <3>1. j \in 1 .. Len(u) + Len(v) /\ ~(j <= Len(u)) /\ j - Len(u) \in 1 .. Len(v)
            /\ j = (j - Len(u)) + 1
        BY <1>1, <1>2, <1>3, <2>2
      <3> QED BY <1>2, <3>1
    <2> QED BY <2>1, <2>2
  <1>6. x = w
    BY <1>2, <1>4, <1>5, SeqEqual
  <1> QED BY <1>6 DEF x, u

LEMMA ShortSequences ==
  ASSUME NEW a, NEW b, NEW c
  PROVE  /\ Cat(<<a>>, <<b>>) = <<a, b>> /\ Append(<<a>>, b) = <<a, b>>
         /\ Cat(<<a>>, <<b, c>>) = <<a, b, c>> /\ Cat(<<>>, <<a, b>>) = <<a, b>>
  <1> DEFINE S == {a, b, c}
             u == <<a>>
             v == <<b>>
             w == <<a, b>>
             y == <<b, c>>
             z == <<a, b, c>>
  <1>1. /\ u \in Seq(S) /\ v \in Seq(S) /\ w \in Seq(S) /\ y \in Seq(S) /\ z \in Seq(S)
        /\ a \in S /\ b \in S
    OBVIOUS
  <1>2. /\ Len(v) = 1 /\ Len(w) = 2 /\ Len(y) = 2 /\ Len(z) = 3 /\ v[1] = b
        /\ w[1] = a /\ w[2] = b /\ y[1] = b /\ y[2] = c /\ z[1] = a /\ z[2] = b /\ z[3] = c
    OBVIOUS
  <1> HIDE DEF S, v, w, y, z
  <1>3. \A i \in 1 .. Len(v) : i = 1
    BY <1>2
  <1>4. \A i \in 1 .. Len(v) : w[i + 1] = v[i]
    BY <1>2, <1>3
  <1>5. \A i \in 1 .. Len(y) : i = 1 \/ i = 2
    BY <1>2
  <1>6. \A i \in 1 .. Len(y) : z[i + 1] = y[i]
    BY <1>2, <1>5
  <1>7. Cat(<<a>>, v) = w
    <2>1. a \in S /\ v \in Seq(S) /\ w \in Seq(S) /\ Len(w) = Len(v) + 1 /\ w[1] = a
      BY <1>1, <1>2
    <2> QED BY <2>1, <1>4, UnitAndOthers
  <1>8. Cat(<<a>>, y) = z
    <2>1. a \in S /\ y \in Seq(S) /\ z \in Seq(S) /\ Len(z) = Len(y) + 1 /\ z[1] = a
      BY <1>1, <1>2
    <2> QED BY <2>1, <1>6, UnitAndOthers
  <1>9. Append(u, b) = Cat(u, <<b>>)
    <2> HIDE DEF u
    <2> QED BY <1>1, AppendIsConcat DEF Cat
  <1>10. Cat(<<>>, w) = w
    BY <1>1, ConcatEmptySeq DEF Cat
  <1> QED BY <1>7, <1>8, <1>9, <1>10 DEF u, v, w, y, z

(* Its text, unless the rounding carries.                                  *)
LEMMA FloatIsText ==
  ASSUME NEW val \in Int, Magnitude(val) % 1000 < 995
  PROVE  FloatOut(val) = Text(<<"f", val>>)
  <1> DEFINE m == Magnitude(val)
             w == Whole(val)
             r == m % 1000
             f == Fraction(val)
             h == (m + 5) \div 10
  <1>1. m \in Nat /\ w \in Nat /\ m = 1000 * w + r /\ r \in 0 .. 999
    BY FloatNumbers
  <1>2. f = (r + 5) \div 10 /\ r < 995
    BY DEF Fraction
  <1> DEFINE text == (Sign(val) \o Digits(h \div 100)) \o <<".", (h \div 10) % 10, h % 10>>
  <1>3. Text(<<"f", val>>) = text
    BY DEF Text, Sign, Magnitude
  <1>4. /\ Sign(val) \in Seqs(Char) /\ Digits(w) \in Seqs(Char) /\ <<".">> \in Seqs(Char)
    BY <1>1, FloatNumbers, DigitsAreChars DEF Seqs
  <1> HIDE DEF m, w, r
  <1>5. f \in 0 .. 99 /\ h = 100 * w + f
    BY <1>1, <1>2
  <1> HIDE DEF f, h
  <1>6. h \div 100 = w /\ (h \div 10) % 10 = f \div 10 /\ h % 10 = f % 10
    BY <1>1, <1>5
  <1> DEFINE x == f \div 10
             y == f % 10
  <1>7. x \in 0 .. 9 /\ y \in 0 .. 9
    BY <1>5
  <1>8. FractionOut(val) = <<x, y>>
    <2>1. CASE f < 10
      <3>1. Zeros(val) = <<0>> /\ x = 0 /\ y = f
        BY <1>5, <2>1 DEF Zeros, f
      <3>2. Digits(f) = <<f>>
        <4>1. f \in Nat
          BY <1>5
        <4> QED BY <4>1, <2>1, DigitsAre
      <3>3. FractionOut(val) = Cat(<<0>>, <<f>>)
        BY <3>1, <3>2 DEF FractionOut, f
      <3>4. Cat(<<0>>, <<f>>) = <<0, f>>
        BY ShortSequences
      <3> HIDE DEF x, y
      <3> QED BY <3>1, <3>3, <3>4
    <2>2. CASE ~(f < 10)
      <3>1. Zeros(val) = <<>>
        BY <2>2 DEF Zeros, f
      <3>2. f \in Nat /\ f >= 10
        BY <1>5, <2>2
      <3>3. Digits(f) = Append(Digits(x), y)
        BY <3>2, DigitsAre
      <3>4. Digits(x) = <<x>>
        <4> HIDE DEF x
        <4>1. x \in Nat /\ x < 10
          BY <1>7
        <4> QED BY <4>1, DigitsAre
      <3> HIDE DEF x, y
      <3>5. Digits(f) = <<x, y>>
        BY <3>3, <3>4, ShortSequences
      <3>6. FractionOut(val) = Cat(<<>>, <<x, y>>)
        BY <3>1, <3>5 DEF FractionOut, f
      <3> QED BY <3>6, ShortSequences
    <2> QED BY <2>1, <2>2
  <1> HIDE DEF x, y
  <1>9. <<x, y>> \in Seqs(Char)
    <2>1. x \in Char /\ y \in Char
      BY <1>7 DEF Char
    <2> QED BY <2>1 DEF Seqs
  <1> DEFINE u == Cat(Sign(val), Digits(w))
             v == <<x, y>>
  <1>10. u \in Seqs(Char)
    BY <1>4, Cats
  <1>11. v \in Seqs(Char)
    BY <1>9
  <1>12. FloatOut(val) = Cat(Cat(u, <<".">>), v)
    BY <1>8 DEF FloatOut, w
  <1>13. Cat(<<".">>, v) = <<".", x, y>>
    BY ShortSequences DEF v
  <1>14. text = Cat(u, <<".", x, y>>)
    BY <1>6 DEF Cat, x, y
  <1> HIDE DEF u, v, text
  <1>15. Cat(Cat(u, <<".">>), v) = Cat(u, Cat(<<".">>, v))
    BY <1>4, <1>10, <1>11, Cats
  <1> QED BY <1>3, <1>12, <1>13, <1>14, <1>15, Zenon

LEMMA FloatParted ==
  ASSUME NEW val \in Int, Magnitude(val) % 1000 >= 995
  PROVE  Parted(FloatOut(val), Text(<<"f", val>>)) /\ Text(<<"f", val>>) \in Seq(Char)
  <1> DEFINE m == Magnitude(val)
             w == Whole(val)
             r == m % 1000
             h == (m + 5) \div 10
  <1>1. m \in Nat /\ w \in Nat /\ m = 1000 * w + r /\ r \in 0 .. 999 /\ r >= 995
    BY FloatNumbers
  <1> DEFINE end == <<".", (h \div 10) % 10, h % 10>>
             text == (Sign(val) \o Digits(h \div 100)) \o end
  <1>2. Text(<<"f", val>>) = text
    BY DEF Text, Sign, Magnitude
  <1>3. /\ Sign(val) \in Seqs(Char) /\ Digits(w) \in Seqs(Char) /\ <<".">> \in Seqs(Char)
        /\ Digits(w + 1) \in Seqs(Char)
    <2>1. w \in Nat /\ w + 1 \in Nat
      BY <1>1
    <2> HIDE DEF w
    <2>2. Digits(w) \in Seq(Char) /\ Digits(w + 1) \in Seq(Char)
      BY <2>1, DigitsAreChars
    <2> QED BY <2>2, FloatNumbers DEF Seqs
  <1>4. FractionOut(val) \in Seqs(Char)
    <2>1. Fraction(val) \in 0 .. 100
      BY FloatNumbers
    <2>2. Fraction(val) \in Nat
      BY <2>1
    <2>3. Zeros(val) \in Seqs(Char) /\ Digits(Fraction(val)) \in Seqs(Char)
      BY <2>2, FloatNumbers, DigitsAreChars DEF Seqs
    <2> QED BY <2>3, Cats DEF FractionOut
  <1>5. Parted(Digits(w), Digits(w + 1))
    BY <1>1, NextDigitsParted
  <1> HIDE DEF m, w, r
  <1>6. h = 100 * (w + 1) + (r - 995) \div 10 /\ (r - 995) \div 10 = 0
    BY <1>1
  <1>7. h \in Nat /\ h \div 100 = w + 1
    BY <1>1, <1>6
  <1>8. end \in Seqs(Char)
    <2> HIDE DEF h
    <2>1. "." \in Char /\ (h \div 10) % 10 \in Char /\ h % 10 \in Char
      BY <1>7 DEF Char, Marks
    <2> QED BY <2>1 DEF Seqs
  <1> DEFINE a == Cat(Sign(val), Digits(w))
             b == Cat(Sign(val), Digits(w + 1))
             u == Cat(<<".">>, FractionOut(val))
  <1>9. a \in Seqs(Char) /\ b \in Seqs(Char)
    BY <1>3, Cats
  <1>10. u \in Seqs(Char)
    BY <1>3, <1>4, Cats
  <1>11. Parted(a, b)
    BY <1>3, <1>5, PartedBehind DEF Seqs
  <1>12. text = Cat(b, end)
    BY <1>7 DEF Cat
  <1>13. FloatOut(val) = Cat(Cat(a, <<".">>), FractionOut(val))
    BY DEF FloatOut, w
  <1> HIDE DEF a, b, end, text
  <1>14. FloatOut(val) = Cat(a, u)
    BY <1>3, <1>4, <1>9, <1>13, Cats
  <1> HIDE DEF u
  <1>15. Parted(Cat(a, u), Cat(b, end)) /\ Cat(b, end) \in Seqs(Char)
    <2>1. Parted(Cat(a, u), Cat(b, end))
      BY <1>8, <1>9, <1>10, <1>11, PartedGoesOn DEF Seqs
    <2>2. Cat(b, end) \in Seqs(Char)
      BY <1>8, <1>9, Cats
    <2> QED BY <2>1, <2>2
  <1> QED BY <1>2, <1>12, <1>14, <1>15 DEF Seqs

(* A directive that the application or the log may ask for, and what the   *)
(* code writes of it.                                                      *)
Asked(d) ==
  \/ d[1] = "u" /\ d[2] \in Nat
  \/ d[1] \in {"i", "f"} /\ d[2] \in Int
  \/ d[1] = "s" /\ d[2] \in Seq(Char)
  \/ d[1] \in {"c", "text"} /\ d[2] \in Char
  \/ d[1] \in {"%", "?"}
Out(d) == IF d[1] = "f" THEN FloatOut(d[2]) ELSE Text(d)

LEMMA DirectiveWritten ==
  ASSUME NEW b, FitsIn(b), NEW d, Asked(d)
  PROVE  Wrote(b, Out(d), WriteDirective(b, d)) /\ Out(d) \in Seq(Char)
  <1> DEFINE c == WriteDirective(b, d)
             W(x) == Wrote(b, Out(d), x) /\ Out(d) \in Seq(Char)
  <1>1. \E x : W(x) /\ (~b.overflow => c = x)
    <2>1. CASE d[1] = "u"
      <3>1. d[2] \in Nat
        BY <2>1 DEF Asked
      <3>2. Out(d) = Digits(d[2]) /\ (~b.overflow => c = WriteUint(b, d[2]))
        BY <2>1 DEF Out, Text, WriteDirective
      <3>3. Wrote(b, Digits(d[2]), WriteUint(b, d[2])) /\ Digits(d[2]) \in Seq(Char)
        BY <3>1, UintWritten, DigitsAreChars
      <3> QED BY <3>2, <3>3
    <2>2. CASE d[1] = "i"
      <3> DEFINE v == d[2]
      <3>1. v \in Int
        BY <2>2 DEF Asked
      <3>2. Out(d) = IF v < 0 THEN <<"-">> \o Digits(-v) ELSE Digits(v)
        BY <2>2 DEF Out, Text
      <3>3. ~b.overflow => c = WriteInt(b, v)
        BY <2>2 DEF WriteDirective
      <3> HIDE DEF v
      <3>4. Wrote(b, Cat(Sign(v), Digits(Magnitude(v))), WriteInt(b, v))
        BY <3>1, IntWritten
      <3>5. Sign(v) \in Seq(Char) /\ Digits(Magnitude(v)) \in Seq(Char)
        BY <3>1, IntWritten
      <3>6. Cat(Sign(v), Digits(Magnitude(v))) \in Seq(Char)
        BY <3>5, CatType
      <3>7. Out(d) = Cat(Sign(v), Digits(Magnitude(v)))
        <4>1. CASE v < 0
          BY <3>2, <4>1 DEF Sign, Magnitude, Cat
        <4>2. CASE ~(v < 0)
          <5>1. Sign(v) = <<>> /\ Magnitude(v) = v
            BY <4>2 DEF Sign, Magnitude
          <5> DEFINE t == Digits(v)
          <5>2. t \in Seq(Char)
            BY <3>5, <5>1
          <5> HIDE DEF t
          <5>3. <<>> \o t = t
            BY <5>2, ConcatEmptySeq
          <5> QED BY <3>2, <4>2, <5>1, <5>3 DEF Cat, t
        <4> QED BY <4>1, <4>2
      <3> QED BY <3>3, <3>4, <3>6, <3>7
    <2>3. CASE d[1] = "f"
      <3> DEFINE v == d[2]
      <3>1. v \in Int
        BY <2>3 DEF Asked
      <3>2. Out(d) = FloatOut(v) /\ (~b.overflow => c = WriteFloat(b, v))
        BY <2>3 DEF Out, WriteDirective
      <3> HIDE DEF v
      <3>3. Wrote(b, FloatOut(v), WriteFloat(b, v)) /\ FloatOut(v) \in Seq(Char)
        BY <3>1, FloatWritten
      <3> QED BY <3>2, <3>3
    <2>4. CASE d[1] = "s"
      <3> DEFINE v == d[2]
      <3>1. v \in Seq(Char)
        BY <2>4 DEF Asked
      <3>2. Out(d) = v /\ (~b.overflow => c = WriteStr(b, v))
        BY <2>4 DEF Out, Text, WriteDirective
      <3> HIDE DEF v
      <3>3. Wrote(b, v, WriteStr(b, v))
        BY <3>1, StrWritten
      <3> QED BY <3>1, <3>2, <3>3
    <2>5. CASE d[1] \in {"c", "text"}
      <3> DEFINE v == d[2]
      <3>1. v \in Char
        BY <2>5 DEF Asked
      <3>2. Out(d) = <<v>> /\ (~b.overflow => c = WriteChar(b, v))
        BY <2>5 DEF Out, Text, WriteDirective
      <3> HIDE DEF v
      <3>3. Wrote(b, <<v>>, WriteChar(b, v)) /\ <<v>> \in Seq(Char)
        BY <3>1, CharWritten
      <3> QED BY <3>2, <3>3
    <2>6. CASE d[1] \in {"%", "?"}
      <3> DEFINE v == d[1]
      <3>1. v \in Char
        BY <2>6 DEF Char, Marks
      <3>2. Out(d) = <<v>> /\ (~b.overflow => c = WriteChar(b, v))
        BY <2>6 DEF Out, Text, WriteDirective
      <3> HIDE DEF v
      <3>3. Wrote(b, <<v>>, WriteChar(b, v)) /\ <<v>> \in Seq(Char)
        BY <3>1, CharWritten
      <3> QED BY <3>2, <3>3
    <2> QED BY <2>1, <2>2, <2>3, <2>4, <2>5, <2>6 DEF Asked
  <1>2. b.overflow => c = b
    BY DEF WriteDirective
  <1> HIDE DEF c
  <1>3. Wrote(b, Out(d), c) /\ Out(d) \in Seq(Char)
    BY <1>1, <1>2 DEF Wrote
  <1> QED BY <1>3 DEF c

(* The message is what the directives of the format write, joined.         *)
Joins(j, F, n) ==
  /\ j[0] = <<>> /\ \A i \in 0 .. n : j[i] \in Seq(Char)
  /\ \A i \in 1 .. n : F[i] \in Seq(Char) /\ j[i] = Cat(j[i - 1], F[i])

LEMMA JoinsExists ==
  ASSUME NEW n \in Nat, NEW F, \A i \in 1 .. n : F[i] \in Seq(Char)
  PROVE  \E j : Joins(j, F, n)
  <1> DEFINE S == Seq(Char)
             G == [i \in 1 .. n |-> [x \in S |-> Cat(x, F[i])]]
  <1>1. \A i \in 1 .. n : \A x \in S : G[i][x] = Cat(x, F[i]) /\ G[i][x] \in S
    <2>1. ASSUME NEW i \in 1 .. n, NEW x \in S
          PROVE  Cat(x, F[i]) \in S
      BY CatType
    <2> HIDE DEF S
    <2> QED BY <2>1
  <1>2. <<>> \in S
    OBVIOUS
  <1> HIDE DEF G, S
  <1>3. PICK j : Iterates(j, S, <<>>, n, G)
    <2>1. Stays(S, n, G)
      BY <1>1 DEF Stays
    <2> QED BY <1>2, <2>1, Iteration
  <1>4. Joins(j, F, n)
    <2>1. \A i \in 1 .. n : i - 1 \in 0 .. n
      OBVIOUS
    <2>2. j[0] = <<>> /\ \A i \in 0 .. n : j[i] \in S
      BY <1>3 DEF Iterates
    <2>3. \A i \in 1 .. n : j[i] = Cat(j[i - 1], F[i])
      BY <1>1, <1>3, <2>1, <2>2 DEF Iterates
    <2> QED BY <2>2, <2>3 DEF Joins, S
  <1> QED BY <1>4

LEMMA FlattenIs ==
  ASSUME NEW F \in Seq(Seq(Char)), NEW j, Joins(j, F, Len(F))
  PROVE  FlattenSeq(F) = j[Len(F)]
  <1> DEFINE n == Len(F)
             Steps(f) == f = [i \in 1 .. n |-> IF i = 1 THEN F[i] ELSE f[i - 1] \o F[i]]
  <1>1. n \in Nat /\ j[0] = <<>> /\ \A i \in 1 .. n : F[i] \in Seq(Char)
    BY DEF Joins
  <1>2. ASSUME NEW i \in 1 .. n
        PROVE  j[i] = IF i = 1 THEN F[i] ELSE j[i - 1] \o F[i]
    <2>1. j[i] = Cat(j[i - 1], F[i])
      BY DEF Joins
    <2>2. CASE i = 1
      <3> DEFINE x == F[i]
      <3>1. x \in Seq(Char)
        BY <1>1
      <3> HIDE DEF x
      <3>2. Cat(<<>>, x) = x
        BY <3>1, ConcatEmptySeq DEF Cat
      <3>3. i - 1 = 0
        BY <2>2
      <3>4. j[i - 1] = <<>>
        BY <1>1, <3>3
      <3> QED BY <2>1, <2>2, <3>2, <3>4 DEF x
    <2>3. CASE i # 1
      BY <2>1, <2>3 DEF Cat
    <2> QED BY <2>2, <2>3
  <1>3. CASE n = 0
    <2>1. F = <<>>
      BY <1>3
    <2> QED BY <1>1, <1>3, <2>1 DEF FlattenSeq
  <1>4. CASE n # 0
    <2> DEFINE e == CHOOSE f : Steps(f)
    <2>1. FlattenSeq(F) = e[n]
      BY <1>4 DEF FlattenSeq
    <2> HIDE DEF n
    <2>2. \E f : Steps(f)
      <3> DEFINE h == [i \in 1 .. n |-> j[i]]
      <3>1. ASSUME NEW i \in 1 .. n
            PROVE  h[i] = IF i = 1 THEN F[i] ELSE h[i - 1] \o F[i]
        <4>1. CASE i = 1
          BY <1>2, <4>1
        <4>2. CASE i # 1
          <5>1. i - 1 \in 1 .. n
            BY <1>1, <4>2
          <5>2. h[i - 1] = j[i - 1] /\ h[i] = j[i]
            BY <5>1
          <5> HIDE DEF h
          <5> QED BY <1>2, <4>2, <5>2
        <4> QED BY <4>1, <4>2
      <3>2. h = [i \in 1 .. n |-> h[i]]
        OBVIOUS
      <3> HIDE DEF h
      <3>3. Steps(h)
        BY <3>1, <3>2
      <3> QED BY <3>3
    <2>3. Steps(e)
      <3> HIDE DEF Steps
      <3> QED BY <2>2
    <2> HIDE DEF e
    <2>4. \A i \in 1 .. n : e[i] = IF i = 1 THEN F[i] ELSE e[i - 1] \o F[i]
      BY <2>3
    <2> DEFINE good == {i \in 0 .. n : i = 0 \/ e[i] = j[i]}
    <2>5. 0 \in good
      BY <1>1
    <2>6. \A i \in 1 .. n : i - 1 \in good => i \in good
      <3> SUFFICES ASSUME NEW i \in 1 .. n, i - 1 \in good
                   PROVE  i \in good
        OBVIOUS
      <3>1. e[i] = j[i]
        <4>1. CASE i = 1
          BY <1>2, <2>4, <4>1
        <4>2. CASE i # 1
          <5>1. e[i - 1] = j[i - 1]
            BY <1>1, <4>2
          <5>2. e[i] = e[i - 1] \o F[i] /\ j[i] = j[i - 1] \o F[i]
            BY <1>2, <2>4, <4>2
          <5> QED BY <5>1, <5>2, Zenon
        <4> QED BY <4>1, <4>2
      <3> QED BY <1>1, <3>1
    <2> HIDE DEF good
    <2>7. \A i \in 0 .. n : i \in good
      BY <1>1, <2>5, <2>6, Reaches
    <2>8. e[n] = j[n]
      <3>1. n \in good /\ n # 0
        BY <1>1, <1>4, <2>7
      <3> QED BY <3>1 DEF good
    <2> QED BY <2>1, <2>8 DEF n
  <1> QED BY <1>3, <1>4

LEMMA MessageWritten ==
  ASSUME NEW format, Len(format) \in Nat, \A i \in 1 .. Len(format) : Asked(format[i]),
         NEW F, \A i \in 1 .. Len(format) : F[i] = Out(format[i]),
         NEW j, Joins(j, F, Len(format))
  PROVE  LET b == Message(format)
         IN FitsIn(b) /\ (~b.overflow => b.data = j[Len(format)])
  <1> DEFINE n == Len(format)
             empty == [data |-> <<>>, overflow |-> FALSE]
             S == {c \in Buffers : FitsIn(c)}
             Steps(f) == f = [i \in 0 .. n |-> IF i = 0 THEN empty
                                               ELSE WriteDirective(f[i - 1], format[i])]
             G == [i \in 1 .. n |-> [x \in S |-> WriteDirective(x, format[i])]]
  <1>1. n \in Nat /\ empty \in S /\ empty.data = <<>> /\ FitsIn(empty) /\ empty.overflow = FALSE
    <2>1. <<>> \in Seq(Char) /\ Len(<<>>) = 0
      OBVIOUS
    <2>2. PrintMax \in Nat
      BY PrintAssumption
    <2>3. empty \in Buffers /\ empty.data = <<>> /\ empty.overflow = FALSE
      BY <2>1 DEF Buffers
    <2> HIDE DEF empty
    <2>4. Len(empty.data) <= PrintMax
      BY <2>1, <2>2, <2>3
    <2>5. n \in Nat
      OBVIOUS
    <2> QED BY <2>3, <2>4, <2>5 DEF FitsIn
  <1> HIDE DEF empty
  <1>2. \A i \in 1 .. n : \A x \in S : G[i][x] = WriteDirective(x, format[i]) /\ G[i][x] \in S
    <2>1. ASSUME NEW i \in 1 .. n, NEW x \in S
          PROVE  WriteDirective(x, format[i]) \in S
      <3>1. Wrote(x, Out(format[i]), WriteDirective(x, format[i]))
        BY DirectiveWritten
      <3> QED BY <3>1 DEF Wrote, FitsIn
    <2> HIDE DEF S
    <2> QED BY <2>1
  <1> HIDE DEF G, n
  <1>3. PICK f : Iterates(f, S, empty, n, G)
    <2> HIDE DEF S
    <2>1. Stays(S, n, G)
      BY <1>2 DEF Stays
    <2> QED BY <1>1, <2>1, Iteration
  <1>4. Steps(f)
    <2>1. \A i \in 0 .. n : i # 0 => i \in 1 .. n /\ i - 1 \in 0 .. n
      BY <1>1
    <2> HIDE DEF S
    <2>2. \A i \in 0 .. n : f[i] = IF i = 0 THEN empty ELSE WriteDirective(f[i - 1], format[i])
      BY <1>2, <1>3, <2>1 DEF Iterates
    <2> QED BY <1>3, <2>2 DEF Iterates
  <1> DEFINE e == CHOOSE g : Steps(g)
  <1>5. Steps(e)
    <2> HIDE DEF Steps
    <2> QED BY <1>4
  <1>6. Message(format) = e[n]
    BY DEF Message, n, empty
  <1> HIDE DEF e
  <1>7. e[0] = empty /\ \A i \in 1 .. n : e[i] = WriteDirective(e[i - 1], format[i])
    BY <1>1, <1>5
  <1> DEFINE good == {i \in 0 .. n : Wrote(empty, j[i], e[i])}
  <1>8. 0 \in good
    BY <1>1, <1>7, NothingWritten DEF Joins, n
  <1>9. ASSUME NEW i \in 1 .. n, i - 1 \in good
        PROVE  i \in good
    <2> DEFINE u == j[i - 1]
               v == F[i]
               c == e[i - 1]
               d == format[i]
               x == WriteDirective(c, d)
    <2>1. /\ i - 1 \in 0 .. n /\ i \in 0 .. n
          /\ u \in Seq(Char) /\ v \in Seq(Char) /\ j[i] = Cat(u, v) /\ v = Out(d) /\ Asked(d)
      BY <1>1 DEF Joins, n
    <2>2. Wrote(empty, u, c) /\ e[i] = x
      BY <1>7, <1>9
    <2> HIDE DEF u, v, c, d, good
    <2>3. FitsIn(c)
      BY <2>2 DEF Wrote
    <2>4. Wrote(c, v, x)
      BY <2>1, <2>3, DirectiveWritten
    <2> HIDE DEF x
    <2>5. Wrote(empty, Cat(u, v), x)
      BY <1>1, <2>1, <2>2, <2>4, WroteBoth
    <2>6. Wrote(empty, j[i], e[i])
      BY <2>1, <2>2, <2>5, Zenon
    <2> QED BY <2>1, <2>6 DEF good
  <1> HIDE DEF good
  <1>10. n \in good
    <2>1. \A i \in 1 .. n : i - 1 \in good => i \in good
      BY <1>9
    <2>2. \A i \in 0 .. n : i \in good
      BY <1>1, <1>8, <2>1, Reaches
    <2> QED BY <1>1, <2>2
  <1> DEFINE w == j[n]
             b == e[n]
  <1>11. Wrote(empty, w, b) /\ w \in Seq(Char)
    BY <1>1, <1>10 DEF good, Joins, n
  <1> HIDE DEF w, b
  <1>12. Cat(<<>>, w) = w
    BY <1>11, ConcatEmptySeq DEF Cat
  <1>13. FitsIn(b) /\ (~b.overflow => b.data = w)
    BY <1>1, <1>11, <1>12 DEF Wrote
  <1> QED BY <1>6, <1>13 DEF w, b, n

(* What the code writes and what is asked for are the same message, unless *)
(* a float of it carries: they then differ in a place that both have.      *)
LEMMA DirectiveText ==
  ASSUME NEW d, Asked(d)
  PROVE  /\ Text(d) \in Seq(Char) /\ Out(d) \in Seq(Char)
         /\ ~Carries(d) => Out(d) = Text(d)
         /\ Carries(d) => Parted(Out(d), Text(d))
  <1>1. Out(d) \in Seq(Char)
    <2> DEFINE empty == [data |-> <<>>, overflow |-> FALSE]
    <2>1. <<>> \in Seq(Char) /\ Len(<<>>) = 0
      OBVIOUS
    <2>2. PrintMax \in Nat
      BY PrintAssumption
    <2>3. empty \in Buffers /\ empty.data = <<>>
      BY <2>1 DEF Buffers
    <2> HIDE DEF empty
    <2>4. FitsIn(empty)
      BY <2>1, <2>2, <2>3 DEF FitsIn
    <2> QED BY <2>4, DirectiveWritten
  <1>2. CASE d[1] # "f"
    <2>1. Out(d) = Text(d) /\ ~Carries(d)
      BY <1>2 DEF Out, Carries
    <2> QED BY <1>1, <2>1
  <1>3. CASE d[1] = "f"
    <2> DEFINE v == d[2]
    <2>1. v \in Int
      BY <1>3 DEF Asked
    <2>2. Out(d) = FloatOut(v) /\ Text(d) = Text(<<"f", v>>)
      BY <1>3 DEF Out, Text
    <2>3. Carries(d) <=> Magnitude(v) % 1000 >= 995
      BY <1>3 DEF Carries, Magnitude
    <2> HIDE DEF v
    <2>4. Magnitude(v) % 1000 \in 0 .. 999
      <3>1. Magnitude(v) \in Nat
        BY <2>1, FloatNumbers
      <3> QED BY <3>1
    <2>5. CASE Carries(d)
      <3>1. Magnitude(v) % 1000 >= 995
        BY <2>3, <2>5
      <3>2. Parted(FloatOut(v), Text(<<"f", v>>)) /\ Text(<<"f", v>>) \in Seq(Char)
        BY <2>1, <3>1, FloatParted
      <3> QED BY <1>1, <2>2, <2>5, <3>2
    <2>6. CASE ~Carries(d)
      <3>1. Magnitude(v) % 1000 < 995
        <4> DEFINE m == Magnitude(v) % 1000
        <4>1. m \in 0 .. 999 /\ ~(m >= 995)
          BY <2>3, <2>4, <2>6
        <4> HIDE DEF m
        <4>2. m < 995
          BY <4>1
        <4> QED BY <4>2 DEF m
      <3>2. FloatOut(v) = Text(<<"f", v>>)
        BY <2>1, <3>1, FloatIsText
      <3> QED BY <1>1, <2>2, <2>6, <3>2
    <2> QED BY <2>5, <2>6
  <1> QED BY <1>2, <1>3

Compared(format, n, data, wanted) ==
  IF \E i \in 1 .. n : Carries(format[i]) THEN Parted(data, wanted) ELSE data = wanted

LEMMA MessagesCompare ==
  ASSUME NEW format, NEW n \in Nat, \A i \in 1 .. n : Asked(format[i]),
         NEW F, \A i \in 1 .. n : F[i] = Out(format[i]),
         NEW G, \A i \in 1 .. n : G[i] = Text(format[i]),
         NEW j, Joins(j, F, n), NEW k, Joins(k, G, n)
  PROVE  Compared(format, n, j[n], k[n])
  <1> DEFINE C(i) == \E m \in 1 .. i : Carries(format[m])
             good == {i \in 0 .. n : IF C(i) THEN Parted(j[i], k[i]) ELSE j[i] = k[i]}
  <1>1. 0 \in good
    <2>1. ~C(0) /\ 0 \in 0 .. n
      OBVIOUS
    <2>2. j[0] = k[0]
      BY DEF Joins
    <2> QED BY <2>1, <2>2
  <1>2. ASSUME NEW i \in 1 .. n, i - 1 \in good
        PROVE  i \in good
    <2> DEFINE u == j[i - 1]
               v == k[i - 1]
               x == F[i]
               y == G[i]
               d == format[i]
    <2>1. u \in Seq(Char) /\ v \in Seq(Char) /\ j[i] = Cat(u, x) /\ k[i] = Cat(v, y) /\ i \in 0 .. n
      BY DEF Joins
    <2>2. Asked(d) /\ x = Out(d) /\ y = Text(d)
      OBVIOUS
    <2>3. IF C(i - 1) THEN Parted(u, v) ELSE u = v
      BY <1>2
    <2>4. C(i) <=> C(i - 1) \/ Carries(d)
      <3>1. \A m \in 1 .. i : m \in 1 .. i - 1 \/ m = i
        OBVIOUS
      <3>2. \A m \in 1 .. i - 1 : m \in 1 .. i
        OBVIOUS
      <3>3. i \in 1 .. i
        OBVIOUS
      <3> HIDE DEF good
      <3> QED BY <3>1, <3>2, <3>3
    <2> HIDE DEF C, good, u, v, x, y, d
    <2>5. x \in Seq(Char) /\ y \in Seq(Char)
      BY <2>2, DirectiveText
    <2>6. IF C(i) THEN Parted(Cat(u, x), Cat(v, y)) ELSE Cat(u, x) = Cat(v, y)
      <3>1. CASE C(i - 1)
        <4>1. Parted(u, v)
          BY <2>3, <3>1
        <4>2. Parted(Cat(u, x), Cat(v, y))
          BY <2>1, <2>5, <4>1, PartedGoesOn
        <4> QED BY <2>4, <3>1, <4>2
      <3>2. CASE ~C(i - 1) /\ Carries(d)
        <4>1. u = v /\ Parted(x, y)
          BY <2>2, <2>3, <3>2, DirectiveText
        <4>2. Parted(Cat(u, x), Cat(u, y))
          BY <2>1, <2>5, <4>1, PartedBehind
        <4> QED BY <2>4, <3>2, <4>1, <4>2
      <3>3. CASE ~C(i - 1) /\ ~Carries(d)
        <4>1. u = v /\ x = y
          BY <2>2, <2>3, <3>3, DirectiveText
        <4> QED BY <2>4, <3>3, <4>1
      <3> QED BY <3>1, <3>2, <3>3
    <2>7. IF C(i) THEN Parted(j[i], k[i]) ELSE j[i] = k[i]
      BY <2>1, <2>6
    <2> QED BY <2>1, <2>7 DEF good
  <1> HIDE DEF good
  <1>3. n \in good
    <2>1. \A i \in 1 .. n : i - 1 \in good => i \in good
      BY <1>2
    <2>2. \A i \in 0 .. n : i \in good
      BY <1>1, <2>1, Reaches
    <2> QED BY <2>2
  <1> QED BY <1>3 DEF good, Compared

(* The formats of the calls.                                               *)
LEMMA AskedOfTheApplication ==
  ASSUME NEW d \in Directives
  PROVE  Asked(d)
  <1>1. \/ d[1] = "u" /\ d[2] \in Nat
        \/ d[1] \in {"i", "f"} /\ d[2] \in Int
        \/ d[1] = "s" /\ d[2] \in Seq(STRING)
        \/ d[1] \in {"c", "text"} /\ d[2] \in STRING
        \/ d[1] \in {"%", "?"}
    BY PrintAssumption
  <1> DEFINE S == STRING
  <1>2. S \subseteq Char
    BY DEF Char
  <1> HIDE DEF S
  <1>3. \A x \in Seq(S) : x \in Seq(Char)
    BY <1>2
  <1>4. d[1] = "s" /\ d[2] \in Seq(S) => d[2] \in Seq(Char)
    BY <1>3
  <1>5. d[2] \in S => d[2] \in Char
    BY <1>2
  <1> QED BY <1>1, <1>4, <1>5 DEF Asked, S

LEMMA FormatsAre ==
  ASSUME NEW format \in Formats
  PROVE  /\ format \in Seq(Directives) /\ Len(format) \in Nat /\ DOMAIN format = 1 .. Len(format)
         /\ \A i \in 1 .. Len(format) : Asked(format[i])
  <1>1. PICK n \in 1 .. MaxFormat : format \in [1 .. n -> Directives]
    BY DEF Formats
  <1>2. n \in Nat
    BY <1>1
  <1>3. format \in Seq(Directives) /\ Len(format) = n
    BY <1>1, <1>2
  <1>4. \A i \in 1 .. n : Asked(format[i])
    BY <1>1, AskedOfTheApplication
  <1> QED BY <1>1, <1>2, <1>3, <1>4

Texts(format) == [i \in DOMAIN format |-> Text(format[i])]

LEMMA WantedIs ==
  ASSUME NEW format, NEW n \in Nat, Len(format) = n, DOMAIN format = 1 .. n,
         \A i \in 1 .. n : Asked(format[i])
  PROVE  \E k : Joins(k, Texts(format), n) /\ FlattenSeq(Texts(format)) = k[n]
  <1> DEFINE G == Texts(format)
  <1>1. \A i \in 1 .. n : G[i] \in Seq(Char)
    BY DirectiveText DEF Texts
  <1>2. G \in [1 .. n -> Seq(Char)]
    BY <1>1 DEF Texts
  <1> HIDE DEF G
  <1>3. G \in Seq(Seq(Char)) /\ Len(G) = n
    BY <1>2
  <1>4. PICK k : Joins(k, G, n)
    BY <1>1, JoinsExists
  <1>5. FlattenSeq(G) = k[n]
    BY <1>3, <1>4, FlattenIs
  <1> QED BY <1>4, <1>5 DEF G

LEMMA JoinsShifted ==
  ASSUME NEW n \in Nat, NEW F, NEW j, Joins(j, F, n), NEW G, NEW k, Joins(k, G, n + 1),
         \A i \in 1 .. n : G[i + 1] = F[i]
  PROVE  k[n + 1] = Cat(G[1], j[n])
  <1> DEFINE a == G[1]
             good == {i \in 0 .. n : k[i + 1] = Cat(a, j[i])}
  <1>1. a \in Seq(Char) /\ j[0] = <<>> /\ k[1] = Cat(<<>>, a)
    <2>1. 1 \in 1 .. n + 1 /\ 1 - 1 = 0
      OBVIOUS
    <2>2. k[0] = <<>> /\ k[1] = Cat(k[1 - 1], a) /\ a \in Seq(Char)
      BY <2>1 DEF Joins
    <2> QED BY <2>1, <2>2 DEF Joins
  <1> HIDE DEF a
  <1>2. 0 \in good
    <2>1. Cat(<<>>, a) = a /\ Cat(a, <<>>) = a
      BY <1>1, ConcatEmptySeq DEF Cat
    <2>2. 0 + 1 = 1 /\ 0 \in 0 .. n
      OBVIOUS
    <2> QED BY <1>1, <2>1, <2>2
  <1>3. ASSUME NEW i \in 1 .. n, i - 1 \in good
        PROVE  i \in good
    <2> DEFINE u == j[i - 1]
               x == F[i]
    <2>1. (i - 1) + 1 = i /\ i \in 0 .. n /\ i - 1 \in 0 .. n
      OBVIOUS
    <2>2. u \in Seqs(Char) /\ x \in Seqs(Char) /\ j[i] = Cat(u, x)
      BY <2>1 DEF Joins, Seqs
    <2>3. k[i] = Cat(a, u)
      BY <1>3, <2>1
    <2>4. k[i + 1] = Cat(k[i], x)
      <3>1. i + 1 \in 1 .. n + 1 /\ (i + 1) - 1 = i
        OBVIOUS
      <3>2. k[i + 1] = Cat(k[(i + 1) - 1], G[i + 1])
        BY <3>1 DEF Joins
      <3> QED BY <3>1, <3>2
    <2>5. a \in Seqs(Char)
      BY <1>1 DEF Seqs
    <2> HIDE DEF u, x, good
    <2>6. Cat(Cat(a, u), x) = Cat(a, Cat(u, x))
      BY <2>2, <2>5, Cats
    <2>7. k[i + 1] = Cat(a, j[i])
      BY <2>2, <2>3, <2>4, <2>6, Zenon
    <2> QED BY <2>1, <2>7 DEF good
  <1> HIDE DEF good
  <1>4. n \in good
    <2>1. \A i \in 1 .. n : i - 1 \in good => i \in good
      BY <1>3
    <2>2. \A i \in 0 .. n : i \in good
      BY <1>2, <2>1, Reaches
    <2> QED BY <2>2
  <1> QED BY <1>4 DEF good, a

(* What a call prints of a message that fits: all of it, with the only     *)
(* difference that a carrying float makes.                                 *)
Carried(format) == \E i \in DOMAIN format : Carries(format[i])
Expected(format, l, limit) ==
  IF l = NoLevel THEN FlattenSeq(Texts(format))
  ELSE IF l <= limit THEN <<Levels[l]>> \o FlattenSeq(Texts(format)) ELSE <<>>
Agrees(data, wanted, carries) ==
  Len(data) <= PrintMax /\ (data # wanted <=> data # <<>> /\ carries)

LEMMA ComparedAgrees ==
  ASSUME NEW data, NEW wanted, NEW carries, Len(data) <= PrintMax,
         IF carries THEN Parted(data, wanted) ELSE data = wanted
  PROVE  Agrees(data, wanted, carries)
  <1>1. CASE carries
    <2>1. Parted(data, wanted)
      BY <1>1
    <2>2. data # wanted
      BY <2>1, PartedIsDifferent
    <2>3. data # <<>>
      <3>1. PICK i \in 1 .. Len(data) : TRUE
        BY <2>1 DEF Parted
      <3>2. \A k \in 1 .. Len(<<>>) : FALSE
        OBVIOUS
      <3> QED BY <3>1, <3>2
    <2> QED BY <1>1, <2>2, <2>3 DEF Agrees
  <1>2. CASE ~carries
    BY <1>2 DEF Agrees
  <1> QED BY <1>1, <1>2

LEMMA PrintAgrees ==
  ASSUME NEW format \in Formats, NEW b, b = Message(format), ~b.overflow
  PROVE  Agrees(b.data, FlattenSeq(Texts(format)), Carried(format))
  <1> DEFINE n == Len(format)
             F == [i \in 1 .. n |-> Out(format[i])]
             G == Texts(format)
  <1>1. n \in Nat /\ DOMAIN format = 1 .. n /\ \A i \in 1 .. n : Asked(format[i])
    BY FormatsAre
  <1>2. \A i \in 1 .. n : F[i] = Out(format[i]) /\ G[i] = Text(format[i]) /\ F[i] \in Seq(Char)
    BY <1>1, DirectiveText DEF Texts
  <1> HIDE DEF F, G
  <1>3. PICK j : Joins(j, F, n)
    BY <1>1, <1>2, JoinsExists
  <1>4. PICK k : Joins(k, G, n) /\ FlattenSeq(G) = k[n]
    BY <1>1, WantedIs DEF G
  <1>5. FitsIn(b) /\ b.data = j[n]
    BY <1>1, <1>2, <1>3, MessageWritten
  <1> HIDE DEF n
  <1>6. Compared(format, n, j[n], k[n])
    <2>1. \A i \in 1 .. n : F[i] = Out(format[i])
      BY <1>2
    <2>2. \A i \in 1 .. n : G[i] = Text(format[i])
      BY <1>2
    <2>3. Joins(k, G, n) /\ n \in Nat
      BY <1>1, <1>4
    <2>4. \A i \in 1 .. n : Asked(format[i])
      BY <1>1
    <2> QED BY <1>3, <2>1, <2>2, <2>3, <2>4, MessagesCompare
  <1>7. Agrees(b.data, FlattenSeq(G), \E i \in 1 .. n : Carries(format[i]))
    <2> DEFINE carries == \E i \in 1 .. n : Carries(format[i])
               data == b.data
               wanted == FlattenSeq(G)
    <2>1. Len(data) <= PrintMax /\ IF carries THEN Parted(data, wanted) ELSE data = wanted
      BY <1>4, <1>5, <1>6 DEF FitsIn, Compared
    <2> HIDE DEF carries, data, wanted
    <2>2. Agrees(data, wanted, carries)
      BY <2>1, ComparedAgrees
    <2> QED BY <2>2 DEF carries, data, wanted
  <1> QED BY <1>1, <1>7 DEF G, Carried

LEMMA LogAgrees ==
  ASSUME NEW format \in Formats, NEW l \in DOMAIN Levels,
         NEW b, b = Message(<<Prefix(l)>> \o format), ~b.overflow
  PROVE  Agrees(b.data, <<Levels[l]>> \o FlattenSeq(Texts(format)), Carried(format))
  <1> DEFINE n == Len(format)
             p == Prefix(l)
             name == <<Levels[l]>>
             all == <<p>> \o format
             F == [i \in 1 .. n + 1 |-> Out(all[i])]
             G == [i \in 1 .. n + 1 |-> Text(all[i])]
  <1>1. /\ n \in Nat /\ DOMAIN format = 1 .. n /\ \A i \in 1 .. n : Asked(format[i])
        /\ format \in Seq(Directives)
    BY FormatsAre
  <1>2. Levels[l] \in Char
    BY DEF Levels, Char, Marks
  <1>3. Asked(p) /\ ~Carries(p) /\ Text(p) = name
    BY <1>2 DEF Asked, Carries, Text, Prefix
  <1> HIDE DEF p, name
  <1>4. /\ Len(all) = n + 1 /\ all[1] = p
        /\ \A i \in 1 .. n : all[i + 1] = format[i]
    <2> DEFINE S == Directives \cup {p}
               u == <<p>>
    <2>1. u \in Seq(S) /\ format \in Seq(S) /\ Len(u) = 1 /\ u[1] = p
      BY <1>1
    <2> HIDE DEF S, u
    <2>2. /\ Len(Cat(u, format)) = Len(u) + n
          /\ \A i \in 1 .. Len(u) + n : Cat(u, format)[i] = IF i <= Len(u) THEN u[i] ELSE format[i - Len(u)]
      BY <2>1, CatIs
    <2>3. all = Cat(u, format)
      BY DEF Cat, u
    <2> HIDE DEF all, n
    <2>4. \A i \in 1 .. n : i + 1 \in 1 .. Len(u) + n /\ ~(i + 1 <= Len(u)) /\ (i + 1) - Len(u) = i
      BY <1>1, <2>1
    <2>5. 1 \in 1 .. Len(u) + n /\ 1 <= Len(u)
      BY <1>1, <2>1
    <2>6. \A i \in 1 .. n : all[i + 1] = format[i]
      BY <2>2, <2>3, <2>4
    <2>7. Len(all) = n + 1
      BY <1>1, <2>1, <2>2, <2>3
    <2>8. all[1] = p
      BY <2>1, <2>2, <2>3, <2>5
    <2> QED BY <2>6, <2>7, <2>8
  <1> HIDE DEF all, n
  <1>5. \A i \in 1 .. n + 1 : i = 1 \/ (i - 1 \in 1 .. n /\ i = (i - 1) + 1)
    BY <1>1
  <1>6. \A i \in 1 .. n + 1 : Asked(all[i])
    BY <1>1, <1>3, <1>4, <1>5
  <1>7. (\E i \in 1 .. n + 1 : Carries(all[i])) <=> \E i \in 1 .. n : Carries(format[i])
    <2>1. \A i \in 1 .. n : i + 1 \in 1 .. n + 1
      BY <1>1
    <2> QED BY <1>3, <1>4, <1>5, <2>1
  <1>8. /\ \A i \in 1 .. n + 1 : F[i] = Out(all[i]) /\ G[i] = Text(all[i])
        /\ n + 1 \in Nat /\ 1 \in 1 .. n + 1 /\ \A i \in 1 .. n : i + 1 \in 1 .. n + 1
    BY <1>1
  <1> HIDE DEF F, G
  <1>9. \A i \in 1 .. n + 1 : F[i] \in Seq(Char) /\ G[i] \in Seq(Char)
    BY <1>6, <1>8, DirectiveText
  <1>10. PICK j : Joins(j, F, n + 1)
    BY <1>8, <1>9, JoinsExists
  <1>11. PICK k : Joins(k, G, n + 1)
    BY <1>8, <1>9, JoinsExists
  <1>12. PICK t : Joins(t, Texts(format), n) /\ FlattenSeq(Texts(format)) = t[n]
    BY <1>1, WantedIs DEF n
  <1>13. FitsIn(b) /\ b.data = j[n + 1]
    <2>1. Len(all) = n + 1 /\ b = Message(all)
      BY <1>4 DEF all, p
    <2> QED BY <1>6, <1>8, <1>10, <2>1, MessageWritten
  <1>14. Compared(all, n + 1, j[n + 1], k[n + 1])
    BY <1>6, <1>8, <1>10, <1>11, MessagesCompare
  <1>15. k[n + 1] = name \o FlattenSeq(Texts(format))
    <2>1. \A i \in 1 .. n : G[i + 1] = Texts(format)[i]
      BY <1>1, <1>4, <1>8 DEF Texts
    <2>2. k[n + 1] = Cat(G[1], t[n])
      BY <1>1, <1>11, <1>12, <2>1, JoinsShifted
    <2>3. G[1] = name
      BY <1>3, <1>4, <1>8
    <2> QED BY <1>12, <2>2, <2>3 DEF Cat
  <1> DEFINE carries == \E i \in 1 .. n : Carries(format[i])
             data == b.data
             wanted == name \o FlattenSeq(Texts(format))
  <1>16. Len(data) <= PrintMax /\ IF carries THEN Parted(data, wanted) ELSE data = wanted
    BY <1>7, <1>13, <1>14, <1>15 DEF FitsIn, Compared
  <1> HIDE DEF carries, data, wanted
  <1>17. Agrees(data, wanted, carries)
    BY <1>16, ComparedAgrees
  <1> QED BY <1>1, <1>17 DEF carries, data, wanted, name, Carried

(* A message that is printed whole, whatever the call was.                 *)
LEMMA AgreesIsWhole ==
  ASSUME Agrees(printed', Expected(fmt', level', logLevel'), Carried(fmt')), ~print_failed'
  PROVE  PrintedWhole'
  BY DEF PrintedWhole, Agrees, Texts, Expected, Carried

LEMMA NothingIsWhole ==
  ASSUME printed' = <<>>, \/ print_failed'
                          \/ level' = NoLevel /\ fmt' = <<>>
                          \/ level' # NoLevel /\ ~(level' <= logLevel')
  PROVE  PrintedWhole'
  <1>1. Len(<<>>) = 0 /\ 0 <= PrintMax
    BY PrintAssumption
  <1>2. Len(printed') <= PrintMax
    BY <1>1
  <1>3. CASE print_failed'
    BY <1>2, <1>3 DEF PrintedWhole
  <1>4. CASE level' = NoLevel /\ fmt' = <<>>
    <2>1. FlattenSeq([i \in DOMAIN fmt' |-> Text(fmt'[i])]) = <<>>
      <3> DEFINE G == [i \in DOMAIN fmt' |-> Text(fmt'[i])]
      <3>1. DOMAIN fmt' = {}
        BY <1>4
      <3>2. G = <<>>
        BY <3>1
      <3> HIDE DEF G
      <3>3. FlattenSeq(G) = <<>>
        BY <1>1, <3>2 DEF FlattenSeq
      <3> QED BY <3>3 DEF G
    <2> QED BY <1>2, <1>4, <2>1 DEF PrintedWhole
  <1>5. CASE level' # NoLevel /\ ~(level' <= logLevel')
    BY <1>2, <1>5 DEF PrintedWhole
  <1> QED BY <1>3, <1>4, <1>5

(* emf_print.c, emf_log.c: a print or a log writes the whole text that its *)
(* format asks for, under the level's filter and with its name in front,   *)
(* or fails and writes nothing; only a float whose rounding carries comes  *)
(* out wrong, and then it always does.                                     *)
THEOREM MessagesArePrintedWhole == PrintSpec => []PrintedWhole
  <1>1. PrintInit => PrintedWhole
    <2> SUFFICES ASSUME PrintInit
                 PROVE  PrintedWhole
      OBVIOUS
    <2>1. printed = <<>> /\ level = NoLevel /\ fmt = <<>> /\ ~print_failed
      BY DEF PrintInit
    <2>2. Len(<<>>) = 0 /\ 0 <= PrintMax
      BY PrintAssumption
    <2>3. FlattenSeq([i \in DOMAIN fmt |-> Text(fmt[i])]) = <<>>
      <3> DEFINE G == [i \in DOMAIN fmt |-> Text(fmt[i])]
      <3>1. DOMAIN fmt = {}
        BY <2>1
      <3>2. G = <<>>
        BY <3>1
      <3> HIDE DEF G
      <3>3. FlattenSeq(G) = <<>>
        BY <2>2, <3>2 DEF FlattenSeq
      <3> QED BY <3>3 DEF G
    <2> QED BY <2>1, <2>2, <2>3 DEF PrintedWhole
  <1>2. PrintedWhole /\ [PrintNext]_print_vars => PrintedWhole'
    <2> SUFFICES ASSUME PrintedWhole, [PrintNext]_print_vars
                 PROVE  PrintedWhole'
      OBVIOUS
    <2>1. ASSUME NEW l, LogSetLevel(l)
          PROVE  PrintedWhole'
      <3>1. printed' = <<>> /\ level' = NoLevel /\ fmt' = <<>>
        BY <2>1 DEF LogSetLevel
      <3> QED BY <3>1, NothingIsWhole
    <2>2. ASSUME NEW format \in Formats, PrintCall(format)
          PROVE  PrintedWhole'
      <3>1. Call(NoLevel, format) /\ EmfPrint(format)
        BY <2>2 DEF PrintCall
      <3>2. ~print_failed /\ level' = NoLevel /\ fmt' = format
        BY <3>1 DEF Call
      <3> DEFINE b == Message(format)
      <3>3. \/ ~b.overflow /\ printed' = b.data /\ ~print_failed'
            \/ print_failed' /\ printed' = <<>>
        BY <3>1, <3>2 DEF EmfPrint
      <3>4. CASE ~b.overflow /\ printed' = b.data /\ ~print_failed'
        <4>1. Agrees(b.data, FlattenSeq(Texts(format)), Carried(format))
          BY <3>4, PrintAgrees
        <4>2. Expected(fmt', level', logLevel') = FlattenSeq(Texts(format))
          BY <3>2 DEF Expected
        <4> HIDE DEF b
        <4>3. Agrees(printed', Expected(fmt', level', logLevel'), Carried(fmt')) /\ ~print_failed'
          BY <3>2, <3>4, <4>1, <4>2
        <4> QED BY <4>3, AgreesIsWhole
      <3>5. CASE print_failed' /\ printed' = <<>>
        BY <3>5, NothingIsWhole
      <3> QED BY <3>3, <3>4, <3>5
    <2>3. ASSUME NEW l \in DOMAIN Levels, NEW format \in Formats, Log(l, format)
          PROVE  PrintedWhole'
      <3>1. ~print_failed /\ level' = l /\ fmt' = format /\ logLevel' = logLevel /\ l # NoLevel
        <4>1. l # NoLevel
          BY DEF Levels, NoLevel
        <4> QED BY <2>3, <4>1 DEF Log, Call
      <3> DEFINE b == Message(<<Prefix(l)>> \o format)
      <3>2. \/ ~Enabled(l) /\ printed' = <<>>
            \/ printed' = <<>> /\ print_failed'
            \/ Enabled(l) /\ ~b.overflow /\ printed' = b.data /\ ~print_failed'
        BY <2>3, <3>1 DEF Log, EmfPrint
      <3>3. CASE ~Enabled(l) /\ printed' = <<>>
        <4>1. level' # NoLevel /\ ~(level' <= logLevel')
          BY <3>1, <3>3 DEF Enabled
        <4> QED BY <3>3, <4>1, NothingIsWhole
      <3>4. CASE printed' = <<>> /\ print_failed'
        BY <3>4, NothingIsWhole
      <3>5. CASE Enabled(l) /\ ~b.overflow /\ printed' = b.data /\ ~print_failed'
        <4>1. Agrees(b.data, <<Levels[l]>> \o FlattenSeq(Texts(format)), Carried(format))
          BY <3>5, LogAgrees
        <4>2. Expected(fmt', level', logLevel') = <<Levels[l]>> \o FlattenSeq(Texts(format))
          BY <3>1, <3>5 DEF Expected, Enabled
        <4> HIDE DEF b
        <4>3. Agrees(printed', Expected(fmt', level', logLevel'), Carried(fmt')) /\ ~print_failed'
          BY <3>1, <3>5, <4>1, <4>2
        <4> QED BY <4>3, AgreesIsWhole
      <3> QED BY <3>2, <3>3, <3>4, <3>5
    <2>4. CASE UNCHANGED print_vars
      BY <2>4 DEF PrintedWhole, print_vars
    <2>5. CASE PrintNext
      BY <2>1, <2>2, <2>3, <2>5 DEF PrintNext, LogInit
    <2> QED BY <2>4, <2>5
  <1> QED BY <1>1, <1>2, PTL DEF PrintSpec
=============================================================================
