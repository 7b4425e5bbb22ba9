------------------------ MODULE PosixCores_proofs -------------------------
(***************************************************************************)
(* The POSIX cores: the loop of the cooperative one, and the start of the  *)
(* preemptive one; and the POSIX timers.                                   *)
(***************************************************************************)
EXTENDS CooperativeCore, PosixRun, EpfTimer, EmfBitmask_proofs

(***************************************************************************)
(* For any priorities, any size of the ready set, any queue length and any *)
(* input: the ready set and the queues agree, and with a ready set of one  *)
(* byte the loop takes the active object with the highest priority.        *)
(***************************************************************************)

(* The queues of active objects that are not started are empty, and the    *)
(* loop gets and handles the events of one that is.                        *)
Registered ==
  /\ \A p \in Prio : p \notin registered => pending[p] = 0
  /\ pc \in {"get", "dispatch"} => prio \in registered

(* The inductive invariant.                                                *)
CoreInv == TypeOK /\ ReadyIsPending /\ Registered

LEMMA Bounds ==
  /\ MaskLen \in Nat /\ Prio \subseteq Positions(MaskLen)
  /\ Capacity \in Nat \ {0} /\ MaxSegment \in Nat
  BY CoreAssumption DEF Positions

LEMMA CoreInit == Init => CoreInv
  <1> SUFFICES ASSUME Init PROVE CoreInv
    OBVIOUS
  <1>1. [i \in 0 .. MaskLen - 1 |-> Bit] \in Bytes(MaskLen)
    BY DEF Bytes
  <1>2. /\ ready_set \in Bytes(MaskLen)
        /\ \A p \in 1 .. 8 * MaskLen : ~IsBitSet(ready_set, p)
    BY <1>1, Bounds, ClearAllClears DEF Init, Positions
  <1>3. TypeOK
    <2>1. segments \in 0 .. MaxSegment
      BY Bounds DEF Init
    <2>2. pending \in [Prio -> 0 .. Capacity]
      BY Bounds DEF Init
    <2>3. /\ registered = {} /\ isRunning = FALSE /\ pc = "startup"
          /\ prio = 0 /\ fuzz \in BOOLEAN
      BY DEF Init
    <2> QED BY <1>2, <2>1, <2>2, <2>3 DEF TypeOK
  <1>4. ReadyIsPending /\ Registered
    BY <1>2 DEF Init, ReadyIsPending, Registered, Waiting
  <1> QED BY <1>3, <1>4 DEF CoreInv

-----------------------------------------------------------------------------
(* The steps that change the ready set or a queue.                         *)

(* A post makes its active object, and no other, ready.                    *)
LEMMA NotifyMarks ==
  ASSUME CoreInv, NEW p \in registered, NEW q \in Positions(MaskLen)
  PROVE  /\ Notify(p) \in Bytes(MaskLen)
         /\ q = p \/ IsBitSet(ready_set, q) => IsBitSet(Notify(p), q)
         /\ IsBitSet(Notify(p), q) => q = p \/ IsBitSet(ready_set, q)
  <1>1. /\ ready_set \in Bytes(MaskLen) /\ p \in Positions(MaskLen)
        /\ p \in Prio /\ pending[p] \in Nat
    BY Bounds DEF CoreInv, TypeOK
  <1>2. CASE pending[p] = 0
    BY <1>1, <1>2, Bounds, SetBitSets DEF Notify
  <1>3. CASE pending[p] # 0
    <2>1. p \in Waiting
      BY <1>1, <1>3 DEF Waiting
    <2>2. IsBitSet(ready_set, p)
      BY <1>1, <2>1 DEF CoreInv, ReadyIsPending, Positions
    <2> QED BY <1>1, <1>3, <2>2 DEF Notify
  <1> QED BY <1>2, <1>3

LEMMA PostKeeps ==
  ASSUME CoreInv, NEW p \in Prio, Post(p)
  PROVE  CoreInv'
  <1>1. /\ p \in registered /\ ready_set' = Notify(p)
        /\ pending[p] < Capacity /\ pending' = [pending EXCEPT ![p] = @ + 1]
        /\ UNCHANGED <<registered, isRunning, pc, prio, fuzz, segments>>
    BY DEF Post
  <1>2. /\ pending \in [Prio -> 0 .. Capacity] /\ registered \subseteq Prio
        /\ pending[p] \in Nat /\ Capacity \in Nat
        /\ Prio \subseteq Positions(MaskLen)
    BY Bounds DEF CoreInv, TypeOK
  <1>3. Waiting' = Waiting \cup {p}
    BY <1>1, <1>2 DEF Waiting
  <1>4. TypeOK'
    <2>1. ready_set' \in Bytes(MaskLen)
      <3>1. p \in Positions(MaskLen)
        BY <1>2
      <3> QED BY <1>1, <3>1, NotifyMarks
    <2>2. pending' \in [Prio -> 0 .. Capacity]
      BY <1>1, <1>2
    <2> QED BY <1>1, <2>1, <2>2 DEF CoreInv, TypeOK
  <1>5. ReadyIsPending'
    <2>1. ASSUME NEW q \in 1 .. 8 * MaskLen
          PROVE  IsBitSet(ready_set, q)' <=> q = p \/ IsBitSet(ready_set, q)
      <3>1. IsBitSet(ready_set, q)' <=> IsBitSet(Notify(p), q)
        BY <1>1 DEF IsBitSet
      <3> QED BY <1>1, <3>1, NotifyMarks DEF Positions
    <2> QED BY <1>1, <1>3, <2>1 DEF CoreInv, ReadyIsPending
  <1>6. Registered'
    BY <1>1, <1>2 DEF CoreInv, Registered
  <1> QED BY <1>4, <1>5, <1>6 DEF CoreInv

(* The event of a segment goes to all its subscribers in one step.         *)
LEMMA RunSegmentKeeps ==
  ASSUME CoreInv, NEW S \in SUBSET registered, RunSegment(S)
  PROVE  CoreInv'
  <1>1. /\ pc \in {"startup", "inject"} /\ pc' = "pick" /\ prio' = 0
        /\ \A p \in S : pending[p] < Capacity
        /\ pending' = [p \in Prio |-> pending[p] + (IF p \in S THEN 1 ELSE 0)]
        /\ ready_set' = [i \in DOMAIN ready_set |->
             ready_set[i] \cup UNION {Notify(p)[i] : p \in S}]
        /\ isRunning' = TRUE /\ segments > 0 /\ segments' = segments - 1
        /\ UNCHANGED <<registered, fuzz>>
    BY DEF RunSegment
  <1>2. /\ pending \in [Prio -> 0 .. Capacity] /\ registered \subseteq Prio
        /\ Capacity \in Nat /\ MaskLen \in Nat /\ MaxSegment \in Nat
        /\ Prio \subseteq Positions(MaskLen) /\ S \subseteq Prio
        /\ ready_set \in Bytes(MaskLen) /\ segments \in 0 .. MaxSegment
    BY Bounds DEF CoreInv, TypeOK
  <1>3. Waiting' = Waiting \cup S
    BY <1>1, <1>2 DEF Waiting
  <1>4. \A p \in S : Notify(p) \in Bytes(MaskLen)
    <2>1. ASSUME NEW p \in S PROVE Notify(p) \in Bytes(MaskLen)
      <3>1. p \in registered /\ p \in Positions(MaskLen)
        BY <1>2
      <3> QED BY <3>1, NotifyMarks
    <2> QED BY <2>1
  <1>5. TypeOK'
    <2>1. ready_set' \in Bytes(MaskLen)
      <3>1. ASSUME NEW i \in 0 .. MaskLen - 1
            PROVE  ready_set[i] \cup UNION {Notify(p)[i] : p \in S} \in SUBSET Bit
        <4>1. \A p \in S : Notify(p)[i] \in SUBSET Bit
          BY <1>4 DEF Bytes
        <4>2. ready_set[i] \in SUBSET Bit
          BY <1>2 DEF Bytes
        <4> QED BY <4>1, <4>2
      <3>2. DOMAIN ready_set = 0 .. MaskLen - 1
        BY <1>2 DEF Bytes
      <3> QED BY <1>1, <3>1, <3>2, Zenon DEF Bytes
    <2>2. pending' \in [Prio -> 0 .. Capacity]
      <3>1. ASSUME NEW p \in Prio
            PROVE  pending[p] + (IF p \in S THEN 1 ELSE 0) \in 0 .. Capacity
        BY <1>1, <1>2
      <3> QED BY <1>1, <3>1
    <2>3. segments' \in 0 .. MaxSegment
      BY <1>1, <1>2
    <2> QED BY <1>1, <2>1, <2>2, <2>3 DEF CoreInv, TypeOK
  <1>6. ReadyIsPending'
    <2>1. ASSUME NEW q \in 1 .. 8 * MaskLen
          PROVE  IsBitSet(ready_set, q)' <=> q \in S \/ IsBitSet(ready_set, q)
      <3>1. ByteOf(q) \in DOMAIN ready_set
        BY <1>2, PositionIsByteAndBit DEF Positions, Bytes
      <3>2. IsBitSet(ready_set, q)' <=>
              \/ IsBitSet(ready_set, q)
              \/ \E p \in S : IsBitSet(Notify(p), q)
        BY <1>1, <3>1 DEF IsBitSet
      <3>3. ASSUME NEW p \in S
            PROVE  /\ q = p \/ IsBitSet(ready_set, q) => IsBitSet(Notify(p), q)
                   /\ IsBitSet(Notify(p), q) => q = p \/ IsBitSet(ready_set, q)
        BY NotifyMarks DEF Positions
      <3> QED BY <3>2, <3>3
    <2> QED BY <1>1, <1>3, <2>1 DEF CoreInv, ReadyIsPending
  <1>7. Registered'
    BY <1>1, <1>2 DEF CoreInv, Registered
  <1> QED BY <1>5, <1>6, <1>7 DEF CoreInv

(* The loop works for the active object whose bit it has found: it has an  *)
(* event.                                                                  *)
LEMMA PickFinds ==
  ASSUME CoreInv, Pick
  PROVE  IF pc' = "get" THEN prio' \in Waiting ELSE pc' = "idle" /\ prio' = 0
  <1>1. /\ pc = "pick" /\ prio' = FindMax(ready_set)
        /\ pc' = IF prio' > 0 THEN "get" ELSE "idle"
    BY DEF Pick
  <1>2. ready_set \in Bytes(MaskLen) /\ MaskLen \in Nat
    BY Bounds DEF CoreInv, TypeOK
  <1>3. CASE FindMax(ready_set) = 0
    BY <1>1, <1>3
  <1>4. CASE /\ FindMax(ready_set) \in Positions(MaskLen)
             /\ IsBitSet(ready_set, FindMax(ready_set))
    <2>1. FindMax(ready_set) \in Waiting
      BY <1>1, <1>4 DEF CoreInv, ReadyIsPending, Positions
    <2>2. pc' = "get"
      BY <1>1, <1>2, <1>4 DEF Positions
    <2> QED BY <1>1, <2>1, <2>2
  <1> QED BY <1>2, <1>3, <1>4, FindMaxFindsABit

LEMMA PickKeeps ==
  ASSUME CoreInv, Pick
  PROVE  CoreInv'
  <1>1. /\ pc = "pick"
        /\ UNCHANGED <<registered, pending, ready_set, isRunning, fuzz, segments>>
    BY DEF Pick
  <1>2. Waiting' = Waiting /\ Waiting \subseteq registered
    BY <1>1 DEF Waiting
  <1>3. /\ pc' \in {"get", "idle"} /\ prio' \in registered \cup {0}
        /\ pc' = "get" => prio' \in Waiting
    BY <1>2, PickFinds
  <1>4. TypeOK'
    BY <1>1, <1>3 DEF CoreInv, TypeOK
  <1>5. ReadyIsPending'
    BY <1>1, <1>2, <1>3 DEF CoreInv, ReadyIsPending
  <1>6. Registered'
    BY <1>1, <1>2, <1>3 DEF CoreInv, Registered
  <1> QED BY <1>4, <1>5, <1>6 DEF CoreInv

LEMMA GetKeeps ==
  ASSUME CoreInv, Get
  PROVE  CoreInv'
  <1>1. /\ pc = "get" /\ pc' = "dispatch"
        /\ pending' = [pending EXCEPT ![prio] = @ - 1]
        /\ UNCHANGED <<registered, ready_set, isRunning, prio, fuzz, segments>>
    BY DEF Get
  <1>2. /\ prio \in registered /\ pending[prio] > 0
        /\ pending \in [Prio -> 0 .. Capacity] /\ registered \subseteq Prio
        /\ Capacity \in Nat
    BY <1>1, Bounds DEF CoreInv, TypeOK, ReadyIsPending, Waiting
  <1>3. \A p \in Prio \ {prio} : pending'[p] = pending[p]
    BY <1>1, <1>2
  <1>4. TypeOK'
    <2>1. pending' \in [Prio -> 0 .. Capacity]
      BY <1>1, <1>2
    <2> QED BY <1>1, <2>1 DEF CoreInv, TypeOK
  <1>5. ReadyIsPending'
    <2>1. Waiting' \subseteq Waiting /\ Waiting \subseteq Waiting' \cup {prio}
      BY <1>1, <1>2, <1>3 DEF Waiting
    <2> QED BY <1>1, <2>1 DEF CoreInv, ReadyIsPending
  <1>6. Registered'
    BY <1>1, <1>2, <1>3 DEF CoreInv, Registered
  <1> QED BY <1>4, <1>5, <1>6 DEF CoreInv

LEMMA DispatchedKeeps ==
  ASSUME CoreInv, Dispatched
  PROVE  CoreInv'
  <1>1. /\ pc = "dispatch" /\ pc' = "pick"
        /\ ready_set' = IF pending[prio] = 0 THEN ClearBit(ready_set, prio)
                                             ELSE ready_set
        /\ UNCHANGED <<registered, pending, isRunning, prio, fuzz, segments>>
    BY DEF Dispatched
  <1>2. /\ prio \in registered /\ pending[prio] \in Nat
        /\ prio \in Positions(MaskLen) /\ MaskLen \in Nat
        /\ ready_set \in Bytes(MaskLen)
    BY <1>1, Bounds DEF CoreInv, TypeOK, Registered
  <1>3. prio \in Waiting <=> pending[prio] # 0
    BY <1>2 DEF Waiting
  <1>4. TypeOK'
    <2>1. ready_set' \in Bytes(MaskLen)
      BY <1>1, <1>2, ClearBitClears
    <2> QED BY <1>1, <2>1 DEF CoreInv, TypeOK
  <1>5. ReadyIsPending'
    <2>1. ASSUME NEW q \in 1 .. 8 * MaskLen
          PROVE  IsBitSet(ready_set, q)' <=>
                   IsBitSet(ready_set, q) /\ ~(q = prio /\ prio \notin Waiting)
      <3>1. CASE pending[prio] = 0
        <4>1. IsBitSet(ready_set, q)' <=> IsBitSet(ClearBit(ready_set, prio), q)
          BY <1>1, <3>1 DEF IsBitSet
        <4> QED BY <1>2, <1>3, <3>1, <4>1, ClearBitClears DEF Positions
      <3>2. CASE pending[prio] # 0
        BY <1>1, <1>3, <3>2 DEF IsBitSet
      <3> QED BY <3>1, <3>2
    <2>2. Waiting' = Waiting
      BY <1>1 DEF Waiting
    <2> QED BY <1>1, <2>1, <2>2 DEF CoreInv, ReadyIsPending
  <1>6. Registered'
    BY <1>1 DEF CoreInv, Registered
  <1> QED BY <1>4, <1>5, <1>6 DEF CoreInv

-----------------------------------------------------------------------------
(* The steps that change neither.                                          *)
LEMMA StartKeeps ==
  ASSUME CoreInv, NEW p \in Prio, Start(p)
  PROVE  CoreInv'
  <1>1. /\ p \notin registered /\ registered' = registered \cup {p}
        /\ UNCHANGED <<pending, ready_set, isRunning, pc, prio, fuzz, segments>>
    BY DEF Start
  <1>2. Waiting' = Waiting
    BY <1>1 DEF Waiting, CoreInv, Registered
  <1>3. TypeOK'
    BY <1>1 DEF CoreInv, TypeOK
  <1>4. ReadyIsPending'
    BY <1>1, <1>2 DEF CoreInv, ReadyIsPending
  <1>5. Registered'
    BY <1>1 DEF CoreInv, Registered
  <1> QED BY <1>3, <1>4, <1>5 DEF CoreInv

(* The rest of the loop only moves on, away from its get and its dispatch. *)
MovesOn ==
  /\ UNCHANGED <<registered, pending, ready_set, fuzz, segments>>
  /\ isRunning' \in BOOLEAN
  /\ \/ /\ pc \notin {"get", "dispatch"}
        /\ pc' \in {"startup", "inject", "pick", "idle", "returned"}
        /\ prio' \in {prio, 0}
     \/ UNCHANGED <<pc, prio>>

LEMMA MovesOnKeeps ==
  ASSUME CoreInv, MovesOn
  PROVE  CoreInv'
  <1>1. Waiting' = Waiting
    BY DEF MovesOn, Waiting
  <1>2. TypeOK'
    BY DEF CoreInv, TypeOK, MovesOn
  <1>3. ReadyIsPending'
    BY <1>1 DEF CoreInv, ReadyIsPending, MovesOn
  <1>4. Registered'
    BY DEF CoreInv, Registered, MovesOn
  <1> QED BY <1>2, <1>3, <1>4 DEF CoreInv

LEMMA CoreStep == CoreInv /\ [Next]_vars => CoreInv'
  <1> SUFFICES ASSUME CoreInv, [Next]_vars PROVE CoreInv'
    OBVIOUS
  <1>0. isRunning \in BOOLEAN
    BY DEF CoreInv, TypeOK
  <1>1. CASE Run \/ Leave \/ EndOfInput \/ IdleDone \/ Stop \/ UNCHANGED vars
    <2>1. MovesOn
      BY <1>0, <1>1 DEF Run, Leave, EndOfInput, IdleDone, Stop, vars, MovesOn
    <2> QED BY <2>1, MovesOnKeeps
  <1>2. CASE Pick
    BY <1>2, PickKeeps
  <1>3. CASE Get
    BY <1>3, GetKeeps
  <1>4. CASE Dispatched
    BY <1>4, DispatchedKeeps
  <1>5. ASSUME NEW S \in SUBSET registered, RunSegment(S) PROVE CoreInv'
    BY <1>5, RunSegmentKeeps
  <1>6. ASSUME NEW p \in Prio, Start(p) PROVE CoreInv'
    BY <1>6, StartKeeps
  <1>7. ASSUME NEW p \in Prio, Post(p) PROVE CoreInv'
    BY <1>7, PostKeeps
  <1> QED BY <1>1, <1>2, <1>3, <1>4, <1>5, <1>6, <1>7 DEF Next, Main

LEMMA CoreInvariant == Spec => []CoreInv
  BY CoreInit, CoreStep, PTL DEF Spec

-----------------------------------------------------------------------------
(* Every variable of the two cores keeps its type: the counts of the       *)
(* queues stay within their capacity, and the ready set keeps its length.  *)
THEOREM CoreTypeOK == Spec => []TypeOK
  <1>1. CoreInv => TypeOK
    BY DEF CoreInv
  <1> QED BY <1>1, CoreInvariant, PTL

(* No event is forgotten and EDF_activeObject_get always finds one: the    *)
(* ready set of EDF_run and the queues agree, however the posts of the     *)
(* other threads interleave with the loop, and for a ready set of any      *)
(* number of bytes.                                                        *)
THEOREM CoreReadyIsPending == Spec => []ReadyIsPending
  <1>1. CoreInv => ReadyIsPending
    BY DEF CoreInv
  <1> QED BY <1>1, CoreInvariant, PTL

(* With at most eight active objects the ready set is one byte, and then   *)
(* findMax, and so the loop of EDF_run, takes the highest priority that    *)
(* waits.                                                                  *)
THEOREM CoreHighestFirst ==
  ASSUME MaskLen = 1
  PROVE  Spec => HighestFirst
  <1>1. ASSUME CoreInv, [Next]_vars,
               pc = "pick", isRunning, pc' # "pick"
        PROVE  IF Waiting = {} THEN pc' = "idle" ELSE prio' = Max(Waiting)
    <2>1. Pick
      BY <1>1 DEF Next, Main, Run, Pick, Leave, Get, Dispatched, IdleDone,
                  EndOfInput, RunSegment, Start, Post, Stop, vars
    <2>2. /\ prio' = FindMax(ready_set)
          /\ pc' = IF prio' > 0 THEN "get" ELSE "idle"
          /\ ready_set \in Bytes(1) /\ registered \subseteq Positions(1)
      BY <1>1, <2>1, MaskLen = 1, Bounds DEF Pick, CoreInv, TypeOK
    <2>3. CASE Waiting = {}
      BY <1>1, <2>1, <2>3, PickFinds
    <2>4. CASE Waiting # {}
      <3>1. ASSUME NEW q \in Waiting
            PROVE  q \in Nat /\ q \in Positions(1) /\ q <= FindMax(ready_set)
        <4>1. q \in Positions(1)
          BY <2>2 DEF Waiting
        <4>2. IsBitSet(ready_set, q)
          BY <1>1, <4>1, MaskLen = 1 DEF CoreInv, ReadyIsPending, Positions
        <4> QED BY <2>2, <4>1, <4>2, FindMaxInOneByte DEF Positions
      <3>2. prio' \in Waiting
        <4>1. PICK q \in Waiting : TRUE
          BY <2>4
        <4>2. pc' # "idle" \/ prio' # 0
          BY <2>2, <3>1, <4>1 DEF Positions
        <4> QED BY <1>1, <2>1, <4>2, PickFinds
      <3>3. \A x \in Waiting : (\A y \in Waiting : x >= y) => x = prio'
        BY <2>2, <3>1, <3>2
      <3>4. \A y \in Waiting : prio' >= y
        BY <2>2, <3>1, <3>2
      <3> QED BY <2>4, <3>2, <3>3, <3>4 DEF Max
    <2> QED BY <2>3, <2>4
  <1>2. CoreInv /\ [Next]_vars =>
          [pc = "pick" /\ isRunning /\ pc' # "pick" =>
             IF Waiting = {} THEN pc' = "idle" ELSE prio' = Max(Waiting)]_vars
    BY <1>1
  <1> QED BY <1>2, CoreInvariant, PTL DEF Spec, HighestFirst

-----------------------------------------------------------------------------
(***************************************************************************)
(* Proof that HandlersAfterStartup is an invariant of the preemptive core, *)
(* for any number of active objects.                                       *)
(***************************************************************************)

(* The invariant is inductive once it says that an active object has no    *)
(* thread as long as its start is under way: Create would otherwise start  *)
(* a thread anew, or find one that is past startupMutex.                   *)
StartsOnce == \A a \in AO : starter[a] # NoOne => thread[a] = "none"
StartupInv == HandlersAfterStartup /\ StartsOnce

LEMMA StartupInit == PosixInit => StartupInv
  BY PosixAssumption
  DEF PosixInit, StartupInv, HandlersAfterStartup, PosixTypeOK, StartsOnce

(* The threads of active objects: only Create takes one from "none", and   *)
(* only Enter takes one past startupMutex, when the main thread is too.    *)
LEMMA ThreadPreserves ==
  ASSUME StartupInv, NEW a \in AO, ThreadStep(a)
  PROVE  StartupInv'
<1> USE DEF StartupInv
<1>1. PosixTypeOK'
  BY PosixAssumption DEF HandlersAfterStartup, PosixTypeOK, ThreadStep, Begins,
     Create, Enter, Proceed, Dispatch, HandlerReturns
<1>2. (main \in {"app", "onStartup"} <=> mutex = MainThread)'
  BY PosixAssumption DEF HandlersAfterStartup, PosixTypeOK, ThreadStep, Begins,
     Create, Enter, Proceed, Dispatch, HandlerReturns
<1>3. StartsOnce'
  BY DEF StartsOnce, HandlersAfterStartup, PosixTypeOK, ThreadStep, Begins,
     Create, Enter, Proceed, Dispatch, HandlerReturns
<1>4. ASSUME NEW b \in AO, (thread[b] \in {"entering", "waiting", "handler"})'
      PROVE  (main \notin {"app", "onStartup"} /\ starter[b] = NoOne)'
  <2>1. CASE Create(a)
    BY <1>4, <2>1 DEF Create, HandlersAfterStartup, PosixTypeOK
  <2>2. CASE Enter(a)
    BY <1>4, <2>2, PosixAssumption DEF Enter, HandlersAfterStartup, PosixTypeOK, StartsOnce
  <2>3. CASE Proceed(a) \/ Dispatch(a) \/ HandlerReturns(a)
    BY <1>4, <2>3 DEF Proceed, Dispatch, HandlerReturns, HandlersAfterStartup, PosixTypeOK
  <2> QED BY <2>1, <2>2, <2>3 DEF ThreadStep, Begins
<1> QED BY <1>1, <1>2, <1>3, <1>4 DEF HandlersAfterStartup

(* A start: the new active object has no thread yet.                       *)
LEMMA StartPreserves ==
  ASSUME StartupInv, NEW a \in AO, NEW c \in AO \cup {MainThread}, StartAO(c, a)
  PROVE  StartupInv'
  BY PosixAssumption DEF StartupInv, StartAO, HandlersAfterStartup, PosixTypeOK, StartsOnce

(* EDF_run: it releases the mutex when it leaves EDF_onStartup.            *)
LEMMA MainPreserves ==
  ASSUME StartupInv, MainStep
  PROVE  StartupInv'
<1> USE DEF StartupInv, HandlersAfterStartup, PosixTypeOK, StartsOnce
<1>1. CASE RunCalled
  BY <1>1 DEF RunCalled, Step
<1>2. CASE RunReleases
  BY <1>2, PosixAssumption DEF RunReleases, Step
<1>3. CASE RunBegins \/ RunLeaves
  BY <1>3 DEF RunBegins, RunLeaves, Step
<1>4. CASE RunDestroys
  BY <1>4, PosixAssumption DEF RunDestroys, Step
<1>5. CASE MainReturns
  BY <1>5 DEF MainReturns
<1> QED BY <1>1, <1>2, <1>3, <1>4, <1>5 DEF MainStep

LEMMA StartupStep == StartupInv /\ [PosixNext]_posix_vars => StartupInv'
<1> SUFFICES ASSUME StartupInv, [PosixNext]_posix_vars
             PROVE  StartupInv'
  OBVIOUS
<1>1. CASE MainStep
  BY <1>1, MainPreserves
<1>2. CASE \E a \in AO : ThreadStep(a)
  BY <1>2, ThreadPreserves
<1>3. CASE \E a \in AO : \E c \in AO \cup {MainThread} : StartAO(c, a)
  BY <1>3, StartPreserves
<1>4. CASE PosixStop \/ SigInt \/ SigIntExits \/ Over \/ UNCHANGED posix_vars
  BY <1>4 DEF PosixStop, SigInt, SigIntExits, Over, posix_vars, StartupInv,
     HandlersAfterStartup, PosixTypeOK, StartsOnce
<1> QED BY <1>1, <1>2, <1>3, <1>4 DEF PosixNext

(* No active object handles an event before EDF_run has released           *)
(* startupMutex behind EDF_onStartup and its own initial transition is     *)
(* over (activeObjectThread, EDF_run, EDF_activeObject_start), for any     *)
(* number of active objects, whoever starts them and when.                 *)
THEOREM StartupSafe == PosixSpec => []HandlersAfterStartup
<1>1. StartupInv => HandlersAfterStartup
  BY DEF StartupInv
<1> QED BY <1>1, StartupInit, StartupStep, PTL DEF PosixSpec

(***************************************************************************)
(* The timers of the platform: for any timers, times and periods, however  *)
(* calls, the walks of the ticker thread, EPF_timer_deinit and another     *)
(* EPF_timer_init interleave, walks are exact while the instance exists,   *)
(* and what runs after it is the rest of one walk. The walk itself is that *)
(* of TimeEvent, whose proofs are instantiated here.                       *)
(***************************************************************************)
Time == INSTANCE TimeEvent_proofs WITH NULL <- NoTimer

LEMMA WheelAssumed == Time!TimeAssumption
  BY EpfAssumption DEF Time!TimeAssumption, Time!IsFiniteSet, IsFiniteSet

(* Wheel and Time are instances of the same module.                        *)
LEMMA SameSteps ==
  /\ Wheel!TickEnd <=> Time!TickEnd
  /\ Wheel!TickPost <=> Time!TickPost
  /\ \A t : Wheel!TickRemove(t) <=> Time!TickRemove(t)
  /\ \A t : Wheel!TickExpire(t) <=> Time!TickExpire(t)
  /\ \A t : Wheel!TickCount(t) <=> Time!TickCount(t)
<1> USE DEF Wheel!InLoop, Time!InLoop, Wheel!AtLoop, Time!AtLoop, Wheel!Unlink, Time!Unlink,
            Wheel!Advance, Time!Advance, Wheel!Attached, Time!Attached, Wheel!Current, Time!Current,
            Wheel!NewLeft, Time!NewLeft, Wheel!lists, Time!lists, Wheel!Counted, Time!Counted
<1>1. Wheel!TickEnd <=> Time!TickEnd
  BY DEF Wheel!TickEnd, Time!TickEnd
<1>2. Wheel!TickPost <=> Time!TickPost
  BY DEF Wheel!TickPost, Time!TickPost
<1>3. ASSUME NEW t
      PROVE  /\ Wheel!TickRemove(t) <=> Time!TickRemove(t)
             /\ Wheel!TickCount(t) <=> Time!TickCount(t)
  BY DEF Wheel!TickRemove, Time!TickRemove, Wheel!TickCount, Time!TickCount
<1>4. ASSUME NEW t
      PROVE  Wheel!TickExpire(t) <=> Time!TickExpire(t)
  BY DEF Wheel!TickExpire, Time!TickExpire
<1> QED BY <1>1, <1>2, <1>3, <1>4

LEMMA SameCalls ==
  /\ Wheel!AssertFails <=> Time!AssertFails
  /\ \A t, s, p : Wheel!Arm(t, s, p) <=> Time!Arm(t, s, p)
  /\ \A t : Wheel!Disarm(t) <=> Time!Disarm(t)
  /\ \A t, s : Wheel!Rearm(t, s) <=> Time!Rearm(t, s)
<1> USE DEF Wheel!Call, Time!Call, Wheel!LinkNew, Time!LinkNew, Wheel!lists, Time!lists,
            Wheel!tick, Time!tick, Wheel!ghosts, Time!ghosts
<1>1. Wheel!AssertFails <=> Time!AssertFails
  BY DEF Wheel!AssertFails, Time!AssertFails
<1>2. ASSUME NEW t, NEW s, NEW p
      PROVE  Wheel!Arm(t, s, p) <=> Time!Arm(t, s, p)
  BY <1>1 DEF Wheel!Arm, Time!Arm
<1>3. ASSUME NEW t, NEW s
      PROVE  /\ Wheel!Disarm(t) <=> Time!Disarm(t)
             /\ Wheel!Rearm(t, s) <=> Time!Rearm(t, s)
  BY DEF Wheel!Disarm, Time!Disarm, Wheel!Rearm, Time!Rearm
<1> QED BY <1>1, <1>2, <1>3

LEMMA SameStates ==
  /\ Wheel!Init <=> Time!Init
  /\ Wheel!TypeOK <=> Time!TypeOK
  /\ Wheel!TickExact <=> Time!TickExact
  /\ Wheel!ListsSound <=> Time!ListsSound
  /\ \A x : Wheel!Reached(x) = Time!Reached(x)
<1>1. Wheel!Init <=> Time!Init
  BY DEF Wheel!Init, Time!Init
<1>2. Wheel!TypeOK <=> Time!TypeOK
  BY DEF Wheel!TypeOK, Time!TypeOK
<1>3. Wheel!TickExact <=> Time!TickExact
  BY DEF Wheel!TickExact, Time!TickExact
<1>4. \A x : Wheel!Cardinality(x) = Time!Cardinality(x)
  BY DEF Wheel!Cardinality, Time!Cardinality
<1>5. \A x : Wheel!Reached(x) = Time!Reached(x)
  BY <1>4 DEF Wheel!Reached, Time!Reached
<1>6. Wheel!ListsSound <=> Time!ListsSound
  BY <1>2, <1>4, <1>5 DEF Wheel!ListsSound, Time!ListsSound, Wheel!Armed, Time!Armed,
     Wheel!NewlyArmed, Time!NewlyArmed
<1> QED BY <1>1, <1>2, <1>3, <1>5, <1>6

(* Nobody calls the timers of an instance that is gone; there is none      *)
(* before its thread. The two threads of an instance that was initialised  *)
(* under its ticker are the end.                                           *)
EpfControl ==
  /\ ticker \in {"none", "testing", "ticking", "returned", "two"}
  /\ ticker_tid \in BOOLEAN /\ stop_ticker \in BOOLEAN
  /\ deinit \in {"no", "called", "returned"}
  /\ ticker_tid => ticker # "none" /\ (ticker = "two" \/ deinit = "no")
  /\ ticker = "none" => deinit = "no"

(* The lists are sound until EPF_timer_deinit takes them away; from then   *)
(* on there is the rest of one walk.                                       *)
Abandoned ==
  /\ Time!RestOfWalk(link, new_head, te_link, te, rest)
  /\ walk = "post" => te \in rest

EpfInv ==
  /\ EpfControl /\ rest \subseteq TE /\ Time!TypeOK
  /\ deinit # "returned" => Time!TimeInv
  /\ deinit = "returned" => Abandoned

LEMMA EpfInitially == EpfInit => EpfInv
<1> SUFFICES ASSUME EpfInit PROVE EpfInv
  OBVIOUS
<1>1. Time!TimeInv
  BY SameStates, WheelAssumed, Time!InitTime DEF EpfInit
<1>2. Time!TypeOK
  BY <1>1 DEF Time!TimeInv
<1>4. EpfControl
  BY Zenon DEF EpfInit, EpfControl
<1>5. rest \subseteq TE /\ deinit # "returned"
  BY DEF EpfInit
<1> QED BY <1>1, <1>2, <1>4, <1>5 DEF EpfInv

(* Steps that leave the timers alone, but for a failed assertion.          *)
LEMMA TimersAlone ==
  ASSUME EpfInv, UNCHANGED timer_vars \/ Time!AssertFails, rest' = rest, EpfControl',
         deinit' = "returned" <=> deinit = "returned"
  PROVE  EpfInv'
<1>1. UNCHANGED <<link, new_head, is_linked, cnt, period, calls, walk_vars>>
  BY DEF timer_vars, Time!AssertFails, Time!lists, Time!tick, Time!ghosts, walk_vars
<1>2. failed' \in BOOLEAN
  BY DEF timer_vars, Time!AssertFails, EpfInv, Time!TypeOK
<1>3. Time!TypeOK'
  BY <1>1, <1>2 DEF EpfInv, Time!TypeOK, walk_vars
<1>4. Time!TimeInv => Time!TimeInv'
  <2>1. CASE UNCHANGED timer_vars
    <3>1. UNCHANGED Time!vars
      BY <2>1 DEF timer_vars, walk_vars, Time!vars, Time!lists, Time!tick, Time!ghosts
    <3> QED BY <3>1, WheelAssumed, Time!StutterKeeps
  <2>2. CASE Time!AssertFails
    BY <2>2, WheelAssumed, Time!FailKeeps
  <2> QED BY <2>1, <2>2
<1>5. Abandoned => Abandoned'
  BY <1>1 DEF Abandoned, walk_vars
<1> QED BY <1>3, <1>4, <1>5 DEF EpfInv

(* A call for a timer of the instance is one of TimeEvent.                 *)
LEMMA CallOfClient ==
  ASSUME EpfInv, Time!Client, ticker_tid, ticker # "two", UNCHANGED <<instance, rest>>
  PROVE  EpfInv'
<1>1. Time!TimeInv /\ deinit = "no"
  BY DEF EpfInv, EpfControl
<1>2. Time!TimeInv'
  BY <1>1, WheelAssumed, Time!NextTime DEF Time!Next
<1>3. Time!TypeOK'
  BY <1>2 DEF Time!TimeInv
<1>4. EpfControl'
  BY DEF EpfInv, EpfControl, instance
<1> QED BY <1>1, <1>2, <1>3, <1>4 DEF EpfInv, instance

LEMMA ClientPreserves ==
  ASSUME EpfInv, EpfClient
  PROVE  EpfInv'
<1>1. PICK t \in TE :
        \/ \E start \in Times, per \in Periods : TimerArm(t, start, per)
        \/ TimerDisarm(t)
        \/ \E time \in Times : TimerRearm(t, time)
  BY DEF EpfClient
<1>2. ticker # "two" /\ UNCHANGED <<instance, rest>>
  BY <1>1 DEF TimerArm, TimerDisarm, TimerRearm, TimerCall
<1>3. (ticker_tid /\ Time!Client) \/ Time!AssertFails
  <2>1. ASSUME NEW start \in Times, NEW per \in Periods, TimerArm(t, start, per)
        PROVE  (ticker_tid /\ Time!Client) \/ Time!AssertFails
    <3>1. NsToTicks(start) \in 1 .. MaxTick /\ NsToTicks(per) \in Period
      BY EpfAssumption
    <3> HIDE DEF NsToTicks
    <3>2. (ticker_tid /\ Time!Arm(t, NsToTicks(start), NsToTicks(per))) \/ Time!AssertFails
      BY <2>1, SameCalls DEF TimerArm, TimerCall
    <3> QED BY <3>1, <3>2 DEF Time!Client
  <2>2. ASSUME TimerDisarm(t)
        PROVE  (ticker_tid /\ Time!Client) \/ Time!AssertFails
    BY <2>2, SameCalls DEF TimerDisarm, TimerCall, Time!Client
  <2>3. ASSUME NEW time \in Times, TimerRearm(t, time)
        PROVE  (ticker_tid /\ Time!Client) \/ Time!AssertFails
    <3>1. NsToTicks(time) \in 1 .. MaxTick
      BY EpfAssumption
    <3>2. (ticker_tid /\ Time!Rearm(t, NsToTicks(time))) \/ Time!AssertFails
      BY <2>3, SameCalls DEF TimerRearm, TimerCall
    <3> QED BY <3>1, <3>2 DEF Time!Client
  <2> QED BY <1>1, <2>1, <2>2, <2>3
<1>4. CASE ticker_tid /\ Time!Client
  BY <1>2, <1>4, CallOfClient
<1>5. CASE Time!AssertFails
  <2>1. EpfControl' /\ deinit' = deinit
    BY <1>2 DEF EpfInv, EpfControl, instance
  <2> QED BY <1>2, <1>5, <2>1, TimersAlone
<1> QED BY <1>3, <1>4, <1>5

(* EPF_timer_deinit takes the lists away, whatever the walk is at.         *)
LEMMA ClearPreserves ==
  ASSUME EpfInv, DeinitClear
  PROVE  EpfInv'
<1>1. /\ deinit = "called" /\ deinit' = "returned"
      /\ UNCHANGED <<is_linked, cnt, period, calls, failed, walk_vars,
                     ticker, ticker_tid, stop_ticker>>
      /\ link' = Time!With(link, Root, NoTimer) /\ new_head' = NoTimer
      /\ rest' = UnderWay \cup ({te} \ {NoTimer})
  BY DEF DeinitClear, Emptied, Time!With
<1>2. Time!TimeInv /\ Time!TypeOK
  BY <1>1 DEF EpfInv
<1>3. UnderWay = IF te_link = Root THEN {} ELSE Time!Reached(link[te_link])
  BY SameStates DEF UnderWay
<1>4. /\ Time!RestOfWalk(Time!With(link, Root, NoTimer), NoTimer, te_link, te, UnderWay \cup ({te} \ {NoTimer}))
      /\ Time!Reached(link[te_link]) \subseteq TE
  BY <1>2, <1>3, WheelAssumed, Time!ClearedRest
<1>5. rest' \subseteq TE
  BY <1>1, <1>2, <1>3, <1>4 DEF Time!TypeOK
<1>6. Time!RestOfWalk(link', new_head', te_link', te', rest')
  BY <1>1, <1>4 DEF walk_vars
<1>7. walk' = "post" => te' \in rest'
  BY <1>1, <1>2 DEF walk_vars, Time!TypeOK
<1>8. Time!TypeOK'
  <2>1. link' \in [TE \cup {Root} -> TE \cup {NoTimer}]
    BY <1>1, <1>2 DEF Time!TypeOK, Time!With
  <2> QED BY <1>1, <1>2, <2>1 DEF Time!TypeOK, walk_vars
<1>9. EpfControl'
  BY <1>1 DEF EpfInv, EpfControl
<1> QED BY <1>1, <1>5, <1>6, <1>7, <1>8, <1>9 DEF EpfInv, Abandoned

(* The ticker thread, with its lists or without them.                      *)
LEMMA TickerPreserves ==
  ASSUME EpfInv, EpfControl', deinit' = deinit,
         \/ /\ Time!TickEnd
            /\ rest' = rest
         \/ /\ Time!TickPost
            /\ rest' = IF deinit = "returned" THEN rest \ {te} ELSE rest
         \/ \E t \in TE : Time!Handles(t) /\ rest' = rest
  PROVE  EpfInv'
<1>1. Time!TickStep
  BY DEF Time!TickStep, Time!Handles
<1>2. Time!TypeOK'
  BY <1>1, WheelAssumed, Time!TickTypes DEF EpfInv
<1>3. Time!TimeInv => Time!TimeInv'
  BY <1>1, WheelAssumed, Time!NextTime DEF Time!Next
<1>5. rest' \subseteq TE
  BY DEF EpfInv
<1>6. ASSUME Abandoned, deinit = "returned"
      PROVE  Abandoned'
  <2>1. Time!TypeOK /\ Time!RestOfWalk(link, new_head, te_link, te, rest)
    BY <1>6 DEF EpfInv, Abandoned
  <2>2. CASE Time!TickEnd /\ rest' = rest
    <3>1. Time!RestOfWalk(link', new_head', te_link', te', rest)
      BY <2>1, <2>2, WheelAssumed, Time!RestEnded
    <3>2. walk' = "idle"
      BY <2>2 DEF Time!TickEnd
    <3> QED BY <2>2, <3>1, <3>2 DEF Abandoned
  <2>3. CASE Time!TickPost /\ rest' = rest \ {te}
    <3>1. Time!RestOfWalk(link', new_head', te_link', te', rest \ {te})
      BY <2>1, <2>3, WheelAssumed, Time!RestPosted
    <3>2. walk' = "step"
      BY <2>3 DEF Time!TickPost
    <3> QED BY <2>3, <3>1, <3>2 DEF Abandoned
  <2>4. ASSUME NEW t \in TE, Time!Handles(t), rest' = rest
        PROVE  Abandoned'
    <3>1. /\ t \in rest /\ te' \in {NoTimer, t}
          /\ Time!RestOfWalk(link', new_head', te_link', te', rest)
      BY <2>1, <2>4, WheelAssumed, Time!RestHandled
    <3>2. walk' = "post" => te' # NoTimer
      BY <1>2 DEF Time!TypeOK
    <3> QED BY <2>4, <3>1, <3>2 DEF Abandoned
  <2> QED BY <1>6, <2>2, <2>3, <2>4
<1> QED BY <1>2, <1>3, <1>5, <1>6 DEF EpfInv

(* Another EPF_timer_init, behind the return of the ticker thread.         *)
LEMMA RenewedInit ==
  ASSUME Renew, Time!TypeOK, ~failed
  PROVE  Time!Init'
<1>1. failed' = FALSE
  BY DEF Renew, Time!TypeOK
<1>2. /\ cnt' = [t \in TE |-> 0]
      /\ period' = cnt' /\ before' = cnt' /\ posts' = cnt' /\ late' = cnt'
  BY DEF Renew
<1> QED BY <1>1, <1>2 DEF Renew, Time!Init

LEMMA InitSound == Time!Init => Time!TimeInv
  BY WheelAssumed, Time!InitTime

LEMMA RenewPreserves ==
  ASSUME EpfInv, Renew, ~failed
  PROVE  EpfInv'
<1>1. Time!TimeInv'
  <2>1. (Time!Init => Time!TimeInv)'
    BY InitSound, PTL
  <2> QED BY <2>1, RenewedInit DEF EpfInv
<1>2. Time!TypeOK'
  BY <1>1 DEF Time!TimeInv
<1>3. EpfControl'
  <2>1. ticker' = "testing" /\ ticker_tid' = TRUE /\ stop_ticker' = FALSE /\ deinit' = "no"
    BY DEF Renew
  <2>2. ticker' # "none"
    BY <2>1
  <2> QED BY <2>1, <2>2, Zenon DEF EpfControl
<1>4. rest' \subseteq TE /\ deinit' # "returned"
  BY DEF Renew
<1> QED BY <1>1, <1>2, <1>3, <1>4 DEF EpfInv

LEMMA EpfStep == EpfInv /\ [EpfNext]_epf_vars => EpfInv'
<1> SUFFICES ASSUME EpfInv, [EpfNext]_epf_vars PROVE EpfInv'
  OBVIOUS
<1>1. CASE TimerInit
  <2>1. CASE Renew
    BY <1>1, <2>1, RenewPreserves DEF TimerInit
  <2>2. CASE InitUnderTicker
    <3>1. UNCHANGED timer_vars /\ rest' = rest /\ deinit' = deinit
      BY <2>2 DEF InitUnderTicker
    <3>2. EpfControl'
      <4>1. ticker' = "two" /\ ticker_tid' = TRUE /\ stop_ticker' = FALSE /\ deinit' = deinit
        BY <2>2 DEF InitUnderTicker
      <4>2. ticker' # "none" /\ deinit \in {"no", "called", "returned"}
        BY <4>1 DEF EpfInv, EpfControl
      <4> QED BY <4>1, <4>2, Zenon DEF EpfControl
    <3> QED BY <3>1, <3>2, TimersAlone
  <2>3. CASE Wheel!AssertFails /\ UNCHANGED <<instance, rest>>
    <3>1. Time!AssertFails /\ rest' = rest /\ deinit' = deinit
      BY <2>3, SameCalls DEF instance
    <3>2. EpfControl'
      BY <2>3 DEF EpfInv, EpfControl, instance
    <3> QED BY <3>1, <3>2, TimersAlone
  <2> QED BY <1>1, <2>1, <2>2, <2>3 DEF TimerInit
<1>2. CASE EpfClient
  BY <1>2, ClientPreserves
<1>3. CASE DeinitStop
  <2>1. /\ UNCHANGED timer_vars /\ rest' = rest
        /\ deinit = "no" /\ deinit' = "called"
    BY <1>3 DEF DeinitStop, EpfInv, EpfControl
  <2>2. EpfControl'
    BY <1>3 DEF DeinitStop, EpfInv, EpfControl
  <2> QED BY <2>1, <2>2, TimersAlone
<1>4. CASE DeinitClear
  BY <1>4, ClearPreserves
<1>5. CASE WalkEnd \/ Callback \/ \E t \in TE : WalkRemove(t) \/ WalkExpire(t) \/ WalkCount(t)
  <2>1. /\ ticker = "ticking" /\ ticker' \in {"testing", "ticking"}
        /\ UNCHANGED <<ticker_tid, stop_ticker, deinit>>
        /\ \/ /\ Time!TickEnd
              /\ rest' = rest
           \/ /\ Time!TickPost
              /\ rest' = IF deinit = "returned" THEN rest \ {te} ELSE rest
           \/ \E t \in TE : Time!Handles(t) /\ rest' = rest
    BY <1>5, SameSteps
    DEF WalkEnd, Callback, WalkRemove, WalkExpire, WalkCount, Walk, Time!Handles
  <2>2. EpfControl' /\ deinit' = deinit
    BY <2>1 DEF EpfInv, EpfControl
  <2> QED BY <2>1, <2>2, TickerPreserves
<1>6. CASE TickerSleeps \/ TickerReturns
  <2>1. /\ UNCHANGED timer_vars /\ rest' = rest
        /\ ticker = "testing" /\ ticker' \in {"ticking", "returned"}
        /\ UNCHANGED <<ticker_tid, stop_ticker, deinit>>
    BY <1>6 DEF TickerSleeps, TickerReturns, TickerLoop
  <2>2. EpfControl'
    BY <2>1 DEF EpfInv, EpfControl
  <2> QED BY <2>1, <2>2, TimersAlone
<1>7. CASE UNCHANGED epf_vars
  <2>1. UNCHANGED timer_vars /\ rest' = rest /\ deinit' = deinit /\ EpfControl'
    BY <1>7 DEF epf_vars, instance, EpfInv, EpfControl
  <2> QED BY <2>1, TimersAlone
<1> QED BY <1>1, <1>2, <1>3, <1>4, <1>5, <1>6, <1>7 DEF EpfNext, Ticker, Ended

LEMMA EpfAlways == EpfSpec => []EpfInv
  BY EpfInitially, EpfStep, PTL DEF EpfSpec

(* EPF_timer_deinit does not wait for its detached thread, but until the   *)
(* instance is initialised again the callbacks that run after it are those *)
(* of the walk under way, each once, also when the thread tested           *)
(* stop_ticker before it was set and begins another walk (ticker_thread,   *)
(* EPF_timer_deinit), for any timers and calls.                            *)
THEOREM LateCallbacksBounded == EpfSpec => []LateCallbacksOfOneWalk
<1>1. EpfInv => LateCallbacksOfOneWalk
  BY DEF EpfInv, Abandoned, LateCallbacksOfOneWalk
<1> QED BY <1>1, EpfAlways, PTL

(* While the instance exists its lists are sound and each walk counts      *)
(* every timer that nobody touches exactly once, and runs exactly the      *)
(* callbacks that are due (ticker_thread, arm, disarm, rearm).             *)
THEOREM WalksAlwaysExact == EpfSpec => []WalksExact
<1>1. EpfInv => WalksExact
  <2> SUFFICES ASSUME EpfInv PROVE WalksExact
    OBVIOUS
  <2>1. EpfTypeOK
    BY SameStates DEF EpfInv, EpfControl, EpfTypeOK
  <2>2. Time!TimeInv => Time!ListsSound /\ Time!TickExact
    BY WheelAssumed, Time!TimeLists DEF Time!TimeInv
  <2> QED BY <2>1, <2>2, SameStates DEF EpfInv, WalksExact
<1> QED BY <1>1, EpfAlways, PTL
=============================================================================
