-------------------------- MODULE Callbacks_proofs --------------------------
(***************************************************************************)
(* Proofs about the components that call back into the program: the        *)
(* hierarchical state machines, which call its state handlers, the fakes,  *)
(* which call its custom fakes, and the test runners, which call its       *)
(* fixtures and test bodies.                                               *)
(***************************************************************************)
EXTENDS Hsm, EffFake, TestRunner, EmfBitmask_proofs, SequenceTheorems, FiniteSetTheorems

(***************************************************************************)
(* The hierarchical state machines, for any states, any hierarchy within   *)
(* MaxDepth and any events. What the recursive functions of the model      *)
(* compute is shown along the chain of superstates: the least place at     *)
(* which two climbs differ would have a predecessor.                       *)
(***************************************************************************)

Node == State \cup {Top}
Supers == [State -> Node]

(* One step up, from the superstates sup.                                  *)
Up(sup, x) == IF x = Top THEN Top ELSE sup[x]

(* f climbs n steps behind place a; f behind a and g behind b agree.       *)
Climbs(sup, f, a, n) == \A k \in 1 .. n : f[a + k + 1] = Up(sup, f[a + k])
Agree(f, a, g, b, n) == \A k \in 0 .. n : f[a + k + 1] = g[b + k + 1]

(* Climbs from equal states stay equal.                                    *)
LEMMA SameClimb ==
  ASSUME NEW sup, NEW f, NEW g, NEW a \in Nat, NEW b \in Nat, NEW n \in Nat,
         Agree(f, a, g, b, 0), Climbs(sup, f, a, n), Climbs(sup, g, b, n)
  PROVE  Agree(f, a, g, b, n)
  <1> USE DEF Climbs, Agree
  <1> DEFINE differ == {k \in 0 .. n : f[a + k + 1] # g[b + k + 1]}
  <1>1. ASSUME differ # {}
        PROVE  FALSE
    <2>1. differ \in SUBSET Nat
      OBVIOUS
    <2>2. PICK k \in differ : \A j \in differ : k <= j
      BY <1>1, <2>1, LeastNatural
    <2>3. k \in 0 .. n /\ f[a + k + 1] # g[b + k + 1]
      BY <2>2
    <2>4. k # 0
      BY <2>3
    <2>5. /\ k - 1 \in 0 .. n /\ ~(k <= k - 1) /\ k \in 1 .. n
          /\ a + (k - 1) + 1 = a + k /\ b + (k - 1) + 1 = b + k
      BY <2>3, <2>4
    <2>6. f[a + (k - 1) + 1] = g[b + (k - 1) + 1]
      BY <2>2, <2>5
    <2>7. f[a + k] = g[b + k]
      BY <2>5, <2>6
    <2> QED BY <2>3, <2>5, <2>7
  <1> QED BY <1>1

(* The function that Chain climbs with.                                    *)
ClimbStep(sup, f, n, s) == IF n = 1 THEN s ELSE IF f[n - 1] = Top THEN Top ELSE sup[f[n - 1]]
Climb(sup, s) == CHOOSE f : f = [n \in 1 .. MaxDepth |-> ClimbStep(sup, f, n, s)]

LEMMA ClimbExists ==
  ASSUME NEW sup \in Supers, NEW s \in Node, NEW n \in Nat
  PROVE  \E f \in [1 .. n -> Node] : \A k \in 1 .. n : f[k] = ClimbStep(sup, f, k, s)
  <1> DEFINE OK(m) == \E f \in [1 .. m -> Node] : \A k \in 1 .. m : f[k] = ClimbStep(sup, f, k, s)
             bad == {m \in Nat : ~OK(m)}
  <1>1. ASSUME bad # {}
        PROVE  FALSE
    <2>1. PICK m \in bad : \A j \in bad : m <= j
      <3>1. bad \in SUBSET Nat
        OBVIOUS
      <3> HIDE DEF bad
      <3> QED BY <1>1, <3>1, LeastNatural
    <2>2. m \in Nat /\ ~OK(m)
      BY <2>1
    <2>3. CASE m = 0
      <3> DEFINE f == [k \in 1 .. 0 |-> s]
      <3>1. f \in [1 .. 0 -> Node] /\ \A k \in 1 .. 0 : f[k] = ClimbStep(sup, f, k, s)
        OBVIOUS
      <3>2. OK(0)
        BY <3>1
      <3> QED BY <2>2, <2>3, <3>2
    <2>4. CASE m # 0
      <3>1. m - 1 \in Nat /\ ~(m <= m - 1)
        BY <2>2, <2>4
      <3>2. OK(m - 1)
        BY <2>1, <3>1
      <3>3. PICK f \in [1 .. m - 1 -> Node] :
              \A k \in 1 .. m - 1 : f[k] = ClimbStep(sup, f, k, s)
        BY <3>2
      <3> DEFINE g == [k \in 1 .. m |-> IF k = m THEN ClimbStep(sup, f, m, s) ELSE f[k]]
      <3>4. \A k \in 1 .. m : k # m => k \in 1 .. m - 1
        BY <2>2
      <3>5. \A k \in 1 .. m : k # 1 => k - 1 \in 1 .. m - 1 /\ k - 1 \in 1 .. m /\ k - 1 # m
        BY <2>2
      <3>6. \A k \in 1 .. m : k # 1 => g[k - 1] = f[k - 1]
        BY <3>5
      <3>7. \A k \in 1 .. m : ClimbStep(sup, g, k, s) = ClimbStep(sup, f, k, s)
        <4> HIDE DEF g
        <4> QED BY <3>6 DEF ClimbStep
      <3>8. \A k \in 1 .. m : g[k] = ClimbStep(sup, f, k, s)
        BY <3>3, <3>4
      <3>9. ClimbStep(sup, f, m, s) \in Node
        <4>1. m # 1 => f[m - 1] \in Node
          <5>1. m \in 1 .. m
            BY <2>2, <2>4
          <5> QED BY <3>3, <3>5, <5>1
        <4> QED BY <4>1 DEF ClimbStep, Supers, Node
      <3>10. g \in [1 .. m -> Node]
        BY <3>3, <3>4, <3>9
      <3>11. OK(m)
        <4> HIDE DEF g
        <4> QED BY <3>7, <3>8, <3>10
      <3> QED BY <2>2, <3>11
    <2> QED BY <2>3, <2>4
  <1>2. OK(n)
    BY <1>1
  <1> QED BY <1>2

LEMMA ClimbIs ==
  ASSUME NEW sup \in Supers, NEW s \in Node
  PROVE  /\ Climb(sup, s) \in [1 .. MaxDepth -> Node] /\ Climb(sup, s)[1] = s
         /\ \A n \in 1 .. MaxDepth - 1 : Climb(sup, s)[n + 1] = Up(sup, Climb(sup, s)[n])
  <1>1. MaxDepth \in Nat /\ MaxDepth >= 3
    BY HsmAssumption
  <1>2. PICK f \in [1 .. MaxDepth -> Node] :
          \A k \in 1 .. MaxDepth : f[k] = ClimbStep(sup, f, k, s)
    BY <1>1, ClimbExists
  <1>3. f = [n \in 1 .. MaxDepth |-> ClimbStep(sup, f, n, s)]
    BY <1>2
  <1> DEFINE c == Climb(sup, s)
  <1>4. c = [n \in 1 .. MaxDepth |-> ClimbStep(sup, c, n, s)]
    BY <1>3 DEF Climb
  <1> HIDE DEF c
  <1>5. ASSUME NEW h, h = [n \in 1 .. MaxDepth |-> ClimbStep(sup, h, n, s)]
        PROVE  h[1] = s /\ \A n \in 1 .. MaxDepth - 1 : h[n + 1] = Up(sup, h[n])
    <2>1. 1 \in 1 .. MaxDepth
      BY <1>1
    <2>2. ASSUME NEW n \in 1 .. MaxDepth - 1
          PROVE  h[n + 1] = Up(sup, h[n])
      <3>1. n + 1 \in 1 .. MaxDepth /\ n + 1 # 1 /\ (n + 1) - 1 = n
        BY <1>1
      <3>2. h[n + 1] = ClimbStep(sup, h, n + 1, s)
        BY <1>5, <3>1
      <3> QED BY <3>1, <3>2 DEF ClimbStep, Up
    <2>3. h[1] = ClimbStep(sup, h, 1, s)
      BY <1>5, <2>1
    <2> QED BY <2>2, <2>3 DEF ClimbStep
  <1>6. Agree(c, 0, f, 0, MaxDepth - 1)
    <2>1. MaxDepth - 1 \in Nat /\ 0 \in Nat
      BY <1>1
    <2>2. c[1] = s /\ f[1] = s
      <3> HIDE DEF ClimbStep
      <3>1. c[1] = s
        BY <1>4, <1>5
      <3>2. f[1] = s
        BY <1>3, <1>5
      <3> QED BY <3>1, <3>2
    <2>3. Agree(c, 0, f, 0, 0)
      BY <2>2 DEF Agree
    <2>4. Climbs(sup, c, 0, MaxDepth - 1) /\ Climbs(sup, f, 0, MaxDepth - 1)
      <3>1. \A n \in 1 .. MaxDepth - 1 : c[n + 1] = Up(sup, c[n])
        BY <1>4, <1>5
      <3>2. \A n \in 1 .. MaxDepth - 1 : f[n + 1] = Up(sup, f[n])
        BY <1>3, <1>5
      <3>3. \A n \in 1 .. MaxDepth - 1 : 0 + n + 1 = n + 1 /\ 0 + n = n
        BY <1>1
      <3> QED BY <3>1, <3>2, <3>3 DEF Climbs
    <2> QED BY <2>1, <2>3, <2>4, SameClimb
  <1>7. \A n \in 1 .. MaxDepth : c[n] = f[n]
    <2>1. \A n \in 1 .. MaxDepth : n - 1 \in 0 .. MaxDepth - 1 /\ 0 + (n - 1) + 1 = n
      BY <1>1
    <2> QED BY <1>6, <2>1 DEF Agree
  <1>8. c \in [1 .. MaxDepth -> Node]
    BY <1>2, <1>4, <1>7
  <1>9. c[1] = s /\ \A n \in 1 .. MaxDepth - 1 : c[n + 1] = Up(sup, c[n])
    BY <1>4, <1>5
  <1> QED BY <1>8, <1>9 DEF c

-----------------------------------------------------------------------------
(* A hierarchy is legal if every state reaches the top. The set of states  *)
(* that Hierarchy collects is what the climb has passed.                   *)
AboveStep(sup, f, n, s) ==
  IF n = 1 THEN {s} ELSE f[n - 1] \cup {sup[m] : m \in f[n - 1] \ {Top}}
Above(sup, s) == CHOOSE f : f = [n \in 1 .. MaxDepth |-> AboveStep(sup, f, n, s)]
Legal(sup) == sup \in Supers /\ \A s \in State : Top \in Above(sup, s)[MaxDepth]

LEMMA HierarchyIsLegal == super \in Supers /\ Hierarchy => Legal(super)
  BY DEF Legal, Hierarchy, Above, AboveStep

LEMMA AboveIs ==
  ASSUME NEW sup \in Supers, NEW s \in Node
  PROVE  Above(sup, s)[MaxDepth] = {Climb(sup, s)[k] : k \in 1 .. MaxDepth}
  <1> DEFINE c == Climb(sup, s)
             g == [n \in 1 .. MaxDepth |-> {c[k] : k \in 1 .. n}]
  <1>1. /\ MaxDepth \in Nat /\ MaxDepth \in 1 .. MaxDepth /\ c[1] = s
        /\ \A n \in 1 .. MaxDepth - 1 : c[n + 1] = Up(sup, c[n])
    BY HsmAssumption, ClimbIs
  <1> HIDE DEF c
  <1>2. ASSUME NEW n \in 1 .. MaxDepth
        PROVE  g[n] = AboveStep(sup, g, n, s)
    <2>1. CASE n = 1
      <3>1. 1 .. 1 = {1}
        OBVIOUS
      <3>2. g[n] = {c[k] : k \in 1 .. 1}
        BY <2>1
      <3>3. g[n] = {s}
        BY <1>1, <3>1, <3>2
      <3> HIDE DEF g
      <3> QED BY <2>1, <3>3 DEF AboveStep
    <2>2. CASE n # 1
      <3>1. n - 1 \in 1 .. MaxDepth - 1 /\ n - 1 \in 1 .. MaxDepth /\ (n - 1) + 1 = n /\ n - 1 \in 1 .. n - 1
        BY <1>1, <2>2
      <3>2. g[n] = {c[k] : k \in 1 .. n} /\ g[n - 1] = {c[k] : k \in 1 .. n - 1}
        BY <3>1
      <3> HIDE DEF g
      <3> DEFINE low == {c[k] : k \in 1 .. n - 1}
                 all == low \cup {sup[m] : m \in low \ {Top}}
      <3>3. ASSUME NEW k \in 1 .. n
            PROVE  c[k] \in all
        <4>1. CASE k = n
          <5>1. c[n] = Up(sup, c[n - 1]) /\ c[n - 1] \in low
            BY <1>1, <3>1
          <5> HIDE DEF low
          <5> QED BY <4>1, <5>1 DEF Up
        <4>2. CASE k # n
          <5>1. k \in 1 .. n - 1
            BY <3>1, <4>2
          <5> QED BY <5>1
        <4> QED BY <4>1, <4>2
      <3>4. ASSUME NEW x \in all
            PROVE  x \in {c[k] : k \in 1 .. n}
        <4>1. CASE x \in low
          <5>1. \A k \in 1 .. n - 1 : k \in 1 .. n
            BY <3>1
          <5> QED BY <4>1, <5>1
        <4>2. CASE x \notin low
          <5>1. PICK m \in low : m # Top /\ x = sup[m]
            BY <4>2
          <5>2. PICK k \in 1 .. n - 1 : m = c[k]
            BY <5>1
          <5>3. k \in 1 .. MaxDepth - 1 /\ k + 1 \in 1 .. n
            BY <1>1, <3>1
          <5>4. x = c[k + 1]
            BY <1>1, <5>1, <5>2, <5>3 DEF Up
          <5> QED BY <5>3, <5>4
        <4> QED BY <4>1, <4>2
      <3>5. {c[k] : k \in 1 .. n} = all
        <4> HIDE DEF all
        <4> QED BY <3>3, <3>4
      <3> QED BY <2>2, <3>2, <3>5 DEF AboveStep
    <2> QED BY <2>1, <2>2
  <1>3. g = [n \in 1 .. MaxDepth |-> AboveStep(sup, g, n, s)]
    BY <1>2
  <1>4. ASSUME NEW f, f = [n \in 1 .. MaxDepth |-> AboveStep(sup, f, n, s)]
        PROVE  f = g
    <2> HIDE DEF g
    <2> DEFINE bad == {k \in 1 .. MaxDepth : f[k] # g[k]}
    <2>1. ASSUME bad # {}
          PROVE  FALSE
      <3>1. bad \in SUBSET Nat
        BY <1>1
      <3>2. PICK k \in bad : \A y \in bad : k <= y
        BY <2>1, <3>1, LeastNatural
      <3>3. k \in 1 .. MaxDepth /\ f[k] # g[k]
        BY <3>2
      <3>4. f[k] = AboveStep(sup, f, k, s) /\ g[k] = AboveStep(sup, g, k, s)
        BY <1>2, <1>4, <3>3
      <3>5. k # 1
        BY <3>3, <3>4 DEF AboveStep
      <3>6. k - 1 \in 1 .. MaxDepth /\ ~(k <= k - 1)
        BY <1>1, <3>3, <3>5
      <3>7. f[k - 1] = g[k - 1]
        BY <3>2, <3>6
      <3>8. AboveStep(sup, f, k, s) = AboveStep(sup, g, k, s)
        BY <3>7 DEF AboveStep
      <3> QED BY <3>3, <3>4, <3>8
    <2>2. \A k \in 1 .. MaxDepth : f[k] = g[k]
      BY <2>1
    <2> QED BY <1>3, <1>4, <2>2
  <1>5. Above(sup, s) = g
    <2> HIDE DEF g
    <2> QED BY <1>3, <1>4 DEF Above
  <1> QED BY <1>1, <1>5 DEF c

-----------------------------------------------------------------------------
(* The chain of a state: itself and its ancestors, up to the top.          *)
IsChain(sup, c, s, d) ==
  /\ d \in 1 .. MaxDepth /\ c \in [1 .. d -> Node] /\ c[1] = s /\ c[d] = Top
  /\ \A i \in 1 .. d - 1 : c[i] \in State /\ c[i + 1] = sup[c[i]]

Ends(sup, s) == {n \in 1 .. MaxDepth : Climb(sup, s)[n] = Top}
ChainOf(sup, s) ==
  [i \in 1 .. IF Ends(sup, s) = {} THEN MaxDepth ELSE Min(Ends(sup, s)) |-> Climb(sup, s)[i]]

LEMMA ChainHere == \A s : Chain(s) = ChainOf(super, s)
  BY DEF Chain, ChainOf, Ends, Climb, ClimbStep

LEMMA ChainOfIs ==
  ASSUME NEW sup, Legal(sup), NEW s \in Node
  PROVE  \E d \in 1 .. MaxDepth : IsChain(sup, ChainOf(sup, s), s, d)
  <1> DEFINE c == Climb(sup, s)
             d == Min(Ends(sup, s))
  <1>1. /\ sup \in Supers /\ MaxDepth \in Nat /\ 1 \in 1 .. MaxDepth
        /\ MaxDepth \in 1 .. MaxDepth /\ Top \notin State
    BY HsmAssumption DEF Legal
  <1>2. /\ c \in [1 .. MaxDepth -> Node] /\ c[1] = s
        /\ \A n \in 1 .. MaxDepth - 1 : c[n + 1] = Up(sup, c[n])
    BY <1>1, ClimbIs
  <1>3. \E n \in 1 .. MaxDepth : c[n] = Top
    <2>1. CASE s = Top
      BY <1>1, <1>2, <2>1
    <2>2. CASE s # Top
      <3>1. Top \in Above(sup, s)[MaxDepth]
        BY <2>2 DEF Legal, Node
      <3>2. Top \in {Climb(sup, s)[k] : k \in 1 .. MaxDepth}
        BY <1>1, <3>1, AboveIs
      <3> QED BY <3>2
    <2> QED BY <2>1, <2>2
  <1> HIDE DEF c
  <1>4. Ends(sup, s) \in SUBSET Nat /\ Ends(sup, s) # {}
    BY <1>1, <1>3 DEF Ends, c
  <1>5. d \in Ends(sup, s) /\ \A n \in Ends(sup, s) : d <= n
    BY <1>4, MinOfNat
  <1>6. ChainOf(sup, s) = [i \in 1 .. d |-> c[i]]
    BY <1>4 DEF ChainOf, c
  <1> HIDE DEF d
  <1>7. d \in 1 .. MaxDepth /\ c[d] = Top
    BY <1>5 DEF Ends, c
  <1>8. ASSUME NEW i \in 1 .. d - 1
        PROVE  c[i] \in State /\ c[i + 1] = sup[c[i]]
    <2>1. i \in 1 .. MaxDepth /\ i \in 1 .. MaxDepth - 1 /\ ~(d <= i)
      BY <1>1, <1>7
    <2>2. c[i] # Top
      BY <1>5, <2>1 DEF Ends, c
    <2> QED BY <1>2, <2>1, <2>2 DEF Up, Node
  <1>9. \A i \in 1 .. d : i \in 1 .. MaxDepth
    BY <1>1, <1>7
  <1>10. \A i \in 1 .. d - 1 : i \in 1 .. d /\ i + 1 \in 1 .. d
    BY <1>7
  <1>11. 1 \in 1 .. d /\ d \in 1 .. d
    BY <1>7
  <1>12. IsChain(sup, [i \in 1 .. d |-> c[i]], s, d)
    BY <1>2, <1>7, <1>8, <1>9, <1>10, <1>11 DEF IsChain
  <1> QED BY <1>6, <1>7, <1>12

LEMMA ChainClimbs ==
  ASSUME NEW sup, NEW c, NEW s, NEW d, IsChain(sup, c, s, d)
  PROVE  \A i \in 1 .. d - 1 : c[i] # Top /\ c[i + 1] = Up(sup, c[i])
  BY HsmAssumption DEF IsChain, Up

LEMMA ChainsAgree ==
  ASSUME NEW sup, NEW s, NEW c, NEW d, IsChain(sup, c, s, d),
         NEW e, NEW m, IsChain(sup, e, s, m), d <= m
  PROVE  d = m /\ c = e
  <1>1. d \in Nat /\ m \in Nat /\ d >= 1 /\ m >= 1 /\ d - 1 \in Nat /\ 0 \in Nat
    BY HsmAssumption DEF IsChain
  <1>2. Agree(c, 0, e, 0, 0)
    BY DEF IsChain, Agree
  <1>3. Climbs(sup, c, 0, d - 1) /\ Climbs(sup, e, 0, d - 1)
    <2>1. \A k \in 1 .. d - 1 : k \in 1 .. m - 1 /\ 0 + k = k /\ 0 + k + 1 = k + 1
      BY <1>1
    <2>2. \A k \in 1 .. d - 1 : c[k + 1] = Up(sup, c[k])
      BY ChainClimbs
    <2>3. \A k \in 1 .. m - 1 : e[k + 1] = Up(sup, e[k])
      BY ChainClimbs
    <2> QED BY <2>1, <2>2, <2>3 DEF Climbs
  <1>4. Agree(c, 0, e, 0, d - 1)
    BY <1>1, <1>2, <1>3, SameClimb
  <1>5. \A k \in 1 .. d : c[k] = e[k]
    <2>1. \A k \in 1 .. d : k - 1 \in 0 .. d - 1 /\ 0 + (k - 1) + 1 = k
      BY <1>1
    <2> QED BY <1>4, <2>1 DEF Agree
  <1>6. c[d] = Top /\ c[d] = e[d]
    BY <1>1, <1>5 DEF IsChain
  <1>7. d \notin 1 .. m - 1
    BY <1>6, ChainClimbs
  <1>8. d = m
    BY <1>1, <1>7
  <1> QED BY <1>5, <1>8 DEF IsChain

LEMMA ChainDistinct ==
  ASSUME NEW sup, NEW s, NEW c, NEW d, IsChain(sup, c, s, d),
         NEW i \in 1 .. d, NEW j \in 1 .. d, i < j
  PROVE  c[i] # c[j]
  <1> SUFFICES ASSUME c[i] = c[j]
               PROVE  FALSE
    OBVIOUS
  <1>1. d \in Nat /\ i - 1 \in Nat /\ j - 1 \in Nat /\ d - j \in Nat
    BY HsmAssumption DEF IsChain
  <1>2. Agree(c, i - 1, c, j - 1, 0)
    <2>1. \A k \in 0 .. 0 : (i - 1) + k + 1 = i /\ (j - 1) + k + 1 = j
      OBVIOUS
    <2> QED BY <2>1 DEF Agree
  <1>3. Climbs(sup, c, i - 1, d - j) /\ Climbs(sup, c, j - 1, d - j)
    <2>1. \A k \in 1 .. d - j : (i - 1) + k \in 1 .. d - 1 /\ (j - 1) + k \in 1 .. d - 1
      BY <1>1
    <2>2. \A k \in 1 .. d - 1 : c[k + 1] = Up(sup, c[k])
      BY ChainClimbs
    <2> QED BY <2>1, <2>2 DEF Climbs
  <1>4. Agree(c, i - 1, c, j - 1, d - j)
    BY <1>1, <1>2, <1>3, SameClimb
  <1>5. /\ d - j \in 0 .. d - j /\ (j - 1) + (d - j) + 1 = d
        /\ (i - 1) + (d - j) + 1 \in 1 .. d - 1
    BY <1>1
  <1>6. c[(i - 1) + (d - j) + 1] = c[d]
    BY <1>4, <1>5 DEF Agree
  <1>7. \A k \in 1 .. d - 1 : c[k] # Top
    BY ChainClimbs
  <1> QED BY <1>5, <1>6, <1>7 DEF IsChain

(* The chain of an ancestor is the rest of the chain.                      *)
LEMMA ChainRest ==
  ASSUME NEW sup, Legal(sup), NEW s \in Node, NEW d, IsChain(sup, ChainOf(sup, s), s, d),
         NEW i \in 1 .. d
  PROVE  ChainOf(sup, ChainOf(sup, s)[i]) = [k \in 1 .. d - i + 1 |-> ChainOf(sup, s)[k + i - 1]]
  <1> DEFINE c == ChainOf(sup, s)
             rest == [k \in 1 .. d - i + 1 |-> c[k + i - 1]]
             m == d - i + 1
  <1>1. /\ MaxDepth \in Nat /\ d \in 1 .. MaxDepth /\ c \in [1 .. d -> Node] /\ c[d] = Top
        /\ \A k \in 1 .. d - 1 : c[k] \in State /\ c[k + 1] = sup[c[k]]
    BY HsmAssumption DEF IsChain
  <1> HIDE DEF c
  <1>2. m \in 1 .. MaxDepth /\ 1 \in 1 .. m /\ m \in 1 .. m /\ 1 + i - 1 = i /\ m + i - 1 = d
    BY <1>1
  <1>3. \A k \in 1 .. m : k + i - 1 \in 1 .. d
    BY <1>1
  <1>4. \A k \in 1 .. m - 1 : /\ k \in 1 .. m /\ k + 1 \in 1 .. m /\ k + i - 1 \in 1 .. d - 1
                              /\ (k + 1) + i - 1 = (k + i - 1) + 1
    BY <1>1
  <1>5. rest \in [1 .. m -> Node] /\ rest[1] = c[i] /\ rest[m] = Top
    BY <1>1, <1>2, <1>3
  <1>6. \A k \in 1 .. m - 1 : rest[k] \in State /\ rest[k + 1] = sup[rest[k]]
    <2> SUFFICES ASSUME NEW k \in 1 .. m - 1
                 PROVE  rest[k] \in State /\ rest[k + 1] = sup[rest[k]]
      OBVIOUS
    <2>1. rest[k] = c[k + i - 1] /\ rest[k + 1] = c[(k + i - 1) + 1]
      BY <1>4
    <2> QED BY <1>1, <1>4, <2>1
  <1> HIDE DEF rest, m
  <1>7. IsChain(sup, rest, c[i], m)
    BY <1>2, <1>5, <1>6 DEF IsChain
  <1>8. c[i] \in Node
    BY <1>1
  <1>9. PICK n \in 1 .. MaxDepth : IsChain(sup, ChainOf(sup, c[i]), c[i], n)
    BY <1>8, ChainOfIs
  <1>10. n <= m \/ m <= n
    BY <1>1, <1>2
  <1>11. ChainOf(sup, c[i]) = rest
    BY <1>7, <1>9, <1>10, ChainsAgree
  <1> QED BY <1>11 DEF rest, c

-----------------------------------------------------------------------------
(* The lineage of a state: itself and its ancestors below the top.         *)
Lin(sup, s) == Members(ChainOf(sup, s)) \ {Top}

LEMMA LineageHere == \A s : Lineage(s) = Lin(super, s)
  BY ChainHere DEF Lineage, Lin

LEMMA LinAt ==
  ASSUME NEW sup, Legal(sup), NEW s \in Node, NEW d, IsChain(sup, ChainOf(sup, s), s, d),
         NEW i \in 1 .. d
  PROVE  Lin(sup, ChainOf(sup, s)[i]) = {ChainOf(sup, s)[k] : k \in i .. d - 1}
  <1> DEFINE c == ChainOf(sup, s)
             rest == [k \in 1 .. d - i + 1 |-> c[k + i - 1]]
  <1>1. /\ d \in Nat /\ c \in [1 .. d -> Node] /\ c[d] = Top
        /\ \A k \in 1 .. d - 1 : c[k] # Top
    BY HsmAssumption, ChainClimbs DEF IsChain
  <1>2. ChainOf(sup, c[i]) = rest
    BY ChainRest
  <1> HIDE DEF c
  <1>3. Members(rest) = {c[k + i - 1] : k \in 1 .. d - i + 1}
    BY DEF Members
  <1>4. ASSUME NEW k \in 1 .. d - i + 1, c[k + i - 1] # Top
        PROVE  c[k + i - 1] \in {c[n] : n \in i .. d - 1}
    <2>1. k + i - 1 \in i .. d
      BY <1>1
    <2>2. k + i - 1 # d
      BY <1>1, <1>4
    <2>3. k + i - 1 \in i .. d - 1
      BY <1>1, <2>1, <2>2
    <2> QED BY <2>3
  <1>5. ASSUME NEW n \in i .. d - 1
        PROVE  c[n] # Top /\ c[n] \in {c[k + i - 1] : k \in 1 .. d - i + 1}
    <2>1. n \in 1 .. d - 1 /\ n - i + 1 \in 1 .. d - i + 1 /\ (n - i + 1) + i - 1 = n
      BY <1>1
    <2> QED BY <1>1, <2>1
  <1>6. Members(rest) \ {Top} = {c[n] : n \in i .. d - 1}
    BY <1>3, <1>4, <1>5
  <1> HIDE DEF rest
  <1> QED BY <1>2, <1>6 DEF Lin, c

LEMMA LinTop ==
  ASSUME NEW sup, Legal(sup)
  PROVE  Lin(sup, Top) = {}
  <1>1. PICK d \in 1 .. MaxDepth : IsChain(sup, ChainOf(sup, Top), Top, d)
    BY ChainOfIs DEF Node
  <1>2. d \in Nat /\ d >= 1
    BY HsmAssumption
  <1>3. 1 \notin 1 .. d - 1
    BY <1>1, ChainClimbs DEF IsChain
  <1>4. 1 .. d - 1 = {} /\ 1 \in 1 .. d /\ ChainOf(sup, Top)[1] = Top
    BY <1>1, <1>2, <1>3 DEF IsChain
  <1>5. Lin(sup, ChainOf(sup, Top)[1]) = {ChainOf(sup, Top)[k] : k \in 1 .. d - 1}
    BY <1>1, <1>4, LinAt DEF Node
  <1> QED BY <1>4, <1>5

LEMMA LinStep ==
  ASSUME NEW sup, Legal(sup), NEW s \in State
  PROVE  /\ Lin(sup, s) = {s} \cup Lin(sup, sup[s]) /\ s \notin Lin(sup, sup[s])
         /\ sup[s] \in Node /\ Lin(sup, s) \subseteq State
  <1> DEFINE c == ChainOf(sup, s)
  <1>1. PICK d \in 1 .. MaxDepth : IsChain(sup, c, s, d)
    BY ChainOfIs DEF Node
  <1>2. /\ d \in Nat /\ d >= 1 /\ c[1] = s /\ c[d] = Top /\ Top \notin State
        /\ \A i \in 1 .. d - 1 : c[i] \in State /\ c[i + 1] = sup[c[i]]
    BY <1>1, HsmAssumption DEF IsChain
  <1>3. d # 1
    BY <1>2
  <1>4. 1 \in 1 .. d /\ 2 \in 1 .. d /\ 1 \in 1 .. d - 1 /\ c[2] = sup[s]
    BY <1>2, <1>3
  <1>5. Lin(sup, c[1]) = {c[k] : k \in 1 .. d - 1}
    BY <1>1, <1>4, LinAt DEF Node
  <1>6. Lin(sup, c[2]) = {c[k] : k \in 2 .. d - 1}
    BY <1>1, <1>4, LinAt DEF Node
  <1>7. \A j \in 2 .. d - 1 : c[j] # c[1]
    <2>1. \A j \in 2 .. d - 1 : j \in 1 .. d /\ 1 < j
      BY <1>2
    <2> QED BY <1>1, <1>4, <2>1, ChainDistinct
  <1>8. \A k \in 1 .. d - 1 : k = 1 \/ k \in 2 .. d - 1
    BY <1>2
  <1>9. \A k \in 2 .. d - 1 : k \in 1 .. d - 1
    BY <1>2
  <1> HIDE DEF c
  <1>10. {c[k] : k \in 1 .. d - 1} = {c[1]} \cup {c[k] : k \in 2 .. d - 1}
    BY <1>4, <1>8, <1>9
  <1>11. sup[s] \in Node
    BY DEF Legal, Supers
  <1> QED BY <1>2, <1>4, <1>5, <1>6, <1>7, <1>10, <1>11

LEMMA LinWithin ==
  ASSUME NEW sup, Legal(sup), NEW s \in Node, NEW a \in Members(ChainOf(sup, s))
  PROVE  a \in Node /\ Lin(sup, a) \subseteq Lin(sup, s)
  <1> DEFINE c == ChainOf(sup, s)
  <1>1. PICK d \in 1 .. MaxDepth : IsChain(sup, c, s, d)
    BY ChainOfIs
  <1>2. d \in Nat /\ d >= 1 /\ c[1] = s /\ c \in [1 .. d -> Node] /\ 1 \in 1 .. d
    BY <1>1, HsmAssumption DEF IsChain
  <1>3. PICK i \in 1 .. d : a = c[i]
    BY <1>2 DEF Members
  <1>4. Lin(sup, c[1]) = {c[k] : k \in 1 .. d - 1} /\ Lin(sup, c[i]) = {c[k] : k \in i .. d - 1}
    <2>0. 1 \in 1 .. d
      BY <1>2
    <2>a. ASSUME NEW j \in 1 .. d
          PROVE  Lin(sup, c[j]) = {c[k] : k \in j .. d - 1}
      BY <1>1, LinAt
    <2> HIDE DEF c
    <2>1. Lin(sup, c[1]) = {c[k] : k \in 1 .. d - 1}
      BY <2>0, <2>a
    <2>2. Lin(sup, c[i]) = {c[k] : k \in i .. d - 1}
      BY <2>a
    <2> QED BY <2>1, <2>2
  <1>5. \A k \in i .. d - 1 : k \in 1 .. d - 1
    BY <1>2
  <1> HIDE DEF c
  <1>6. {c[k] : k \in i .. d - 1} \subseteq {c[k] : k \in 1 .. d - 1}
    BY <1>5
  <1> QED BY <1>2, <1>3, <1>4, <1>6

LEMMA ChainEnds ==
  ASSUME NEW sup, Legal(sup), NEW s \in Node
  PROVE  s \in Members(ChainOf(sup, s)) /\ Top \in Members(ChainOf(sup, s))
  <1>1. PICK d \in 1 .. MaxDepth : IsChain(sup, ChainOf(sup, s), s, d)
    BY ChainOfIs
  <1>2. 1 \in 1 .. d /\ d \in 1 .. d
    BY HsmAssumption
  <1> QED BY <1>1, <1>2 DEF IsChain, Members

-----------------------------------------------------------------------------
(* A path of states to be exited or entered: each one's superstate is the  *)
(* next one, the last one's is root.                                       *)
PathTo(sup, p, root) ==
  /\ p \in Seq(State) /\ Len(p) < MaxDepth
  /\ \A k \in 1 .. Len(p) : sup[p[k]] = IF k = Len(p) THEN root ELSE p[k + 1]

LEMMA BeforeIs ==
  ASSUME NEW sup, Legal(sup), NEW s \in Node, NEW a \in Members(ChainOf(sup, s))
  PROVE  /\ PathTo(sup, Before(ChainOf(sup, s), a), a)
         /\ s = a <=> Before(ChainOf(sup, s), a) = <<>>
         /\ s # a => Before(ChainOf(sup, s), a)[1] = s
  <1> DEFINE c == ChainOf(sup, s)
             p == Before(c, a)
  <1>1. PICK d \in 1 .. MaxDepth : IsChain(sup, c, s, d)
    BY ChainOfIs
  <1>2. /\ MaxDepth \in Nat /\ d \in Nat /\ d >= 1 /\ d <= MaxDepth /\ c[1] = s
        /\ c \in [1 .. d -> Node] /\ 1 \in 1 .. d /\ c[d] = Top
        /\ \A i \in 1 .. d - 1 : c[i] \in State /\ c[i + 1] = sup[c[i]]
        /\ \A i, j \in 1 .. d : i < j => c[i] # c[j]
    <2>1. \A i, j \in 1 .. d : i < j => c[i] # c[j]
      <3> HIDE DEF c
      <3> QED BY <1>1, ChainDistinct
    <2>2. MaxDepth \in Nat /\ d \in Nat /\ d >= 1 /\ d <= MaxDepth /\ 1 \in 1 .. d
      BY HsmAssumption
    <2>3. /\ c[1] = s /\ c \in [1 .. d -> Node] /\ c[d] = Top
          /\ \A i \in 1 .. d - 1 : c[i] \in State /\ c[i + 1] = sup[c[i]]
      BY <1>1 DEF IsChain
    <2> QED BY <2>1, <2>2, <2>3
  <1>3. PICK i \in 1 .. d : a = c[i]
    BY <1>2 DEF Members
  <1> HIDE DEF c
  <1>4. c \in Seq(Node) /\ Len(c) = d
    BY <1>2
  <1> DEFINE places == {j \in DOMAIN c : c[j] = a} \cup {Len(c) + 1}
  <1>5. places = {i, d + 1}
    <2>1. \A j \in 1 .. d : c[j] = a => j = i
      <3> SUFFICES ASSUME NEW j \in 1 .. d, c[j] = a
                   PROVE  j = i
        OBVIOUS
      <3>1. ~(i < j) /\ ~(j < i)
        BY <1>2, <1>3
      <3> QED BY <1>2, <3>1
    <2> QED BY <1>2, <1>3, <1>4, <2>1
  <1>6. Min(places) = i
    <2>1. places \in SUBSET Nat /\ places # {}
      BY <1>2, <1>5
    <2> HIDE DEF places
    <2>2. Min(places) \in places /\ \A y \in places : Min(places) <= y
      BY <2>1, MinOfNat
    <2>3. Min(places) <= i /\ ~(d + 1 <= i)
      BY <1>2, <1>5, <2>2
    <2> QED BY <1>2, <1>5, <2>2, <2>3
  <1>7. p = SubSeq(c, 1, i - 1)
    BY <1>6 DEF Before
  <1>8. /\ p \in Seq(Node) /\ Len(p) = i - 1 /\ \A k \in 1 .. i - 1 : p[k] = c[k]
    <2>1. 1 \in 1 .. Len(c) + 1 /\ i - 1 \in 1 - 1 .. Len(c)
      BY <1>2, <1>4
    <2>2. /\ SubSeq(c, 1, i - 1) \in Seq(Node)
          /\ Len(SubSeq(c, 1, i - 1)) = IF 1 <= i - 1 THEN (i - 1) - 1 + 1 ELSE 0
          /\ \A k \in 1 .. (i - 1) - 1 + 1 : SubSeq(c, 1, i - 1)[k] = c[1 + k - 1]
      BY <1>4, <2>1, SubSeqProperties
    <2>3. (IF 1 <= i - 1 THEN (i - 1) - 1 + 1 ELSE 0) = i - 1 /\ (i - 1) - 1 + 1 = i - 1
      BY <1>2
    <2>4. \A k \in 1 .. i - 1 : 1 + k - 1 = k
      BY <1>2
    <2> QED BY <1>7, <2>2, <2>3, <2>4
  <1> HIDE DEF p
  <1>9. \A k \in 1 .. i - 1 : k \in 1 .. d - 1 /\ (k = i - 1 => k + 1 = i) /\ (k # i - 1 => k + 1 \in 1 .. i - 1)
    BY <1>2
  <1>10. \A k \in 1 .. i - 1 : p[k] \in State
    BY <1>2, <1>8, <1>9
  <1>11. p \in Seq(State) /\ Len(p) < MaxDepth
    <2>1. p \in [1 .. Len(p) -> State] /\ Len(p) \in Nat
      BY <1>8, <1>10
    <2>2. i - 1 < MaxDepth
      BY <1>2
    <2> QED BY <1>8, <2>1, <2>2
  <1>12. \A k \in 1 .. i - 1 : sup[p[k]] = IF k = i - 1 THEN a ELSE p[k + 1]
    BY <1>2, <1>3, <1>8, <1>9
  <1>13. PathTo(sup, p, a)
    BY <1>8, <1>11, <1>12 DEF PathTo
  <1>14. s = a <=> i = 1
    <2>1. i # 1 => 1 < i
      BY <1>2
    <2> QED BY <1>2, <1>3, <2>1
  <1>15. i = 1 <=> p = <<>>
    BY <1>2, <1>8
  <1>16. i # 1 => p[1] = s
    <2>1. i # 1 => 1 \in 1 .. i - 1
      BY <1>2
    <2> QED BY <1>2, <1>8, <2>1
  <1> QED BY <1>13, <1>14, <1>15, <1>16 DEF p, c

-----------------------------------------------------------------------------
(* The inductive invariant. While a transition is executed, both paths     *)
(* lead to one root; what is active is the lineage of the next state to be *)
(* exited, or of the root once all are; the root is the state at hand once *)
(* all are entered, and otherwise the state at hand is entered last.       *)
OnPaths(sup, root) ==
  /\ PathTo(sup, x_path, root) /\ PathTo(sup, e_path, root)
  /\ active = Lin(sup, IF x_path = <<>> THEN root ELSE x_path[1])
  /\ aux_state = IF e_path = <<>> THEN root ELSE e_path[1]

HsmInv ==
  /\ Legal(super)
  /\ current_state \in Node /\ pc \in {"init", "idle", "leave", "execute"}
  /\ {aux_state, source, target} \subseteq State \cup {NULL} /\ active \subseteq State
  /\ pc # "init" => aux_state \in State /\ target \in State
  /\ pc # "execute" => x_path = <<>> /\ e_path = <<>>
  /\ pc = "init" => active = {}
  /\ pc = "idle" => /\ current_state = aux_state /\ active = Lin(super, aux_state)
                    /\ target \in active
  /\ pc = "leave" => active = Lin(super, aux_state) /\ source \in active
  /\ pc = "execute" => /\ target \in Lin(super, aux_state)
                       /\ \E root \in Node : OnPaths(super, root)

LEMMA EmptyPath ==
  ASSUME NEW sup, NEW root
  PROVE  PathTo(sup, <<>>, root)
  <1>1. <<>> \in Seq(State) /\ Len(<<>>) = 0 /\ 1 .. 0 = {} /\ 0 < MaxDepth
    BY HsmAssumption
  <1> QED BY <1>1 DEF PathTo

LEMMA HsmInit == Init => HsmInv
  <1> SUFFICES ASSUME Init
               PROVE  HsmInv
    OBVIOUS
  <1>1. super \in Supers /\ Hierarchy
    BY DEF Init, Supers, Node
  <1>2. Legal(super)
    BY <1>1, HierarchyIsLegal
  <1> QED BY <1>2 DEF Init, HsmInv, Node

LEMMA StartKeeps ==
  ASSUME HsmInv, NEW t \in State, Start(t)
  PROVE  HsmInv'
  <1>1. /\ pc = "init" /\ target' = t /\ aux_state' = t /\ e_path' = Before(Chain(t), Top)
        /\ pc' = "execute" /\ super' = super /\ current_state' = current_state
        /\ source' = source /\ x_path' = <<>> /\ active' = {} /\ Legal(super)
    BY DEF Start, HsmInv
  <1>2. t \in Node /\ t # Top /\ Top \in Node
    BY HsmAssumption DEF Node
  <1>3. Top \in Members(ChainOf(super, t)) /\ t \in Members(ChainOf(super, t))
    BY <1>1, <1>2, ChainEnds
  <1>4. PathTo(super, e_path', Top) /\ e_path' # <<>> /\ e_path'[1] = t
    BY <1>1, <1>2, <1>3, ChainHere, BeforeIs
  <1>5. PathTo(super, <<>>, Top) /\ Lin(super, Top) = {}
    BY <1>1, EmptyPath, LinTop
  <1>6. OnPaths(super, Top)'
    BY <1>1, <1>4, <1>5 DEF OnPaths
  <1>7. t \in Lin(super, t)
    BY <1>2, <1>3 DEF Lin
  <1>8. \E root \in Node : OnPaths(super, root)'
    BY <1>2, <1>6
  <1> QED BY <1>1, <1>7, <1>8 DEF HsmInv

LEMMA DispatchKeeps ==
  ASSUME HsmInv, NEW s \in State, NEW t \in State, Dispatch(s, t)
  PROVE  HsmInv'
  <1>1. /\ pc = "idle" /\ s \in Members(Chain(current_state)) \ {Top}
        /\ source' = s /\ target' = t /\ aux_state' = current_state /\ pc' = "leave"
        /\ super' = super /\ current_state' = current_state
        /\ x_path' = x_path /\ e_path' = e_path /\ active' = active
    BY DEF Dispatch
  <1>2. current_state = aux_state /\ active = Lin(super, aux_state) /\ aux_state \in State
    BY <1>1 DEF HsmInv
  <1>3. s \in active
    BY <1>1, <1>2, ChainHere DEF Lin
  <1> QED BY <1>1, <1>2, <1>3 DEF HsmInv

LEMMA LeaveKeeps ==
  ASSUME HsmInv, Leave
  PROVE  HsmInv'
  <1>1. /\ pc = "leave" /\ aux_state # source /\ active' = active \ {aux_state}
        /\ aux_state' = super[aux_state] /\ super' = super /\ current_state' = current_state
        /\ pc' = pc /\ source' = source /\ target' = target
        /\ x_path' = x_path /\ e_path' = e_path
    BY DEF Leave, transition
  <1>2. /\ Legal(super) /\ aux_state \in State /\ active = Lin(super, aux_state)
        /\ source \in active /\ active \subseteq State /\ target \in State
    BY <1>1 DEF HsmInv
  <1>3. /\ Lin(super, aux_state) = {aux_state} \cup Lin(super, super[aux_state])
        /\ aux_state \notin Lin(super, super[aux_state]) /\ super[aux_state] \in Node
    BY <1>2, LinStep
  <1>4. active' = Lin(super, super[aux_state]) /\ source \in active'
    BY <1>1, <1>2, <1>3
  <1>5. super[aux_state] # Top
    BY <1>2, <1>4, LinTop
  <1>6. super[aux_state] \in State
    BY <1>3, <1>5 DEF Node
  <1> QED BY <1>1, <1>2, <1>4, <1>6 DEF HsmInv

LEMMA CommonIs ==
  ASSUME Legal(super), NEW s \in State, NEW t \in State
  PROVE  /\ PathFound(s, t)
         /\ Chain(s)[Max(Common(s, t))] \in Members(ChainOf(super, s)) \cap Members(ChainOf(super, t))
  <1> DEFINE c == ChainOf(super, s)
  <1>1. s \in Node /\ t \in Node
    BY DEF Node
  <1>2. PICK d \in 1 .. MaxDepth : IsChain(super, c, s, d)
    BY <1>1, ChainOfIs
  <1>3. d \in Nat /\ d \in 1 .. d /\ c \in [1 .. d -> Node] /\ c[d] = Top
    BY <1>2, HsmAssumption DEF IsChain
  <1>4. Top \in Members(ChainOf(super, t))
    BY <1>1, ChainEnds
  <1>5. Common(s, t) = {i \in 1 .. d : c[i] \in Members(ChainOf(super, t))}
    BY <1>3, ChainHere DEF Common
  <1> HIDE DEF c
  <1>6. Common(s, t) \in SUBSET (0 .. d) /\ Common(s, t) # {}
    BY <1>3, <1>4, <1>5
  <1>7. Max(Common(s, t)) \in Common(s, t)
    BY <1>3, <1>6, MaxOfNat
  <1>8. c[Max(Common(s, t))] \in Members(c)
    BY <1>3, <1>5, <1>7 DEF Members
  <1> QED BY <1>5, <1>6, <1>7, <1>8, ChainHere DEF PathFound, c

(* getTransitionPath gives two paths to one root.                          *)
LEMMA PathsMeet ==
  ASSUME Legal(super), NEW s \in State, NEW t \in State
  PROVE  \E root \in Node :
           /\ PathTo(super, TransitionPath(s, t).x, root)
           /\ PathTo(super, TransitionPath(s, t).e, root)
           /\ s = IF TransitionPath(s, t).x = <<>> THEN root ELSE TransitionPath(s, t).x[1]
           /\ t = IF TransitionPath(s, t).e = <<>> THEN root ELSE TransitionPath(s, t).e[1]
  <1> DEFINE P == TransitionPath(s, t)
  <1>1. s \in Node /\ t \in Node /\ super[s] \in Node /\ MaxDepth >= 3 /\ MaxDepth \in Nat
    BY HsmAssumption, LinStep DEF Node
  <1>2. Chain(s) = ChainOf(super, s) /\ Chain(t) = ChainOf(super, t)
    BY ChainHere
  <1>3. CASE s = t
    <2>1. P.x = <<s>> /\ P.e = <<s>>
      BY <1>3 DEF TransitionPath, SelfTransition
    <2>2. <<s>> \in Seq(State) /\ Len(<<s>>) = 1 /\ <<s>>[1] = s /\ <<s>> # <<>> /\ 1 .. 1 = {1}
      OBVIOUS
    <2>3. PathTo(super, <<s>>, super[s])
      BY <1>1, <2>2 DEF PathTo
    <2> HIDE DEF P
    <2> QED BY <1>1, <1>3, <2>1, <2>2, <2>3 DEF P
  <1>4. CASE s # t /\ s \in Members(Chain(t))
    <2>1. P.x = <<>> /\ P.e = Before(ChainOf(super, t), s)
      BY <1>2, <1>4 DEF TransitionPath, ToDescendant
    <2>2. PathTo(super, P.x, s)
      BY <2>1, EmptyPath
    <2>3. PathTo(super, P.e, s) /\ P.e # <<>> /\ P.e[1] = t
      BY <1>1, <1>2, <1>4, <2>1, BeforeIs
    <2> HIDE DEF P
    <2> QED BY <1>1, <2>1, <2>2, <2>3 DEF P
  <1>5. CASE s # t /\ s \notin Members(Chain(t)) /\ t \in Members(Chain(s))
    <2>1. P.x = Before(ChainOf(super, s), t) /\ P.e = <<>>
      BY <1>2, <1>5 DEF TransitionPath, ToAncestor
    <2>2. PathTo(super, P.e, t)
      BY <2>1, EmptyPath
    <2>3. PathTo(super, P.x, t) /\ P.x # <<>> /\ P.x[1] = s
      BY <1>1, <1>2, <1>5, <2>1, BeforeIs
    <2> HIDE DEF P
    <2> QED BY <1>1, <2>1, <2>2, <2>3 DEF P
  <1>6. CASE s # t /\ s \notin Members(Chain(t)) /\ t \notin Members(Chain(s))
    <2> DEFINE a == Chain(s)[Max(Common(s, t))]
    <2>1. P.x = Before(ChainOf(super, s), a) /\ P.e = Before(ChainOf(super, t), a)
      BY <1>2, <1>6 DEF TransitionPath, BetweenBranches
    <2>2. a \in Members(ChainOf(super, s)) /\ a \in Members(ChainOf(super, t))
      BY CommonIs
    <2> HIDE DEF a
    <2>3. a # s /\ a # t /\ a \in Node
      BY <1>1, <1>2, <1>6, <2>2, LinWithin
    <2>4. PathTo(super, P.x, a) /\ P.x # <<>> /\ P.x[1] = s
      BY <1>1, <2>1, <2>2, <2>3, BeforeIs
    <2>5. PathTo(super, P.e, a) /\ P.e # <<>> /\ P.e[1] = t
      BY <1>1, <2>1, <2>2, <2>3, BeforeIs
    <2> HIDE DEF P
    <2> QED BY <2>3, <2>4, <2>5 DEF P
  <1> QED BY <1>3, <1>4, <1>5, <1>6

LEMMA TakeTransitionKeeps ==
  ASSUME HsmInv, TakeTransition
  PROVE  HsmInv'
  <1>1. /\ Legal(super) /\ pc = "leave" /\ aux_state = source /\ source \in State
        /\ target \in State /\ active = Lin(super, source) /\ active \subseteq State
    BY DEF HsmInv, TakeTransition
  <1> DEFINE P == TransitionPath(source, target)
  <1>2. PathFound(source, target)
    BY <1>1, CommonIs
  <1>3. /\ x_path' = P.x /\ e_path' = P.e /\ aux_state' = target /\ pc' = "execute"
        /\ super' = super /\ current_state' = current_state /\ source' = source
        /\ target' = target /\ active' = active
    BY <1>2 DEF TakeTransition, transition
  <1>4. PICK root \in Node :
           /\ PathTo(super, P.x, root) /\ PathTo(super, P.e, root)
           /\ source = IF P.x = <<>> THEN root ELSE P.x[1]
           /\ target = IF P.e = <<>> THEN root ELSE P.e[1]
    BY <1>1, PathsMeet
  <1> HIDE DEF P
  <1>5. OnPaths(super, root)'
    BY <1>1, <1>3, <1>4 DEF OnPaths
  <1>6. target \in Lin(super, target)
    BY <1>1, LinStep
  <1>7. \E r \in Node : OnPaths(super, r)'
    BY <1>5
  <1> QED BY <1>1, <1>3, <1>6, <1>7 DEF HsmInv

(* The first of a path is exited, or its last one entered.                 *)
LEMMA PathTail ==
  ASSUME NEW sup, NEW p, NEW root, PathTo(sup, p, root), p # <<>>
  PROVE  /\ PathTo(sup, Tail(p), root) /\ p[1] \in State
         /\ sup[p[1]] = IF Tail(p) = <<>> THEN root ELSE Tail(p)[1]
  <1> DEFINE n == Len(p)
  <1>1. /\ p \in Seq(State) /\ n \in Nat /\ n < MaxDepth /\ n # 0 /\ MaxDepth \in Nat
        /\ \A k \in 1 .. n : sup[p[k]] = IF k = n THEN root ELSE p[k + 1]
    BY HsmAssumption DEF PathTo
  <1>2. /\ Tail(p) \in Seq(State) /\ Len(Tail(p)) = n - 1
        /\ \A k \in 1 .. n - 1 : Tail(p)[k] = p[k + 1]
    <2>1. p \in Seq(State) /\ p # <<>>
      BY <1>1
    <2>2. /\ Tail(p) \in Seq(State) /\ Len(Tail(p)) = Len(p) - 1
          /\ \A k \in 1 .. Len(Tail(p)) : Tail(p)[k] = p[k + 1]
      BY <2>1, HeadTailProperties
    <2> QED BY <2>2
  <1>3. 1 \in 1 .. n /\ p[1] \in State
    BY <1>1
  <1> HIDE DEF n
  <1>4. ASSUME NEW k \in 1 .. n - 1
        PROVE  sup[Tail(p)[k]] = IF k = n - 1 THEN root ELSE Tail(p)[k + 1]
    <2>1. k + 1 \in 1 .. n /\ (k + 1 = n <=> k = n - 1) /\ (k # n - 1 => k + 1 \in 1 .. n - 1)
      BY <1>1
    <2> QED BY <1>1, <1>2, <2>1
  <1>5. n - 1 < MaxDepth
    BY <1>1
  <1>6. PathTo(sup, Tail(p), root)
    BY <1>2, <1>4, <1>5 DEF PathTo
  <1>7. Tail(p) = <<>> <=> n = 1
    <2>1. Tail(p) = <<>> <=> Len(Tail(p)) = 0
      BY <1>2, EmptySeq
    <2> QED BY <1>1, <1>2, <2>1
  <1>8. n # 1 => 1 \in 1 .. n - 1
    BY <1>1
  <1> QED BY <1>1, <1>2, <1>3, <1>6, <1>7, <1>8

LEMMA PathFront ==
  ASSUME NEW sup, NEW p, NEW root, PathTo(sup, p, root), p # <<>>
  PROVE  /\ PathTo(sup, Front(p), Last(p)) /\ Last(p) \in State /\ sup[Last(p)] = root
         /\ p[1] = IF Front(p) = <<>> THEN Last(p) ELSE Front(p)[1]
  <1> DEFINE n == Len(p)
  <1>1. /\ p \in Seq(State) /\ n \in Nat /\ n < MaxDepth /\ n # 0 /\ MaxDepth \in Nat
        /\ \A k \in 1 .. n : sup[p[k]] = IF k = n THEN root ELSE p[k + 1]
    BY HsmAssumption DEF PathTo
  <1>2. /\ Front(p) \in Seq(State) /\ Len(Front(p)) = n - 1
        /\ \A k \in 1 .. n - 1 : Front(p)[k] = p[k]
    <2>0. n = Len(p)
      OBVIOUS
    <2>a. /\ n \in Nat /\ n # 0
          => 1 \in 1 .. n + 1 /\ n - 1 \in 1 - 1 .. n
      <3> HIDE DEF n
      <3> QED OBVIOUS
    <2>1. 1 \in 1 .. Len(p) + 1 /\ n - 1 \in 1 - 1 .. Len(p)
      BY <1>1, <2>a, <2>0
    <2>2. /\ SubSeq(p, 1, n - 1) \in Seq(State)
          /\ Len(SubSeq(p, 1, n - 1)) = IF 1 <= n - 1 THEN (n - 1) - 1 + 1 ELSE 0
          /\ \A k \in 1 .. (n - 1) - 1 + 1 : SubSeq(p, 1, n - 1)[k] = p[1 + k - 1]
      BY <1>1, <2>1, SubSeqProperties
    <2>b. n \in Nat /\ n # 0 => /\ (n - 1) - 1 + 1 = n - 1
                                /\ (IF 1 <= n - 1 THEN (n - 1) - 1 + 1 ELSE 0) = n - 1
      <3> HIDE DEF n
      <3> QED OBVIOUS
    <2>3. (IF 1 <= n - 1 THEN (n - 1) - 1 + 1 ELSE 0) = n - 1 /\ (n - 1) - 1 + 1 = n - 1
      BY <1>1, <2>b
    <2>4. \A k \in 1 .. n - 1 : 1 + k - 1 = k
      BY <1>1
    <2> QED BY <2>2, <2>3, <2>4 DEF Front
  <1>3. n \in 1 .. n /\ Last(p) = p[n]
    BY <1>1 DEF Last
  <1> HIDE DEF n
  <1>4. ASSUME NEW k \in 1 .. n - 1
        PROVE  sup[Front(p)[k]] = IF k = n - 1 THEN Last(p) ELSE Front(p)[k + 1]
    <2>1. k \in 1 .. n /\ k # n /\ (k = n - 1 => k + 1 = n) /\ (k # n - 1 => k + 1 \in 1 .. n - 1)
      BY <1>1
    <2> QED BY <1>1, <1>2, <1>3, <2>1
  <1>5. n - 1 < MaxDepth
    BY <1>1
  <1>6. PathTo(sup, Front(p), Last(p))
    BY <1>2, <1>4, <1>5 DEF PathTo
  <1>7. Front(p) = <<>> <=> n = 1
    BY <1>1, <1>2
  <1>8. n # 1 => 1 \in 1 .. n - 1
    BY <1>1
  <1>9. p[1] = IF Front(p) = <<>> THEN Last(p) ELSE Front(p)[1]
    BY <1>2, <1>3, <1>7, <1>8
  <1>10. Last(p) \in State
    <2>1. p \in Seq(State) /\ n \in 1 .. Len(p)
      BY <1>1, <1>3 DEF n
    <2>2. p[n] \in State
      BY <2>1, ElementOfSeq
    <2> QED BY <1>3, <2>2
  <1> QED BY <1>1, <1>3, <1>6, <1>9, <1>10

LEMMA ExitKeeps ==
  ASSUME HsmInv, Exit
  PROVE  HsmInv'
  <1>1. /\ pc = "execute" /\ x_path # <<>> /\ active' = active \ {Head(x_path)}
        /\ x_path' = Tail(x_path) /\ super' = super /\ current_state' = current_state
        /\ pc' = pc /\ aux_state' = aux_state /\ source' = source /\ target' = target
        /\ e_path' = e_path
    BY DEF Exit, transition
  <1>2. PICK root \in Node : OnPaths(super, root)
    BY <1>1 DEF HsmInv
  <1>3. /\ Legal(super) /\ PathTo(super, x_path, root) /\ PathTo(super, e_path, root)
        /\ active = Lin(super, x_path[1])
        /\ aux_state = IF e_path = <<>> THEN root ELSE e_path[1]
    BY <1>1, <1>2 DEF HsmInv, OnPaths
  <1>4. /\ PathTo(super, Tail(x_path), root) /\ x_path[1] \in State
        /\ super[x_path[1]] = IF Tail(x_path) = <<>> THEN root ELSE Tail(x_path)[1]
    BY <1>1, <1>3, PathTail
  <1>5. /\ Lin(super, x_path[1]) = {x_path[1]} \cup Lin(super, super[x_path[1]])
        /\ x_path[1] \notin Lin(super, super[x_path[1]])
    BY <1>3, <1>4, LinStep
  <1>6. active' = Lin(super, super[x_path[1]])
    BY <1>1, <1>3, <1>5
  <1>7. OnPaths(super, root)'
    BY <1>1, <1>3, <1>4, <1>6 DEF OnPaths
  <1>8. \E r \in Node : OnPaths(super, r)'
    BY <1>7
  <1>9. active' \subseteq State
    BY <1>1 DEF HsmInv
  <1> QED BY <1>1, <1>8, <1>9 DEF HsmInv

LEMMA EnterKeeps ==
  ASSUME HsmInv, Enter
  PROVE  HsmInv'
  <1>1. /\ pc = "execute" /\ x_path = <<>> /\ e_path # <<>>
        /\ active' = active \cup {Last(e_path)} /\ e_path' = Front(e_path)
        /\ super' = super /\ current_state' = current_state
        /\ pc' = pc /\ aux_state' = aux_state /\ source' = source /\ target' = target
        /\ x_path' = x_path
    BY DEF Enter, transition
  <1>2. PICK root \in Node : OnPaths(super, root)
    BY <1>1 DEF HsmInv
  <1>3. /\ Legal(super) /\ PathTo(super, e_path, root) /\ active = Lin(super, root)
        /\ active \subseteq State /\ aux_state = e_path[1]
    BY <1>1, <1>2 DEF HsmInv, OnPaths
  <1> DEFINE m == Last(e_path)
  <1>4. /\ PathTo(super, Front(e_path), m) /\ m \in State /\ super[m] = root
        /\ e_path[1] = IF Front(e_path) = <<>> THEN m ELSE Front(e_path)[1]
    BY <1>1, <1>3, PathFront
  <1> HIDE DEF m
  <1>5. Lin(super, m) = {m} \cup Lin(super, root)
    BY <1>3, <1>4, LinStep
  <1>6. active' = Lin(super, m) /\ active' \subseteq State
    BY <1>1, <1>3, <1>4, <1>5 DEF m
  <1>7. PathTo(super, <<>>, m) /\ m \in Node
    BY <1>4, EmptyPath DEF Node
  <1>8. PICK r \in Node : r = m
    BY <1>7
  <1>9. OnPaths(super, r)'
    BY <1>1, <1>3, <1>4, <1>6, <1>7, <1>8 DEF OnPaths
  <1>10. \E q \in Node : OnPaths(super, q)'
    BY <1>9
  <1> QED BY <1>1, <1>6, <1>10 DEF HsmInv

LEMMA InitialTransitionKeeps ==
  ASSUME HsmInv, NEW s \in State, InitialTransition(s)
  PROVE  HsmInv'
  <1>1. /\ pc = "execute" /\ x_path = <<>> /\ e_path = <<>> /\ s # aux_state
        /\ aux_state \in Members(Chain(s)) /\ e_path' = Before(Chain(s), aux_state)
        /\ aux_state' = s /\ super' = super /\ current_state' = current_state
        /\ pc' = pc /\ source' = source /\ target' = target
        /\ x_path' = x_path /\ active' = active
    BY DEF InitialTransition, transition
  <1>2. PICK root \in Node : OnPaths(super, root)
    BY <1>1 DEF HsmInv
  <1>3. /\ Legal(super) /\ active = Lin(super, root) /\ aux_state = root
        /\ target \in Lin(super, aux_state) /\ s \in Node
    BY <1>1, <1>2 DEF HsmInv, OnPaths, Node
  <1>4. aux_state \in Members(ChainOf(super, s))
    BY <1>1, ChainHere
  <1>5. /\ PathTo(super, e_path', root) /\ e_path' # <<>> /\ e_path'[1] = s
    BY <1>1, <1>3, <1>4, ChainHere, BeforeIs
  <1>6. target \in Lin(super, s)
    BY <1>3, <1>4, LinWithin
  <1>7. PathTo(super, <<>>, root)
    BY EmptyPath
  <1>8. OnPaths(super, root)'
    BY <1>1, <1>3, <1>5, <1>7 DEF OnPaths
  <1>9. \E r \in Node : OnPaths(super, r)'
    BY <1>8
  <1> QED BY <1>1, <1>6, <1>9 DEF HsmInv

LEMMA SettleKeeps ==
  ASSUME HsmInv, Settle
  PROVE  HsmInv'
  <1>1. /\ pc = "execute" /\ x_path = <<>> /\ e_path = <<>>
        /\ current_state' = aux_state /\ pc' = "idle"
        /\ super' = super /\ aux_state' = aux_state /\ source' = source /\ target' = target
        /\ x_path' = x_path /\ e_path' = e_path /\ active' = active
    BY DEF Settle, transition
  <1>2. PICK root \in Node : OnPaths(super, root)
    BY <1>1 DEF HsmInv
  <1>3. /\ active = Lin(super, aux_state) /\ target \in Lin(super, aux_state)
        /\ aux_state \in State /\ aux_state \in Node
    BY <1>1, <1>2 DEF HsmInv, OnPaths, Node
  <1> QED BY <1>1, <1>3 DEF HsmInv

LEMMA HsmNext ==
  ASSUME HsmInv, [Next]_vars
  PROVE  HsmInv'
  <1>1. ASSUME NEW t \in State, Start(t)
        PROVE  HsmInv'
    BY <1>1, StartKeeps
  <1>2. ASSUME NEW s \in State, NEW t \in State, Dispatch(s, t)
        PROVE  HsmInv'
    BY <1>2, DispatchKeeps
  <1>3. CASE Leave
    BY <1>3, LeaveKeeps
  <1>4. CASE TakeTransition
    BY <1>4, TakeTransitionKeeps
  <1>5. CASE Exit
    BY <1>5, ExitKeeps
  <1>6. CASE Enter
    BY <1>6, EnterKeeps
  <1>7. CASE Settle
    BY <1>7, SettleKeeps
  <1>8. ASSUME NEW s \in State, InitialTransition(s)
        PROVE  HsmInv'
    BY <1>8, InitialTransitionKeeps
  <1>9. CASE UNCHANGED vars
    BY <1>9 DEF vars, transition, HsmInv, OnPaths
  <1> QED BY <1>1, <1>2, <1>3, <1>4, <1>5, <1>6, <1>7, <1>8, <1>9 DEF Next, Transition

LEMMA HsmInvHolds == Spec => []HsmInv
  BY HsmInit, HsmNext, PTL DEF Spec

(* In every legal hierarchy, of any size and depth, exit actions run from  *)
(* the inside out and entry actions from the outside in, each of them in   *)
(* its place, and exactly the current state and its ancestors are active   *)
(* when an event is done.                                                  *)
THEOREM HandlersAlwaysInOrder == Spec => []HandlersInOrder
  <1>1. HsmInv => HandlersInOrder
    <2> SUFFICES ASSUME HsmInv
                 PROVE  HandlersInOrder
      OBVIOUS
    <2>1. \A s : Lineage(s) = Lin(super, s)
      BY LineageHere
    <2>2. pc = "execute" => \E root \in Node : OnPaths(super, root)
      BY DEF HsmInv
    <2>3. /\ <<>> \in Seq(State) /\ Len(<<>>) < MaxDepth
      BY HsmAssumption
    <2>4. TypeOK
      <3>1. /\ x_path \in Seq(State) /\ Len(x_path) < MaxDepth
            /\ e_path \in Seq(State) /\ Len(e_path) < MaxDepth
        BY <2>2, <2>3 DEF HsmInv, OnPaths, PathTo
      <3> QED BY <3>1 DEF HsmInv, TypeOK, Legal, Supers, Node
    <2>5. /\ pc = "idle" => target \in active
          /\ pc = "idle" => active = Lineage(current_state)
          /\ pc = "leave" => active = Lineage(aux_state)
      BY <2>1 DEF HsmInv
    <2>6. pc = "execute" /\ x_path # <<>> => active = Lineage(Head(x_path))
      BY <2>1, <2>2 DEF OnPaths, PathTo
    <2>7. ASSUME pc = "execute", x_path = <<>>, e_path # <<>>
          PROVE  Last(e_path) \notin active /\ active = Lineage(super[Last(e_path)])
      <3>1. PICK root \in Node : OnPaths(super, root)
        BY <2>2, <2>7
      <3>2. PathTo(super, e_path, root) /\ active = Lin(super, root) /\ Legal(super)
        BY <2>7, <3>1 DEF HsmInv, OnPaths
      <3>3. Last(e_path) \in State /\ super[Last(e_path)] = root
        BY <2>7, <3>2, PathFront
      <3>4. Last(e_path) \notin Lin(super, super[Last(e_path)])
        BY <3>2, <3>3, LinStep
      <3> QED BY <2>1, <3>2, <3>3, <3>4
    <2> QED BY <2>4, <2>5, <2>6, <2>7 DEF HandlersInOrder
  <1> QED BY <1>1, HsmInvHolds, PTL

(* getTransitionPath finds a path between any two states of a legal        *)
(* hierarchy: its assertion t_found never fails.                           *)
THEOREM PathIsAlwaysFound == Spec => []PathAlwaysFound
  <1>1. HsmInv => PathAlwaysFound
    BY DEF HsmInv, PathAlwaysFound
  <1> QED BY <1>1, HsmInvHolds, PTL

(***************************************************************************)
(* The fakes, for any number of them, any lengths of the histories and any *)
(* nesting of calls and resets.                                            *)
(***************************************************************************)

(* What the variables hold. A custom fake is known by what it does.        *)
Args == Seq(Nat \X Nat)
Value == {NoValue, "custom", "r", "r1", "r2"}
Custom == CustomFake \cup {NoValue}
FakeStruct ==
  [call_count : Nat, arg_val : Args, arg_history : Seq(Args), dropped : Nat,
   return_val : Value, return_val_seq : Seq(Value), return_val_idx : Nat,
   return_val_history : [1 .. ArgHistoryLen -> Value],
   custom_fake : Custom, custom_fake_seq : Seq(Custom), custom_fake_idx : Nat]
Call == [args : Args, ret : Value \cup {"none"}, overlaps : BOOLEAN]
Frame ==
  [f : Fake, at : {"entered", "in sequence", "after sequence", "in custom fake"},
   running : Custom, nth : Nat]

FakeTypeOK ==
  /\ kind \in [Fake -> {"void", "value"}] /\ arity \in [Fake -> 0 .. 10] /\ made \in Nat
  /\ fake \in [Fake -> FakeStruct] /\ truth \in [Fake -> Seq(Call)]
  /\ frames \in Seq(Frame) /\ order \in Seq(Fake)

(* What FakeRecordsCalls says of one fake, of kind k.                      *)
Records(s, k, calls) ==
  /\ s.call_count = Len(calls)
  /\ s.arg_history = [i \in DOMAIN UpTo(ArgHistoryLen, calls) |-> calls[i].args]
  /\ s.dropped = Len(calls) - Len(s.arg_history)
  /\ calls # <<>> => s.arg_val = Last(calls).args
  /\ \A i \in DOMAIN s.arg_history :
       k = "value" /\ calls[i].ret # "none" /\ ~calls[i].overlaps =>
         s.return_val_history[i] = calls[i].ret

(* The n-th of the calls is under way, or one from before a reset if n is  *)
(* 0: it has not returned, those after it began inside it, and if there    *)
(* are any it is known to overlap them.                                    *)
UnderWay(n, calls) ==
  /\ n <= Len(calls) /\ \A k \in n + 1 .. Len(calls) : calls[k].overlaps
  /\ n # 0 => /\ calls[n].ret = "none"
              /\ n < Len(calls) => calls[n].overlaps

Nested(fr, tr) ==
  /\ \A i \in 1 .. Len(fr) : UnderWay(fr[i].nth, tr[fr[i].f])
  /\ \A i, j \in 1 .. Len(fr) :
       fr[i].f = fr[j].f /\ fr[i].nth = fr[j].nth => i = j \/ fr[i].nth = 0

FakeInv ==
  /\ FakeTypeOK /\ Nested(frames, truth)
  /\ call_history = UpTo(CallHistoryLen, order)
  /\ \A f \in Fake : Records(fake[f], kind[f], truth[f])

-----------------------------------------------------------------------------
(* The first n entries of a sequence, and how they grow.                   *)
LEMMA UpToIs ==
  ASSUME NEW S, NEW seq \in Seq(S), NEW n \in Nat \ {0}
  PROVE  LET m == IF n < Len(seq) THEN n ELSE Len(seq) IN
         /\ UpTo(n, seq) \in Seq(S) /\ Len(UpTo(n, seq)) = m /\ m \in 0 .. Len(seq)
         /\ DOMAIN UpTo(n, seq) = 1 .. m
         /\ \A i \in 1 .. m : UpTo(n, seq)[i] = seq[i]
  <1> DEFINE m == IF n < Len(seq) THEN n ELSE Len(seq)
  <1>1. Len(seq) \in Nat /\ m \in Nat /\ m <= Len(seq) /\ \A i \in 1 .. m : seq[i] \in S
    OBVIOUS
  <1>2. UpTo(n, seq) = SubSeq(seq, 1, m)
    BY DEF UpTo
  <1> HIDE DEF m
  <1>3. /\ SubSeq(seq, 1, m) \in Seq(S)
        /\ Len(SubSeq(seq, 1, m)) = IF 1 <= m THEN m - 1 + 1 ELSE 0
        /\ \A i \in 1 .. m - 1 + 1 : SubSeq(seq, 1, m)[i] = seq[1 + i - 1]
    BY <1>1, SubSeqProperties
  <1>4. Len(SubSeq(seq, 1, m)) = m /\ \A i \in 1 .. m : SubSeq(seq, 1, m)[i] = seq[i]
    BY <1>1, <1>3
  <1>5. DOMAIN SubSeq(seq, 1, m) = 1 .. m
    BY <1>3, <1>4, LenProperties
  <1> QED BY <1>1, <1>2, <1>3, <1>4, <1>5 DEF m

LEMMA UpToAppend ==
  ASSUME NEW S, NEW seq \in Seq(S), NEW x \in S, NEW n \in Nat \ {0}
  PROVE  UpTo(n, Append(seq, x)) = IF Len(UpTo(n, seq)) < n THEN Append(UpTo(n, seq), x)
                                   ELSE UpTo(n, seq)
  <1> DEFINE new == Append(seq, x)
             old == UpTo(n, seq)
             next == IF Len(old) < n THEN Append(old, x) ELSE old
  <1>1. /\ new \in Seq(S) /\ Len(new) = Len(seq) + 1 /\ Len(seq) \in Nat
        /\ \A i \in 1 .. Len(seq) : new[i] = seq[i]
        /\ new[Len(seq) + 1] = x
    OBVIOUS
  <1>2. /\ old \in Seq(S) /\ Len(old) = (IF n < Len(seq) THEN n ELSE Len(seq))
        /\ \A i \in 1 .. Len(old) : old[i] = seq[i]
    BY UpToIs
  <1>3. /\ UpTo(n, new) \in Seq(S)
        /\ Len(UpTo(n, new)) = (IF n < Len(new) THEN n ELSE Len(new))
        /\ \A i \in 1 .. Len(UpTo(n, new)) : UpTo(n, new)[i] = new[i]
    BY <1>1, UpToIs
  <1> HIDE DEF new, old
  <1>4. CASE Len(old) < n
    <2>1. /\ next \in Seq(S) /\ Len(next) = Len(old) + 1
          /\ \A i \in 1 .. Len(old) : next[i] = old[i]
          /\ next[Len(old) + 1] = x
      BY <1>2, <1>4
    <2> HIDE DEF next
    <2>2. Len(old) = Len(seq) /\ Len(UpTo(n, new)) = Len(next)
      BY <1>1, <1>2, <1>3, <1>4, <2>1
    <2>3. \A i \in 1 .. Len(UpTo(n, new)) : UpTo(n, new)[i] = next[i]
      BY <1>1, <1>2, <1>3, <2>1, <2>2
    <2>4. UpTo(n, new) = next
      BY <1>3, <2>1, <2>2, <2>3, SeqEqual
    <2> QED BY <2>4 DEF next, new, old
  <1>5. CASE Len(old) >= n
    <2>1. next = old
      BY <1>2, <1>5
    <2>2. Len(UpTo(n, new)) = Len(old) /\ n <= Len(seq)
      BY <1>1, <1>2, <1>3, <1>5
    <2>3. \A i \in 1 .. Len(UpTo(n, new)) : UpTo(n, new)[i] = old[i]
      BY <1>1, <1>2, <1>3, <2>2
    <2>4. UpTo(n, new) = old
      BY <1>2, <1>3, <2>2, <2>3, SeqEqual
    <2> QED BY <2>1, <2>4 DEF next, new, old
  <1> QED BY <1>2, <1>4, <1>5

LEMMA UpToEmpty ==
  ASSUME NEW n \in Nat \ {0}
  PROVE  UpTo(n, <<>>) = <<>>
  <1>1. <<>> \in Seq({}) /\ Len(<<>>) = 0
    BY EmptySeq
  <1>2. UpTo(n, <<>>) \in Seq({}) /\ Len(UpTo(n, <<>>)) = 0
    <2>1. Len(UpTo(n, <<>>)) = IF n < Len(<<>>) THEN n ELSE Len(<<>>)
      BY <1>1, UpToIs
    <2>2. UpTo(n, <<>>) \in Seq({})
      BY <1>1, UpToIs
    <2> QED BY <1>1, <2>1, <2>2
  <1> QED BY <1>2, EmptySeq

(* What Records says, entry by entry.                                      *)
Kept(calls) == IF ArgHistoryLen < Len(calls) THEN ArgHistoryLen ELSE Len(calls)

LEMMA RecordsIs ==
  ASSUME NEW s \in FakeStruct, NEW k, NEW calls \in Seq(Call)
  PROVE  Records(s, k, calls) <=>
           /\ s.call_count = Len(calls)
           /\ s.arg_history = [i \in 1 .. Kept(calls) |-> calls[i].args]
           /\ s.dropped = Len(calls) - Kept(calls)
           /\ calls # <<>> => s.arg_val = calls[Len(calls)].args
           /\ \A i \in 1 .. Kept(calls) :
                k = "value" /\ calls[i].ret # "none" /\ ~calls[i].overlaps =>
                  s.return_val_history[i] = calls[i].ret
  <1>1. DOMAIN UpTo(ArgHistoryLen, calls) = 1 .. Kept(calls) /\ Kept(calls) \in Nat
    BY UpToIs, EffAssumption DEF Kept
  <1>2. ASSUME s.arg_history = [i \in 1 .. Kept(calls) |-> calls[i].args]
        PROVE  Len(s.arg_history) = Kept(calls) /\ DOMAIN s.arg_history = 1 .. Kept(calls)
    <2>1. s.arg_history \in Seq(Args)
      BY DEF FakeStruct
    <2> QED BY <1>1, <1>2, <2>1
  <1> QED BY <1>1, <1>2 DEF Records, Last

LEMMA OverlappedIs ==
  ASSUME NEW calls \in Seq(Call)
  PROVE  /\ Overlapped(calls) \in Seq(Call) /\ Len(Overlapped(calls)) = Len(calls)
         /\ \A i \in 1 .. Len(calls) :
              /\ Overlapped(calls)[i].args = calls[i].args
              /\ Overlapped(calls)[i].ret = calls[i].ret
              /\ Overlapped(calls)[i].overlaps <=> calls[i].overlaps \/ calls[i].ret = "none"
  <1>1. Len(calls) \in Nat /\ DOMAIN calls = 1 .. Len(calls) /\ \A i \in 1 .. Len(calls) : calls[i] \in Call
    OBVIOUS
  <1>2. ASSUME NEW c \in Call
        PROVE  LET new == [c EXCEPT !.overlaps = @ \/ c.ret = "none"] IN
               /\ new \in Call /\ new.args = c.args /\ new.ret = c.ret
               /\ new.overlaps <=> c.overlaps \/ c.ret = "none"
    BY DEF Call
  <1>3. Overlapped(calls) = [i \in 1 .. Len(calls) |->
          [calls[i] EXCEPT !.overlaps = @ \/ calls[i].ret = "none"]]
    BY <1>1 DEF Overlapped
  <1>4. \A i \in 1 .. Len(calls) :
          /\ Overlapped(calls)[i] \in Call
          /\ Overlapped(calls)[i].args = calls[i].args
          /\ Overlapped(calls)[i].ret = calls[i].ret
          /\ Overlapped(calls)[i].overlaps <=> calls[i].overlaps \/ calls[i].ret = "none"
    <2> TAKE i \in 1 .. Len(calls)
    <2>1. Overlapped(calls)[i] = [calls[i] EXCEPT !.overlaps = @ \/ calls[i].ret = "none"]
      BY <1>3
    <2> QED BY <1>1, <1>2, <2>1
  <1>5. Overlapped(calls) \in [1 .. Len(calls) -> Call]
    BY <1>3, <1>4
  <1>6. Overlapped(calls) \in Seq(Call) /\ Len(Overlapped(calls)) = Len(calls)
    BY <1>1, <1>5
  <1> QED BY <1>4, <1>6

(* A call of a fake, as its record and as the truth.                       *)
NewCall(args, o) == [args |-> args, ret |-> "none", overlaps |-> o]

LEMMA CalledIs ==
  ASSUME NEW calls \in Seq(Call), NEW args \in Args, NEW o \in BOOLEAN
  PROVE  LET new == Append(Overlapped(calls), NewCall(args, o)) IN
         /\ new \in Seq(Call) /\ Len(new) = Len(calls) + 1 /\ Len(calls) \in Nat
         /\ \A i \in 1 .. Len(calls) :
              /\ new[i].args = calls[i].args /\ new[i].ret = calls[i].ret
              /\ new[i].overlaps <=> calls[i].overlaps \/ calls[i].ret = "none"
         /\ new[Len(calls) + 1] = NewCall(args, o)
  <1>1. NewCall(args, o) \in Call
    BY DEF NewCall, Call
  <1> QED BY <1>1, OverlappedIs, AppendProperties

(* Assignments to the members of a fake that its records consist of.       *)
LEMMA HistorySet ==
  ASSUME NEW s \in FakeStruct, NEW h \in Seq(Args)
  PROVE  LET t == [s EXCEPT !.arg_history = h] IN
         /\ t \in FakeStruct /\ t.call_count = s.call_count /\ t.arg_val = s.arg_val
         /\ t.arg_history = h /\ t.dropped = s.dropped
         /\ t.return_val_history = s.return_val_history
  BY DEF FakeStruct

LEMMA DroppedSet ==
  ASSUME NEW s \in FakeStruct, NEW n \in Nat
  PROVE  LET t == [s EXCEPT !.dropped = n] IN
         /\ t \in FakeStruct /\ t.call_count = s.call_count /\ t.arg_val = s.arg_val
         /\ t.arg_history = s.arg_history /\ t.dropped = n
         /\ t.return_val_history = s.return_val_history
  BY DEF FakeStruct

LEMMA CountSet ==
  ASSUME NEW s \in FakeStruct, NEW n \in Nat
  PROVE  LET t == [s EXCEPT !.call_count = n] IN
         /\ t \in FakeStruct /\ t.call_count = n /\ t.arg_val = s.arg_val
         /\ t.arg_history = s.arg_history /\ t.dropped = s.dropped
         /\ t.return_val_history = s.return_val_history
  BY DEF FakeStruct

LEMMA RecordedKeeps ==
  ASSUME NEW s \in FakeStruct, NEW k, NEW calls \in Seq(Call), Records(s, k, calls),
         NEW args \in Args, NEW o \in BOOLEAN
  PROVE  /\ Recorded(s, args) \in FakeStruct
         /\ Records(Recorded(s, args), k, Append(Overlapped(calls), NewCall(args, o)))
  <1> DEFINE new == Append(Overlapped(calls), NewCall(args, o))
             r == Recorded(s, args)
  <1>1. /\ new \in Seq(Call) /\ Len(new) = Len(calls) + 1 /\ Len(calls) \in Nat
        /\ \A i \in 1 .. Len(calls) :
             /\ new[i].args = calls[i].args /\ new[i].ret = calls[i].ret
             /\ new[i].overlaps <=> calls[i].overlaps \/ calls[i].ret = "none"
        /\ new[Len(new)].args = args /\ new[Len(new)].ret = "none"
    BY CalledIs DEF NewCall
  <1>2. /\ s.call_count = Len(calls)
        /\ s.arg_history = [i \in 1 .. Kept(calls) |-> calls[i].args]
        /\ s.dropped = Len(calls) - Kept(calls)
        /\ \A i \in 1 .. Kept(calls) :
             k = "value" /\ calls[i].ret # "none" /\ ~calls[i].overlaps =>
               s.return_val_history[i] = calls[i].ret
    BY RecordsIs
  <1> HIDE DEF new
  <1>3. ArgHistoryLen \in Nat \ {0} /\ Kept(calls) \in Nat /\ Kept(calls) <= Len(calls)
    BY <1>1, EffAssumption DEF Kept
  <1>4. /\ r \in FakeStruct /\ r.call_count = Len(calls) + 1 /\ r.arg_val = args
        /\ r.return_val_history = s.return_val_history
        /\ s.call_count < ArgHistoryLen => /\ r.arg_history = Append(s.arg_history, args)
                                           /\ r.dropped = s.dropped
        /\ s.call_count >= ArgHistoryLen => /\ r.arg_history = s.arg_history
                                            /\ r.dropped = s.dropped + 1
    <2> DEFINE a == [s EXCEPT !.arg_val = args]
               b == SaveArgHistory(a, args)
    <2>1. /\ a \in FakeStruct /\ a.call_count = s.call_count /\ a.arg_val = args
          /\ a.return_val_history = s.return_val_history /\ a.arg_history = s.arg_history
          /\ a.dropped = s.dropped
      BY DEF FakeStruct
    <2> HIDE DEF a
    <2>2. /\ b \in FakeStruct /\ b.call_count = s.call_count /\ b.arg_val = args
          /\ b.return_val_history = s.return_val_history
          /\ s.call_count < ArgHistoryLen => /\ b.arg_history = Append(s.arg_history, args)
                                             /\ b.dropped = s.dropped
          /\ s.call_count >= ArgHistoryLen => /\ b.arg_history = s.arg_history
                                              /\ b.dropped = s.dropped + 1
      <3>1. a.arg_history \in Seq(Args) /\ a.dropped \in Nat /\ a.call_count \in Nat
        BY <2>1 DEF FakeStruct
      <3>2. Append(a.arg_history, args) \in Seq(Args) /\ a.dropped + 1 \in Nat
        BY <3>1
      <3>3. CASE a.call_count < ArgHistoryLen
        <4> DEFINE h == Append(a.arg_history, args)
        <4>1. b = [a EXCEPT !.arg_history = h] /\ h \in Seq(Args)
          BY <3>2, <3>3, <2>1 DEF SaveArgHistory, FakeStruct
        <4> HIDE DEF h
        <4>2. /\ b \in FakeStruct /\ b.call_count = a.call_count /\ b.arg_val = a.arg_val
              /\ b.return_val_history = a.return_val_history
              /\ b.arg_history = h /\ b.dropped = a.dropped
          BY <2>1, <4>1, HistorySet
        <4> QED BY <1>2, <1>3, <2>1, <3>3, <4>2 DEF h
      <3>4. CASE ~(a.call_count < ArgHistoryLen)
        <4>1. b = [a EXCEPT !.dropped = a.dropped + 1]
          BY <3>4, <2>1 DEF SaveArgHistory, FakeStruct
        <4>2. /\ b \in FakeStruct /\ b.call_count = a.call_count /\ b.arg_val = a.arg_val
              /\ b.return_val_history = a.return_val_history
              /\ b.arg_history = a.arg_history /\ b.dropped = a.dropped + 1
          BY <2>1, <3>2, <4>1, DroppedSet
        <4> QED BY <1>2, <1>3, <2>1, <3>4, <4>2
      <3> QED BY <3>3, <3>4
    <2> HIDE DEF b
    <2>3. r = [b EXCEPT !.call_count = Len(calls) + 1]
      <3>1. r = [b EXCEPT !.call_count = @ + 1]
        BY DEF r, b, a, Recorded
      <3> QED BY <1>2, <2>2, <3>1 DEF FakeStruct
    <2>4. Len(calls) + 1 \in Nat
      BY <1>1
    <2>5. /\ r \in FakeStruct /\ r.call_count = Len(calls) + 1 /\ r.arg_val = b.arg_val
          /\ r.return_val_history = b.return_val_history /\ r.arg_history = b.arg_history
          /\ r.dropped = b.dropped
      BY <2>2, <2>3, <2>4, CountSet
    <2> QED BY <2>2, <2>5
  <1> HIDE DEF r
  <1>5. Kept(new) = IF Len(calls) < ArgHistoryLen THEN Kept(calls) + 1 ELSE Kept(calls)
    BY <1>1, <1>3 DEF Kept
  <1>6. r.arg_history = [i \in 1 .. Kept(new) |-> new[i].args]
    <2>1. Len(calls) >= ArgHistoryLen => Kept(new) = Kept(calls)
      BY <1>1, <1>3, <1>5
    <2>2. CASE Len(calls) >= ArgHistoryLen
      <3>1. r.arg_history = [i \in 1 .. Kept(calls) |-> calls[i].args]
        BY <1>2, <1>4, <2>2
      <3>2. \A i \in 1 .. Kept(calls) : new[i].args = calls[i].args
        BY <1>1, <1>3
      <3> QED BY <2>1, <2>2, <3>1, <3>2
    <2>3. CASE Len(calls) < ArgHistoryLen
      <3> DEFINE h == s.arg_history
      <3>1. h \in Seq(Args) /\ h = [i \in 1 .. Kept(calls) |-> calls[i].args]
        BY <1>2 DEF FakeStruct
      <3>2. Len(h) = Kept(calls)
        BY <1>3, <3>1
      <3>3. /\ r.arg_history = Append(h, args) /\ Kept(calls) = Len(calls)
            /\ Kept(new) = Len(calls) + 1
        <4>1. Kept(calls) = Len(calls)
          BY <1>1, <1>3, <2>3 DEF Kept
        <4> QED BY <1>2, <1>4, <1>5, <2>3, <4>1
      <3>4. \A i \in 1 .. Len(calls) : h[i] = calls[i].args
        BY <3>1, <3>3
      <3> HIDE DEF h
      <3>5. /\ Append(h, args) \in Seq(Args) /\ Len(Append(h, args)) = Len(calls) + 1
            /\ \A i \in 1 .. Len(calls) : Append(h, args)[i] = h[i]
            /\ Append(h, args)[Len(calls) + 1] = args
        BY <3>1, <3>2, <3>3
      <3>6. \A i \in 1 .. Len(calls) + 1 : Append(h, args)[i] = new[i].args
        <4> TAKE i \in 1 .. Len(calls) + 1
        <4>1. CASE i = Len(calls) + 1
          BY <1>1, <3>5, <4>1
        <4>2. CASE i # Len(calls) + 1
          <5>1. i \in 1 .. Len(calls)
            BY <1>1, <4>2
          <5> QED BY <1>1, <3>4, <3>5, <5>1
        <4> QED BY <4>1, <4>2
      <3>7. Append(h, args) = [i \in 1 .. Len(calls) + 1 |-> Append(h, args)[i]]
        <4>1. Append(h, args) \in [1 .. Len(calls) + 1 -> Args]
          BY <3>5, LenProperties
        <4> QED BY <4>1
      <3> QED BY <3>3, <3>6, <3>7
    <2> QED BY <1>1, <1>3, <2>2, <2>3
  <1>7. r.dropped = Len(new) - Kept(new)
    BY <1>1, <1>2, <1>3, <1>4, <1>5
  <1>8. ASSUME NEW i \in 1 .. Kept(new), k = "value", new[i].ret # "none", ~new[i].overlaps
        PROVE  r.return_val_history[i] = new[i].ret
    <2>1. i \in 1 .. Len(calls)
      <3>1. i # Len(new)
        BY <1>1, <1>8
      <3>2. Kept(new) <= Len(new)
        BY <1>1, <1>3, <1>5
      <3> QED BY <1>1, <1>3, <1>5, <3>1, <3>2
    <2>2. i \in 1 .. Kept(calls)
      BY <1>1, <1>3, <1>5, <2>1 DEF Kept
    <2> QED BY <1>1, <1>2, <1>4, <1>8, <2>1, <2>2
  <1>9. Records(r, k, new)
    BY <1>1, <1>4, <1>6, <1>7, <1>8, RecordsIs
  <1> QED BY <1>4, <1>9 DEF r, new

-----------------------------------------------------------------------------
(* The calls under way.                                                    *)
LEMMA FunctionIsSeq ==
  ASSUME NEW S, NEW n \in Nat, NEW s \in [1 .. n -> S]
  PROVE  s \in Seq(S) /\ Len(s) = n
  OBVIOUS

LEMMA LastOf ==
  ASSUME NEW S, NEW s \in Seq(S), s # <<>>
  PROVE  /\ Len(s) \in Nat \ {0} /\ Len(s) \in 1 .. Len(s) /\ s \in [1 .. Len(s) -> S]
         /\ s[Len(s)] \in S
  OBVIOUS

LEMMA FrontOf ==
  ASSUME NEW S, NEW s \in Seq(S), s # <<>>
  PROVE  /\ Front(s) \in Seq(S) /\ Len(Front(s)) = Len(s) - 1
         /\ \A i \in 1 .. Len(s) - 1 : Front(s)[i] = s[i]
  <1> DEFINE n == Len(s) - 1
  <1>1. n \in Nat /\ \A i \in 1 .. n : s[i] \in S
    OBVIOUS
  <1>2. Front(s) = SubSeq(s, 1, n)
    BY DEF Front
  <1> HIDE DEF n
  <1>3. /\ SubSeq(s, 1, n) \in Seq(S)
        /\ Len(SubSeq(s, 1, n)) = IF 1 <= n THEN n - 1 + 1 ELSE 0
        /\ \A i \in 1 .. n - 1 + 1 : SubSeq(s, 1, n)[i] = s[1 + i - 1]
    BY <1>1, SubSeqProperties
  <1>4. Len(SubSeq(s, 1, n)) = n /\ \A i \in 1 .. n : SubSeq(s, 1, n)[i] = s[i]
    BY <1>1, <1>3
  <1> QED BY <1>2, <1>3, <1>4 DEF n

LEMMA InnerIs ==
  ASSUME frames \in Seq(Frame), frames # <<>>
  PROVE  /\ Inner = frames[Len(frames)] /\ Len(frames) \in 1 .. Len(frames)
         /\ Inner \in Frame /\ Inner.f \in Fake /\ Inner.nth \in Nat
  <1>1. Inner = frames[Len(frames)] /\ Len(frames) \in 1 .. Len(frames) /\ Inner \in Frame
    BY LastOf DEF Inner, Last
  <1> QED BY <1>1 DEF Frame

LEMMA OuterIs ==
  ASSUME frames \in Seq(Frame)
  PROVE  /\ Outer \in Seq(Frame) /\ Len(Outer) = Len(frames)
         /\ \A i \in 1 .. Len(frames) : Outer[i].f = frames[i].f /\ Outer[i].nth = frames[i].nth
  <1>1. CASE frames = <<>>
    BY <1>1 DEF Outer
  <1>2. CASE frames # <<>>
    <2> DEFINE n == Len(frames)
    <2>1. n \in Nat /\ n \in 1 .. n /\ frames \in [1 .. n -> Frame] /\ frames[n] \in Frame
      BY <1>2
    <2>2. Outer = [frames EXCEPT ![n].running = "plain"]
      BY <1>2 DEF Outer
    <2> HIDE DEF n
    <2>3. Outer = [i \in 1 .. n |->
             IF i = n THEN [frames[n] EXCEPT !.running = "plain"] ELSE frames[i]]
      BY <2>1, <2>2
    <2>4. [frames[n] EXCEPT !.running = "plain"] \in Frame
      BY <2>1 DEF Frame, Custom, CustomFake
    <2>5. /\ [frames[n] EXCEPT !.running = "plain"].f = frames[n].f
          /\ [frames[n] EXCEPT !.running = "plain"].nth = frames[n].nth
      BY <2>1 DEF Frame
    <2>6. Outer \in [1 .. n -> Frame]
      BY <2>1, <2>3, <2>4
    <2>7. Outer \in Seq(Frame) /\ Len(Outer) = n
      BY <2>1, <2>6
    <2> QED BY <2>1, <2>3, <2>5, <2>7 DEF n
  <1> QED BY <1>1, <1>2

LEMMA ProgressIs ==
  ASSUME frames \in Seq(Frame), frames # <<>>, NEW c \in Custom,
         NEW at \in {"entered", "in sequence", "after sequence", "in custom fake"}
  PROVE  /\ Progress(at, c) \in Seq(Frame) /\ Len(Progress(at, c)) = Len(frames)
         /\ \A i \in 1 .. Len(frames) :
              Progress(at, c)[i].f = frames[i].f /\ Progress(at, c)[i].nth = frames[i].nth
  <1> DEFINE n == Len(frames)
             new == [[frames[n] EXCEPT !.at = at] EXCEPT !.running = c]
  <1>1. n \in Nat /\ n \in 1 .. n /\ frames \in [1 .. n -> Frame] /\ frames[n] \in Frame
    BY LastOf
  <1>2. new \in Frame /\ new.f = frames[n].f /\ new.nth = frames[n].nth
    BY <1>1 DEF Frame
  <1>3. Progress(at, c) = [frames EXCEPT ![n].at = at, ![n].running = c]
    BY DEF Progress
  <1> HIDE DEF n
  <1>4. Progress(at, c) = [i \in 1 .. n |-> IF i = n THEN new ELSE frames[i]]
    BY <1>1, <1>3
  <1> DEFINE p == [i \in 1 .. n |-> IF i = n THEN new ELSE frames[i]]
  <1> HIDE DEF new
  <1>5. p \in [1 .. n -> Frame] /\ \A i \in 1 .. n : p[i].f = frames[i].f /\ p[i].nth = frames[i].nth
    BY <1>1, <1>2
  <1>6. Progress(at, c) = p
    BY <1>4
  <1> HIDE DEF p
  <1>7. p \in Seq(Frame) /\ Len(p) = n
    BY <1>1, <1>5, FunctionIsSeq
  <1> QED BY <1>5, <1>6, <1>7 DEF n

(* Steps that neither begin nor end a call.                                *)
LEMMA NestedSame ==
  ASSUME NEW tr, NEW fr, NEW fr2, Nested(fr, tr), Len(fr2) = Len(fr),
         \A i \in 1 .. Len(fr) : fr2[i].f = fr[i].f /\ fr2[i].nth = fr[i].nth
  PROVE  Nested(fr2, tr)
  BY DEF Nested

(* A call that begins inside those under way.                              *)
LEMMA StaysUnderWay ==
  ASSUME NEW calls \in Seq(Call), NEW n \in Nat, UnderWay(n, calls), NEW args \in Args
  PROVE  UnderWay(n, Append(Overlapped(calls), NewCall(args, TRUE)))
  <1> DEFINE new == Append(Overlapped(calls), NewCall(args, TRUE))
  <1>1. /\ new \in Seq(Call) /\ Len(new) = Len(calls) + 1 /\ Len(calls) \in Nat
        /\ \A i \in 1 .. Len(calls) :
             /\ new[i].ret = calls[i].ret
             /\ new[i].overlaps <=> calls[i].overlaps \/ calls[i].ret = "none"
        /\ new[Len(calls) + 1].overlaps
    <2>1. TRUE \in BOOLEAN
      OBVIOUS
    <2>2. /\ new \in Seq(Call) /\ Len(new) = Len(calls) + 1 /\ Len(calls) \in Nat
          /\ \A i \in 1 .. Len(calls) :
               /\ new[i].ret = calls[i].ret
               /\ new[i].overlaps <=> calls[i].overlaps \/ calls[i].ret = "none"
          /\ new[Len(calls) + 1] = NewCall(args, TRUE)
      BY <2>1, CalledIs
    <2> QED BY <2>2 DEF NewCall
  <1> HIDE DEF new
  <1>2. n <= Len(calls) /\ n <= Len(new) /\ n # Len(new)
    BY <1>1 DEF UnderWay
  <1>3. ASSUME NEW k \in n + 1 .. Len(new)
        PROVE  new[k].overlaps
    <2>1. CASE k = Len(calls) + 1
      BY <1>1, <2>1
    <2>2. CASE k # Len(calls) + 1
      <3>1. k \in n + 1 .. Len(calls) /\ k \in 1 .. Len(calls)
        BY <1>1, <1>2, <2>2
      <3> QED BY <1>1, <3>1 DEF UnderWay
    <2> QED BY <2>1, <2>2
  <1>4. n # 0 => new[n].ret = "none" /\ new[n].overlaps
    <2>1. n # 0 => n \in 1 .. Len(calls)
      BY <1>1, <1>2
    <2> QED BY <1>1, <2>1 DEF UnderWay
  <1>5. UnderWay(n, new)
    BY <1>2, <1>3, <1>4 DEF UnderWay
  <1> QED BY <1>5 DEF new

LEMMA CalledNested ==
  ASSUME NEW tr \in [Fake -> Seq(Call)], NEW fr \in Seq(Frame), Nested(fr, tr),
         NEW g \in Fake, NEW args \in Args, NEW o \in BOOLEAN,
         \A i \in 1 .. Len(fr) : fr[i].f = g => o,
         NEW c \in Frame, c.f = g, c.nth = Len(tr[g]) + 1
  PROVE  Nested(Append(fr, c), [tr EXCEPT ![g] = Append(Overlapped(@), NewCall(args, o))])
  <1> DEFINE calls == tr[g]
             new == Append(Overlapped(calls), NewCall(args, o))
             fr2 == Append(fr, c)
             tr2 == [tr EXCEPT ![g] = new]
  <1>1. calls \in Seq(Call) /\ Len(calls) \in Nat
    OBVIOUS
  <1>2. /\ new \in Seq(Call) /\ Len(new) = Len(calls) + 1
        /\ new[Len(calls) + 1].ret = "none"
    BY <1>1, CalledIs DEF NewCall
  <1>3. /\ Len(fr2) = Len(fr) + 1 /\ Len(fr) \in Nat /\ fr2[Len(fr) + 1] = c
        /\ \A i \in 1 .. Len(fr) : fr2[i] = fr[i] /\ fr[i] \in Frame
    OBVIOUS
  <1>4. tr2[g] = new /\ \A f \in Fake : f # g => tr2[f] = tr[f]
    OBVIOUS
  <1>5. ASSUME NEW i \in 1 .. Len(fr)
        PROVE  UnderWay(fr[i].nth, tr2[fr[i].f])
    <2>1. fr[i].f \in Fake /\ fr[i].nth \in Nat /\ UnderWay(fr[i].nth, tr[fr[i].f])
      BY <1>3 DEF Nested, Frame
    <2>2. CASE fr[i].f = g
      <3>1. o = TRUE
        BY <2>2, Zenon
      <3>2. UnderWay(fr[i].nth, calls)
        BY <2>1, <2>2
      <3>3. UnderWay(fr[i].nth, Append(Overlapped(calls), NewCall(args, TRUE)))
        BY <1>1, <2>1, <3>2, StaysUnderWay
      <3> QED BY <1>4, <2>2, <3>1, <3>3
    <2>3. CASE fr[i].f # g
      BY <1>4, <2>1, <2>3
    <2> QED BY <2>2, <2>3
  <1> HIDE DEF calls, new, fr2, tr2
  <1>6. c.nth = Len(calls) + 1
    BY DEF calls
  <1>7. UnderWay(c.nth, new)
    BY <1>1, <1>2, <1>6 DEF UnderWay
  <1>8. ASSUME NEW i \in 1 .. Len(fr2)
        PROVE  UnderWay(fr2[i].nth, tr2[fr2[i].f])
    <2>1. CASE i = Len(fr) + 1
      BY <1>3, <1>4, <1>7, <2>1
    <2>2. CASE i # Len(fr) + 1
      <3>1. i \in 1 .. Len(fr)
        BY <1>3, <2>2
      <3> QED BY <1>3, <1>5, <3>1
    <2> QED BY <2>1, <2>2
  <1>9. ASSUME NEW i \in 1 .. Len(fr)
        PROVE  ~(fr[i].f = g /\ fr[i].nth = c.nth)
    <2>1. fr[i].f = g => fr[i].nth <= Len(calls)
      BY DEF Nested, UnderWay, calls
    <2>2. fr[i].nth \in Nat
      BY <1>3 DEF Frame
    <2> QED BY <1>1, <1>6, <2>1, <2>2
  <1>10. ASSUME NEW i \in 1 .. Len(fr2), NEW j \in 1 .. Len(fr2),
                fr2[i].f = fr2[j].f, fr2[i].nth = fr2[j].nth
         PROVE  i = j \/ fr2[i].nth = 0
    <2>1. CASE i \in 1 .. Len(fr) /\ j \in 1 .. Len(fr)
      BY <1>3, <1>10, <2>1 DEF Nested
    <2>2. CASE i \in 1 .. Len(fr) /\ j = Len(fr) + 1
      BY <1>3, <1>9, <1>10, <2>2
    <2>3. CASE i = Len(fr) + 1 /\ j \in 1 .. Len(fr)
      BY <1>3, <1>9, <1>10, <2>3
    <2>4. \A k \in 1 .. Len(fr2) : k \in 1 .. Len(fr) \/ k = Len(fr) + 1
      BY <1>3
    <2> QED BY <2>1, <2>2, <2>3, <2>4
  <1>11. Nested(fr2, tr2)
    BY <1>8, <1>10 DEF Nested
  <1> QED BY <1>11 DEF fr2, tr2, new, calls

(* A reset: the calls of that fake that are under way count no more.       *)
LEMMA ResetNested ==
  ASSUME NEW tr \in [Fake -> Seq(Call)], NEW fr \in Seq(Frame), Nested(fr, tr), NEW g \in Fake,
         NEW fr2, Len(fr2) = Len(fr),
         \A i \in 1 .. Len(fr) :
           fr2[i].f = fr[i].f /\ fr2[i].nth = IF fr[i].f = g THEN 0 ELSE fr[i].nth
  PROVE  Nested(fr2, [tr EXCEPT ![g] = <<>>])
  <1> DEFINE tr2 == [tr EXCEPT ![g] = <<>>]
  <1>1. tr2[g] = <<>> /\ \A f \in Fake : f # g => tr2[f] = tr[f]
    OBVIOUS
  <1>2. \A i \in 1 .. Len(fr) : fr[i].f \in Fake
    <2>1. \A i \in 1 .. Len(fr) : fr[i] \in Frame
      OBVIOUS
    <2> QED BY <2>1 DEF Frame
  <1> HIDE DEF tr2
  <1>3. UnderWay(0, <<>>)
    BY DEF UnderWay
  <1>4. \A i \in 1 .. Len(fr2) : UnderWay(fr2[i].nth, tr2[fr2[i].f])
    BY <1>1, <1>2, <1>3 DEF Nested
  <1>5. ASSUME NEW i \in 1 .. Len(fr2), NEW j \in 1 .. Len(fr2),
               fr2[i].f = fr2[j].f, fr2[i].nth = fr2[j].nth
        PROVE  i = j \/ fr2[i].nth = 0
    BY <1>5 DEF Nested
  <1>6. Nested(fr2, tr2)
    BY <1>4, <1>5 DEF Nested
  <1> QED BY <1>6 DEF tr2

(* The n-th of the calls returns v; one from before a reset has no place.  *)
Returned(n, calls, v) == IF n = 0 THEN calls ELSE [calls EXCEPT ![n].ret = v]

LEMMA ReturnedIs ==
  ASSUME NEW calls \in Seq(Call), NEW n \in 0 .. Len(calls), NEW v \in Value
  PROVE  LET new == Returned(n, calls, v) IN
         /\ new \in Seq(Call) /\ Len(new) = Len(calls) /\ Len(calls) \in Nat
         /\ \A i \in 1 .. Len(calls) :
              /\ new[i].args = calls[i].args /\ new[i].overlaps = calls[i].overlaps
              /\ new[i].ret = IF i = n THEN v ELSE calls[i].ret
  <1> DEFINE m == Len(calls)
             c == [calls[n] EXCEPT !.ret = v]
             new == [i \in 1 .. m |-> IF i = n THEN c ELSE calls[i]]
  <1>1. m \in Nat /\ calls \in [1 .. m -> Call]
    OBVIOUS
  <1>2. CASE n = 0
    BY <1>1, <1>2 DEF Returned
  <1>3. CASE n # 0
    <2>1. n \in 1 .. m /\ calls[n] \in Call
      BY <1>1, <1>3
    <2>2. c \in Call /\ c.args = calls[n].args /\ c.overlaps = calls[n].overlaps /\ c.ret = v
      BY <2>1 DEF Call
    <2>3. Returned(n, calls, v) = [calls EXCEPT ![n].ret = v]
      BY <1>3 DEF Returned
    <2> HIDE DEF m
    <2>4. Returned(n, calls, v) = new
      BY <1>1, <2>1, <2>3
    <2> HIDE DEF c
    <2>5. new \in [1 .. m -> Call]
      BY <1>1, <2>2
    <2>6. \A i \in 1 .. m :
            /\ new[i].args = calls[i].args /\ new[i].overlaps = calls[i].overlaps
            /\ new[i].ret = IF i = n THEN v ELSE calls[i].ret
      BY <2>2
    <2> HIDE DEF new
    <2>7. new \in Seq(Call) /\ Len(new) = m
      BY <1>1, <2>5, FunctionIsSeq
    <2> QED BY <1>1, <2>4, <2>6, <2>7 DEF m
  <1> QED BY <1>2, <1>3

LEMMA ReturnNested ==
  ASSUME NEW tr \in [Fake -> Seq(Call)], NEW fr \in Seq(Frame), Nested(fr, tr), fr # <<>>,
         NEW v \in Value
  PROVE  LET c == fr[Len(fr)] IN
         Nested(Front(fr), [tr EXCEPT ![c.f] = Returned(c.nth, tr[c.f], v)])
  <1> DEFINE c == fr[Len(fr)]
             calls == tr[c.f]
             new == Returned(c.nth, calls, v)
             tr2 == [tr EXCEPT ![c.f] = new]
  <1>1. /\ Len(fr) \in Nat \ {0} /\ Len(fr) \in 1 .. Len(fr) /\ c \in Frame
        /\ \A i \in 1 .. Len(fr) : fr[i] \in Frame
    BY LastOf
  <1>a. UnderWay(c.nth, calls)
    BY <1>1 DEF Nested
  <1> HIDE DEF c
  <1>b. c.f \in Fake /\ c.nth \in Nat
    BY <1>1 DEF Frame
  <1>2. c.f \in Fake /\ c.nth \in Nat /\ calls \in Seq(Call) /\ Len(calls) \in Nat
    BY <1>b
  <1>3. c.nth \in 0 .. Len(calls)
    BY <1>2, <1>a DEF UnderWay
  <1>4. /\ Len(new) = Len(calls)
        /\ \A i \in 1 .. Len(calls) :
             /\ new[i].overlaps = calls[i].overlaps
             /\ new[i].ret = IF i = c.nth THEN v ELSE calls[i].ret
    BY <1>2, <1>3, ReturnedIs
  <1>5. /\ Len(Front(fr)) = Len(fr) - 1
        /\ \A i \in 1 .. Len(fr) - 1 : Front(fr)[i] = fr[i]
    BY FrontOf
  <1> HIDE DEF new
  <1>6. tr2[c.f] = new /\ \A f \in Fake : f # c.f => tr2[f] = tr[f]
    BY <1>2
  <1> HIDE DEF calls, tr2
  <1>7. ASSUME NEW i \in 1 .. Len(fr) - 1
        PROVE  UnderWay(fr[i].nth, tr2[fr[i].f])
    <2> DEFINE n == fr[i].nth
    <2>1. i \in 1 .. Len(fr) /\ i # Len(fr)
      BY <1>1
    <2>2. fr[i].f \in Fake /\ n \in Nat /\ UnderWay(n, tr[fr[i].f])
      BY <1>1, <2>1 DEF Nested, Frame
    <2>3. CASE fr[i].f # c.f
      BY <1>6, <2>2, <2>3
    <2>4. CASE fr[i].f = c.f
      <3>1. n = c.nth => n = 0
        BY <1>1, <2>1, <2>4 DEF Nested, c
      <3>2. UnderWay(n, calls)
        BY <2>2, <2>4 DEF calls
      <3> HIDE DEF n
      <3>3. n <= Len(new) /\ \A k \in n + 1 .. Len(new) : new[k].overlaps
        <4>1. \A k \in n + 1 .. Len(new) : k \in 1 .. Len(calls)
          BY <1>2, <1>4, <2>2
        <4> QED BY <1>4, <3>2, <4>1 DEF UnderWay
      <3>4. n # 0 => new[n].ret = "none" /\ (n < Len(new) => new[n].overlaps)
        <4>1. n # 0 => n \in 1 .. Len(calls)
          BY <1>2, <1>4, <2>2, <3>3
        <4> QED BY <1>4, <3>1, <3>2, <4>1 DEF UnderWay
      <3>5. UnderWay(n, new)
        BY <3>3, <3>4 DEF UnderWay
      <3> QED BY <1>6, <2>4, <3>5 DEF n
    <2> QED BY <2>3, <2>4
  <1>8. \A i, j \in 1 .. Len(fr) - 1 :
          fr[i].f = fr[j].f /\ fr[i].nth = fr[j].nth => i = j \/ fr[i].nth = 0
    <2>1. \A i \in 1 .. Len(fr) - 1 : i \in 1 .. Len(fr)
      BY <1>1
    <2> QED BY <2>1 DEF Nested
  <1>9. Nested(Front(fr), tr2)
    BY <1>5, <1>7, <1>8 DEF Nested
  <1> QED BY <1>9 DEF tr2, new, calls, c

(* What a call returns is kept in the entry of the call that began last.   *)
LEMMA ReturnRecords ==
  ASSUME NEW s \in FakeStruct, NEW k, NEW calls \in Seq(Call), Records(s, k, calls),
         NEW n \in Nat, UnderWay(n, calls), NEW v \in Value
  PROVE  LET t == IF k = "value" THEN SaveRetHistory(s, v) ELSE s IN
         t \in FakeStruct /\ Records(t, k, Returned(n, calls, v))
  <1> DEFINE h == [i \in 1 .. ArgHistoryLen |->
                     IF i = s.call_count THEN v ELSE s.return_val_history[i]]
             u == SaveRetHistory(s, v)
             t == IF k = "value" THEN u ELSE s
             new == Returned(n, calls, v)
  <1>1. n \in 0 .. Len(calls) /\ Len(calls) \in Nat
    BY DEF UnderWay
  <1>2. /\ new \in Seq(Call) /\ Len(new) = Len(calls)
        /\ \A i \in 1 .. Len(calls) :
             /\ new[i].args = calls[i].args /\ new[i].overlaps = calls[i].overlaps
             /\ new[i].ret = IF i = n THEN v ELSE calls[i].ret
    BY <1>1, ReturnedIs
  <1>3. /\ s.call_count = Len(calls)
        /\ s.arg_history = [i \in 1 .. Kept(calls) |-> calls[i].args]
        /\ s.dropped = Len(calls) - Kept(calls)
        /\ calls # <<>> => s.arg_val = calls[Len(calls)].args
        /\ \A i \in 1 .. Kept(calls) :
             k = "value" /\ calls[i].ret # "none" /\ ~calls[i].overlaps =>
               s.return_val_history[i] = calls[i].ret
    BY RecordsIs
  <1>4. h \in [1 .. ArgHistoryLen -> Value]
    BY DEF FakeStruct
  <1>5. u = [s EXCEPT !.return_val_history = h]
    BY DEF SaveRetHistory, FakeStruct
  <1> HIDE DEF h, u
  <1>6. /\ u \in FakeStruct /\ u.call_count = s.call_count /\ u.arg_val = s.arg_val
        /\ u.arg_history = s.arg_history /\ u.dropped = s.dropped
        /\ u.return_val_history = h
    BY <1>4, <1>5 DEF FakeStruct
  <1>7. /\ t \in FakeStruct /\ t.call_count = s.call_count /\ t.arg_val = s.arg_val
        /\ t.arg_history = s.arg_history /\ t.dropped = s.dropped
        /\ k = "value" => t.return_val_history = h
    BY <1>6
  <1> HIDE DEF t, new
  <1>8. Kept(new) = Kept(calls) /\ Kept(calls) \in 0 .. Len(calls) /\ Kept(calls) <= ArgHistoryLen
    BY <1>1, <1>2, EffAssumption DEF Kept
  <1>9. ASSUME NEW i \in 1 .. Kept(new), k = "value", new[i].ret # "none", ~new[i].overlaps
        PROVE  t.return_val_history[i] = new[i].ret
    <2>1. i \in 1 .. Len(calls) /\ i \in 1 .. Kept(calls) /\ i \in 1 .. ArgHistoryLen
      BY <1>8, EffAssumption
    <2>2. ~calls[i].overlaps
      BY <1>2, <1>9, <2>1
    <2>3. h[i] = IF i = Len(calls) THEN v ELSE s.return_val_history[i]
      BY <1>3, <2>1 DEF h
    <2>4. i = Len(calls) <=> i = n
      <3>1. ASSUME i = Len(calls), i # n
            PROVE  FALSE
        <4>1. i \in n + 1 .. Len(calls)
          BY <1>1, <2>1, <3>1
        <4> QED BY <2>2, <4>1 DEF UnderWay
      <3>2. ASSUME i # Len(calls), i = n
            PROVE  FALSE
        <4>1. n # 0 /\ n < Len(calls)
          BY <1>1, <2>1, <3>2
        <4> QED BY <2>2, <3>2, <4>1 DEF UnderWay
      <3> QED BY <3>1, <3>2
    <2>5. CASE i = n
      BY <1>2, <1>7, <1>9, <2>1, <2>3, <2>4, <2>5
    <2>6. CASE i # n
      <3>1. new[i].ret = calls[i].ret
        BY <1>2, <2>1, <2>6
      <3> QED BY <1>3, <1>7, <1>9, <2>1, <2>2, <2>3, <2>4, <2>6, <3>1
    <2> QED BY <2>5, <2>6
  <1>10. t.arg_history = [i \in 1 .. Kept(new) |-> new[i].args]
    <2>1. \A i \in 1 .. Kept(calls) : new[i].args = calls[i].args
      BY <1>2, <1>8
    <2> QED BY <1>3, <1>7, <1>8, <2>1
  <1>11. new # <<>> => t.arg_val = new[Len(new)].args
    <2>1. new # <<>> => Len(calls) \in 1 .. Len(calls) /\ calls # <<>>
      BY <1>1, <1>2
    <2> QED BY <1>2, <1>3, <1>7, <2>1
  <1>12. Records(t, k, new)
    BY <1>2, <1>3, <1>7, <1>8, <1>9, <1>10, <1>11, RecordsIs
  <1> QED BY <1>7, <1>12 DEF t, u, new

-----------------------------------------------------------------------------
(* Members that are no records of calls.                                   *)
Alike(t, s) ==
  /\ t.call_count = s.call_count /\ t.arg_val = s.arg_val /\ t.arg_history = s.arg_history
  /\ t.dropped = s.dropped /\ t.return_val_history = s.return_val_history

LEMMA AlikeRecords ==
  ASSUME NEW s, NEW t, NEW k, NEW calls, Records(s, k, calls), Alike(t, s)
  PROVE  Records(t, k, calls)
  BY DEF Records, Alike

LEMMA EmptyRecords ==
  ASSUME NEW k
  PROVE  Cleared \in FakeStruct /\ Records(Cleared, k, <<>>) /\ <<>> \in Seq(Call)
  <1>1. Cleared \in FakeStruct /\ <<>> \in Seq(Call)
    <2>1. [i \in 1 .. ArgHistoryLen |-> NoValue] \in [1 .. ArgHistoryLen -> Value]
      BY DEF Value
    <2>2. NoValue \in Value /\ NoValue \in Custom
      BY DEF Value, Custom
    <2>3. <<>> \in Args /\ <<>> \in Seq(Args) /\ <<>> \in Seq(Value) /\ <<>> \in Seq(Custom)
      BY DEF Args
    <2> QED BY <2>1, <2>2, <2>3 DEF Cleared, FakeStruct
  <1>2. Kept(<<>>) = 0
    BY EffAssumption DEF Kept
  <1>3. Cleared.arg_history = [i \in 1 .. Kept(<<>>) |-> <<>>[i].args]
    BY <1>2 DEF Cleared
  <1>4. Cleared.call_count = 0 /\ Cleared.dropped = 0
    BY DEF Cleared
  <1>5. Records(Cleared, k, <<>>)
    BY <1>1, <1>2, <1>3, <1>4, RecordsIs
  <1> QED BY <1>1, <1>5

(* Initially nothing is called and every fake is empty.                    *)
LEMMA FakeInitially == FakeInit => FakeInv
<1> SUFFICES ASSUME FakeInit PROVE FakeInv
  OBVIOUS
<1>1. FakeTypeOK
  BY EmptyRecords DEF FakeInit, FakeTypeOK
<1>2. Nested(frames, truth)
  BY DEF FakeInit, Nested
<1>3. call_history = UpTo(CallHistoryLen, order)
  BY UpToEmpty, EffAssumption DEF FakeInit
<1>4. \A f \in Fake : Records(fake[f], kind[f], truth[f])
  BY EmptyRecords DEF FakeInit
<1> QED BY <1>1, <1>2, <1>3, <1>4 DEF FakeInv

(* What the test sets, and which custom fake runs, is no record of calls.  *)
LEMMA MembersKept ==
  ASSUME FakeInv, NEW f \in Fake, NEW s \in FakeStruct, Alike(s, fake[f]),
         fake' = [fake EXCEPT ![f] = s],
         frames' \in Seq(Frame), Nested(frames', truth), made' \in Nat,
         UNCHANGED <<kind, arity, call_history, truth, order>>
  PROVE  FakeInv'
<1>1. FakeTypeOK'
  BY DEF FakeInv, FakeTypeOK
<1>2. ASSUME NEW g \in Fake
      PROVE  Records(fake'[g], kind'[g], truth'[g])
  <2>1. fake'[g] = IF g = f THEN s ELSE fake[g]
    BY DEF FakeInv, FakeTypeOK
  <2>2. Records(fake[g], kind[g], truth[g])
    BY DEF FakeInv
  <2>3. CASE g = f
    BY <2>1, <2>2, <2>3, AlikeRecords
  <2> QED BY <2>1, <2>2, <2>3
<1> QED BY <1>1, <1>2 DEF FakeInv

(* Settings of one fake touch neither its record nor what is under way.    *)
LEMMA SetPreserves ==
  ASSUME FakeInv, NEW f \in Fake, NEW s \in FakeStruct, Alike(s, fake[f]), Set(f, s)
  PROVE  FakeInv'
  BY MembersKept DEF Set, FakeInv, FakeTypeOK

LEMMA SettingsPreserve ==
  ASSUME FakeInv, NEW f \in Fake,
         \/ SET_RETURN_SEQ(f, <<"r1", "r2">>) \/ SetReturnVal(f, "r")
         \/ \E c \in CustomFake : SetCustomFake(f, c)
         \/ \E c, d \in CustomFake : SET_CUSTOM_FAKE_SEQ(f, <<c, d>>)
  PROVE  FakeInv'
<1>1. fake[f] \in FakeStruct
  BY DEF FakeInv, FakeTypeOK
<1>2. CASE SET_RETURN_SEQ(f, <<"r1", "r2">>)
  <2>1. <<"r1", "r2">> \in Seq(Value)
    BY DEF Value
  <2>2. \A q \in Seq(Value) : LET s == [fake[f] EXCEPT !.return_val_seq = q] IN
          s \in FakeStruct /\ Alike(s, fake[f])
    BY <1>1 DEF FakeStruct, Alike
  <2>3. Set(f, [fake[f] EXCEPT !.return_val_seq = <<"r1", "r2">>])
    BY <1>2 DEF SET_RETURN_SEQ
  <2> QED BY <2>1, <2>2, <2>3, SetPreserves
<1>3. CASE SetReturnVal(f, "r")
  <2>1. LET s == [fake[f] EXCEPT !.return_val = "r"] IN
          s \in FakeStruct /\ Alike(s, fake[f])
    BY <1>1 DEF FakeStruct, Alike, Value
  <2>2. Set(f, [fake[f] EXCEPT !.return_val = "r"])
    BY <1>3 DEF SetReturnVal
  <2> QED BY <2>1, <2>2, SetPreserves
<1>4. ASSUME NEW c \in CustomFake, SetCustomFake(f, c)
      PROVE  FakeInv'
  <2>1. LET s == [fake[f] EXCEPT !.custom_fake = c] IN
          s \in FakeStruct /\ Alike(s, fake[f])
    BY <1>1 DEF FakeStruct, Alike, Custom
  <2>2. Set(f, [fake[f] EXCEPT !.custom_fake = c])
    BY <1>4 DEF SetCustomFake
  <2> QED BY <2>1, <2>2, SetPreserves
<1>5. ASSUME NEW c \in CustomFake, NEW d \in CustomFake, SET_CUSTOM_FAKE_SEQ(f, <<c, d>>)
      PROVE  FakeInv'
  <2>1. <<c, d>> \in Seq(Custom)
    BY DEF Custom
  <2>2. \A q \in Seq(Custom) : LET s == [fake[f] EXCEPT !.custom_fake_seq = q] IN
          s \in FakeStruct /\ Alike(s, fake[f])
    BY <1>1 DEF FakeStruct, Alike
  <2>3. Set(f, [fake[f] EXCEPT !.custom_fake_seq = <<c, d>>])
    BY <1>5 DEF SET_CUSTOM_FAKE_SEQ
  <2> QED BY <2>1, <2>2, <2>3, SetPreserves
<1> QED BY <1>2, <1>3, <1>4, <1>5

(* A fake is called.                                                       *)
LEMMA CallPreserves ==
  ASSUME FakeInv, NEW f \in Fake, NEW k, NEW n \in Nat, Called(f, k, n)
  PROVE  FakeInv'
<1> DEFINE args == [i \in 1 .. n |-> <<i, made>>]
           o == \E i \in DOMAIN frames : frames[i].f = f
           c == [f |-> f, at |-> "entered", running |-> NoValue, nth |-> Len(truth[f]) + 1]
           new == Append(Overlapped(truth[f]), NewCall(args, o))
<1>1. /\ FakeTypeOK /\ made \in Nat /\ made' = made + 1
      /\ fake[f] \in FakeStruct /\ truth[f] \in Seq(Call) /\ Len(truth[f]) \in Nat
      /\ UNCHANGED <<kind, arity, settings>>
  BY DEF FakeInv, FakeTypeOK, Called, MayCall
<1>2. args \in Args
  <2>1. args \in [1 .. n -> Nat \X Nat]
    BY <1>1
  <2> HIDE DEF args
  <2> QED BY <2>1, FunctionIsSeq DEF Args
<1>3. o \in BOOLEAN
  OBVIOUS
<1>4. fake' = [fake EXCEPT ![f] = Recorded(fake[f], args)]
  BY <1>1 DEF Called, FakeTypeOK
<1>5. truth' = [truth EXCEPT ![f] = new]
  BY <1>1 DEF Called, FakeTypeOK, NewCall
<1>6. frames' = Append(Outer, c) /\ order' = Append(order, f)
      /\ call_history' = IF Len(call_history) < CallHistoryLen THEN Append(call_history, f)
                         ELSE call_history
  BY DEF Called, RegisterCall
<1>7. c \in Frame /\ c.f = f /\ c.nth = Len(truth[f]) + 1
  BY <1>1 DEF Frame, Custom
<1>8. \A i \in 1 .. Len(frames) : frames[i].f = f => o
  BY DEF FakeInv, FakeTypeOK
<1> HIDE DEF args, o, c
<1>9. new \in Seq(Call) /\ Recorded(fake[f], args) \in FakeStruct
      /\ Records(Recorded(fake[f], args), kind[f], new)
  <2>1. Records(fake[f], kind[f], truth[f])
    BY DEF FakeInv
  <2> QED BY <1>1, <1>2, <1>3, <2>1, RecordedKeeps, CalledIs
<1>10. /\ Outer \in Seq(Frame) /\ Len(Outer) = Len(frames)
       /\ \A i \in 1 .. Len(frames) : Outer[i].f = frames[i].f /\ Outer[i].nth = frames[i].nth
  BY <1>1, OuterIs DEF FakeTypeOK
<1>11. Nested(frames', truth')
  <2>1. Nested(Outer, truth)
    BY <1>10, NestedSame DEF FakeInv
  <2>2. \A i \in 1 .. Len(Outer) : Outer[i].f = f => o
    BY <1>8, <1>10
  <2>3. truth \in [Fake -> Seq(Call)]
    BY <1>1 DEF FakeTypeOK
  <2>4. Nested(Append(Outer, c), [truth EXCEPT ![f] = Append(Overlapped(@), NewCall(args, o))])
    BY <1>2, <1>3, <1>7, <1>10, <2>1, <2>2, <2>3, CalledNested
  <2>5. truth' = [truth EXCEPT ![f] = Append(Overlapped(@), NewCall(args, o))]
    BY <1>5, <2>3
  <2> QED BY <1>6, <2>4, <2>5
<1> HIDE DEF new
<1>12. frames' \in Seq(Frame) /\ order' \in Seq(Fake)
  BY <1>1, <1>6, <1>7, <1>10 DEF FakeTypeOK
<1>13. FakeTypeOK'
  BY <1>1, <1>4, <1>5, <1>9, <1>12 DEF FakeTypeOK
<1>14. call_history' = UpTo(CallHistoryLen, order')
  <2>1. UpTo(CallHistoryLen, Append(order, f)) =
          IF Len(UpTo(CallHistoryLen, order)) < CallHistoryLen
          THEN Append(UpTo(CallHistoryLen, order), f) ELSE UpTo(CallHistoryLen, order)
    BY <1>1, UpToAppend, EffAssumption DEF FakeTypeOK
  <2> QED BY <1>6, <2>1 DEF FakeInv
<1>15. ASSUME NEW g \in Fake
       PROVE  Records(fake'[g], kind'[g], truth'[g])
  <2>1. CASE g = f
    <3>1. fake'[f] = Recorded(fake[f], args) /\ truth'[f] = new
      BY <1>1, <1>4, <1>5 DEF FakeTypeOK
    <3> QED BY <1>1, <1>9, <2>1, <3>1
  <2>2. CASE g # f
    <3>1. fake'[g] = fake[g] /\ truth'[g] = truth[g]
      BY <1>1, <1>4, <1>5, <2>2 DEF FakeTypeOK
    <3> QED BY <1>1, <3>1 DEF FakeInv
  <2> QED BY <2>1, <2>2
<1> QED BY <1>11, <1>13, <1>14, <1>15 DEF FakeInv

(* The test or a custom fake resets a fake, or the global history.         *)
LEMMA ResetPreserves ==
  ASSUME FakeInv, NEW f \in Fake, RESET_FAKE(f)
  PROVE  FakeInv'
<1> DEFINE Reset(i) == IF frames[i].f = f THEN [Outer[i] EXCEPT !.nth = 0] ELSE Outer[i]
           new == [i \in 1 .. Len(frames) |-> Reset(i)]
<1>1. /\ FakeTypeOK /\ made' \in Nat /\ Len(frames) \in Nat
      /\ fake' = [fake EXCEPT ![f] = Cleared] /\ truth' = [truth EXCEPT ![f] = <<>>]
      /\ UNCHANGED <<kind, arity, call_history, settings, order>>
  BY DEF FakeInv, FakeTypeOK, RESET_FAKE, MayCall
<1>2. DOMAIN frames = 1 .. Len(frames)
  BY <1>1 DEF FakeTypeOK
<1>3. frames' = new
  BY <1>2 DEF RESET_FAKE
<1>4. /\ Outer \in Seq(Frame) /\ Len(Outer) = Len(frames)
      /\ \A i \in 1 .. Len(frames) : Outer[i].f = frames[i].f /\ Outer[i].nth = frames[i].nth
  BY <1>1, OuterIs DEF FakeTypeOK
<1>5. ASSUME NEW i \in 1 .. Len(frames)
      PROVE  /\ Reset(i) \in Frame /\ Reset(i).f = frames[i].f
             /\ Reset(i).nth = IF frames[i].f = f THEN 0 ELSE frames[i].nth
  <2>1. Outer[i] \in Frame
    BY <1>4
  <2>2. [Outer[i] EXCEPT !.nth = 0] \in Frame /\ [Outer[i] EXCEPT !.nth = 0].f = Outer[i].f
        /\ [Outer[i] EXCEPT !.nth = 0].nth = 0
    BY <2>1 DEF Frame
  <2> QED BY <1>4, <2>1, <2>2
<1> HIDE DEF Reset
<1>6. /\ new \in [1 .. Len(frames) -> Frame]
      /\ \A i \in 1 .. Len(frames) :
           new[i].f = frames[i].f /\ new[i].nth = IF frames[i].f = f THEN 0 ELSE frames[i].nth
  BY <1>5
<1> HIDE DEF new
<1>7. new \in Seq(Frame) /\ Len(new) = Len(frames)
  BY <1>1, <1>6, FunctionIsSeq
<1>8. Nested(frames', truth')
  <2>1. truth \in [Fake -> Seq(Call)] /\ frames \in Seq(Frame) /\ Nested(frames, truth)
    BY DEF FakeInv, FakeTypeOK
  <2>2. Nested(new, [truth EXCEPT ![f] = <<>>])
    BY <1>6, <1>7, <2>1, ResetNested
  <2> QED BY <1>1, <1>3, <2>2
<1>9. FakeTypeOK'
  BY <1>1, <1>3, <1>7, EmptyRecords DEF FakeTypeOK
<1>10. ASSUME NEW g \in Fake
       PROVE  Records(fake'[g], kind'[g], truth'[g])
  <2>1. CASE g = f
    <3>1. fake'[f] = Cleared /\ truth'[f] = <<>>
      BY <1>1 DEF FakeTypeOK
    <3> QED BY <2>1, <3>1, EmptyRecords
  <2>2. CASE g # f
    <3>1. fake'[g] = fake[g] /\ truth'[g] = truth[g]
      BY <1>1, <2>2 DEF FakeTypeOK
    <3> QED BY <1>1, <3>1 DEF FakeInv
  <2> QED BY <2>1, <2>2
<1> QED BY <1>1, <1>8, <1>9, <1>10 DEF FakeInv

(* EFF_RESET_HISTORY clears the order of calls only.                       *)
LEMMA HistoryResetPreserves ==
  ASSUME FakeInv, EFF_RESET_HISTORY
  PROVE  FakeInv'
<1>1. /\ FakeTypeOK /\ made' \in Nat /\ call_history' = <<>> /\ order' = <<>>
      /\ frames' = Outer /\ UNCHANGED <<kind, arity, fake, settings, truth>>
  BY DEF FakeInv, FakeTypeOK, EFF_RESET_HISTORY, MayCall
<1>2. /\ Outer \in Seq(Frame) /\ Len(Outer) = Len(frames)
      /\ \A i \in 1 .. Len(frames) : Outer[i].f = frames[i].f /\ Outer[i].nth = frames[i].nth
  BY <1>1, OuterIs DEF FakeTypeOK
<1>3. Nested(Outer, truth)
  BY <1>2, NestedSame DEF FakeInv
<1>4. FakeTypeOK'
  BY <1>1, <1>2, EmptySeq DEF FakeTypeOK
<1>5. call_history' = UpTo(CallHistoryLen, order')
  BY <1>1, UpToEmpty, EffAssumption
<1>6. Nested(frames', truth')
  BY <1>1, <1>3
<1> QED BY <1>1, <1>4, <1>5, <1>6 DEF FakeInv

LEMMA IndexSet ==
  ASSUME NEW s \in FakeStruct
  PROVE  /\ LET t == [s EXCEPT !.custom_fake_idx = s.custom_fake_idx + 1] IN
              t \in FakeStruct /\ Alike(t, s)
         /\ LET t == [s EXCEPT !.return_val_idx = s.return_val_idx + 1] IN
              t \in FakeStruct /\ Alike(t, s)
  <1>1. s.custom_fake_idx + 1 \in Nat /\ s.return_val_idx + 1 \in Nat
    BY DEF FakeStruct
  <1>2. \A n \in Nat :
          /\ [s EXCEPT !.custom_fake_idx = n] \in FakeStruct
          /\ [s EXCEPT !.return_val_idx = n] \in FakeStruct
    BY DEF FakeStruct
  <1>3. \A n \in Nat :
          /\ Alike([s EXCEPT !.custom_fake_idx = n], s)
          /\ Alike([s EXCEPT !.return_val_idx = n], s)
    BY DEF FakeStruct, Alike
  <1> QED BY <1>1, <1>2, <1>3

(* A custom fake begins or, in a fake without a value, makes way for the   *)
(* next.                                                                   *)
LEMMA ProgressPreserves ==
  ASSUME FakeInv, frames # <<>>, NEW c \in Custom,
         NEW at \in {"entered", "in sequence", "after sequence", "in custom fake"},
         NEW s \in FakeStruct, Alike(s, Struct),
         frames' = Progress(at, c), fake' = [fake EXCEPT ![Inner.f] = s],
         UNCHANGED <<kind, arity, call_history, settings, made, truth, order>>
  PROVE  FakeInv'
<1>1. frames \in Seq(Frame) /\ Nested(frames, truth) /\ made \in Nat
  BY DEF FakeInv, FakeTypeOK
<1>2. Inner.f \in Fake
  BY <1>1, InnerIs
<1>3. /\ Progress(at, c) \in Seq(Frame) /\ Len(Progress(at, c)) = Len(frames)
      /\ \A i \in 1 .. Len(frames) :
           Progress(at, c)[i].f = frames[i].f /\ Progress(at, c)[i].nth = frames[i].nth
  BY <1>1, ProgressIs
<1>4. Nested(frames', truth) /\ frames' \in Seq(Frame) /\ made' \in Nat
  BY <1>1, <1>3, NestedSame
<1> QED BY <1>2, <1>4, MembersKept DEF Struct

(* A step of a custom fake that runs, and one from a sequence that begins. *)
LEMMA RunPreserves ==
  ASSUME FakeInv, RunCustomFakeSeq \/ RunCustomFake \/ SequenceReturns
  PROVE  FakeInv'
<1>1. frames # <<>> /\ fake \in [Fake -> FakeStruct] /\ frames \in Seq(Frame)
  BY DEF FakeInv, FakeTypeOK, RunCustomFakeSeq, RunCustomFake, SequenceReturns, Between
<1>2. Inner.f \in Fake
  BY <1>1, InnerIs
<1>3. Struct \in FakeStruct /\ Alike(Struct, Struct) /\ fake = [fake EXCEPT ![Inner.f] = Struct]
  BY <1>1, <1>2 DEF Struct, Alike
<1>4. CASE RunCustomFakeSeq
  <2> DEFINE seq == Struct.custom_fake_seq
             idx == Struct.custom_fake_idx
             s == [Struct EXCEPT !.custom_fake_idx = idx + 1]
  <2>1. seq \in Seq(Custom) /\ seq # <<>> /\ idx \in Nat
    BY <1>3, <1>4 DEF RunCustomFakeSeq, FakeStruct
  <2>2. s \in FakeStruct /\ Alike(s, Struct)
    BY <1>3, IndexSet
  <2>3. CASE idx < Len(seq)
    <3>1. seq[idx + 1] \in Custom
      BY <2>1, <2>3
    <3>2. frames' = Progress("in sequence", seq[idx + 1])
      BY <1>4, <2>3 DEF RunCustomFakeSeq
    <3>3. fake' = [fake EXCEPT ![Inner.f] = s]
      <4>1. fake' = [fake EXCEPT ![Inner.f].custom_fake_idx = idx + 1]
        BY <1>4, <2>3 DEF RunCustomFakeSeq
      <4> QED BY <1>1, <1>2, <4>1 DEF Struct
    <3>4. UNCHANGED <<kind, arity, call_history, settings, made, truth, order>>
      BY <1>4 DEF RunCustomFakeSeq
    <3> HIDE DEF seq, idx, s
    <3> QED BY <1>1, <2>2, <3>1, <3>2, <3>3, <3>4, ProgressPreserves
  <2>4. CASE ~(idx < Len(seq))
    <3>1. seq[Len(seq)] \in Custom
      BY <2>1
    <3>2. frames' = Progress("in sequence", seq[Len(seq)]) /\ fake' = fake
      BY <1>4, <2>4 DEF RunCustomFakeSeq
    <3>3. UNCHANGED <<kind, arity, call_history, settings, made, truth, order>>
      BY <1>4 DEF RunCustomFakeSeq
    <3> HIDE DEF seq, idx, s
    <3> QED BY <1>1, <1>3, <3>1, <3>2, <3>3, ProgressPreserves
  <2> QED BY <2>3, <2>4
<1>5. CASE RunCustomFake
  <2>1. Struct.custom_fake \in Custom
    BY <1>3 DEF FakeStruct
  <2> QED BY <1>1, <1>3, <1>5, <2>1, ProgressPreserves DEF RunCustomFake
<1>6. CASE SequenceReturns
  <2>1. NoValue \in Custom
    BY DEF Custom
  <2> QED BY <1>1, <1>3, <1>6, <2>1, ProgressPreserves DEF SequenceReturns
<1> QED BY <1>4, <1>5, <1>6

(* A fake returns.                                                         *)
LEMMA ReturnAct ==
  ASSUME FakeInv, frames # <<>>, NEW s \in FakeStruct, Alike(s, Struct), NEW v \in Value,
         FakeReturns(s, v)
  PROVE  FakeInv'
<1> DEFINE f == Inner.f
           n == Inner.nth
           t == IF kind[f] = "value" THEN SaveRetHistory(s, v) ELSE s
           new == Returned(n, truth[f], v)
<1>1. /\ frames \in Seq(Frame) /\ Nested(frames, truth) /\ FakeTypeOK
      /\ truth \in [Fake -> Seq(Call)]
  BY DEF FakeInv, FakeTypeOK
<1>2. Inner = frames[Len(frames)] /\ Len(frames) \in 1 .. Len(frames)
  BY <1>1, InnerIs
<1>3. f \in Fake /\ n \in Nat /\ truth[f] \in Seq(Call)
  BY <1>1, InnerIs
<1>4. UnderWay(n, truth[f])
  BY <1>1, <1>2 DEF Nested
<1>5. /\ fake' = [fake EXCEPT ![f] = t] /\ frames' = Front(frames)
      /\ UNCHANGED <<kind, arity, call_history, made, order>>
  BY DEF FakeReturns
<1>6. truth' = [truth EXCEPT ![f] = new]
  <2>1. CASE n = 0
    BY <1>1, <1>3, <2>1 DEF FakeReturns, Returned
  <2>2. CASE n # 0
    <3>1. truth' = [truth EXCEPT ![f][n].ret = v]
      BY <2>2 DEF FakeReturns
    <3>2. new = [truth[f] EXCEPT ![n].ret = v]
      BY <2>2 DEF Returned
    <3> HIDE DEF f, n
    <3> QED BY <1>1, <1>3, <3>1, <3>2
  <2> QED BY <2>1, <2>2
<1>7. Records(s, kind[f], truth[f])
  BY <1>3, AlikeRecords DEF FakeInv, Struct
<1>8. Front(frames) \in Seq(Frame)
  BY <1>1, FrontOf
<1>9. Nested(frames', truth')
  <2>1. Nested(Front(frames), [truth EXCEPT ![f] = new])
    BY <1>1, <1>2, ReturnNested
  <2> QED BY <1>5, <1>6, <2>1
<1> HIDE DEF f, n
<1>10. t \in FakeStruct /\ Records(t, kind[f], new)
  BY <1>3, <1>4, <1>7, ReturnRecords
<1>11. new \in Seq(Call)
  <2>1. n \in 0 .. Len(truth[f])
    BY <1>3, <1>4 DEF UnderWay
  <2> QED BY <1>3, <2>1, ReturnedIs
<1> HIDE DEF t, new
<1>12. FakeTypeOK'
  BY <1>1, <1>3, <1>5, <1>6, <1>8, <1>10, <1>11 DEF FakeTypeOK
<1>13. ASSUME NEW g \in Fake
       PROVE  Records(fake'[g], kind'[g], truth'[g])
  <2>1. CASE g = f
    <3>1. fake'[f] = t /\ truth'[f] = new
      BY <1>1, <1>3, <1>5, <1>6 DEF FakeTypeOK
    <3> QED BY <1>5, <1>10, <2>1, <3>1
  <2>2. CASE g # f
    <3>1. fake'[g] = fake[g] /\ truth'[g] = truth[g]
      BY <1>1, <1>3, <1>5, <1>6, <2>2 DEF FakeTypeOK
    <3> QED BY <1>5, <3>1 DEF FakeInv
  <2> QED BY <2>1, <2>2
<1> QED BY <1>5, <1>9, <1>12, <1>13 DEF FakeInv

(* The return of the innermost call.                                       *)
LEMMA ReturnPreserves ==
  ASSUME FakeInv, CustomFakeReturns \/ VoidReturns \/ ReturnFakeResult
  PROVE  FakeInv'
<1>1. frames # <<>> /\ fake \in [Fake -> FakeStruct] /\ frames \in Seq(Frame)
  BY DEF FakeInv, FakeTypeOK, CustomFakeReturns, VoidReturns, ReturnFakeResult, Between
<1>2. Inner.f \in Fake
  BY <1>1, InnerIs
<1>3. Struct \in FakeStruct /\ Alike(Struct, Struct)
  BY <1>1, <1>2 DEF Struct, Alike
<1>4. CASE CustomFakeReturns
  <2>1. NoValue \in Value /\ "custom" \in Value
    BY DEF Value
  <2>2. FakeReturns(Struct, IF kind[Inner.f] = "value" THEN "custom" ELSE NoValue)
    BY <1>4 DEF CustomFakeReturns
  <2> QED BY <1>1, <1>3, <2>1, <2>2, ReturnAct
<1>5. CASE VoidReturns
  <2>1. NoValue \in Value
    BY DEF Value
  <2> QED BY <1>1, <1>3, <1>5, <2>1, ReturnAct DEF VoidReturns
<1>6. CASE ReturnFakeResult
  <2> DEFINE seq == Struct.return_val_seq
             idx == Struct.return_val_idx
             s == [Struct EXCEPT !.return_val_idx = idx + 1]
  <2>1. seq \in Seq(Value) /\ idx \in Nat /\ Struct.return_val \in Value
    BY <1>3 DEF FakeStruct
  <2>2. s \in FakeStruct /\ Alike(s, Struct)
    BY <1>3, IndexSet
  <2>3. \/ FakeReturns(Struct, Struct.return_val)
        \/ idx < Len(seq) /\ FakeReturns(s, seq[idx + 1])
        \/ seq # <<>> /\ FakeReturns(Struct, seq[Len(seq)])
    BY <1>6 DEF ReturnFakeResult
  <2> HIDE DEF s
  <2>4. idx < Len(seq) => seq[idx + 1] \in Value
    BY <2>1
  <2>5. seq # <<>> => seq[Len(seq)] \in Value
    BY <2>1
  <2> HIDE DEF seq, idx
  <2> QED BY <1>1, <1>3, <2>1, <2>2, <2>3, <2>4, <2>5, ReturnAct
<1> QED BY <1>4, <1>5, <1>6

LEMMA FakeStep == FakeInv /\ [FakeNext]_eff_vars => FakeInv'
<1> SUFFICES ASSUME FakeInv, [FakeNext]_eff_vars
             PROVE  FakeInv'
  OBVIOUS
<1>1. ASSUME NEW f \in Fake, NEW k \in {"void", "value"}, NEW n \in 0 .. 10, Called(f, k, n)
      PROVE  FakeInv'
  BY <1>1, CallPreserves
<1>2. ASSUME NEW f \in Fake, RESET_FAKE(f)
      PROVE  FakeInv'
  BY <1>2, ResetPreserves
<1>3. ASSUME NEW f \in Fake,
             \/ SET_RETURN_SEQ(f, <<"r1", "r2">>) \/ SetReturnVal(f, "r")
             \/ \E c \in CustomFake : SetCustomFake(f, c)
             \/ \E c, d \in CustomFake : SET_CUSTOM_FAKE_SEQ(f, <<c, d>>)
      PROVE  FakeInv'
  BY <1>3, SettingsPreserve
<1>4. CASE UNCHANGED eff_vars
  <2>1. FakeTypeOK'
    BY <1>4 DEF eff_vars, FakeInv, FakeTypeOK
  <2>2. Nested(frames', truth') /\ call_history' = UpTo(CallHistoryLen, order')
        /\ \A f \in Fake : Records(fake'[f], kind'[f], truth'[f])
    BY <1>4 DEF eff_vars, FakeInv
  <2> QED BY <2>1, <2>2 DEF FakeInv
<1>5. ASSUME NEW f \in Fake,
             \/ FAKE_VOID_FUNC0(f) \/ FAKE_VOID_FUNC1(f) \/ FAKE_VOID_FUNC2(f)
             \/ FAKE_VOID_FUNC3(f) \/ FAKE_VOID_FUNC4(f) \/ FAKE_VOID_FUNC5(f)
             \/ FAKE_VOID_FUNC6(f) \/ FAKE_VOID_FUNC7(f) \/ FAKE_VOID_FUNC8(f)
             \/ FAKE_VOID_FUNC9(f) \/ FAKE_VOID_FUNC10(f)
      PROVE  \E k \in {"void", "value"}, n \in 0 .. 10 : Called(f, k, n)
  BY <1>5 DEF FAKE_VOID_FUNC0, FAKE_VOID_FUNC1, FAKE_VOID_FUNC2, FAKE_VOID_FUNC3,
              FAKE_VOID_FUNC4, FAKE_VOID_FUNC5, FAKE_VOID_FUNC6, FAKE_VOID_FUNC7,
              FAKE_VOID_FUNC8, FAKE_VOID_FUNC9, FAKE_VOID_FUNC10
<1>6. ASSUME NEW f \in Fake,
             \/ FAKE_VALUE_FUNC0(f) \/ FAKE_VALUE_FUNC1(f) \/ FAKE_VALUE_FUNC2(f)
             \/ FAKE_VALUE_FUNC3(f) \/ FAKE_VALUE_FUNC4(f) \/ FAKE_VALUE_FUNC5(f)
             \/ FAKE_VALUE_FUNC6(f) \/ FAKE_VALUE_FUNC7(f) \/ FAKE_VALUE_FUNC8(f)
             \/ FAKE_VALUE_FUNC9(f) \/ FAKE_VALUE_FUNC10(f)
      PROVE  \E k \in {"void", "value"}, n \in 0 .. 10 : Called(f, k, n)
  BY <1>6 DEF FAKE_VALUE_FUNC0, FAKE_VALUE_FUNC1, FAKE_VALUE_FUNC2, FAKE_VALUE_FUNC3,
              FAKE_VALUE_FUNC4, FAKE_VALUE_FUNC5, FAKE_VALUE_FUNC6, FAKE_VALUE_FUNC7,
              FAKE_VALUE_FUNC8, FAKE_VALUE_FUNC9, FAKE_VALUE_FUNC10
<1> QED BY <1>1, <1>2, <1>3, <1>4, <1>5, <1>6,
           HistoryResetPreserves, RunPreserves, ReturnPreserves DEF FakeNext

LEMMA FakeAlways == FakeSpec => []FakeInv
<1> QED BY FakeInitially, FakeStep, PTL DEF FakeSpec

(* FakeRecordsCalls holds whatever the lengths of the histories, however   *)
(* many fakes there are and however deep their calls nest: the record of a *)
(* fake, the head of every generated function and SAVE_RET_HISTORY agree   *)
(* with the calls that were made since its reset.                          *)
THEOREM FakesRecordCalls == FakeSpec => []FakeRecordsCalls
<1>1. FakeInv => FakeRecordsCalls
  BY DEF FakeInv, FakeRecordsCalls, Records
<1> QED BY <1>1, FakeAlways, PTL

(***************************************************************************)
(* The test runners, for suites of any length, any table of tests and any  *)
(* events. What FlattenSeq computes is shown along its least prefix, as    *)
(* the chains of superstates are above.                                    *)
(***************************************************************************)

(* f holds the first n concatenations of the sequences in seqs.            *)
Flattens(f, seqs, n) ==
  f = [i \in 1 .. n |-> IF i = 1 THEN seqs[i] ELSE f[i - 1] \o seqs[i]]

SameUpTo(s, t, n) == \A i \in 1 .. n : s[i] = t[i]

LEMMA FlattensExists ==
  ASSUME NEW seqs, NEW n \in Nat
  PROVE  \E f : Flattens(f, seqs, n)
  <1> DEFINE none == {k \in Nat : ~\E f : Flattens(f, seqs, k)}
  <1>1. ASSUME none # {}
        PROVE  FALSE
    <2>1. PICK k \in none : \A j \in none : k <= j
      BY <1>1, LeastNatural
    <2>2. k # 0
      <3>1. Flattens([i \in 1 .. 0 |-> 0], seqs, 0)
        BY DEF Flattens
      <3> QED BY <2>1, <3>1
    <2>3. PICK f : Flattens(f, seqs, k - 1)
      BY <2>1, <2>2
    <2> DEFINE g == [i \in 1 .. k |->
                 IF i < k THEN f[i] ELSE IF i = 1 THEN seqs[i] ELSE f[k - 1] \o seqs[i]]
    <2>4. k \in Nat \ {0}
      BY <2>1, <2>2
    <2>5. \A i \in 1 .. k : g[i] = IF i = 1 THEN seqs[i] ELSE g[i - 1] \o seqs[i]
      <3> TAKE i \in 1 .. k
      <3>1. CASE i < k
        <4>1. i \in 1 .. k - 1 /\ g[i] = f[i]
          BY <2>4, <3>1
        <4>2. f[i] = IF i = 1 THEN seqs[i] ELSE f[i - 1] \o seqs[i]
          BY <2>3, <4>1 DEF Flattens
        <4>3. i # 1 => g[i - 1] = f[i - 1]
          BY <2>4, <3>1
        <4> QED BY <4>1, <4>2, <4>3
      <3>2. CASE i = k
        BY <2>4, <3>2
      <3> QED BY <2>4, <3>1, <3>2
    <2>6. g = [i \in 1 .. k |-> g[i]]
      OBVIOUS
    <2> HIDE DEF g
    <2>7. Flattens(g, seqs, k)
      BY <2>5, <2>6 DEF Flattens
    <2> QED BY <2>1, <2>7
  <1> QED BY <1>1

(* Equal sequences have equal concatenations.                              *)
LEMMA FlattensSame ==
  ASSUME NEW s, NEW t, NEW f, NEW g, NEW m \in Nat, NEW n \in Nat, n <= m,
         Flattens(f, s, n), Flattens(g, t, m), SameUpTo(s, t, n)
  PROVE  \A i \in 1 .. n : f[i] = g[i]
  <1> DEFINE differ == {k \in 1 .. n : f[k] # g[k]}
  <1>1. ASSUME differ # {}
        PROVE  FALSE
    <2>0. differ \in SUBSET Nat
      OBVIOUS
    <2>1. PICK k \in differ : \A j \in differ : k <= j
      <3> HIDE DEF differ
      <3> QED BY <1>1, <2>0, LeastNatural
    <2>2. /\ k \in 1 .. n /\ k \in 1 .. m
          /\ k # 1 => k - 1 \in 1 .. n /\ k - 1 \notin differ
      BY <2>1
    <2>3. f[k] = IF k = 1 THEN s[k] ELSE f[k - 1] \o s[k]
      BY <2>2 DEF Flattens
    <2>4. g[k] = IF k = 1 THEN t[k] ELSE g[k - 1] \o t[k]
      BY <2>2 DEF Flattens
    <2> QED BY <2>1, <2>2, <2>3, <2>4 DEF SameUpTo
  <1> QED BY <1>1

LEMMA FlattensInSeq ==
  ASSUME NEW S, NEW s \in Seq(Seq(S)), NEW f, Flattens(f, s, Len(s))
  PROVE  \A i \in 1 .. Len(s) : f[i] \in Seq(S)
  <1> DEFINE bad == {k \in 1 .. Len(s) : f[k] \notin Seq(S)}
  <1>1. ASSUME bad # {}
        PROVE  FALSE
    <2>0. bad \in SUBSET Nat
      OBVIOUS
    <2>1. PICK k \in bad : \A j \in bad : k <= j
      <3> HIDE DEF bad
      <3> QED BY <1>1, <2>0, LeastNatural
    <2>2. /\ k \in 1 .. Len(s) /\ s[k] \in Seq(S)
          /\ k # 1 => k - 1 \in 1 .. Len(s) /\ k - 1 \notin bad
      BY <2>1
    <2>3. f[k] = IF k = 1 THEN s[k] ELSE f[k - 1] \o s[k]
      BY <2>2 DEF Flattens
    <2>4. k # 1 => f[k - 1] \o s[k] \in Seq(S)
      BY <2>2, ConcatProperties
    <2> QED BY <2>1, <2>2, <2>3, <2>4
  <1> QED BY <1>1

(* What the definition of FlattenSeq chooses.                              *)
LEMMA FlattenSeqIs ==
  ASSUME NEW seqs, Len(seqs) \in Nat \ {0}
  PROVE  \E f : Flattens(f, seqs, Len(seqs)) /\ FlattenSeq(seqs) = f[Len(seqs)]
  <1> DEFINE f == CHOOSE f : Flattens(f, seqs, Len(seqs))
  <1>1. Flattens(f, seqs, Len(seqs))
    BY FlattensExists
  <1>2. FlattenSeq(seqs) = f[Len(seqs)]
    BY DEF FlattenSeq, Flattens
  <1> QED BY <1>1, <1>2

(* Flattening goes on where it was when a sequence is added.               *)
LEMMA FlattenAppend ==
  ASSUME NEW S, NEW seqs \in Seq(Seq(S)), NEW x \in Seq(S)
  PROVE  /\ FlattenSeq(seqs) \in Seq(S)
         /\ FlattenSeq(Append(seqs, x)) = FlattenSeq(seqs) \o x
  <1> DEFINE old == Len(seqs)
             len == old + 1
             new == Append(seqs, x)
  <1>1. /\ old \in Nat /\ new \in Seq(Seq(S)) /\ Len(new) = len /\ new[len] = x
        /\ SameUpTo(seqs, new, old)
    BY DEF SameUpTo
  <1> HIDE DEF new
  <1>2. /\ len \in Nat \ {0} /\ len \in 1 .. len /\ (len = 1 <=> old = 0)
        /\ len - 1 = old /\ old <= len
    BY <1>1
  <1> HIDE DEF len, old
  <1>3. PICK g : Flattens(g, new, len) /\ FlattenSeq(new) = g[len]
    BY <1>1, <1>2, FlattenSeqIs
  <1>4. g[len] = IF len = 1 THEN new[len] ELSE g[len - 1] \o new[len]
    BY <1>2, <1>3 DEF Flattens
  <1>5. CASE old = 0
    <2>1. FlattenSeq(seqs) = seqs /\ seqs = <<>>
      BY <1>5 DEF FlattenSeq, old
    <2>2. <<>> \o x = x /\ <<>> \in Seq(S)
      BY ConcatEmptySeq
    <2> QED BY <1>1, <1>2, <1>3, <1>4, <1>5, <2>1, <2>2 DEF new
  <1>6. CASE old # 0
    <2>1. PICK f : Flattens(f, seqs, old) /\ FlattenSeq(seqs) = f[old]
      BY <1>1, <1>6, FlattenSeqIs DEF old
    <2>2. \A i \in 1 .. old : f[i] \in Seq(S)
      BY <2>1, FlattensInSeq DEF old
    <2>3. len \in Nat /\ old \in 1 .. old
      BY <1>1, <1>2, <1>6
    <2>4. \A i \in 1 .. old : f[i] = g[i]
      BY <1>1, <1>2, <1>3, <2>1, <2>3, FlattensSame
    <2> QED BY <1>1, <1>2, <1>3, <1>4, <1>6, <2>1, <2>2, <2>3, <2>4 DEF new
  <1> QED BY <1>5, <1>6

-----------------------------------------------------------------------------
(* What a suite has come to, as its report shows it.                       *)
Result == {"passed", "skipped", "failed"}
Fixture == {"setUp", "tearDown"}
Line ==
  {<<"line", LineWidth>>} \cup {<<"intro", n>> : n \in Nat} \cup {<<r, 0>> : r \in Result}
    \cup {<<"summary", c>> : c \in Nat \X Nat \X Nat} \cup {<<"verdict", b>> : b \in BOOLEAN}

Header == <<Rule, Rule, Rule, Rule>>
FixturesOf(o) ==
  CASE o = "skipped" -> <<>>
    [] o = "passed" -> <<"setUp", "tearDown">>
    [] o = "failed" -> <<"setUp">>

Entry(k, o) == TestIntro(k) \o TestResult(o)
Entries(out) == [k \in DOMAIN out |-> Entry(k, out[k])]
Fixtures(out) == [k \in DOMAIN out |-> FixturesOf(out[k])]
Reported(out) == FlattenSeq(Entries(out))
Prepared(out) == FlattenSeq(Fixtures(out))
Tally(out, r) == Cardinality({k \in DOMAIN out : out[k] = r})

(* The lines of a report are lines.                                        *)
LEMMA LinesAre ==
  /\ Header \in Seq(Line) /\ \A n \in Nat : TestIntro(n) \in Seq(Line)
  /\ \A r \in Result : TestResult(r) \in Seq(Line) /\ TestResult(r) # <<>>
  /\ \A a, b, c \in Nat : Summary(a, b, c) \in Seq(Line)
  /\ \A b \in BOOLEAN : Verdict(b) \in Seq(Line)
  <1>1. Header \in Seq(Line)
    BY DEF Header, Line, Rule
  <1>2. ASSUME NEW n \in Nat
        PROVE  TestIntro(n) \in Seq(Line)
    <2>1. <<"intro", n>> \in Line
      BY DEF Line
    <2> QED BY <2>1 DEF TestIntro
  <1>3. ASSUME NEW r \in Result
        PROVE  TestResult(r) \in Seq(Line) /\ TestResult(r) # <<>>
    <2>1. <<r, 0>> \in Line
      BY DEF Line
    <2> QED BY <2>1 DEF TestResult
  <1>4. ASSUME NEW a \in Nat, NEW b \in Nat, NEW c \in Nat
        PROVE  Summary(a, b, c) \in Seq(Line)
    <2>1. <<"summary", <<a, b, c>>>> \in Line
      BY DEF Line
    <2> QED BY <2>1 DEF Summary
  <1>5. ASSUME NEW b \in BOOLEAN
        PROVE  Verdict(b) \in Seq(Line)
    <2>1. <<"verdict", b>> \in Line
      BY DEF Line
    <2> QED BY <2>1 DEF Verdict
  <1> QED BY <1>1, <1>2, <1>3, <1>4, <1>5

LEMMA FixturesAre ==
  /\ FixturesOf("skipped") = <<>> /\ FixturesOf("passed") = <<"setUp", "tearDown">>
  /\ FixturesOf("failed") = <<"setUp">>
  /\ \A o \in Result : FixturesOf(o) \in Seq(Fixture)
  BY DEF FixturesOf, Result, Fixture

LEMMA AppendIs ==
  ASSUME NEW S, NEW s \in Seq(S), NEW x \in S
  PROVE  Append(s, x) = [k \in 1 .. Len(s) + 1 |-> IF k = Len(s) + 1 THEN x ELSE s[k]]
  <1> DEFINE n == Len(s)
             t == Append(s, x)
  <1>1. /\ n \in Nat /\ t \in Seq(S) /\ Len(t) = n + 1 /\ t[n + 1] = x
        /\ \A k \in 1 .. n : t[k] = s[k]
    BY AppendProperties
  <1>2. t \in [1 .. n + 1 -> S]
    BY <1>1, LenProperties
  <1> HIDE DEF n, t
  <1>3. t = [k \in 1 .. n + 1 |-> t[k]]
    BY <1>2
  <1>4. \A k \in 1 .. n + 1 : t[k] = IF k = n + 1 THEN x ELSE s[k]
    <2>1. ASSUME NEW k \in 1 .. n + 1, k # n + 1
          PROVE  k \in 1 .. n
      BY <1>1, <2>1
    <2> QED BY <1>1, <2>1
  <1> QED BY <1>3, <1>4 DEF t, n

LEMMA ConcatAppend ==
  ASSUME NEW S, NEW s \in Seq(S), NEW t \in Seq(S), NEW x \in S
  PROVE  s \o Append(t, x) = Append(s \o t, x)
  <1>1. /\ Append(t, x) = t \o <<x>> /\ Append(s \o t, x) = (s \o t) \o <<x>>
        /\ <<x>> \in Seq(S) /\ s \o t \in Seq(S)
    <2>1. s \o t \in Seq(S)
      BY ConcatProperties
    <2> QED BY <2>1, AppendIsConcat
  <1> QED BY <1>1, ConcatAssociative

(* One result more.                                                        *)
LEMMA EntriesAppend ==
  ASSUME NEW out \in Seq(Result), NEW o \in Result
  PROVE  /\ Entries(out) \in Seq(Seq(Line))
         /\ Entries(Append(out, o)) = Append(Entries(out), Entry(Len(out) + 1, o))
         /\ Entry(Len(out) + 1, o) \in Seq(Line)
  <1> DEFINE n == Len(out)
             new == Append(out, o)
             old == Entries(out)
             e == Entry(n + 1, o)
  <1>1. /\ n \in Nat /\ DOMAIN out = 1 .. n /\ DOMAIN new = 1 .. n + 1 /\ new[n + 1] = o
        /\ \A k \in 1 .. n : new[k] = out[k] /\ out[k] \in Result
    OBVIOUS
  <1>2. ASSUME NEW k \in Nat, NEW r \in Result
        PROVE  Entry(k, r) \in Seq(Line)
    <2>1. TestIntro(k) \in Seq(Line) /\ TestResult(r) \in Seq(Line)
      BY LinesAre
    <2> QED BY <2>1, ConcatProperties DEF Entry
  <1> HIDE DEF n
  <1>3. old \in [1 .. n -> Seq(Line)] /\ \A k \in 1 .. n : old[k] = Entry(k, out[k])
    BY <1>1, <1>2 DEF Entries
  <1>4. e \in Seq(Line)
    BY <1>1, <1>2
  <1>5. Entries(new) = [k \in 1 .. n + 1 |-> Entry(k, new[k])]
    BY <1>1 DEF Entries
  <1> HIDE DEF old, e, new
  <1>6. old \in Seq(Seq(Line)) /\ Len(old) = n
    BY <1>1, <1>3, FunctionIsSeq
  <1>7. Append(old, e) = [k \in 1 .. n + 1 |-> IF k = n + 1 THEN e ELSE old[k]]
    BY <1>4, <1>6, AppendIs
  <1>8. \A k \in 1 .. n + 1 : Entry(k, new[k]) = IF k = n + 1 THEN e ELSE old[k]
    <2>1. ASSUME NEW k \in 1 .. n + 1, k # n + 1
          PROVE  k \in 1 .. n
      BY <1>1, <2>1
    <2> QED BY <1>1, <1>3, <2>1 DEF e
  <1> QED BY <1>4, <1>5, <1>6, <1>7, <1>8 DEF n, new, old, e

LEMMA FixturesAppend ==
  ASSUME NEW out \in Seq(Result), NEW o \in Result
  PROVE  /\ Fixtures(out) \in Seq(Seq(Fixture))
         /\ Fixtures(Append(out, o)) = Append(Fixtures(out), FixturesOf(o))
         /\ FixturesOf(o) \in Seq(Fixture)
  <1> DEFINE n == Len(out)
             new == Append(out, o)
             old == Fixtures(out)
  <1>1. /\ n \in Nat /\ DOMAIN out = 1 .. n /\ DOMAIN new = 1 .. n + 1 /\ new[n + 1] = o
        /\ \A k \in 1 .. n : new[k] = out[k] /\ out[k] \in Result
    OBVIOUS
  <1>2. \A r \in Result : FixturesOf(r) \in Seq(Fixture)
    BY FixturesAre
  <1> HIDE DEF n
  <1>3. old \in [1 .. n -> Seq(Fixture)] /\ \A k \in 1 .. n : old[k] = FixturesOf(out[k])
    BY <1>1, <1>2 DEF Fixtures
  <1>5. Fixtures(new) = [k \in 1 .. n + 1 |-> FixturesOf(new[k])]
    BY <1>1 DEF Fixtures
  <1> HIDE DEF old, new
  <1>6. old \in Seq(Seq(Fixture)) /\ Len(old) = n
    BY <1>1, <1>3, FunctionIsSeq
  <1>7. Append(old, FixturesOf(o)) = [k \in 1 .. n + 1 |-> IF k = n + 1 THEN FixturesOf(o) ELSE old[k]]
    BY <1>2, <1>6, AppendIs
  <1>8. \A k \in 1 .. n + 1 : FixturesOf(new[k]) = IF k = n + 1 THEN FixturesOf(o) ELSE old[k]
    <2>1. ASSUME NEW k \in 1 .. n + 1, k # n + 1
          PROVE  k \in 1 .. n
      BY <1>1, <2>1
    <2> QED BY <1>1, <1>3, <2>1
  <1> QED BY <1>2, <1>5, <1>6, <1>7, <1>8 DEF n, new, old

(* One outcome more is counted once.                                       *)
LEMMA TallyAppend ==
  ASSUME NEW out \in Seq(Result), NEW o \in Result, NEW r
  PROVE  /\ Tally(out, r) \in Nat
         /\ Tally(Append(out, o), r) = IF r = o THEN Tally(out, r) + 1 ELSE Tally(out, r)
  <1> DEFINE n == Len(out)
             new == Append(out, o)
             old == {k \in DOMAIN out : out[k] = r}
  <1>1. /\ n \in Nat /\ DOMAIN out = 1 .. n /\ DOMAIN new = 1 .. n + 1 /\ new[n + 1] = o
        /\ \A k \in 1 .. n : new[k] = out[k]
    OBVIOUS
  <1>2. IsFiniteSet(old) /\ n + 1 \notin old
    <2>1. IsFiniteSet(1 .. n) /\ old \in SUBSET (1 .. n)
      BY <1>1, FS_Interval
    <2> QED BY <1>1, <2>1, FS_Subset
  <1>3. {k \in DOMAIN new : new[k] = r} = IF r = o THEN old \cup {n + 1} ELSE old
    BY <1>1
  <1>4. Cardinality(old) \in Nat
    BY <1>2, FS_CardinalityType
  <1> HIDE DEF old, n, new
  <1>5. Cardinality(old \cup {n + 1}) = Cardinality(old) + 1
    BY <1>2, FS_AddElement
  <1> QED BY <1>3, <1>4, <1>5 DEF Tally, old, new

(* The report and the fixtures of one outcome more.                        *)
LEMMA OneMore ==
  ASSUME NEW out \in Seq(Result), NEW o \in Result
  PROVE  LET new == Append(out, o) IN
         /\ new \in Seq(Result) /\ Len(new) = Len(out) + 1
         /\ Reported(out) \in Seq(Line)
         /\ Reported(new) = Reported(out) \o Entry(Len(out) + 1, o)
         /\ Prepared(out) \in Seq(Fixture)
         /\ Prepared(new) = Prepared(out) \o FixturesOf(o)
  <1> DEFINE new == Append(out, o)
  <1>1. new \in Seq(Result) /\ Len(new) = Len(out) + 1
    OBVIOUS
  <1> HIDE DEF new
  <1>2. /\ FlattenSeq(Entries(out)) \in Seq(Line)
        /\ FlattenSeq(Append(Entries(out), Entry(Len(out) + 1, o))) =
             FlattenSeq(Entries(out)) \o Entry(Len(out) + 1, o)
    BY EntriesAppend, FlattenAppend
  <1>3. /\ FlattenSeq(Fixtures(out)) \in Seq(Fixture)
        /\ FlattenSeq(Append(Fixtures(out), FixturesOf(o))) =
             FlattenSeq(Fixtures(out)) \o FixturesOf(o)
    BY FixturesAppend, FlattenAppend
  <1>4. /\ Entries(new) = Append(Entries(out), Entry(Len(out) + 1, o))
        /\ Fixtures(new) = Append(Fixtures(out), FixturesOf(o))
    BY EntriesAppend, FixturesAppend DEF new
  <1> QED BY <1>1, <1>2, <1>3, <1>4 DEF Reported, Prepared, new

LEMMA NoneYet ==
  /\ Reported(<<>>) = <<>> /\ Prepared(<<>>) = <<>> /\ \A r : Tally(<<>>, r) = 0
  /\ FlattenSeq(<<>>) = <<>>
  <1>1. FlattenSeq(<<>>) = <<>>
    BY DEF FlattenSeq
  <1>2. Entries(<<>>) = <<>> /\ Fixtures(<<>>) = <<>>
    BY DEF Entries, Fixtures
  <1>3. ASSUME NEW r
        PROVE  Tally(<<>>, r) = 0
    <2>1. {k \in DOMAIN <<>> : <<>>[k] = r} = {}
      OBVIOUS
    <2> QED BY <2>1, FS_EmptySet DEF Tally
  <1> QED BY <1>1, <1>2, <1>3 DEF Reported, Prepared

-----------------------------------------------------------------------------
(* Tests of the table that are skipped in a row.                           *)
Skips(n) == [j \in 1 .. n |-> "skipped"]
SkipEntries(from, n) == [j \in 1 .. n |-> Entry(from + j, "skipped")]

Skipping(out, n) ==
  LET new == out \o Skips(n) IN
  /\ new \in Seq(Result) /\ Len(new) = Len(out) + n
  /\ SkipEntries(Len(out), n) \in Seq(Seq(Line))
  /\ Reported(new) = Reported(out) \o FlattenSeq(SkipEntries(Len(out), n))
  /\ Prepared(new) = Prepared(out)
  /\ Tally(new, "skipped") = Tally(out, "skipped") + n
  /\ Tally(new, "failed") = Tally(out, "failed")

LEMMA SkipsAre ==
  ASSUME NEW n \in Nat, NEW from \in Nat
  PROVE  /\ Skips(n) \in Seq(Result) /\ Len(Skips(n)) = n
         /\ Skips(n + 1) = Append(Skips(n), "skipped")
         /\ SkipEntries(from, n) \in Seq(Seq(Line)) /\ Len(SkipEntries(from, n)) = n
         /\ SkipEntries(from, n + 1) = Append(SkipEntries(from, n), Entry(from + n + 1, "skipped"))
         /\ Entry(from + n + 1, "skipped") \in Seq(Line)
  <1>1. "skipped" \in Result
    BY DEF Result
  <1>2. Skips(n) \in [1 .. n -> Result]
    BY <1>1 DEF Skips
  <1>3. Skips(n) \in Seq(Result) /\ Len(Skips(n)) = n
    BY <1>2, FunctionIsSeq
  <1>4. Skips(n + 1) = Append(Skips(n), "skipped")
    <2>1. Append(Skips(n), "skipped") =
            [k \in 1 .. n + 1 |-> IF k = n + 1 THEN "skipped" ELSE Skips(n)[k]]
      BY <1>1, <1>3, AppendIs
    <2>2. \A k \in 1 .. n + 1 : k # n + 1 => k \in 1 .. n
      OBVIOUS
    <2> QED BY <2>1, <2>2 DEF Skips
  <1>5. \A k \in Nat : Entry(from + k, "skipped") \in Seq(Line)
    <2> TAKE k \in Nat
    <2>1. TestIntro(from + k) \in Seq(Line) /\ TestResult("skipped") \in Seq(Line)
      BY <1>1, LinesAre
    <2> QED BY <2>1, ConcatProperties DEF Entry
  <1> DEFINE se == SkipEntries(from, n)
             e == Entry(from + n + 1, "skipped")
  <1>6. e \in Seq(Line)
    <2>1. n + 1 \in Nat /\ from + n + 1 = from + (n + 1)
      OBVIOUS
    <2> QED BY <1>5, <2>1
  <1>7. se \in [1 .. n -> Seq(Line)] /\ \A k \in 1 .. n : se[k] = Entry(from + k, "skipped")
    <2>1. \A k \in 1 .. n : k \in Nat
      OBVIOUS
    <2> QED BY <1>5, <2>1 DEF SkipEntries
  <1> HIDE DEF se, e
  <1>8. se \in Seq(Seq(Line)) /\ Len(se) = n
    BY <1>7, FunctionIsSeq
  <1>9. SkipEntries(from, n + 1) = Append(se, e)
    <2>1. Append(se, e) = [k \in 1 .. n + 1 |-> IF k = n + 1 THEN e ELSE se[k]]
      <3>1. se \in Seq(Seq(Line))
        BY <1>8
      <3>2. Append(se, e) = [k \in 1 .. Len(se) + 1 |-> IF k = Len(se) + 1 THEN e ELSE se[k]]
        BY <1>6, <3>1, AppendIs
      <3> QED BY <1>8, <3>2
    <2>2. \A k \in 1 .. n + 1 : k # n + 1 => k \in 1 .. n
      OBVIOUS
    <2>3. \A k \in 1 .. n + 1 : Entry(from + k, "skipped") = IF k = n + 1 THEN e ELSE se[k]
      <3>1. from + (n + 1) = from + n + 1
        OBVIOUS
      <3> QED BY <1>7, <2>2, <3>1 DEF e
    <2>4. SkipEntries(from, n + 1) = [k \in 1 .. n + 1 |-> Entry(from + k, "skipped")]
      BY DEF SkipEntries
    <2> QED BY <2>1, <2>3, <2>4
  <1> QED BY <1>3, <1>4, <1>6, <1>8, <1>9 DEF se, e

(* Tests that are skipped in a row are reported one by one, counted, and   *)
(* touch no fixture.                                                       *)
LEMMA SkippingAll ==
  ASSUME NEW out \in Seq(Result), NEW n \in Nat
  PROVE  Skipping(out, n)
  <1> DEFINE bad == {k \in Nat : ~Skipping(out, k)}
  <1>1. Skipping(out, 0)
    <2>1. Skips(0) = <<>> /\ \A from : SkipEntries(from, 0) = <<>>
      BY DEF Skips, SkipEntries
    <2>2. out \o <<>> = out
      BY ConcatEmptySeq
    <2>3. Reported(out) \in Seq(Line)
      <3>1. "passed" \in Result
        BY DEF Result
      <3> QED BY <3>1, OneMore
    <2>4. Reported(out) \o <<>> = Reported(out)
      BY <2>3, ConcatEmptySeq
    <2>5. \A r : Tally(out, r) \in Nat
      <3>1. "passed" \in Result
        BY DEF Result
      <3> QED BY <3>1, TallyAppend
    <2>6. Len(out) \in Nat /\ <<>> \in Seq(Seq(Line))
      OBVIOUS
    <2>7. Tally(out, "skipped") + 0 = Tally(out, "skipped") /\ Len(out) + 0 = Len(out)
      BY <2>5, <2>6
    <2> QED BY <2>1, <2>2, <2>4, <2>6, <2>7, NoneYet, Zenon DEF Skipping
  <1>2. ASSUME NEW k \in Nat, Skipping(out, k)
        PROVE  Skipping(out, k + 1)
    <2> DEFINE old == out \o Skips(k)
               new == out \o Skips(k + 1)
               from == Len(out)
               s == "skipped"
               e == Entry(from + k + 1, s)
               se == SkipEntries(from, k)
    <2>1. s \in Result /\ from \in Nat
      BY DEF Result
    <2>2. /\ old \in Seq(Result) /\ Len(old) = from + k /\ se \in Seq(Seq(Line))
          /\ Reported(old) = Reported(out) \o FlattenSeq(se)
          /\ Prepared(old) = Prepared(out)
          /\ Tally(old, "skipped") = Tally(out, "skipped") + k
          /\ Tally(old, "failed") = Tally(out, "failed")
      BY <1>2 DEF Skipping
    <2>3. /\ Skips(k) \in Seq(Result) /\ Skips(k + 1) = Append(Skips(k), s)
          /\ SkipEntries(from, k + 1) = Append(se, e) /\ e \in Seq(Line)
      BY <2>1, SkipsAre
    <2>4. new = Append(old, s)
      <3> DEFINE sk == Skips(k)
      <3>1. sk \in Seq(Result) /\ Skips(k + 1) = Append(sk, s)
        BY <2>3
      <3> HIDE DEF sk
      <3>2. out \o Append(sk, s) = Append(out \o sk, s)
        BY <2>1, <3>1, ConcatAppend
      <3> QED BY <3>1, <3>2 DEF sk
    <2> HIDE DEF old, new, from, se
    <2>5. /\ new \in Seq(Result) /\ Len(new) = Len(old) + 1
          /\ Reported(new) = Reported(old) \o Entry(Len(old) + 1, s)
          /\ Prepared(new) = Prepared(old) \o FixturesOf(s) /\ Prepared(old) \in Seq(Fixture)
      BY <2>1, <2>2, <2>4, OneMore
    <2>6. /\ Tally(new, "skipped") = Tally(old, "skipped") + 1
          /\ Tally(new, "failed") = Tally(old, "failed")
      BY <2>1, <2>2, <2>4, TallyAppend
    <2>7. Prepared(new) = Prepared(out)
      BY <2>2, <2>5, FixturesAre, ConcatEmptySeq
    <2>8. Reported(new) = Reported(out) \o FlattenSeq(Append(se, e))
      <3> HIDE DEF e
      <3>1. FlattenSeq(se) \in Seq(Line) /\ FlattenSeq(Append(se, e)) = FlattenSeq(se) \o e
        BY <2>2, <2>3, FlattenAppend
      <3>2. Reported(out) \in Seq(Line)
        BY <2>1, OneMore
      <3>3. (Reported(out) \o FlattenSeq(se)) \o e = Reported(out) \o (FlattenSeq(se) \o e)
        BY <2>3, <3>1, <3>2, ConcatAssociative
      <3>4. Entry(Len(old) + 1, s) = e
        BY <2>2 DEF e
      <3> QED BY <2>2, <2>5, <3>1, <3>3, <3>4
    <2>9. Append(se, e) \in Seq(Seq(Line))
      <3> HIDE DEF e
      <3> QED BY <2>2, <2>3, AppendProperties
    <2>10. Len(new) = from + (k + 1)
      BY <2>1, <2>2, <2>5
    <2>11. Tally(new, "skipped") = Tally(out, "skipped") + (k + 1)
      <3>1. Tally(out, "skipped") \in Nat
        BY <2>1, TallyAppend
      <3> QED BY <2>2, <2>6, <3>1
    <2> HIDE DEF e
    <2> QED BY <2>2, <2>3, <2>5, <2>6, <2>7, <2>8, <2>9, <2>10, <2>11 DEF Skipping, new, from
  <1>3. ASSUME bad # {}
        PROVE  FALSE
    <2>1. PICK k \in bad : \A j \in bad : k <= j
      BY <1>3, LeastNatural
    <2>2. k # 0 /\ k \in Nat
      BY <1>1, <2>1
    <2>3. k - 1 \in Nat /\ ~(k <= k - 1) /\ (k - 1) + 1 = k
      BY <2>2
    <2>4. Skipping(out, k - 1)
      BY <2>1, <2>3
    <2>5. Skipping(out, (k - 1) + 1)
      BY <1>2, <2>3, <2>4
    <2> QED BY <2>1, <2>3, <2>5
  <1> QED BY <1>3

-----------------------------------------------------------------------------
(* A suite that is begun, and has neither passed nor failed. The last test *)
(* of ETF is taken to have passed, or to be skipped, before it is known to *)
(* be over, and its outcome is not printed yet.                            *)
EtfRuns ==
  \/ /\ test_idx = 0 /\ ~last_skipped /\ skip_cnt = 0
     /\ report = Header /\ fixtures = <<>> /\ outcome = <<>>
  \/ \E done \in Seq(Result) :
       /\ test_idx = Len(done) + 1
       /\ outcome = Append(done, IF last_skipped THEN "skipped" ELSE "passed")
       /\ skip_cnt = Tally(done, "skipped") + IF last_skipped THEN 1 ELSE 0
       /\ Tally(done, "failed") = 0
       /\ report = (Header \o Reported(done)) \o TestIntro(test_idx)
       /\ fixtures = Prepared(done) \o IF last_skipped THEN <<>> ELSE <<"setUp">>

EdfRuns ==
  \/ /\ test_idx = 0 /\ skip_cnt = 0 /\ stimuli = <<>>
     /\ report = Header /\ fixtures = <<>> /\ outcome = <<>>
  \/ /\ fixtures # <<>> /\ test_idx = Len(outcome) /\ test_idx < Len(tests)
     /\ skip_cnt = Tally(outcome, "skipped") /\ Tally(outcome, "failed") = 0
     /\ report = (Header \o Reported(outcome)) \o TestIntro(test_idx + 1)
     /\ fixtures = Prepared(outcome) \o <<"setUp">>

SuiteDone ==
  /\ report = ((Header \o Reported(outcome))
                 \o Summary(Len(outcome), Tally(outcome, "skipped"), Tally(outcome, "failed")))
                 \o Verdict(phase = "passed")
  /\ fixtures = Prepared(outcome)
  /\ phase = "passed" <=> Tally(outcome, "failed") = 0
  /\ runner = "edf" /\ phase = "passed" => Len(outcome) = Len(tests)

TestTypeOK ==
  /\ runner \in {"etf", "edf"} /\ tests \in Seq([skip : BOOLEAN, trigger : Sig])
  /\ test_idx \in Nat /\ skip_cnt \in Nat /\ last_skipped \in BOOLEAN
  /\ phase \in {"begin", "run", "passed", "failed", "asserted"}
  /\ report \in Seq(Line) /\ fixtures \in Seq(Fixture) /\ outcome \in Seq(Result)

TestInv ==
  /\ TestTypeOK
  /\ phase = "begin" => /\ test_idx = 0 /\ skip_cnt = 0 /\ ~last_skipped /\ stimuli = <<>>
                        /\ report = <<>> /\ fixtures = <<>> /\ outcome = <<>>
  /\ phase = "run" /\ runner = "etf" => EtfRuns
  /\ phase = "run" /\ runner = "edf" => EdfRuns
  /\ Over /\ (runner = "etf" => test_idx > 0) => SuiteDone

LEMMA Joins ==
  ASSUME NEW S, NEW a \in Seq(S), NEW b \in Seq(S), NEW c \in Seq(S)
  PROVE  a \o b \in Seq(S) /\ a \o (b \o c) = (a \o b) \o c
  BY ConcatProperties, ConcatAssociative

(* The same of a concatenation that the provers do not take apart.         *)
Seqs(S) == Seq(S)
Cat(a, b) == a \o b

LEMMA Cats ==
  \A S : \A a, b, c \in Seqs(S) : Cat(a, b) \in Seqs(S) /\ Cat(Cat(a, b), c) = Cat(a, Cat(b, c))
  BY Joins DEF Seqs, Cat

(* A test that is begun and gets its outcome.                              *)
LEMMA Closes ==
  ASSUME NEW out \in Seq(Result), NEW o \in Result
  PROVE  ((Header \o Reported(out)) \o TestIntro(Len(out) + 1)) \o TestResult(o)
           = Header \o Reported(Append(out, o))
  <1> DEFINE d == Reported(out)
             n == Len(out) + 1
             i == TestIntro(n)
             r == TestResult(o)
             new == Reported(Append(out, o))
  <1>1. n \in Nat
    OBVIOUS
  <1> HIDE DEF n
  <1>2. /\ d \in Seqs(Line) /\ i \in Seqs(Line) /\ r \in Seqs(Line) /\ Header \in Seqs(Line)
    <2>1. d \in Seq(Line)
      BY OneMore
    <2> QED BY <1>1, <2>1, LinesAre DEF Seqs
  <1>3. new = d \o (i \o r)
    BY OneMore DEF Entry, n
  <1> HIDE DEF d, i, r, new
  <1>4. Cat(Cat(Cat(Header, d), i), r) = Cat(Header, Cat(d, Cat(i, r)))
    BY <1>2, Cats
  <1>5. ((Header \o d) \o i) \o r = Header \o (d \o (i \o r))
    BY <1>4 DEF Cat
  <1> QED BY <1>3, <1>5 DEF d, i, r, n, new

(* A test that is set up and torn down.                                    *)
LEMMA TearsDownAgain ==
  ASSUME NEW p \in Seq(Fixture)
  PROVE  (p \o <<"setUp">>) \o <<"tearDown">> = p \o <<"setUp", "tearDown">>
  <1>1. <<"setUp">> \in Seq(Fixture) /\ <<"tearDown">> \in Seq(Fixture)
    BY DEF Fixture
  <1>2. Append(<<"setUp">>, "tearDown") = <<"setUp">> \o <<"tearDown">>
    BY <1>1, AppendIsConcat DEF Fixture
  <1>3. Append(<<"setUp">>, "tearDown") = <<"setUp", "tearDown">>
    <2> DEFINE s == Append(<<"setUp">>, "tearDown")
               t == <<"setUp", "tearDown">>
    <2>1. s \in Seq(Fixture) /\ Len(s) = 2 /\ s[1] = "setUp" /\ s[2] = "tearDown"
      BY AppendProperties DEF Fixture
    <2>2. t \in Seq(Fixture) /\ Len(t) = 2 /\ t[1] = "setUp" /\ t[2] = "tearDown"
      BY DEF Fixture
    <2> HIDE DEF s, t
    <2>3. \A i \in 1 .. Len(s) : s[i] = t[i]
      BY <2>1, <2>2
    <2> QED BY <2>1, <2>2, <2>3, SeqEqual DEF s, t
  <1> QED BY <1>1, <1>2, <1>3, ConcatAssociative

LEMMA SetUpShows ==
  ASSUME NEW p \in Seq(Fixture)
  PROVE  p \o <<"setUp">> # <<>>
  <1>1. Append(p, "setUp") = p \o <<"setUp">>
    BY AppendIsConcat DEF Fixture
  <1>2. Append(p, "setUp") # <<>>
    BY AppendProperties DEF Fixture
  <1> QED BY <1>1, <1>2

(* The table has a next test or an end: NextTest chooses between them.     *)
LEMMA NextTestIs ==
  ASSUME TestTypeOK, NEW from \in 0 .. Len(tests)
  PROVE  NextTest(from) \in from .. Len(tests)
  <1> DEFINE n == Len(tests)
             stops == {k \in from .. n : k < n => ~tests[k + 1].skip}
  <1>1. n \in Nat /\ from \in Nat /\ from <= n
    BY DEF TestTypeOK
  <1> HIDE DEF n
  <1>2. stops \in SUBSET Nat /\ n \in stops
    BY <1>1
  <1>3. PICK k \in stops : \A j \in stops : k <= j
    <2> HIDE DEF stops
    <2> QED BY <1>2, LeastNatural
  <1>4. ASSUME NEW j \in from + 1 .. k
        PROVE  tests[j].skip
    <2>1. k \in from .. n
      BY <1>3
    <2>2. j - 1 \in from .. n /\ j - 1 < n /\ ~(k <= j - 1) /\ (j - 1) + 1 = j
      BY <1>1, <1>4, <2>1
    <2> QED BY <1>3, <2>2
  <1>5. \E i \in from .. n : /\ \A j \in from + 1 .. i : tests[j].skip
                             /\ i < n => ~tests[i + 1].skip
    BY <1>3, <1>4
  <1> QED BY <1>5 DEF NextTest, n

LEMMA TestInitially == TestInit => TestInv
<1> SUFFICES ASSUME TestInit PROVE TestInv
  OBVIOUS
<1>1. tests \in Seq([skip : BOOLEAN, trigger : Sig])
  <2>1. ASSUME tests \in Tables
        PROVE  tests \in Seq([skip : BOOLEAN, trigger : Sig])
    <3>1. PICK n \in 0 .. MaxTests : tests \in [1 .. n -> [skip : BOOLEAN, trigger : Sig]]
      BY <2>1 DEF Tables
    <3>2. n \in Nat
      BY TestAssumption
    <3> QED BY <3>1, <3>2, FunctionIsSeq
  <2>2. tests \in Tables \/ tests = <<>>
    BY DEF TestInit
  <2> QED BY <2>1, <2>2, EmptySeq
<1>2. <<>> \in Seq(Line) /\ <<>> \in Seq(Fixture) /\ <<>> \in Seq(Result)
  BY EmptySeq
<1> QED BY <1>1, <1>2 DEF TestInit, TestInv, TestTypeOK, Over

(* The header is as wide as the lines, whatever names it shows.            *)
LEMMA BeginPreserves ==
  ASSUME TestInv, NEW framework \in NameLen, NEW suite \in NameLen,
         EtfBegin(framework, suite) \/ EdfBegin(framework, suite)
  PROVE  TestInv'
<1>1. /\ TestTypeOK /\ phase = "begin" /\ report = <<>>
      /\ test_idx = 0 /\ skip_cnt = 0 /\ ~last_skipped /\ stimuli = <<>>
      /\ fixtures = <<>> /\ outcome = <<>>
      /\ UNCHANGED <<runner, tests, test_idx, skip_cnt, last_skipped, stimuli, fixtures, outcome>>
  BY DEF TestInv, EtfBegin, EdfBegin, Begin
<1> DEFINE fit == framework <= LineWidth /\ suite <= LineWidth
           printed == PrintHeader(framework, suite)
<1>2. /\ framework \in Nat /\ suite \in Nat /\ LineWidth \in 0 .. 255
      /\ \A n \in Nat : n <= LineWidth => Centered(n) = LineWidth
  BY TestAssumption DEF Centered, PrintRepeated
<1>3. /\ printed \in {<<Rule>>, <<Rule, Rule, Rule>>, Header}
      /\ fit => printed = Header
  BY <1>2 DEF PrintHeader, Header, Rule
<1>4. printed \in Seq(Line)
  <2>1. Rule \in Line
    BY DEF Line, Rule
  <2>2. <<Rule>> \in Seq(Line) /\ <<Rule, Rule, Rule>> \in Seq(Line)
    BY <2>1
  <2> HIDE DEF printed
  <2> QED BY <1>3, <2>2, LinesAre
<1> HIDE DEF printed
<1>5. report' = printed /\ phase' = IF fit THEN "run" ELSE "asserted"
  <2>1. report' = <<>> \o printed /\ phase' = IF fit THEN "run" ELSE "asserted"
    BY <1>1 DEF EtfBegin, EdfBegin, Begin, Prints, printed
  <2> QED BY <2>1, <1>4, ConcatEmptySeq
<1> HIDE DEF fit
<1>6. CASE fit
  <2>1. report' = Header /\ phase' = "run"
    BY <1>3, <1>5, <1>6
  <2>2. TestTypeOK' /\ EtfRuns' /\ EdfRuns'
    BY <1>1, <2>1, LinesAre DEF TestTypeOK, EtfRuns, EdfRuns
  <2> QED BY <2>1, <2>2 DEF TestInv, Over
<1>7. CASE ~fit
  <2>1. report' \in Seq(Line) /\ phase' = "asserted"
    BY <1>4, <1>5, <1>7
  <2> QED BY <1>1, <2>1 DEF TestInv, TestTypeOK, Over
<1> QED BY <1>6, <1>7

(* What ETF_test and the end of main print first completes the report of   *)
(* the tests so far.                                                       *)
LEMMA EtfClosesLast ==
  ASSUME TestInv, phase = "run", runner = "etf"
  PROVE  /\ EtfCloses \in Seq(Line) /\ report \o EtfCloses = Header \o Reported(outcome)
         /\ TearsDown \in Seq(Fixture) /\ fixtures \o TearsDown = Prepared(outcome)
         /\ test_idx = Len(outcome) /\ skip_cnt = Tally(outcome, "skipped")
         /\ Tally(outcome, "failed") = 0
<1>1. TestTypeOK /\ EtfRuns
  BY DEF TestInv
<1>2. CASE /\ test_idx = 0 /\ ~last_skipped /\ skip_cnt = 0
           /\ report = Header /\ fixtures = <<>> /\ outcome = <<>>
  <2>1. EtfCloses = <<>> /\ TearsDown = <<>>
    BY <1>2 DEF EtfCloses, TearsDown
  <2> QED BY <1>2, <2>1, NoneYet, EmptySeq, ConcatEmptySeq
<1>3. ASSUME NEW done \in Seq(Result),
             test_idx = Len(done) + 1,
             outcome = Append(done, IF last_skipped THEN "skipped" ELSE "passed"),
             skip_cnt = Tally(done, "skipped") + IF last_skipped THEN 1 ELSE 0,
             Tally(done, "failed") = 0,
             report = (Header \o Reported(done)) \o TestIntro(test_idx),
             fixtures = Prepared(done) \o IF last_skipped THEN <<>> ELSE <<"setUp">>
      PROVE  /\ EtfCloses \in Seq(Line) /\ report \o EtfCloses = Header \o Reported(outcome)
             /\ TearsDown \in Seq(Fixture) /\ fixtures \o TearsDown = Prepared(outcome)
             /\ test_idx = Len(outcome) /\ skip_cnt = Tally(outcome, "skipped")
             /\ Tally(outcome, "failed") = 0
  <2> DEFINE o == IF last_skipped THEN "skipped" ELSE "passed"
  <2>1. o \in Result /\ o # "failed" /\ (o = "skipped" <=> last_skipped)
    BY DEF Result
  <2>2. Len(done) \in Nat /\ test_idx \in Nat /\ test_idx > 0
    BY <1>3
  <2>3. EtfCloses = TestResult(o)
    BY <2>2 DEF EtfCloses
  <2>4. /\ Len(outcome) = Len(done) + 1 /\ Reported(done) \in Seq(Line)
        /\ Reported(outcome) = Reported(done) \o Entry(Len(done) + 1, o)
        /\ Prepared(done) \in Seq(Fixture)
        /\ Prepared(outcome) = Prepared(done) \o FixturesOf(o)
    BY <1>3, <2>1, OneMore
  <2>5. /\ \A r : Tally(done, r) \in Nat
        /\ \A r : Tally(outcome, r) = IF r = o THEN Tally(done, r) + 1 ELSE Tally(done, r)
    BY <1>3, <2>1, TallyAppend
  <2>6. TestIntro(test_idx) \in Seq(Line) /\ TestResult(o) \in Seq(Line) /\ Header \in Seq(Line)
    BY <2>1, <2>2, LinesAre
  <2> HIDE DEF o
  <2>7. report \o TestResult(o) = Header \o Reported(outcome)
    <3>1. outcome = Append(done, o)
      BY <1>3 DEF o
    <3> QED BY <1>3, <2>1, <3>1, Closes
  <2>8. TearsDown \in Seq(Fixture) /\ fixtures \o TearsDown = Prepared(outcome)
    <3>1. CASE last_skipped
      <4>1. TearsDown = <<>> /\ FixturesOf(o) = <<>> /\ fixtures = Prepared(done) \o <<>>
        BY <1>3, <2>1, <3>1, FixturesAre DEF TearsDown
      <4> QED BY <2>4, <4>1, EmptySeq, ConcatEmptySeq
    <3>2. CASE ~last_skipped
      <4>1. TearsDown = <<"tearDown">> /\ fixtures = Prepared(done) \o <<"setUp">>
        BY <1>3, <2>2, <3>2 DEF TearsDown
      <4>2. FixturesOf(o) = <<"setUp", "tearDown">>
        BY <3>2, FixturesAre DEF o
      <4>3. <<"setUp">> \in Seq(Fixture) /\ <<"tearDown">> \in Seq(Fixture)
        BY DEF Fixture
      <4>4. (Prepared(done) \o <<"setUp">>) \o <<"tearDown">> =
              Prepared(done) \o <<"setUp", "tearDown">>
        BY <2>4, TearsDownAgain
      <4> QED BY <2>4, <4>1, <4>2, <4>3, <4>4
    <3> QED BY <3>1, <3>2
  <2>9. skip_cnt = Tally(outcome, "skipped") /\ Tally(outcome, "failed") = 0
    BY <1>3, <2>1, <2>5
  <2> QED BY <1>3, <2>3, <2>4, <2>6, <2>7, <2>8, <2>9
<1> QED BY <1>1, <1>2, <1>3 DEF EtfRuns

(* ETF_test closes the report of the test before and begins the next one.  *)
LEMMA EtfTestPreserves ==
  ASSUME TestInv, NEW execute \in BOOLEAN, EtfTest(execute)
  PROVE  TestInv'
<1> DEFINE o == IF execute THEN "passed" ELSE "skipped"
<1>1. /\ TestTypeOK /\ phase = "run" /\ runner = "etf"
      /\ report' = report \o (EtfCloses \o TestIntro(test_idx + 1))
      /\ fixtures' = (fixtures \o TearsDown) \o (IF execute THEN <<"setUp">> ELSE <<>>)
      /\ test_idx' = test_idx + 1 /\ skip_cnt' = skip_cnt + IF execute THEN 0 ELSE 1
      /\ last_skipped' = ~execute /\ outcome' = Append(outcome, o)
      /\ UNCHANGED <<runner, tests, stimuli, phase>>
  BY DEF TestInv, EtfTest, Prints
<1>2. /\ EtfCloses \in Seq(Line) /\ report \o EtfCloses = Header \o Reported(outcome)
      /\ TearsDown \in Seq(Fixture) /\ fixtures \o TearsDown = Prepared(outcome)
      /\ test_idx = Len(outcome) /\ skip_cnt = Tally(outcome, "skipped")
      /\ Tally(outcome, "failed") = 0
  BY <1>1, EtfClosesLast
<1>3. /\ report \in Seq(Line) /\ outcome \in Seq(Result) /\ o \in Result /\ Len(outcome) \in Nat
      /\ skip_cnt \in Nat
  BY <1>1 DEF TestTypeOK, Result
<1>4. TestIntro(test_idx + 1) \in Seq(Line) /\ Header \in Seq(Line)
  <2>1. test_idx + 1 \in Nat
    BY <1>2, <1>3
  <2> QED BY <2>1, LinesAre
<1>5. report' = (Header \o Reported(outcome)) \o TestIntro(test_idx')
  <2> DEFINE c == EtfCloses
             i == TestIntro(test_idx + 1)
  <2>1. c \in Seq(Line) /\ i \in Seq(Line) /\ report \in Seq(Line)
    BY <1>2, <1>3, <1>4
  <2> HIDE DEF c, i
  <2>2. report \o (c \o i) = (report \o c) \o i
    BY <2>1, Joins
  <2> QED BY <1>1, <1>2, <2>2 DEF c, i
<1>6. /\ outcome' \in Seq(Result) /\ Reported(outcome) \in Seq(Line)
      /\ Prepared(outcome) \in Seq(Fixture)
  BY <1>1, <1>3, OneMore
<1>7. report' \in Seq(Line)
  <2>1. (Header \o Reported(outcome)) \o TestIntro(test_idx + 1) \in Seq(Line)
    BY <1>4, <1>6, Joins
  <2> QED BY <1>1, <1>5, <2>1
<1>8. fixtures' \in Seq(Fixture)
  <2>1. <<"setUp">> \in Seq(Fixture) /\ <<>> \in Seq(Fixture)
    BY DEF Fixture
  <2> QED BY <1>1, <1>2, <1>6, <2>1, ConcatProperties
<1>9. TestTypeOK'
  BY <1>1, <1>3, <1>6, <1>7, <1>8 DEF TestTypeOK
<1>10. EtfRuns'
  <2>1. test_idx' = Len(outcome) + 1 /\ Tally(outcome, "failed") = 0
    BY <1>1, <1>2
  <2>2. outcome' = Append(outcome, IF last_skipped' THEN "skipped" ELSE "passed")
    BY <1>1
  <2>3. skip_cnt' = Tally(outcome, "skipped") + IF last_skipped' THEN 1 ELSE 0
    BY <1>1, <1>2
  <2>4. fixtures' = Prepared(outcome) \o IF last_skipped' THEN <<>> ELSE <<"setUp">>
    BY <1>1, <1>2
  <2> QED BY <1>3, <1>5, <2>1, <2>2, <2>3, <2>4 DEF EtfRuns
<1> QED BY <1>1, <1>9, <1>10 DEF TestInv, Over

(* ETF_fail, in the body of a test that was taken to pass.                 *)
LEMMA EtfFailPreserves ==
  ASSUME TestInv, EtfFail
  PROVE  TestInv'
<1>1. /\ TestTypeOK /\ EtfRuns /\ phase = "run" /\ runner = "etf" /\ test_idx > 0 /\ ~last_skipped
      /\ report' = report \o ((TestResult("failed") \o Summary(test_idx, skip_cnt, 1)) \o Verdict(FALSE))
      /\ outcome' = [outcome EXCEPT ![test_idx] = "failed"] /\ phase' = "failed"
      /\ UNCHANGED <<runner, tests, test_idx, skip_cnt, last_skipped, stimuli, fixtures>>
  BY DEF TestInv, EtfFail, Prints
<1>2. PICK done \in Seq(Result) :
        /\ test_idx = Len(done) + 1 /\ outcome = Append(done, "passed")
        /\ skip_cnt = Tally(done, "skipped") + 0 /\ Tally(done, "failed") = 0
        /\ report = (Header \o Reported(done)) \o TestIntro(test_idx)
        /\ fixtures = Prepared(done) \o <<"setUp">>
  <2>1. PICK done \in Seq(Result) :
          /\ test_idx = Len(done) + 1
          /\ outcome = Append(done, IF last_skipped THEN "skipped" ELSE "passed")
          /\ skip_cnt = Tally(done, "skipped") + IF last_skipped THEN 1 ELSE 0
          /\ Tally(done, "failed") = 0
          /\ report = (Header \o Reported(done)) \o TestIntro(test_idx)
          /\ fixtures = Prepared(done) \o IF last_skipped THEN <<>> ELSE <<"setUp">>
    <3>1. ~(test_idx = 0)
      BY <1>1
    <3> QED BY <1>1, <3>1, Zenon DEF EtfRuns
  <2> QED BY <1>1, <2>1
<1>3. "failed" \in Result /\ "passed" \in Result /\ Len(done) \in Nat
  BY DEF Result
<1>4. outcome' = Append(done, "failed")
  <2> DEFINE a == Append(done, "passed")
             b == Append(done, "failed")
  <2>1. /\ a \in Seq(Result) /\ Len(a) = Len(done) + 1 /\ b \in Seq(Result) /\ Len(b) = Len(done) + 1
        /\ b[Len(done) + 1] = "failed" /\ \A i \in 1 .. Len(done) : b[i] = done[i] /\ a[i] = done[i]
    BY <1>3, AppendProperties
  <2> HIDE DEF a, b
  <2>2. /\ [a EXCEPT ![test_idx] = "failed"] \in Seq(Result)
        /\ Len([a EXCEPT ![test_idx] = "failed"]) = Len(a)
        /\ \A j \in 1 .. Len(a) :
             [a EXCEPT ![test_idx] = "failed"][j] = IF j = test_idx THEN "failed" ELSE a[j]
    <3>1. test_idx \in 1 .. Len(a)
      BY <1>2, <1>3, <2>1
    <3> QED BY <1>3, <2>1, <3>1, ExceptSeq
  <2>3. \A i \in 1 .. Len(b) : b[i] = [a EXCEPT ![test_idx] = "failed"][i]
    <3> TAKE i \in 1 .. Len(b)
    <3>1. i # test_idx => i \in 1 .. Len(done)
      BY <1>2, <1>3, <2>1
    <3> QED BY <1>2, <2>1, <2>2, <3>1
  <2>4. [a EXCEPT ![test_idx] = "failed"] = b
    BY <2>1, <2>2, <2>3, SeqEqual
  <2> QED BY <1>1, <1>2, <2>4 DEF a, b
<1>5. /\ outcome' \in Seq(Result) /\ Len(outcome') = test_idx
      /\ Reported(done) \in Seq(Line) /\ Reported(outcome') = Reported(done) \o Entry(test_idx, "failed")
      /\ Prepared(outcome') = Prepared(done) \o FixturesOf("failed")
  BY <1>2, <1>3, <1>4, OneMore
<1>6. Tally(outcome', "failed") = 1 /\ Tally(outcome', "skipped") = skip_cnt /\ skip_cnt \in Nat
  <2>1. Tally(done, "skipped") \in Nat /\ Tally(outcome', "skipped") = Tally(done, "skipped")
    BY <1>3, <1>4, TallyAppend
  <2>2. Tally(outcome', "failed") = Tally(done, "failed") + 1
    BY <1>3, <1>4, TallyAppend
  <2> QED BY <1>2, <2>1, <2>2
<1> DEFINE i == TestIntro(test_idx)
           r == TestResult("failed")
           s == Summary(test_idx, skip_cnt, 1)
           v == Verdict(FALSE)
<1>7. i \in Seq(Line) /\ r \in Seq(Line) /\ s \in Seq(Line) /\ v \in Seq(Line) /\ Header \in Seq(Line)
  <2>1. test_idx \in Nat /\ 1 \in Nat /\ FALSE \in BOOLEAN
    BY <1>2, <1>3
  <2> QED BY <1>3, <1>6, <2>1, LinesAre
<1>8. report' = ((Header \o Reported(outcome')) \o s) \o v /\ report' \in Seq(Line)
  <2>1. report \o r = Header \o Reported(outcome')
    BY <1>2, <1>3, <1>4, Closes
  <2>2. report \in Seq(Line) /\ report' = report \o ((r \o s) \o v)
    BY <1>1 DEF TestTypeOK
  <2> DEFINE all == Header \o Reported(outcome')
  <2> HIDE DEF r, s, v, all
  <2>3. /\ report \in Seqs(Line) /\ r \in Seqs(Line) /\ s \in Seqs(Line) /\ v \in Seqs(Line)
        /\ Cat(report, r) = all
    BY <1>7, <2>1, <2>2 DEF Seqs, Cat, all
  <2>4. /\ Cat(report, Cat(Cat(r, s), v)) = Cat(Cat(all, s), v)
        /\ Cat(Cat(all, s), v) \in Seqs(Line)
    BY <2>3, Cats
  <2> QED BY <2>2, <2>4 DEF all, Cat, Seqs
<1>9. SuiteDone'
  <2>1. (phase' = "passed") = FALSE /\ phase' # "passed"
    BY <1>1
  <2>2. fixtures' = Prepared(outcome')
    BY <1>1, <1>2, <1>5, FixturesAre
  <2>3. report' = ((Header \o Reported(outcome'))
                     \o Summary(Len(outcome'), Tally(outcome', "skipped"), Tally(outcome', "failed")))
                     \o Verdict(phase' = "passed")
    BY <1>5, <1>6, <1>8, <2>1
  <2> QED BY <1>6, <2>1, <2>2, <2>3 DEF SuiteDone
<1>10. TestTypeOK'
  BY <1>1, <1>5, <1>8 DEF TestTypeOK
<1> QED BY <1>1, <1>9, <1>10 DEF TestInv, Over

(* The end of main.                                                        *)
LEMMA EtfEndPreserves ==
  ASSUME TestInv, EtfEnd
  PROVE  TestInv'
<1> DEFINE o == IF last_skipped THEN "skipped" ELSE "passed"
           r == TestResult(o)
           s == Summary(test_idx, skip_cnt, 0)
           v == Verdict(TRUE)
           torn == IF last_skipped THEN <<>> ELSE <<"tearDown">>
<1>1. /\ TestTypeOK /\ EtfRuns /\ phase = "run" /\ runner = "etf"
      /\ report' = report \o ((r \o s) \o v) /\ fixtures' = fixtures \o torn
      /\ phase' = "passed"
      /\ UNCHANGED <<runner, tests, test_idx, skip_cnt, last_skipped, stimuli, outcome>>
  BY DEF TestInv, EtfEnd, Prints
<1>2. /\ EtfCloses \in Seq(Line) /\ report \o EtfCloses = Header \o Reported(outcome)
      /\ fixtures \o TearsDown = Prepared(outcome)
      /\ test_idx = Len(outcome) /\ skip_cnt = Tally(outcome, "skipped")
      /\ Tally(outcome, "failed") = 0
  BY <1>1, EtfClosesLast
<1>3. /\ r \in Seq(Line) /\ s \in Seq(Line) /\ v \in Seq(Line) /\ report \in Seq(Line)
      /\ fixtures \in Seq(Fixture) /\ torn \in Seq(Fixture) /\ test_idx \in Nat
  <2>1. /\ test_idx \in Nat /\ skip_cnt \in Nat /\ 0 \in Nat /\ TRUE \in BOOLEAN
        /\ report \in Seq(Line) /\ fixtures \in Seq(Fixture)
    BY <1>1 DEF TestTypeOK
  <2>2. o \in Result
    BY DEF Result
  <2>3. torn \in Seq(Fixture)
    <3>1. <<>> \in Seq(Fixture) /\ <<"tearDown">> \in Seq(Fixture)
      BY DEF Fixture
    <3> QED BY <3>1
  <2> HIDE DEF o, torn
  <2> QED BY <2>1, <2>2, <2>3, LinesAre
<1>4. report' \in Seq(Line) /\ report' = ((report \o r) \o s) \o v
  <2>1. report \in Seqs(Line) /\ r \in Seqs(Line) /\ s \in Seqs(Line) /\ v \in Seqs(Line)
    BY <1>3 DEF Seqs
  <2> HIDE DEF r, s, v, torn
  <2>2. /\ Cat(report, Cat(Cat(r, s), v)) = Cat(Cat(Cat(report, r), s), v)
        /\ Cat(Cat(Cat(report, r), s), v) \in Seqs(Line)
    BY <2>1, Cats
  <2> QED BY <1>1, <2>2 DEF Cat, Seqs
<1>5. fixtures' \in Seq(Fixture)
  <2> HIDE DEF torn
  <2> QED BY <1>1, <1>3, ConcatProperties
<1>6. TestTypeOK'
  BY <1>1, <1>4, <1>5 DEF TestTypeOK
<1>7. ASSUME test_idx > 0
      PROVE  SuiteDone'
  <2>1. EtfCloses = r /\ TearsDown = torn
    BY <1>1, <1>7 DEF EtfCloses, TearsDown
  <2>2. (phase' = "passed") = TRUE /\ runner' # "edf"
    BY <1>1
  <2>3. fixtures' = Prepared(outcome')
    BY <1>1, <1>2, <2>1
  <2>4. report' = ((Header \o Reported(outcome'))
                     \o Summary(Len(outcome'), Tally(outcome', "skipped"), Tally(outcome', "failed")))
                     \o Verdict(phase' = "passed")
    BY <1>1, <1>2, <1>4, <2>1, <2>2
  <2>5. Tally(outcome', "failed") = 0
    BY <1>1, <1>2
  <2> HIDE DEF r, s, v, torn
  <2> QED BY <2>2, <2>3, <2>4, <2>5 DEF SuiteDone
<1> QED BY <1>1, <1>3, <1>6, <1>7 DEF TestInv, Over

(* EDFTest goes on from the tests whose outcomes are out.                  *)
LEMMA MoveOnPreserves ==
  ASSUME TestTypeOK, runner = "edf", UNCHANGED <<runner, tests, last_skipped>>,
         NEW out \in Seq(Result), NEW before \in Seq(Line), Len(out) \in 0 .. Len(tests),
         out = outcome \o (IF before = <<>> THEN <<>> ELSE <<"passed">>),
         skip_cnt = Tally(out, "skipped"), Tally(out, "failed") = 0,
         report \o before = Header \o Reported(out),
         fixtures \o (IF before = <<>> THEN <<>> ELSE <<"tearDown">>) = Prepared(out),
         MoveOn(Len(out), before)
  PROVE  TestInv'
<1> DEFINE from == Len(out)
           k == NextTest(from)
           n == k - from
           all == out \o Skips(n)
           skipped == FlattenSeq(SkipEntries(from, n))
           rest == IF k < Len(tests) THEN TestIntro(k + 1)
                   ELSE Summary(Len(tests), skip_cnt + n, 0) \o Verdict(TRUE)
           torn == IF before = <<>> THEN <<>> ELSE <<"tearDown">>
           setUp == IF k < Len(tests) THEN <<"setUp">> ELSE <<>>
<1>1. /\ test_idx' = k /\ skip_cnt' = skip_cnt + n
      /\ report' = report \o ((before \o skipped) \o rest)
      /\ outcome' = (outcome \o (IF before = <<>> THEN <<>> ELSE <<"passed">>)) \o Skips(n)
      /\ phase' = (IF k < Len(tests) THEN "run" ELSE "passed")
      /\ fixtures' = (fixtures \o torn) \o setUp
  BY DEF MoveOn, Prints, SkipEntries, Entry, Skips
<1>2. /\ k \in from .. Len(tests) /\ from \in Nat /\ Len(tests) \in Nat
      /\ k \in Nat /\ n \in Nat /\ from + n = k
  <2>1. k \in from .. Len(tests)
    BY NextTestIs
  <2>2. Len(tests) \in Nat /\ from \in Nat
    BY DEF TestTypeOK
  <2> HIDE DEF k, from
  <2> QED BY <2>1, <2>2
<1> HIDE DEF k, n, from
<1>3. /\ all \in Seq(Result) /\ Len(all) = k
      /\ SkipEntries(from, n) \in Seq(Seq(Line))
      /\ Reported(all) = Reported(out) \o skipped
      /\ Prepared(all) = Prepared(out)
      /\ Tally(all, "skipped") = skip_cnt + n
      /\ Tally(all, "failed") = 0
  <2>1. Skipping(out, n)
    BY <1>2, SkippingAll
  <2> QED BY <1>2, <2>1 DEF Skipping, from
<1>4. outcome' = all
  BY <1>1
<1> HIDE DEF all
<1>5. /\ skipped \in Seq(Line) /\ Reported(all) \in Seq(Line) /\ Header \in Seq(Line)
      /\ Reported(out) \in Seq(Line) /\ Prepared(all) \in Seq(Fixture) /\ report \in Seq(Line)
  <2>1. "passed" \in Result /\ <<>> \in Seq(Line)
    BY DEF Result
  <2>2. /\ Reported(all) \in Seq(Line) /\ Reported(out) \in Seq(Line)
        /\ Prepared(all) \in Seq(Fixture)
    BY <1>3, <2>1, OneMore
  <2>3. skipped \in Seq(Line)
    BY <1>3, <2>1, FlattenAppend
  <2> QED BY <2>2, <2>3, LinesAre DEF TestTypeOK
<1>6. rest \in Seq(Line) /\ report' = (Header \o Reported(all)) \o rest /\ report' \in Seq(Line)
  <2>1. rest \in Seq(Line)
    <3>1. CASE k < Len(tests)
      <4>1. k + 1 \in Nat
        BY <1>2
      <4> QED BY <3>1, <4>1, LinesAre
    <3>2. CASE ~(k < Len(tests))
      <4> DEFINE s == Summary(Len(tests), skip_cnt + n, 0)
                 v == Verdict(TRUE)
      <4>1. s \in Seq(Line) /\ v \in Seq(Line)
        <5>1. skip_cnt + n \in Nat /\ 0 \in Nat /\ TRUE \in BOOLEAN
          BY <1>2 DEF TestTypeOK
        <5> QED BY <1>2, <5>1, LinesAre
      <4>2. rest = s \o v
        BY <3>2
      <4> HIDE DEF s, v, rest
      <4> QED BY <4>1, <4>2, ConcatProperties
    <3> QED BY <3>1, <3>2
  <2> DEFINE ro == Reported(out)
             ra == Reported(all)
  <2> HIDE DEF rest, skipped, ro, ra
  <2>2. /\ report \in Seqs(Line) /\ before \in Seqs(Line) /\ skipped \in Seqs(Line)
        /\ rest \in Seqs(Line) /\ Header \in Seqs(Line) /\ ro \in Seqs(Line)
        /\ Cat(report, before) = Cat(Header, ro) /\ ra = Cat(ro, skipped)
    BY <1>3, <1>5, <2>1 DEF Seqs, Cat, ro, ra
  <2>3. /\ Cat(report, Cat(Cat(before, skipped), rest)) = Cat(Cat(Header, ra), rest)
        /\ Cat(Cat(Header, ra), rest) \in Seqs(Line)
    BY <2>2, Cats
  <2> QED BY <1>1, <2>1, <2>3 DEF Cat, Seqs, ra
<1>7. fixtures' = Prepared(all) \o setUp /\ fixtures' \in Seq(Fixture)
  <2>1. setUp \in Seq(Fixture)
    <3>1. <<>> \in Seq(Fixture) /\ <<"setUp">> \in Seq(Fixture)
      BY DEF Fixture
    <3> QED BY <3>1
  <2>2. fixtures' = Prepared(all) \o setUp
    BY <1>1, <1>3
  <2> HIDE DEF setUp
  <2> QED BY <1>5, <2>1, <2>2, ConcatProperties
<1>8. TestTypeOK'
  <2>1. skip_cnt + n \in Nat
    BY <1>2 DEF TestTypeOK
  <2> HIDE DEF rest, setUp, torn
  <2> QED BY <1>1, <1>2, <1>3, <1>4, <1>6, <1>7, <2>1 DEF TestTypeOK
<1>9. CASE k < Len(tests)
  <2>1. EdfRuns'
    <3>1. rest = TestIntro(test_idx' + 1) /\ setUp = <<"setUp">> /\ phase' = "run"
      BY <1>1, <1>9
    <3>2. fixtures' # <<>>
      <4>1. Prepared(all) \o <<"setUp">> # <<>>
        BY <1>5, SetUpShows
      <4> QED BY <1>7, <3>1, <4>1
    <3> HIDE DEF rest, setUp, torn
    <3> QED BY <1>1, <1>3, <1>4, <1>6, <1>7, <1>9, <3>1, <3>2 DEF EdfRuns
  <2> QED BY <1>1, <1>8, <1>9, <2>1 DEF TestInv, Over
<1>10. CASE ~(k < Len(tests))
  <2>1. /\ k = Len(tests) /\ rest = Summary(Len(tests), skip_cnt + n, 0) \o Verdict(TRUE)
        /\ setUp = <<>> /\ phase' = "passed" /\ (phase' = "passed") = TRUE
    <3>1. k = Len(tests)
      BY <1>2, <1>10
    <3>2. phase' = "passed"
      BY <1>1, <1>10
    <3> HIDE DEF k
    <3> QED BY <1>10, <3>1, <3>2
  <2>2. fixtures' = Prepared(all)
    <3> HIDE DEF setUp
    <3> QED BY <1>5, <1>7, <2>1, ConcatEmptySeq
  <2>3. report' = ((Header \o Reported(all))
                     \o Summary(Len(all), Tally(all, "skipped"), Tally(all, "failed")))
                     \o Verdict(phase' = "passed")
    <3> DEFINE ra == Reported(all)
               s == Summary(Len(tests), skip_cnt + n, 0)
               v == Verdict(TRUE)
    <3>1. /\ ra \in Seqs(Line) /\ s \in Seqs(Line) /\ v \in Seqs(Line) /\ Header \in Seqs(Line)
      <4>1. skip_cnt + n \in Nat /\ 0 \in Nat /\ TRUE \in BOOLEAN
        BY <1>2 DEF TestTypeOK
      <4> QED BY <1>2, <1>5, <4>1, LinesAre DEF Seqs
    <3>2. report' = (Header \o ra) \o (s \o v)
      BY <1>6, <2>1
    <3>3. s = Summary(Len(all), Tally(all, "skipped"), Tally(all, "failed")) /\ v = Verdict(phase' = "passed")
      BY <1>3, <2>1
    <3> HIDE DEF ra, s, v, rest
    <3>4. Cat(Cat(Header, ra), Cat(s, v)) = Cat(Cat(Cat(Header, ra), s), v)
      BY <3>1, Cats
    <3> QED BY <3>2, <3>3, <3>4 DEF Cat, ra
  <2>4. SuiteDone'
    <3> HIDE DEF rest, setUp, torn
    <3> QED BY <1>1, <1>3, <1>4, <2>1, <2>2, <2>3 DEF SuiteDone
  <2> QED BY <1>8, <2>1, <2>4 DEF TestInv, Over
<1> QED BY <1>9, <1>10

(* The start of EDFTest, with the tests that are skipped at the front.     *)
LEMMA EdfStartPreserves ==
  ASSUME TestInv, EdfStart
  PROVE  TestInv'
<1>1. /\ TestTypeOK /\ EdfRuns /\ runner = "edf" /\ phase = "run" /\ fixtures = <<>>
      /\ MoveOn(0, <<>>) /\ UNCHANGED <<runner, tests, last_skipped>>
  BY DEF TestInv, EdfStart
<1>2. skip_cnt = 0 /\ report = Header /\ outcome = <<>>
  BY <1>1 DEF EdfRuns
<1>3. /\ <<>> \in Seq(Result) /\ <<>> \in Seq(Line) /\ Len(<<>>) \in 0 .. Len(tests)
      /\ MoveOn(Len(<<>>), <<>>)
  <2>1. Len(tests) \in Nat
    BY <1>1 DEF TestTypeOK
  <2>2. Len(<<>>) = 0 /\ <<>> \in Seq(Result) /\ <<>> \in Seq(Line)
    OBVIOUS
  <2>3. Len(<<>>) \in 0 .. Len(tests)
    BY <2>1, <2>2
  <2> QED BY <1>1, <2>2, <2>3, Zenon
<1>4. /\ skip_cnt = Tally(<<>>, "skipped") /\ Tally(<<>>, "failed") = 0
      /\ report \o <<>> = Header \o Reported(<<>>)
      /\ fixtures \o <<>> = Prepared(<<>>)
      /\ <<>> = outcome \o <<>>
  <2>1. Header \o <<>> = Header
    BY LinesAre, ConcatEmptySeq
  <2>2. <<>> \o <<>> = <<>>
    BY EmptySeq, ConcatEmptySeq
  <2> QED BY <1>1, <1>2, <2>1, <2>2, NoneYet, Zenon
<1>5. /\ <<>> = outcome \o (IF <<>> = <<>> THEN <<>> ELSE <<"passed">>)
      /\ fixtures \o (IF <<>> = <<>> THEN <<>> ELSE <<"tearDown">>) = Prepared(<<>>)
  BY <1>4, Zenon
<1> QED BY <1>1, <1>3, <1>4, <1>5, MoveOnPreserves

(* A test that passes, and those that are skipped behind it.               *)
LEMMA TestPassesPreserves ==
  ASSUME TestInv, TestPasses
  PROVE  TestInv'
<1> DEFINE out == Append(outcome, "passed")
           r == TestResult("passed")
<1>1. /\ TestTypeOK /\ EdfRuns /\ runner = "edf" /\ phase = "run" /\ stimuli # <<>>
      /\ MoveOn(test_idx + 1, r) /\ UNCHANGED <<runner, tests, last_skipped>>
  BY DEF TestInv, TestPasses, Taking
<1>2. /\ test_idx = Len(outcome) /\ test_idx < Len(tests)
      /\ skip_cnt = Tally(outcome, "skipped") /\ Tally(outcome, "failed") = 0
      /\ report = (Header \o Reported(outcome)) \o TestIntro(test_idx + 1)
      /\ fixtures = Prepared(outcome) \o <<"setUp">>
  BY <1>1 DEF EdfRuns
<1>3. outcome \in Seq(Result) /\ "passed" \in Result /\ Len(tests) \in Nat /\ Len(outcome) \in Nat
  BY <1>1 DEF TestTypeOK, Result
<1>4. out \in Seq(Result) /\ Len(out) = test_idx + 1 /\ out = outcome \o <<"passed">>
  BY <1>2, <1>3, AppendProperties, AppendIsConcat
<1>5. Len(out) \in 0 .. Len(tests)
  <2> HIDE DEF out
  <2> QED BY <1>2, <1>3, <1>4
<1>6. r \in Seq(Line) /\ r # <<>>
  BY <1>3, LinesAre
<1>7. skip_cnt = Tally(out, "skipped") /\ Tally(out, "failed") = 0
  BY <1>2, <1>3, TallyAppend
<1>8. report \o r = Header \o Reported(out)
  BY <1>2, <1>3, Closes
<1>9. fixtures \o <<"tearDown">> = Prepared(out)
  <2>1. /\ Prepared(out) = Prepared(outcome) \o <<"setUp", "tearDown">>
        /\ Prepared(outcome) \in Seq(Fixture)
    BY <1>3, OneMore, FixturesAre
  <2>2. (Prepared(outcome) \o <<"setUp">>) \o <<"tearDown">> =
          Prepared(outcome) \o <<"setUp", "tearDown">>
    BY <2>1, TearsDownAgain
  <2> QED BY <1>2, <2>1, <2>2
<1> HIDE DEF out, r
<1>10. /\ out = outcome \o (IF r = <<>> THEN <<>> ELSE <<"passed">>)
       /\ fixtures \o (IF r = <<>> THEN <<>> ELSE <<"tearDown">>) = Prepared(out)
       /\ MoveOn(Len(out), r)
  BY <1>1, <1>4, <1>6, <1>9
<1> QED BY <1>1, <1>4, <1>5, <1>6, <1>7, <1>8, <1>10, MoveOnPreserves

(* A test that fails ends the suite.                                       *)
LEMMA TestFailsPreserves ==
  ASSUME TestInv, TestFails
  PROVE  TestInv'
<1> DEFINE out == Append(outcome, "failed")
           r == TestResult("failed")
           s == Summary(test_idx + 1, skip_cnt, 1)
           v == Verdict(FALSE)
<1>1. /\ TestTypeOK /\ EdfRuns /\ runner = "edf" /\ phase = "run" /\ stimuli # <<>>
      /\ report' = report \o ((r \o s) \o v) /\ outcome' = out /\ phase' = "failed"
      /\ UNCHANGED <<runner, tests, test_idx, skip_cnt, last_skipped, fixtures>>
  BY DEF TestInv, TestFails, Taking, Prints
<1>2. /\ test_idx = Len(outcome)
      /\ skip_cnt = Tally(outcome, "skipped") /\ Tally(outcome, "failed") = 0
      /\ report = (Header \o Reported(outcome)) \o TestIntro(test_idx + 1)
      /\ fixtures = Prepared(outcome) \o <<"setUp">>
  BY <1>1 DEF EdfRuns
<1>3. /\ outcome \in Seq(Result) /\ "failed" \in Result /\ Len(outcome) \in Nat
      /\ skip_cnt \in Nat /\ report \in Seq(Line)
  BY <1>1 DEF TestTypeOK, Result
<1>4. out \in Seq(Result) /\ Len(out) = test_idx + 1
  BY <1>2, <1>3, AppendProperties
<1>5. skip_cnt = Tally(out, "skipped") /\ Tally(out, "failed") = 1
  BY <1>2, <1>3, TallyAppend
<1>6. /\ Prepared(out) = fixtures /\ report \o r = Header \o Reported(out)
  BY <1>2, <1>3, OneMore, FixturesAre, Closes
<1>7. r \in Seq(Line) /\ s \in Seq(Line) /\ v \in Seq(Line)
  <2>1. test_idx + 1 \in Nat /\ 1 \in Nat /\ FALSE \in BOOLEAN
    BY <1>2, <1>3
  <2> QED BY <1>3, <2>1, LinesAre
<1> HIDE DEF out
<1>8. report' = ((Header \o Reported(out)) \o s) \o v /\ report' \in Seq(Line)
  <2> DEFINE all == Header \o Reported(out)
  <2> HIDE DEF r, s, v, all
  <2>1. /\ report \in Seqs(Line) /\ r \in Seqs(Line) /\ s \in Seqs(Line) /\ v \in Seqs(Line)
        /\ Cat(report, r) = all
    BY <1>3, <1>6, <1>7 DEF Seqs, Cat, all
  <2>2. /\ Cat(report, Cat(Cat(r, s), v)) = Cat(Cat(all, s), v)
        /\ Cat(Cat(all, s), v) \in Seqs(Line)
    BY <2>1, Cats
  <2> QED BY <1>1, <2>2 DEF all, Cat, Seqs
<1>9. TestTypeOK'
  <2> HIDE DEF r, s, v
  <2> QED BY <1>1, <1>4, <1>8 DEF TestTypeOK
<1>10. SuiteDone'
  <2>1. (phase' = "passed") = FALSE /\ phase' # "passed"
    BY <1>1
  <2>2. report' = ((Header \o Reported(out))
                     \o Summary(Len(out), Tally(out, "skipped"), Tally(out, "failed")))
                     \o Verdict(phase' = "passed")
    BY <1>4, <1>5, <1>8, <2>1
  <2> HIDE DEF r, s, v
  <2> QED BY <1>1, <1>5, <1>6, <2>1, <2>2 DEF SuiteDone
<1> QED BY <1>1, <1>9, <1>10 DEF TestInv, Over

(* Events that wait or that no test wants change nothing that is reported. *)
LEMMA StimuliPreserve ==
  ASSUME TestInv, (\E sig \in Sig : Stimulus(sig)) \/ EventIgnored
  PROVE  TestInv'
<1>1. /\ phase = "run" /\ runner = "edf" /\ TestTypeOK /\ EdfRuns /\ fixtures # <<>>
      /\ UNCHANGED <<runner, tests, test_idx, skip_cnt, last_skipped, phase, report, fixtures, outcome>>
  BY DEF TestInv, Stimulus, EventIgnored, Taking, EdfRuns
<1>2. TestTypeOK' /\ EdfRuns'
  BY <1>1 DEF TestTypeOK, EdfRuns
<1> QED BY <1>1, <1>2 DEF TestInv, Over

LEMMA TestStep == TestInv /\ [TestNext]_test_vars => TestInv'
<1>1. CASE TestInv /\ TestNext
  BY <1>1, BeginPreserves, EtfTestPreserves, EtfFailPreserves, EtfEndPreserves,
     EdfStartPreserves, TestPassesPreserves, TestFailsPreserves, StimuliPreserve DEF TestNext
<1>2. CASE TestInv /\ UNCHANGED test_vars
  BY <1>2 DEF test_vars, TestInv, TestTypeOK, EtfRuns, EdfRuns, SuiteDone, Over
<1> QED BY <1>1, <1>2

(* What a suite that is done has reported.                                 *)
LEMMA ReportOfInv == TestInv => ReportSound
<1> SUFFICES ASSUME TestInv, Over, runner = "etf" => test_idx > 0
             PROVE  ReportSound
  BY DEF ReportSound
<1>1. SuiteDone
  BY DEF TestInv
<1>2. /\ Reported(outcome) = FlattenSeq([k \in DOMAIN outcome |-> TestIntro(k) \o TestResult(outcome[k])])
      /\ Prepared(outcome) = FlattenSeq([k \in DOMAIN outcome |->
           CASE outcome[k] = "skipped" -> <<>>
             [] outcome[k] = "passed" -> <<"setUp", "tearDown">>
             [] outcome[k] = "failed" -> <<"setUp">>])
  BY DEF Reported, Prepared, Entries, Fixtures, Entry, FixturesOf
<1>3. Count("skipped") = Tally(outcome, "skipped") /\ Count("failed") = Tally(outcome, "failed")
  BY DEF Count, Tally
<1>4. Total = Len(outcome)
  BY <1>1 DEF Total, SuiteDone
<1> QED BY <1>1, <1>2, <1>3, <1>4, Zenon DEF SuiteDone, ReportSound, Header

LEMMA TestAlways == TestSpec => []TestInv
<1> QED BY TestInitially, TestStep, PTL DEF TestSpec

(* ReportSound: however many tests a suite has, whichever are skipped and  *)
(* whatever lines, names and events there are, a suite that is over has    *)
(* reported each of its tests once, in turn and with its outcome, counted  *)
(* them and given the right verdict, and has set up and torn down each.    *)
THEOREM ReportsAreSound == TestSpec => []ReportSound
<1> QED BY TestAlways, ReportOfInv, PTL
=============================================================================
