-------------------------- MODULE TimeEvent_proofs --------------------------
(***************************************************************************)
(* The time events of one tick rate, for any set of time events, any ticks *)
(* and periods and any number of calls between the critical sections of a  *)
(* tick.                                                                   *)
(***************************************************************************)
EXTENDS TimeEvent, EmfBitmask_proofs, FiniteSetTheorems

(* Both lists as one: the first a of n time events are the armed list, the *)
(* others the new one; link number 0 is Root, number i that of nodes[i].   *)
LinkAt(nodes, i) == IF i = 0 THEN Root ELSE nodes[i]

Listed(lk, head, linked, n, a, nodes) ==
  /\ n \in Nat /\ a \in 0 .. n /\ nodes \in [1 .. n -> TE]
  /\ \A i, j \in 1 .. n : nodes[i] = nodes[j] => i = j
  /\ \A t \in TE : linked[t] <=> \E i \in 1 .. n : nodes[i] = t
  /\ \A i \in 0 .. n :
       lk[LinkAt(nodes, i)] = IF i = a \/ i = n THEN NULL ELSE nodes[i + 1]
  /\ head = IF a = n THEN NULL ELSE nodes[a + 1]

(* What the tick has still to visit behind link number k.                  *)
Behind(n, nodes, k) == {nodes[i] : i \in k + 1 .. n}

(* The tick has counted exactly the time events that are not in ahead; the *)
(* one that it is about to post has expired.                               *)
Counts(ahead, c, pr, expired, bf, tch, ps) ==
  \A t \in TE \ tch :
    IF t \in ahead
    THEN c[t] = bf[t] /\ ps[t] = 0 /\ t # expired
    ELSE IF bf[t] = 1
    THEN c[t] = pr[t] /\ ps[t] = (IF t = expired THEN 0 ELSE 1)
    ELSE ps[t] = 0 /\ t # expired /\ c[t] = IF bf[t] = 0 THEN 0 ELSE bf[t] - 1

(* The event to be posted is not in the rest of the armed list: a call may *)
(* have armed it again, but not in front of the tick.                      *)
Walk(n, a, nodes, k) ==
  /\ Listed(link, new_head, is_linked, n, a, nodes)
  /\ k \in 0 .. a /\ te_link = LinkAt(nodes, k)
  /\ te \notin Behind(a, nodes, k)
  /\ walk # "idle" => Counts(Behind(n, nodes, k), cnt, period, te, before, touched, posts)

SomeWalk == \E n, a, nodes, k : Walk(n, a, nodes, k)

(* Who was posted late is disarmed, and nobody is about to post it again.  *)
LateOnce == \A t \in TE : late[t] = 0 \/ (late[t] = 1 /\ cnt[t] = 0 /\ te # t)

TimeInv ==
  /\ TypeOK
  /\ \A t \in TE : cnt[t] # 0 => is_linked[t]
  /\ LateOnce /\ TickExact
  /\ walk = "idle" => te_link = Root
  /\ SomeWalk

-----------------------------------------------------------------------------
ReachedBy(lk, node) ==
  LET reach[n \in 0 .. Cardinality(TE)] ==
        IF n = 0 THEN {node} \ {NULL}
        ELSE reach[n - 1] \cup ({lk[m] : m \in reach[n - 1]} \ {NULL})
  IN  reach[Cardinality(TE)]

Linked(lk, node, m, s) ==
  /\ m \in Nat /\ s \in [1 .. m -> TE]
  /\ \A i, j \in 1 .. m : s[i] = s[j] => i = j
  /\ node = IF m = 0 THEN NULL ELSE s[1]
  /\ \A i \in 1 .. m : lk[s[i]] = IF i = m THEN NULL ELSE s[i + 1]

LEMMA ReachedIs == \A node : Reached(node) = ReachedBy(link, node)
  BY DEF Reached, ReachedBy

LEMMA ListIsShort ==
  ASSUME NEW lk, NEW node, NEW m, NEW s, Linked(lk, node, m, s)
  PROVE  m <= Cardinality(TE) /\ Cardinality(TE) \in Nat
  <1>1. IsFiniteSet(TE) /\ Cardinality(TE) \in Nat
    BY TimeAssumption, FS_CardinalityType
  <1>2. s \in Injection(1 .. m, TE)
    BY DEF Linked, Injection, IsInjective
  <1>3. Cardinality(1 .. m) <= Cardinality(TE)
    BY <1>1, <1>2, FS_Injection
  <1>4. m \in Int /\ 1 \in Int /\ Cardinality(1 .. m) = IF 1 > m THEN 0 ELSE m - 1 + 1
    BY FS_Interval DEF Linked
  <1> QED BY <1>1, <1>3, <1>4 DEF Linked

(* The nodes that a list consists of are those reached from its head.      *)
LEMMA ReachedList ==
  ASSUME NEW lk, NEW node, NEW m, NEW s, Linked(lk, node, m, s)
  PROVE  ReachedBy(lk, node) = {s[i] : i \in 1 .. m}
  <1> DEFINE N == Cardinality(TE)
             Next1(f, n) == IF n = 0 THEN {node} \ {NULL}
                            ELSE f[n - 1] \cup ({lk[x] : x \in f[n - 1]} \ {NULL})
             First(n) == {s[i] : i \in {j \in 1 .. m : j <= n + 1}}
             g == [n \in 0 .. N |-> First(n)]
  <1>1. m <= N /\ N \in Nat /\ m \in Nat
    <2>1. m <= N /\ N \in Nat
      BY ListIsShort
    <2> QED BY <2>1 DEF Linked
  <1>2. \A i \in 1 .. m : s[i] \in TE /\ s[i] # NULL
    BY TimeAssumption DEF Linked
  <1>3. ASSUME NEW n \in 0 .. N
        PROVE  First(n) = Next1(g, n)
    <2>1. CASE n = 0
      <3>1. CASE m = 0
        BY <2>1, <3>1 DEF Linked
      <3>2. CASE m > 0
        <4>1. {j \in 1 .. m : j <= 0 + 1} = {1}
          BY <1>1, <3>2
        <4>2. First(0) = {s[1]}
          BY <4>1
        <4>3. node = s[1] /\ s[1] # NULL
          BY <1>1, <1>2, <3>2 DEF Linked
        <4> QED BY <2>1, <4>2, <4>3
      <3>3. m = 0 \/ m > 0
        BY <1>1
      <3> QED BY <3>1, <3>2, <3>3
    <2>2. CASE n > 0
      <3>1. n - 1 \in 0 .. N /\ g[n - 1] = First(n - 1)
        BY <1>1, <2>2
      <3>2. First(n - 1) = {s[i] : i \in {j \in 1 .. m : j <= n}}
        BY <2>2
      <3>3. {lk[x] : x \in First(n - 1)} \ {NULL} = {s[i] : i \in {j \in 2 .. m : j <= n + 1}}
        <4>1. ASSUME NEW x \in First(n - 1), lk[x] # NULL
              PROVE  \E i \in 2 .. m : i <= n + 1 /\ lk[x] = s[i]
          <5>1. PICK i \in 1 .. m : i <= n /\ x = s[i]
            BY <3>2, <4>1
          <5>2. i # m /\ lk[x] = s[i + 1]
            BY <4>1, <5>1 DEF Linked
          <5>3. i + 1 \in 2 .. m /\ i + 1 <= n + 1
            BY <1>1, <5>1, <5>2
          <5> QED BY <5>2, <5>3
        <4>2. ASSUME NEW i \in 2 .. m, i <= n + 1
              PROVE  s[i] # NULL /\ \E x \in First(n - 1) : s[i] = lk[x]
          <5>1. i - 1 \in 1 .. m /\ i - 1 <= n /\ i - 1 # m /\ (i - 1) + 1 = i /\ i \in 1 .. m
            BY <1>1, <4>2
          <5>2. lk[s[i - 1]] = s[i]
            BY <5>1 DEF Linked
          <5>3. s[i - 1] \in First(n - 1)
            BY <3>2, <5>1
          <5> QED BY <1>2, <5>1, <5>2, <5>3
        <4> QED BY <4>1, <4>2
      <3>4. First(n) = First(n - 1) \cup {s[i] : i \in {j \in 2 .. m : j <= n + 1}}
        <4>1. {j \in 1 .. m : j <= n + 1}
                = {j \in 1 .. m : j <= n} \cup {j \in 2 .. m : j <= n + 1}
          BY <1>1, <2>2
        <4> QED BY <3>2, <4>1
      <3> QED BY <2>2, <3>1, <3>3, <3>4
    <2>3. n = 0 \/ n > 0
      BY <1>1
    <2> QED BY <2>1, <2>2, <2>3
  <1> HIDE DEF First
  <1>4. g = [n \in 0 .. N |-> Next1(g, n)]
    BY <1>3
  <1>5. ASSUME NEW f, f = [n \in 0 .. N |-> Next1(f, n)]
        PROVE  f = g
    <2> DEFINE bad == {n \in 0 .. N : f[n] # g[n]}
    <2>1. ASSUME bad # {}
          PROVE  FALSE
      <3>1. bad \in SUBSET Nat
        BY <1>1
      <3>2. PICK n \in bad : \A y \in bad : n <= y
        BY <2>1, <3>1, LeastNatural
      <3>3. n \in 0 .. N /\ f[n] # g[n] /\ f[n] = Next1(f, n) /\ g[n] = Next1(g, n)
        BY <1>4, <1>5, <3>2
      <3>4. n # 0
        BY <3>3
      <3>5. n - 1 \in 0 .. N /\ ~(n <= n - 1)
        BY <1>1, <3>3, <3>4
      <3>6. f[n - 1] = g[n - 1]
        BY <3>2, <3>5
      <3>7. Next1(f, n) = Next1(g, n)
        BY <3>6
      <3> QED BY <3>3, <3>7
    <2>2. \A n \in 0 .. N : f[n] = g[n]
      BY <2>1
    <2> QED BY <1>5, <2>2
  <1>6. (CHOOSE f : f = [n \in 0 .. N |-> Next1(f, n)]) = g
    BY <1>4, <1>5
  <1>7. ReachedBy(lk, node) = (CHOOSE f : f = [n \in 0 .. N |-> Next1(f, n)])[N]
    BY DEF ReachedBy
  <1>8. First(N) = {s[i] : i \in 1 .. m}
    <2>1. {j \in 1 .. m : j <= N + 1} = 1 .. m
      BY <1>1
    <2> QED BY <2>1 DEF First
  <1>9. N \in 0 .. N
    BY <1>1
  <1>10. ReachedBy(lk, node) = First(N)
    BY <1>6, <1>7, <1>9
  <1> QED BY <1>8, <1>10

-----------------------------------------------------------------------------
(* What a call or the tick does to the lists: a node is put at the head of *)
(* the new list, ...                                                       *)
Inserted(n, a, nodes, t) ==
  [i \in 1 .. n + 1 |-> IF i <= a THEN nodes[i] ELSE IF i = a + 1 THEN t ELSE nodes[i - 1]]

With(f, x, v) == [f EXCEPT ![x] = v]

Links == [TE \cup {Root} -> TE \cup {NULL}]

LEMMA LinkAtType ==
  ASSUME NEW n \in Nat, NEW nodes \in [1 .. n -> TE], NEW i \in 0 .. n
  PROVE  /\ LinkAt(nodes, i) \in TE \cup {Root}
         /\ i # 0 => LinkAt(nodes, i) = nodes[i] /\ nodes[i] \in TE
         /\ LinkAt(nodes, 0) = Root
  BY DEF LinkAt

LEMMA LinksApart ==
  ASSUME NEW n \in Nat, NEW nodes \in [1 .. n -> TE],
         \A i, j \in 1 .. n : nodes[i] = nodes[j] => i = j,
         NEW i \in 0 .. n, NEW j \in 0 .. n, LinkAt(nodes, i) = LinkAt(nodes, j)
  PROVE  i = j
  BY TimeAssumption DEF LinkAt

LEMMA InsertedListed ==
  ASSUME NEW lk \in Links, NEW head, NEW linked \in [TE -> BOOLEAN],
         NEW n, NEW a, NEW nodes, Listed(lk, head, linked, n, a, nodes),
         NEW t \in TE, ~linked[t]
  PROVE  Listed(With(lk, t, head), t, With(linked, t, TRUE), n + 1, a, Inserted(n, a, nodes, t))
  <1> DEFINE new == Inserted(n, a, nodes, t)
             lk1 == With(lk, t, head)
             linked1 == With(linked, t, TRUE)
  <1>1. /\ n \in Nat /\ a \in 0 .. n /\ nodes \in [1 .. n -> TE] /\ a \in Nat /\ a <= n
        /\ \A i, j \in 1 .. n : nodes[i] = nodes[j] => i = j
        /\ \A i \in 1 .. n : nodes[i] # t
    BY DEF Listed
  <1>2. /\ new \in [1 .. n + 1 -> TE]
        /\ \A i \in 1 .. a : new[i] = nodes[i]
        /\ new[a + 1] = t
        /\ \A i \in a + 2 .. n + 1 : new[i] = nodes[i - 1] /\ i - 1 \in a + 1 .. n
    BY <1>1 DEF Inserted
  <1> HIDE DEF new
  <1>3. \A i, j \in 1 .. n + 1 : new[i] = new[j] => i = j
    <2> SUFFICES ASSUME NEW i \in 1 .. n + 1, NEW j \in 1 .. n + 1, new[i] = new[j]
                 PROVE  i = j
      OBVIOUS
    <2> DEFINE old(x) == IF x <= a THEN x ELSE x - 1
    <2>1. \A x \in 1 .. n + 1 : x # a + 1 => old(x) \in 1 .. n /\ new[x] = nodes[old(x)]
      BY <1>1, <1>2
    <2>2. i = a + 1 <=> j = a + 1
      BY <1>1, <1>2, <2>1
    <2>3. CASE i # a + 1 /\ j # a + 1
      <3>1. old(i) = old(j)
        BY <1>1, <2>1, <2>3
      <3> QED BY <1>1, <2>3, <3>1
    <2> QED BY <2>2, <2>3
  <1>4. \A x \in TE : linked1[x] <=> \E i \in 1 .. n + 1 : new[i] = x
    <2> TAKE x \in TE
    <2>1. a + 1 \in 1 .. n + 1
      BY <1>1
    <2>2. CASE x = t
      BY <1>2, <2>1, <2>2 DEF With
    <2>3. CASE x # t
      <3>1. linked1[x] <=> \E i \in 1 .. n : nodes[i] = x
        BY <2>3 DEF Listed, With
      <3>2. ASSUME NEW i \in 1 .. n, nodes[i] = x
            PROVE  \E j \in 1 .. n + 1 : new[j] = x
        <4>1. CASE i <= a
          BY <1>1, <1>2, <3>2, <4>1
        <4>2. CASE i > a
          <5>1. i + 1 \in a + 2 .. n + 1 /\ i + 1 \in 1 .. n + 1 /\ (i + 1) - 1 = i
            BY <1>1, <4>2
          <5> QED BY <1>2, <3>2, <5>1
        <4> QED BY <1>1, <4>1, <4>2
      <3>3. ASSUME NEW j \in 1 .. n + 1, new[j] = x
            PROVE  \E i \in 1 .. n : nodes[i] = x
        BY <1>1, <1>2, <2>3, <3>3
      <3> QED BY <3>1, <3>2, <3>3
    <2> QED BY <2>2, <2>3
  <1>5. \A i \in 0 .. n + 1 :
          lk1[LinkAt(new, i)] = IF i = a \/ i = n + 1 THEN NULL ELSE new[i + 1]
    <2> TAKE i \in 0 .. n + 1
    <2>1. \A j \in 0 .. n : lk[LinkAt(nodes, j)] = IF j = a \/ j = n THEN NULL ELSE nodes[j + 1]
      BY DEF Listed
    <2>2. \A j \in 0 .. n : LinkAt(nodes, j) \in TE \cup {Root} /\ LinkAt(nodes, j) # t
      BY <1>1, TimeAssumption DEF LinkAt
    <2>3. CASE i <= a
      <3>1. LinkAt(new, i) = LinkAt(nodes, i) /\ i \in 0 .. n
        BY <1>1, <1>2, <2>3 DEF LinkAt
      <3>2. lk1[LinkAt(new, i)] = lk[LinkAt(nodes, i)]
        BY <2>2, <3>1 DEF Links, With
      <3>3. i # a => new[i + 1] = nodes[i + 1] /\ i # n /\ i # n + 1
        BY <1>1, <1>2, <2>3
      <3> QED BY <1>1, <2>1, <3>1, <3>2, <3>3
    <2>4. CASE i = a + 1
      <3>1. LinkAt(new, i) = t
        BY <1>1, <1>2, <2>4 DEF LinkAt
      <3>2. lk1[LinkAt(new, i)] = IF a = n THEN NULL ELSE nodes[a + 1]
        BY <3>1 DEF Links, Listed, With
      <3>3. a # n => a + 2 \in a + 2 .. n + 1 /\ (a + 2) - 1 = a + 1 /\ i + 1 = a + 2
        BY <1>1, <2>4
      <3> QED BY <1>1, <1>2, <2>4, <3>2, <3>3
    <2>5. CASE i > a + 1
      <3>1. i \in a + 2 .. n + 1 /\ i - 1 \in 1 .. n /\ i - 1 # a
        BY <1>1, <2>5
      <3>2. LinkAt(new, i) = LinkAt(nodes, i - 1)
        BY <1>1, <1>2, <3>1 DEF LinkAt
      <3>3. lk1[LinkAt(new, i)] = lk[LinkAt(nodes, i - 1)]
        BY <1>1, <2>2, <3>1, <3>2 DEF Links, With
      <3>4. i # n + 1 => new[i + 1] = nodes[(i - 1) + 1]
        BY <1>1, <1>2, <3>1
      <3> QED BY <1>1, <2>1, <3>1, <3>3, <3>4
    <2> QED BY <1>1, <2>3, <2>4, <2>5
  <1>6. /\ n + 1 \in Nat /\ a \in 0 .. n + 1
        /\ t = IF a = n + 1 THEN NULL ELSE new[a + 1]
    BY <1>1, <1>2
  <1>7. Listed(lk1, t, linked1, n + 1, a, new)
    BY <1>2, <1>3, <1>4, <1>5, <1>6 DEF Listed
  <1> QED BY <1>7 DEF new

LEMMA InsertedBehind ==
  ASSUME NEW n \in Nat, NEW a \in 0 .. n, NEW nodes \in [1 .. n -> TE], NEW t, NEW k \in 0 .. a
  PROVE  /\ LinkAt(Inserted(n, a, nodes, t), k) = LinkAt(nodes, k)
         /\ Behind(n + 1, Inserted(n, a, nodes, t), k) = Behind(n, nodes, k) \cup {t}
  <1> DEFINE new == Inserted(n, a, nodes, t)
  <1>1. a \in Nat /\ a <= n
    OBVIOUS
  <1>2. /\ \A i \in 1 .. a : new[i] = nodes[i]
        /\ new[a + 1] = t
        /\ \A i \in a + 2 .. n + 1 : new[i] = nodes[i - 1] /\ i - 1 \in a + 1 .. n
    BY <1>1 DEF Inserted
  <1>3. LinkAt(new, k) = LinkAt(nodes, k)
    BY <1>1, <1>2 DEF LinkAt
  <1>4. ASSUME NEW i \in k + 1 .. n + 1
        PROVE  new[i] \in Behind(n, nodes, k) \cup {t}
    <2>1. CASE i <= a
      BY <1>1, <1>2, <2>1 DEF Behind
    <2>2. CASE i > a + 1
      <3>1. i \in a + 2 .. n + 1 /\ i - 1 \in k + 1 .. n
        BY <1>1, <2>2
      <3> QED BY <1>2, <3>1 DEF Behind
    <2> QED BY <1>1, <1>2, <2>1, <2>2
  <1>5. ASSUME NEW i \in k + 1 .. n
        PROVE  nodes[i] \in Behind(n + 1, new, k)
    <2>1. CASE i <= a
      BY <1>1, <1>2, <2>1 DEF Behind
    <2>2. CASE i > a
      <3>1. i + 1 \in a + 2 .. n + 1 /\ i + 1 \in k + 1 .. n + 1 /\ (i + 1) - 1 = i
        BY <1>1, <2>2
      <3> QED BY <1>2, <3>1 DEF Behind
    <2> QED BY <1>1, <2>1, <2>2
  <1>6. a + 1 \in k + 1 .. n + 1
    BY <1>1
  <1>7. t \in Behind(n + 1, new, k)
    BY <1>2, <1>6 DEF Behind
  <1> QED BY <1>3, <1>4, <1>5, <1>7 DEF Behind

(* ... the tick attaches the new list to the end of the armed one, ...     *)
LEMMA AttachedListed ==
  ASSUME NEW n, NEW a, NEW nodes, Listed(link, new_head, is_linked, n, a, nodes),
         link \in Links, NEW k \in 0 .. a, te_link = LinkAt(nodes, k)
  PROVE  LET b == IF k = a THEN n ELSE a IN
         /\ Listed(Attached, NewLeft, is_linked, n, b, nodes)
         /\ b \in 0 .. n /\ k \in 0 .. b /\ k \in 0 .. n /\ (k # n => k < b)
         /\ Current = IF k = n THEN NULL ELSE nodes[k + 1]
         /\ Attached \in Links /\ NewLeft \in TE \cup {NULL}
  <1> DEFINE b == IF k = a THEN n ELSE a
  <1>1. /\ n \in Nat /\ a \in 0 .. n /\ nodes \in [1 .. n -> TE] /\ a \in Nat /\ a <= n
        /\ k \in Nat /\ k <= a /\ k \in 0 .. n
    BY DEF Listed
  <1>2. \A i \in 0 .. n :
          /\ LinkAt(nodes, i) \in TE \cup {Root}
          /\ link[LinkAt(nodes, i)] = IF i = a \/ i = n THEN NULL ELSE nodes[i + 1]
          /\ i \in 1 .. n => nodes[i] # NULL
    BY <1>1, TimeAssumption DEF Listed, LinkAt
  <1>3. link[te_link] = NULL <=> k = a
    <2>1. k # a => k # n /\ k + 1 \in 1 .. n /\ k + 1 \in 0 .. n
      BY <1>1
    <2>2. k # a => nodes[k + 1] # NULL
      BY <1>2, <2>1
    <2>3. link[te_link] = IF k = a \/ k = n THEN NULL ELSE nodes[k + 1]
      BY <1>1, <1>2
    <2> QED BY <2>1, <2>2, <2>3
  <1>4. new_head = (IF a = n THEN NULL ELSE nodes[a + 1]) /\ new_head \in TE \cup {NULL}
    BY <1>1 DEF Listed
  <1>5. Attached \in Links /\ NewLeft \in TE \cup {NULL}
    BY <1>1, <1>2, <1>4 DEF Attached, NewLeft, Links
  <1>6. \A i \in 0 .. n :
          Attached[LinkAt(nodes, i)] = IF i = b \/ i = n THEN NULL ELSE nodes[i + 1]
    <2> TAKE i \in 0 .. n
    <2>1. CASE k # a
      BY <1>2, <1>3, <2>1 DEF Attached
    <2>2. CASE k = a /\ i = k
      BY <1>1, <1>2, <1>3, <1>4, <2>2 DEF Attached, Links
    <2>3. CASE k = a /\ i # k
      <3>1. LinkAt(nodes, i) # te_link
        BY <1>1, <2>3, LinksApart DEF Listed
      <3> QED BY <1>2, <1>3, <2>3, <3>1 DEF Attached, Links
    <2> QED BY <2>1, <2>2, <2>3
  <1>7. b \in 0 .. n /\ k \in 0 .. b /\ (k # n => k < b)
    BY <1>1
  <1>8. NewLeft = IF b = n THEN NULL ELSE nodes[b + 1]
    BY <1>3, <1>4 DEF NewLeft
  <1>9. Listed(Attached, NewLeft, is_linked, n, b, nodes)
    BY <1>6, <1>7, <1>8 DEF Listed
  <1>10. Current = IF k = n THEN NULL ELSE nodes[k + 1]
    <2>1. k = b => k = n
      BY <1>1
    <2> QED BY <1>1, <1>6, <2>1 DEF Current
  <1> QED BY <1>1, <1>5, <1>7, <1>9, <1>10

(* ... and it unlinks the node behind link number k.                       *)
Deleted(n, nodes, p) == [i \in 1 .. n - 1 |-> IF i < p THEN nodes[i] ELSE nodes[i + 1]]

LEMMA DeletedListed ==
  ASSUME NEW lk \in Links, NEW head, NEW linked \in [TE -> BOOLEAN],
         NEW n \in Nat, NEW b \in Nat, NEW nodes, Listed(lk, head, linked, n, b, nodes),
         NEW k \in Nat, k < b, NEW t, t = nodes[k + 1], NEW at, at = LinkAt(nodes, k)
  PROVE  Listed(With(lk, at, lk[t]), head, With(linked, t, FALSE), n - 1, b - 1,
                Deleted(n, nodes, k + 1))
  <1> DEFINE new == Deleted(n, nodes, k + 1)
             lk1 == With(lk, at, lk[t])
             linked1 == With(linked, t, FALSE)
  <1>1. /\ n \in Nat /\ b \in 1 .. n /\ nodes \in [1 .. n -> TE] /\ k \in Nat /\ k + 1 <= b
        /\ k + 1 \in 1 .. n /\ t \in TE
        /\ \A i, j \in 1 .. n : nodes[i] = nodes[j] => i = j
        /\ \A i \in 1 .. n : nodes[i] = t => i = k + 1
    BY DEF Listed
  <1>2. /\ new \in [1 .. n - 1 -> TE]
        /\ \A i \in 1 .. k : new[i] = nodes[i]
        /\ \A i \in k + 1 .. n - 1 : new[i] = nodes[i + 1]
    BY <1>1 DEF Deleted
  <1> HIDE DEF new
  <1>3. \A i, j \in 1 .. n - 1 : new[i] = new[j] => i = j
    <2> DEFINE old(x) == IF x <= k THEN x ELSE x + 1
    <2>1. \A x \in 1 .. n - 1 : old(x) \in 1 .. n /\ new[x] = nodes[old(x)]
      BY <1>1, <1>2
    <2> SUFFICES ASSUME NEW i \in 1 .. n - 1, NEW j \in 1 .. n - 1, new[i] = new[j]
                 PROVE  i = j
      OBVIOUS
    <2>2. old(i) = old(j)
      BY <1>1, <2>1
    <2> QED BY <1>1, <2>2
  <1>4. \A x \in TE : linked1[x] <=> \E i \in 1 .. n - 1 : new[i] = x
    <2> TAKE x \in TE
    <2>1. CASE x = t
      BY <1>1, <1>2, <2>1 DEF With
    <2>2. CASE x # t
      <3>1. linked1[x] <=> \E i \in 1 .. n : nodes[i] = x
        BY <2>2 DEF Listed, With
      <3>2. ASSUME NEW i \in 1 .. n, nodes[i] = x
            PROVE  \E j \in 1 .. n - 1 : new[j] = x
        <4>1. i # k + 1
          BY <2>2, <3>2
        <4>2. CASE i <= k
          BY <1>1, <1>2, <3>2, <4>2
        <4>3. CASE i > k + 1
          <5>1. i - 1 \in k + 1 .. n - 1 /\ i - 1 \in 1 .. n - 1 /\ (i - 1) + 1 = i
            BY <1>1, <4>3
          <5> QED BY <1>2, <3>2, <5>1
        <4> QED BY <1>1, <4>1, <4>2, <4>3
      <3>3. ASSUME NEW j \in 1 .. n - 1, new[j] = x
            PROVE  \E i \in 1 .. n : nodes[i] = x
        BY <1>1, <1>2, <3>3
      <3> QED BY <3>1, <3>2, <3>3
    <2> QED BY <2>1, <2>2
  <1>5. \A i \in 0 .. n - 1 :
          lk1[LinkAt(new, i)] = IF i = b - 1 \/ i = n - 1 THEN NULL ELSE new[i + 1]
    <2> TAKE i \in 0 .. n - 1
    <2>1. \A j \in 0 .. n : lk[LinkAt(nodes, j)] = IF j = b \/ j = n THEN NULL ELSE nodes[j + 1]
      BY DEF Listed
    <2>2. \A j \in 0 .. n : LinkAt(nodes, j) \in TE \cup {Root}
      BY <1>1 DEF LinkAt
    <2>3. lk[t] = IF k + 1 = b \/ k + 1 = n THEN NULL ELSE nodes[k + 2]
      BY <1>1, <2>1 DEF LinkAt
    <2>4. CASE i < k
      <3>1. LinkAt(new, i) = LinkAt(nodes, i) /\ i \in 0 .. n
        BY <1>1, <1>2, <2>4 DEF LinkAt
      <3>2. LinkAt(nodes, i) # at
        BY <1>1, <2>4, <3>1, LinksApart
      <3>3. lk1[LinkAt(new, i)] = lk[LinkAt(nodes, i)]
        BY <2>2, <3>1, <3>2 DEF Links, With
      <3>4. new[i + 1] = nodes[i + 1] /\ i # n /\ i # b /\ i # n - 1 /\ i # b - 1
        BY <1>1, <1>2, <2>4
      <3> QED BY <2>1, <3>1, <3>3, <3>4
    <2>5. CASE i = k
      <3>1. LinkAt(new, i) = at /\ at \in TE \cup {Root}
        BY <1>1, <1>2, <2>2, <2>5 DEF LinkAt
      <3>2. lk1[LinkAt(new, i)] = lk[t]
        BY <3>1 DEF Links, With
      <3>3. i # n - 1 => new[i + 1] = nodes[k + 2]
        BY <1>1, <1>2, <2>5
      <3> QED BY <1>1, <2>3, <2>5, <3>2, <3>3
    <2>6. CASE i > k
      <3>1. LinkAt(new, i) = LinkAt(nodes, i + 1) /\ i + 1 \in 0 .. n
        BY <1>1, <1>2, <2>6 DEF LinkAt
      <3>2. LinkAt(nodes, i + 1) # at
        BY <1>1, <2>6, <3>1, LinksApart
      <3>3. lk1[LinkAt(new, i)] = lk[LinkAt(nodes, i + 1)]
        BY <2>2, <3>1, <3>2 DEF Links, With
      <3>4. i # n - 1 => new[i + 1] = nodes[(i + 1) + 1]
        BY <1>1, <1>2, <2>6
      <3>5. (i + 1 = b <=> i = b - 1) /\ (i + 1 = n <=> i = n - 1)
        BY <1>1
      <3> QED BY <2>1, <3>1, <3>3, <3>4, <3>5
    <2> QED BY <1>1, <2>4, <2>5, <2>6
  <1>6. n - 1 \in Nat /\ b - 1 \in 0 .. n - 1 /\ k \in 0 .. b - 1
    BY <1>1
  <1>7. head = IF b - 1 = n - 1 THEN NULL ELSE new[(b - 1) + 1]
    <2>1. b # n => new[b] = nodes[b + 1]
      BY <1>1, <1>2
    <2> QED BY <1>1, <2>1 DEF Listed
  <1>8. Listed(lk1, head, linked1, n - 1, b - 1, new)
    BY <1>2, <1>3, <1>4, <1>5, <1>6, <1>7 DEF Listed
  <1> QED BY <1>8 DEF new

LEMMA DeletedBehind ==
  ASSUME NEW n \in Nat, NEW nodes \in [1 .. n -> TE],
         \A i, j \in 1 .. n : nodes[i] = nodes[j] => i = j,
         NEW k \in 0 .. n, k # n, NEW t, t = nodes[k + 1]
  PROVE  /\ Behind(n - 1, Deleted(n, nodes, k + 1), k) = Behind(n, nodes, k) \ {t}
         /\ t \in Behind(n, nodes, k)
         /\ LinkAt(Deleted(n, nodes, k + 1), k) = LinkAt(nodes, k)
  <1> DEFINE new == Deleted(n, nodes, k + 1)
  <1>1. k + 1 \in 1 .. n /\ \A i \in 1 .. n : nodes[i] = t => i = k + 1
    OBVIOUS
  <1>2. \A i \in k + 1 .. n - 1 : new[i] = nodes[i + 1]
    BY <1>1 DEF Deleted
  <1>3. Behind(n - 1, new, k) = Behind(n, nodes, k) \ {t}
    <2>1. ASSUME NEW i \in k + 1 .. n - 1
          PROVE  new[i] \in Behind(n, nodes, k) \ {t}
      <3>1. i + 1 \in k + 1 .. n /\ i + 1 # k + 1 /\ i + 1 \in 1 .. n
        BY <1>1
      <3> QED BY <1>1, <1>2, <3>1 DEF Behind
    <2>2. ASSUME NEW i \in k + 1 .. n, nodes[i] # t
          PROVE  nodes[i] \in Behind(n - 1, new, k)
      <3>1. i # k + 1
        BY <2>2
      <3>2. i - 1 \in k + 1 .. n - 1 /\ (i - 1) + 1 = i
        BY <1>1, <3>1
      <3> QED BY <1>2, <3>2 DEF Behind
    <2> QED BY <2>1, <2>2 DEF Behind
  <1>4. t \in Behind(n, nodes, k)
    BY <1>1 DEF Behind
  <1>5. LinkAt(new, k) = LinkAt(nodes, k)
    BY <1>1 DEF LinkAt, Deleted
  <1> QED BY <1>3, <1>4, <1>5

LEMMA BehindAdvances ==
  ASSUME NEW n \in Nat, NEW nodes \in [1 .. n -> TE],
         \A i, j \in 1 .. n : nodes[i] = nodes[j] => i = j,
         NEW k \in 0 .. n, k # n
  PROVE  /\ Behind(n, nodes, k + 1) = Behind(n, nodes, k) \ {nodes[k + 1]}
         /\ nodes[k + 1] \in Behind(n, nodes, k)
         /\ LinkAt(nodes, k + 1) = nodes[k + 1]
  <1>1. k + 1 \in 1 .. n /\ k + 1 \in k + 1 .. n
    OBVIOUS
  <1>2. \A i \in k + 1 .. n : i \in 1 .. n /\ (i = k + 1 \/ i \in (k + 1) + 1 .. n)
    OBVIOUS
  <1>3. \A i \in (k + 1) + 1 .. n : i \in k + 1 .. n /\ i # k + 1
    OBVIOUS
  <1> QED BY <1>1, <1>2, <1>3 DEF Behind, LinkAt

-----------------------------------------------------------------------------
(* The node that the tick handles leaves what is ahead, and is counted.    *)
LEMMA BehindShorter ==
  ASSUME NEW n \in Nat, NEW a \in 0 .. n, NEW nodes \in [1 .. n -> TE], NEW k \in Nat
  PROVE  Behind(a, nodes, k) \subseteq Behind(n, nodes, k) /\ Behind(n, nodes, k) \subseteq TE
  <1>1. \A i \in k + 1 .. a : i \in k + 1 .. n
    OBVIOUS
  <1>2. \A i \in k + 1 .. n : i \in 1 .. n
    OBVIOUS
  <1> QED BY <1>1, <1>2 DEF Behind

LEMMA CountsHandled ==
  ASSUME NEW ahead, NEW c, NEW c1, NEW pr, NEW e1, NEW bf, NEW tch, NEW ps,
         Counts(ahead, c, pr, NULL, bf, tch, ps), NEW t \in ahead,
         \A x \in TE : x # t => c1[x] = c[x],
         \/ c[t] = 0 /\ c1[t] = 0 /\ e1 = NULL
         \/ c[t] = 1 /\ c1[t] = pr[t] /\ e1 = t
         \/ c[t] > 1 /\ c1[t] = c[t] - 1 /\ e1 = NULL
  PROVE  Counts(ahead \ {t}, c1, pr, e1, bf, tch, ps)
  <1>1. NULL \notin TE /\ ~(1 > 1) /\ ~(0 > 1)
    BY TimeAssumption
  <1> SUFFICES ASSUME NEW x \in TE \ tch
               PROVE  IF x \in ahead \ {t}
                      THEN c1[x] = bf[x] /\ ps[x] = 0 /\ x # e1
                      ELSE IF bf[x] = 1
                      THEN c1[x] = pr[x] /\ ps[x] = (IF x = e1 THEN 0 ELSE 1)
                      ELSE ps[x] = 0 /\ x # e1 /\ c1[x] = IF bf[x] = 0 THEN 0 ELSE bf[x] - 1
    BY DEF Counts
  <1>2. IF x \in ahead
        THEN c[x] = bf[x] /\ ps[x] = 0 /\ x # NULL
        ELSE IF bf[x] = 1
        THEN c[x] = pr[x] /\ ps[x] = (IF x = NULL THEN 0 ELSE 1)
        ELSE ps[x] = 0 /\ x # NULL /\ c[x] = IF bf[x] = 0 THEN 0 ELSE bf[x] - 1
    BY DEF Counts
  <1>3. CASE x = t
    BY <1>1, <1>2, <1>3
  <1>4. CASE x # t
    BY <1>1, <1>2, <1>4
  <1> QED BY <1>3, <1>4

(* A call touches its time event, wherever that goes.                      *)
LEMMA CountsTouched ==
  ASSUME NEW ahead, NEW ahead1, NEW c, NEW c1, NEW pr, NEW pr1, NEW e, NEW bf, NEW tch,
         NEW tch1, NEW ps, Counts(ahead, c, pr, e, bf, tch, ps),
         \A x \in TE \ tch1 : /\ x \notin tch /\ (x \in ahead1 <=> x \in ahead)
                             /\ c1[x] = c[x] /\ pr1[x] = pr[x]
  PROVE  Counts(ahead1, c1, pr1, e, bf, tch1, ps)
  <1> SUFFICES ASSUME NEW x \in TE \ tch1
               PROVE  IF x \in ahead1
                      THEN c1[x] = bf[x] /\ ps[x] = 0 /\ x # e
                      ELSE IF bf[x] = 1
                      THEN c1[x] = pr1[x] /\ ps[x] = (IF x = e THEN 0 ELSE 1)
                      ELSE ps[x] = 0 /\ x # e /\ c1[x] = IF bf[x] = 0 THEN 0 ELSE bf[x] - 1
    BY DEF Counts
  <1>1. x \in TE \ tch
    OBVIOUS
  <1> QED BY <1>1 DEF Counts

(* When the tick is in its loop, it has counted what is not ahead of it;   *)
(* when it begins, nothing yet.                                            *)
LEMMA LoopCounts ==
  ASSUME TypeOK, \A t \in TE : cnt[t] # 0 => is_linked[t], walk = "idle" => te_link = Root,
         NEW n, NEW a, NEW nodes, NEW k, Walk(n, a, nodes, k), AtLoop
  PROVE  /\ te = NULL
         /\ Counts(Behind(n, nodes, k), cnt, period, NULL, before', touched', posts')
  <1>1. te = NULL
    BY DEF TypeOK, AtLoop
  <1>2. CASE walk = "step"
    BY <1>1, <1>2 DEF Walk, AtLoop
  <1>3. CASE walk = "idle"
    <2>1. before' = cnt /\ touched' = {} /\ posts' = [t \in TE |-> 0]
      BY <1>3 DEF AtLoop
    <2>2. k = 0
      <3>1. n \in Nat /\ a \in 0 .. n /\ nodes \in [1 .. n -> TE] /\ k \in 0 .. a
            /\ LinkAt(nodes, k) = Root
        BY <1>3 DEF Walk, Listed
      <3> QED BY <3>1, TimeAssumption DEF LinkAt
    <2>3. \A t \in TE : t \notin Behind(n, nodes, k) => cnt[t] = 0
      BY <2>2 DEF Walk, Listed, Behind
    <2>4. NULL \notin TE
      BY TimeAssumption
    <2>5. Counts(Behind(n, nodes, k), cnt, period, NULL, cnt, {}, [t \in TE |-> 0])
      <3> SUFFICES ASSUME NEW x \in TE
                   PROVE  IF x \in Behind(n, nodes, k)
                          THEN cnt[x] = cnt[x] /\ [t \in TE |-> 0][x] = 0 /\ x # NULL
                          ELSE IF cnt[x] = 1
                          THEN /\ cnt[x] = period[x]
                               /\ [t \in TE |-> 0][x] = IF x = NULL THEN 0 ELSE 1
                          ELSE /\ [t \in TE |-> 0][x] = 0 /\ x # NULL
                               /\ cnt[x] = IF cnt[x] = 0 THEN 0 ELSE cnt[x] - 1
        BY DEF Counts
      <3> QED BY <2>3, <2>4
    <2> QED BY <1>1, <2>1, <2>5
  <1> QED BY <1>2, <1>3 DEF AtLoop

LEMMA LoopTypes ==
  ASSUME TypeOK, AtLoop
  PROVE  /\ calls' \in 0 .. CallsPerTick /\ before' \in [TE -> 0 .. MaxTick]
         /\ touched' \subseteq TE /\ posts' \in [TE -> 0 .. 2]
  BY TimeAssumption DEF AtLoop, TypeOK

-----------------------------------------------------------------------------
Handles(t) == TickRemove(t) \/ TickExpire(t) \/ TickCount(t)

(* One step of the tick: the same walk, one node further.                  *)
LEMMA HandledWalks ==
  ASSUME TypeOK, \A x \in TE : cnt[x] # 0 => is_linked[x], walk = "idle" => te_link = Root,
         NEW n, NEW a, NEW nodes, NEW k, Walk(n, a, nodes, k),
         NEW t \in TE, Handles(t)
  PROVE  /\ t \in Behind(n, nodes, k)
         /\ \E n1, a1, nodes1, k1 :
              /\ Walk(n1, a1, nodes1, k1)'
              /\ Behind(n1, nodes1, k1) = Behind(n, nodes, k) \ {t}
         /\ link' \in Links /\ new_head' \in TE \cup {NULL} /\ te_link' \in TE \cup {Root}
         /\ is_linked' \in [TE -> BOOLEAN] /\ cnt' \in [TE -> 0 .. MaxTick]
         /\ \A x \in TE : cnt'[x] # 0 => is_linked'[x]
         /\ walk' \in {"step", "post"} /\ te' \in TE \cup {NULL}
         /\ (walk' = "post" <=> te' # NULL)
         /\ \A x \in TE : cnt[x] = 0 => cnt'[x] = 0 /\ te' # x
         /\ UNCHANGED <<period, failed, late>>
  <1>1. /\ AtLoop /\ t = Current /\ new_head' = NewLeft
        /\ UNCHANGED <<period, failed, late>>
    BY DEF Handles, TickRemove, TickExpire, TickCount, InLoop, AtLoop
  <1>2. /\ te = NULL
        /\ Counts(Behind(n, nodes, k), cnt, period, NULL, before', touched', posts')
    BY <1>1, LoopCounts
  <1>3. /\ link \in Links /\ is_linked \in [TE -> BOOLEAN] /\ cnt \in [TE -> 0 .. MaxTick]
        /\ period \in [TE -> 0 .. MaxTick] /\ NULL \notin TE /\ MaxTick \in Nat
    <2>1. Period \cup {0} \subseteq 0 .. MaxTick /\ NULL \notin TE /\ MaxTick \in Nat
      BY TimeAssumption
    <2> QED BY <2>1 DEF TypeOK, Links
  <1>4. /\ Listed(link, new_head, is_linked, n, a, nodes) /\ n \in Nat /\ a \in 0 .. n
        /\ nodes \in [1 .. n -> TE] /\ k \in 0 .. a /\ te_link = LinkAt(nodes, k)
        /\ \A i, j \in 1 .. n : nodes[i] = nodes[j] => i = j
    BY DEF Walk, Listed
  <1>5. PICK b : /\ Listed(Attached, NewLeft, is_linked, n, b, nodes)
                 /\ b \in 0 .. n /\ k \in 0 .. b /\ k \in 0 .. n /\ (k # n => k < b)
                 /\ Current = IF k = n THEN NULL ELSE nodes[k + 1]
                 /\ Attached \in Links /\ NewLeft \in TE \cup {NULL}
    BY <1>3, <1>4, AttachedListed
  <1>6. k # n /\ k < b /\ t = nodes[k + 1]
    BY <1>1, <1>3, <1>5
  <1>7. /\ cnt' \in [TE -> 0 .. MaxTick]
        /\ \A x \in TE : x # t => cnt'[x] = cnt[x]
        /\ \/ cnt[t] = 0 /\ cnt'[t] = 0 /\ te' = NULL /\ walk' = "step"
           \/ cnt[t] = 1 /\ cnt'[t] = period[t] /\ te' = t /\ walk' = "post"
           \/ cnt[t] > 1 /\ cnt'[t] = cnt[t] - 1 /\ te' = NULL /\ walk' = "step"
    <2>1. CASE TickRemove(t)
      BY <1>2, <1>3, <2>1 DEF TickRemove
    <2>2. CASE TickExpire(t)
      BY <1>3, <2>2 DEF TickExpire
    <2>3. CASE TickCount(t)
      BY <1>2, <1>3, <2>3 DEF TickCount
    <2> QED BY <2>1, <2>2, <2>3 DEF Handles
  <1>8. Counts(Behind(n, nodes, k) \ {t}, cnt', period', te', before', touched', posts')
    <2>1. t \in Behind(n, nodes, k)
      BY <1>4, <1>5, <1>6, BehindAdvances
    <2> QED BY <1>1, <1>2, <1>7, <2>1, CountsHandled
  <1>9. \A x \in TE : cnt[x] = 0 => cnt'[x] = 0 /\ te' # x
    BY <1>3, <1>7
  <1>a. te' \notin Behind(n, nodes, k) \ {t}
    <2>1. Behind(n, nodes, k) \subseteq TE
      BY <1>4, <1>5, BehindShorter
    <2> QED BY <1>3, <1>7, <2>1
  <1>10. \/ Unlink(t) /\ cnt'[t] = 0
         \/ Advance(t) /\ cnt[t] # 0
    BY <1>3, <1>7 DEF Handles, TickRemove, TickExpire, TickCount
  <1>11. CASE Unlink(t) /\ cnt'[t] = 0
    <2> DEFINE new == Deleted(n, nodes, k + 1)
               at == LinkAt(nodes, k)
    <2>1. /\ Listed(With(Attached, at, Attached[t]), NewLeft,
                    With(is_linked, t, FALSE), n - 1, b - 1, new)
          /\ LinkAt(new, k) = at /\ k \in 0 .. b - 1 /\ b - 1 \in 0 .. n - 1 /\ n - 1 \in Nat
          /\ Behind(n - 1, new, k) = Behind(n, nodes, k) \ {t}
          /\ t \in Behind(n, nodes, k)
      <3>1. /\ Attached \in Links /\ is_linked \in [TE -> BOOLEAN]
            /\ Listed(Attached, NewLeft, is_linked, n, b, nodes)
            /\ n \in Nat /\ b \in Nat /\ k \in Nat /\ k < b /\ t = nodes[k + 1]
            /\ at = LinkAt(nodes, k)
        BY <1>3, <1>4, <1>5, <1>6
      <3> HIDE DEF at
      <3>2. Listed(With(Attached, at, Attached[t]), NewLeft,
                   With(is_linked, t, FALSE), n - 1, b - 1, Deleted(n, nodes, k + 1))
        BY <3>1, DeletedListed
      <3>3. /\ Behind(n - 1, Deleted(n, nodes, k + 1), k) = Behind(n, nodes, k) \ {t}
            /\ t \in Behind(n, nodes, k)
            /\ LinkAt(Deleted(n, nodes, k + 1), k) = LinkAt(nodes, k)
        BY <1>4, <1>5, <1>6, DeletedBehind
      <3>4. k \in 0 .. b - 1 /\ b - 1 \in 0 .. n - 1 /\ n - 1 \in Nat
        BY <1>4, <1>5, <1>6
      <3> QED BY <3>1, <3>2, <3>3, <3>4
    <2>2. /\ link' = With(Attached, at, Attached[t])
          /\ is_linked' = With(is_linked, t, FALSE) /\ te_link' = at
      BY <1>4, <1>11 DEF Unlink, With
    <2> HIDE DEF new
    <2>b. te' \notin Behind(b - 1, new, k)
      <3>1. k \in Nat /\ new \in [1 .. n - 1 -> TE]
        BY <1>4, <2>1 DEF Listed
      <3> QED BY <1>a, <2>1, <3>1, BehindShorter
    <2>3. Walk(n - 1, b - 1, new, k)'
      BY <1>1, <1>8, <2>1, <2>2, <2>b DEF Walk
    <2>4. at \in TE \cup {Root}
      BY <1>4, <1>5, LinkAtType
    <2>5. link' \in Links /\ is_linked' \in [TE -> BOOLEAN]
      BY <1>3, <1>5, <2>2, <2>4 DEF Links, With
    <2>6. \A x \in TE : cnt'[x] # 0 => is_linked'[x]
      BY <1>3, <1>7, <1>11, <2>2 DEF With
    <2>7. \E n1, a1, nodes1, k1 :
            /\ Walk(n1, a1, nodes1, k1)'
            /\ Behind(n1, nodes1, k1) = Behind(n, nodes, k) \ {t}
      BY <2>1, <2>3
    <2> QED BY <1>1, <1>3, <1>5, <1>7, <1>9, <2>1, <2>2, <2>4, <2>5, <2>6, <2>7
  <1>12. CASE Advance(t) /\ cnt[t] # 0
    <2>1. link' = Attached /\ te_link' = t /\ is_linked' = is_linked
      BY <1>12 DEF Advance
    <2>2. /\ Behind(n, nodes, k + 1) = Behind(n, nodes, k) \ {t}
          /\ t \in Behind(n, nodes, k) /\ LinkAt(nodes, k + 1) = t
      BY <1>4, <1>5, <1>6, BehindAdvances
    <2>3. k + 1 \in 0 .. b
      BY <1>4, <1>5, <1>6
    <2>b. te' \notin Behind(b, nodes, k + 1)
      <3>1. k + 1 \in Nat
        BY <1>5
      <3> QED BY <1>4, <1>5, <1>a, <2>2, <3>1, BehindShorter
    <2>4. Walk(n, b, nodes, k + 1)'
      BY <1>1, <1>5, <1>8, <2>1, <2>2, <2>3, <2>b DEF Walk
    <2>5. \A x \in TE : cnt'[x] # 0 => is_linked'[x]
      BY <1>7, <1>12, <2>1
    <2> QED BY <1>1, <1>3, <1>5, <1>7, <1>9, <2>1, <2>2, <2>4, <2>5
  <1> QED BY <1>10, <1>11, <1>12

LEMMA HandleKeeps ==
  ASSUME TimeInv, NEW t \in TE, Handles(t)
  PROVE  TimeInv'
  <1>1. PICK n, a, nodes, k : Walk(n, a, nodes, k)
    BY DEF TimeInv, SomeWalk
  <1>2. /\ \E n1, a1, nodes1, k1 : Walk(n1, a1, nodes1, k1)'
        /\ link' \in Links /\ new_head' \in TE \cup {NULL} /\ te_link' \in TE \cup {Root}
        /\ is_linked' \in [TE -> BOOLEAN] /\ cnt' \in [TE -> 0 .. MaxTick]
        /\ \A x \in TE : cnt'[x] # 0 => is_linked'[x]
        /\ walk' \in {"step", "post"} /\ te' \in TE \cup {NULL}
        /\ (walk' = "post" <=> te' # NULL)
        /\ \A x \in TE : cnt[x] = 0 => cnt'[x] = 0 /\ te' # x
        /\ UNCHANGED <<period, failed, late>>
    <2>1. /\ TypeOK /\ \A x \in TE : cnt[x] # 0 => is_linked[x]
          /\ walk = "idle" => te_link = Root
      BY DEF TimeInv
    <2> HIDE DEF Handles
    <2> QED BY <1>1, <2>1, HandledWalks
  <1>3. AtLoop
    BY DEF Handles, TickRemove, TickExpire, TickCount, InLoop
  <1>4. /\ calls' \in 0 .. CallsPerTick /\ before' \in [TE -> 0 .. MaxTick]
        /\ touched' \subseteq TE /\ posts' \in [TE -> 0 .. 2]
    BY <1>3, LoopTypes DEF TimeInv
  <1>5. TypeOK'
    BY <1>2, <1>4 DEF TypeOK, TimeInv, Links
  <1>6. LateOnce'
    BY <1>2 DEF TimeInv, LateOnce
  <1>7. TickExact' /\ (walk = "idle" => te_link = Root)'
    BY <1>2 DEF TickExact
  <1>8. SomeWalk'
    BY <1>2 DEF SomeWalk
  <1> QED BY <1>2, <1>5, <1>6, <1>7, <1>8 DEF TimeInv

(* A call changes one time event, which may enter the new list.            *)
LEMMA CallKeeps ==
  ASSUME TimeInv, NEW t \in TE, NEW v \in 0 .. MaxTick, Call(t), UNCHANGED failed,
         cnt' \in [TE -> 0 .. MaxTick], late' \in [TE -> 0 .. 2],
         period' \in [TE -> Period \cup {0}], cnt'[t] = v, late'[t] = 0,
         \A x \in TE : x # t => cnt'[x] = cnt[x] /\ late'[x] = late[x] /\ period'[x] = period[x],
         LinkNew(t) \/ UNCHANGED lists, v # 0 => is_linked'[t]
  PROVE  TimeInv'
  <1>1. PICK n, a, nodes, k : Walk(n, a, nodes, k)
    BY DEF TimeInv, SomeWalk
  <1>2. /\ link \in Links /\ is_linked \in [TE -> BOOLEAN] /\ cnt \in [TE -> 0 .. MaxTick]
        /\ late \in [TE -> 0 .. 2] /\ new_head \in TE \cup {NULL}
        /\ \A x \in TE : cnt[x] # 0 => is_linked[x]
    BY DEF TimeInv, TypeOK, Links
  <1>3. /\ touched' = touched \cup {t} /\ walk' = walk /\ te' = te /\ te_link' = te_link
        /\ before' = before /\ posts' = posts
    BY DEF Call, tick
  <1>4. /\ cnt' \in [TE -> 0 .. MaxTick] /\ cnt'[t] = v
        /\ \A x \in TE : x # t => cnt'[x] = cnt[x]
        /\ late' \in [TE -> 0 .. 2] /\ late'[t] = 0
        /\ \A x \in TE : x # t => late'[x] = late[x]
    BY <1>2
  <1>5. /\ SomeWalk'
        /\ link' \in Links /\ is_linked' \in [TE -> BOOLEAN] /\ new_head' \in TE \cup {NULL}
        /\ \A x \in TE : is_linked[x] => is_linked'[x]
    <2>1. CASE UNCHANGED lists
      <3>1. link' = link /\ new_head' = new_head /\ is_linked' = is_linked
        BY <2>1 DEF lists
      <3>2. walk # "idle" => Counts(Behind(n, nodes, k), cnt', period', te, before, touched', posts)
        <4>1. walk # "idle" => Counts(Behind(n, nodes, k), cnt, period, te, before, touched, posts)
          BY <1>1 DEF Walk
        <4>2. \A x \in TE \ touched' : x \notin touched /\ cnt'[x] = cnt[x] /\ period'[x] = period[x]
          BY <1>3, <1>4
        <4> SUFFICES ASSUME walk # "idle"
                     PROVE  Counts(Behind(n, nodes, k), cnt', period', te, before, touched', posts)
          OBVIOUS
        <4> QED BY <4>1, <4>2, CountsTouched
      <3>3. Walk(n, a, nodes, k)'
        BY <1>1, <1>3, <3>1, <3>2 DEF Walk
      <3> QED BY <1>2, <3>1, <3>3 DEF SomeWalk
    <2>2. CASE LinkNew(t) /\ ~UNCHANGED lists
      <3> DEFINE new == Inserted(n, a, nodes, t)
      <3>1. /\ ~is_linked[t] /\ link' = With(link, t, new_head) /\ new_head' = t
            /\ is_linked' = With(is_linked, t, TRUE)
        BY <2>2 DEF LinkNew, With
      <3>2. Listed(link, new_head, is_linked, n, a, nodes) /\ k \in 0 .. a
            /\ te_link = LinkAt(nodes, k)
        BY <1>1 DEF Walk
      <3>3. Listed(With(link, t, new_head), t, With(is_linked, t, TRUE), n + 1, a, new)
        BY <1>2, <3>1, <3>2, InsertedListed
      <3>a. n \in Nat /\ a \in 0 .. n /\ nodes \in [1 .. n -> TE] /\ k \in 0 .. a
        BY <3>2 DEF Listed
      <3> HIDE DEF new
      <3>4. /\ LinkAt(new, k) = LinkAt(nodes, k)
            /\ Behind(n + 1, new, k) = Behind(n, nodes, k) \cup {t}
        <4>1. /\ LinkAt(Inserted(n, a, nodes, t), k) = LinkAt(nodes, k)
              /\ Behind(n + 1, Inserted(n, a, nodes, t), k) = Behind(n, nodes, k) \cup {t}
          BY <3>a, InsertedBehind
        <4> QED BY <4>1 DEF new
      <3>5. walk # "idle" => Counts(Behind(n + 1, new, k), cnt', period', te, before, touched', posts)
        <4>1. \A x \in TE \ touched' :
                /\ x \notin touched /\ (x \in Behind(n + 1, new, k) <=> x \in Behind(n, nodes, k))
                /\ cnt'[x] = cnt[x] /\ period'[x] = period[x]
          BY <1>3, <1>4, <3>4
        <4>2. walk # "idle" => Counts(Behind(n, nodes, k), cnt, period, te, before, touched, posts)
          BY <1>1 DEF Walk
        <4> SUFFICES ASSUME walk # "idle"
                     PROVE  Counts(Behind(n + 1, new, k), cnt', period', te, before, touched', posts)
          OBVIOUS
        <4> QED BY <4>1, <4>2, CountsTouched
      <3>b. te' \notin Behind(a, new, k)
        <4>1. te \notin Behind(a, nodes, k) /\ k \in Nat /\ n \in Nat /\ a \in 0 .. n
          BY <1>1, <3>2 DEF Walk, Listed
        <4>2. \A i \in k + 1 .. a : i \in 1 .. n + 1 /\ i <= a
          BY <4>1
        <4>3. \A i \in k + 1 .. a : new[i] = nodes[i]
          BY <4>2 DEF new, Inserted
        <4> QED BY <1>3, <4>1, <4>3 DEF Behind
      <3>6. Walk(n + 1, a, new, k)'
        BY <1>3, <3>1, <3>2, <3>3, <3>4, <3>5, <3>b DEF Walk
      <3>7. /\ link' \in Links /\ is_linked' \in [TE -> BOOLEAN] /\ new_head' \in TE \cup {NULL}
            /\ \A x \in TE : is_linked[x] => is_linked'[x]
        BY <1>2, <3>1 DEF Links, With
      <3> QED BY <3>6, <3>7 DEF SomeWalk
    <2> QED BY <2>1, <2>2
  <1>6. \A x \in TE : cnt'[x] # 0 => is_linked'[x]
    BY <1>2, <1>4, <1>5
  <1>7. TypeOK'
    <2>1. calls' \in 0 .. CallsPerTick /\ failed' \in BOOLEAN
      BY TimeAssumption DEF TimeInv, TypeOK, Call
    <2>2. touched' \subseteq TE
      BY <1>3 DEF TimeInv, TypeOK
    <2> QED BY <1>3, <1>4, <1>5, <2>1, <2>2 DEF TimeInv, TypeOK, Links
  <1>8. LateOnce'
    BY <1>2, <1>3, <1>4 DEF TimeInv, LateOnce
  <1>9. TickExact'
    BY <1>3, <1>4 DEF TimeInv, TickExact
  <1>10. (walk = "idle" => te_link = Root)'
    BY <1>3 DEF TimeInv
  <1> QED BY <1>5, <1>6, <1>7, <1>8, <1>9, <1>10 DEF TimeInv

LEMMA FailKeeps ==
  ASSUME TimeInv, AssertFails
  PROVE  TimeInv'
  <1>1. /\ link' = link /\ new_head' = new_head /\ is_linked' = is_linked /\ cnt' = cnt
        /\ period' = period /\ te_link' = te_link /\ walk' = walk /\ te' = te /\ calls' = calls
        /\ before' = before /\ touched' = touched /\ posts' = posts /\ late' = late
        /\ failed' \in BOOLEAN
    BY DEF AssertFails, lists, tick, ghosts
  <1>2. TypeOK'
    BY <1>1 DEF TimeInv, TypeOK
  <1>3. LateOnce' /\ TickExact'
    BY <1>1 DEF TimeInv, LateOnce, TickExact
  <1>4. SomeWalk'
    BY <1>1 DEF TimeInv, SomeWalk, Walk
  <1> QED BY <1>1, <1>2, <1>3, <1>4 DEF TimeInv

LEMMA ClientKeeps ==
  ASSUME TimeInv, Client
  PROVE  TimeInv'
  <1> SUFFICES ASSUME NEW t \in TE,
                      \/ \E start \in 1 .. MaxTick, per \in Period : Arm(t, start, per)
                      \/ Disarm(t)
                      \/ \E time \in 1 .. MaxTick : Rearm(t, time)
               PROVE  TimeInv'
    BY DEF Client
  <1>1. /\ cnt \in [TE -> 0 .. MaxTick] /\ period \in [TE -> Period \cup {0}]
        /\ late \in [TE -> 0 .. 2] /\ is_linked \in [TE -> BOOLEAN] /\ MaxTick \in Nat /\ 0 \in 0 .. MaxTick
        /\ \A x \in TE : cnt[x] # 0 => is_linked[x]
    BY TimeAssumption DEF TimeInv, TypeOK
  <1>2. LinkNew(t) => is_linked'[t]
    BY <1>1 DEF LinkNew, lists
  <1>3. ASSUME AssertFails
        PROVE  TimeInv'
    BY <1>3, FailKeeps
  <1>4. ASSUME NEW start \in 1 .. MaxTick, NEW per \in Period, Arm(t, start, per), ~AssertFails
        PROVE  TimeInv'
    <2>1. /\ Call(t) /\ UNCHANGED failed /\ LinkNew(t) /\ start \in 0 .. MaxTick
          /\ cnt' = [cnt EXCEPT ![t] = start] /\ late' = [late EXCEPT ![t] = 0]
          /\ period' = [period EXCEPT ![t] = per]
      BY <1>1, <1>4 DEF Arm
    <2>2. /\ cnt' \in [TE -> 0 .. MaxTick] /\ late' \in [TE -> 0 .. 2] /\ cnt'[t] = start
          /\ period' \in [TE -> Period \cup {0}] /\ late'[t] = 0
          /\ \A x \in TE : x # t => cnt'[x] = cnt[x] /\ late'[x] = late[x] /\ period'[x] = period[x]
      BY <1>1, <2>1
    <2>3. Call(t) /\ UNCHANGED failed /\ LinkNew(t) /\ is_linked'[t] /\ start \in 0 .. MaxTick
      BY <1>2, <2>1
    <2> QED BY <2>2, <2>3, CallKeeps
  <1>5. ASSUME Disarm(t)
        PROVE  TimeInv'
    <2>1. /\ Call(t) /\ UNCHANGED failed /\ UNCHANGED lists /\ period' = period
          /\ cnt' = [cnt EXCEPT ![t] = 0] /\ late' = [late EXCEPT ![t] = 0]
      BY <1>5 DEF Disarm
    <2>2. /\ cnt' \in [TE -> 0 .. MaxTick] /\ late' \in [TE -> 0 .. 2] /\ cnt'[t] = 0
          /\ period' \in [TE -> Period \cup {0}] /\ late'[t] = 0
          /\ \A x \in TE : x # t => cnt'[x] = cnt[x] /\ late'[x] = late[x] /\ period'[x] = period[x]
      BY <1>1, <2>1
    <2>3. Call(t) /\ UNCHANGED failed /\ UNCHANGED lists /\ 0 \in 0 .. MaxTick
      BY <1>1, <2>1
    <2> QED BY <2>2, <2>3, CallKeeps
  <1>6. ASSUME NEW time \in 1 .. MaxTick, Rearm(t, time)
        PROVE  TimeInv'
    <2>1. /\ Call(t) /\ UNCHANGED failed 
          /\ LinkNew(t) \/ UNCHANGED lists
          /\ period' = period /\ time \in 0 .. MaxTick
          /\ cnt' = [cnt EXCEPT ![t] = time] /\ late' = [late EXCEPT ![t] = 0]
      BY <1>1, <1>6 DEF Rearm
    <2>2. is_linked'[t]
      BY <1>1, <1>2, <1>6 DEF Rearm, lists
    <2>3. /\ cnt' \in [TE -> 0 .. MaxTick] /\ late' \in [TE -> 0 .. 2] /\ cnt'[t] = time
          /\ period' \in [TE -> Period \cup {0}] /\ late'[t] = 0
          /\ \A x \in TE : x # t => cnt'[x] = cnt[x] /\ late'[x] = late[x] /\ period'[x] = period[x]
      BY <1>1, <2>1
    <2>4. /\ Call(t) /\ UNCHANGED failed /\ is_linked'[t] /\ time \in 0 .. MaxTick
          /\ LinkNew(t) \/ UNCHANGED lists
      BY <2>1, <2>2
    <2> QED BY <2>3, <2>4, CallKeeps
  <1> QED BY <1>3, <1>4, <1>5, <1>6

(* The tick returns at the end of both lists: everything has been counted. *)
LEMMA EndKeeps ==
  ASSUME TimeInv, TickEnd
  PROVE  TimeInv'
  <1>1. PICK n, a, nodes, k : Walk(n, a, nodes, k)
    BY DEF TimeInv, SomeWalk
  <1>2. /\ TypeOK /\ \A t \in TE : cnt[t] # 0 => is_linked[t]
        /\ walk = "idle" => te_link = Root
    BY DEF TimeInv
  <1>3. AtLoop /\ Current = NULL /\ walk' = "idle" /\ te_link' = Root
        /\ link' = link /\ new_head' = new_head /\ is_linked' = is_linked
        /\ cnt' = cnt /\ period' = period /\ te' = te /\ failed' = failed /\ late' = late
    BY DEF TickEnd, lists, AtLoop
  <1>4. te = NULL /\ Counts(Behind(n, nodes, k), cnt, period, NULL, before', touched', posts')
    BY <1>1, <1>2, <1>3, LoopCounts
  <1>5. /\ Listed(link, new_head, is_linked, n, a, nodes) /\ n \in Nat
        /\ nodes \in [1 .. n -> TE] /\ k \in 0 .. a /\ te_link = LinkAt(nodes, k)
    BY <1>1 DEF Walk, Listed
  <1>6. k = n
    <2>1. /\ Current = IF k = n THEN NULL ELSE nodes[k + 1]
          /\ k \in 0 .. n
      <3>1. link \in Links
        BY <1>2 DEF TypeOK, Links
      <3> QED BY <1>5, <3>1, AttachedListed
    <2>2. k # n => k + 1 \in 1 .. n
      BY <1>5, <2>1
    <2> QED BY <1>3, <1>5, <2>1, <2>2, TimeAssumption
  <1>7. Behind(n, nodes, k) = {}
    <2>1. k + 1 .. n = {}
      BY <1>5, <1>6
    <2> QED BY <2>1 DEF Behind
  <1>8. /\ calls' \in 0 .. CallsPerTick /\ before' \in [TE -> 0 .. MaxTick]
        /\ touched' \subseteq TE /\ posts' \in [TE -> 0 .. 2]
    BY <1>2, <1>3, LoopTypes
  <1>9. TypeOK'
    BY <1>2, <1>3, <1>4, <1>8 DEF TypeOK
  <1>10. LateOnce'
    BY <1>3 DEF TimeInv, LateOnce
  <1>11. TickExact'
    <2> SUFFICES ASSUME NEW t \in TE \ touched'
                 PROVE  IF before'[t] = 1
                        THEN posts'[t] = 1 /\ cnt'[t] = period'[t]
                        ELSE /\ posts'[t] = 0
                             /\ cnt'[t] = IF before'[t] = 0 THEN 0 ELSE before'[t] - 1
      BY DEF TickExact
    <2>1. t # NULL
      BY TimeAssumption
    <2> QED BY <1>3, <1>4, <1>7, <2>1 DEF Counts
  <1>12. SomeWalk'
    <2>1. te' \notin Behind(a, nodes, 0)
      <3>1. a \in 0 .. n
        BY <1>5 DEF Listed
      <3> QED BY <1>3, <1>4, <1>5, <3>1, BehindShorter, TimeAssumption
    <2>2. Walk(n, a, nodes, 0)'
      BY <1>3, <1>5, <2>1 DEF Walk, LinkAt, Listed
    <2> QED BY <2>2 DEF SomeWalk
  <1> QED BY <1>2, <1>3, <1>9, <1>10, <1>11, <1>12 DEF TimeInv

(* The post of an expired time event: the only one of this tick, and late  *)
(* when a call disarmed it after the critical section.                     *)
LEMMA PostKeeps ==
  ASSUME TimeInv, TickPost
  PROVE  TimeInv'
  <1>1. PICK n, a, nodes, k : Walk(n, a, nodes, k)
    BY DEF TimeInv, SomeWalk
  <1>2. /\ walk = "post" /\ te \in TE /\ NULL \notin TE
        /\ posts \in [TE -> 0 .. 2] /\ late \in [TE -> 0 .. 2]
    BY TimeAssumption DEF TimeInv, TypeOK, TickPost
  <1>3. /\ walk' = "step" /\ te' = NULL
        /\ link' = link /\ new_head' = new_head /\ is_linked' = is_linked
        /\ cnt' = cnt /\ period' = period /\ te_link' = te_link /\ calls' = calls
        /\ failed' = failed /\ before' = before /\ touched' = touched
    BY DEF TickPost, lists
  <1>4. /\ \A c \in 0 .. 2 : Counted(c) \in 0 .. 2
        /\ Counted(0) = 1
    BY DEF Counted
  <1>5. /\ posts' \in [TE -> 0 .. 2] /\ posts'[te] = Counted(posts[te])
        /\ \A t \in TE : t # te => posts'[t] = posts[t]
    BY <1>2, <1>4 DEF TickPost
  <1>6. /\ late' \in [TE -> 0 .. 2] /\ late'[te] = IF cnt[te] = 0 THEN Counted(late[te]) ELSE 0
        /\ \A t \in TE : t # te => late'[t] = late[t]
    BY <1>2, <1>4 DEF TickPost
  <1>7. TypeOK'
    BY <1>3, <1>5, <1>6 DEF TimeInv, TypeOK
  <1>8. LateOnce'
    BY <1>2, <1>3, <1>4, <1>6 DEF TimeInv, LateOnce
  <1>9. TickExact' /\ (walk = "idle" => te_link = Root)'
    BY <1>3 DEF TickExact
  <1>10. SomeWalk'
    <2>1. Counts(Behind(n, nodes, k), cnt, period, te, before, touched, posts)
      BY <1>1, <1>2 DEF Walk
    <2>2. Counts(Behind(n, nodes, k), cnt, period, NULL, before, touched, posts')
      <3> SUFFICES ASSUME NEW t \in TE \ touched
                   PROVE  IF t \in Behind(n, nodes, k)
                          THEN cnt[t] = before[t] /\ posts'[t] = 0 /\ t # NULL
                          ELSE IF before[t] = 1
                          THEN cnt[t] = period[t] /\ posts'[t] = (IF t = NULL THEN 0 ELSE 1)
                          ELSE /\ posts'[t] = 0 /\ t # NULL
                               /\ cnt[t] = IF before[t] = 0 THEN 0 ELSE before[t] - 1
        BY DEF Counts
      <3>1. CASE t = te
        BY <1>2, <1>4, <1>5, <2>1, <3>1 DEF Counts
      <3>2. CASE t # te
        BY <1>2, <1>5, <2>1, <3>2 DEF Counts
      <3> QED BY <3>1, <3>2
    <2>3. te' \notin Behind(a, nodes, k)
      <3>1. n \in Nat /\ a \in 0 .. n /\ nodes \in [1 .. n -> TE] /\ k \in Nat
        BY <1>1 DEF Walk, Listed
      <3> QED BY <1>2, <1>3, <3>1, BehindShorter
    <2>4. Walk(n, a, nodes, k)'
      BY <1>1, <1>3, <2>2, <2>3 DEF Walk
    <2> QED BY <2>4 DEF SomeWalk
  <1> QED BY <1>3, <1>7, <1>8, <1>9, <1>10 DEF TimeInv

LEMMA StutterKeeps ==
  ASSUME TimeInv, UNCHANGED vars
  PROVE  TimeInv'
  <1>1. /\ link' = link /\ new_head' = new_head /\ is_linked' = is_linked /\ cnt' = cnt
        /\ period' = period /\ te_link' = te_link /\ walk' = walk /\ te' = te /\ calls' = calls
        /\ before' = before /\ touched' = touched /\ posts' = posts /\ late' = late
        /\ failed' = failed
    BY DEF vars, lists, tick, ghosts
  <1>2. TypeOK'
    BY <1>1 DEF TimeInv, TypeOK
  <1>3. LateOnce' /\ TickExact'
    BY <1>1 DEF TimeInv, LateOnce, TickExact
  <1>4. SomeWalk'
    BY <1>1 DEF TimeInv, SomeWalk, Walk
  <1> QED BY <1>1, <1>2, <1>3, <1>4 DEF TimeInv

LEMMA InitTime == Init => TimeInv
  <1> SUFFICES ASSUME Init
               PROVE  TimeInv
    OBVIOUS
  <1>1. TypeOK
    <2>1. /\ 0 \in 0 .. MaxTick /\ 0 \in 0 .. 2 /\ CallsPerTick \in 0 .. CallsPerTick
      BY TimeAssumption
    <2>2. /\ link \in [TE \cup {Root} -> TE \cup {NULL}] /\ cnt \in [TE -> 0 .. MaxTick]
          /\ period \in [TE -> Period \cup {0}] /\ is_linked \in [TE -> BOOLEAN]
          /\ before \in [TE -> 0 .. MaxTick] /\ posts \in [TE -> 0 .. 2] /\ late \in [TE -> 0 .. 2]
      BY <2>1 DEF Init
    <2> QED BY <2>1, <2>2 DEF Init, TypeOK
  <1>2. LateOnce /\ TickExact /\ \A t \in TE : cnt[t] # 0 => is_linked[t]
    BY DEF Init, LateOnce, TickExact
  <1>3. Walk(0, 0, << >>, 0)
    BY DEF Init, Walk, Listed, LinkAt, Behind
  <1> QED BY <1>1, <1>2, <1>3 DEF TimeInv, SomeWalk, Init

LEMMA NextTime == TimeInv /\ [Next]_vars => TimeInv'
  <1> SUFFICES ASSUME TimeInv, [Next]_vars
               PROVE  TimeInv'
    OBVIOUS
  <1>1. CASE TickEnd
    BY <1>1, EndKeeps
  <1>2. CASE TickPost
    BY <1>2, PostKeeps
  <1>3. ASSUME NEW t \in TE, Handles(t)
        PROVE  TimeInv'
    BY <1>3, HandleKeeps
  <1>4. CASE Client
    BY <1>4, ClientKeeps
  <1>5. CASE UNCHANGED vars
    BY <1>5, StutterKeeps
  <1> QED BY <1>1, <1>2, <1>3, <1>4, <1>5 DEF Next, TickStep, Stopped, Handles

LEMMA TimeAlways == Spec => []TimeInv
  BY InitTime, NextTime, PTL DEF Spec

-----------------------------------------------------------------------------
(* The nodes behind a link of the armed list, and those of the new list.   *)
LEMMA SegmentReached ==
  ASSUME NEW lk, NEW head, NEW linked, NEW n, NEW a, NEW nodes,
         Listed(lk, head, linked, n, a, nodes)
  PROVE  /\ \A p \in 0 .. a : ReachedBy(lk, lk[LinkAt(nodes, p)]) = Behind(a, nodes, p)
         /\ ReachedBy(lk, head) = Behind(n, nodes, a)
  <1>1. /\ n \in Nat /\ a \in 0 .. n /\ nodes \in [1 .. n -> TE] /\ a \in Nat /\ a <= n
        /\ \A i, j \in 1 .. n : nodes[i] = nodes[j] => i = j
        /\ \A i \in 0 .. n :
             lk[LinkAt(nodes, i)] = IF i = a \/ i = n THEN NULL ELSE nodes[i + 1]
        /\ head = IF a = n THEN NULL ELSE nodes[a + 1]
    BY DEF Listed
  <1>2. ASSUME NEW node, NEW p \in 0 .. n, NEW q \in p .. n, q = a \/ (p = a /\ q = n),
               node = IF p = q THEN NULL ELSE nodes[p + 1]
        PROVE  ReachedBy(lk, node) = {nodes[i] : i \in p + 1 .. q}
    <2> DEFINE s == [i \in 1 .. q - p |-> nodes[p + i]]
    <2>1. /\ p \in Nat /\ q \in Nat /\ p <= q /\ q <= n /\ q - p \in Nat
          /\ \A i \in 1 .. q - p : p + i \in 1 .. n /\ p + i \in p + 1 .. q
      BY <1>1
    <2>2. s \in [1 .. q - p -> TE]
      BY <1>1, <2>1
    <2>3. \A i, j \in 1 .. q - p : s[i] = s[j] => i = j
      <3> SUFFICES ASSUME NEW i \in 1 .. q - p, NEW j \in 1 .. q - p, s[i] = s[j]
                   PROVE  i = j
        OBVIOUS
      <3>1. p + i = p + j
        BY <1>1, <2>1
      <3> QED BY <2>1, <3>1
    <2>4. node = IF q - p = 0 THEN NULL ELSE s[1]
      BY <1>2, <2>1
    <2>5. \A i \in 1 .. q - p : lk[s[i]] = IF i = q - p THEN NULL ELSE s[i + 1]
      <3> TAKE i \in 1 .. q - p
      <3>1. /\ p + i \in 0 .. n /\ p + i # 0
            /\ (p + i = a \/ p + i = n) <=> i = q - p
        BY <1>1, <1>2, <2>1
      <3>2. lk[s[i]] = IF p + i = a \/ p + i = n THEN NULL ELSE nodes[p + i + 1]
        BY <1>1, <3>1 DEF LinkAt
      <3>3. i # q - p => s[i + 1] = nodes[p + i + 1]
        BY <2>1
      <3> QED BY <3>1, <3>2, <3>3
    <2> HIDE DEF s
    <2>6. ReachedBy(lk, node) = {s[i] : i \in 1 .. q - p}
      <3>1. Linked(lk, node, q - p, s)
        BY <2>1, <2>2, <2>3, <2>4, <2>5 DEF Linked
      <3> QED BY <3>1, ReachedList
    <2>7. {s[i] : i \in 1 .. q - p} = {nodes[i] : i \in p + 1 .. q}
      <3>1. \A i \in p + 1 .. q : i - p \in 1 .. q - p /\ p + (i - p) = i
        BY <2>1
      <3> QED BY <2>1, <3>1 DEF s
    <2> QED BY <2>6, <2>7
  <1>3. ASSUME NEW p \in 0 .. a
        PROVE  ReachedBy(lk, lk[LinkAt(nodes, p)]) = {nodes[i] : i \in p + 1 .. a}
    <2>1. /\ p \in 0 .. n /\ a \in p .. n
          /\ lk[LinkAt(nodes, p)] = IF p = a THEN NULL ELSE nodes[p + 1]
      BY <1>1
    <2> QED BY <1>2, <2>1
  <1>4. ReachedBy(lk, head) = {nodes[i] : i \in a + 1 .. n}
    <2>1. a \in 0 .. n /\ n \in a .. n
      BY <1>1
    <2> QED BY <1>1, <1>2, <2>1
  <1> QED BY <1>3, <1>4 DEF Behind

(* Each list that is not empty has one head and one tail.                  *)
LEMMA HeadsAndTails ==
  ASSUME NEW n, NEW a, NEW nodes, Listed(link, new_head, is_linked, n, a, nodes)
  PROVE  Cardinality({t \in {nodes[i] : i \in 1 .. n} : link[t] = NULL})
           = Cardinality({h \in {link[Root], new_head} : h # NULL})
  <1> DEFINE tails == {t \in {nodes[i] : i \in 1 .. n} : link[t] = NULL}
             heads == {h \in {link[Root], new_head} : h # NULL}
  <1>1. /\ n \in Nat /\ a \in 0 .. n /\ nodes \in [1 .. n -> TE] /\ NULL \notin TE
        /\ \A i, j \in 1 .. n : nodes[i] = nodes[j] => i = j
        /\ new_head = IF a = n THEN NULL ELSE nodes[a + 1]
    BY TimeAssumption DEF Listed
  <1>2. /\ link[Root] = IF a = 0 THEN NULL ELSE nodes[1]
        /\ \A i \in 1 .. n : link[nodes[i]] = IF i = a \/ i = n THEN NULL ELSE nodes[i + 1]
    <2>1. \A i \in 0 .. n : link[LinkAt(nodes, i)] = IF i = a \/ i = n THEN NULL ELSE nodes[i + 1]
      BY DEF Listed
    <2>2. 0 \in 0 .. n /\ (0 = n => 0 = a) /\ 0 + 1 = 1
      BY <1>1
    <2>3. \A i \in 1 .. n : i \in 0 .. n /\ i # 0
      BY <1>1
    <2> QED BY <2>1, <2>2, <2>3 DEF LinkAt
  <1>3. \A i \in 1 .. n : nodes[i] \in tails <=> (i = a \/ i = n)
    <2> SUFFICES ASSUME NEW i \in 1 .. n
                 PROVE  nodes[i] \in tails <=> (i = a \/ i = n)
      OBVIOUS
    <2>1. i # n => nodes[i + 1] # NULL
      BY <1>1
    <2> QED BY <1>2, <2>1
  <1>4. \A x, y : x # y => Cardinality({x, y}) = 2
    <2> TAKE x, y
    <2>1. Cardinality({x}) = 1 /\ IsFiniteSet({x}) /\ {x, y} = {x} \cup {y}
      BY FS_Singleton
    <2>2. x # y => Cardinality({x} \cup {y}) = Cardinality({x}) + 1
      BY <2>1, FS_AddElement
    <2> QED BY <2>1, <2>2
  <1>5. CASE n = 0
    <2>1. tails = {} /\ heads = {}
      BY <1>1, <1>2, <1>5
    <2> QED BY <2>1
  <1>6. CASE n # 0 /\ (a = 0 \/ a = n)
    <2>1. tails = {nodes[n]}
      BY <1>1, <1>3, <1>6
    <2>2. heads = {nodes[1]}
      BY <1>1, <1>2, <1>6
    <2> HIDE DEF tails, heads
    <2>3. Cardinality(tails) = 1 /\ Cardinality(heads) = 1
      BY <2>1, <2>2, FS_Singleton
    <2> QED BY <2>3 DEF tails, heads
  <1>7. CASE n # 0 /\ a # 0 /\ a # n
    <2>1. 1 \in 1 .. n /\ a \in 1 .. n /\ a + 1 \in 1 .. n /\ n \in 1 .. n /\ 1 # a + 1
      BY <1>1, <1>7
    <2>2. tails = {nodes[a], nodes[n]} /\ nodes[a] # nodes[n]
      BY <1>1, <1>3, <1>7, <2>1
    <2>3. heads = {nodes[1], nodes[a + 1]} /\ nodes[1] # nodes[a + 1]
      BY <1>1, <1>2, <1>7, <2>1
    <2> HIDE DEF tails, heads
    <2>4. Cardinality(tails) = 2 /\ Cardinality(heads) = 2
      BY <1>4, <2>2, <2>3
    <2> QED BY <2>4 DEF tails, heads
  <1> QED BY <1>5, <1>6, <1>7

LEMMA TimeLists ==
  ASSUME TimeInv
  PROVE  ListsSound
  <1>1. PICK n, a, nodes, k : Walk(n, a, nodes, k)
    BY DEF TimeInv, SomeWalk
  <1>2. /\ Listed(link, new_head, is_linked, n, a, nodes) /\ n \in Nat /\ a \in 0 .. n
        /\ nodes \in [1 .. n -> TE] /\ k \in 0 .. a /\ te_link = LinkAt(nodes, k)
        /\ \A i, j \in 1 .. n : nodes[i] = nodes[j] => i = j
        /\ \A t \in TE : is_linked[t] <=> \E i \in 1 .. n : nodes[i] = t
    BY <1>1 DEF Walk, Listed
  <1>3. Armed = {nodes[i] : i \in 1 .. a}
    <2>1. 0 \in 0 .. a /\ 0 + 1 = 1 /\ LinkAt(nodes, 0) = Root
      BY <1>2 DEF LinkAt
    <2>2. \A p \in 0 .. a : ReachedBy(link, link[LinkAt(nodes, p)]) = Behind(a, nodes, p)
      BY <1>2, SegmentReached
    <2>3. ReachedBy(link, link[Root]) = {nodes[i] : i \in 1 .. a}
      BY <2>1, <2>2 DEF Behind
    <2> QED BY <2>3, ReachedIs DEF Armed
  <1>4. NewlyArmed = {nodes[i] : i \in a + 1 .. n}
    <2>1. ReachedBy(link, new_head) = Behind(n, nodes, a)
      BY <1>2, SegmentReached
    <2> QED BY <2>1, ReachedIs DEF NewlyArmed, Behind
  <1>5. \A i \in 1 .. a, j \in a + 1 .. n : i \in 1 .. n /\ j \in 1 .. n /\ i # j
    BY <1>2
  <1>6. Armed \cap NewlyArmed = {}
    BY <1>2, <1>3, <1>4, <1>5
  <1>7. Armed \cup NewlyArmed = {nodes[i] : i \in 1 .. n}
    <2>1. \A i \in 1 .. n : i \in 1 .. a \/ i \in a + 1 .. n
      BY <1>2
    <2>2. \A i \in 1 .. a : i \in 1 .. n
      BY <1>2
    <2>3. \A i \in a + 1 .. n : i \in 1 .. n
      BY <1>2
    <2> QED BY <1>3, <1>4, <2>1, <2>2, <2>3
  <1>8. {nodes[i] : i \in 1 .. n} = {t \in TE : is_linked[t]}
    BY <1>2
  <1>9. te_link # Root => te_link \in Armed
    <2>1. k # 0 => k \in 1 .. a
      BY <1>2
    <2> QED BY <1>2, <1>3, <2>1 DEF LinkAt
  <1>10. TypeOK /\ \A t \in TE : cnt[t] # 0 => is_linked[t]
    BY DEF TimeInv
  <1>11. Cardinality({t \in Armed \cup NewlyArmed : link[t] = NULL})
           = Cardinality({h \in {link[Root], new_head} : h # NULL})
    BY <1>2, <1>7, HeadsAndTails
  <1> QED BY <1>6, <1>7, <1>8, <1>9, <1>10, <1>11 DEF ListsSound

(* ListsSound: whatever interrupts a tick between its critical sections,   *)
(* the two lists of time events are apart and end, is_linked says exactly  *)
(* what they hold, and the link that the tick continues from is one of the *)
(* armed list.                                                             *)
THEOREM ListsAlwaysSound == Spec => []ListsSound
  <1>1. TimeInv => ListsSound
    BY TimeLists
  <1> QED BY <1>1, TimeAlways, PTL

(* TickExact: a tick counts one for every time event that no call touched  *)
(* meanwhile, and posts exactly those that were due.                       *)
THEOREM TickAlwaysExact == Spec => []TickExact
  <1>1. TimeInv => TickExact
    BY DEF TimeInv
  <1> QED BY <1>1, TimeAlways, PTL

(* OneLatePost: a disarmed time event is posted at most once more.         *)
THEOREM LatePostedOnce == Spec => []OneLatePost
  <1>1. TimeInv => OneLatePost
    BY DEF TimeInv, LateOnce, OneLatePost
  <1> QED BY <1>1, TimeAlways, PTL

LEMMA AheadIs ==
  ASSUME NEW n, NEW a, NEW nodes, NEW k, NEW lk, NEW head, NEW linked,
         Listed(lk, head, linked, n, a, nodes), k \in 0 .. a
  PROVE  ReachedBy(lk, lk[LinkAt(nodes, k)]) \cup ReachedBy(lk, head) = Behind(n, nodes, k)
  <1>1. n \in Nat /\ a \in 0 .. n
    BY DEF Listed
  <1>2. /\ ReachedBy(lk, lk[LinkAt(nodes, k)]) = {nodes[i] : i \in k + 1 .. a}
        /\ ReachedBy(lk, head) = {nodes[i] : i \in a + 1 .. n}
    <2>1. /\ ReachedBy(lk, lk[LinkAt(nodes, k)]) = Behind(a, nodes, k)
          /\ ReachedBy(lk, head) = Behind(n, nodes, a)
      BY SegmentReached
    <2> QED BY <2>1 DEF Behind
  <1>3. \A i : i \in k + 1 .. n <=> i \in k + 1 .. a \/ i \in a + 1 .. n
    BY <1>1
  <1> QED BY <1>2, <1>3 DEF Behind

(* TickAdvances: each node that the tick handles is one less in front of   *)
(* it, also when that node was disarmed and armed again meanwhile.         *)
THEOREM TickAlwaysAdvances == Spec => TickAdvances
  <1> DEFINE A == (\E t \in TE : TickRemove(t) \/ TickExpire(t) \/ TickCount(t))
                    => Cardinality(Ahead') = Cardinality(Ahead) - 1
  <1>1. TimeInv /\ [Next]_vars => [A]_vars
    <2> SUFFICES ASSUME TimeInv, NEW t \in TE, Handles(t)
                 PROVE  Cardinality(Ahead') = Cardinality(Ahead) - 1
      BY DEF Handles
    <2> HIDE DEF Handles
    <2>1. PICK n, a, nodes, k : Walk(n, a, nodes, k)
      BY DEF TimeInv, SomeWalk
    <2>2. /\ TypeOK /\ \A x \in TE : cnt[x] # 0 => is_linked[x]
          /\ walk = "idle" => te_link = Root
      BY DEF TimeInv
    <2>3. /\ t \in Behind(n, nodes, k)
          /\ \E n1, a1, nodes1, k1 :
               /\ Walk(n1, a1, nodes1, k1)'
               /\ Behind(n1, nodes1, k1) = Behind(n, nodes, k) \ {t}
      BY <2>1, <2>2, HandledWalks
    <2>4. PICK n1, a1, nodes1, k1 : /\ Walk(n1, a1, nodes1, k1)'
                                    /\ Behind(n1, nodes1, k1) = Behind(n, nodes, k) \ {t}
      BY <2>3
    <2>5. Ahead = Behind(n, nodes, k)
      <3>1. /\ Listed(link, new_head, is_linked, n, a, nodes) /\ k \in 0 .. a
            /\ te_link = LinkAt(nodes, k)
        BY <2>1 DEF Walk
      <3>2. Ahead = ReachedBy(link, link[te_link]) \cup ReachedBy(link, new_head)
        BY ReachedIs DEF Ahead
      <3> QED BY <3>1, <3>2, AheadIs
    <2>6. Ahead' = Behind(n1, nodes1, k1)
      <3>1. /\ Listed(link', new_head', is_linked', n1, a1, nodes1) /\ k1 \in 0 .. a1
            /\ te_link' = LinkAt(nodes1, k1)
        BY <2>4 DEF Walk
      <3>2. Ahead' = ReachedBy(link', link'[te_link']) \cup ReachedBy(link', new_head')
        BY DEF Ahead, Reached, ReachedBy
      <3> QED BY <3>1, <3>2, AheadIs
    <2>7. IsFiniteSet(Behind(n, nodes, k))
      <3>1. n \in Nat /\ nodes \in [1 .. n -> TE] /\ \A i \in k + 1 .. n : i \in 1 .. n
        BY <2>1 DEF Walk, Listed
      <3>2. Behind(n, nodes, k) \subseteq TE
        BY <3>1 DEF Behind
      <3> QED BY <3>2, FS_Subset, TimeAssumption
    <2>8. Cardinality(Behind(n, nodes, k) \ {t}) = Cardinality(Behind(n, nodes, k)) - 1
      BY <2>3, <2>7, FS_RemoveElement
    <2> QED BY <2>4, <2>5, <2>6, <2>8
  <1>2. (Init /\ [][Next]_vars) => [][A]_vars
    BY <1>1, TimeAlways, PTL DEF Spec
  <1> QED BY <1>2 DEF Spec, TickAdvances

-----------------------------------------------------------------------------
(* A client of this walk may take both lists away under it (EpfTimer): the *)
(* tick then finds only the rest of the list that it stands in, each node  *)
(* once; R holds them. What it was about to post is not among them.        *)
RestOfWalk(lk, head, at, e, R) ==
  /\ head = NULL /\ lk[Root] = NULL
  /\ \E m, s : /\ Linked(lk, lk[at], m, s)
               /\ \A i \in 1 .. m : s[i] # at /\ s[i] # e /\ s[i] \in R

LEMMA RestHandled ==
  ASSUME TypeOK, NEW R, RestOfWalk(link, new_head, te_link, te, R), NEW t \in TE, Handles(t)
  PROVE  t \in R /\ te' \in {NULL, t} /\ RestOfWalk(link', new_head', te_link', te', R)
  <1>1. PICK m, s : /\ Linked(link, link[te_link], m, s)
                    /\ \A i \in 1 .. m : s[i] # te_link /\ s[i] # te /\ s[i] \in R
    BY DEF RestOfWalk
  <1>2. /\ new_head = NULL /\ link[Root] = NULL /\ link \in Links
        /\ te_link \in TE \cup {Root} /\ NULL \notin TE /\ t # NULL /\ te = NULL
    BY TimeAssumption DEF RestOfWalk, TypeOK, Links, Handles, TickRemove, TickExpire, TickCount,
       InLoop, AtLoop
  <1>3. Attached = link /\ NewLeft = NULL
    BY <1>2 DEF Attached, NewLeft, Links
  <1>4. t = link[te_link] /\ new_head' = NULL
    BY <1>3 DEF Handles, TickRemove, TickExpire, TickCount, InLoop, Current
  <1>5. te' \in {NULL, t}
    BY <1>2 DEF Handles, TickRemove, TickExpire, TickCount
  <1>6. \/ link' = With(link, te_link, link[t]) /\ te_link' = te_link
        \/ link' = link /\ te_link' = t
    BY <1>3 DEF Handles, TickRemove, TickExpire, TickCount, Unlink, Advance, With
  <1>7. /\ m \in Nat /\ s \in [1 .. m -> TE] /\ \A i, j \in 1 .. m : s[i] = s[j] => i = j
        /\ link[te_link] = IF m = 0 THEN NULL ELSE s[1]
        /\ \A i \in 1 .. m : link[s[i]] = IF i = m THEN NULL ELSE s[i + 1]
    BY <1>1 DEF Linked
  <1>8. m # 0 /\ t = s[1] /\ 1 \in 1 .. m /\ m - 1 \in Nat
    BY <1>2, <1>4, <1>7
  <1> DEFINE s1 == [i \in 1 .. m - 1 |-> s[i + 1]]
  <1>9. ASSUME NEW i \in 1 .. m - 1
        PROVE  /\ s1[i] = s[i + 1] /\ i + 1 \in 1 .. m /\ s1[i] \in TE
               /\ s1[i] # t /\ s1[i] # te_link /\ s1[i] \in R
               /\ (i + 1 = m <=> i = m - 1) /\ (i # m - 1 => i + 1 \in 1 .. m - 1)
    <2>1. /\ s1[i] = s[i + 1] /\ i + 1 \in 1 .. m /\ i + 1 # 1
          /\ (i + 1 = m <=> i = m - 1) /\ (i # m - 1 => i + 1 \in 1 .. m - 1)
      BY <1>7
    <2> HIDE DEF s1
    <2> QED BY <1>1, <1>7, <1>8, <2>1
  <1>10. s1 \in [1 .. m - 1 -> TE]
    BY <1>9
  <1>11. \A i, j \in 1 .. m - 1 : s1[i] = s1[j] => i = j
    <2> SUFFICES ASSUME NEW i \in 1 .. m - 1, NEW j \in 1 .. m - 1, s1[i] = s1[j]
                 PROVE  i = j
      OBVIOUS
    <2>1. i + 1 = j + 1
      BY <1>7, <1>9
    <2> QED BY <2>1
  <1>12. /\ te_link' # Root /\ link'[Root] = NULL
         /\ link'[te_link'] = link[t]
         /\ \A i \in 1 .. m - 1 : link'[s1[i]] = link[s1[i]] /\ s1[i] # te_link'
    <2>1. te_link # Root /\ t # Root /\ Root \in TE \cup {Root}
      BY <1>2, <1>4, TimeAssumption
    <2> HIDE DEF s1
    <2> QED BY <1>2, <1>6, <1>9, <2>1 DEF Links, With
  <1>13. link[t] = IF m - 1 = 0 THEN NULL ELSE s1[1]
    <2>1. link[t] = IF 1 = m THEN NULL ELSE s[1 + 1]
      BY <1>7, <1>8
    <2>2. m # 1 => 1 \in 1 .. m - 1
      BY <1>7, <1>8
    <2>3. m - 1 = 0 <=> m = 1
      BY <1>7
    <2> QED BY <1>9, <2>1, <2>2, <2>3
  <1>14. \A i \in 1 .. m - 1 : link'[s1[i]] = IF i = m - 1 THEN NULL ELSE s1[i + 1]
    <2> TAKE i \in 1 .. m - 1
    <2>1. link'[s1[i]] = IF i + 1 = m THEN NULL ELSE s[i + 1 + 1]
      BY <1>7, <1>9, <1>12
    <2>2. i # m - 1 => s1[i + 1] = s[i + 1 + 1]
      BY <1>9
    <2> HIDE DEF s1
    <2> QED BY <1>9, <2>1, <2>2
  <1> HIDE DEF s1
  <1>15. Linked(link', link'[te_link'], m - 1, s1)
    BY <1>8, <1>10, <1>11, <1>12, <1>13, <1>14 DEF Linked
  <1>16. \A i \in 1 .. m - 1 : s1[i] # te_link' /\ s1[i] # te' /\ s1[i] \in R
    BY <1>2, <1>5, <1>9, <1>12
  <1>17. RestOfWalk(link', new_head', te_link', te', R)
    BY <1>4, <1>12, <1>15, <1>16 DEF RestOfWalk
  <1>18. t \in R
    BY <1>1, <1>8
  <1> QED BY <1>5, <1>17, <1>18

LEMMA RestPosted ==
  ASSUME TypeOK, NEW R, RestOfWalk(link, new_head, te_link, te, R), TickPost
  PROVE  RestOfWalk(link', new_head', te_link', te', R \ {te}) /\ te' = NULL
  <1>1. PICK m, s : /\ Linked(link, link[te_link], m, s)
                    /\ \A i \in 1 .. m : s[i] # te_link /\ s[i] # te /\ s[i] \in R
    BY DEF RestOfWalk
  <1>2. link' = link /\ new_head' = new_head /\ te_link' = te_link /\ te' = NULL
    BY DEF TickPost, lists
  <1>3. \A i \in 1 .. m : s[i] # te' /\ s[i] \in R \ {te}
    BY <1>1, <1>2, TimeAssumption DEF Linked
  <1> QED BY <1>1, <1>2, <1>3 DEF RestOfWalk

LEMMA RestEnded ==
  ASSUME NEW R, RestOfWalk(link, new_head, te_link, te, R), TickEnd
  PROVE  RestOfWalk(link', new_head', te_link', te', R)
  <1>1. link' = link /\ new_head' = NULL /\ te_link' = Root /\ link[Root] = NULL
    BY DEF TickEnd, lists, RestOfWalk
  <1>2. << >> \in [1 .. 0 -> TE] /\ 1 .. 0 = {}
    OBVIOUS
  <1>3. Linked(link, NULL, 0, << >>)
    BY <1>2 DEF Linked
  <1> QED BY <1>1, <1>2, <1>3 DEF RestOfWalk

(* The state is well typed whatever became of the lists.                   *)
LEMMA TickTypes ==
  ASSUME TypeOK, TickStep
  PROVE  TypeOK'
  <1>1. /\ Period \cup {0} \subseteq 0 .. MaxTick /\ NULL \notin TE /\ MaxTick \in Nat
    BY TimeAssumption
  <1>2. /\ Attached \in Links /\ NewLeft \in TE \cup {NULL}
    BY DEF Attached, NewLeft, TypeOK, Links
  <1>3. CASE TickEnd
    <2>1. AtLoop /\ te = NULL
      BY <1>3 DEF TickEnd, AtLoop, TypeOK
    <2> QED BY <1>3, <2>1, LoopTypes DEF TickEnd, lists, TypeOK, AtLoop
  <1>4. CASE TickPost
    <2>1. te \in TE /\ Counted(posts[te]) \in 0 .. 2 /\ Counted(late[te]) \in 0 .. 2
      BY <1>4 DEF TickPost, TypeOK, Counted
    <2>2. /\ posts' \in [TE -> 0 .. 2] /\ late' \in [TE -> 0 .. 2]
          /\ walk' = "step" /\ te' = NULL
          /\ link' = link /\ new_head' = new_head /\ is_linked' = is_linked
          /\ cnt' = cnt /\ period' = period /\ te_link' = te_link /\ calls' = calls
          /\ failed' = failed /\ before' = before /\ touched' = touched
      BY <1>4, <2>1 DEF TickPost, lists, TypeOK
    <2> QED BY <2>2 DEF TypeOK
  <1>5. ASSUME NEW t \in TE, Handles(t)
        PROVE  TypeOK'
    <2>1. AtLoop /\ t = Current /\ new_head' = NewLeft /\ period' = period /\ te = NULL
      BY <1>5 DEF Handles, TickRemove, TickExpire, TickCount, InLoop, AtLoop, TypeOK
    <2>2. /\ calls' \in 0 .. CallsPerTick /\ before' \in [TE -> 0 .. MaxTick]
          /\ touched' \subseteq TE /\ posts' \in [TE -> 0 .. 2]
          /\ failed' = failed /\ late' = late
      BY <2>1, LoopTypes DEF AtLoop
    <2>3. /\ link' \in Links /\ te_link' \in TE \cup {Root} /\ is_linked' \in [TE -> BOOLEAN]
      <3>1. Unlink(t) \/ Advance(t)
        BY <1>5 DEF Handles, TickRemove, TickExpire, TickCount
      <3>2. is_linked \in [TE -> BOOLEAN] /\ te_link \in TE \cup {Root}
        BY DEF TypeOK
      <3> QED BY <1>2, <3>1, <3>2 DEF Unlink, Advance, Links
    <2>4. cnt' \in [TE -> 0 .. MaxTick]
      <3>1. cnt \in [TE -> 0 .. MaxTick] /\ period[t] \in 0 .. MaxTick
        BY <1>1 DEF TypeOK
      <3>2. cnt[t] > 1 => cnt[t] - 1 \in 0 .. MaxTick
        BY <1>1, <3>1
      <3> QED BY <1>5, <3>1, <3>2 DEF Handles, TickRemove, TickExpire, TickCount
    <2>5. walk' \in {"step", "post"} /\ te' \in TE \cup {NULL} /\ (walk' = "post" <=> te' # NULL)
      BY <1>1, <1>5, <2>1 DEF Handles, TickRemove, TickExpire, TickCount
    <2> QED BY <1>2, <2>1, <2>2, <2>3, <2>4, <2>5 DEF TypeOK, Links
  <1> QED BY <1>3, <1>4, <1>5 DEF TickStep, Handles

(* The rest of the walk at the moment when the lists are taken away.       *)
LEMMA ClearedRest ==
  ASSUME TimeInv
  PROVE  /\ RestOfWalk(With(link, Root, NULL), NULL, te_link, te,
                       (IF te_link = Root THEN {} ELSE Reached(link[te_link])) \cup ({te} \ {NULL}))
         /\ Reached(link[te_link]) \subseteq TE
  <1>1. PICK n, a, nodes, k : Walk(n, a, nodes, k)
    BY DEF TimeInv, SomeWalk
  <1>2. /\ Listed(link, new_head, is_linked, n, a, nodes) /\ k \in 0 .. a
        /\ te_link = LinkAt(nodes, k) /\ te \notin Behind(a, nodes, k)
        /\ n \in Nat /\ a \in 0 .. n /\ nodes \in [1 .. n -> TE] /\ a \in Nat /\ k \in Nat
        /\ \A i, j \in 1 .. n : nodes[i] = nodes[j] => i = j
        /\ link \in Links /\ te_link \in TE \cup {Root}
    BY <1>1 DEF Walk, Listed, TimeInv, TypeOK, Links
  <1>3. Reached(link[te_link]) = Behind(a, nodes, k)
    BY <1>2, SegmentReached, ReachedIs
  <1>4. Behind(a, nodes, k) \subseteq TE
    BY <1>2, BehindShorter
  <1> DEFINE lk == With(link, Root, NULL)
             R == (IF te_link = Root THEN {} ELSE Reached(link[te_link])) \cup ({te} \ {NULL})
  <1>5. lk[Root] = NULL /\ \A t \in TE : lk[t] = link[t]
    BY <1>2, TimeAssumption DEF With, Links
  <1>6. \E m, s : /\ Linked(lk, lk[te_link], m, s)
                  /\ \A i \in 1 .. m : s[i] # te_link /\ s[i] # te /\ s[i] \in R
    <2>1. CASE te_link = Root
      <3>1. << >> \in [1 .. 0 -> TE] /\ 1 .. 0 = {}
        OBVIOUS
      <3>2. Linked(lk, lk[te_link], 0, << >>)
        BY <1>5, <2>1, <3>1 DEF Linked
      <3> QED BY <3>1, <3>2
    <2>2. CASE te_link # Root
      <3> DEFINE s == [i \in 1 .. a - k |-> nodes[k + i]]
      <3>1. k # 0 /\ te_link = nodes[k] /\ k \in 1 .. n /\ a - k \in Nat /\ te_link \in TE
        BY <1>2, <2>2 DEF LinkAt
      <3>2. ASSUME NEW i \in 1 .. a - k
            PROVE  /\ k + i \in 1 .. n /\ k + i \in k + 1 .. a /\ k + i # k /\ k + i # 0
                   /\ (k + i = a \/ k + i = n <=> i = a - k)
                   /\ (i # a - k => i + 1 \in 1 .. a - k) /\ k + (i + 1) = k + i + 1
        BY <1>2
      <3>3. ASSUME NEW i \in 1 .. a - k
            PROVE  /\ s[i] = nodes[k + i] /\ s[i] \in TE /\ s[i] # te_link /\ s[i] # te
                   /\ s[i] \in Behind(a, nodes, k)
        <4>1. s[i] = nodes[k + i] /\ k + i \in k + 1 .. a /\ k + i \in 1 .. n /\ k + i # k
          BY <3>2
        <4> HIDE DEF s
        <4> QED BY <1>2, <3>1, <4>1 DEF Behind
      <3>4. s \in [1 .. a - k -> TE]
        BY <3>3
      <3>5. \A i, j \in 1 .. a - k : s[i] = s[j] => i = j
        <4> SUFFICES ASSUME NEW i \in 1 .. a - k, NEW j \in 1 .. a - k, s[i] = s[j]
                     PROVE  i = j
          OBVIOUS
        <4>1. k + i = k + j
          BY <1>2, <3>2, <3>3
        <4> QED BY <1>2, <4>1
      <3>6. \A i \in 0 .. n : link[LinkAt(nodes, i)] = IF i = a \/ i = n THEN NULL ELSE nodes[i + 1]
        BY <1>2 DEF Listed
      <3>7. lk[te_link] = IF a - k = 0 THEN NULL ELSE s[1]
        <4>1. lk[te_link] = IF k = a \/ k = n THEN NULL ELSE nodes[k + 1]
          <5>1. k \in 0 .. n /\ te_link = LinkAt(nodes, k) /\ te_link \in TE
            BY <1>2, <3>1
          <5>2. lk[te_link] = link[te_link]
            BY <1>5, <5>1
          <5> HIDE DEF lk
          <5> QED BY <3>6, <5>1, <5>2
        <4>2. (k = a \/ k = n <=> a - k = 0) /\ (a - k # 0 => 1 \in 1 .. a - k)
          BY <1>2
        <4> QED BY <4>1, <4>2, <3>3
      <3>8. \A i \in 1 .. a - k : lk[s[i]] = IF i = a - k THEN NULL ELSE s[i + 1]
        <4> TAKE i \in 1 .. a - k
        <4>1. lk[s[i]] = link[nodes[k + i]]
          BY <1>5, <3>3
        <4>2. link[nodes[k + i]] = IF k + i = a \/ k + i = n THEN NULL ELSE nodes[k + i + 1]
          <5>1. k + i \in 0 .. n /\ LinkAt(nodes, k + i) = nodes[k + i]
            BY <3>2 DEF LinkAt
          <5> QED BY <3>6, <5>1
        <4>3. i # a - k => s[i + 1] = nodes[k + i + 1]
          BY <3>2, <3>3
        <4> QED BY <3>2, <4>1, <4>2, <4>3
      <3> HIDE DEF s
      <3>9. Linked(lk, lk[te_link], a - k, s)
        BY <3>1, <3>4, <3>5, <3>7, <3>8 DEF Linked
      <3>10. \A i \in 1 .. a - k : s[i] # te_link /\ s[i] # te /\ s[i] \in R
        BY <1>3, <2>2, <3>3
      <3> QED BY <3>9, <3>10
    <2> QED BY <2>1, <2>2
  <1> HIDE DEF lk, R
  <1>7. RestOfWalk(lk, NULL, te_link, te, R)
    BY <1>5, <1>6 DEF RestOfWalk
  <1> QED BY <1>3, <1>4, <1>7 DEF lk, R
=============================================================================
