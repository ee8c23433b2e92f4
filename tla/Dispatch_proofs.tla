--------------------------- MODULE Dispatch_proofs ---------------------------
(***************************************************************************)
(* Theorems about the two parts that decide which backend gets a request:  *)
(* the routing policies, for every set of backends, every load and every   *)
(* rendezvous score, and the circuit breaker, for every set of requests    *)
(* and every failure threshold.                                            *)
(***************************************************************************)
EXTENDS Router, CircuitBreaker, FiniteSetTheorems, TLAPS

-----------------------------------------------------------------------------
(***************************************************************************)
(* Ranking the elements of a finite set by a strict total order, given as  *)
(* the set of elements above each one                                      *)
(***************************************************************************)

StrictOrder(S, above) ==
    /\ above \in [S -> SUBSET S]
    /\ \A b \in S : b \notin above[b]
    /\ \A a, b \in S : a \in above[b] => above[a] \subseteq above[b]
    /\ \A a, b \in S : a = b \/ a \in above[b] \/ b \in above[a]

\* The number of elements above one is smaller the higher it stands.
LEMMA PlaceMonotone ==
    ASSUME NEW S, IsFiniteSet(S), NEW above, StrictOrder(S, above),
           NEW a \in S, NEW b \in S, a \in above[b]
    PROVE  Cardinality(above[a]) < Cardinality(above[b])
<1>1. above[a] \subseteq above[b] /\ a \notin above[a]
  BY DEF StrictOrder
<1>2. IsFiniteSet(above[a]) /\ IsFiniteSet(above[b])
  BY FS_Subset DEF StrictOrder
<1>3. Cardinality(above[a]) <= Cardinality(above[b])
  BY <1>1, <1>2, FS_Subset
<1>4. Cardinality(above[a]) # Cardinality(above[b])
  BY <1>1, <1>2, FS_Subset
<1>5. Cardinality(above[a]) \in Nat /\ Cardinality(above[b]) \in Nat
  BY <1>2, FS_CardinalityType
<1>6. QED
  BY <1>3, <1>4, <1>5

\* Each place is taken by exactly one element.
LEMMA Ranking ==
    ASSUME NEW S, IsFiniteSet(S), NEW above, StrictOrder(S, above)
    PROVE  /\ Cardinality(S) \in Nat
           /\ \A b \in S : Cardinality(above[b]) \in 0..(Cardinality(S) - 1)
           /\ \A a, b \in S : a \in above[b] <=> Cardinality(above[a]) < Cardinality(above[b])
           /\ \A a, b \in S : Cardinality(above[a]) = Cardinality(above[b]) => a = b
           /\ \A k \in 0..(Cardinality(S) - 1) : \E b \in S : Cardinality(above[b]) = k
<1> DEFINE n == Cardinality(S)
           Places == 0..(n - 1)
           place == [b \in S |-> Cardinality(above[b])]
<1>1. n \in Nat
  BY FS_CardinalityType
<1>2. ASSUME NEW b \in S
      PROVE  Cardinality(above[b]) \in Places
  <2>1. above[b] \in SUBSET (S \ {b})
    BY DEF StrictOrder
  <2>2. IsFiniteSet(S \ {b}) /\ Cardinality(S \ {b}) = n - 1
    BY FS_RemoveElement
  <2>3. IsFiniteSet(above[b]) /\ Cardinality(above[b]) <= n - 1
    BY <2>1, <2>2, FS_Subset
  <2>4. Cardinality(above[b]) \in Nat
    BY <2>3, FS_CardinalityType
  <2>5. QED
    BY <2>3, <2>4, <1>1
<1>3. ASSUME NEW a \in S, NEW b \in S
      PROVE  /\ a \in above[b] <=> Cardinality(above[a]) < Cardinality(above[b])
             /\ Cardinality(above[a]) = Cardinality(above[b]) => a = b
  <2>1. Cardinality(above[a]) \in Nat /\ Cardinality(above[b]) \in Nat
    BY <1>1, <1>2
  <2>2. a \in above[b] => Cardinality(above[a]) < Cardinality(above[b])
    BY PlaceMonotone
  <2>3. b \in above[a] => Cardinality(above[b]) < Cardinality(above[a])
    BY PlaceMonotone
  <2>4. a = b \/ a \in above[b] \/ b \in above[a]
    BY DEF StrictOrder
  <2>5. QED
    BY <2>1, <2>2, <2>3, <2>4
<1>4. place \in Injection(S, Places)
  BY <1>2, <1>3 DEF Injection, IsInjective
<1>5. IsFiniteSet(Places) /\ Cardinality(Places) = n
  BY <1>1, FS_Interval
<1>6. place \in Surjection(S, Places)
  BY <1>4, <1>5, FS_Injection
<1>7. \A k \in Places : \E b \in S : place[b] = k
  BY <1>6, Zenon DEF Surjection
<1>8. QED
  BY <1>1, <1>2, <1>3, <1>7

\* What every policy answers: each element of S once.
Lists(l, S) ==
    /\ l \in [1..Cardinality(S) -> S]
    /\ \A i, j \in 1..Cardinality(S) : l[i] = l[j] => i = j
    /\ \A b \in S : \E i \in 1..Cardinality(S) : l[i] = b

\* The elements by their places are a list of the set, highest first.
LEMMA RankingLists ==
    ASSUME NEW S, IsFiniteSet(S), NEW above, StrictOrder(S, above), NEW l,
           l = [i \in 1..Cardinality(S) |-> l[i]],
           \A i \in 1..Cardinality(S) : (\E b \in S : Cardinality(above[b]) = i - 1) =>
                                           l[i] \in S /\ Cardinality(above[l[i]]) = i - 1
    PROVE  /\ Lists(l, S)
           /\ \A i, j \in 1..Cardinality(S) : i < j <=> l[i] \in above[l[j]]
<1> DEFINE n == Cardinality(S)
<1>1. /\ n \in Nat
      /\ \A b \in S : Cardinality(above[b]) \in 0..(n - 1)
      /\ \A a, b \in S : a \in above[b] <=> Cardinality(above[a]) < Cardinality(above[b])
      /\ \A a, b \in S : Cardinality(above[a]) = Cardinality(above[b]) => a = b
      /\ \A k \in 0..(n - 1) : \E b \in S : Cardinality(above[b]) = k
  BY Ranking
<1>2. ASSUME NEW i \in 1..n
      PROVE  l[i] \in S /\ Cardinality(above[l[i]]) = i - 1
  <2>1. i - 1 \in 0..(n - 1)
    BY <1>1
  <2>2. \E b \in S : Cardinality(above[b]) = i - 1
    BY <2>1, <1>1
  <2>3. QED
    BY <2>2
<1> HIDE DEF n
<1>3. l = [i \in 1..n |-> l[i]]
  BY DEF n
<1>4. l \in [1..n -> S]
  BY <1>2, <1>3
<1>5. ASSUME NEW i \in 1..n, NEW j \in 1..n
      PROVE  /\ l[i] = l[j] => i = j
             /\ i < j <=> l[i] \in above[l[j]]
  <2>1. l[i] \in S /\ Cardinality(above[l[i]]) = i - 1
    BY <1>2
  <2>2. l[j] \in S /\ Cardinality(above[l[j]]) = j - 1
    BY <1>2
  <2>3. l[i] \in above[l[j]] <=> i - 1 < j - 1
    BY <1>1, <2>1, <2>2
  <2>4. QED
    BY <2>1, <2>2, <2>3
<1>6. ASSUME NEW b \in S
      PROVE  \E i \in 1..n : l[i] = b
  <2>1. PICK i \in 1..n : Cardinality(above[b]) = i - 1
    <3>1. Cardinality(above[b]) \in 0..(n - 1)
      BY <1>1
    <3>2. Cardinality(above[b]) + 1 \in 1..n
      BY <3>1, <1>1
    <3>3. QED
      BY <3>1, <3>2
  <2>2. l[i] \in S /\ Cardinality(above[l[i]]) = Cardinality(above[b])
    BY <1>2, <2>1
  <2>3. QED
    BY <1>1, <2>2, Zenon
<1>7. QED
  BY <1>4, <1>5, <1>6 DEF Lists, n

\* Outranking is a strict total order: hrw_rank() lists the candidates, and an
\* earlier one outranks a later one.
LEMMA HrwRanks ==
    ASSUME NEW cands, IsFiniteSet(cands), cands \subseteq Nat,
           NEW s, \A b \in cands : s[b] \in Nat
    PROVE  /\ Lists(hrw_rank(s, cands), cands)
           /\ \A i, j \in 1..Cardinality(cands) :
                 i < j <=> Outranks(s, hrw_rank(s, cands)[i], hrw_rank(s, cands)[j])
<1> DEFINE above == [b \in cands |-> {c \in cands : Outranks(s, c, b)}]
           rank  == hrw_rank(s, cands)
           n     == Cardinality(cands)
<1>1. above \in [cands -> SUBSET cands]
  OBVIOUS
<1>2. \A b \in cands : above[b] = {c \in cands : Outranks(s, c, b)}
  OBVIOUS
<1>3. rank = [i \in 1..n |-> rank[i]]
  <2> DEFINE Entry(i) == CHOOSE b \in cands : Cardinality({c \in cands : Outranks(s, c, b)}) = i - 1
  <2>1. rank = [i \in 1..n |-> Entry(i)]
    BY Zenon DEF hrw_rank
  <2> HIDE DEF Entry, rank
  <2> QED
    BY <2>1
<1>4. ASSUME NEW i \in 1..n, \E b \in cands : Cardinality(above[b]) = i - 1
      PROVE  rank[i] \in cands /\ Cardinality(above[rank[i]]) = i - 1
  <2>1. rank[i] = CHOOSE b \in cands : Cardinality({c \in cands : Outranks(s, c, b)}) = i - 1
    BY DEF hrw_rank
  <2>2. \E b \in cands : Cardinality({c \in cands : Outranks(s, c, b)}) = i - 1
    BY <1>2, <1>4, Zenon
  <2>3. /\ rank[i] \in cands
        /\ Cardinality({c \in cands : Outranks(s, c, rank[i])}) = i - 1
    BY <2>1, <2>2, Zenon
  <2>4. QED
    BY <2>3, <1>2, Zenon
<1> HIDE DEF above, rank
<1>5. \A b \in cands : b \notin above[b]
  BY <1>2 DEF Outranks
<1>6. \A a, b \in cands : a \in above[b] <=> Outranks(s, a, b)
  BY <1>2, Zenon
<1>7. ASSUME NEW a \in cands, NEW b \in cands, NEW c \in cands,
             Outranks(s, a, b), Outranks(s, c, a)
      PROVE  Outranks(s, c, b)
  BY <1>7 DEF Outranks
<1>8. \A a, b \in cands : a = b \/ Outranks(s, a, b) \/ Outranks(s, b, a)
  BY DEF Outranks
<1>9. StrictOrder(cands, above)
  BY <1>1, <1>5, <1>6, <1>7, <1>8, Zenon DEF StrictOrder
<1>10. /\ Lists(rank, cands)
       /\ \A i, j \in 1..n : i < j <=> rank[i] \in above[rank[j]]
  BY <1>3, <1>4, <1>9, RankingLists, Zenon
<1>11. \A i \in 1..n : rank[i] \in cands
  BY <1>10 DEF Lists
<1>12. \A i, j \in 1..n : i < j <=> Outranks(s, rank[i], rank[j])
  BY <1>6, <1>10, <1>11, Zenon
<1>13. QED
  BY <1>10, <1>12 DEF rank

\* The candidates by config index are a list of them, too.
LEMMA ByIndexLists ==
    ASSUME NEW cands, IsFiniteSet(cands), cands \subseteq Nat
    PROVE  Lists(ByIndex(cands), cands)
<1> DEFINE above == [b \in cands |-> {c \in cands : c < b}]
           list  == ByIndex(cands)
           n     == Cardinality(cands)
<1>1. StrictOrder(cands, above)
  <2>1. above \in [cands -> SUBSET cands]
    OBVIOUS
  <2>2. \A a, b \in cands : /\ a \in Nat /\ b \in Nat
                            /\ a \in above[b] <=> a < b
    OBVIOUS
  <2> HIDE DEF above
  <2>3. \A b \in cands : b \notin above[b]
    BY <2>2
  <2>4. ASSUME NEW a \in cands, NEW b \in cands, a \in above[b], NEW c \in above[a]
        PROVE  c \in above[b]
    <3>1. c \in cands
      BY <2>1
    <3>2. c < a /\ a < b
      BY <2>2, <2>4, <3>1
    <3>3. c < b
      BY <3>1, <3>2
    <3>4. QED
      BY <2>2, <3>1, <3>3
  <2>5. \A a, b \in cands : a = b \/ a \in above[b] \/ b \in above[a]
    BY <2>2
  <2>6. QED
    BY <2>1, <2>3, <2>4, <2>5, Zenon DEF StrictOrder
<1>2. \A b \in cands : above[b] = {c \in cands : c < b}
  OBVIOUS
<1>3. list = [i \in 1..n |-> list[i]]
  <2> DEFINE Entry(i) == CHOOSE b \in cands : Cardinality({c \in cands : c < b}) = i - 1
  <2>1. list = [i \in 1..n |-> Entry(i)]
    BY Zenon DEF ByIndex
  <2> HIDE DEF Entry, list
  <2>2. QED
    BY <2>1
<1>4. ASSUME NEW i \in 1..n, \E b \in cands : Cardinality(above[b]) = i - 1
      PROVE  list[i] \in cands /\ Cardinality(above[list[i]]) = i - 1
  <2>1. list[i] = CHOOSE b \in cands : Cardinality({c \in cands : c < b}) = i - 1
    BY Zenon DEF ByIndex
  <2>2. \E b \in cands : Cardinality({c \in cands : c < b}) = i - 1
    BY <1>2, <1>4, Zenon
  <2>3. list[i] \in cands /\ Cardinality({c \in cands : c < list[i]}) = i - 1
    BY <2>1, <2>2, Zenon
  <2>4. QED
    BY <2>3, <1>2, Zenon
<1> HIDE DEF above, list
<1>5. QED
  BY <1>1, <1>3, <1>4, RankingLists, Zenon DEF list

\* A set of numbers has a least one.
LEMMA LeastOf ==
    ASSUME NEW S \in SUBSET Nat, S # {}
    PROVE  \E x \in S : \A y \in S : x <= y
<1> DEFINE Less == {p \in Nat \X Nat : p[1] < p[2]}
<1>1. IsWellFoundedOn(Less, Nat)
  BY NatLessThanWellFounded DEF OpToRel
<1>2. PICK x \in S : \A y \in S : ~ (<<y, x>> \in Less)
  BY <1>1, WFMin, Zenon
<1>3. \A y, z \in Nat : ~ (<<y, z>> \in Less) => z <= y
  OBVIOUS
<1>4. QED
  BY <1>2, <1>3, Zenon

-----------------------------------------------------------------------------
(***************************************************************************)
(* The orders of the two policies                                          *)
(***************************************************************************)

\* Putting one entry first loses and doubles none.
LEMMA HeadFirstLists ==
    ASSUME NEW S, IsFiniteSet(S), NEW l, Lists(l, S), NEW h \in 1..Cardinality(S)
    PROVE  Lists(HeadFirst(l, h), S)
<1> DEFINE n == Cardinality(S)
           f == HeadFirst(l, h)
           from(i) == IF i = 1 THEN h ELSE IF i <= h THEN i - 1 ELSE i
<1>1. n \in Nat /\ h \in 1..n
  BY FS_CardinalityType
<1> HIDE DEF n
<1>2. /\ l \in [1..n -> S]
      /\ \A i, j \in 1..n : l[i] = l[j] => i = j
      /\ \A b \in S : \E i \in 1..n : l[i] = b
  BY DEF Lists, n
<1>3. \A i \in 1..n : from(i) \in 1..n
  BY <1>1
<1>4. \A i, j \in 1..n : from(i) = from(j) => i = j
  BY <1>1
<1>5. \A k \in 1..n : \E i \in 1..n : from(i) = k
  <2> SUFFICES ASSUME NEW k \in 1..n
               PROVE  \E i \in 1..n : from(i) = k
    OBVIOUS
  <2>1. CASE k = h
    BY <1>1, <2>1
  <2>2. CASE k < h
    <3>1. k + 1 \in 1..n /\ from(k + 1) = k
      BY <1>1, <2>2
    <3>2. QED
      BY <3>1
  <2>3. CASE k > h
    BY <1>1, <2>3
  <2>4. QED
    BY <1>1, <2>1, <2>2, <2>3
<1>6. DOMAIN l = 1..n
  BY <1>2
<1>7. f = [i \in 1..n |-> l[from(i)]]
  BY <1>6 DEF HeadFirst
<1> HIDE DEF from, f
<1>8. f \in [1..n -> S]
  BY <1>2, <1>3, <1>7
<1>9. \A i, j \in 1..n : f[i] = f[j] => i = j
  BY <1>2, <1>3, <1>4, <1>7
<1>10. ASSUME NEW b \in S
       PROVE  \E i \in 1..n : f[i] = b
  <2>1. PICK k \in 1..n : l[k] = b
    BY <1>2
  <2>2. PICK i \in 1..n : from(i) = k
    BY <1>5
  <2>3. QED
    BY <1>7, <2>1, <2>2
<1>11. QED
  BY <1>8, <1>9, <1>10 DEF Lists, n, f

\* h outranks the rest of S.
Best(s, S, h) == h \in S /\ \A b \in S : b # h => Outranks(s, h, b)

\* The candidates the load guard lets through.
Under(act, cands) == {b \in cands : ~Overloaded(act, b)}

\* PrefixAffinity::order() lists the candidates.  The first is the best one
\* that the load guard lets through, or the best of all if there is none.
LEMMA AffinityOrders ==
    ASSUME NEW cands, IsFiniteSet(cands), cands \subseteq Nat, cands # {},
           NEW s, \A b \in cands : s[b] \in Nat, NEW act
    PROVE  LET o == AffinityOrder(s, cands, act).order
           IN  /\ Lists(o, cands)
               /\ Best(s, IF Under(act, cands) = {} THEN cands ELSE Under(act, cands), o[1])
<1> DEFINE n     == Cardinality(cands)
           rank  == hrw_rank(s, cands)
           under == {i \in DOMAIN rank : ~Overloaded(act, rank[i])}
           head  == CHOOSE i \in under : \A j \in under : i <= j
           o     == AffinityOrder(s, cands, act).order
<1>1. n \in Nat \ {0}
  BY FS_CardinalityType, FS_EmptySet
<1>2. Lists(rank, cands) /\ \A i, j \in 1..n : i < j <=> Outranks(s, rank[i], rank[j])
  BY HrwRanks, Zenon
<1>3. /\ rank \in [1..n -> cands] /\ DOMAIN rank = 1..n
      /\ \A b \in cands : \E i \in 1..n : rank[i] = b
  BY <1>2 DEF Lists
<1>4. o = IF under = {} THEN rank ELSE HeadFirst(rank, head)
  <2>1. AffinityOrder(s, cands, act) =
            IF under = {} THEN [order |-> rank, spills |-> n]
                          ELSE [order |-> HeadFirst(rank, head), spills |-> head - 1]
    BY Zenon DEF AffinityOrder
  <2> HIDE DEF under, rank, head, n
  <2>2. QED
    BY <2>1
<1> HIDE DEF rank, o, n
<1>5. under = {} <=> Under(act, cands) = {}
  BY <1>3, Zenon DEF Under
<1>6. CASE under = {}
  <2>1. Best(s, cands, rank[1])
    <3>1. 1 \in 1..n /\ rank[1] \in cands
      BY <1>1, <1>3
    <3>2. ASSUME NEW b \in cands, b # rank[1]
          PROVE  Outranks(s, rank[1], b)
      <4>1. PICK i \in 1..n : rank[i] = b
        BY <1>3
      <4>2. 1 < i
        BY <1>1, <3>2, <4>1
      <4>3. QED
        BY <1>2, <3>1, <4>1, <4>2
    <3>3. QED
      BY <3>1, <3>2 DEF Best
  <2>2. QED
    BY <1>2, <1>4, <1>5, <1>6, <2>1 DEF o
<1>7. CASE under # {}
  <2>1. under \in SUBSET Nat
    BY <1>1, <1>3
  <2>2. \E i \in under : \A j \in under : i <= j
    BY <1>7, <2>1, LeastOf, Zenon
  <2>3. head \in under /\ \A j \in under : head <= j
    BY <2>2, Zenon
  <2> HIDE DEF head
  <2>4. head \in 1..n /\ ~Overloaded(act, rank[head])
    BY <1>3, <2>3
  <2>5. Lists(HeadFirst(rank, head), cands)
    BY <1>2, <2>4, HeadFirstLists DEF n
  <2>6. HeadFirst(rank, head)[1] = rank[head]
    BY <1>1, <1>3 DEF HeadFirst
  <2>7. rank[head] \in Under(act, cands)
    BY <1>3, <2>4 DEF Under
  <2>8. ASSUME NEW b \in Under(act, cands), b # rank[head]
        PROVE  Outranks(s, rank[head], b)
    <3>1. PICK i \in 1..n : rank[i] = b
      BY <1>3 DEF Under
    <3>2. i \in under
      BY <1>3, <3>1 DEF Under
    <3>3. head < i
      BY <1>1, <2>3, <2>4, <2>8, <3>1, <3>2
    <3>4. QED
      BY <1>2, <2>4, <3>1, <3>3
  <2>9. Best(s, Under(act, cands), rank[head])
    BY <2>7, <2>8 DEF Best
  <2>10. QED
    BY <1>4, <1>5, <1>7, <2>5, <2>6, <2>9 DEF o
<1>8. QED
  BY <1>6, <1>7

-----------------------------------------------------------------------------
(***************************************************************************)
(* Round robin                                                             *)
(***************************************************************************)

\* The remainder is what is left of a by multiples of n.
LEMMA Division ==
    ASSUME NEW a \in Nat, NEW n \in Nat \ {0}
    PROVE  a % n \in 0..(n - 1) /\ \E q \in Nat : a = n * q + (a % n)
<1>1. a % n \in 0..(n - 1)
  OBVIOUS
<1>2. a \div n \in Nat /\ a = n * (a \div n) + (a % n)
  OBVIOUS
<1>3. QED
  BY <1>1, <1>2, Zenon

\* Quotient and remainder are unique.
LEMMA RemainderUnique ==
    ASSUME NEW n \in Nat \ {0}, NEW p \in Nat, NEW q \in Nat,
           NEW r \in 0..(n - 1), NEW s \in 0..(n - 1), n * p + r = n * q + s
    PROVE  p = q /\ r = s
<1>1. n * (p - q) = s - r
  OBVIOUS
<1>2. p - q >= 1 => n * (p - q) >= n
  OBVIOUS
<1>3. p - q <= -1 => n * (p - q) <= -n
  OBVIOUS
<1>4. QED
  BY <1>1, <1>2, <1>3

\* The cursor goes round.
LEMMA NextRemainder ==
    ASSUME NEW a \in Nat, NEW n \in Nat \ {0}
    PROVE  (a + 1) % n = IF a % n = n - 1 THEN 0 ELSE (a % n) + 1
<1>1. PICK q \in Nat : a = n * q + (a % n)
  BY Division, Zenon
<1>0. a + 1 \in Nat
  OBVIOUS
<1>2. PICK p \in Nat : a + 1 = n * p + ((a + 1) % n)
  BY <1>0, Division, Zenon
<1>3. a % n \in 0..(n - 1) /\ (a + 1) % n \in 0..(n - 1)
  BY <1>0, Division
<1>4. CASE a % n = n - 1
  <2>1. n * (q + 1) = n * q + n
    OBVIOUS
  <2>2. n * p + ((a + 1) % n) = n * (q + 1) + 0
    BY <1>1, <1>2, <1>4, <2>1
  <2>3. (a + 1) % n = 0
    <3>1. 0 \in 0..(n - 1) /\ q + 1 \in Nat
      OBVIOUS
    <3>2. QED
      BY <1>3, <2>2, <3>1, RemainderUnique
  <2>4. QED
    BY <1>4, <2>3
<1>5. CASE a % n # n - 1
  <2>1. n * p + ((a + 1) % n) = n * q + ((a % n) + 1)
    BY <1>1, <1>2, <1>3
  <2>2. (a % n) + 1 \in 0..(n - 1)
    BY <1>3, <1>5
  <2>3. (a + 1) % n = (a % n) + 1
    BY <1>3, <2>1, <2>2, RemainderUnique, SMTT(30)
  <2>4. QED
    BY <1>5, <2>3
<1>6. QED
  BY <1>4, <1>5

\* Numbers less than n apart with the same remainder are the same.
LEMMA SameRemainder ==
    ASSUME NEW n \in Nat \ {0}, NEW a \in Nat, NEW b \in Nat,
           a <= b, b - a < n, a % n = b % n
    PROVE  a = b
<1>1. PICK p \in Nat : a = n * p + (a % n)
  BY Division, Zenon
<1>2. PICK q \in Nat : b = n * q + (b % n)
  BY Division, Zenon
<1>3. a % n \in 0..(n - 1) /\ b - a \in 0..(n - 1)
  BY Division
<1>4. n * q + 0 = n * p + (b - a)
  BY <1>1, <1>2, <1>3
<1>5. 0 = b - a
  BY <1>3, <1>4, RemainderUnique
<1>6. QED
  BY <1>5

\* RoundRobin::order() lists the candidates, starting where the cursor points.
LEMMA RoundRobinOrders ==
    ASSUME NEW cands, IsFiniteSet(cands), cands \subseteq Nat, cands # {}, NEW k \in Nat
    PROVE  LET o == RoundRobinOrder(cands, k).order
           IN  /\ Lists(o, cands)
               /\ o[1] = ByIndex(cands)[(k % Cardinality(cands)) + 1]
<1> DEFINE n == Cardinality(cands)
           l == ByIndex(cands)
           o == RoundRobinOrder(cands, k).order
           at == [i \in 1..n |-> ((k + i - 1) % n) + 1]
<1>1. n \in Nat \ {0}
  BY FS_CardinalityType, FS_EmptySet
<1>2. Lists(l, cands)
  BY ByIndexLists, Zenon
<1>3. o = [i \in 1..n |-> l[((k + i - 1) % n) + 1]]
  BY DEF RoundRobinOrder
<1> HIDE DEF n, l, o
<1>4. ASSUME NEW i \in 1..n
      PROVE  k + i - 1 \in Nat /\ at[i] = ((k + i - 1) % n) + 1 /\ at[i] \in 1..n
  BY <1>1, Division
<1>5. ASSUME NEW i \in 1..n, NEW j \in 1..n, at[i] = at[j]
      PROVE  i = j
  <2>1. (k + i - 1) % n = (k + j - 1) % n
    BY <1>1, <1>4, <1>5, Division
  <2>2. CASE i <= j
    <3>1. k + i - 1 <= k + j - 1 /\ (k + j - 1) - (k + i - 1) < n
      BY <1>1, <2>2
    <3>2. k + i - 1 = k + j - 1
      BY <1>1, <1>4, <2>1, <3>1, SameRemainder, Zenon
    <3>3. QED
      BY <1>1, <3>2
  <2>3. CASE j <= i
    <3>1. k + j - 1 <= k + i - 1 /\ (k + i - 1) - (k + j - 1) < n
      BY <1>1, <2>3
    <3>2. k + j - 1 = k + i - 1
      BY <1>1, <1>4, <2>1, <3>1, SameRemainder, Zenon
    <3>3. QED
      BY <1>1, <3>2
  <2>4. QED
    BY <1>1, <2>2, <2>3
<1>6. at \in Injection(1..n, 1..n)
  BY <1>4, <1>5, Zenon DEF Injection, IsInjective
<1>7. at \in Surjection(1..n, 1..n)
  BY <1>1, <1>6, FS_Interval, FS_Injection
<1>8. \A j \in 1..n : \E i \in 1..n : at[i] = j
  BY <1>7, Zenon DEF Surjection
<1>9. o = [i \in 1..n |-> l[at[i]]]
  BY <1>3
<1> HIDE DEF at
<1>10. /\ l \in [1..n -> cands]
       /\ \A i, j \in 1..n : l[i] = l[j] => i = j
       /\ \A b \in cands : \E i \in 1..n : l[i] = b
  BY <1>2 DEF Lists, n
<1>11. o \in [1..n -> cands]
  BY <1>4, <1>9, <1>10
<1>12. \A i, j \in 1..n : o[i] = o[j] => i = j
  BY <1>4, <1>5, <1>9, <1>10
<1>13. ASSUME NEW b \in cands
       PROVE  \E i \in 1..n : o[i] = b
  <2>1. PICK j \in 1..n : l[j] = b
    BY <1>10
  <2>2. PICK i \in 1..n : at[i] = j
    BY <1>8
  <2>3. QED
    BY <1>9, <2>1, <2>2
<1>14. o[1] = l[(k % n) + 1]
  <2>1. 1 \in 1..n /\ k + 1 - 1 = k
    BY <1>1
  <2>2. QED
    BY <1>3, <2>1
<1>15. QED
  BY <1>11, <1>12, <1>13, <1>14 DEF Lists, n, l, o

-----------------------------------------------------------------------------
(***************************************************************************)
(* The invariant                                                           *)
(***************************************************************************)

\* What the policies are given.
RouterInv ==
    /\ policy \in Policies
    /\ eligible \subseteq Backends
    /\ active \in [Backends -> Nat]
    /\ cursor \in Nat
    /\ score \in [Backends -> Scores]

\* Routing starts with every backend eligible and idle.
LEMMA InitRouterInv == Init => RouterInv
BY DEF Init, RouterInv

\* Routing, further turns, ends of requests and churn keep it.
LEMMA NextRouterInv == RouterInv /\ [Next]_vars => RouterInv'
<1> SUFFICES ASSUME RouterInv, [Next]_vars PROVE RouterInv'
  OBVIOUS
<1> USE DEF RouterInv
<1>1. ASSUME NEW m \in Models, Route(m) PROVE RouterInv'
  <2>1. /\ cursor' = NextCursor
        /\ active' = active \/ \E x : active' = [active EXCEPT ![x] = @ + 1]
        /\ UNCHANGED <<policy, eligible, score>>
    BY <1>1, Zenon DEF Route
  <2>2. \A x : [active EXCEPT ![x] = @ + 1] \in [Backends -> Nat]
    <3> TAKE x
    <3>1. CASE x \in Backends
      BY <3>1
    <3>2. CASE x \notin Backends
      BY <3>2, Zenon
    <3> QED
      BY <3>1, <3>2
  <2>3. active' \in [Backends -> Nat]
    BY <2>1, <2>2, Zenon
  <2> QED
    BY <2>1, <2>3 DEF NextCursor
<1>2. ASSUME NEW msg \in Messages, Say(msg) PROVE RouterInv'
  BY <1>2 DEF Say
<1>3. ASSUME NEW b \in Backends, Finish(b) PROVE RouterInv'
  BY <1>3 DEF Finish
<1>4. ASSUME NEW b \in Backends, Churn(b) PROVE RouterInv'
  BY <1>4 DEF Churn
<1>5. CASE UNCHANGED vars
  BY <1>5 DEF vars
<1> QED
  BY <1>1, <1>2, <1>3, <1>4, <1>5 DEF Next

\* It holds in every state of every behaviour.
LEMMA RouterInvariance == Spec => []RouterInv
BY InitRouterInv, NextRouterInv, PTL DEF Spec

\* The candidates of a model are finitely many numbers with a score each.
LEMMA Candidates ==
    ASSUME RouterInv, NEW m \in Models
    PROVE  /\ m \cap eligible \subseteq Backends
           /\ m \cap eligible \subseteq Nat
           /\ IsFiniteSet(m \cap eligible)
           /\ \A b \in m \cap eligible : score[b] \in Nat /\ active[b] \in Nat
<1>1. m \cap eligible \subseteq Backends
  BY DEF RouterInv
<1>2. IsFiniteSet(m \cap eligible)
  BY <1>1, RouterAssumption, FS_Subset
<1>3. \A b \in Backends : score[b] \in Nat /\ active[b] \in Nat /\ b \in Nat
  BY RouterAssumption, Zenon DEF RouterInv
<1> QED
  BY <1>1, <1>2, <1>3

\* Whatever the policy, what is routed along is a list of the candidates.
LEMMA RouteOrders ==
    ASSUME RouterInv, NEW m \in Models, m \cap eligible # {}
    PROVE  /\ Lists(RouteOrder(m \cap eligible).order, m \cap eligible)
           /\ policy = "prefix_affinity" =>
                 Best(score, IF Under(active, m \cap eligible) = {} THEN m \cap eligible
                             ELSE Under(active, m \cap eligible), HeadOf(m))
<1> DEFINE cands == m \cap eligible
<1>1. /\ IsFiniteSet(cands) /\ cands \subseteq Nat /\ cands # {}
      /\ \A b \in cands : score[b] \in Nat
  BY Candidates
<1>2. CASE policy = "prefix_affinity"
  <2>1. RouteOrder(cands) = AffinityOrder(score, cands, active)
    BY <1>2 DEF RouteOrder
  <2> HIDE DEF cands
  <2>2. /\ Lists(AffinityOrder(score, cands, active).order, cands)
        /\ Best(score, IF Under(active, cands) = {} THEN cands ELSE Under(active, cands),
                AffinityOrder(score, cands, active).order[1])
    BY <1>1, AffinityOrders, Zenon
  <2> QED
    BY <2>1, <2>2 DEF HeadOf, cands
<1>3. CASE policy # "prefix_affinity"
  <2>1. RouteOrder(cands) = RoundRobinOrder(cands, cursor)
    BY <1>3 DEF RouteOrder
  <2> HIDE DEF cands
  <2>2. Lists(RoundRobinOrder(cands, cursor).order, cands)
    BY <1>1, RoundRobinOrders, Zenon DEF RouterInv
  <2> QED
    BY <1>3, <2>1, <2>2 DEF cands
<1> QED
  BY <1>2, <1>3

-----------------------------------------------------------------------------
(***************************************************************************)
(* The theorems                                                            *)
(***************************************************************************)

\* Every order contains every candidate once, under either policy and whatever
\* the load guard does to the head.
THEOREM RouterListsCandidates == Spec => []OrderIsPermutation
<1>1. RouterInv => OrderIsPermutation
  <2> SUFFICES ASSUME RouterInv, NEW m \in Models, m \cap eligible # {}
               PROVE  LET o == RouteOrder(m \cap eligible).order
                      IN  /\ {o[i] : i \in DOMAIN o} = m \cap eligible
                          /\ \A i, j \in DOMAIN o : o[i] = o[j] => i = j
    BY DEF OrderIsPermutation
  <2> DEFINE o == RouteOrder(m \cap eligible).order
             cands == m \cap eligible
  <2>1. Lists(o, cands)
    BY RouteOrders, Zenon
  <2> HIDE DEF o, cands
  <2>2. /\ o \in [1..Cardinality(cands) -> cands] /\ DOMAIN o = 1..Cardinality(cands)
        /\ \A i, j \in 1..Cardinality(cands) : o[i] = o[j] => i = j
        /\ \A b \in cands : \E i \in 1..Cardinality(cands) : o[i] = b
    BY <2>1 DEF Lists
  <2>3. {o[i] : i \in DOMAIN o} = cands
    BY <2>2
  <2> QED
    BY <2>2, <2>3, Zenon DEF o, cands
<1> QED
  BY <1>1, RouterInvariance, PTL

\* The load guard finds the best-ranked backend with room, if there is one.
THEOREM RouterFindsRoom == Spec => []GuardFindsRoom
<1>1. RouterInv => GuardFindsRoom
  <2> SUFFICES ASSUME RouterInv, policy = "prefix_affinity",
                      NEW m \in Models, m \cap eligible # {}, NEW b \in m \cap eligible,
                      active[b] * threshold_den < threshold_num * max_in_flight
               PROVE  /\ active[HeadOf(m)] * threshold_den < threshold_num * max_in_flight
                      /\ HeadOf(m) # b => \/ score[HeadOf(m)] > score[b]
                                          \/ score[HeadOf(m)] = score[b] /\ HeadOf(m) < b
    BY DEF GuardFindsRoom
  <2>1. \A c \in m \cap eligible :
            /\ active[c] * threshold_den \in Nat /\ threshold_num * max_in_flight \in Nat
            /\ Overloaded(active, c)
                 <=> ~(active[c] * threshold_den < threshold_num * max_in_flight)
    <3> TAKE c \in m \cap eligible
    <3>1. active[c] \in Nat /\ threshold_den \in Nat
      BY Candidates, RoutingAssumption, Zenon
    <3>2. threshold_num \in Nat /\ max_in_flight \in Nat
      BY RoutingAssumption
    <3>3. active[c] * threshold_den \in Nat /\ threshold_num * max_in_flight \in Nat
      BY <3>1, <3>2
    <3> QED
      BY <3>3 DEF Overloaded
  <2>2. b \in Under(active, m \cap eligible)
    BY <2>1 DEF Under
  <2>3. Best(score, Under(active, m \cap eligible), HeadOf(m))
    BY <2>2, RouteOrders, Zenon
  <2>4. HeadOf(m) \in Under(active, m \cap eligible)
    BY <2>3 DEF Best
  <2>5. HeadOf(m) # b => Outranks(score, HeadOf(m), b)
    BY <2>2, <2>3 DEF Best
  <2> QED
    BY <2>1, <2>4, <2>5 DEF Under, Outranks
<1> QED
  BY <1>1, RouterInvariance, PTL

-----------------------------------------------------------------------------
(***************************************************************************)
(* What moves a conversation                                               *)
(***************************************************************************)

\* The candidates among which the best is taken.
Pool(act, cands) == IF Under(act, cands) = {} THEN cands ELSE Under(act, cands)

\* No two are best in pools that both contain both.
LEMMA OneBest ==
    ASSUME NEW S, NEW T, NEW s, NEW g, NEW h, Best(s, S, h), Best(s, T, g),
           h \in T, g \in S, g \in Nat, h \in Nat, s[g] \in Nat, s[h] \in Nat
    PROVE  g = h
BY DEF Best, Outranks

\* The pool after a backend has left, or come, as far as the best of before and
\* after can tell.
LEMMA PoolAfterChurn ==
    ASSUME NEW cands, NEW after, NEW b, NEW act, NEW g, NEW h,
           h \in Pool(act, cands), g \in Pool(act, after)
    PROVE  /\ after = cands \ {b} /\ h # b => h \in Pool(act, after) /\ g \in Pool(act, cands)
           /\ after = cands \cup {b} /\ g # b => h \in Pool(act, after) /\ g \in Pool(act, cands)
BY DEF Pool, Under

\* The head of every order is the best of its pool.
HeadsAreBest ==
    policy = "prefix_affinity" => \A m \in Models : m \cap eligible # {} =>
        Best(score, Pool(active, m \cap eligible), HeadOf(m))

\* So it is before a step and after it.
LEMMA Heads == RouterInv => HeadsAreBest
BY RouteOrders, Zenon DEF HeadsAreBest, Pool

\* Also after a step.
LEMMA NextHeads == RouterInv' => HeadsAreBest'
BY Heads, PTL

\* Under prefix affinity a backend that leaves moves only the keys it served,
\* and one that arrives takes keys but moves none between the others.
THEOREM RouterReshufflesMinimally == Spec => MinimalReshuffle
<1>1. RouterInv /\ [Next]_vars =>
        [eligible' # eligible /\ policy = "prefix_affinity" => \A m \in Models : \A b \in m :
           (m \cap eligible # {} /\ m \cap eligible' # {}) =>
             /\ (eligible' = eligible \ {b} /\ HeadOf(m) # b) => HeadOf(m)' = HeadOf(m)
             /\ (eligible' = eligible \cup {b}) => HeadOf(m)' \in {HeadOf(m), b}]_vars
  <2> SUFFICES ASSUME RouterInv, Next, eligible' # eligible,
                      policy = "prefix_affinity", NEW m \in Models, NEW b \in m,
                      m \cap eligible # {}, m \cap eligible' # {}
               PROVE  /\ (eligible' = eligible \ {b} /\ HeadOf(m) # b) => HeadOf(m)' = HeadOf(m)
                      /\ (eligible' = eligible \cup {b}) => HeadOf(m)' \in {HeadOf(m), b}
    OBVIOUS
  <2> DEFINE cands == m \cap eligible
             after == m \cap eligible'
             h == HeadOf(m)
             g == HeadOf(m)'
  <2>1. policy' = policy /\ active' = active /\ score' = score
    BY Zenon DEF Next, Route, Say, Finish, Churn
  <2>2. RouterInv'
    BY NextRouterInv
  <2>3. Best(score, Pool(active, cands), h)
    BY Heads DEF HeadsAreBest
  <2>4. Best(score, Pool(active, after), g)
    BY <2>1, <2>2, NextHeads DEF HeadsAreBest
  <2>5. \A c \in Backends : c \in Nat /\ score[c] \in Nat
    BY RouterAssumption, Zenon DEF RouterInv
  <2>6. cands \subseteq Backends /\ after \subseteq Backends
    BY <2>2 DEF RouterInv
  <2>7. eligible' = eligible \ {b} => after = cands \ {b}
    OBVIOUS
  <2>8. eligible' = eligible \cup {b} => after = cands \cup {b}
    OBVIOUS
  <2> HIDE DEF cands, after, h, g
  <2>9. h \in Pool(active, cands) /\ g \in Pool(active, after)
    BY <2>3, <2>4 DEF Best
  <2>10. /\ h \in Nat /\ score[h] \in Nat
         /\ g \in Nat /\ score[g] \in Nat
    BY <2>5, <2>6, <2>9 DEF Pool, Under
  <2>11. h \in Pool(active, after) /\ g \in Pool(active, cands) => g = h
    BY <2>3, <2>4, <2>10, OneBest
  <2>12. /\ (after = cands \ {b} /\ h # b) => g = h
         /\ (after = cands \cup {b}) => g = h \/ g = b
    BY <2>9, <2>11, PoolAfterChurn, Zenon
  <2> QED
    BY <2>7, <2>8, <2>12 DEF h, g
<1> QED
  BY <1>1, RouterInvariance, PTL DEF Spec, MinimalReshuffle

-----------------------------------------------------------------------------
(***************************************************************************)
(* How round robin spreads                                                 *)
(***************************************************************************)

\* Position p is one of the k positions from s on, going round n of them.
InWindow(p, s, k, n) == (s <= p /\ p < s + k) \/ p + n < s + k

\* Every position has had lo turns, and those of a window that ends just before
\* the cursor's position c one more.
Window(t, n, c) ==
    \E lo \in Nat, s \in 0..(n - 1), k \in 0..(n - 1) :
        /\ c = IF s + k < n THEN s + k ELSE s + k - n
        /\ \A p \in 0..(n - 1) : t[p] = IF InWindow(p, s, k, n) THEN lo + 1 ELSE lo

\* A turn at the cursor makes the window longer, or starts the next round.
LEMMA WindowStep ==
    ASSUME NEW n \in Nat \ {0}, NEW c \in 0..(n - 1), NEW t, NEW u, Window(t, n, c),
           u[c] = t[c] + 1, \A p \in 0..(n - 1) : p # c => u[p] = t[p]
    PROVE  Window(u, n, IF c = n - 1 THEN 0 ELSE c + 1)
<1> DEFINE d == IF c = n - 1 THEN 0 ELSE c + 1
<1>1. PICK lo \in Nat, s \in 0..(n - 1), k \in 0..(n - 1) :
        /\ c = IF s + k < n THEN s + k ELSE s + k - n
        /\ \A p \in 0..(n - 1) : t[p] = IF InWindow(p, s, k, n) THEN lo + 1 ELSE lo
  BY Zenon DEF Window
<1>2. u[c] = lo + 1
  <2>1. ~InWindow(c, s, k, n)
    BY <1>1 DEF InWindow
  <2> QED
    BY <1>1, <2>1
<1>3. CASE k = n - 1
  <2>1. \A p \in 0..(n - 1) : p # c => InWindow(p, s, k, n)
    BY <1>1, <1>3 DEF InWindow
  <2>2. \A p \in 0..(n - 1) : u[p] = lo + 1
    BY <1>1, <1>2, <2>1
  <2>3. d \in 0..(n - 1) /\ d = IF d + 0 < n THEN d + 0 ELSE d + 0 - n
    OBVIOUS
  <2>4. \A p \in 0..(n - 1) : ~InWindow(p, d, 0, n)
    BY <2>3 DEF InWindow
  <2>5. \A p \in 0..(n - 1) :
            u[p] = IF InWindow(p, d, 0, n) THEN (lo + 1) + 1 ELSE lo + 1
    BY <2>2, <2>4, Zenon
  <2>6. lo + 1 \in Nat /\ 0 \in 0..(n - 1)
    OBVIOUS
  <2> HIDE DEF d
  <2>7. Window(u, n, d)
    BY <2>3, <2>5, <2>6, ZenonT(60) DEF Window
  <2> QED
    BY <2>7 DEF d
<1>4. CASE k # n - 1
  <2>1. \A p \in 0..(n - 1) : InWindow(p, s, k + 1, n) <=> (p = c \/ InWindow(p, s, k, n))
    BY <1>1, <1>4 DEF InWindow
  <2>2. \A p \in 0..(n - 1) : u[p] = IF InWindow(p, s, k + 1, n) THEN lo + 1 ELSE lo
    BY <1>1, <1>2, <2>1
  <2>3. k + 1 \in 0..(n - 1) /\ d = IF s + (k + 1) < n THEN s + (k + 1) ELSE s + (k + 1) - n
    BY <1>1, <1>4
  <2> HIDE DEF d
  <2>4. Window(u, n, d)
    BY <2>2, <2>3, ZenonT(60) DEF Window
  <2> QED
    BY <2>4 DEF d
<1> QED
  BY <1>3, <1>4

\* The turns of the candidates of m, by position.
TurnsOf(m) ==
    [p \in 0..(Cardinality(m \cap eligible) - 1) |-> turns[m][ByIndex(m \cap eligible)[p + 1]]]

\* The turns a model's candidates have had form a window that ends at the cursor.
Spreads(m) ==
    m \cap eligible # {} =>
        Window(TurnsOf(m), Cardinality(m \cap eligible), cursor % Cardinality(m \cap eligible))

\* So it is for every model: for the one of the current row because its requests
\* alone have moved the cursor since the row began, for the others because they
\* have had no turn, and no turns form a window wherever the cursor is.
SpreadInv ==
    /\ turns \in [Models -> [Backends -> Nat]]
    /\ \A m \in Models : Spreads(m)

\* A model nobody has had a turn for.
LEMMA NoTurnsSpread ==
    ASSUME RouterInv, NEW m \in Models, turns[m] = NoTurns[m]
    PROVE  Spreads(m)
<1> SUFFICES ASSUME m \cap eligible # {}
             PROVE  Window(TurnsOf(m), Cardinality(m \cap eligible),
                           cursor % Cardinality(m \cap eligible))
  BY DEF Spreads
<1> DEFINE cands == m \cap eligible
           n == Cardinality(cands)
           c == cursor % n
<1>1. cands \subseteq Backends /\ IsFiniteSet(cands) /\ cands \subseteq Nat
  BY Candidates
<1>2. n \in Nat \ {0}
  BY <1>1, FS_CardinalityType, FS_EmptySet
<1>3. ByIndex(cands) \in [1..n -> cands]
  BY <1>1, ByIndexLists, Zenon DEF Lists
<1>4. c \in 0..(n - 1)
  BY <1>2, Division, Zenon DEF RouterInv
<1>5. \A p \in 0..(n - 1) : ByIndex(cands)[p + 1] \in Backends
  <2> TAKE p \in 0..(n - 1)
  <2>1. p + 1 \in 1..n
    BY <1>2
  <2> QED
    BY <1>1, <1>3, <2>1, Zenon
<1>6. \A b \in Backends : turns[m][b] = 0
  BY DEF NoTurns
<1>7. \A p \in 0..(n - 1) : TurnsOf(m)[p] = 0
  BY <1>5, <1>6, Zenon DEF TurnsOf
<1> HIDE DEF n, c
<1>8. \A p \in 0..(n - 1) : ~InWindow(p, c, 0, n)
  BY <1>2, <1>4 DEF InWindow
<1>9. c = IF c + 0 < n THEN c + 0 ELSE c + 0 - n
  BY <1>2, <1>4
<1>10. \A p \in 0..(n - 1) : TurnsOf(m)[p] = IF InWindow(p, c, 0, n) THEN 0 + 1 ELSE 0
  BY <1>7, <1>8, Zenon
<1>11. 0 \in 0..(n - 1) /\ 0 \in Nat
  BY <1>2
<1>12. Window(TurnsOf(m), n, c)
  BY <1>4, <1>9, <1>10, <1>11 DEF Window
<1> QED
  BY <1>12 DEF n, c

\* All models that nobody has had a turn for, and after a step too.
NoTurnsSpreads == \A m \in Models : turns[m] = NoTurns[m] => Spreads(m)

\* The lemma for every model.
LEMMA NoTurnsSpreadAll == RouterInv => NoTurnsSpreads
BY NoTurnsSpread DEF NoTurnsSpreads

\* Also after a step.
LEMMA NextNoTurnsSpread == RouterInv' => NoTurnsSpreads'
BY NoTurnsSpreadAll, PTL

\* One more request, with round robin.
LEMMA RouteSpreads ==
    ASSUME RouterInv, SpreadInv, NEW m \in Models, Route(m)
    PROVE  Spreads(m)'
<1> SUFFICES Window(TurnsOf(m), Cardinality(m \cap eligible),
                    cursor % Cardinality(m \cap eligible))'
  BY DEF Spreads
<1> DEFINE cands == m \cap eligible
           n == Cardinality(cands)
           l == ByIndex(cands)
           c == cursor % n
           o == RouteOrder(cands).order
<1>1. /\ cands # {} /\ eligible' = eligible
      /\ cursor' = NextCursor
      /\ turns' = IF policy = "round_robin" THEN TakesTurn(m, o[1]) ELSE turns
  BY Zenon DEF Route
<1>2. cands \subseteq Backends /\ IsFiniteSet(cands) /\ cands \subseteq Nat
  BY Candidates, Zenon
<1>3. n \in Nat \ {0} /\ cursor \in Nat
  BY <1>1, <1>2, FS_CardinalityType, FS_EmptySet, Zenon DEF RouterInv
<1>4. Lists(l, cands)
  BY <1>2, ByIndexLists
<1>5. c \in 0..(n - 1)
  BY <1>3, Division, Zenon
<1>6. Window(TurnsOf(m), n, c)
  BY <1>1 DEF SpreadInv, Spreads
<1>7. turns \in [Models -> [Backends -> Nat]]
  BY DEF SpreadInv
<1>8. TurnsOf(m)' = [p \in 0..(n - 1) |-> turns'[m][l[p + 1]]]
  BY <1>1 DEF TurnsOf
<1>9. TurnsOf(m) = [p \in 0..(n - 1) |-> turns[m][l[p + 1]]]
  BY DEF TurnsOf
<1>10. CASE policy # "round_robin"
  <2>1. turns' = turns /\ cursor' = cursor
    BY <1>1, <1>10 DEF NextCursor
  <2> QED
    BY <1>1, <1>6, <1>8, <1>9, <2>1, Zenon
<1>11. CASE policy = "round_robin"
  <2>1. RouteOrder(cands) = RoundRobinOrder(cands, cursor)
    BY <1>11 DEF RouteOrder
  <2>2. o[1] = l[c + 1]
    BY <1>1, <1>2, <1>3, <2>1, RoundRobinOrders, Zenon
  <2>3. cursor' % n = IF c = n - 1 THEN 0 ELSE c + 1
    BY <1>1, <1>3, <1>11, NextRemainder DEF NextCursor
  <2>4. turns'[m] = [turns[m] EXCEPT ![l[c + 1]] = @ + 1]
    BY <1>1, <1>11, <2>2 DEF TakesTurn
  <2> HIDE DEF n, l, c, o, cands
  <2>5. /\ l \in [1..n -> cands]
        /\ \A i, j \in 1..n : l[i] = l[j] => i = j
    BY <1>4 DEF Lists, n
  <2>6. \A p \in 0..(n - 1) : /\ p + 1 \in 1..n /\ l[p + 1] \in Backends
                              /\ l[p + 1] = l[c + 1] => p = c
    <3> TAKE p \in 0..(n - 1)
    <3>1. p + 1 \in 1..n /\ c + 1 \in 1..n
      BY <1>3, <1>5
    <3>2. l[p + 1] = l[c + 1] => p + 1 = c + 1
      BY <2>5, <3>1
    <3>3. l[p + 1] \in Backends
      BY <1>2, <2>5, <3>1, ZenonT(60)
    <3>4. p + 1 = c + 1 => p = c
      BY <1>5
    <3> QED
      BY <3>1, <3>2, <3>3, <3>4
  <2>7. turns'[m][l[c + 1]] = turns[m][l[c + 1]] + 1
    BY <1>5, <1>7, <2>4, <2>6
  <2>8. \A p \in 0..(n - 1) : p # c => turns'[m][l[p + 1]] = turns[m][l[p + 1]]
    BY <1>7, <2>4, <2>6
  <2>9. /\ TurnsOf(m)'[c] = TurnsOf(m)[c] + 1
        /\ \A p \in 0..(n - 1) : p # c => TurnsOf(m)'[p] = TurnsOf(m)[p]
    BY <1>5, <1>8, <1>9, <2>7, <2>8
  <2>10. Window(TurnsOf(m)', n, cursor' % n)
    BY <1>3, <1>5, <1>6, <2>3, <2>9, WindowStep
  <2> QED
    BY <1>1, <2>10 DEF n, cands
<1> QED
  BY <1>10, <1>11

\* The state of round robin through all steps.
LEMMA NextSpreadInv == RouterInv /\ SpreadInv /\ [Next]_vars => SpreadInv'
<1> SUFFICES ASSUME RouterInv, SpreadInv, [Next]_vars PROVE SpreadInv'
  OBVIOUS
<1>1. CASE UNCHANGED <<eligible, cursor, turns>>
  BY <1>1 DEF SpreadInv, Spreads, TurnsOf
<1>2. ASSUME NEW m \in Models, Route(m) PROVE SpreadInv'
  <2>1. \/ turns' = turns
        \/ \E b : turns' = TakesTurn(m, b)
    BY <1>2, Zenon DEF Route
  <2>2. turns' \in [Models -> [Backends -> Nat]]
    <3>1. \A b : TakesTurn(m, b) \in [Models -> [Backends -> Nat]]
      <4> TAKE b
      <4> DEFINE more == [turns[m] EXCEPT ![b] = @ + 1]
      <4>1. turns[m] \in [Backends -> Nat]
        BY DEF SpreadInv
      <4>2. more \in [Backends -> Nat]
        <5>1. CASE b \in Backends
          BY <4>1, <5>1
        <5>2. CASE b \notin Backends
          BY <4>1, <5>2, Zenon
        <5> QED
          BY <5>1, <5>2
      <4>3. \A k \in Models : NoTurns[k] \in [Backends -> Nat]
        BY DEF NoTurns
      <4>4. TakesTurn(m, b) = [k \in Models |-> IF k = m THEN more ELSE NoTurns[k]]
        BY DEF TakesTurn
      <4> HIDE DEF more
      <4> QED
        BY <4>2, <4>3, <4>4
    <3> QED
      BY <2>1, <3>1 DEF SpreadInv
  <2>3. ASSUME NEW k \in Models PROVE Spreads(k)'
    <3>1. CASE k = m
      BY <1>2, <3>1, RouteSpreads
    <3>2. CASE k # m /\ policy # "round_robin"
      <4>1. UNCHANGED <<eligible, cursor, turns>>
        BY <1>2, <3>2, Zenon DEF Route, NextCursor
      <4> QED
        BY <4>1 DEF SpreadInv, Spreads, TurnsOf
    <3>3. CASE k # m /\ policy = "round_robin"
      <4>1. \E b : turns' = TakesTurn(m, b)
        BY <1>2, <3>3, Zenon DEF Route
      <4>2. turns'[k] = NoTurns[k]
        BY <3>3, <4>1 DEF TakesTurn
      <4>3. (turns[k] = NoTurns[k])'
        BY <4>2 DEF NoTurns
      <4> QED
        BY <4>3, NextRouterInv, NextNoTurnsSpread DEF NoTurnsSpreads
    <3> QED
      BY <3>1, <3>2, <3>3
  <2> QED
    BY <2>2, <2>3 DEF SpreadInv
<1>3. ASSUME NEW b \in Backends, Churn(b) PROVE SpreadInv'
  <2>1. (turns = NoTurns)'
    BY <1>3 DEF Churn, NoTurns
  <2>2. (turns \in [Models -> [Backends -> Nat]])'
    BY <2>1 DEF NoTurns
  <2> QED
    BY <2>1, <2>2, NextRouterInv, NextNoTurnsSpread DEF SpreadInv, NoTurnsSpreads
<1> QED
  BY <1>1, <1>2, <1>3 DEF Next, Say, Finish, vars

\* In every row of requests for one model nobody is ever two turns ahead of
\* another candidate: RoundRobinPolicy spreads them evenly, whatever the number of
\* backends and of models, wherever the rows for other models have left the
\* cursor, and whenever backends come and go.
THEOREM RouterSpreadsEvenly == Spec => []SpreadsEvenly
<1>1. Init => SpreadInv
  <2> SUFFICES ASSUME Init PROVE SpreadInv
    OBVIOUS
  <2>1. turns = NoTurns
    BY DEF Init
  <2>2. turns \in [Models -> [Backends -> Nat]]
    BY <2>1 DEF NoTurns
  <2> QED
    BY <2>1, <2>2, InitRouterInv, NoTurnsSpreadAll DEF SpreadInv, NoTurnsSpreads
<1>2. RouterInv /\ SpreadInv => SpreadsEvenly
  <2> SUFFICES ASSUME RouterInv, SpreadInv,
                      NEW m \in Models, NEW a \in m \cap eligible, NEW b \in m \cap eligible
               PROVE  turns[m][a] <= turns[m][b] + 1
    BY DEF SpreadsEvenly
  <2> DEFINE cands == m \cap eligible
             n == Cardinality(cands)
             l == ByIndex(cands)
  <2>1. IsFiniteSet(cands) /\ cands \subseteq Nat
    BY Candidates
  <2>2. n \in Nat
    BY <2>1, FS_CardinalityType
  <2>3. Window(TurnsOf(m), n, cursor % n)
    BY DEF SpreadInv, Spreads
  <2>4. TurnsOf(m) = [p \in 0..(n - 1) |-> turns[m][l[p + 1]]]
    BY DEF TurnsOf
  <2>5. Lists(l, cands)
    BY <2>1, ByIndexLists
  <2> HIDE DEF n, l
  <2>6. \A x \in cands : \E i \in 1..n : l[i] = x
    BY <2>5, Zenon DEF Lists, n
  <2>7. PICK lo \in Nat : \A p \in 0..(n - 1) : TurnsOf(m)[p] \in {lo, lo + 1}
    BY <2>3 DEF Window
  <2>8. \A x \in cands : turns[m][x] \in {lo, lo + 1}
    <3> TAKE x \in cands
    <3>1. PICK i \in 1..n : l[i] = x
      BY <2>6
    <3>2. i - 1 \in 0..(n - 1) /\ (i - 1) + 1 = i
      BY <2>2
    <3>3. TurnsOf(m)[i - 1] = turns[m][x]
      BY <2>4, <3>1, <3>2
    <3> QED
      BY <2>7, <3>2, <3>3
  <2> QED
    BY <2>8
<1> QED
  BY <1>1, <1>2, NextSpreadInv, RouterInvariance, PTL DEF Spec

-----------------------------------------------------------------------------
(***************************************************************************)
(* How a conversation keeps its key                                        *)
(***************************************************************************)

\* What one message adds to the key.
Added(out, msg) ==
    append_capped(append_capped(append_capped(out, msg.role), <<":">>), ContentText(msg))

\* g holds the keys after 0 to k of the messages.
Keys(g, start, ms, k) ==
    g = [i \in 0..k |-> IF i = 0 THEN start ELSE Added(g[i - 1], ms[i])]

\* There are such keys for every number of messages.
LEMMA KeysExist ==
    ASSUME NEW start, NEW ms, NEW n \in Nat
    PROVE  \E g : Keys(g, start, ms, n)
<1> DEFINE Bad == {k \in Nat : ~ \E g : Keys(g, start, ms, k)}
<1>1. 0 \notin Bad
  <2> DEFINE g == [i \in 0..0 |-> start]
  <2>1. Keys(g, start, ms, 0)
    BY DEF Keys
  <2> QED
    BY <2>1
<1>2. ASSUME Bad # {} PROVE FALSE
  <2>1. PICK k \in Bad : \A j \in Bad : k <= j
    BY <1>2, LeastOf, Zenon
  <2>2. k \in Nat /\ k # 0 /\ k - 1 \in Nat /\ k - 1 \notin Bad
    BY <1>1, <2>1
  <2>3. PICK g : Keys(g, start, ms, k - 1)
    BY <2>2
  <2> DEFINE h == [i \in 0..k |-> IF i = k THEN Added(g[k - 1], ms[k]) ELSE g[i]]
             Entry(i) == IF i = 0 THEN start ELSE Added(h[i - 1], ms[i])
  <2>4. \A i \in 0..k : h[i] = Entry(i)
    <3> TAKE i \in 0..k
    <3>1. CASE i = k
      <4>1. k - 1 \in 0..k /\ k - 1 # k
        BY <2>2
      <4>2. h[k - 1] = g[k - 1]
        BY <4>1
      <4> QED
        BY <2>2, <3>1, <4>2
    <3>2. CASE i # k /\ i = 0
      <4>1. 0 \in 0..(k - 1)
        BY <2>2
      <4>2. g[0] = start
        BY <2>3, <4>1 DEF Keys
      <4> QED
        BY <3>2, <4>2
    <3>3. CASE i # k /\ i # 0
      <4>1. i \in 0..(k - 1) /\ i - 1 \in 0..k /\ i - 1 # k
        BY <2>2, <3>3
      <4>2. g[i] = Added(g[i - 1], ms[i])
        BY <2>3, <3>3, <4>1 DEF Keys
      <4>3. h[i - 1] = g[i - 1]
        BY <4>1
      <4> QED
        BY <3>3, <4>2, <4>3
    <3> QED
      BY <3>1, <3>2, <3>3
  <2>5. h = [i \in 0..k |-> h[i]]
    OBVIOUS
  <2> HIDE DEF h
  <2>6. Keys(h, start, ms, k)
    BY <2>4, <2>5, Zenon DEF Keys
  <2> QED
    BY <2>1, <2>6
<1> QED
  BY <1>2

\* ns begins with the n messages of ms.
Extends(ns, ms, n) == \A i \in 1..n : ns[i] = ms[i]

\* The keys are determined by the messages.
LEMMA KeysAgree ==
    ASSUME NEW start, NEW ms, NEW ns, NEW n \in Nat, NEW k \in Nat, n <= k,
           Extends(ns, ms, n),
           NEW g, NEW h, Keys(g, start, ms, n), Keys(h, start, ns, k)
    PROVE  g[n] = h[n]
<1> DEFINE Bad == {i \in 0..n : g[i] # h[i]}
<1>1. ASSUME Bad # {} PROVE FALSE
  <2> Bad \in SUBSET Nat
    OBVIOUS
  <2>1. PICK i \in Bad : \A l \in Bad : i <= l
    BY <1>1, LeastOf, Zenon
  <2>2. i \in 0..k /\ i \in 0..n
    BY <2>1
  <2>3. g[i] = IF i = 0 THEN start ELSE Added(g[i - 1], ms[i])
    BY <2>2, Zenon DEF Keys
  <2>4. h[i] = IF i = 0 THEN start ELSE Added(h[i - 1], ns[i])
    BY <2>2, Zenon DEF Keys
  <2>5. CASE i = 0
    BY <2>1, <2>3, <2>4, <2>5
  <2>6. CASE i # 0
    <3>1. i \in 1..n /\ i - 1 \in 0..n /\ ~ (i <= i - 1)
      BY <2>2, <2>6
    <3>2. g[i - 1] = h[i - 1]
      BY <2>1, <3>1
    <3>3. ms[i] = ns[i]
      BY <3>1 DEF Extends
    <3> QED
      BY <2>1, <2>3, <2>4, <2>6, <3>2, <3>3
  <2> QED
    BY <2>5, <2>6
<1> QED
  BY <1>1

\* canonical_affinity_string() takes the messages one after the other.
LEMMA KeyOfOneMore ==
    ASSUME NEW model, NEW S, NEW ms \in Seq(S), NEW msg \in S
    PROVE  canonical_affinity_string(model, Append(ms, msg))
              = Added(canonical_affinity_string(model, ms), msg)
<1> DEFINE start == append_capped(append_capped(<<>>, model), <<"US">>)
           ns == Append(ms, msg)
           n  == Len(ms)
           Out(xs) == CHOOSE g : Keys(g, start, xs, Len(xs))
<1>1. \A xs : canonical_affinity_string(model, xs) = Out(xs)[Len(xs)]
  BY DEF canonical_affinity_string, Keys, Added
<1>2. /\ n \in Nat /\ Len(ns) = n + 1
      /\ ns[n + 1] = msg /\ \A i \in 1..n : ms[i] = ns[i]
  OBVIOUS
<1>3. Keys(Out(ms), start, ms, n)
  BY <1>2, KeysExist, Zenon
<1>4. Keys(Out(ns), start, ns, n + 1)
  BY <1>2, KeysExist
<1> HIDE DEF start, Out, ns, n
<1>5. n <= n + 1 /\ n + 1 \in Nat /\ Extends(ns, ms, n)
  BY <1>2 DEF Extends
<1>6. Out(ms)[n] = Out(ns)[n]
  BY <1>2, <1>3, <1>4, <1>5, KeysAgree
<1>7. Out(ns)[n + 1] = Added(Out(ns)[n], msg)
  BY <1>2, <1>4 DEF Keys
<1> QED
  BY <1>1, <1>2, <1>6, <1>7, Zenon DEF n, ns

\* A key that fills the prefix takes no more text.
LEMMA FullKeyStays ==
    ASSUME NEW out, Len(out) = prefix_bytes, NEW msg
    PROVE  Added(out, msg) = out
<1>1. \A s : append_capped(out, s) = out
  BY RoutingAssumption DEF append_capped
<1> QED
  BY <1>1 DEF Added

\* key is the key of the conversation so far.
KeyInv == msgs \in Seq(Messages) /\ key = canonical_affinity_string(ModelName, msgs)

\* It is so in every state of every behaviour.
LEMMA KeyInvariance == Spec => []KeyInv
<1>1. Init => KeyInv
  <2>1. ASSUME NEW f \in [1..1 -> Messages] PROVE f \in Seq(Messages)
    <3>1. f = <<f[1]>> /\ f[1] \in Messages
      OBVIOUS
    <3>2. \A x \in Messages : <<x>> \in Seq(Messages)
      OBVIOUS
    <3> QED
      BY <3>1, <3>2, Zenon
  <2> QED
    BY <2>1, Zenon DEF Init, KeyInv
<1>2. KeyInv /\ [Next]_vars => KeyInv'
  <2> SUFFICES ASSUME KeyInv, [Next]_vars PROVE KeyInv'
    OBVIOUS
  <2>1. ASSUME NEW msg \in Messages, Say(msg) PROVE KeyInv'
    BY <2>1 DEF Say, KeyInv
  <2>2. CASE UNCHANGED <<msgs, key>>
    BY <2>2 DEF KeyInv
  <2> QED
    BY <2>1, <2>2, Zenon DEF Next, Route, Finish, Churn, vars
<1> QED
  BY <1>1, <1>2, PTL DEF Spec

\* A conversation that fills the prefix keeps its key and its first backend
\* however long it gets.
THEOREM RouterKeepsConversations == Spec => ConversationSticks
<1>1. KeyInv /\ [Next]_vars =>
        [msgs' # msgs /\ policy = "prefix_affinity" /\ Len(key) = prefix_bytes =>
            /\ key' = key
            /\ \A m \in Models : m \cap eligible # {} => HeadOf(m)' = HeadOf(m)]_vars
  <2> SUFFICES ASSUME KeyInv, Next, msgs' # msgs, Len(key) = prefix_bytes
               PROVE  /\ key' = key
                      /\ \A m \in Models : m \cap eligible # {} => HeadOf(m)' = HeadOf(m)
    BY Zenon
  <2>1. PICK msg \in Messages : Say(msg)
    BY Zenon DEF Next, Route, Finish, Churn
  <2>2. key' = key
    BY <2>1, KeyOfOneMore, FullKeyStays DEF Say, KeyInv
  <2>3. UNCHANGED <<policy, eligible, active, score, cursor>>
    BY <2>1, <2>2 DEF Say
  <2> QED
    BY <2>2, <2>3 DEF HeadOf, RouteOrder
<1> QED
  BY <1>1, KeyInvariance, PTL DEF Spec, ConversationSticks

-----------------------------------------------------------------------------
(***************************************************************************)
(* The circuit breaker                                                     *)
(***************************************************************************)

\* The methods of the breaker keep its fields in their types.
LEMMA BreakerOpsType ==
    ASSUME NEW b \in Breakers, NEW p
    PROVE  /\ WindowPassed(b) \in Breakers
           /\ AfterAllow(b) \in Breakers
           /\ Reopened(b) \in Breakers
           /\ OnSuccess(b, p) \in Breakers
           /\ CountFailure(b) \in Breakers
<1> USE DEF Breakers, BreakerStates
<1>1. WindowPassed(b) \in Breakers
  BY DEF WindowPassed
<1>2. AfterAllow(b) \in Breakers
  BY DEF AfterAllow
<1>3. \A a \in Breakers : Reopened(a) \in Breakers
  BY DEF Reopened
<1>4. OnSuccess(b, p) \in Breakers
  BY DEF OnSuccess
<1>5. CountFailure(b) \in Breakers
  <2> DEFINE counted == [b EXCEPT !.consecutive_failures = @ + 1]
  <2>1. counted \in Breakers
    OBVIOUS
  <2>2. CountFailure(b) \in {Reopened(counted), counted}
    BY DEF CountFailure
  <2> QED
    BY <2>1, <2>2, <1>3
<1> QED
  BY <1>1, <1>2, <1>3, <1>4, <1>5

\* Type correctness and the meaning of the failure counter.  The two conjuncts
\* need each other: the counter is a number only because of its type, and
\* in CLOSED it equals the streak only because every way into CLOSED is a
\* success.
BreakerInv == BreakerTypeOK /\ ClosedCountsTheStreak

\* A fresh breaker has seen no failure.
LEMMA InitBreakerInv == BreakerInit => BreakerInv
BY BreakerAssumption
   DEF BreakerInit, BreakerInv, BreakerTypeOK, ClosedCountsTheStreak, FreshBreaker, Breakers,
       BreakerStates

\* Every call of the breaker keeps the invariant.
LEMMA NextBreakerInv == BreakerInv /\ [BreakerNext]_breakerVars => BreakerInv'
<1> SUFFICES ASSUME BreakerInv, [BreakerNext]_breakerVars PROVE BreakerInv'
  OBVIOUS
<1>0. breaker \in Breakers /\ failure_threshold \in Nat \ {0}
  BY BreakerAssumption DEF BreakerInv, BreakerTypeOK
<1>1. CASE UNCHANGED breakerVars
  BY <1>1 DEF breakerVars, BreakerInv, BreakerTypeOK, ClosedCountsTheStreak
<1>2. CASE WindowElapses
  <2>1. BreakerTypeOK'
    BY <1>2, <1>0, BreakerOpsType DEF WindowElapses, BreakerInv, BreakerTypeOK
  <2>2. ClosedCountsTheStreak'
    BY <1>2, <1>0
       DEF WindowElapses, WindowPassed, ClosedCountsTheStreak, Breakers
  <2> QED
    BY <2>1, <2>2 DEF BreakerInv
<1>3. ASSUME NEW c \in Callers, Allow(c) PROVE BreakerInv'
  <2>1. BreakerTypeOK'
    BY <1>3, <1>0, BreakerOpsType DEF Allow, BreakerInv, BreakerTypeOK
  <2>2. ClosedCountsTheStreak'
    BY <1>3, <1>0
       DEF Allow, AfterAllow, IsProbe, BreakerInv, ClosedCountsTheStreak, Breakers
  <2> QED
    BY <2>1, <2>2 DEF BreakerInv
<1>4. ASSUME NEW c \in Callers, Deny(c) PROVE BreakerInv'
  BY <1>1, <1>4 DEF Deny
<1>5. ASSUME NEW c \in Callers, SkipAtCapacity(c) PROVE BreakerInv'
  <2>1. breaker' \in Breakers
    BY <1>5, <1>0, BreakerOpsType DEF SkipAtCapacity, AbortProbe
  <2>2. BreakerTypeOK'
    BY <1>5, <2>1 DEF SkipAtCapacity, BreakerInv, BreakerTypeOK
  <2>3. ClosedCountsTheStreak'
    BY <1>5, <1>0
       DEF SkipAtCapacity, AbortProbe, Reopened, AfterAllow, IsProbe, BreakerInv,
           ClosedCountsTheStreak, Breakers
  <2> QED
    BY <2>2, <2>3 DEF BreakerInv
<1>6. ASSUME NEW c \in Callers, Succeed(c) PROVE BreakerInv'
  <2>0. breaker' \in Breakers
    BY <1>6, <1>0, BreakerOpsType DEF Succeed, OnSuccess
  <2>1. BreakerTypeOK'
    BY <1>6, <1>0, <2>0 DEF Succeed, BreakerInv, BreakerTypeOK
  <2>2. ClosedCountsTheStreak'
    BY <1>6, <1>0
       DEF Succeed, OnSuccess, ClosedCountsTheStreak, Breakers
  <2> QED
    BY <2>1, <2>2 DEF BreakerInv
<1>7. ASSUME NEW c \in Callers, Fail(c) PROVE BreakerInv'
  <2>0. breaker' \in Breakers
    BY <1>7, <1>0, BreakerOpsType DEF Fail, OnFailure
  <2>1. BreakerTypeOK'
    BY <1>7, <1>0, <2>0 DEF Fail, BreakerInv, BreakerTypeOK
  <2>2. ClosedCountsTheStreak'
    <3>1. CASE calls[c] = "probe" \/ breaker.state = "Open"
      BY <1>7, <1>0, <3>1
         DEF Fail, OnFailure, Reopened, ClosedCountsTheStreak, Breakers
    <3>2. CASE calls[c] # "probe" /\ breaker.state # "Open"
      <4>1. breaker' = CountFailure(breaker)
        BY <1>7, <3>2 DEF Fail, OnFailure
      <4>2. CASE breaker'.state = "Closed"
        <5>1. /\ breaker.state = "Closed"
              /\ breaker'.consecutive_failures = breaker.consecutive_failures + 1
              /\ breaker'.consecutive_failures < failure_threshold
          BY <4>1, <4>2, <1>0 DEF CountFailure, Reopened, Breakers
        <5> QED
          BY <5>1, <1>7, <1>0
             DEF Fail, BreakerInv, BreakerTypeOK, ClosedCountsTheStreak, Breakers
      <4> QED
        BY <4>2 DEF ClosedCountsTheStreak
    <3> QED
      BY <3>1, <3>2
  <2> QED
    BY <2>1, <2>2 DEF BreakerInv
<1>8. ASSUME NEW c \in Callers, Abandon(c) PROVE BreakerInv'
  BY <1>8 DEF Abandon, BreakerInv, BreakerTypeOK, ClosedCountsTheStreak
<1> QED
  BY <1>1, <1>2, <1>3, <1>4, <1>5, <1>6, <1>7, <1>8 DEF BreakerNext

\* The invariant holds in every state of every behaviour.
LEMMA BreakerInvariance == BreakerSpec => []BreakerInv
BY InitBreakerInv, NextBreakerInv, PTL DEF BreakerSpec

\* The breaker's fields and the callers' states keep their types.
THEOREM BreakerTypeCorrect == BreakerSpec => []BreakerTypeOK
<1>1. BreakerInv => BreakerTypeOK
  BY DEF BreakerInv
<1> QED
  BY <1>1, BreakerInvariance, PTL

\* For every threshold and any number of late outcomes: in CLOSED the counter
\* is the failure streak, and the streak is below the threshold.
THEOREM BreakerCountsTheStreak == BreakerSpec => []ClosedCountsTheStreak
<1>1. BreakerInv => ClosedCountsTheStreak
  BY DEF BreakerInv
<1> QED
  BY <1>1, BreakerInvariance, PTL

-----------------------------------------------------------------------------
\* HALF_OPEN always has the probe that will end it, for every number of
\* requests and every threshold: the only way to lose a probe is a streaming
\* client that goes away.
THEOREM BreakerKeepsItsProbe == BreakerSpec => []HalfOpenHasProbe
<1>1. BreakerInit => HalfOpenHasProbe
  BY DEF BreakerInit, HalfOpenHasProbe, FreshBreaker
<1>2. BreakerInv /\ HalfOpenHasProbe /\ [BreakerNext]_breakerVars => HalfOpenHasProbe'
  <2> SUFFICES ASSUME BreakerInv, HalfOpenHasProbe, [BreakerNext]_breakerVars,
                      breaker'.state = "HalfOpen"
               PROVE  lost' # {} \/ \E p \in Callers : calls'[p] = "probe"
    BY DEF HalfOpenHasProbe, ProbesInFlight
  <2>0. /\ breaker \in Breakers
        /\ calls \in [Callers -> {"none", "normal", "probe"}]
    BY DEF BreakerInv, BreakerTypeOK
  <2>p. breaker.state = "HalfOpen" => lost # {} \/ \E p \in Callers : calls[p] = "probe"
    BY DEF HalfOpenHasProbe, ProbesInFlight
  <2>1. CASE UNCHANGED breakerVars
    BY <2>1, <2>p DEF breakerVars
  <2>2. CASE WindowElapses
    BY <2>2, <2>0 DEF WindowElapses, WindowPassed, Breakers
  <2>3. ASSUME NEW c \in Callers, Allow(c)
        PROVE  lost' # {} \/ \E p \in Callers : calls'[p] = "probe"
    BY <2>3, <2>0 DEF Allow, Allows, AfterAllow, IsProbe, Breakers
  <2>4. ASSUME NEW c \in Callers, Deny(c)
        PROVE  lost' # {} \/ \E p \in Callers : calls'[p] = "probe"
    BY <2>1, <2>4 DEF Deny
  <2>5. ASSUME NEW c \in Callers, SkipAtCapacity(c)
        PROVE  FALSE
    BY <2>5, <2>0
       DEF SkipAtCapacity, Allows, AbortProbe, Reopened, AfterAllow, IsProbe,
           Breakers
  <2>6. ASSUME NEW c \in Callers, Succeed(c)
        PROVE  FALSE
    BY <2>6, <2>0 DEF Succeed, OnSuccess, Breakers
  <2>7. ASSUME NEW c \in Callers, Fail(c)
        PROVE  lost' # {} \/ \E p \in Callers : calls'[p] = "probe"
    <3>1. calls[c] # "probe" /\ breaker.state = "HalfOpen"
      BY <2>7, <2>0
         DEF Fail, OnFailure, CountFailure, Reopened, Breakers
    <3>2. CASE lost # {}
      BY <3>2, <2>7 DEF Fail
    <3>3. CASE \E p \in Callers : calls[p] = "probe"
      BY <3>1, <3>3, <2>7, <2>0 DEF Fail
    <3> QED
      BY <3>1, <3>2, <3>3, <2>p
  <2>8. ASSUME NEW c \in Callers, Abandon(c)
        PROVE  lost' # {} \/ \E p \in Callers : calls'[p] = "probe"
    <3>1. breaker.state = "HalfOpen"
      BY <2>8 DEF Abandon
    <3>2. CASE calls[c] = "probe" \/ lost # {}
      BY <3>1, <3>2, <2>8 DEF Abandon
    <3>3. CASE calls[c] # "probe" /\ \E p \in Callers : calls[p] = "probe"
      BY <3>3, <2>8, <2>0 DEF Abandon
    <3> QED
      BY <3>1, <3>2, <3>3, <2>p
  <2> QED
    BY <2>1, <2>2, <2>3, <2>4, <2>5, <2>6, <2>7, <2>8 DEF BreakerNext
<1> QED
  BY <1>1, <1>2, BreakerInvariance, PTL DEF BreakerSpec

\* A window that has passed and was not used yet is good for one call.
TrialInv ==
    /\ OneTrialPerWindow
    /\ breaker.state = "Open" /\ breaker.elapsed => due >= 1

\* For every threshold, any number of calls and any late outcomes: a breaker
\* that is not closed sends the backend one call per window that passes.  The
\* only state that lets a call through without being CLOSED is one that a window
\* led to and no call has left yet.
THEOREM BreakerTriesOncePerWindow == BreakerSpec => []OneTrialPerWindow
<1>1. BreakerInit => TrialInv
  BY DEF BreakerInit, TrialInv, OneTrialPerWindow, FreshBreaker
<1>2. BreakerInv /\ TrialInv /\ [BreakerNext]_breakerVars => TrialInv'
  <2> SUFFICES ASSUME BreakerInv, TrialInv, [BreakerNext]_breakerVars PROVE TrialInv'
    OBVIOUS
  <2>0. breaker \in Breakers /\ due \in Int
    BY DEF BreakerInv, BreakerTypeOK
  <2>i. /\ due >= 0
        /\ breaker.state = "Open" /\ breaker.elapsed => due >= 1
    BY DEF TrialInv, OneTrialPerWindow
  <2> SUFFICES /\ due' >= 0
               /\ breaker'.state = "Open" /\ breaker'.elapsed => due' >= 1
    BY DEF TrialInv, OneTrialPerWindow
  <2>1. CASE UNCHANGED breakerVars
    BY <2>1, <2>i DEF breakerVars
  <2>2. CASE WindowElapses
    BY <2>2 DEF WindowElapses
  <2>3. ASSUME NEW c \in Callers, Allow(c)
        PROVE  due' >= 0 /\ (breaker'.state = "Open" /\ breaker'.elapsed => due' >= 1)
    BY <2>3, <2>0, <2>i DEF Allow, Allows, AfterAllow, IsProbe, Breakers
  <2>4. ASSUME NEW c \in Callers, Deny(c)
        PROVE  due' >= 0 /\ (breaker'.state = "Open" /\ breaker'.elapsed => due' >= 1)
    BY <2>1, <2>4 DEF Deny
  <2>5. ASSUME NEW c \in Callers, SkipAtCapacity(c)
        PROVE  due' >= 0 /\ (breaker'.state = "Open" /\ breaker'.elapsed => due' >= 1)
    BY <2>5, <2>0, <2>i
       DEF SkipAtCapacity, Allows, AbortProbe, Reopened, AfterAllow, IsProbe, Breakers
  <2>6. ASSUME NEW c \in Callers, Succeed(c)
        PROVE  due' >= 0 /\ (breaker'.state = "Open" /\ breaker'.elapsed => due' >= 1)
    BY <2>6, <2>0 DEF Succeed, OnSuccess, Breakers
  <2>7. ASSUME NEW c \in Callers, Fail(c)
        PROVE  due' >= 0 /\ (breaker'.state = "Open" /\ breaker'.elapsed => due' >= 1)
    BY <2>7, <2>0, <2>i DEF Fail, OnFailure, CountFailure, Reopened, Breakers
  <2>8. ASSUME NEW c \in Callers, Abandon(c)
        PROVE  due' >= 0 /\ (breaker'.state = "Open" /\ breaker'.elapsed => due' >= 1)
    BY <2>8, <2>i DEF Abandon
  <2> QED
    BY <2>1, <2>2, <2>3, <2>4, <2>5, <2>6, <2>7, <2>8 DEF BreakerNext
<1>3. TrialInv => OneTrialPerWindow
  BY DEF TrialInv
<1> QED
  BY <1>1, <1>2, <1>3, BreakerInvariance, PTL DEF BreakerSpec
=============================================================================
