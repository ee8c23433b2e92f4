--------------------------- MODULE SseParser_proofs ---------------------------
(***************************************************************************)
(* Theorems about SseParser: for any text, and any way of cutting it into  *)
(* reads.                                                                  *)
(***************************************************************************)
EXTENDS SseParser, WellFoundedInduction, TLAPS

-----------------------------------------------------------------------------
(***************************************************************************)
(* Recursion                                                               *)
(***************************************************************************)

\* Of natural numbers there is a least one.
LEMMA LeastOf ==
    ASSUME NEW S \in SUBSET Nat, S # {}
    PROVE  \E x \in S : \A y \in S : x <= y
<1> DEFINE Less == {p \in Nat \X Nat : p[1] < p[2]}
<1>1. IsWellFoundedOn(Less, Nat)
  BY NatLessThanWellFounded DEF OpToRel
<1>2. PICK x \in S : \A y \in S : ~ (<<y, x>> \in Less)
  BY <1>1, WFMin, Zenon
<1>3. \A y, z \in Nat : ~ (<<y, z>> \in Less) => z <= y
  OBVIOUS
<1>4. QED
  BY <1>2, <1>3, Zenon

\* Induction on the numbers up to n.
LEMMA UpTo ==
    ASSUME NEW n \in Nat, NEW P, 0 \in P, \A i \in 1..n : i - 1 \in P => i \in P
    PROVE  \A i \in 0..n : i \in P
<1> SUFFICES ASSUME NEW j \in 0..n, j \notin P PROVE FALSE
  OBVIOUS
<1> DEFINE Q == {i \in 0..n : i \notin P}
<1>1. Q \in SUBSET Nat /\ j \in Q
  OBVIOUS
<1>2. PICK i \in Q : \A k \in Q : i <= k
  BY <1>1, LeastOf, Zenon
<1>3. i \in 1..n /\ i - 1 \in 0..n /\ i - 1 \notin Q
  BY <1>2
<1> QED
  BY <1>2, <1>3

\* A function given by what it is at 0 and how it goes on.
Follows(g, x0, F, n) == g = [i \in 0..n |-> IF i = 0 THEN x0 ELSE F[i][g[i - 1]]]

\* There is one.
LEMMA Recursion ==
    ASSUME NEW X, NEW x0 \in X, NEW n \in Nat, NEW F \in [1..n -> [X -> X]]
    PROVE  \E g \in [0..n -> X] : Follows(g, x0, F, n)
<1> DEFINE Solves(g, m) == /\ g \in [0..m -> X]
                           /\ g[0] = x0
                           /\ \A i \in 1..m : g[i] = F[i][g[i - 1]]
           P == {m \in 0..n : \E g : Solves(g, m)}
<1>1. 0 \in P
  <2>1. Solves([i \in 0..0 |-> x0], 0)
    OBVIOUS
  <2> HIDE DEF Solves
  <2>2. \E g : Solves(g, 0)
    BY <2>1, Zenon
  <2> QED
    BY <2>2
<1>2. ASSUME NEW m \in 1..n, m - 1 \in P PROVE m \in P
  <2>1. PICK g : Solves(g, m - 1)
    BY <1>2
  <2> DEFINE h == [i \in 0..m |-> IF i < m THEN g[i] ELSE F[m][g[m - 1]]]
  <2>2. F[m][g[m - 1]] \in X
    BY <2>1, SMTT(30)
  <2>3. h \in [0..m -> X] /\ h[0] = x0
    BY <2>1, <2>2, SMTT(30)
  <2>4. ASSUME NEW i \in 1..m PROVE h[i] = F[i][h[i - 1]]
    <3>1. CASE i < m
      BY <2>1, <3>1
    <3>2. CASE i = m
      BY <2>1, <3>2
    <3>3. i < m \/ i = m
      OBVIOUS
    <3> QED
      BY <3>1, <3>2, <3>3, Zenon
  <2>5. Solves(h, m)
    BY <2>3, <2>4, Zenon
  <2> HIDE DEF Solves
  <2>6. \E k : Solves(k, m)
    BY <2>5, Zenon
  <2> QED
    BY <2>6
<1>3. n \in P
  <2> HIDE DEF P
  <2>1. \A i \in 0..n : i \in P
    BY <1>1, <1>2, UpTo, Zenon
  <2> QED
    BY <2>1
<1>4. PICK g : Solves(g, n)
  BY <1>3
<1>5. g = [i \in 0..n |-> g[i]]
  BY <1>4
<1>6. g = [i \in 0..n |-> IF i = 0 THEN x0 ELSE F[i][g[i - 1]]]
  <2>1. \A i \in 0..n : g[i] = IF i = 0 THEN x0 ELSE F[i][g[i - 1]]
    BY <1>4
  <2> QED
    BY <1>5, <2>1, Zenon
<1>7. g \in [0..n -> X] /\ Follows(g, x0, F, n)
  BY <1>4, <1>6, Zenon DEF Follows
<1> QED
  BY <1>7, Zenon

-----------------------------------------------------------------------------
(***************************************************************************)
(* Positions in order                                                      *)
(***************************************************************************)

IsOrder(g, S, n) ==
    g = [i \in 0..n |-> IF i = 0 THEN <<>>
                        ELSE IF i \in S THEN Append(g[i - 1], i) ELSE g[i - 1]]

Orders(g, S, n) ==
    /\ g \in [0..n -> Seq(Nat)]
    /\ g[0] = <<>>
    /\ \A i \in 1..n : g[i] = IF i \in S THEN Append(g[i - 1], i) ELSE g[i - 1]

\* The recursion of InOrder() has a result, and this is what it does.
LEMMA OrderSteps ==
    ASSUME NEW S, NEW n \in Nat
    PROVE  \E g : Orders(g, S, n) /\ InOrder(S, n) = g[n]
<1> DEFINE Add(x, i) == IF i \in S THEN Append(x, i) ELSE x
           F == [i \in 1..n |-> [x \in Seq(Nat) |-> Add(x, i)]]
<1>1. \A i \in 1..n, x \in Seq(Nat) : Add(x, i) \in Seq(Nat)
  OBVIOUS
<1> HIDE DEF Add
<1>2. F \in [1..n -> [Seq(Nat) -> Seq(Nat)]] /\ <<>> \in Seq(Nat)
  BY <1>1
<1>3. \A i \in 1..n, x \in Seq(Nat) : F[i][x] = Add(x, i)
  OBVIOUS
<1> HIDE DEF F
<1>4. PICK g \in [0..n -> Seq(Nat)] : Follows(g, <<>>, F, n)
  BY <1>2, Recursion, Zenon
<1>5. ASSUME NEW i \in 0..n
      PROVE  (IF i = 0 THEN <<>> ELSE F[i][g[i - 1]]) = (IF i = 0 THEN <<>> ELSE Add(g[i - 1], i))
  <2>1. i # 0 => i \in 1..n /\ g[i - 1] \in Seq(Nat)
    OBVIOUS
  <2> QED
    BY <1>3, <2>1, Zenon DEF Orders
<1>6. g = [i \in 0..n |-> IF i = 0 THEN <<>> ELSE Add(g[i - 1], i)]
  BY <1>4, <1>5, Zenon DEF Follows
<1>7. IsOrder(g, S, n)
  BY <1>6, Zenon DEF IsOrder, Add
<1>8. PICK h : h = (CHOOSE f : IsOrder(f, S, n)) /\ IsOrder(h, S, n)
  BY <1>7, Zenon
<1>9. InOrder(S, n) = h[n]
  BY <1>8, Zenon DEF InOrder, IsOrder
<1>10. /\ h[0] = <<>>
       /\ \A i \in 1..n : h[i] = Add(h[i - 1], i)
  <2>1. h = [i \in 0..n |-> IF i = 0 THEN <<>> ELSE Add(h[i - 1], i)]
    BY <1>8, Zenon DEF IsOrder, Add
  <2>2. \A i \in 0..n : h[i] = IF i = 0 THEN <<>> ELSE Add(h[i - 1], i)
    BY <2>1, Zenon
  <2>3. 0 \in 0..n /\ \A i \in 1..n : i \in 0..n /\ i # 0
    OBVIOUS
  <2> QED
    BY <2>2, <2>3, Zenon
<1>11. \A i \in 0..n : h[i] \in Seq(Nat)
  <2> DEFINE P == {i \in 0..n : h[i] \in Seq(Nat)}
  <2>1. 0 \in P
    <3>1. 0 \in 0..n
      OBVIOUS
    <3> QED
      BY <3>1, <1>2, <1>10, Zenon
  <2>2. ASSUME NEW i \in 1..n, i - 1 \in P PROVE i \in P
    BY <1>1, <1>10, <2>2
  <2> HIDE DEF P
  <2>3. \A i \in 0..n : i \in P
    BY <2>1, <2>2, UpTo, Zenon
  <2> QED
    BY <2>3 DEF P
<1>12. h \in [0..n -> Seq(Nat)]
  <2>1. h = [i \in 0..n |-> h[i]]
    BY <1>8, Zenon DEF IsOrder
  <2> QED
    BY <2>1, <1>11, Zenon
<1>13. Orders(h, S, n)
  BY <1>10, <1>12, Zenon DEF Orders, Add
<1> QED
  BY <1>9, <1>13, Zenon

\* The order of S up to n + 1 is that up to n, and then n + 1 if it is in S.
LEMMA OrderStep ==
    ASSUME NEW n \in Nat, NEW S, NEW T, \A i \in 1..n : i \in S <=> i \in T
    PROVE  InOrder(T, n + 1)
              = IF n + 1 \in T THEN Append(InOrder(S, n), n + 1) ELSE InOrder(S, n)
<1>1. PICK g : Orders(g, S, n) /\ InOrder(S, n) = g[n]
  BY OrderSteps, Zenon
<1>2. n + 1 \in Nat
  OBVIOUS
<1>3. PICK h : Orders(h, T, n + 1) /\ InOrder(T, n + 1) = h[n + 1]
  BY <1>2, OrderSteps, Zenon
<1>4. \A i \in 0..n : g[i] = h[i]
  <2> DEFINE P == {i \in 0..n : g[i] = h[i]}
  <2>1. 0 \in P
    BY <1>1, <1>3 DEF Orders
  <2>2. ASSUME NEW i \in 1..n, i - 1 \in P PROVE i \in P
    <3>1. i \in 0..n /\ i \in 1..(n + 1)
      OBVIOUS
    <3> QED
      BY <1>1, <1>3, <2>2, <3>1, Zenon DEF Orders
  <2> HIDE DEF P
  <2>3. \A i \in 0..n : i \in P
    BY <2>1, <2>2, UpTo, Zenon
  <2> QED
    BY <2>3 DEF P
<1>5. h[n + 1] = IF n + 1 \in T THEN Append(h[n], n + 1) ELSE h[n]
  <2>1. n + 1 \in 1..(n + 1) /\ (n + 1) - 1 = n
    OBVIOUS
  <2> QED
    BY <1>3, <2>1, Zenon DEF Orders
<1> QED
  <2>1. n \in 0..n
    OBVIOUS
  <2> QED
    BY <1>1, <1>3, <1>4, <1>5, <2>1, Zenon

\* Nothing comes before 1.
LEMMA OrderZero ==
    ASSUME NEW S
    PROVE  InOrder(S, 0) = <<>>
<1>1. 0 \in Nat
  OBVIOUS
<1>2. PICK g : Orders(g, S, 0) /\ InOrder(S, 0) = g[0]
  BY <1>1, OrderSteps, Zenon
<1> QED
  BY <1>2, Zenon DEF Orders

\* An order is one of numbers of S up to n, from the least to the greatest.
LEMMA OrderBounds ==
    ASSUME NEW S, NEW n \in Nat
    PROVE  /\ InOrder(S, n) \in Seq(Nat)
           /\ \A k \in 1..Len(InOrder(S, n)) : InOrder(S, n)[k] \in 1..n
           /\ \A k \in 1..Len(InOrder(S, n)) : InOrder(S, n)[k] \in S
           /\ \A k \in 2..Len(InOrder(S, n)) : InOrder(S, n)[k - 1] < InOrder(S, n)[k]
<1>1. PICK g : Orders(g, S, n) /\ InOrder(S, n) = g[n]
  BY OrderSteps, Zenon
<1> DEFINE Ok(s, i) == /\ s \in Seq(Nat)
                       /\ \A k \in 1..Len(s) : s[k] \in 1..i
                       /\ \A k \in 1..Len(s) : s[k] \in S
                       /\ \A k \in 2..Len(s) : s[k - 1] < s[k]
           P == {i \in 0..n : Ok(g[i], i)}
<1>2. 0 \in P
  <2>1. 0 \in 0..n /\ Ok(<<>>, 0)
    OBVIOUS
  <2> QED
    BY <1>1, <2>1, Zenon DEF Orders
<1>3. ASSUME NEW i \in 1..n, i - 1 \in P PROVE i \in P
  <2>1. PICK s : s = g[i - 1] /\ Ok(s, i - 1)
    BY <1>3, Zenon
  <2>2. Ok(s, i)
    BY <2>1
  <2>3. ASSUME i \in S PROVE Ok(Append(s, i), i)
    <3>1. Append(s, i) \in Seq(Nat) /\ Len(Append(s, i)) = Len(s) + 1
      BY <2>1
    <3>2. \A k \in 1..Len(s) : Append(s, i)[k] = s[k]
      BY <2>1
    <3>3. Append(s, i)[Len(s) + 1] = i
      BY <2>1
    <3>4. Len(s) \in Nat
      BY <2>1
    <3>5. \A k \in 1..(Len(s) + 1) : k \in 1..Len(s) \/ k = Len(s) + 1
      BY <3>4
    <3>6. \A k \in 1..(Len(s) + 1) : Append(s, i)[k] \in 1..i
      BY <2>2, <3>2, <3>3, <3>5
    <3>7. \A k \in 1..(Len(s) + 1) : Append(s, i)[k] \in S
      BY <2>2, <2>3, <3>2, <3>3, <3>5, Zenon
    <3>8. ASSUME NEW k \in 2..(Len(s) + 1) PROVE Append(s, i)[k - 1] < Append(s, i)[k]
      <4>1. CASE k \in 2..Len(s)
        <5>1. k \in 1..Len(s) /\ k - 1 \in 1..Len(s)
          BY <4>1
        <5> QED
          BY <2>1, <3>2, <4>1, <5>1
      <4>2. CASE k = Len(s) + 1
        <5>1. k - 1 \in 1..Len(s) /\ s[k - 1] \in 1..(i - 1)
          BY <2>1, <3>4, <4>2
        <5> QED
          BY <3>2, <3>3, <4>2, <5>1
      <4> QED
        BY <3>4, <4>1, <4>2
    <3> QED
      BY <3>1, <3>6, <3>7, <3>8, Zenon
  <2>4. g[i] = IF i \in S THEN Append(s, i) ELSE s
    BY <1>1, <2>1, Zenon DEF Orders
  <2>5. Ok(g[i], i)
    BY <2>2, <2>3, <2>4, Zenon
  <2>6. i \in 0..n
    OBVIOUS
  <2> QED
    BY <2>5, <2>6, Zenon
<1> HIDE DEF P
<1>4. \A i \in 0..n : i \in P
  BY <1>2, <1>3, UpTo, Zenon
<1>5. n \in 0..n
  OBVIOUS
<1>6. Ok(g[n], n)
  BY <1>4, <1>5 DEF P
<1> QED
  BY <1>1, <1>6, Zenon

-----------------------------------------------------------------------------
(***************************************************************************)
(* Elements and pieces at the positions in a set                           *)
(***************************************************************************)

\* What Append() does.
LEMMA Appended ==
    ASSUME NEW X, NEW s \in Seq(X), NEW e \in X
    PROVE  /\ Append(s, e) \in Seq(X)
           /\ Len(s) \in Nat /\ Len(Append(s, e)) = Len(s) + 1
           /\ \A k \in 1..Len(s) : Append(s, e)[k] = s[k]
           /\ Append(s, e)[Len(s) + 1] = e
           /\ \A k \in 1..(Len(s) + 1) : k \in 1..Len(s) \/ k = Len(s) + 1
OBVIOUS

\* What \o does.
LEMMA Concatenated ==
    ASSUME NEW X, NEW s \in Seq(X), NEW t \in Seq(X)
    PROVE  /\ s \o t \in Seq(X)
           /\ Len(s) \in Nat /\ Len(t) \in Nat /\ Len(s \o t) = Len(s) + Len(t)
           /\ \A k \in 1..Len(s) : (s \o t)[k] = s[k]
           /\ \A k \in 1..Len(t) : (s \o t)[Len(s) + k] = t[k]
OBVIOUS

\* Sequences of the same elements are the same.
LEMMA SameElements ==
    ASSUME NEW X, NEW s \in Seq(X), NEW t \in Seq(X), Len(s) = Len(t),
           \A k \in 1..Len(s) : s[k] = t[k]
    PROVE  s = t
OBVIOUS

IsFunction(f, n) == f = [k \in 1..n |-> f[k]]

\* A function on 1..n is a sequence.
LEMMA IsSequence ==
    ASSUME NEW X, NEW n \in Nat, NEW f, IsFunction(f, n), \A k \in 1..n : f[k] \in X
    PROVE  f \in Seq(X) /\ Len(f) = n
BY DEF IsFunction

\* The sets have the same numbers up to n.
Agree(S, T, n) == \A i \in 1..n : i \in S <=> i \in T

IsPick(r, seq, at) == Len(r) = Len(at) /\ \A k \in 1..Len(at) : r[k] = seq[at[k]]

\* An element that is appended at a position in the set is picked.
PickStep(seq, e, S, T) ==
    Picked(Append(seq, e), T)
       = IF Len(seq) + 1 \in T THEN Append(Picked(seq, S), e) ELSE Picked(seq, S)

\* Picked() picks elements of the sequence,
LEMMA PickedSeq ==
    ASSUME NEW X, NEW seq \in Seq(X), NEW S
    PROVE  /\ Picked(seq, S) \in Seq(X)
           /\ IsPick(Picked(seq, S), seq, InOrder(S, Len(seq)))
<1> DEFINE at == InOrder(S, Len(seq))
<1>1. at \in Seq(Nat) /\ \A k \in 1..Len(at) : at[k] \in 1..Len(seq)
  BY OrderBounds
<1> HIDE DEF at
<1>2. Picked(seq, S) = [k \in 1..Len(at) |-> seq[at[k]]]
  BY DEF Picked, at
<1>3. Len(at) \in Nat /\ \A k \in 1..Len(at) : seq[at[k]] \in X
  BY <1>1
<1>4. \A k \in 1..Len(at) : Picked(seq, S)[k] = seq[at[k]]
  BY <1>2, Zenon
<1>5. IsFunction(Picked(seq, S), Len(at))
  BY <1>2, <1>4, Zenon DEF IsFunction
<1>6. Picked(seq, S) \in Seq(X) /\ Len(Picked(seq, S)) = Len(at)
  <2>1. \A k \in 1..Len(at) : Picked(seq, S)[k] \in X
    BY <1>3, <1>4, Zenon
  <2> QED
    BY <1>3, <1>5, <2>1, IsSequence, Zenon
<1>7. IsPick(Picked(seq, S), seq, at)
  BY <1>4, <1>6, Zenon DEF IsPick
<1> QED
  BY <1>6, <1>7, Zenon DEF at

\* also the one that is appended, if its position is in the set.
LEMMA PickedStep ==
    ASSUME NEW X, NEW seq \in Seq(X), NEW e \in X, NEW S, NEW T, Agree(S, T, Len(seq))
    PROVE  PickStep(seq, e, S, T)
<1> DEFINE n == Len(seq)
           at == InOrder(S, n)
           bt == InOrder(T, n + 1)
<1>1. n \in Nat /\ Append(seq, e) \in Seq(X) /\ Len(Append(seq, e)) = n + 1
  BY Appended
<1>2. bt = IF n + 1 \in T THEN Append(at, n + 1) ELSE at
  BY <1>1, OrderStep, Zenon DEF Agree
<1>3. at \in Seq(Nat) /\ \A k \in 1..Len(at) : at[k] \in 1..n
  BY <1>1, OrderBounds, Zenon
<1>4. /\ Picked(seq, S) \in Seq(X)
      /\ IsPick(Picked(seq, S), seq, at)
  BY PickedSeq, Zenon
<1>5. /\ Picked(Append(seq, e), T) \in Seq(X)
      /\ IsPick(Picked(Append(seq, e), T), Append(seq, e), bt)
  BY <1>1, PickedSeq, Zenon
<1>6. /\ \A k \in 1..n : Append(seq, e)[k] = seq[k]
      /\ Append(seq, e)[n + 1] = e
  BY Appended
<1> HIDE DEF n, at, bt
<1>7. /\ Picked(seq, S) \in Seq(X) /\ Len(Picked(seq, S)) = Len(at)
      /\ \A k \in 1..Len(at) : Picked(seq, S)[k] = seq[at[k]]
  BY <1>4, Zenon DEF IsPick
<1>8. /\ Picked(Append(seq, e), T) \in Seq(X) /\ Len(Picked(Append(seq, e), T)) = Len(bt)
      /\ \A k \in 1..Len(bt) : Picked(Append(seq, e), T)[k] = Append(seq, e)[bt[k]]
  BY <1>5, Zenon DEF IsPick
<1>9. CASE n + 1 \in T
  <2>1. /\ bt \in Seq(Nat) /\ Len(bt) = Len(at) + 1 /\ Len(at) \in Nat
        /\ \A k \in 1..Len(at) : bt[k] = at[k]
        /\ bt[Len(at) + 1] = n + 1
        /\ \A k \in 1..(Len(at) + 1) : k \in 1..Len(at) \/ k = Len(at) + 1
    BY <1>1, <1>2, <1>3, <1>9, Appended
  <2>2. /\ Append(Picked(seq, S), e) \in Seq(X)
        /\ Len(Append(Picked(seq, S), e)) = Len(at) + 1
        /\ \A k \in 1..Len(at) : Append(Picked(seq, S), e)[k] = Picked(seq, S)[k]
        /\ Append(Picked(seq, S), e)[Len(at) + 1] = e
    BY <1>7, Appended
  <2>3. ASSUME NEW k \in 1..(Len(at) + 1)
        PROVE  Picked(Append(seq, e), T)[k] = Append(Picked(seq, S), e)[k]
    <3>1. CASE k \in 1..Len(at)
      <4>1. Picked(Append(seq, e), T)[k] = Append(seq, e)[at[k]]
        BY <1>8, <2>1, <3>1, Zenon
      <4>2. at[k] \in 1..n /\ Append(seq, e)[at[k]] = seq[at[k]]
        BY <1>3, <1>6, <3>1, Zenon
      <4>3. Append(Picked(seq, S), e)[k] = seq[at[k]]
        BY <1>7, <2>2, <3>1, Zenon
      <4> QED
        BY <4>1, <4>2, <4>3, Zenon
    <3>2. CASE k = Len(at) + 1
      <4>1. k \in 1..Len(bt) /\ bt[k] = n + 1
        BY <2>1, <3>2, Zenon
      <4>2. Picked(Append(seq, e), T)[k] = Append(seq, e)[bt[k]]
        BY <1>8, <4>1, Zenon
      <4>3. Append(Picked(seq, S), e)[k] = e
        BY <2>2, <3>2, Zenon
      <4> QED
        BY <1>6, <4>1, <4>2, <4>3, Zenon
    <3> QED
      BY <2>1, <3>1, <3>2, Zenon
  <2>4. Picked(Append(seq, e), T) = Append(Picked(seq, S), e)
    BY <1>8, <2>1, <2>2, <2>3, SameElements, Zenon
  <2> QED
    BY <1>9, <2>4, Zenon DEF PickStep, n
<1>10. CASE n + 1 \notin T
  <2>1. bt = at
    BY <1>2, <1>10, Zenon
  <2>2. ASSUME NEW k \in 1..Len(at)
        PROVE  Picked(Append(seq, e), T)[k] = Picked(seq, S)[k]
    <3>1. Picked(Append(seq, e), T)[k] = Append(seq, e)[at[k]]
      BY <1>8, <2>1, Zenon
    <3>2. Append(seq, e)[at[k]] = seq[at[k]]
      BY <1>3, <1>6, Zenon
    <3> QED
      BY <1>7, <3>1, <3>2, Zenon
  <2>3. Picked(Append(seq, e), T) = Picked(seq, S)
    <3>1. /\ Picked(Append(seq, e), T) \in Seq(X) /\ Picked(seq, S) \in Seq(X)
          /\ Len(Picked(Append(seq, e), T)) = Len(Picked(seq, S))
      BY <1>7, <1>8, <2>1, Zenon
    <3>2. \A k \in 1..Len(Picked(Append(seq, e), T)) :
              Picked(Append(seq, e), T)[k] = Picked(seq, S)[k]
      BY <1>7, <2>2, <3>1, Zenon
    <3> QED
      BY <3>1, <3>2, SameElements, Zenon
  <2> QED
    BY <1>10, <2>3, Zenon DEF PickStep, n
<1> QED
  BY <1>9, <1>10

\* What SubSeq() does,
LEMMA SubSeqIs ==
    ASSUME NEW X, NEW seq \in Seq(X), NEW a \in Nat, NEW b \in Nat,
           1 <= a, a <= b + 1, b <= Len(seq)
    PROVE  /\ SubSeq(seq, a, b) \in Seq(X)
           /\ Len(SubSeq(seq, a, b)) = b - a + 1
           /\ \A k \in 1..(b - a + 1) : SubSeq(seq, a, b)[k] = seq[a + k - 1]
OBVIOUS

SubSeqStep(seq, e, a, b) ==
    /\ SubSeq(Append(seq, e), a, b) = SubSeq(seq, a, b)
    /\ b = Len(seq) => SubSeq(Append(seq, e), a, b + 1) = Append(SubSeq(seq, a, b), e)

\* also with a sequence that was appended to.
LEMMA SubSeqAppended ==
    ASSUME NEW X, NEW seq \in Seq(X), NEW e \in X, NEW a \in Nat, NEW b \in Nat,
           1 <= a, a <= b + 1, b <= Len(seq)
    PROVE  SubSeqStep(seq, e, a, b)
<1> DEFINE s == Append(seq, e)
<1>1. /\ s \in Seq(X) /\ Len(s) = Len(seq) + 1 /\ Len(seq) \in Nat
      /\ \A k \in 1..Len(seq) : s[k] = seq[k]
      /\ s[Len(seq) + 1] = e
  BY Appended
<1> HIDE DEF s
<1>2. /\ SubSeq(seq, a, b) \in Seq(X)
      /\ Len(SubSeq(seq, a, b)) = b - a + 1
      /\ \A k \in 1..(b - a + 1) : SubSeq(seq, a, b)[k] = seq[a + k - 1]
  BY SubSeqIs
<1>3. /\ SubSeq(s, a, b) \in Seq(X)
      /\ Len(SubSeq(s, a, b)) = b - a + 1
      /\ \A k \in 1..(b - a + 1) : SubSeq(s, a, b)[k] = s[a + k - 1]
  BY <1>1, SubSeqIs
<1>4. \A k \in 1..(b - a + 1) : a + k - 1 \in 1..Len(seq)
  BY <1>1
<1>5. SubSeq(s, a, b) = SubSeq(seq, a, b)
  BY <1>1, <1>2, <1>3, <1>4, SameElements
<1>6. ASSUME b = Len(seq) PROVE SubSeq(s, a, b + 1) = Append(SubSeq(seq, a, b), e)
  <2>1. /\ SubSeq(s, a, b + 1) \in Seq(X)
        /\ Len(SubSeq(s, a, b + 1)) = b - a + 2
        /\ \A k \in 1..(b - a + 2) : SubSeq(s, a, b + 1)[k] = s[a + k - 1]
    BY <1>1, <1>6
  <2>2. /\ Append(SubSeq(seq, a, b), e) \in Seq(X)
        /\ Len(Append(SubSeq(seq, a, b), e)) = b - a + 2
        /\ \A k \in 1..(b - a + 1) : Append(SubSeq(seq, a, b), e)[k] = SubSeq(seq, a, b)[k]
        /\ Append(SubSeq(seq, a, b), e)[b - a + 2] = e
    BY <1>2
  <2>3. ASSUME NEW k \in 1..(b - a + 2)
        PROVE  SubSeq(s, a, b + 1)[k] = Append(SubSeq(seq, a, b), e)[k]
    <3>1. CASE k \in 1..(b - a + 1)
      <4>1. a + k - 1 \in 1..Len(seq)
        BY <1>4, <3>1
      <4> QED
        BY <1>1, <1>2, <2>1, <2>2, <3>1, <4>1, Zenon
    <3>2. CASE k = b - a + 2
      <4>1. a + k - 1 = Len(seq) + 1
        BY <1>6, <3>2
      <4> QED
        BY <1>1, <2>1, <2>2, <3>2, <4>1, Zenon
    <3>3. k \in 1..(b - a + 1) \/ k = b - a + 2
      OBVIOUS
    <3> QED
      BY <3>1, <3>2, <3>3, Zenon
  <2> QED
    BY <2>1, <2>2, <2>3, SameElements, Zenon
<1> QED
  BY <1>5, <1>6, Zenon DEF SubSeqStep, s

From(at, k) == IF k = 1 THEN 1 ELSE at[k - 1] + 1

IsCut(r, seq, at) ==
    Len(r) = Len(at) /\ \A k \in 1..Len(at) : r[k] = SubSeq(seq, From(at, k), at[k] - 1)

\* What begins behind the last of the positions in S.
Rest(seq, S) ==
    LET at == InOrder(S, Len(seq)) IN SubSeq(seq, From(at, Len(at) + 1), Len(seq))

\* A piece ends where an element is appended at a position in the set.
CutStep(seq, e, S, T) ==
    /\ Len(seq) + 1 \in T =>
          /\ Pieces(Append(seq, e), T) = Append(Pieces(seq, S), Rest(seq, S))
          /\ Rest(Append(seq, e), T) = <<>>
    /\ Len(seq) + 1 \notin T =>
          /\ Pieces(Append(seq, e), T) = Pieces(seq, S)
          /\ Rest(Append(seq, e), T) = Append(Rest(seq, S), e)

\* Where the pieces begin and end.
LEMMA CutBounds ==
    ASSUME NEW S, NEW n \in Nat, NEW at, at = InOrder(S, n)
    PROVE  /\ at \in Seq(Nat) /\ Len(at) \in Nat
           /\ \A k \in 1..Len(at) : /\ From(at, k) \in Nat /\ 1 <= From(at, k)
                                    /\ at[k] \in 1..n /\ at[k] - 1 \in Nat
                                    /\ From(at, k) <= (at[k] - 1) + 1
           /\ From(at, Len(at) + 1) \in 1..(n + 1)
<1>1. /\ at \in Seq(Nat)
      /\ \A k \in 1..Len(at) : at[k] \in 1..n
      /\ \A k \in 2..Len(at) : at[k - 1] < at[k]
  BY OrderBounds
<1>2. Len(at) \in Nat
  BY <1>1
<1>3. ASSUME NEW k \in 1..Len(at)
      PROVE  /\ From(at, k) \in Nat /\ 1 <= From(at, k)
             /\ at[k] \in 1..n /\ at[k] - 1 \in Nat
             /\ From(at, k) <= (at[k] - 1) + 1
  <2>1. at[k] \in 1..n
    BY <1>1
  <2>2. CASE k = 1
    BY <2>1, <2>2 DEF From
  <2>3. CASE k # 1
    <3>1. k \in 2..Len(at) /\ k - 1 \in 1..Len(at)
      BY <1>2, <2>3
    <3>2. at[k - 1] \in 1..n /\ at[k - 1] < at[k]
      BY <1>1, <3>1
    <3> QED
      BY <2>1, <2>3, <3>2 DEF From
  <2> QED
    BY <2>2, <2>3
<1>4. From(at, Len(at) + 1) \in 1..(n + 1)
  <2>1. CASE Len(at) = 0
    BY <2>1 DEF From
  <2>2. CASE Len(at) # 0
    <3>1. Len(at) \in 1..Len(at) /\ Len(at) + 1 # 1 /\ (Len(at) + 1) - 1 = Len(at)
      BY <1>2, <2>2
    <3>2. at[Len(at)] \in 1..n
      BY <1>1, <3>1
    <3>3. From(at, Len(at) + 1) = at[Len(at)] + 1
      BY <3>1, Zenon DEF From
    <3> QED
      BY <3>2, <3>3
  <2> QED
    BY <2>1, <2>2
<1> QED
  BY <1>1, <1>2, <1>3, <1>4, Zenon

\* Pieces() cuts the sequence into pieces,
LEMMA PiecesSeq ==
    ASSUME NEW X, NEW seq \in Seq(X), NEW S
    PROVE  /\ Pieces(seq, S) \in Seq(Seq(X))
           /\ IsCut(Pieces(seq, S), seq, InOrder(S, Len(seq)))
           /\ Rest(seq, S) \in Seq(X)
<1> DEFINE at == InOrder(S, Len(seq))
<1>1. Len(seq) \in Nat
  OBVIOUS
<1>2. /\ at \in Seq(Nat) /\ Len(at) \in Nat
      /\ \A k \in 1..Len(at) : /\ From(at, k) \in Nat /\ 1 <= From(at, k)
                               /\ at[k] \in 1..Len(seq) /\ at[k] - 1 \in Nat
                               /\ From(at, k) <= (at[k] - 1) + 1
      /\ From(at, Len(at) + 1) \in 1..(Len(seq) + 1)
  BY <1>1, CutBounds
<1> DEFINE piece(k) == SubSeq(seq, From(at, k), at[k] - 1)
<1>3. Pieces(seq, S) = [k \in 1..Len(at) |-> piece(k)]
  BY Zenon DEF Pieces, From
<1>4. Rest(seq, S) = SubSeq(seq, From(at, Len(at) + 1), Len(seq))
  BY DEF Rest
<1> HIDE DEF at
<1>5. ASSUME NEW k \in 1..Len(at) PROVE piece(k) \in Seq(X)
  <2>1. at[k] - 1 <= Len(seq)
    BY <1>1, <1>2
  <2> QED
    BY <1>2, <2>1, SubSeqIs, Zenon
<1> HIDE DEF piece
<1>6. \A k \in 1..Len(at) : Pieces(seq, S)[k] = piece(k)
  BY <1>3, Zenon
<1>7. IsFunction(Pieces(seq, S), Len(at))
  BY <1>3, <1>6, Zenon DEF IsFunction
<1>8. \A k \in 1..Len(at) : Pieces(seq, S)[k] \in Seq(X)
  BY <1>5, <1>6, Zenon
<1>9. Pieces(seq, S) \in Seq(Seq(X)) /\ Len(Pieces(seq, S)) = Len(at)
  BY <1>2, <1>7, <1>8, IsSequence, Zenon
<1>10. IsCut(Pieces(seq, S), seq, at)
  BY <1>6, <1>9, Zenon DEF IsCut, piece
<1>11. Rest(seq, S) \in Seq(X)
  BY <1>1, <1>2, <1>4, SubSeqIs
<1> QED
  BY <1>9, <1>10, <1>11, Zenon DEF at

\* one more when the position of an element that is appended is in the set.
LEMMA PiecesStep ==
    ASSUME NEW X, NEW seq \in Seq(X), NEW e \in X, NEW S, NEW T, Agree(S, T, Len(seq))
    PROVE  CutStep(seq, e, S, T)
<1> DEFINE n == Len(seq)
           s == Append(seq, e)
           at == InOrder(S, n)
           bt == InOrder(T, n + 1)
           old == Pieces(seq, S)
           new == Pieces(s, T)
<1>1. n \in Nat /\ n + 1 \in Nat /\ s \in Seq(X) /\ Len(s) = n + 1
  BY Appended
<1>2. bt = IF n + 1 \in T THEN Append(at, n + 1) ELSE at
  BY <1>1, OrderStep, Zenon DEF Agree
<1>3. /\ at \in Seq(Nat) /\ Len(at) \in Nat
      /\ \A k \in 1..Len(at) : /\ From(at, k) \in Nat /\ 1 <= From(at, k)
                               /\ at[k] \in 1..n /\ at[k] - 1 \in Nat
                               /\ From(at, k) <= (at[k] - 1) + 1
      /\ From(at, Len(at) + 1) \in 1..(n + 1)
  BY <1>1, CutBounds
<1>4. old \in Seq(Seq(X)) /\ IsCut(old, seq, at) /\ Rest(seq, S) \in Seq(X)
  BY PiecesSeq, Zenon
<1>5. new \in Seq(Seq(X)) /\ IsCut(new, s, bt)
  BY <1>1, PiecesSeq, Zenon
<1>6. Rest(seq, S) = SubSeq(seq, From(at, Len(at) + 1), n)
  BY Zenon DEF Rest
<1>7. Rest(s, T) = SubSeq(s, From(bt, Len(bt) + 1), n + 1)
  BY <1>1, Zenon DEF Rest
<1>8. ASSUME NEW a \in Nat, NEW b \in Nat, 1 <= a, a <= b + 1, b <= n
      PROVE  /\ SubSeq(s, a, b) = SubSeq(seq, a, b)
             /\ b = n => SubSeq(s, a, b + 1) = Append(SubSeq(seq, a, b), e)
  <2>1. SubSeqStep(seq, e, a, b)
    BY <1>8, SubSeqAppended, Zenon
  <2> QED
    BY <2>1, Zenon DEF SubSeqStep
<1> HIDE DEF n, s, at, bt, old, new
<1>9. ASSUME NEW k \in 1..Len(at)
      PROVE  SubSeq(s, From(at, k), at[k] - 1) = old[k]
  <2>1. at[k] - 1 <= n
    BY <1>1, <1>3
  <2>2. SubSeq(s, From(at, k), at[k] - 1) = SubSeq(seq, From(at, k), at[k] - 1)
    BY <1>3, <1>8, <2>1, Zenon
  <2> QED
    BY <1>4, <2>2, Zenon DEF IsCut
<1>10. From(at, Len(at) + 1) \in Nat /\ 1 <= From(at, Len(at) + 1)
       /\ From(at, Len(at) + 1) <= n + 1 /\ n <= n
  BY <1>1, <1>3
<1>11. CASE n + 1 \in T
  <2>1. bt = Append(at, n + 1)
    BY <1>2, <1>11, Zenon
  <2>2. /\ Len(bt) = Len(at) + 1
        /\ \A k \in 1..Len(at) : bt[k] = at[k]
        /\ bt[Len(at) + 1] = n + 1
        /\ \A k \in 1..(Len(at) + 1) : k \in 1..Len(at) \/ k = Len(at) + 1
    BY <1>1, <1>3, <2>1, Appended
  <2>3. \A k \in 1..(Len(at) + 1) : From(bt, k) = From(at, k)
    <3>1. \A k \in 1..(Len(at) + 1) : k # 1 => k - 1 \in 1..Len(at)
      BY <1>3
    <3> QED
      BY <2>2, <3>1, Zenon DEF From
  <2>4. /\ Append(old, Rest(seq, S)) \in Seq(Seq(X))
        /\ Len(Append(old, Rest(seq, S))) = Len(at) + 1
        /\ \A k \in 1..Len(at) : Append(old, Rest(seq, S))[k] = old[k]
        /\ Append(old, Rest(seq, S))[Len(at) + 1] = Rest(seq, S)
    <3>1. Len(old) = Len(at)
      BY <1>4 DEF IsCut
    <3> QED
      BY <1>4, <3>1, Appended
  <2>5. Len(new) = Len(at) + 1
    BY <1>5, <2>2 DEF IsCut
  <2>6. ASSUME NEW k \in 1..(Len(at) + 1) PROVE new[k] = Append(old, Rest(seq, S))[k]
    <3>1. new[k] = SubSeq(s, From(at, k), bt[k] - 1)
      BY <1>5, <2>2, <2>3, Zenon DEF IsCut
    <3>2. CASE k \in 1..Len(at)
      BY <1>9, <2>2, <2>4, <3>1, <3>2, Zenon
    <3>3. CASE k = Len(at) + 1
      <4>1. bt[k] - 1 = n
        BY <1>1, <2>2, <3>3
      <4>2. SubSeq(s, From(at, k), n) = SubSeq(seq, From(at, k), n)
        BY <1>1, <1>8, <1>10, <3>3, Zenon
      <4> QED
        BY <1>6, <2>4, <3>1, <3>3, <4>1, <4>2, Zenon
    <3> QED
      BY <2>2, <3>2, <3>3, Zenon
  <2>7. new = Append(old, Rest(seq, S))
    BY <1>5, <2>4, <2>5, <2>6, SameElements, Zenon
  <2>8. Rest(s, T) = <<>>
    <3>1. From(bt, Len(bt) + 1) = n + 2
      BY <1>1, <1>3, <2>2 DEF From
    <3>2. Rest(s, T) = SubSeq(s, n + 2, n + 1)
      BY <1>7, <3>1, Zenon
    <3> QED
      BY <1>1, <3>2
  <2> QED
    BY <1>11, <2>7, <2>8, Zenon DEF CutStep, n, s, old, new
<1>12. CASE n + 1 \notin T
  <2>1. bt = at
    BY <1>2, <1>12, Zenon
  <2>2. Len(old) = Len(at) /\ Len(new) = Len(at)
    BY <1>4, <1>5, <2>1, Zenon DEF IsCut
  <2>3. ASSUME NEW k \in 1..Len(at) PROVE new[k] = old[k]
    BY <1>5, <1>9, <2>1, Zenon DEF IsCut
  <2>4. new = old
    BY <1>4, <1>5, <2>2, <2>3, SameElements, Zenon
  <2>5. Rest(s, T) = Append(Rest(seq, S), e)
    BY <1>1, <1>6, <1>7, <1>8, <1>10, <2>1, Zenon
  <2> QED
    BY <1>12, <2>4, <2>5, Zenon DEF CutStep, n, s, old, new
<1> QED
  BY <1>11, <1>12 DEF n

\* A function of every element.
Mapped(seq, f) == [k \in 1..Len(seq) |-> f[seq[k]]]

IsMap(f, X, Y) == f \in [X -> Y]

MapStep(seq, e, f) == Mapped(Append(seq, e), f) = Append(Mapped(seq, f), f[e])

\* What it gives,
LEMMA MappedSeq ==
    ASSUME NEW X, NEW Y, NEW seq \in Seq(X), NEW f, IsMap(f, X, Y)
    PROVE  /\ Mapped(seq, f) \in Seq(Y)
           /\ Len(Mapped(seq, f)) = Len(seq)
           /\ \A k \in 1..Len(seq) : Mapped(seq, f)[k] = f[seq[k]]
<1>1. Len(seq) \in Nat /\ \A k \in 1..Len(seq) : f[seq[k]] \in Y
  BY DEF IsMap
<1>2. \A k \in 1..Len(seq) : Mapped(seq, f)[k] = f[seq[k]]
  BY Zenon DEF Mapped
<1>3. IsFunction(Mapped(seq, f), Len(seq))
  BY <1>2, Zenon DEF Mapped, IsFunction
<1>4. \A k \in 1..Len(seq) : Mapped(seq, f)[k] \in Y
  BY <1>1, <1>2, Zenon
<1>5. Mapped(seq, f) \in Seq(Y) /\ Len(Mapped(seq, f)) = Len(seq)
  BY <1>1, <1>3, <1>4, IsSequence, Zenon
<1> QED
  BY <1>2, <1>5

\* also for one that is appended.
LEMMA MappedStep ==
    ASSUME NEW X, NEW Y, NEW seq \in Seq(X), NEW e \in X, NEW f, IsMap(f, X, Y)
    PROVE  MapStep(seq, e, f)
<1> DEFINE s == Append(seq, e)
<1>1. /\ s \in Seq(X) /\ Len(s) = Len(seq) + 1 /\ Len(seq) \in Nat
      /\ \A k \in 1..Len(seq) : s[k] = seq[k]
      /\ s[Len(seq) + 1] = e
      /\ \A k \in 1..(Len(seq) + 1) : k \in 1..Len(seq) \/ k = Len(seq) + 1
  BY Appended
<1>2. /\ Mapped(seq, f) \in Seq(Y) /\ Len(Mapped(seq, f)) = Len(seq)
      /\ \A k \in 1..Len(seq) : Mapped(seq, f)[k] = f[seq[k]]
  BY MappedSeq
<1> HIDE DEF s
<1>3. /\ Mapped(s, f) \in Seq(Y) /\ Len(Mapped(s, f)) = Len(seq) + 1
      /\ \A k \in 1..(Len(seq) + 1) : Mapped(s, f)[k] = f[s[k]]
  BY <1>1, MappedSeq
<1>4. f[e] \in Y
  BY DEF IsMap
<1>5. /\ Append(Mapped(seq, f), f[e]) \in Seq(Y)
      /\ Len(Append(Mapped(seq, f), f[e])) = Len(seq) + 1
      /\ \A k \in 1..Len(seq) : Append(Mapped(seq, f), f[e])[k] = Mapped(seq, f)[k]
      /\ Append(Mapped(seq, f), f[e])[Len(seq) + 1] = f[e]
  BY <1>2, <1>4, Appended
<1>6. ASSUME NEW k \in 1..(Len(seq) + 1)
      PROVE  Mapped(s, f)[k] = Append(Mapped(seq, f), f[e])[k]
  <2>1. CASE k \in 1..Len(seq)
    BY <1>1, <1>2, <1>3, <1>5, <2>1
  <2>2. CASE k = Len(seq) + 1
    BY <1>1, <1>3, <1>5, <2>2
  <2> QED
    BY <1>1, <2>1, <2>2, Zenon
<1>7. Mapped(s, f) = Append(Mapped(seq, f), f[e])
  BY <1>3, <1>5, <1>6, SameElements
<1> QED
  BY <1>7, Zenon DEF MapStep, s

-----------------------------------------------------------------------------
(***************************************************************************)
(* The lines of a text                                                     *)
(***************************************************************************)

Text == Seq(Chars)

\* What has no LF behind it.
Unended(t) == Rest(t, {i \in 1..Len(t) : t[i] = LF})

\* Texts make texts.
LEMMA TextParts ==
    /\ LF \in Chars /\ <<>> \in Text /\ <<LF>> \in Text
    /\ \A x, y \in Text : x \o y \in Text
<1>1. LF \in Chars
  BY SseAssumption, Zenon
<1>2. <<LF>> \in Seq(Chars)
  BY <1>1
<1>3. \A x, y \in Seq(Chars) : x \o y \in Seq(Chars)
  OBVIOUS
<1> QED
  BY <1>1, <1>2, <1>3 DEF Text

\* A text is one without its CR,
LEMMA StripCRText ==
    ASSUME NEW t \in Text
    PROVE  StripCR(t) \in Text
<1>1. CASE t # <<>> /\ t[Len(t)] = CR
  <2>1. Len(t) \in Nat /\ Len(t) # 0
    BY <1>1 DEF Text
  <2>2. SubSeq(t, 1, Len(t) - 1) \in Text
    BY <2>1, SubSeqIs DEF Text
  <2> QED
    BY <1>1, <2>2, Zenon DEF StripCR
<1>2. CASE ~(t # <<>> /\ t[Len(t)] = CR)
  BY <1>2, Zenon DEF StripCR
<1> QED
  BY <1>1, <1>2, Zenon

\* and so is a line.
LEMMA LinesSeq ==
    ASSUME NEW t \in Text
    PROVE  Lines(t) \in Seq(Text) /\ Unended(t) \in Text
<1> DEFINE f == [x \in Text |-> StripCR(x)]
           p == Pieces(t, {i \in 1..Len(t) : t[i] = LF})
<1>1. p \in Seq(Text) /\ Unended(t) \in Text
  BY PiecesSeq, Zenon DEF Text, Unended
<1>2. IsMap(f, Text, Text)
  BY StripCRText, Zenon DEF IsMap
<1>3. Lines(t) = [k \in 1..Len(p) |-> StripCR(p[k])]
  BY Zenon DEF Lines
<1> HIDE DEF p
<1>4. \A k \in 1..Len(p) : p[k] \in Text
  BY <1>1
<1>5. Lines(t) = Mapped(p, f)
  BY <1>3, <1>4, Zenon DEF Mapped
<1> HIDE DEF f
<1> QED
  BY <1>1, <1>2, <1>5, MappedSeq

\* LF ends a line; any other character goes behind what has no end yet.
LinesStepOf(t, c) ==
    /\ c = LF => /\ Lines(Append(t, c)) = Append(Lines(t), StripCR(Unended(t)))
                 /\ Unended(Append(t, c)) = <<>>
    /\ c # LF => /\ Lines(Append(t, c)) = Lines(t)
                 /\ Unended(Append(t, c)) = Append(Unended(t), c)

\* That is what Lines() does with one more character.
LEMMA LinesStep ==
    ASSUME NEW t \in Text, NEW c \in Chars
    PROVE  LinesStepOf(t, c)
<1> DEFINE f == [x \in Text |-> StripCR(x)]
           S == {i \in 1..Len(t) : t[i] = LF}
           u == Append(t, c)
           T == {i \in 1..Len(u) : u[i] = LF}
           p == Pieces(t, S)
           q == Pieces(u, T)
<1>1. /\ u \in Seq(Chars) /\ Len(u) = Len(t) + 1 /\ Len(t) \in Nat
      /\ \A k \in 1..Len(t) : u[k] = t[k]
      /\ u[Len(t) + 1] = c
  BY Appended DEF Text
<1> HIDE DEF u
<1>2. Agree(S, T, Len(t))
  BY <1>1 DEF Agree
<1>3. Len(t) + 1 \in T <=> c = LF
  <2>1. Len(t) + 1 \in 1..Len(u)
    BY <1>1
  <2> QED
    BY <1>1, <2>1, Zenon
<1>4. p \in Seq(Text) /\ q \in Seq(Text) /\ Unended(t) \in Text
  BY <1>1, PiecesSeq, Zenon DEF Text, Unended
<1>5. IsMap(f, Text, Text) /\ f[Unended(t)] = StripCR(Unended(t))
  BY <1>4, StripCRText, Zenon DEF IsMap
<1>6. /\ Lines(t) = [k \in 1..Len(p) |-> StripCR(p[k])]
      /\ Lines(u) = [k \in 1..Len(q) |-> StripCR(q[k])]
  BY Zenon DEF Lines
<1>7. Unended(t) = Rest(t, S) /\ Unended(u) = Rest(u, T)
  BY Zenon DEF Unended
<1>8. /\ Len(t) + 1 \in T => q = Append(p, Rest(t, S)) /\ Rest(u, T) = <<>>
      /\ Len(t) + 1 \notin T => q = p /\ Rest(u, T) = Append(Rest(t, S), c)
  <2>1. t \in Seq(Chars)
    BY DEF Text
  <2> HIDE DEF S, T
  <2>2. CutStep(t, c, S, T)
    BY <1>2, <2>1, PiecesStep, Zenon
  <2> QED
    BY <2>2, Zenon DEF CutStep, u
<1> HIDE DEF S, T, p, q
<1>9. (\A k \in 1..Len(p) : p[k] \in Text) /\ \A k \in 1..Len(q) : q[k] \in Text
  BY <1>4
<1>10. Lines(t) = Mapped(p, f) /\ Lines(u) = Mapped(q, f)
  BY <1>6, <1>9, Zenon DEF Mapped
<1> HIDE DEF f
<1>11. CASE c = LF
  <2>1. q = Append(p, Unended(t)) /\ Unended(u) = <<>>
    BY <1>3, <1>7, <1>8, <1>11, Zenon
  <2>2. Mapped(Append(p, Unended(t)), f) = Append(Mapped(p, f), f[Unended(t)])
    <3>1. p \in Seq(Text) /\ Unended(t) \in Text /\ IsMap(f, Text, Text)
      BY <1>4, <1>5, Zenon
    <3>2. MapStep(p, Unended(t), f)
      BY <3>1, MappedStep, Zenon
    <3> QED
      BY <3>2 DEF MapStep
  <2>3. Lines(u) = Append(Lines(t), StripCR(Unended(t))) /\ Unended(u) = <<>>
    BY <1>5, <1>10, <2>1, <2>2, Zenon
  <2> QED
    BY <1>11, <2>3, Zenon DEF LinesStepOf, u
<1>12. CASE c # LF
  <2>1. Lines(u) = Lines(t) /\ Unended(u) = Append(Unended(t), c)
    BY <1>3, <1>7, <1>8, <1>10, <1>12, Zenon
  <2> QED
    BY <1>12, <2>1, Zenon DEF LinesStepOf, u
<1> QED
  BY <1>11, <1>12, Zenon

\* Nothing is in the empty text.
LEMMA NoPieces ==
    ASSUME NEW S
    PROVE  Picked(<<>>, S) = <<>> /\ Pieces(<<>>, S) = <<>> /\ Rest(<<>>, S) = <<>>
<1>1. Len(<<>>) = 0 /\ <<>> = [k \in 1..0 |-> k]
  OBVIOUS
<1>2. InOrder(S, Len(<<>>)) = <<>>
  BY <1>1, OrderZero, Zenon
<1>3. Picked(<<>>, S) = <<>> /\ Pieces(<<>>, S) = <<>>
  BY <1>1, <1>2 DEF Picked, Pieces
<1>4. Rest(<<>>, S) = <<>>
  BY <1>1, <1>2 DEF Rest, From
<1> QED
  BY <1>3, <1>4

-----------------------------------------------------------------------------
(***************************************************************************)
(* The fields in the lines, block by block                                 *)
(***************************************************************************)

\* The fields behind the last blank line.
Open(lines) == Fields(Rest(lines, {i \in 1..Len(lines) : lines[i] = <<>>}))

FieldsStepOf(lines, x) ==
    Fields(Append(lines, x))
       = IF x # <<>> /\ Head(x) # COLON THEN Append(Fields(lines), x) ELSE Fields(lines)

\* Fields() returns lines,
LEMMA FieldsSeq ==
    ASSUME NEW lines \in Seq(Text)
    PROVE  Fields(lines) \in Seq(Text)
BY PickedSeq, Zenon DEF Fields

\* and the line that is appended, if it has a field.
LEMMA FieldsStep ==
    ASSUME NEW lines \in Seq(Text), NEW x \in Text
    PROVE  FieldsStepOf(lines, x)
<1> DEFINE l == Append(lines, x)
           S == {i \in 1..Len(lines) : lines[i] # <<>> /\ Head(lines[i]) # COLON}
           T == {i \in 1..Len(l) : l[i] # <<>> /\ Head(l[i]) # COLON}
<1>1. /\ l \in Seq(Text) /\ Len(l) = Len(lines) + 1 /\ Len(lines) \in Nat
      /\ \A k \in 1..Len(lines) : l[k] = lines[k]
      /\ l[Len(lines) + 1] = x
  BY Appended
<1> HIDE DEF l
<1>2. \A i \in 1..Len(lines) : i \in 1..Len(l)
  BY <1>1
<1>3. Agree(S, T, Len(lines))
  BY <1>1, <1>2, Zenon DEF Agree
<1>4. Len(lines) + 1 \in T <=> (x # <<>> /\ Head(x) # COLON)
  <2>1. Len(lines) + 1 \in 1..Len(l)
    BY <1>1
  <2> QED
    BY <1>1, <2>1, Zenon
<1>5. Fields(lines) = Picked(lines, S) /\ Fields(l) = Picked(l, T)
  BY Zenon DEF Fields
<1> HIDE DEF S, T
<1>6. PickStep(lines, x, S, T)
  BY <1>3, PickedStep, Zenon
<1> QED
  BY <1>4, <1>5, <1>6, Zenon DEF PickStep, FieldsStepOf, l

\* A block ends with a blank line, if there are fields in it.
BlocksStepOf(lines, x) ==
    IF x = <<>>
    THEN /\ Open(Append(lines, x)) = <<>>
         /\ Blocks(Append(lines, x))
               = IF Open(lines) # <<>> THEN Append(Blocks(lines), Open(lines)) ELSE Blocks(lines)
    ELSE /\ Blocks(Append(lines, x)) = Blocks(lines)
         /\ Open(Append(lines, x))
               = IF Head(x) # COLON THEN Append(Open(lines), x) ELSE Open(lines)

\* The pieces between blank lines, and the fields in each.
BlankPieces(lines) == Pieces(lines, {i \in 1..Len(lines) : lines[i] = <<>>})

FieldsOf == [x \in Seq(Text) |-> Fields(x)]

AllBlocks(lines) == Mapped(BlankPieces(lines), FieldsOf)

\* Blocks() picks those with any.
LEMMA BlocksSeq ==
    ASSUME NEW lines \in Seq(Text)
    PROVE  /\ IsMap(FieldsOf, Seq(Text), Seq(Text))
           /\ BlankPieces(lines) \in Seq(Seq(Text)) /\ AllBlocks(lines) \in Seq(Seq(Text))
           /\ Open(lines) \in Seq(Text) /\ Blocks(lines) \in Seq(Seq(Text))
           /\ Blocks(lines) = Picked(AllBlocks(lines),
                                 {k \in 1..Len(AllBlocks(lines)) : AllBlocks(lines)[k] # <<>>})
<1> DEFINE p == BlankPieces(lines)
           b == AllBlocks(lines)
<1>1. IsMap(FieldsOf, Seq(Text), Seq(Text))
  BY FieldsSeq, Zenon DEF IsMap, FieldsOf
<1>2. /\ p \in Seq(Seq(Text))
      /\ Rest(lines, {i \in 1..Len(lines) : lines[i] = <<>>}) \in Seq(Text)
  BY PiecesSeq, Zenon DEF BlankPieces
<1>3. b \in Seq(Seq(Text))
  BY <1>1, <1>2, MappedSeq, Zenon DEF AllBlocks
<1>4. Open(lines) \in Seq(Text)
  BY <1>2, FieldsSeq, Zenon DEF Open
<1>5. \A k \in 1..Len(p) : p[k] \in Seq(Text)
  BY <1>2
<1>6. b = [k \in 1..Len(p) |-> Fields(p[k])]
  BY <1>5, Zenon DEF Mapped, AllBlocks, FieldsOf
<1>7. Blocks(lines) = Picked(b, {k \in 1..Len(b) : b[k] # <<>>})
  BY <1>6, Zenon DEF Blocks, BlankPieces
<1>8. Blocks(lines) \in Seq(Seq(Text))
  BY <1>3, <1>7, PickedSeq, Zenon
<1> QED
  BY <1>1, <1>2, <1>3, <1>4, <1>7, <1>8, Zenon

\* That is what Blocks() does with one more line.
LEMMA BlocksStep ==
    ASSUME NEW lines \in Seq(Text), NEW x \in Text
    PROVE  BlocksStepOf(lines, x)
<1> DEFINE l == Append(lines, x)
           S == {i \in 1..Len(lines) : lines[i] = <<>>}
           T == {i \in 1..Len(l) : l[i] = <<>>}
           f == FieldsOf
           p == BlankPieces(lines)
           q == BlankPieces(l)
           b == AllBlocks(lines)
           d == AllBlocks(l)
           B == {k \in 1..Len(b) : b[k] # <<>>}
           D == {k \in 1..Len(d) : d[k] # <<>>}
           r == Rest(lines, S)
<1>1. /\ l \in Seq(Text) /\ Len(l) = Len(lines) + 1 /\ Len(lines) \in Nat
      /\ \A k \in 1..Len(lines) : l[k] = lines[k]
      /\ l[Len(lines) + 1] = x
  BY Appended
<1> HIDE DEF l
<1>2. \A i \in 1..Len(lines) : i \in 1..Len(l)
  BY <1>1
<1>3. Agree(S, T, Len(lines))
  BY <1>1, <1>2, Zenon DEF Agree
<1>4. Len(lines) + 1 \in T <=> x = <<>>
  <2>1. Len(lines) + 1 \in 1..Len(l)
    BY <1>1
  <2> QED
    BY <1>1, <2>1, Zenon
<1>5. /\ IsMap(f, Seq(Text), Seq(Text))
      /\ p \in Seq(Seq(Text)) /\ b \in Seq(Seq(Text))
      /\ Open(lines) \in Seq(Text) /\ Blocks(lines) = Picked(b, B)
  BY BlocksSeq, Zenon
<1>6. Blocks(l) = Picked(d, D)
  BY <1>1, BlocksSeq, Zenon
<1>7. Open(lines) = Fields(r) /\ Open(l) = Fields(Rest(l, T))
  BY Zenon DEF Open
<1>8. r \in Seq(Text)
  BY PiecesSeq, Zenon
<1>9. f[r] = Open(lines)
  BY <1>7, <1>8, Zenon DEF FieldsOf
<1> HIDE DEF S, T, f, r
<1>10. CutStep(lines, x, S, T)
  BY <1>3, PiecesStep, Zenon
<1>11. CASE x = <<>>
  <2>1. q = Append(p, r) /\ Rest(l, T) = <<>>
    BY <1>4, <1>10, <1>11, Zenon DEF CutStep, BlankPieces, S, T, l, r
  <2>2. MapStep(p, r, f)
    BY <1>5, <1>8, MappedStep, Zenon
  <2> HIDE DEF p, q
  <2>3. d = Append(b, Open(lines))
    BY <1>9, <2>1, <2>2, Zenon DEF MapStep, AllBlocks, p, q, f
  <2> HIDE DEF b, d
  <2>4. /\ Len(b) \in Nat /\ Len(d) = Len(b) + 1
        /\ \A k \in 1..Len(b) : d[k] = b[k]
        /\ d[Len(b) + 1] = Open(lines)
    BY <1>5, <2>3, Appended
  <2>5. (\A k \in 1..Len(b) : k \in 1..Len(d)) /\ Len(b) + 1 \in 1..Len(d)
    BY <2>4
  <2>6. Agree(B, D, Len(b))
    BY <2>4, <2>5, Zenon DEF Agree
  <2>7. Len(b) + 1 \in D <=> Open(lines) # <<>>
    BY <2>4, <2>5, Zenon
  <2> HIDE DEF B, D
  <2>8. PickStep(b, Open(lines), B, D)
    BY <1>5, <2>6, PickedStep, Zenon
  <2>9. Blocks(l) = IF Open(lines) # <<>> THEN Append(Blocks(lines), Open(lines)) ELSE Blocks(lines)
    BY <1>5, <1>6, <2>3, <2>7, <2>8, Zenon DEF PickStep
  <2>10. Open(l) = <<>>
    <3>1. Len(<<>>) = 0
      OBVIOUS
    <3>2. Fields(<<>>) = <<>>
      BY NoPieces, Zenon DEF Fields
    <3> QED
      BY <1>7, <2>1, <3>2, Zenon
  <2> QED
    BY <1>11, <2>9, <2>10, Zenon DEF BlocksStepOf, l
<1>12. CASE x # <<>>
  <2>1. q = p /\ Rest(l, T) = Append(r, x)
    BY <1>4, <1>10, <1>12, Zenon DEF CutStep, BlankPieces, S, T, l, r
  <2>2. FieldsStepOf(r, x)
    BY <1>8, FieldsStep, Zenon
  <2> HIDE DEF p, q
  <2>3. Open(l) = IF Head(x) # COLON THEN Append(Open(lines), x) ELSE Open(lines)
    BY <1>7, <1>12, <2>1, <2>2, Zenon DEF FieldsStepOf
  <2>4. Blocks(l) = Blocks(lines)
    BY <1>5, <1>6, <2>1, Zenon DEF AllBlocks, p, q
  <2> QED
    BY <1>12, <2>3, <2>4, Zenon DEF BlocksStepOf, l
<1> QED
  BY <1>11, <1>12, Zenon

-----------------------------------------------------------------------------
(***************************************************************************)
(* What a field says                                                       *)
(***************************************************************************)

\* The first colon, or the position behind the end.
LEMMA ColonIs ==
    ASSUME NEW line \in Text
    PROVE  /\ Colon(line) \in 1..(Len(line) + 1)
           /\ \A i \in 1..(Colon(line) - 1) : line[i] # COLON
           /\ Colon(line) \in 1..Len(line) => line[Colon(line)] = COLON
<1> DEFINE colons == {i \in 1..Len(line) : line[i] = COLON} \cup {Len(line) + 1}
<1>1. Len(line) \in Nat
  BY DEF Text
<1>2. colons \in SUBSET Nat /\ colons # {}
  BY <1>1
<1>3. Colon(line) = CHOOSE i \in colons : \A j \in colons : i <= j
  BY Zenon DEF Colon
<1>4. \A i : i \in colons <=> (i \in 1..Len(line) /\ line[i] = COLON) \/ i = Len(line) + 1
  OBVIOUS
<1> HIDE DEF colons
<1>5. \E i \in colons : \A j \in colons : i <= j
  BY <1>2, LeastOf, Zenon
<1>6. Colon(line) \in colons /\ \A j \in colons : Colon(line) <= j
  BY <1>3, <1>5, Zenon
<1>7. Colon(line) \in 1..(Len(line) + 1)
  BY <1>1, <1>4, <1>6
<1>8. ASSUME NEW i \in 1..(Colon(line) - 1) PROVE line[i] # COLON
  <2>1. i \in 1..Len(line) /\ ~(Colon(line) <= i)
    BY <1>1, <1>7
  <2> QED
    BY <1>4, <1>6, <2>1, Zenon
<1>9. ASSUME Colon(line) \in 1..Len(line) PROVE line[Colon(line)] = COLON
  <2>1. Colon(line) # Len(line) + 1
    BY <1>1, <1>9
  <2> QED
    BY <1>4, <1>6, <2>1, Zenon
<1> QED
  BY <1>7, <1>8, <1>9

\* Field() and Value() return texts.
LEMMA FieldText ==
    ASSUME NEW line \in Text
    PROVE  Field(line) \in Text /\ Value(line) \in Text
<1>1. Len(line) \in Nat /\ Colon(line) \in 1..(Len(line) + 1)
  BY ColonIs DEF Text
<1>2. SubSeq(line, 1, Colon(line) - 1) \in Text
  BY <1>1, SubSeqIs DEF Text
<1>3. \A v \in Text : strip_leading_space(v) \in Text
  <2>1. \A v \in Seq(Chars) : v # <<>> => Tail(v) \in Seq(Chars)
    OBVIOUS
  <2> QED
    BY <2>1, Zenon DEF strip_leading_space, Text
<1>4. ~(Colon(line) > Len(line)) => SubSeq(line, Colon(line) + 1, Len(line)) \in Text
  BY <1>1, SubSeqIs DEF Text
<1>5. <<>> \in Text
  BY DEF Text
<1> QED
  BY <1>2, <1>3, <1>4, <1>5, Zenon DEF Field, Value

Named(block, name) == Picked(block, {i \in 1..Len(block) : Field(block[i]) = <<name>>})

ValueOf == [x \in Text |-> Value(x)]

ValuesStepOf(block, x, name) ==
    Values(Append(block, x), name)
       = IF Field(x) = <<name>> THEN Append(Values(block, name), Value(x)) ELSE Values(block, name)

\* Values() returns the values of some fields,
LEMMA ValuesSeq ==
    ASSUME NEW block \in Seq(Text), NEW name
    PROVE  /\ IsMap(ValueOf, Text, Text)
           /\ Named(block, name) \in Seq(Text)
           /\ Values(block, name) \in Seq(Text)
           /\ Values(block, name) = Mapped(Named(block, name), ValueOf)
<1> DEFINE n == Named(block, name)
<1>1. IsMap(ValueOf, Text, Text)
  BY FieldText, Zenon DEF IsMap, ValueOf
<1>2. n \in Seq(Text)
  BY PickedSeq, Zenon DEF Named
<1>3. \A k \in 1..Len(n) : n[k] \in Text
  BY <1>2
<1>4. Values(block, name) = [i \in 1..Len(n) |-> Value(n[i])]
  BY Zenon DEF Values, Named
<1>5. Values(block, name) = Mapped(n, ValueOf)
  BY <1>3, <1>4, Zenon DEF Mapped, ValueOf
<1>6. Values(block, name) \in Seq(Text)
  BY <1>1, <1>2, <1>5, MappedSeq, Zenon
<1> QED
  BY <1>1, <1>2, <1>5, <1>6, Zenon

\* also that of a field that is appended, if it has the name.
LEMMA ValuesStep ==
    ASSUME NEW block \in Seq(Text), NEW x \in Text, NEW name
    PROVE  ValuesStepOf(block, x, name)
<1> DEFINE l == Append(block, x)
           S == {i \in 1..Len(block) : Field(block[i]) = <<name>>}
           T == {i \in 1..Len(l) : Field(l[i]) = <<name>>}
<1>1. /\ l \in Seq(Text) /\ Len(l) = Len(block) + 1 /\ Len(block) \in Nat
      /\ \A k \in 1..Len(block) : l[k] = block[k]
      /\ l[Len(block) + 1] = x
  BY Appended
<1> HIDE DEF l
<1>2. (\A i \in 1..Len(block) : i \in 1..Len(l)) /\ Len(block) + 1 \in 1..Len(l)
  BY <1>1
<1>3. Agree(S, T, Len(block))
  BY <1>1, <1>2, Zenon DEF Agree
<1>4. Len(block) + 1 \in T <=> Field(x) = <<name>>
  BY <1>1, <1>2, Zenon
<1>5. Named(block, name) = Picked(block, S) /\ Named(l, name) = Picked(l, T)
  BY Zenon DEF Named
<1> HIDE DEF S, T
<1>6. PickStep(block, x, S, T)
  BY <1>3, PickedStep, Zenon
<1>7. Named(l, name) = IF Field(x) = <<name>> THEN Append(Named(block, name), x)
                                              ELSE Named(block, name)
  BY <1>4, <1>5, <1>6, Zenon DEF PickStep, l
<1>8. /\ IsMap(ValueOf, Text, Text) /\ Named(block, name) \in Seq(Text)
      /\ Values(block, name) = Mapped(Named(block, name), ValueOf)
      /\ Values(l, name) = Mapped(Named(l, name), ValueOf)
  BY <1>1, ValuesSeq, Zenon
<1>9. MapStep(Named(block, name), x, ValueOf)
  BY <1>8, MappedStep, Zenon
<1>10. ValueOf[x] = Value(x)
  BY Zenon DEF ValueOf
<1>11. Values(l, name) = IF Field(x) = <<name>> THEN Append(Values(block, name), Value(x))
                                                ELSE Values(block, name)
  BY <1>7, <1>8, <1>9, <1>10, Zenon DEF MapStep
<1> QED
  BY <1>11, Zenon DEF ValuesStepOf, l

\* What process_line() makes of the values of the data lines: they are joined from
\* the first that is not empty on.
KeptJoin(values) ==
    LET upto[n \in 0..Len(values)] ==
            IF n = 0 THEN <<>>
            ELSE IF \A i \in 1..(n - 1) : values[i] = <<>> THEN values[n]
            ELSE upto[n - 1] \o <<LF>> \o values[n]
    IN  upto[Len(values)]

IsJoin(g, values, n) ==
    g = [i \in 0..n |-> IF i = 0 THEN <<>>
                        ELSE IF \A j \in 1..(i - 1) : values[j] = <<>> THEN values[i]
                        ELSE g[i - 1] \o <<LF>> \o values[i]]

Joins(g, values, n) ==
    /\ g \in [0..n -> Text]
    /\ g[0] = <<>>
    /\ \A i \in 1..n : g[i] = IF \A j \in 1..(i - 1) : values[j] = <<>> THEN values[i]
                              ELSE g[i - 1] \o <<LF>> \o values[i]

\* The recursion of KeptJoin() has a result, and this is what it does.
LEMMA JoinSteps ==
    ASSUME NEW values \in Seq(Text)
    PROVE  \E g : Joins(g, values, Len(values)) /\ KeptJoin(values) = g[Len(values)]
<1> DEFINE n == Len(values)
           Add(x, i) == IF \A j \in 1..(i - 1) : values[j] = <<>> THEN values[i]
                        ELSE x \o <<LF>> \o values[i]
           F == [i \in 1..n |-> [x \in Text |-> Add(x, i)]]
<1>1. n \in Nat
  OBVIOUS
<1>2. \A i \in 1..n, x \in Text : Add(x, i) \in Text
  <2>1. \A i \in 1..n : values[i] \in Text
    OBVIOUS
  <2>2. \A x, y \in Text : x \o <<LF>> \o y \in Text
    BY TextParts, Zenon
  <2> QED
    BY <2>1, <2>2, Zenon
<1> HIDE DEF Add, n
<1>3. F \in [1..n -> [Text -> Text]] /\ <<>> \in Text
  <2>1. <<>> \in Text
    BY DEF Text
  <2> QED
    BY <1>2, <2>1, Zenon
<1>4. \A i \in 1..n, x \in Text : F[i][x] = Add(x, i)
  BY Zenon
<1> HIDE DEF F
<1>5. PICK g \in [0..n -> Text] : Follows(g, <<>>, F, n)
  BY <1>1, <1>3, Recursion, Zenon
<1>6. ASSUME NEW i \in 0..n
      PROVE  (IF i = 0 THEN <<>> ELSE F[i][g[i - 1]]) = (IF i = 0 THEN <<>> ELSE Add(g[i - 1], i))
  <2>1. i # 0 => i \in 1..n /\ g[i - 1] \in Text
    BY <1>1
  <2> QED
    BY <1>4, <2>1, Zenon
<1>7. g = [i \in 0..n |-> IF i = 0 THEN <<>> ELSE Add(g[i - 1], i)]
  BY <1>5, <1>6, Zenon DEF Follows
<1>8. IsJoin(g, values, n)
  BY <1>7, Zenon DEF IsJoin, Add
<1>9. PICK h : h = (CHOOSE f : IsJoin(f, values, n)) /\ IsJoin(h, values, n)
  BY <1>8, Zenon
<1>10. KeptJoin(values) = h[n]
  BY <1>9, Zenon DEF KeptJoin, IsJoin, n
<1>11. /\ h[0] = <<>>
       /\ \A i \in 1..n : h[i] = Add(h[i - 1], i)
  <2>1. h = [i \in 0..n |-> IF i = 0 THEN <<>> ELSE Add(h[i - 1], i)]
    BY <1>9, Zenon DEF IsJoin, Add
  <2>2. \A i \in 0..n : h[i] = IF i = 0 THEN <<>> ELSE Add(h[i - 1], i)
    BY <2>1, Zenon
  <2>3. 0 \in 0..n /\ \A i \in 1..n : i \in 0..n /\ i # 0
    BY <1>1
  <2> QED
    BY <2>2, <2>3, Zenon
<1>12. \A i \in 0..n : h[i] \in Text
  <2> DEFINE P == {i \in 0..n : h[i] \in Text}
  <2>1. 0 \in P
    <3>1. 0 \in 0..n
      BY <1>1
    <3> QED
      BY <3>1, <1>3, <1>11, Zenon
  <2>2. ASSUME NEW i \in 1..n, i - 1 \in P PROVE i \in P
    <3>1. i \in 0..n
      BY <1>1
    <3> QED
      BY <1>2, <1>11, <2>2, <3>1, Zenon
  <2> HIDE DEF P
  <2>3. \A i \in 0..n : i \in P
    BY <1>1, <2>1, <2>2, UpTo, Zenon
  <2> QED
    BY <2>3 DEF P
<1>13. h \in [0..n -> Text]
  <2>1. h = [i \in 0..n |-> h[i]]
    BY <1>9, Zenon DEF IsJoin
  <2> QED
    BY <2>1, <1>12, Zenon
<1>14. Joins(h, values, n)
  BY <1>11, <1>13, Zenon DEF Joins, Add
<1> QED
  BY <1>10, <1>14, Zenon DEF n

\* One more value goes behind the others.
LEMMA JoinedStep ==
    ASSUME NEW values \in Seq(Text), NEW v \in Text
    PROVE  /\ KeptJoin(values) \in Text
           /\ KeptJoin(Append(values, v)) = AddData(KeptJoin(values), v)
<1> DEFINE n == Len(values)
           w == Append(values, v)
           None(i) == \A j \in 1..i : values[j] = <<>>
<1>1. /\ w \in Seq(Text) /\ Len(w) = n + 1 /\ n \in Nat
      /\ \A k \in 1..n : w[k] = values[k]
      /\ w[n + 1] = v
  BY Appended
<1> HIDE DEF w
<1>2. PICK g : Joins(g, values, n) /\ KeptJoin(values) = g[n]
  BY JoinSteps, Zenon
<1>3. PICK h : Joins(h, w, n + 1) /\ KeptJoin(w) = h[n + 1]
  BY <1>1, JoinSteps, Zenon
<1>4. \A i \in 1..n : values[i] \in Text
  OBVIOUS
<1> HIDE DEF n
<1>5. /\ g[0] = <<>> /\ \A i \in 0..n : g[i] \in Text
      /\ \A i \in 1..n : g[i] = IF None(i - 1) THEN values[i] ELSE g[i - 1] \o <<LF>> \o values[i]
  BY <1>2, Zenon DEF Joins
<1>6. \A i \in 1..(n + 1) : (\A j \in 1..(i - 1) : w[j] = <<>>) <=> None(i - 1)
  <2>1. \A i \in 1..(n + 1) : \A j \in 1..(i - 1) : j \in 1..n
    BY <1>1
  <2> QED
    BY <1>1, <2>1, Zenon
<1>7. /\ h[0] = <<>>
      /\ \A i \in 1..(n + 1) : h[i] = IF None(i - 1) THEN w[i] ELSE h[i - 1] \o <<LF>> \o w[i]
  BY <1>3, <1>6, Zenon DEF Joins
<1>8. \A i \in 1..n : None(i) <=> None(i - 1) /\ values[i] = <<>>
  <2>1. \A i \in 1..n : i \in 1..i /\ \A j \in 1..i : j \in 1..(i - 1) \/ j = i
    BY <1>1
  <2>2. \A i \in 1..n : \A j \in 1..(i - 1) : j \in 1..i
    BY <1>1
  <2> QED
    BY <2>1, <2>2, Zenon
<1>9. None(0)
  OBVIOUS
<1> HIDE DEF None
<1>10. \A x, y \in Text : x \o <<LF>> \o y # <<>>
  BY DEF Text, LF
<1> DEFINE P == {i \in 0..n : h[i] = g[i] /\ (g[i] = <<>> <=> None(i))}
<1>11. 0 \in P
  <2>1. 0 \in 0..n
    BY <1>1
  <2> QED
    BY <1>5, <1>7, <1>9, <2>1, Zenon
<1>12. ASSUME NEW i \in 1..n, i - 1 \in P PROVE i \in P
  <2>1. i \in 0..n /\ i \in 1..(n + 1) /\ i - 1 \in 0..n
    BY <1>1
  <2>2. h[i - 1] = g[i - 1] /\ (g[i - 1] = <<>> <=> None(i - 1))
    BY <1>12, Zenon
  <2>3. CASE None(i - 1)
    BY <1>1, <1>5, <1>7, <1>8, <2>1, <2>3, Zenon
  <2>4. CASE ~None(i - 1)
    <3>1. h[i] = g[i] /\ g[i] = g[i - 1] \o <<LF>> \o values[i]
      BY <1>1, <1>5, <1>7, <2>1, <2>2, <2>4, Zenon
    <3>2. g[i] # <<>>
      BY <1>4, <1>5, <1>10, <2>1, <3>1, Zenon
    <3> QED
      BY <1>8, <2>1, <2>4, <3>1, <3>2, Zenon
  <2> QED
    BY <2>3, <2>4, Zenon
<1> HIDE DEF P
<1>13. \A i \in 0..n : i \in P
  BY <1>1, <1>11, <1>12, UpTo, Zenon
<1>14. n \in 0..n /\ n + 1 \in 1..(n + 1) /\ (n + 1) - 1 = n
  BY <1>1
<1>15. h[n] = g[n] /\ (g[n] = <<>> <=> None(n))
  BY <1>13, <1>14, Zenon DEF P
<1>16. h[n + 1] = IF None(n) THEN v ELSE h[n] \o <<LF>> \o v
  BY <1>1, <1>7, <1>14, Zenon
<1>17. KeptJoin(w) = AddData(KeptJoin(values), v)
  BY <1>2, <1>3, <1>15, <1>16, Zenon DEF AddData
<1> QED
  BY <1>2, <1>5, <1>14, <1>17, Zenon DEF w

DataOf(block) == KeptJoin(Values(block, "data"))

TypeOf(block) ==
    LET named == Values(block, "event") IN IF named = <<>> THEN <<>> ELSE named[Len(named)]

\* What a block says of its event, line by line.
LEMMA EventStep ==
    ASSUME NEW block \in Seq(Text), NEW x \in Text
    PROVE  /\ DataOf(Append(block, x))
                = IF Field(x) = <<"data">> THEN AddData(DataOf(block), Value(x)) ELSE DataOf(block)
           /\ TypeOf(Append(block, x))
                = IF Field(x) = <<"event">> THEN Value(x) ELSE TypeOf(block)
<1>1. ValuesStepOf(block, x, "data") /\ ValuesStepOf(block, x, "event")
  BY ValuesStep, Zenon
<1>2. Values(block, "data") \in Seq(Text) /\ Values(block, "event") \in Seq(Text)
  BY ValuesSeq, Zenon
<1>3. Value(x) \in Text
  BY FieldText, Zenon
<1>4. KeptJoin(Append(Values(block, "data"), Value(x))) = AddData(DataOf(block), Value(x))
  BY <1>2, <1>3, JoinedStep, Zenon DEF DataOf
<1>5. DataOf(Append(block, x))
         = IF Field(x) = <<"data">> THEN AddData(DataOf(block), Value(x)) ELSE DataOf(block)
  BY <1>1, <1>4, Zenon DEF DataOf, ValuesStepOf
<1>6. CASE Field(x) = <<"event">>
  <2>1. PICK s : s = Values(block, "event") /\ s \in Seq(Text)
    BY <1>2, Zenon
  <2>2. Values(Append(block, x), "event") = Append(s, Value(x))
    BY <1>1, <1>6, <2>1, Zenon DEF ValuesStepOf
  <2>3. /\ Append(s, Value(x)) # <<>>
        /\ Append(s, Value(x))[Len(Append(s, Value(x)))] = Value(x)
    BY <1>3, <2>1
  <2> QED
    BY <1>5, <1>6, <2>2, <2>3, Zenon DEF TypeOf
<1>7. CASE Field(x) # <<"event">>
  BY <1>1, <1>5, <1>7, Zenon DEF ValuesStepOf, TypeOf
<1> QED
  BY <1>6, <1>7, Zenon

\* What it says is text,
LEMMA EventText ==
    ASSUME NEW block \in Seq(Text)
    PROVE  DataOf(block) \in Text /\ TypeOf(block) \in Text
<1>1. Values(block, "data") \in Seq(Text) /\ Values(block, "event") \in Seq(Text)
  BY ValuesSeq, Zenon
<1>2. DataOf(block) \in Text
  BY <1>1, TextParts, JoinedStep, Zenon DEF DataOf
<1>3. ASSUME NEW s \in Seq(Text), s # <<>> PROVE s[Len(s)] \in Text
  BY <1>3
<1>4. TypeOf(block) \in Text
  BY <1>1, <1>3, TextParts, Zenon DEF TypeOf
<1> QED
  BY <1>2, <1>4

\* and empty before there is a line.
LEMMA NoEvent ==
    /\ DataOf(<<>>) = <<>> /\ TypeOf(<<>>) = <<>>
    /\ Values(<<>>, "data") = <<>>
<1>1. Len(<<>>) = 0 /\ <<>> \in Seq(Text) /\ <<>> = [k \in 1..0 |-> k]
  OBVIOUS
<1>2. ASSUME NEW name PROVE Values(<<>>, name) = <<>>
  <2>1. Named(<<>>, name) = <<>>
    BY NoPieces, Zenon DEF Named
  <2>2. Values(<<>>, name) = Mapped(<<>>, ValueOf)
    BY <1>1, <2>1, ValuesSeq, Zenon
  <2> QED
    BY <1>1, <2>2 DEF Mapped
<1>3. KeptJoin(<<>>) = <<>>
  <2>1. PICK g : Joins(g, <<>>, Len(<<>>)) /\ KeptJoin(<<>>) = g[Len(<<>>)]
    BY <1>1, JoinSteps, Zenon
  <2> QED
    BY <1>1, <2>1, Zenon DEF Joins
<1> QED
  BY <1>2, <1>3, Zenon DEF DataOf, TypeOf

-----------------------------------------------------------------------------
(***************************************************************************)
(* The parser                                                              *)
(***************************************************************************)

Event == [data : Text, event : Text]

\* The events of a text as the parser has them.
KeptEvent(block) == [data |-> DataOf(block), event |-> TypeOf(block)]

KeptEvents(t) ==
    LET blocks == Blocks(Lines(t)) IN [k \in 1..Len(blocks) |-> KeptEvent(blocks[k])]

EventFn == [b \in Seq(Text) |-> KeptEvent(b)]

\* The fields of the parser, and the events so far.
Parser(b, d, e, h) == [line_buf |-> b, cur_data |-> d, cur_event |-> e, have_field |-> h]

State(b, d, e, h, evs) == [p |-> Parser(b, d, e, h), evs |-> evs]

LineBufOf(s, b) == s.p.line_buf = b

\* What has been read of a line.
LEMMA StateLine ==
    ASSUME NEW b, NEW d, NEW e, NEW h, NEW evs
    PROVE  LineBufOf(State(b, d, e, h, evs), b)
BY DEF LineBufOf, State, Parser

\* What the parser has made of a text.
Parsed(t) ==
    LET open == Open(Lines(t))
    IN  State(Unended(t), DataOf(open), TypeOf(open), open # <<>>, KeptEvents(t))

\* What the parts of the parser do with such a state.
DispatchOf(b, d, e, h, evs) ==
    dispatch(State(b, d, e, h, evs))
       = IF h THEN State(b, <<>>, <<>>, FALSE, Append(evs, [data |-> d, event |-> e]))
         ELSE State(b, d, e, h, evs)

ClearLineOf(b, d, e, h, evs) == ClearLine(State(b, d, e, h, evs)) = State(<<>>, d, e, h, evs)

LineOf(line, b, d, e, h, evs) ==
    process_line(line, State(b, d, e, h, evs))
       = State(b, IF Field(line) = <<"data">> THEN AddData(d, Value(line)) ELSE d,
               IF Field(line) = <<"event">> THEN Value(line) ELSE e, TRUE, evs)

PushOf(c, b, d, e, h, evs) ==
    FeedChar(State(b, d, e, h, evs), c) = State(Append(b, c), d, e, h, evs)

\* An event is complete,
LEMMA DispatchIs ==
    ASSUME NEW b, NEW d, NEW e, NEW h \in BOOLEAN, NEW evs
    PROVE  DispatchOf(b, d, e, h, evs)
<1> DEFINE s == State(b, d, e, h, evs)
<1>1. /\ s.p.line_buf = b /\ s.p.cur_data = d /\ s.p.cur_event = e
      /\ s.p.have_field = h /\ s.evs = evs
  BY Zenon DEF State, Parser
<1>2. [FreshParser EXCEPT !.line_buf = b] = Parser(b, <<>>, <<>>, FALSE)
  <2>1. \A a, c, f, g : [Parser(a, c, f, g) EXCEPT !.line_buf = b] = Parser(b, c, f, g)
    BY DEF Parser
  <2>2. PICK no : no = FALSE /\ FreshParser = Parser(<<>>, <<>>, <<>>, no)
    BY Zenon DEF FreshParser, Parser
  <2>3. [FreshParser EXCEPT !.line_buf = b] = Parser(b, <<>>, <<>>, no)
    BY <2>1, <2>2, SMT
  <2> QED
    BY <2>2, <2>3, Zenon
<1> HIDE DEF s
<1>3. dispatch(s) = IF h THEN State(b, <<>>, <<>>, FALSE, Append(evs, [data |-> d, event |-> e]))
                    ELSE s
  BY <1>1, <1>2, Zenon DEF dispatch, State
<1> QED
  BY <1>3, Zenon DEF DispatchOf, s

\* a line has been read,
LEMMA ClearLineIs ==
    ASSUME NEW b, NEW d, NEW e, NEW h, NEW evs
    PROVE  ClearLineOf(b, d, e, h, evs)
BY DEF ClearLineOf, ClearLine, State, Parser

\* a line has a field,
LEMMA LineIs ==
    ASSUME NEW b, NEW d, NEW e, NEW h, NEW evs, NEW line, line # <<>>, Head(line) # COLON
    PROVE  LineOf(line, b, d, e, h, evs)
BY Zenon DEF LineOf, process_line, State, Parser

\* and a line goes on.
LEMMA PushIs ==
    ASSUME NEW b, NEW d, NEW e, NEW h, NEW evs, NEW c, c # LF
    PROVE  PushOf(c, b, d, e, h, evs)
<1> DEFINE s == State(b, d, e, h, evs)
<1>1. \A v : [s EXCEPT !.p.line_buf = v] = State(v, d, e, h, evs)
  BY DEF State, Parser
<1>2. s.p.line_buf = b
  BY Zenon DEF State, Parser
<1> HIDE DEF s
<1>3. FeedChar(s, c) = [s EXCEPT !.p.line_buf = Append(s.p.line_buf, c)]
  BY Zenon DEF FeedChar
<1> QED
  BY <1>1, <1>2, <1>3, Zenon DEF PushOf, s

\* The events of a text are those of its blocks.
LEMMA EventsSeq ==
    ASSUME NEW t \in Text
    PROVE  /\ IsMap(EventFn, Seq(Text), Event)
           /\ Blocks(Lines(t)) \in Seq(Seq(Text)) /\ Open(Lines(t)) \in Seq(Text)
           /\ KeptEvents(t) = Mapped(Blocks(Lines(t)), EventFn)
           /\ KeptEvents(t) \in Seq(Event)
<1> DEFINE b == Blocks(Lines(t))
<1>1. b \in Seq(Seq(Text)) /\ Open(Lines(t)) \in Seq(Text)
  BY LinesSeq, BlocksSeq, Zenon
<1>2. ASSUME NEW x \in Seq(Text) PROVE KeptEvent(x) \in Event
  <2>1. KeptEvent(x) = [data |-> DataOf(x), event |-> TypeOf(x)]
    BY Zenon DEF KeptEvent, DataOf, TypeOf
  <2>2. DataOf(x) \in Text /\ TypeOf(x) \in Text
    BY EventText, Zenon
  <2> QED
    BY <2>1, <2>2 DEF Event
<1>3. IsMap(EventFn, Seq(Text), Event)
  BY <1>2, Zenon DEF IsMap, EventFn
<1>4. \A k \in 1..Len(b) : b[k] \in Seq(Text)
  BY <1>1
<1>5. KeptEvents(t) = [k \in 1..Len(b) |-> KeptEvent(b[k])]
  BY Zenon DEF KeptEvents
<1> HIDE DEF b
<1>6. KeptEvents(t) = Mapped(b, EventFn)
  BY <1>4, <1>5, Zenon DEF Mapped, EventFn
<1>7. KeptEvents(t) \in Seq(Event)
  BY <1>1, <1>3, <1>6, MappedSeq, Zenon
<1> QED
  BY <1>1, <1>3, <1>6, <1>7, Zenon DEF b

\* A blank line ends an event, if there were fields; no other line does.
LEMMA EventsStep ==
    ASSUME NEW t \in Text, NEW u \in Text, NEW x \in Text, Lines(u) = Append(Lines(t), x)
    PROVE  /\ x = <<>> /\ Open(Lines(t)) # <<>> =>
                 KeptEvents(u) = Append(KeptEvents(t), KeptEvent(Open(Lines(t))))
           /\ ~(x = <<>> /\ Open(Lines(t)) # <<>>) => KeptEvents(u) = KeptEvents(t)
<1> DEFINE l == Lines(t)
<1>1. l \in Seq(Text)
  BY LinesSeq, Zenon
<1>2. /\ IsMap(EventFn, Seq(Text), Event)
      /\ Blocks(l) \in Seq(Seq(Text)) /\ Open(l) \in Seq(Text)
      /\ KeptEvents(t) = Mapped(Blocks(l), EventFn)
      /\ KeptEvents(u) = Mapped(Blocks(Append(l, x)), EventFn)
  BY EventsSeq, Zenon
<1>3. BlocksStepOf(l, x)
  BY <1>1, BlocksStep, Zenon
<1>4. MapStep(Blocks(l), Open(l), EventFn)
  BY <1>2, MappedStep, Zenon
<1>5. EventFn[Open(l)] = KeptEvent(Open(l))
  BY <1>2, Zenon DEF EventFn
<1> HIDE DEF l
<1>6. x = <<>> /\ Open(l) # <<>> => KeptEvents(u) = Append(KeptEvents(t), KeptEvent(Open(l)))
  BY <1>2, <1>3, <1>4, <1>5, Zenon DEF BlocksStepOf, MapStep
<1>7. ~(x = <<>> /\ Open(l) # <<>>) => KeptEvents(u) = KeptEvents(t)
  BY <1>2, <1>3, Zenon DEF BlocksStepOf
<1> QED
  BY <1>6, <1>7, Zenon DEF l

\* What the parser has made of a text and one more character.
LEMMA ParsedStep ==
    ASSUME NEW t \in Text, NEW c \in Chars
    PROVE  FeedChar(Parsed(t), c) = Parsed(Append(t, c))
<1> DEFINE u == Append(t, c)
           l == Lines(t)
           o == Open(l)
           x == StripCR(Unended(t))
           d == DataOf(o)
           e == TypeOf(o)
           s == Parsed(t)
<1>1. u \in Text
  BY Appended, Zenon DEF Text
<1>2. l \in Seq(Text) /\ Unended(t) \in Text /\ x \in Text /\ o \in Seq(Text)
  BY LinesSeq, StripCRText, BlocksSeq, Zenon
<1>3. PICK h \in BOOLEAN : h = (o # <<>>)
  BY Zenon
<1>4. s = State(Unended(t), d, e, h, KeptEvents(t))
  BY <1>3, Zenon DEF Parsed
<1> HIDE DEF s
<1>5. CASE c # LF
  <2>1. Lines(u) = l /\ Unended(u) = Append(Unended(t), c)
    BY <1>5, LinesStep, Zenon DEF LinesStepOf
  <2>2. KeptEvents(u) = KeptEvents(t)
    BY <2>1, Zenon DEF KeptEvents
  <2>3. PushOf(c, Unended(t), d, e, h, KeptEvents(t))
    BY <1>5, PushIs, Zenon
  <2> QED
    BY <1>3, <1>4, <2>1, <2>2, <2>3, Zenon DEF Parsed, PushOf, s
<1>6. CASE c = LF
  <2>1. Lines(u) = Append(l, x) /\ Unended(u) = <<>>
    BY <1>6, LinesStep, Zenon DEF LinesStepOf
  <2>2. BlocksStepOf(l, x)
    BY <1>2, BlocksStep, Zenon
  <2>3. /\ x = <<>> /\ o # <<>> => KeptEvents(u) = Append(KeptEvents(t), KeptEvent(o))
        /\ ~(x = <<>> /\ o # <<>>) => KeptEvents(u) = KeptEvents(t)
    BY <1>1, <1>2, <2>1, EventsStep, Zenon
  <2>4. s.p.line_buf = Unended(t)
    BY <1>4, Zenon DEF State, Parser
  <2>5. FeedChar(s, c) = ClearLine(process_line(x, s))
    BY <1>6, <2>4, Zenon DEF FeedChar
  <2>6. Parsed(u) = State(<<>>, DataOf(Open(Append(l, x))), TypeOf(Open(Append(l, x))),
                          Open(Append(l, x)) # <<>>, KeptEvents(u))
    BY <2>1, Zenon DEF Parsed
  <2>7. KeptEvent(o) = [data |-> d, event |-> e]
    BY Zenon DEF KeptEvent, DataOf, TypeOf
  <2> SUFFICES FeedChar(s, c) = Parsed(u)
    BY Zenon DEF s
  <2> HIDE DEF u, l, o, x, d, e
  <2>8. CASE x = <<>>
    <3>1. Parsed(u) = State(<<>>, <<>>, <<>>, FALSE, KeptEvents(u))
      <4>1. (<<>> # <<>>) = FALSE
        BY Zenon
      <4> QED
        BY <2>2, <2>6, <2>8, <4>1, NoEvent, Zenon DEF BlocksStepOf
    <3>2. FeedChar(s, c) = ClearLine(dispatch(s))
      BY <2>5, <2>8, Zenon DEF process_line
    <3>3. DispatchOf(Unended(t), d, e, h, KeptEvents(t))
      BY DispatchIs, Zenon
    <3>4. CASE o # <<>>
      <4>1. dispatch(s) = State(Unended(t), <<>>, <<>>, FALSE, KeptEvents(u))
        BY <1>3, <1>4, <2>3, <2>7, <2>8, <3>3, <3>4, Zenon DEF DispatchOf
      <4>2. ClearLineOf(Unended(t), <<>>, <<>>, FALSE, KeptEvents(u))
        BY ClearLineIs, Zenon
      <4> QED
        BY <3>1, <3>2, <4>1, <4>2, Zenon DEF ClearLineOf
    <3>5. CASE o = <<>>
      <4>1. d = <<>> /\ e = <<>> /\ h = FALSE /\ KeptEvents(u) = KeptEvents(t)
        BY <1>3, <2>3, <3>5, NoEvent, Zenon DEF d, e
      <4>2. dispatch(s) = s
        BY <1>4, <3>3, <4>1, Zenon DEF DispatchOf
      <4>3. ClearLineOf(Unended(t), d, e, h, KeptEvents(t))
        BY ClearLineIs, Zenon
      <4> QED
        BY <1>4, <3>1, <3>2, <4>1, <4>2, <4>3, Zenon DEF ClearLineOf
    <3> QED
      BY <3>4, <3>5, Zenon
  <2>9. CASE x # <<>> /\ Head(x) = COLON
    <3>1. FeedChar(s, c) = ClearLine(s)
      BY <2>5, <2>9, Zenon DEF process_line
    <3>2. Parsed(u) = State(<<>>, d, e, h, KeptEvents(t))
      BY <1>3, <2>2, <2>3, <2>6, <2>9, Zenon DEF BlocksStepOf, o, d, e
    <3>3. ClearLineOf(Unended(t), d, e, h, KeptEvents(t))
      BY ClearLineIs, Zenon
    <3> QED
      BY <1>4, <3>1, <3>2, <3>3, Zenon DEF ClearLineOf
  <2>10. CASE x # <<>> /\ Head(x) # COLON
    <3>1. Open(Append(l, x)) = Append(o, x)
      BY <2>2, <2>10, Zenon DEF BlocksStepOf, o
    <3>2. (Append(o, x) # <<>>) = TRUE
      <4>1. Append(o, x) # <<>>
        BY <1>2
      <4> QED
        BY <4>1, Zenon
    <3>3. /\ DataOf(Append(o, x)) = IF Field(x) = <<"data">> THEN AddData(d, Value(x)) ELSE d
          /\ TypeOf(Append(o, x)) = IF Field(x) = <<"event">> THEN Value(x) ELSE e
      BY <1>2, EventStep, Zenon DEF d, e
    <3>4. Parsed(u) = State(<<>>, DataOf(Append(o, x)), TypeOf(Append(o, x)), TRUE, KeptEvents(t))
      BY <2>3, <2>6, <2>10, <3>1, <3>2, Zenon
    <3>5. LineOf(x, Unended(t), d, e, h, KeptEvents(t))
      BY <2>10, LineIs, Zenon
    <3>6. process_line(x, s) = State(Unended(t), DataOf(Append(o, x)), TypeOf(Append(o, x)), TRUE,
                                     KeptEvents(t))
      BY <1>4, <3>3, <3>5, Zenon DEF LineOf
    <3>7. ClearLineOf(Unended(t), DataOf(Append(o, x)), TypeOf(Append(o, x)), TRUE, KeptEvents(t))
      BY ClearLineIs, Zenon
    <3> QED
      BY <2>5, <3>4, <3>6, <3>7, Zenon DEF ClearLineOf
  <2> QED
    BY <2>8, <2>9, <2>10, Zenon
<1> QED
  BY <1>5, <1>6, Zenon

\* Nothing comes of an empty text.
LEMMA EmptyText ==
    /\ Lines(<<>>) = <<>> /\ Unended(<<>>) = <<>> /\ Open(<<>>) = <<>>
    /\ KeptEvents(<<>>) = <<>>
<1>1. <<>> \in Text /\ Len(<<>>) = 0 /\ <<>> = [k \in 1..0 |-> k]
  BY DEF Text
<1>2. Lines(<<>>) = <<>>
  BY <1>1, NoPieces DEF Lines
<1>3. Unended(<<>>) = <<>>
  BY NoPieces, Zenon DEF Unended
<1>4. Open(<<>>) = <<>>
  BY NoPieces, Zenon DEF Open, Fields
<1>5. AllBlocks(<<>>) = <<>>
  <2>1. BlankPieces(<<>>) = <<>>
    BY NoPieces, Zenon DEF BlankPieces
  <2> QED
    BY <1>1, <2>1 DEF AllBlocks, Mapped
<1>6. Blocks(<<>>) = <<>>
  <2>1. <<>> \in Seq(Text)
    OBVIOUS
  <2>2. Blocks(<<>>) = Picked(<<>>, {k \in 1..Len(<<>>) : <<>>[k] # <<>>})
    BY <1>5, <2>1, BlocksSeq, Zenon
  <2> QED
    BY <2>2, NoPieces, Zenon
<1>7. KeptEvents(<<>>) = <<>>
  <2>1. KeptEvents(<<>>) = Mapped(<<>>, EventFn)
    BY <1>1, <1>2, <1>6, EventsSeq, Zenon
  <2> QED
    BY <1>1, <2>1 DEF Mapped
<1> QED
  BY <1>2, <1>3, <1>4, <1>7, Zenon

\* Before the first character the parser is new.
LEMMA ParsedEmpty == Parsed(<<>>) = [p |-> FreshParser, evs |-> <<>>]
<1>1. (<<>> # <<>>) = FALSE
  BY Zenon
<1> QED
  BY <1>1, EmptyText, NoEvent, Zenon DEF Parsed, State, Parser, FreshParser

IsFeed(g, chunk, s) ==
    g = [n \in 0..Len(chunk) |-> IF n = 0 THEN s ELSE FeedChar(g[n - 1], chunk[n])]

\* A chunk goes behind the text so far, wherever the reads cut it.
LEMMA FeedIs ==
    ASSUME NEW t \in Text, NEW chunk \in Text
    PROVE  feed(chunk, Parsed(t)) = Parsed(t \o chunk)
<1> DEFINE n == Len(chunk)
           to(i) == t \o SubSeq(chunk, 1, i)
           s == Parsed(t)
           g == [i \in 0..n |-> Parsed(to(i))]
<1>1. n \in Nat /\ t \in Seq(Chars) /\ chunk \in Seq(Chars)
  BY DEF Text
<1>2. to(0) = t /\ to(n) = t \o chunk
  BY <1>1
<1>3. ASSUME NEW i \in 1..n
      PROVE  /\ i - 1 \in 0..n /\ chunk[i] \in Chars
             /\ to(i - 1) \in Text /\ to(i) = Append(to(i - 1), chunk[i])
  BY <1>1 DEF Text
<1> HIDE DEF n, to
<1>4. ASSUME NEW i \in 1..n PROVE Parsed(to(i)) = FeedChar(Parsed(to(i - 1)), chunk[i])
  BY <1>3, ParsedStep, Zenon
<1>5. ASSUME NEW i \in 0..n
      PROVE  Parsed(to(i)) = IF i = 0 THEN s ELSE FeedChar(g[i - 1], chunk[i])
  <2>1. CASE i = 0
    BY <1>2, <2>1, Zenon
  <2>2. CASE i # 0
    <3>1. i \in 1..n /\ i - 1 \in 0..n
      BY <1>1, <2>2
    <3>2. g[i - 1] = Parsed(to(i - 1))
      BY <3>1, Zenon
    <3> QED
      BY <1>4, <2>2, <3>1, <3>2, Zenon
  <2> QED
    BY <2>1, <2>2, Zenon
<1>6. IsFeed(g, chunk, s)
  BY <1>5, Zenon DEF IsFeed, n
<1> HIDE DEF g, s
<1>7. PICK h : h = (CHOOSE f : IsFeed(f, chunk, s)) /\ IsFeed(h, chunk, s)
  BY <1>6, Zenon
<1>8. feed(chunk, s) = h[n]
  BY <1>7, Zenon DEF feed, IsFeed, n
<1>9. \A i \in 0..n : h[i] = IF i = 0 THEN s ELSE FeedChar(h[i - 1], chunk[i])
  BY <1>7, Zenon DEF IsFeed, n
<1> DEFINE P == {i \in 0..n : h[i] = Parsed(to(i))}
<1>10. 0 \in P
  <2>1. 0 \in 0..n
    BY <1>1
  <2> QED
    BY <1>2, <1>9, <2>1, Zenon DEF s
<1>11. ASSUME NEW i \in 1..n, i - 1 \in P PROVE i \in P
  <2>1. i \in 0..n /\ i # 0
    BY <1>1
  <2>2. h[i] = FeedChar(h[i - 1], chunk[i])
    BY <1>9, <2>1, Zenon
  <2> QED
    BY <1>4, <1>11, <2>1, <2>2, Zenon
<1> HIDE DEF P
<1>12. \A i \in 0..n : i \in P
  BY <1>1, <1>10, <1>11, UpTo, Zenon
<1>13. n \in 0..n
  BY <1>1
<1>14. h[n] = Parsed(to(n))
  BY <1>12, <1>13, Zenon DEF P
<1> QED
  BY <1>2, <1>8, <1>14, Zenon DEF s

\* A blank line ends the event.
LEMMA BlankIs ==
    ASSUME NEW t \in Text, Unended(t) = <<>>, NEW u, u = Append(t, LF)
    PROVE  /\ u \in Text /\ Unended(u) = <<>>
           /\ Parsed(u) = dispatch(Parsed(t))
           /\ Parsed(u) = State(<<>>, <<>>, <<>>, FALSE, KeptEvents(u))
<1> DEFINE l == Lines(t)
           o == Open(l)
           d == DataOf(o)
           e == TypeOf(o)
<1>1. LF \in Chars
  BY TextParts, Zenon
<1>2. u \in Text
  BY <1>1, Appended, Zenon DEF Text
<1>3. StripCR(<<>>) = <<>>
  BY Zenon DEF StripCR
<1>4. Lines(u) = Append(l, <<>>) /\ Unended(u) = <<>>
  <2>1. LinesStepOf(t, LF)
    BY <1>1, LinesStep, Zenon
  <2> QED
    BY <1>3, <2>1, Zenon DEF LinesStepOf
<1>5. PICK h \in BOOLEAN : h = (o # <<>>)
  BY Zenon
<1>6. Parsed(t) = State(<<>>, d, e, h, KeptEvents(t))
  BY <1>5, Zenon DEF Parsed
<1>7. Parsed(u) = FeedChar(Parsed(t), LF)
  BY <1>1, ParsedStep, Zenon
<1> HIDE DEF d, e
<1>8. Parsed(t).p.line_buf = <<>>
  <2>1. LineBufOf(State(<<>>, d, e, h, KeptEvents(t)), <<>>)
    BY StateLine, Zenon
  <2> QED
    BY <1>6, <2>1, Zenon DEF LineBufOf
<1>9. FeedChar(Parsed(t), LF) = ClearLine(dispatch(Parsed(t)))
  BY <1>3, <1>8, Zenon DEF FeedChar, process_line
<1>10. l \in Seq(Text) /\ <<>> \in Text
  BY LinesSeq, TextParts, Zenon
<1>11. Open(Lines(u)) = <<>>
  BY <1>4, <1>10, BlocksStep, Zenon DEF BlocksStepOf
<1> HIDE DEF l, o
<1>12. Parsed(u) = State(<<>>, <<>>, <<>>, FALSE, KeptEvents(u))
  <2>1. (<<>> # <<>>) = FALSE
    BY Zenon
  <2> QED
    BY <1>4, <1>11, <2>1, NoEvent, Zenon DEF Parsed
<1>13. DispatchOf(<<>>, d, e, h, KeptEvents(t))
  BY DispatchIs, Zenon
<1>14. PICK dd, ee, hh, evs : dispatch(Parsed(t)) = State(<<>>, dd, ee, hh, evs)
  BY <1>6, <1>13, Zenon DEF DispatchOf
<1>15. ClearLineOf(<<>>, dd, ee, hh, evs)
  BY ClearLineIs, Zenon
<1>16. Parsed(u) = dispatch(Parsed(t))
  BY <1>7, <1>9, <1>14, <1>15, Zenon DEF ClearLineOf
<1> QED
  BY <1>2, <1>4, <1>12, <1>16, Zenon

\* Two characters behind a text.
LEMMA TwoAppended ==
    ASSUME NEW X, NEW x \in Seq(X), NEW c \in X
    PROVE  Append(Append(x, c), c) = x \o <<c, c>>
<1> DEFINE y == <<c, c>>
           z == Append(x, c)
           w == Append(z, c)
<1>1. y \in Seq(X) /\ Len(y) = 2 /\ y[1] = c /\ y[2] = c
  OBVIOUS
<1>2. /\ z \in Seq(X) /\ Len(z) = Len(x) + 1 /\ Len(x) \in Nat
      /\ \A k \in 1..Len(x) : z[k] = x[k]
      /\ z[Len(x) + 1] = c
  BY Appended
<1> HIDE DEF y, z
<1>3. /\ w \in Seq(X) /\ Len(w) = Len(x) + 2
      /\ \A k \in 1..(Len(x) + 1) : w[k] = z[k]
      /\ w[Len(x) + 2] = c
  BY <1>2
<1> HIDE DEF w
<1>4. /\ x \o y \in Seq(X) /\ Len(x \o y) = Len(x) + 2
      /\ \A k \in 1..Len(x) : (x \o y)[k] = x[k]
      /\ (x \o y)[Len(x) + 1] = c /\ (x \o y)[Len(x) + 2] = c
  <2>1. /\ x \o y \in Seq(X) /\ Len(x \o y) = Len(x) + Len(y)
        /\ \A k \in 1..Len(x) : (x \o y)[k] = x[k]
        /\ \A k \in 1..Len(y) : (x \o y)[Len(x) + k] = y[k]
    <3>1. y \in Seq(X)
      BY <1>1, Zenon
    <3> QED
      BY <3>1, Concatenated
  <2>2. 1 \in 1..Len(y) /\ 2 \in 1..Len(y)
    BY <1>1
  <2> QED
    BY <1>1, <2>1, <2>2, Zenon
<1>5. ASSUME NEW k \in 1..(Len(x) + 2) PROVE w[k] = (x \o y)[k]
  <2>1. k \in 1..Len(x) \/ k = Len(x) + 1 \/ k = Len(x) + 2
    BY <1>2
  <2>2. Len(x) + 1 \in 1..(Len(x) + 1) /\ \A i \in 1..Len(x) : i \in 1..(Len(x) + 1)
    BY <1>2
  <2> QED
    BY <1>2, <1>3, <1>4, <2>1, <2>2, Zenon
<1>6. w = x \o y
  BY <1>3, <1>4, <1>5, SameElements, Zenon
<1> QED
  BY <1>6, Zenon DEF w, z, y

\* flush() does what an end of the line and one of the event would do.
LEMMA FlushIs ==
    ASSUME NEW t \in Text
    PROVE  flush(Parsed(t)) = [p |-> FreshParser, evs |-> KeptEvents(t \o <<LF, LF>>)]
<1> DEFINE u == Append(t, LF)
           w == Append(u, LF)
           s == Parsed(t)
<1>1. LF \in Chars
  BY TextParts, Zenon
<1>2. u \in Text
  BY <1>1, Appended, Zenon DEF Text
<1>3. Unended(u) = <<>>
  BY <1>1, LinesStep, Zenon DEF LinesStepOf
<1>4. w = t \o <<LF, LF>>
  BY <1>1, TwoAppended, Zenon DEF Text
<1>5. Parsed(w) = dispatch(Parsed(u)) /\ Parsed(w) = State(<<>>, <<>>, <<>>, FALSE, KeptEvents(w))
  BY <1>2, <1>3, BlankIs, Zenon
<1>6. Parsed(u) = FeedChar(s, LF)
  BY <1>1, ParsedStep, Zenon
<1>7. s.p.line_buf = Unended(t)
  <2>1. PICK d, e, h, evs : s = State(Unended(t), d, e, h, evs)
    BY Zenon DEF Parsed
  <2>2. LineBufOf(State(Unended(t), d, e, h, evs), Unended(t))
    BY StateLine, Zenon
  <2> QED
    BY <2>1, <2>2, Zenon DEF LineBufOf
<1>8. Unended(t) = <<>> => Parsed(u) = dispatch(s)
                           /\ Parsed(u) = State(<<>>, <<>>, <<>>, FALSE, KeptEvents(u))
  BY BlankIs, Zenon
<1>9. FreshParser = Parser(<<>>, <<>>, <<>>, FALSE)
  BY Zenon DEF FreshParser, Parser
<1> HIDE DEF s, w
<1> SUFFICES flush(s) = Parsed(w)
  BY <1>4, <1>5, <1>9, Zenon DEF State, s
<1> HIDE DEF u
<1>10. CASE Unended(t) = <<>>
  <2>1. flush(s) = Parsed(u)
    BY <1>7, <1>8, <1>10, Zenon DEF flush
  <2>2. DispatchOf(<<>>, <<>>, <<>>, FALSE, KeptEvents(u))
    BY DispatchIs, Zenon
  <2>3. dispatch(Parsed(u)) = Parsed(u)
    BY <1>8, <1>10, <2>2, Zenon DEF DispatchOf
  <2> QED
    BY <1>5, <2>1, <2>3, Zenon
<1>11. CASE Unended(t) # <<>>
  <2>1. FeedChar(s, LF) = ClearLine(process_line(StripCR(s.p.line_buf), s))
    BY Zenon DEF FeedChar
  <2> QED
    BY <1>5, <1>6, <1>7, <1>11, <2>1, Zenon DEF flush
<1> QED
  BY <1>10, <1>11, Zenon

-----------------------------------------------------------------------------
(***************************************************************************)
(* The inductive invariant                                                 *)
(***************************************************************************)

\* The parser holds what it has made of the text so far, or was flushed.
ParsedInv ==
    /\ text \in Text
    /\ [p |-> parser, evs |-> events]
          = IF flushed THEN [p |-> FreshParser, evs |-> KeptEvents(text \o <<LF, LF>>)]
            ELSE Parsed(text)

\* It is the pair of its fields and the events.
LEMMA ParsedPair ==
    ASSUME NEW t
    PROVE  Parsed(t) = [p |-> Parsed(t).p, evs |-> Parsed(t).evs] /\ Parsed(t).evs = KeptEvents(t)
<1>1. PICK b, d, e, h : Parsed(t) = State(b, d, e, h, KeptEvents(t))
  BY Zenon DEF Parsed
<1>2. PICK q : State(b, d, e, h, KeptEvents(t)) = [p |-> q, evs |-> KeptEvents(t)]
  BY Zenon DEF State
<1> QED
  BY <1>1, <1>2

\* It holds in the beginning, and every step keeps it.
LEMMA ParsedInvHolds == Spec => []ParsedInv
<1>1. Init => ParsedInv
  <2>1. <<>> \in Text
    BY TextParts, Zenon
  <2> QED
    BY <2>1, ParsedEmpty, Zenon DEF Init, ParsedInv
<1>2. ParsedInv /\ [Next]_vars => ParsedInv'
  <2> SUFFICES ASSUME ParsedInv, [Next]_vars PROVE ParsedInv'
    BY Zenon
  <2> DEFINE s == [p |-> parser, evs |-> events]
  <2>1. CASE Feed
    <3>1. PICK chunk \in Chunks : LET r == feed(chunk, s)
                                  IN  /\ parser' = r.p
                                      /\ events' = r.evs
                                      /\ text' = text \o chunk
      BY <2>1, Zenon DEF Feed
    <3>2. ~flushed /\ ~flushed'
      BY <2>1, Zenon DEF Feed
    <3>3. text \in Text /\ s = Parsed(text)
      BY <3>2, Zenon DEF ParsedInv
    <3>4. chunk \in Text
      BY SseAssumption, Zenon DEF Text
    <3>5. text' \in Text
      BY <3>1, <3>3, <3>4, TextParts, Zenon
    <3>6. feed(chunk, s) = Parsed(text')
      BY <3>1, <3>3, <3>4, FeedIs, Zenon
    <3> HIDE DEF s
    <3>7. parser' = Parsed(text').p /\ events' = Parsed(text').evs
      BY <3>1, <3>6, Zenon
    <3>8. [p |-> parser', evs |-> events'] = Parsed(text')
      BY <3>7, ParsedPair, Zenon
    <3> QED
      BY <3>2, <3>5, <3>8, Zenon DEF ParsedInv
  <2>2. CASE Flush
    <3>1. ~flushed /\ flushed' /\ text' = text
      BY <2>2, Zenon DEF Flush
    <3>2. text \in Text /\ s = Parsed(text)
      BY <3>1, Zenon DEF ParsedInv
    <3>3. flush(s) = [p |-> FreshParser, evs |-> KeptEvents(text \o <<LF, LF>>)]
      BY <3>2, FlushIs, Zenon
    <3>4. parser' = flush(s).p /\ events' = flush(s).evs
      BY <2>2, Zenon DEF Flush
    <3> HIDE DEF s
    <3>5. parser' = FreshParser /\ events' = KeptEvents(text \o <<LF, LF>>)
      BY <3>3, <3>4, SMT
    <3> QED
      BY <3>1, <3>2, <3>5, Zenon DEF ParsedInv
  <2>3. CASE UNCHANGED vars
    BY <2>3, Zenon DEF ParsedInv, vars
  <2> QED
    BY <2>1, <2>2, <2>3, Zenon DEF Next
<1> QED
  BY <1>1, <1>2, PTL DEF Spec

\* The function that Joined() defines.
IsPlainJoin(g, values, n) ==
    g = [i \in 0..n |-> IF i = 0 THEN <<>>
                        ELSE IF i = 1 THEN values[1]
                        ELSE g[i - 1] \o <<LF>> \o values[i]]

\* Where the first of several values is not empty, what process_line() makes of
\* them is what the documentation says: all of them, joined by LF.
LEMMA DocumentedJoin ==
    ASSUME NEW values \in Seq(Text), ~LeadsEmpty(values)
    PROVE  KeptJoin(values) = Joined(values)
<1> DEFINE n == Len(values)
           Extend(f, i) == IF i = 1 THEN values[1] ELSE f[i - 1] \o <<LF>> \o values[i]
<1>1. n \in Nat /\ (n > 1 => values[1] # <<>>)
  BY DEF LeadsEmpty
<1>2. PICK g : Joins(g, values, n) /\ KeptJoin(values) = g[n]
  BY JoinSteps, Zenon
<1> HIDE DEF n
<1>3. ASSUME NEW i \in 1..n PROVE (\A j \in 1..(i - 1) : values[j] = <<>>) <=> i = 1
  <2>1. CASE i = 1
    BY <2>1
  <2>2. CASE i # 1
    <3>1. n > 1 /\ 1 \in 1..(i - 1)
      BY <1>1, <2>2
    <3> QED
      BY <1>1, <2>2, <3>1, Zenon
  <2> QED
    BY <2>1, <2>2, Zenon
<1>4. /\ g \in [0..n -> Text] /\ g[0] = <<>>
      /\ \A i \in 1..n : g[i] = Extend(g, i)
  BY <1>2, <1>3, Zenon DEF Joins
<1>5. IsPlainJoin(g, values, n)
  <2>1. ASSUME NEW i \in 0..n PROVE g[i] = IF i = 0 THEN <<>> ELSE Extend(g, i)
    <3>1. i = 0 \/ i \in 1..n
      BY <1>1
    <3>2. i \in 1..n => i # 0
      BY <1>1
    <3> QED
      BY <1>4, <3>1, <3>2, Zenon
  <2>2. g = [i \in 0..n |-> g[i]]
    BY <1>4, Zenon
  <2>3. g = [i \in 0..n |-> IF i = 0 THEN <<>> ELSE Extend(g, i)]
    BY <2>1, <2>2, Zenon
  <2> QED
    BY <2>3, Zenon DEF IsPlainJoin
<1>6. PICK h : h = (CHOOSE f : IsPlainJoin(f, values, n)) /\ IsPlainJoin(h, values, n)
  BY <1>5, Zenon
<1>7. Joined(values) = h[n]
  BY <1>6, Zenon DEF Joined, IsPlainJoin, n
<1>8. h[0] = <<>> /\ \A i \in 1..n : h[i] = Extend(h, i)
  <2>1. \A i \in 0..n : h[i] = IF i = 0 THEN <<>> ELSE Extend(h, i)
    <3>1. h = [i \in 0..n |-> IF i = 0 THEN <<>> ELSE Extend(h, i)]
      BY <1>6, Zenon DEF IsPlainJoin
    <3> HIDE DEF Extend
    <3> QED
      BY <3>1, Zenon
  <2>2. 0 \in 0..n /\ \A i \in 1..n : i \in 0..n /\ i # 0
    BY <1>1
  <2> QED
    BY <2>1, <2>2, Zenon
<1> DEFINE P == {i \in 0..n : h[i] = g[i]}
<1>9. 0 \in P
  <2>1. 0 \in 0..n
    BY <1>1
  <2> QED
    BY <1>4, <1>8, <2>1, Zenon
<1>10. ASSUME NEW i \in 1..n, i - 1 \in P PROVE i \in P
  <2>1. i \in 0..n
    BY <1>1
  <2>2. h[i - 1] = g[i - 1]
    BY <1>10, Zenon
  <2> QED
    BY <1>4, <1>8, <2>1, <2>2, Zenon
<1> HIDE DEF P
<1>11. \A i \in 0..n : i \in P
  BY <1>1, <1>9, <1>10, UpTo, Zenon
<1>12. n \in 0..n
  BY <1>1
<1>13. h[n] = g[n]
  BY <1>11, <1>12, Zenon DEF P
<1> QED
  BY <1>2, <1>7, <1>13, Zenon

\* So the event is the one the block describes; its type always is.
LEMMA DocumentedEvent ==
    ASSUME NEW block \in Seq(Text)
    PROVE  /\ KeptEvent(block).event = EventOf(block).event
           /\ ~LeadsEmpty(Values(block, "data")) => KeptEvent(block) = EventOf(block)
<1> DEFINE v == Values(block, "data")
<1>1. v \in Seq(Text)
  BY ValuesSeq, Zenon
<1>2. EventOf(block) = [data |-> Joined(v), event |-> TypeOf(block)]
  BY Zenon DEF EventOf, TypeOf
<1>3. KeptEvent(block) = [data |-> KeptJoin(v), event |-> TypeOf(block)]
  BY Zenon DEF KeptEvent, DataOf
<1> HIDE DEF v
<1>4. ~LeadsEmpty(v) => KeptJoin(v) = Joined(v)
  BY <1>1, DocumentedJoin, Zenon
<1>5. KeptEvent(block).event = TypeOf(block) /\ EventOf(block).event = TypeOf(block)
  BY <1>2, <1>3
<1>6. ~LeadsEmpty(v) => KeptEvent(block) = EventOf(block)
  BY <1>2, <1>3, <1>4, Zenon
<1> QED
  BY <1>5, <1>6, Zenon DEF v

\* What has been read, with the end that flush() takes for granted.
ReadText == IF flushed THEN text \o <<LF, LF>> ELSE text

\* The events are those the parser has for what has been read.
LEMMA EventsKept ==
    ASSUME ParsedInv
    PROVE  ReadText \in Text /\ events = KeptEvents(ReadText) /\ (flushed => parser = FreshParser)
<1>1. ReadText \in Text
  <2>1. text \in Text /\ LF \in Chars
    BY TextParts, Zenon DEF ParsedInv
  <2>2. Append(Append(text, LF), LF) \in Text
    BY <2>1, Appended, Zenon DEF Text
  <2>3. text \o <<LF, LF>> \in Text
    BY <2>1, <2>2, TwoAppended, Zenon DEF Text
  <2> QED
    BY <2>1, <2>3, Zenon DEF ReadText
<1>2. CASE flushed
  <2>1. [p |-> parser, evs |-> events]
           = [p |-> FreshParser, evs |-> KeptEvents(text \o <<LF, LF>>)]
    BY <1>2, Zenon DEF ParsedInv
  <2>2. parser = FreshParser /\ events = KeptEvents(text \o <<LF, LF>>)
    BY <2>1
  <2> QED
    BY <1>1, <1>2, <2>2, Zenon DEF ReadText
<1>3. CASE ~flushed
  <2>1. [p |-> parser, evs |-> events] = Parsed(text)
    BY <1>3, Zenon DEF ParsedInv
  <2>2. events = KeptEvents(text)
    BY <2>1, ParsedPair
  <2> QED
    BY <1>1, <1>3, <2>2, Zenon DEF ReadText
<1> QED
  BY <1>2, <1>3, Zenon

\* Whatever the reads cut the stream into, the events that feed() and flush()
\* have emitted are those of the text, for every text.
THEOREM EventsAreOfTheText == Spec => []EventsOfTheText
<1>1. ParsedInv => EventsOfTheText
  <2> SUFFICES ASSUME ParsedInv PROVE EventsOfTheText
    BY Zenon
  <2> DEFINE blocks == Blocks(Lines(ReadText))
  <2>1. ReadText \in Text
    BY EventsKept, Zenon
  <2>2. events = KeptEvents(ReadText) /\ (flushed => parser = FreshParser)
    BY EventsKept, Zenon
  <2>3. blocks \in Seq(Seq(Text))
    BY <2>1, EventsSeq, Zenon
  <2>4. events = [k \in 1..Len(blocks) |-> KeptEvent(blocks[k])]
    BY <2>2, Zenon DEF KeptEvents
  <2> HIDE DEF blocks
  <2>5. \A k \in 1..Len(blocks) : events[k] = KeptEvent(blocks[k]) /\ blocks[k] \in Seq(Text)
    BY <2>3, <2>4
  <2>6. Len(events) = Len(blocks)
    BY <2>3, <2>4
  <2>7. \A k \in 1..Len(blocks) :
          /\ events[k].event = EventOf(blocks[k]).event
          /\ ~LeadsEmpty(Values(blocks[k], "data")) => events[k] = EventOf(blocks[k])
    BY <2>5, DocumentedEvent, Zenon
  <2> QED
    BY <2>2, <2>6, <2>7, Zenon DEF EventsOfTheText, blocks, ReadText
<1> QED
  BY <1>1, ParsedInvHolds, PTL

-----------------------------------------------------------------------------
(***************************************************************************)
(* The events of a frame                                                   *)
(***************************************************************************)

\* Texts have a length.
LEMMA TextLen ==
    ASSUME NEW t \in Text, NEW c \in Chars
    PROVE  Len(t) \in Nat /\ Append(t, c) \in Text /\ Len(Append(t, c)) = Len(t) + 1
BY Appended, Zenon DEF Text

\* The data of the event that is being read.
DataSoFar(t) == DataOf(Open(Lines(t)))

\* What the end of a line, which is x without its CR, makes of the text.
LineEndsOf(t, u, x) ==
    /\ Unended(u) = <<>>
    /\ IF x = <<>>
       THEN /\ Open(Lines(u)) = <<>>
            /\ KeptEvents(u) = IF Open(Lines(t)) # <<>>
                             THEN Append(KeptEvents(t), KeptEvent(Open(Lines(t)))) ELSE KeptEvents(t)
       ELSE /\ Open(Lines(u)) = IF Head(x) # COLON THEN Append(Open(Lines(t)), x)
                                ELSE Open(Lines(t))
            /\ KeptEvents(u) = KeptEvents(t)

\* A line ends.
LEMMA LineEnds ==
    ASSUME NEW t \in Text
    PROVE  LineEndsOf(t, Append(t, LF), StripCR(Unended(t)))
<1> DEFINE u == Append(t, LF)
           l == Lines(t)
           x == StripCR(Unended(t))
<1>1. LF \in Chars
  BY TextParts, Zenon
<1>2. u \in Text /\ l \in Seq(Text) /\ Unended(t) \in Text /\ x \in Text
  BY <1>1, TextLen, LinesSeq, StripCRText, Zenon
<1>3. Lines(u) = Append(l, x) /\ Unended(u) = <<>>
  BY <1>1, LinesStep, Zenon DEF LinesStepOf
<1>4. BlocksStepOf(l, x)
  BY <1>2, BlocksStep, Zenon
<1>5. /\ x = <<>> /\ Open(l) # <<>> => KeptEvents(u) = Append(KeptEvents(t), KeptEvent(Open(l)))
      /\ ~(x = <<>> /\ Open(l) # <<>>) => KeptEvents(u) = KeptEvents(t)
  BY <1>2, <1>3, EventsStep, Zenon
<1> HIDE DEF u, x
<1> SUFFICES LineEndsOf(t, u, x)
  BY Zenon DEF u, x
<1> QED
  BY <1>3, <1>4, <1>5, Zenon DEF LineEndsOf, BlocksStepOf

LineGoesOnOf(t, u, c) ==
    Unended(u) = Append(Unended(t), c) /\ Lines(u) = Lines(t) /\ KeptEvents(u) = KeptEvents(t)

\* A line goes on.
LEMMA LineGoesOn ==
    ASSUME NEW t \in Text, NEW c \in Chars, c # LF
    PROVE  LineGoesOnOf(t, Append(t, c), c)
<1>1. /\ Unended(Append(t, c)) = Append(Unended(t), c)
      /\ Lines(Append(t, c)) = Lines(t)
  BY LinesStep, Zenon DEF LinesStepOf
<1> QED
  BY <1>1, Zenon DEF LineGoesOnOf, KeptEvents

\* No line has ended, and there is no event.
OneLine(t) == Unended(t) = t /\ Open(Lines(t)) = <<>> /\ KeptEvents(t) = <<>>

\* Without LF there is one line, without an end.
LEMMA NoLineEnds ==
    ASSUME NEW t \in Text, \A i \in 1..Len(t) : t[i] # LF
    PROVE  OneLine(t)
<1> DEFINE n == Len(t)
           to(i) == SubSeq(t, 1, i)
           P == {i \in 0..n : OneLine(to(i))}
<1>1. n \in Nat /\ t \in Seq(Chars)
  BY DEF Text
<1>2. to(0) = <<>> /\ to(n) = t
  BY <1>1
<1>3. ASSUME NEW i \in 1..n
      PROVE  /\ i \in 0..n /\ i - 1 \in 0..n /\ t[i] \in Chars /\ t[i] # LF
             /\ to(i - 1) \in Text /\ to(i) = Append(to(i - 1), t[i])
  BY <1>1 DEF Text
<1> HIDE DEF n, to
<1>4. 0 \in P
  <2>1. 0 \in 0..n
    BY <1>1
  <2>2. OneLine(<<>>)
    BY EmptyText, Zenon DEF OneLine
  <2> QED
    BY <1>2, <2>1, <2>2, Zenon
<1>5. ASSUME NEW i \in 1..n, i - 1 \in P PROVE i \in P
  <2>1. OneLine(to(i - 1))
    BY <1>5, Zenon
  <2>2. LineGoesOnOf(to(i - 1), to(i), t[i])
    BY <1>3, LineGoesOn, Zenon
  <2>3. OneLine(to(i))
    BY <1>3, <2>1, <2>2, Zenon DEF OneLine, LineGoesOnOf
  <2> QED
    BY <1>3, <2>3, Zenon
<1> HIDE DEF P
<1>6. \A i \in 0..n : i \in P
  BY <1>1, <1>4, <1>5, UpTo, Zenon
<1>7. n \in 0..n
  BY <1>1
<1> QED
  BY <1>2, <1>6, <1>7, Zenon DEF P

TripleOf(seq, X, a, b, c, y) ==
    /\ seq \in Seq(X) /\ Len(seq) = Len(y) + 3 /\ Len(y) \in Nat
    /\ seq[1] = a /\ seq[2] = b /\ seq[3] = c
    /\ \A k \in 1..Len(y) : seq[k + 3] = y[k]

\* A sequence behind three elements.
LEMMA Triple ==
    ASSUME NEW X, NEW a \in X, NEW b \in X, NEW c \in X, NEW y \in Seq(X)
    PROVE  TripleOf(<<a, b, c>> \o y, X, a, b, c, y)
BY DEF TripleOf

TriplePartsOf(seq, a, c, y) ==
    /\ SubSeq(seq, 1, 1) = <<a>>
    /\ SubSeq(seq, 3, Len(seq)) = <<c>> \o y
    /\ <<c>> \o y # <<>> /\ Head(<<c>> \o y) = c /\ Tail(<<c>> \o y) = y

TripleButLastOf(a, b, c, y, n) ==
    SubSeq(<<a, b, c>> \o y, 1, n + 3) = <<a, b, c>> \o SubSeq(y, 1, n)

\* A sequence behind three elements, which is one element shorter.
LEMMA TripleButLast ==
    ASSUME NEW X, NEW a \in X, NEW b \in X, NEW c \in X, NEW y \in Seq(X), NEW n \in Nat,
           Len(y) = n + 1
    PROVE  TripleButLastOf(a, b, c, y, n)
BY DEF TripleButLastOf

\* What follows the second of the three.
LEMMA TripleParts ==
    ASSUME NEW X, NEW a \in X, NEW b \in X, NEW c \in X, NEW y \in Seq(X),
           NEW seq, seq = <<a, b, c>> \o y
    PROVE  TriplePartsOf(seq, a, c, y)
<1>1. /\ seq \in Seq(X) /\ Len(seq) = Len(y) + 3 /\ Len(y) \in Nat
      /\ seq[1] = a /\ seq[2] = b /\ seq[3] = c
      /\ \A k \in 1..Len(y) : seq[k + 3] = y[k]
  OBVIOUS
<1>2. PICK r : r = <<c>> \o y
  BY Zenon
<1>3. /\ r \in Seq(X) /\ Len(r) = Len(y) + 1 /\ r[1] = c
      /\ \A k \in 1..Len(y) : r[k + 1] = y[k]
  BY <1>2
<1>4. r # <<>> /\ Head(r) = c /\ Tail(r) = y
  BY <1>1, <1>3
<1>5. SubSeq(seq, 1, 1) = <<a>>
  <2>1. PICK q : q = SubSeq(seq, 1, 1)
    BY Zenon
  <2>2. q \in Seq(X) /\ Len(q) = 1 /\ q[1] = a
    BY <1>1, <2>1
  <2>3. PICK e : e = <<a>>
    BY Zenon
  <2>4. e \in Seq(X) /\ Len(e) = 1 /\ \A k \in 1..Len(e) : e[k] = q[k]
    BY <2>2, <2>3
  <2>5. Len(e) = Len(q)
    BY <2>2, <2>4, Zenon
  <2> QED
    BY <2>1, <2>2, <2>3, <2>4, <2>5, SameElements, Zenon
<1>6. SubSeq(seq, 3, Len(seq)) = r
  <2>1. PICK q : q = SubSeq(seq, 3, Len(seq))
    BY Zenon
  <2>2. /\ q \in Seq(X) /\ Len(q) = Len(y) + 1
        /\ \A k \in 1..(Len(y) + 1) : q[k] = seq[k + 2]
    BY <1>1, <2>1
  <2>3. \A k \in 1..(Len(y) + 1) : q[k] = r[k]
    <3> SUFFICES ASSUME NEW k \in 1..(Len(y) + 1) PROVE q[k] = r[k]
      BY Zenon
    <3>1. CASE k = 1
      BY <1>1, <1>3, <2>2, <3>1
    <3>2. CASE k # 1
      <4>1. PICK j \in 1..Len(y) : k = j + 1 /\ k + 2 = j + 3
        <5>1. k - 1 \in 1..Len(y) /\ k = k - 1 + 1 /\ k + 2 = k - 1 + 3
          BY <1>1, <3>2
        <5> QED
          BY <5>1, Zenon
      <4>2. q[k] = seq[j + 3] /\ seq[j + 3] = y[j]
        BY <1>1, <2>2, <4>1, Zenon
      <4>3. r[j + 1] = y[j]
        BY <1>3, <4>1, Zenon
      <4> QED
        BY <4>1, <4>2, <4>3, Zenon
    <3> QED
      BY <3>1, <3>2
  <2> QED
    BY <1>1, <1>3, <2>1, <2>2, <2>3
<1> QED
  BY <1>2, <1>4, <1>5, <1>6, Zenon DEF TriplePartsOf

\* What write_data() puts before the data.
Lead == <<"data", COLON, SP>>

\* The characters are different strings.
LEMMA Characters ==
    /\ "data" \in Chars /\ COLON \in Chars /\ SP \in Chars
    /\ "data" # COLON /\ SP # CR /\ "data" # LF /\ COLON # LF /\ SP # LF
<1>1. "data" \in Chars /\ COLON \in Chars /\ SP \in Chars
  BY SseAssumption, Zenon
<1>2. "data" # COLON /\ SP # CR /\ "data" # LF /\ COLON # LF /\ SP # LF
  BY Zenon DEF COLON, SP, CR, LF
<1> QED
  BY <1>1, <1>2, Zenon

\* The first element.
LEMMA First ==
    ASSUME NEW X, NEW seq \in Seq(X), Len(seq) # 0
    PROVE  seq # <<>> /\ Head(seq) = seq[1]
OBVIOUS

LeadLineOf(line, y) ==
    /\ line \in Text /\ Len(line) = Len(y) + 3
    /\ line # <<>> /\ Head(line) # COLON
    /\ Field(line) = <<"data">> /\ Value(line) = y

\* A line of a frame is a data field.
LEMMA LeadLine ==
    ASSUME NEW y \in Text
    PROVE  LeadLineOf(Lead \o y, y)
<1>1. PICK a \in Chars, b \in Chars, c \in Chars :
          a = "data" /\ b = COLON /\ c = SP /\ a # b
  BY Characters, Zenon
<1>2. y \in Seq(Chars)
  BY Zenon DEF Text
<1>3. PICK line : line = <<a, b, c>> \o y
  BY Zenon
<1>4. Lead \o y = line
  BY <1>1, <1>3, Zenon DEF Lead
<1>5. /\ line \in Seq(Chars) /\ Len(line) = Len(y) + 3 /\ Len(y) \in Nat
      /\ line[1] = a /\ line[2] = b
  <2>1. TripleOf(line, Chars, a, b, c, y)
    BY <1>2, <1>3, Triple, Zenon
  <2> QED
    BY <2>1, Zenon DEF TripleOf
<1>6. /\ SubSeq(line, 1, 1) = <<a>>
      /\ SubSeq(line, 3, Len(line)) = <<c>> \o y
      /\ <<c>> \o y # <<>> /\ Head(<<c>> \o y) = c /\ Tail(<<c>> \o y) = y
  <2>1. TriplePartsOf(line, a, c, y)
    BY <1>2, <1>3, TripleParts, Zenon
  <2> QED
    BY <2>1, Zenon DEF TriplePartsOf
<1>7. line # <<>> /\ Head(line) = a
  <2>1. Len(line) # 0
    BY <1>5
  <2> QED
    BY <1>5, <2>1, First, Zenon
<1>8. /\ Colon(line) \in 1..(Len(line) + 1)
      /\ \A i \in 1..(Colon(line) - 1) : line[i] # b
      /\ Colon(line) \in 1..Len(line) => line[Colon(line)] = b
  BY <1>1, <1>5, ColonIs, Zenon DEF Text
<1>9. Colon(line) = 2
  BY <1>1, <1>5, <1>8
<1>10. /\ Colon(line) - 1 = 1 /\ Colon(line) + 1 = 3 /\ ~(Colon(line) > Len(line))
  BY <1>5, <1>9
<1>11. Field(line) = <<a>>
  BY <1>6, <1>10, Zenon DEF Field
<1>12. Value(line) = strip_leading_space(<<c>> \o y)
  BY <1>6, <1>10, Zenon DEF Value
<1>13. Value(line) = y
  BY <1>1, <1>6, <1>12, Zenon DEF strip_leading_space
<1> QED
  BY <1>1, <1>4, <1>5, <1>7, <1>11, <1>13, Zenon DEF LeadLineOf, Text

\* A CR at the end of the line is one at the end of the data.
LEMMA LeadCR ==
    ASSUME NEW y \in Text
    PROVE  StripCR(Lead \o y) = Lead \o StripCR(y)
<1>1. PICK a \in Chars, b \in Chars, c \in Chars :
          a = "data" /\ b = COLON /\ c = SP /\ c # CR
  BY Characters, Zenon
<1>2. y \in Seq(Chars)
  BY Zenon DEF Text
<1>3. PICK line : line = <<a, b, c>> \o y
  BY Zenon
<1>4. Lead = <<a, b, c>> /\ Lead \o y = line
  BY <1>1, <1>3, Zenon DEF Lead
<1>5. /\ line \in Seq(Chars) /\ Len(line) = Len(y) + 3 /\ Len(y) \in Nat
      /\ line[3] = c
      /\ \A k \in 1..Len(y) : line[k + 3] = y[k]
  <2>1. TripleOf(line, Chars, a, b, c, y)
    BY <1>2, <1>3, Triple, Zenon
  <2> QED
    BY <2>1, Zenon DEF TripleOf
<1>6. line # <<>>
  BY <1>5
<1>7. CASE y = <<>>
  <2>1. Len(line) = 3
    BY <1>5, <1>7
  <2>2. StripCR(line) = line /\ StripCR(y) = y
    BY <1>1, <1>5, <1>7, <2>1, Zenon DEF StripCR
  <2> QED
    BY <1>4, <2>2, Zenon
<1>8. CASE y # <<>>
  <2>1. PICK n \in Nat : Len(y) = n + 1 /\ n = Len(y) - 1 /\ Len(line) - 1 = n + 3
    <3>1. /\ Len(y) - 1 \in Nat /\ Len(y) = Len(y) - 1 + 1
          /\ Len(line) - 1 = Len(y) - 1 + 3
      BY <1>2, <1>5, <1>8
    <3> QED
      BY <3>1, Zenon
  <2>2. line[Len(line)] = y[Len(y)]
    <3>1. Len(y) \in 1..Len(y)
      BY <1>5, <2>1
    <3> QED
      BY <1>5, <3>1, Zenon
  <2>3. SubSeq(line, 1, n + 3) = <<a, b, c>> \o SubSeq(y, 1, n)
    <3>1. TripleButLastOf(a, b, c, y, n)
      BY <1>2, <2>1, TripleButLast, Zenon
    <3> QED
      BY <1>3, <3>1, Zenon DEF TripleButLastOf
  <2>4. CASE y[Len(y)] = CR
    BY <1>4, <1>6, <1>8, <2>1, <2>2, <2>3, <2>4, Zenon DEF StripCR
  <2>5. CASE y[Len(y)] # CR
    BY <1>4, <2>2, <2>5, Zenon DEF StripCR
  <2> QED
    BY <2>4, <2>5, Zenon
<1> QED
  BY <1>7, <1>8, Zenon

\* The first line of a frame has ended.
FirstLineOf(u, x) ==
    /\ u \in Text /\ Unended(u) = <<>> /\ Blocks(Lines(u)) = <<>>
    /\ Open(Lines(u)) # <<>> /\ Open(Lines(u)) \in Seq(Text)
    /\ DataSoFar(u) = StripCR(x) /\ TypeOf(Open(Lines(u))) = <<>>
    /\ ~LeadsEmpty(Values(Open(Lines(u)), "data"))

\* Before the first LF a frame is one data field.
LEMMA FirstLine ==
    ASSUME NEW x \in Text, \A i \in 1..Len(x) : x[i] # LF
    PROVE  FirstLineOf(Append(Lead \o x, LF), x)
<1> DEFINE t == Lead \o x
           y == StripCR(x)
           u == Append(t, LF)
           line == Lead \o y
<1>1. t \in Text /\ y \in Text /\ line \in Text /\ u \in Text
  BY LeadLine, StripCRText, TextParts, TextLen, Zenon DEF LeadLineOf
<1>2. \A i \in 1..Len(t) : t[i] # LF
  <2>1. PICK a \in Chars, b \in Chars, c \in Chars :
            a = "data" /\ b = COLON /\ c = SP /\ a # LF /\ b # LF /\ c # LF
    BY Characters, Zenon
  <2>2. t = <<a, b, c>> \o x /\ x \in Seq(Chars)
    BY <2>1, Zenon DEF Lead, Text
  <2> HIDE DEF t
  <2>3. TripleOf(t, Chars, a, b, c, x)
    BY <2>2, Triple, Zenon
  <2> SUFFICES ASSUME NEW i \in 1..Len(t) PROVE t[i] # LF
    BY Zenon
  <2>4. CASE i \in {1, 2, 3}
    BY <2>1, <2>3, <2>4, Zenon DEF TripleOf
  <2>5. CASE i \notin {1, 2, 3}
    <3>1. PICK k \in 1..Len(x) : i = k + 3
      <4>1. i - 3 \in 1..Len(x) /\ i = i - 3 + 3
        BY <2>3, <2>5 DEF TripleOf
      <4> QED
        BY <4>1, Zenon
    <3> QED
      BY <2>3, <3>1, Zenon DEF TripleOf
  <2> QED
    BY <2>4, <2>5, Zenon
<1>3. OneLine(t)
  BY <1>1, <1>2, NoLineEnds, Zenon
<1>4. StripCR(t) = line
  BY LeadCR, Zenon
<1>5. LeadLineOf(line, y)
  BY <1>1, LeadLine, Zenon
<1>6. LineEndsOf(t, u, StripCR(Unended(t)))
  BY <1>1, LineEnds, Zenon
<1> HIDE DEF t, u, y, line
<1>7. Unended(u) = <<>> /\ KeptEvents(u) = <<>> /\ Open(Lines(u)) = Append(<<>>, line)
  BY <1>3, <1>4, <1>5, <1>6, Zenon DEF OneLine, LineEndsOf, LeadLineOf
<1>8. <<>> \in Seq(Text)
  OBVIOUS
<1>9. Append(<<>>, line) # <<>> /\ Append(<<>>, line) \in Seq(Text)
  BY <1>1
<1>10. /\ DataOf(Append(<<>>, line))
             = IF Field(line) = <<"data">> THEN AddData(DataOf(<<>>), Value(line)) ELSE DataOf(<<>>)
       /\ TypeOf(Append(<<>>, line))
             = IF Field(line) = <<"event">> THEN Value(line) ELSE TypeOf(<<>>)
  BY <1>1, <1>8, EventStep, Zenon
<1>11. <<"data">> # <<"event">>
  OBVIOUS
<1>12. AddData(<<>>, y) = y
  BY Zenon DEF AddData
<1>13. DataOf(Append(<<>>, line)) = y /\ TypeOf(Append(<<>>, line)) = <<>>
  BY <1>5, <1>10, <1>11, <1>12, NoEvent, Zenon DEF LeadLineOf
<1>14. ~LeadsEmpty(Values(Append(<<>>, line), "data"))
  <2>1. Values(<<>>, "data") \in Seq(Text) /\ Values(<<>>, "data") = <<>>
    BY <1>8, ValuesSeq, NoEvent, Zenon
  <2>2. Values(Append(<<>>, line), "data") = Append(<<>>, Value(line))
    <3>1. ValuesStepOf(<<>>, line, "data")
      BY <1>1, <1>8, ValuesStep, Zenon
    <3>2. Field(line) = <<"data">>
      BY <1>5, Zenon DEF LeadLineOf
    <3> QED
      BY <2>1, <3>1, <3>2, Zenon DEF ValuesStepOf
  <2>3. Len(Append(<<>>, Value(line))) = 1
    OBVIOUS
  <2>4. ~(1 > 1)
    OBVIOUS
  <2> QED
    BY <2>2, <2>3, <2>4, Zenon DEF LeadsEmpty
<1>15. Blocks(Lines(u)) = <<>>
  <2>1. Blocks(Lines(u)) \in Seq(Seq(Text)) /\ KeptEvents(u) = Mapped(Blocks(Lines(u)), EventFn)
    BY <1>1, EventsSeq, Zenon
  <2>2. PICK b \in Seq(Seq(Text)) : b = Blocks(Lines(u)) /\ Mapped(b, EventFn) = <<>>
    BY <1>7, <2>1, Zenon
  <2>3. Len(b) = 0
    BY <2>2 DEF Mapped
  <2> QED
    BY <2>2, <2>3
<1> QED
  BY <1>1, <1>7, <1>9, <1>13, <1>14, <1>15, Zenon DEF FirstLineOf, DataSoFar, u, t, y

\* A frame ends with two LF.
LEMMA FrameIs ==
    ASSUME NEW data \in Text
    PROVE  /\ Lead \o data \in Text /\ Len(Lead \o data) = Len(data) + 3
           /\ Frame(data) = Append(Append(Lead \o data, LF), LF)
<1>1. Lead \o data \in Text /\ Len(Lead \o data) = Len(data) + 3
  BY LeadLine, Zenon DEF LeadLineOf
<1>2. Append(Append(Lead \o data, LF), LF) = Lead \o data \o <<LF, LF>>
  BY <1>1, TextParts, TwoAppended, Zenon DEF Text
<1> QED
  BY <1>1, <1>2, Zenon DEF Frame, Lead

\* One line of data makes one event, and the same data.
LEMMA OneLineFrame ==
    ASSUME NEW data \in Text, \A i \in 1..Len(data) : data[i] \notin {LF, CR}
    PROVE  EventsOf(Frame(data)) = <<[data |-> data, event |-> <<>>]>>
<1> DEFINE u == Append(Lead \o data, LF)
           w == Append(u, LF)
           o == Open(Lines(u))
           e == [data |-> data, event |-> <<>>]
<1>1. \A i \in 1..Len(data) : data[i] # LF /\ data[i] # CR
  OBVIOUS
<1>2. StripCR(data) = data
  <2>1. data # <<>> => Len(data) \in 1..Len(data)
    BY DEF Text
  <2> QED
    BY <1>1, <2>1, Zenon DEF StripCR
<1>3. FirstLineOf(u, data)
  BY <1>1, FirstLine, Zenon
<1>4. w = Frame(data)
  BY FrameIs, Zenon
<1> HIDE DEF u
<1>5. u \in Text /\ o # <<>> /\ o \in Seq(Text) /\ Blocks(Lines(u)) = <<>> /\ Unended(u) = <<>>
  BY <1>3, Zenon DEF FirstLineOf
<1>6. Blocks(Lines(w)) = Append(<<>>, o)
  <2>1. Lines(w) = Append(Lines(u), StripCR(Unended(u)))
    BY <1>5, TextParts, LinesStep, Zenon DEF LinesStepOf
  <2>2. StripCR(Unended(u)) = <<>>
    BY <1>5, Zenon DEF StripCR
  <2>3. BlocksStepOf(Lines(u), <<>>)
    BY <1>5, LinesSeq, BlocksStep, TextParts, Zenon
  <2> QED
    BY <1>5, <2>1, <2>2, <2>3, Zenon DEF BlocksStepOf
<1>7. EventOf(o) = e
  <2>1. ~LeadsEmpty(Values(o, "data"))
    BY <1>3, Zenon DEF FirstLineOf
  <2>2. KeptEvent(o) = [data |-> DataOf(o), event |-> TypeOf(o)]
    BY Zenon DEF KeptEvent
  <2>3. KeptEvent(o) = e
    BY <1>2, <1>3, <2>2, Zenon DEF FirstLineOf, DataSoFar
  <2> QED
    BY <1>5, <2>1, <2>3, DocumentedEvent, Zenon
<1> HIDE DEF e, w, o
<1>8. EventsOf(w) = <<e>>
  <2>1. PICK b : b = Append(<<>>, o) /\ b = Blocks(Lines(w))
    BY <1>6, Zenon
  <2>2. EventsOf(w) = [k \in 1..Len(b) |-> EventOf(b[k])]
    BY <2>1, Zenon DEF EventsOf
  <2>3. Len(b) = 1 /\ b[1] = o
    BY <2>1
  <2>4. EventsOf(w) = [k \in 1..1 |-> EventOf(b[k])]
    BY <2>2, <2>3, Zenon
  <2>5. \A k \in 1..1 : EventOf(b[k]) = e
    <3>1. \A k \in 1..1 : k = 1
      OBVIOUS
    <3> QED
      BY <1>7, <2>3, <3>1, Zenon
  <2>6. EventsOf(w) = [k \in 1..1 |-> e]
    BY <2>4, <2>5, Zenon
  <2>7. [k \in 1..1 |-> e] = <<e>>
    OBVIOUS
  <2> QED
    BY <2>6, <2>7, Zenon
<1> QED
  BY <1>4, <1>8, Zenon DEF e

\* A client that reads the frame of an event whose data is one line gets the data
\* back, character by character, for all that stream_chat() may have read.
THEOREM OneLineIsVerbatim == Spec => []OneLineSurvives
<1>1. ParsedInv => OneLineSurvives
  <2> SUFFICES ASSUME ParsedInv, NEW i \in 1..Len(events),
                      \A j \in 1..Len(events[i].data) : events[i].data[j] \notin {LF, CR}
               PROVE  EventsOf(Frame(events[i].data))
                         = <<[data |-> events[i].data, event |-> <<>>]>>
    BY Zenon DEF OneLineSurvives
  <2>1. \E t \in Text : events = KeptEvents(t)
    BY EventsKept, Zenon
  <2>2. events \in Seq(Event)
    BY <2>1, EventsSeq, Zenon
  <2>3. events[i] \in Event
    BY <2>2
  <2>4. events[i].data \in Text
    BY <2>3 DEF Event
  <2> QED
    BY <2>4, OneLineFrame, Zenon
<1> QED
  BY <1>1, ParsedInvHolds, PTL
===============================================================================
