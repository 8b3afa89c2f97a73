---------------------------- MODULE BasicLemmas ----------------------------
(***************************************************************************)
(* Facts the proofs of several components rest on: the least-number        *)
(* principle, which stands for induction over the naturals, counting, and  *)
(* what the loop of HandlerQueue::Expire leaves of a queue.                *)
(***************************************************************************)
EXTENDS FifoQueue, FiniteSets, FiniteSetTheorems, SequenceTheorems, TLAPS

\* Every non-empty set of naturals has a least element.
LEMMA LeastNumber ==
    ASSUME NEW T, T \subseteq Nat, T # {}
    PROVE  \E x \in T : \A y \in T : x <= y
  <1> DEFINE R == {ss \in Nat \X Nat : ss[1] < ss[2]}
  <1>1. IsWellFoundedOn(R, Nat)
    BY NatLessThanWellFounded DEF OpToRel
  <1>2. \E x \in T : \A y \in T : <<y, x>> \notin R
    <2> HIDE DEF R
    <2> QED BY Zenon, <1>1, WFMin
  <1>3. PICK x \in T : \A y \in T : <<y, x>> \notin R
    BY <1>2
  <1>4. ASSUME NEW y \in T PROVE x <= y
    <2>1. <<y, x>> \notin R
      BY <1>3
    <2>2. x \in Nat /\ y \in Nat
      OBVIOUS
    <2> QED BY <2>1, <2>2
  <1> QED BY <1>4

\* Induction over the naturals: a set that holds 0 and the successor of each of its
\* members below m holds all numbers up to m.
LEMMA Reaches ==
    ASSUME NEW m \in Nat, NEW G, 0 \in G, \A n \in 0..(m - 1) : n \in G => n + 1 \in G
    PROVE  \A n \in 0..m : n \in G
  <1> DEFINE Bad == {n \in 0..m : n \notin G}
  <1> SUFFICES ASSUME Bad # {} PROVE FALSE
    OBVIOUS
  <1>1. PICK n \in Bad : \A k \in Bad : n <= k
    <2>1. Bad \subseteq Nat
      OBVIOUS
    <2> HIDE DEF Bad
    <2> QED BY Zenon, <2>1, LeastNumber
  <1>2. n - 1 \in 0..(m - 1) /\ n - 1 \notin Bad
    BY <1>1
  <1>3. n - 1 \in G
    BY <1>2
  <1>4. n - 1 + 1 \in G
    BY <1>2, <1>3
  <1> QED BY <1>4

\* The elements of a sequence are no more than its places.
LEMMA RangeBound ==
    ASSUME NEW X, NEW s \in Seq(X)
    PROVE  IsFiniteSet(Range(s)) /\ Cardinality(Range(s)) <= Len(s)
  <1>1. /\ Len(s) \in Nat /\ DOMAIN s = 1..Len(s)
        /\ s \in [1..Len(s) -> Range(s)] /\ \A x \in Range(s) : \E i \in 1..Len(s) : s[i] = x
    BY LenProperties DEF Range
  <1>2. s \in Surjection(1..Len(s), Range(s))
    BY <1>1 DEF Surjection
  <1>3. IsFiniteSet(1..Len(s)) /\ Cardinality(1..Len(s)) = Len(s)
    <2> DEFINE n == Len(s)
    <2>1. 1 \in Int /\ n \in Int /\ n \in Nat
      BY <1>1
    <2> HIDE DEF n
    <2>2. IsFiniteSet(1..n) /\ Cardinality(1..n) = IF 1 > n THEN 0 ELSE n - 1 + 1
      BY <2>1, FS_Interval
    <2>3. IsFiniteSet(1..n) /\ Cardinality(1..n) = n
      BY <2>1, <2>2
    <2> QED BY <2>3 DEF n
  <1>4. IsFiniteSet(Range(s)) /\ Cardinality(Range(s)) <= Cardinality(1..Len(s))
    BY <1>2, <1>3, FS_Surjection
  <1> QED BY <1>3, <1>4

\* The elements and the places of a queue with one more element.
LEMMA AppendRange ==
    ASSUME NEW X, NEW s \in Seq(X), NEW e \in X
    PROVE  /\ Append(s, e) \in Seq(X) /\ Len(Append(s, e)) = Len(s) + 1
           /\ Range(Append(s, e)) = Range(s) \cup {e}
           /\ e \notin Range(s) /\ (\A i, j \in DOMAIN s : s[i] = s[j] => i = j) =>
                 \A i, j \in DOMAIN Append(s, e) : Append(s, e)[i] = Append(s, e)[j] => i = j
  <1> DEFINE r == Append(s, e)
  <1>1. /\ r \in Seq(X) /\ Len(s) \in Nat /\ Len(r) = Len(s) + 1 /\ r[Len(s) + 1] = e
        /\ \A i \in 1..Len(s) : r[i] = s[i]
        /\ DOMAIN r = 1..Len(r) /\ DOMAIN s = 1..Len(s)
    BY AppendProperties, LenProperties
  <1>2. \A i \in 1..Len(r) : i \in 1..Len(s) \/ i = Len(s) + 1
    BY <1>1
  <1>3. 1..Len(s) \subseteq 1..Len(r) /\ Len(s) + 1 \in 1..Len(r)
    BY <1>1
  <1> HIDE DEF r
  <1>4. Range(r) = Range(s) \cup {e}
    BY <1>1, <1>2, <1>3 DEF Range
  <1>5. ASSUME e \notin Range(s), \A i, j \in DOMAIN s : s[i] = s[j] => i = j
        PROVE  \A i, j \in DOMAIN r : r[i] = r[j] => i = j
    <2>1. \A i \in 1..Len(s) : s[i] # e
      BY <1>1, <1>5 DEF Range
    <2> QED BY <1>1, <1>2, <1>5, <2>1
  <1> QED BY <1>1, <1>4, <1>5 DEF r

\* The elements and the places of a queue that loses its head.
LEMMA TailRange ==
    ASSUME NEW X, NEW s \in Seq(X), s # << >>
    PROVE  /\ Tail(s) \in Seq(X) /\ Len(Tail(s)) = Len(s) - 1 /\ Len(s) \in Nat \ {0}
           /\ Head(s) \in Range(s) /\ Range(Tail(s)) \subseteq Range(s)
           /\ Range(s) = Range(Tail(s)) \cup {Head(s)}
           /\ (\A i, j \in DOMAIN s : s[i] = s[j] => i = j) =>
                 /\ Head(s) \notin Range(Tail(s))
                 /\ \A i, j \in DOMAIN Tail(s) : Tail(s)[i] = Tail(s)[j] => i = j
  <1> DEFINE r == Tail(s)
  <1>1. /\ r \in Seq(X) /\ Len(s) \in Nat \ {0} /\ Len(r) = Len(s) - 1
        /\ \A i \in 1..Len(r) : r[i] = s[i + 1]
        /\ DOMAIN r = 1..Len(r) /\ DOMAIN s = 1..Len(s)
    BY HeadTailProperties, LenProperties, EmptySeq
  <1>2. Head(s) = s[1]
    OBVIOUS
  <1>3. /\ 1 \in 1..Len(s)
        /\ \A i \in 1..Len(r) : i + 1 \in 1..Len(s) /\ i + 1 # 1
        /\ \A j \in 1..Len(s) : j = 1 \/ j - 1 \in 1..Len(r)
        /\ \A j \in 1..Len(s) : (j - 1) + 1 = j
    BY <1>1
  <1> HIDE DEF r
  <1>4. Head(s) \in Range(s) /\ Range(r) \subseteq Range(s)
    BY <1>1, <1>2, <1>3 DEF Range
  <1>5. ASSUME NEW x \in Range(s) PROVE x \in Range(r) \cup {Head(s)}
    <2>1. PICK j \in 1..Len(s) : s[j] = x
      BY <1>1 DEF Range
    <2>2. CASE j = 1
      BY <1>2, <2>1, <2>2
    <2>3. CASE j - 1 \in 1..Len(r)
      <3>1. r[j - 1] = x
        BY <1>1, <1>3, <2>1, <2>3
      <3> QED BY Zenon, <1>1, <2>3, <3>1 DEF Range
    <2> QED BY <1>3, <2>2, <2>3
  <1>6. ASSUME \A i, j \in DOMAIN s : s[i] = s[j] => i = j
        PROVE  /\ Head(s) \notin Range(r)
               /\ \A i, j \in DOMAIN r : r[i] = r[j] => i = j
    <2>1. \A i \in 1..Len(r) : r[i] # Head(s)
      BY <1>1, <1>2, <1>3, <1>6
    <2>2. ASSUME NEW i \in 1..Len(r), NEW j \in 1..Len(r), r[i] = r[j] PROVE i = j
      <3>1. i + 1 \in DOMAIN s /\ j + 1 \in DOMAIN s
        BY <1>1, <1>3
      <3>2. s[i + 1] = s[j + 1]
        BY <1>1, <2>2
      <3>3. i + 1 = j + 1
        BY <1>6, <3>1, <3>2
      <3>4. i \in Nat /\ j \in Nat
        BY <1>1
      <3> QED BY <3>3, <3>4
    <2> QED BY <1>1, <2>1, <2>2 DEF Range
  <1> QED BY <1>1, <1>4, <1>5, <1>6 DEF r

-----------------------------------------------------------------------------
(* What Expire leaves of a queue. *)

\* f is the function of Kept on its first n + 1 arguments.
IsKept(f, s, S, n) ==
    f = [i \in 0..n |-> IF i = 0 THEN << >>
                        ELSE IF s[i] \in S THEN Append(f[i - 1], s[i])
                        ELSE f[i - 1]]

\* The recursion of Kept defines a function.
LEMMA KeptExists ==
    ASSUME NEW s, NEW S, NEW m \in Nat
    PROVE  \E f : IsKept(f, s, S, m)
  <1> DEFINE Step(x, i) == IF s[i] \in S THEN Append(x, s[i]) ELSE x
             Is(f, n) == f = [i \in 0..n |-> IF i = 0 THEN << >> ELSE Step(f[i - 1], i)]
             G == {n \in Nat : \E f : Is(f, n)}
  <1>0. \A f, n : Is(f, n) <=> IsKept(f, s, S, n)
    BY Zenon DEF IsKept
  <1> HIDE DEF Step
  <1>1. 0 \in G
    <2>1. Is([i \in 0..0 |-> << >>], 0)
      OBVIOUS
    <2> QED BY Zenon, <2>1
  <1>2. ASSUME NEW n \in 0..(m - 1), n \in G PROVE n + 1 \in G
    <2>1. PICK f : Is(f, n)
      BY <1>2
    <2> DEFINE g == [i \in 0..(n + 1) |-> IF i = 0 THEN << >> ELSE Step(f[i - 1], i)]
    <2>2. \A i \in 0..n : g[i] = f[i]
      BY <2>1
    <2>3. ASSUME NEW i \in 0..(n + 1), i # 0 PROVE Step(f[i - 1], i) = Step(g[i - 1], i)
      <3>1. i - 1 \in 0..n
        BY <2>3
      <3> HIDE DEF g
      <3> QED BY <2>2, <3>1
    <2>4. g = [i \in 0..(n + 1) |-> IF i = 0 THEN << >> ELSE Step(g[i - 1], i)]
      <3> DEFINE h == [i \in 0..(n + 1) |-> IF i = 0 THEN << >> ELSE Step(g[i - 1], i)]
      <3>1. \A i \in 0..(n + 1) : g[i] = h[i]
        BY Zenon, <2>3
      <3> QED BY <3>1
    <2> HIDE DEF g
    <2> QED BY <2>4
  <1>3. m \in G
    <2> HIDE DEF G
    <2> QED BY <1>1, <1>2, Reaches
  <1> QED BY Zenon, <1>0, <1>3

\* What is left of a queue s, in the queue's type: the operations of s that are in S,
\* each once if it was in s once, in no more places than the others leave.
LEMMA KeptProperties ==
    ASSUME NEW X, NEW s \in Seq(X), NEW S
    PROVE  /\ Kept(s, S) \in Seq(X)
           /\ Range(Kept(s, S)) = Range(s) \cap S
           /\ IsFiniteSet(Range(s) \ S)
           /\ Len(Kept(s, S)) + Cardinality(Range(s) \ S) <= Len(s)
           /\ (\A i, j \in DOMAIN s : s[i] = s[j] => i = j) =>
                 \A i, j \in DOMAIN Kept(s, S) : Kept(s, S)[i] = Kept(s, S)[j] => i = j
  <1> DEFINE m == Len(s)
  <1>0. m \in Nat /\ DOMAIN s = 1..m /\ \A i \in 1..m : s[i] \in X
    OBVIOUS
  <1>1. PICK f : IsKept(f, s, S, m) /\ Kept(s, S) = f[m]
    <2> DEFINE F == CHOOSE f : IsKept(f, s, S, m)
    <2>1. IsKept(F, s, S, m)
      BY Zenon, <1>0, KeptExists
    <2>2. Kept(s, S) = F[m]
      BY DEF Kept, IsKept
    <2> QED BY Zenon, <2>1, <2>2
  <1> DEFINE Seen(n) == {s[i] : i \in 1..n}
             Lost(n) == Seen(n) \ S
             Good(n) == /\ f[n] \in Seq(X)
                        /\ \A k \in 1..Len(f[n]) : f[n][k] \in Seen(n) \cap S
                        /\ \A i \in 1..n : s[i] \in S => \E k \in 1..Len(f[n]) : f[n][k] = s[i]
                        /\ IsFiniteSet(Lost(n))
                        /\ Len(f[n]) + Cardinality(Lost(n)) <= n
                        /\ (\A i, j \in 1..m : s[i] = s[j] => i = j) =>
                              \A k, l \in 1..Len(f[n]) : f[n][k] = f[n][l] => k = l
             G == {n \in 0..m : Good(n)}
  <1>2. f[0] = << >>
    BY <1>0, <1>1 DEF IsKept
  <1>3. \A n \in 0..(m - 1) :
           f[n + 1] = IF s[n + 1] \in S THEN Append(f[n], s[n + 1]) ELSE f[n]
    <2> TAKE n \in 0..(m - 1)
    <2>1. n + 1 \in 0..m /\ n + 1 # 0 /\ (n + 1) - 1 = n
      BY <1>0
    <2> QED BY Zenon, <1>1, <2>1 DEF IsKept
  <1> HIDE <1>1
  <1>4. Good(0)
    <2>1. Lost(0) = {}
      OBVIOUS
    <2>2. Len(f[0]) = 0 /\ f[0] \in Seq(X)
      BY <1>2
    <2>3. IsFiniteSet(Lost(0)) /\ Cardinality(Lost(0)) = 0
      BY Zenon, <2>1, FS_EmptySet
    <2>4. Len(f[0]) + Cardinality(Lost(0)) <= 0
      BY <2>2, <2>3
    <2>5. 1..Len(f[0]) = {} /\ 1..0 = {}
      BY <2>2
    <2> HIDE DEF Seen, Lost
    <2> QED BY <2>2, <2>3, <2>4, <2>5
  <1>5. ASSUME NEW n \in 0..(m - 1), Good(n) PROVE Good(n + 1)
    <2> DEFINE e == s[n + 1]
    <2>1. n \in Nat /\ n + 1 \in 1..m /\ e \in X
      BY <1>0
    <2>2. Seen(n + 1) = Seen(n) \cup {e}
      <3>1. \A i \in 1..(n + 1) : i \in 1..n \/ i = n + 1
        BY <2>1
      <3>2. 1..n \subseteq 1..(n + 1) /\ n + 1 \in 1..(n + 1)
        BY <2>1
      <3> QED BY <3>1, <3>2
    <2>3. CASE e \in S
      <3>1. f[n + 1] = Append(f[n], e) /\ f[n] \in Seq(X)
        BY Zenon, <1>3, <1>5, <2>3
      <3>2. /\ f[n + 1] \in Seq(X) /\ Len(f[n + 1]) = Len(f[n]) + 1
            /\ \A k \in 1..Len(f[n]) : f[n + 1][k] = f[n][k]
            /\ f[n + 1][Len(f[n]) + 1] = e /\ Len(f[n]) \in Nat
        BY <2>1, <3>1, AppendProperties, LenProperties
      <3>3. Lost(n + 1) = Lost(n)
        BY <2>2, <2>3
      <3>4. \A k \in 1..Len(f[n + 1]) : k \in 1..Len(f[n]) \/ k = Len(f[n]) + 1
        BY <3>2
      <3>5. \A k \in 1..Len(f[n + 1]) : f[n + 1][k] \in Seen(n + 1) \cap S
        <4> HIDE DEF Seen, Lost, e
        <4> QED BY Zenon, <1>5, <2>2, <2>3, <3>2, <3>4
      <3>6. ASSUME NEW i \in 1..(n + 1), s[i] \in S
            PROVE  \E k \in 1..Len(f[n + 1]) : f[n + 1][k] = s[i]
        <4>1. CASE i = n + 1
          <5>1. Len(f[n]) + 1 \in 1..Len(f[n + 1])
            BY <3>2
          <5> QED BY <3>2, <4>1, <5>1
        <4>2. CASE i \in 1..n
          <5>1. PICK k \in 1..Len(f[n]) : f[n][k] = s[i]
            BY Zenon, <1>5, <3>6, <4>2
          <5>2. k \in 1..Len(f[n + 1])
            BY <3>2
          <5> QED BY <3>2, <5>1, <5>2
        <4> QED BY <2>1, <4>1, <4>2
      <3>7. ASSUME \A i, j \in 1..m : s[i] = s[j] => i = j,
                   NEW k \in 1..Len(f[n + 1]), NEW l \in 1..Len(f[n + 1]),
                   f[n + 1][k] = f[n + 1][l]
            PROVE  k = l
        <4>1. e \notin Seen(n)
          <5>1. \A i \in 1..n : i \in 1..m /\ i # n + 1
            BY <1>0, <2>1
          <5> QED BY <2>1, <3>7, <5>1
        <4>2. \A q \in 1..Len(f[n]) : f[n][q] # e
          <5> HIDE DEF Seen, Lost, e
          <5> QED BY <1>5, <4>1
        <4> QED BY ZenonT(20), <1>5, <3>2, <3>4, <3>7, <4>2
      <3>8. Len(f[n + 1]) + Cardinality(Lost(n + 1)) <= n + 1
        <4>1. Cardinality(Lost(n)) \in Nat
          <5> HIDE DEF Seen, Lost
          <5> QED BY <1>5, FS_CardinalityType
        <4>2. Len(f[n]) + Cardinality(Lost(n)) <= n
          BY <1>5
        <4> HIDE DEF Seen, Lost, Good
        <4> QED BY <2>1, <3>2, <3>3, <4>1, <4>2
      <3> HIDE DEF Seen, Lost
      <3> QED BY <1>5, <3>2, <3>3, <3>5, <3>6, <3>7, <3>8
    <2>4. CASE e \notin S
      <3>1. f[n + 1] = f[n]
        BY <1>3, <2>4
      <3>2. Lost(n + 1) = Lost(n) \cup {e}
        BY <2>2, <2>4
      <3>3. /\ IsFiniteSet(Lost(n + 1))
            /\ Cardinality(Lost(n + 1)) <= Cardinality(Lost(n)) + 1
            /\ Cardinality(Lost(n)) \in Nat /\ Cardinality(Lost(n + 1)) \in Nat
        <4> HIDE DEF Seen, Lost, e
        <4>1. IsFiniteSet(Lost(n))
          BY <1>5
        <4>2. /\ IsFiniteSet(Lost(n + 1))
              /\ Cardinality(Lost(n + 1)) =
                    IF e \in Lost(n) THEN Cardinality(Lost(n))
                    ELSE Cardinality(Lost(n)) + 1
          BY <3>2, <4>1, FS_AddElement
        <4>3. Cardinality(Lost(n)) \in Nat
          BY <4>1, FS_CardinalityType
        <4> QED BY <4>2, <4>3
      <3>4. \A i \in 1..(n + 1) : s[i] \in S => i \in 1..n
        BY <2>1, <2>4
      <3>5. Len(f[n]) \in Nat
        BY <1>5, LenProperties
      <3>6. Len(f[n + 1]) + Cardinality(Lost(n + 1)) <= n + 1
        <4>1. Len(f[n]) + Cardinality(Lost(n)) <= n
          BY <1>5
        <4> HIDE DEF Seen, Lost, Good
        <4> QED BY <2>1, <3>1, <3>3, <3>5, <4>1
      <3>7. Seen(n) \subseteq Seen(n + 1)
        BY <2>2
      <3> HIDE DEF Seen, Lost
      <3> QED BY Zenon, <1>5, <3>1, <3>3, <3>4, <3>6, <3>7
    <2> QED BY <2>3, <2>4
  <1>6. Good(m)
    <2>1. 0 \in G
      BY <1>0, <1>4
    <2>2. \A n \in 0..(m - 1) : n \in G => n + 1 \in G
      <3> HIDE DEF Good
      <3> QED BY <1>0, <1>5
    <2>3. m \in G
      <3> HIDE DEF G, m
      <3>1. \A n \in 0..m : n \in G
        BY <1>0, <2>1, <2>2, Reaches
      <3> QED BY <1>0, <3>1
    <2> QED BY <2>3
  <1>7. Kept(s, S) = f[m]
    BY <1>1
  <1>8. Range(s) = Seen(m) /\ Range(s) \ S = Lost(m)
    BY <1>0 DEF Range
  <1>9. Range(Kept(s, S)) = Range(s) \cap S
    <2>1. Range(f[m]) = {f[m][k] : k \in 1..Len(f[m])}
      BY <1>6, RangeEquality
    <2>2. Range(f[m]) \subseteq Seen(m) \cap S
      <3> HIDE DEF Seen
      <3> QED BY <1>6, <2>1
    <2>3. Seen(m) \cap S \subseteq Range(f[m])
      BY <1>6, <2>1
    <2> QED BY <1>7, <1>8, <2>2, <2>3
  <1>10. IsFiniteSet(Range(s) \ S) /\ Len(Kept(s, S)) + Cardinality(Range(s) \ S) <= Len(s)
    <2>1. IsFiniteSet(Lost(m)) /\ Len(f[m]) + Cardinality(Lost(m)) <= m
      BY <1>6
    <2> HIDE DEF Lost
    <2> QED BY Zenon, <1>7, <1>8, <2>1
  <1>11. f[m] \in Seq(X)
    BY <1>6
  <1>12. DOMAIN f[m] = 1..Len(f[m])
    BY <1>11, LenProperties
  <1>13. (\A i, j \in 1..m : s[i] = s[j] => i = j) =>
            \A k, l \in 1..Len(f[m]) : f[m][k] = f[m][l] => k = l
    BY <1>6
  <1> HIDE DEF Good, m
  <1> QED BY Zenon, <1>0, <1>7, <1>9, <1>10, <1>11, <1>12, <1>13

\* Things spread over bins: when no bin holds more than k of them there are at most
\* k for each bin, and when none holds fewer there are at least that many.
LEMMA Spread ==
    ASSUME NEW B, IsFiniteSet(B), NEW R, IsFiniteSet(R), NEW k \in Nat,
           NEW in, \A r \in R : in[r] \in B
    PROVE  /\ (\A b \in B : Cardinality({r \in R : in[r] = b}) <= k) =>
                Cardinality(R) <= k * Cardinality(B)
           /\ (\A b \in B : Cardinality({r \in R : in[r] = b}) >= k) =>
                Cardinality(R) >= k * Cardinality(B)
  <1> DEFINE Of(A) == {r \in R : in[r] \in A}
             Few == \A b \in B : Cardinality({r \in R : in[r] = b}) <= k
             Many == \A b \in B : Cardinality({r \in R : in[r] = b}) >= k
             Fits(A, n) == /\ Few => Cardinality(Of(A)) <= k * n
                           /\ Many => Cardinality(Of(A)) >= k * n
             G == {n \in Nat : \A A \in SUBSET B : Cardinality(A) = n => Fits(A, n)}
             m == Cardinality(B)
  <1>1. \A A \in SUBSET B : IsFiniteSet(A) /\ IsFiniteSet(Of(A))
    <2>1. \A A : Of(A) \in SUBSET R
      OBVIOUS
    <2> HIDE DEF Of
    <2> QED BY Zenon, <2>1, FS_Subset
  <1>2. m \in Nat
    BY FS_CardinalityType
  <1>3. 0 \in G
    <2> SUFFICES ASSUME NEW A \in SUBSET B, Cardinality(A) = 0 PROVE Fits(A, 0)
      OBVIOUS
    <2>1. A = {}
      BY <1>1, FS_EmptySet
    <2>2. Of(A) = {}
      BY <2>1
    <2>3. Cardinality(Of(A)) = 0
      BY <2>2, FS_EmptySet
    <2>4. k * 0 = 0
      OBVIOUS
    <2> HIDE DEF Of, Few, Many
    <2> QED BY <2>3, <2>4
  <1>4. ASSUME NEW n \in 0..(m - 1), n \in G PROVE n + 1 \in G
    <2> SUFFICES ASSUME NEW A \in SUBSET B, Cardinality(A) = n + 1 PROVE Fits(A, n + 1)
      OBVIOUS
    <2>0. n \in Nat
      OBVIOUS
    <2>1. PICK b : b \in A
      <3>1. A # {}
        BY <2>0, FS_EmptySet
      <3> QED BY <3>1
    <2> DEFINE C == A \ {b}
               Here == {r \in R : in[r] = b}
    <2>2. C \in SUBSET B /\ Cardinality(C) = n
      <3>1. Cardinality(C) = Cardinality(A) - 1
        BY <1>1, <2>1, FS_RemoveElement
      <3> QED BY <2>0, <3>1
    <2>3. Fits(C, n)
      <3> HIDE DEF C, Fits
      <3> QED BY <1>4, <2>2
    <2>4. Of(A) = Of(C) \cup Here /\ Of(C) \cap Here = {}
      BY <2>1
    <2>5. IsFiniteSet(Of(C)) /\ IsFiniteSet(Here)
      <3>1. Here \in SUBSET R
        OBVIOUS
      <3> HIDE DEF Here, Of, C
      <3> QED BY <1>1, <2>2, <3>1, FS_Subset
    <2>6. /\ Cardinality(Of(A)) = Cardinality(Of(C)) + Cardinality(Here) - Cardinality({})
          /\ Cardinality(Of(C)) \in Nat /\ Cardinality(Here) \in Nat /\ Cardinality({}) = 0
      <3> HIDE DEF Of, Here, C
      <3>1. Cardinality(Of(C) \cup Here)
              = Cardinality(Of(C)) + Cardinality(Here) - Cardinality(Of(C) \cap Here)
        BY Zenon, <2>5, FS_Union
      <3>2. Cardinality({}) = 0
        BY FS_EmptySet
      <3>3. Cardinality(Of(C)) \in Nat /\ Cardinality(Here) \in Nat
        BY Zenon, <2>5, FS_CardinalityType
      <3> QED BY Zenon, <2>4, <3>1, <3>2, <3>3
    <2>7. /\ Few => Cardinality(Here) <= k
          /\ Many => Cardinality(Here) >= k
      BY <2>1
    <2>8. k * (n + 1) = k * n + k /\ k * n \in Nat
      BY <2>0
    <2> HIDE DEF Of, Here, C, Few, Many
    <2> QED BY <2>3, <2>6, <2>7, <2>8
  <1>5. m \in G
    <2> HIDE DEF G, m
    <2>1. \A n \in 0..m : n \in G
      BY <1>2, <1>3, <1>4, Reaches
    <2> QED BY <1>2, <2>1
  <1>6. Fits(B, m)
    <2> HIDE DEF Fits
    <2> QED BY <1>5
  <1>7. Of(B) = R
    OBVIOUS
  <1> HIDE DEF Of, m
  <1> QED BY <1>6, <1>7 DEF m
=============================================================================
