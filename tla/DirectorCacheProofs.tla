------------------------ MODULE DirectorCacheProofs ------------------------
(***************************************************************************)
(* For every set of paths and origins and every lifetime: no node of the   *)
(* director cache outlives its parent, and the tree with its walk is the   *)
(* map of PrefixMap with its longest live prefix.                          *)
(***************************************************************************)
EXTENDS DirectorCache, BasicLemmas

\* The first k components of a path.
Cut(q, k) == SubSeq(q, 1, k)

-----------------------------------------------------------------------------
(* Paths and their prefixes. *)

\* A path is a sequence, and each of its prefixes is a path.
LEMMA PathCuts ==
    ASSUME ConstantsOK, NEW q \in Paths
    PROVE  /\ Len(q) \in Nat
           /\ \A k \in 0..Len(q) : Cut(q, k) \in Paths /\ Len(Cut(q, k)) = k
           /\ \A k \in 0..Len(q) : \A j \in 0..k : Cut(Cut(q, k), j) = Cut(q, j)
           /\ Cut(q, Len(q)) = q
           /\ Cut(q, 0) = << >> /\ (Len(q) = 0 <=> q = << >>)
  <1>0. PICK p \in Objects : \E n \in 0..Len(p) : q = SubSeq(p, 1, n)
    BY Zenon DEF Paths, Prefixes
  <1>1. PICK n \in 0..Len(p) : q = SubSeq(p, 1, n)
    BY Zenon, <1>0
  <1> DEFINE X == {p[i] : i \in DOMAIN p}
  <1>2. p \in Seq(X) /\ Len(p) \in Nat /\ \A i \in 1..Len(p) : p[i] \in X
    BY Zenon, LenProperties DEF ConstantsOK
  <1> HIDE DEF X
  <1>3. ASSUME NEW s \in Seq(X), NEW k \in 0..Len(s)
        PROVE  /\ Cut(s, k) \in Seq(X) /\ Len(Cut(s, k)) = k
               /\ \A i \in 1..k : Cut(s, k)[i] = s[i]
    <2>1. Len(s) \in Nat /\ 1 \in Int /\ k \in Int /\ \A i \in 1..k : s[i] \in X
      BY LenProperties, ElementOfSeq
    <2>2. /\ SubSeq(s, 1, k) \in Seq(X)
          /\ Len(SubSeq(s, 1, k)) = IF 1 <= k THEN k - 1 + 1 ELSE 0
          /\ \A i \in 1..(k - 1 + 1) : SubSeq(s, 1, k)[i] = s[1 + i - 1]
      BY <2>1, SubSeqProperties
    <2> QED BY <2>1, <2>2 DEF Cut
  <1>4. ASSUME NEW s \in Seq(X), NEW k \in 0..Len(s), NEW j \in 0..k
        PROVE  Cut(Cut(s, k), j) = Cut(s, j)
    <2>1. Len(s) \in Nat /\ j \in 0..Len(s)
      BY LenProperties
    <2>2. Cut(s, k) \in Seq(X) /\ Len(Cut(s, k)) = k /\ \A i \in 1..k : Cut(s, k)[i] = s[i]
      BY Zenon, <1>3
    <2>3. /\ Cut(s, j) \in Seq(X) /\ Len(Cut(s, j)) = j
          /\ \A i \in 1..j : Cut(s, j)[i] = s[i]
      BY Zenon, <1>3, <2>1
    <2>4. /\ Cut(Cut(s, k), j) \in Seq(X) /\ Len(Cut(Cut(s, k), j)) = j
          /\ \A i \in 1..j : Cut(Cut(s, k), j)[i] = Cut(s, k)[i]
      BY Zenon, <1>3, <2>2
    <2>5. \A i \in 1..j : Cut(Cut(s, k), j)[i] = Cut(s, j)[i]
      BY <2>2, <2>3, <2>4
    <2> QED BY Zenon, <2>3, <2>4, <2>5, SeqEqual
  <1>5. q = Cut(p, n) /\ q \in Seq(X) /\ Len(q) = n
    BY Zenon, <1>1, <1>2, <1>3 DEF Cut
  <1>6. \A k \in 0..Len(q) : Cut(q, k) = Cut(p, k) /\ k \in 0..Len(p)
    BY <1>2, <1>4, <1>5
  <1>7. \A k \in 0..Len(p) : Cut(p, k) \in Paths
    BY DEF Paths, Prefixes, Cut
  <1>8. Len(q) \in Nat /\ Cut(q, Len(q)) = q
    BY Zenon, <1>2, <1>5, LenProperties, SubSeqFull DEF Cut
  <1>9. Cut(q, 0) = << >>
    BY SubSeqEmpty DEF Cut
  <1>10. Len(q) = 0 <=> q = << >>
    BY Zenon, <1>5, EmptySeq
  <1> QED BY Zenon, <1>3, <1>4, <1>5, <1>6, <1>7, <1>8, <1>9, <1>10

\* A path is a prefix of another exactly if it is a cut of it.
LEMMA PrefixIsCut ==
    ASSUME ConstantsOK, NEW r \in Paths, NEW q \in Paths
    PROVE  r \in Prefixes(q) <=> Len(r) \in 0..Len(q) /\ r = Cut(q, Len(r))
  <1>1. \A k \in 0..Len(q) : Len(Cut(q, k)) = k
    BY Zenon, PathCuts
  <1> QED BY Zenon, <1>1 DEF Prefixes, Cut

-----------------------------------------------------------------------------
(* The invariant. *)

Node == [value : Origins \cup {None}, left : Lowest..Lifetime]

\* What every operation keeps: the root is there, and a node has, down from the root,
\* all the nodes its path names, none of which expires before it.  (ExpiryNested speaks
\* of parents only; that a whole branch goes at once needs all of them.)
TreeOK(t) ==
    /\ t \in [Paths -> Node \cup {None}]
    /\ \A q \in Paths : q = << >> => Present(t, q)
    /\ \A q \in Paths : Present(t, q) =>
          \A k \in 1..Len(q) : Present(t, Cut(q, k)) /\ t[q].left <= t[Cut(q, k)].left

\* None is no node.
LEMMA NodeType ==
    ASSUME ConstantsOK
    PROVE  /\ None \notin Node
           /\ \A e \in Node : e.left \in Int /\ e.left >= Lowest /\ e.left <= Lifetime
           /\ Lowest \in Int /\ Lowest < 0 /\ Lifetime \in Nat
  <1>1. Lowest \in Int /\ Lowest < 0 /\ Lifetime \in Nat
    BY DEF ConstantsOK, Lowest
  <1>2. Node \subseteq [value : Origins \cup {None}, left : Int]
    BY <1>1 DEF Node
  <1>3. None \notin Node
    BY Zenon, <1>2 DEF ConstantsOK
  <1>4. \A e \in Node : e.left \in Int /\ e.left >= Lowest /\ e.left <= Lifetime
    BY <1>1 DEF Node
  <1> QED BY Zenon, <1>1, <1>3, <1>4

\* A new cache.
LEMMA FreshOK ==
    ASSUME ConstantsOK
    PROVE  TreeOK(Fresh)
  <1> DEFINE root == [value |-> None, left |-> Lifetime]
  <1>1. root \in Node
    BY NodeType DEF Node
  <1>2. Fresh \in [Paths -> Node \cup {None}]
    BY Zenon, <1>1 DEF Fresh
  <1>3. \A q \in Paths : Present(Fresh, q) <=> q = << >>
    BY Zenon, <1>1, NodeType DEF Fresh, Present
  <1>4. \A q \in Paths : Present(Fresh, q) => 1..Len(q) = {}
    BY <1>3
  <1> QED BY Zenon, <1>2, <1>3, <1>4 DEF TreeOK

\* The passage of time: nodes that are as old as is told apart stay so.
LEMMA TickOK ==
    ASSUME ConstantsOK, NEW t, TreeOK(t)
    PROVE  TreeOK([q \in Paths |-> Sooner(t[q])])
  <1> DEFINE u == [q \in Paths |-> Sooner(t[q])]
  <1>1. ASSUME NEW e \in Node
        PROVE  /\ Sooner(e) \in Node
               /\ Sooner(e).left = IF e.left = Lowest THEN e.left ELSE e.left - 1
    <2>1. e # None /\ e.left \in Int /\ e.left >= Lowest /\ e.left <= Lifetime /\ Lowest \in Int
      BY Zenon, NodeType
    <2>2. CASE e.left = Lowest
      BY Zenon, <2>1, <2>2 DEF Sooner
    <2>3. CASE e.left # Lowest
      <3>1. Sooner(e) = [e EXCEPT !.left = e.left - 1]
        BY Zenon, <2>1, <2>3 DEF Sooner
      <3>2. e.left - 1 \in Lowest..Lifetime
        BY <2>1, <2>3, NodeType
      <3> QED BY Zenon, <2>3, <3>1, <3>2 DEF Node
    <2> QED BY Zenon, <2>2, <2>3
  <1>2. Sooner(None) = None
    BY Zenon DEF Sooner
  <1>3. t \in [Paths -> Node \cup {None}]
    BY Zenon DEF TreeOK
  <1>4. u \in [Paths -> Node \cup {None}]
    BY Zenon, <1>1, <1>2, <1>3
  <1>5. \A q \in Paths : Present(u, q) <=> Present(t, q)
    BY Zenon, <1>1, <1>2, <1>3, NodeType DEF Present
  <1>6. ASSUME NEW q \in Paths, Present(u, q), NEW k \in 1..Len(q)
        PROVE  Present(u, Cut(q, k)) /\ u[q].left <= u[Cut(q, k)].left
    <2>1. Cut(q, k) \in Paths
      BY PathCuts
    <2>2. Present(t, q) /\ Present(t, Cut(q, k)) /\ t[q].left <= t[Cut(q, k)].left
      BY Zenon, <1>5, <1>6 DEF TreeOK
    <2>3. t[q] \in Node /\ t[Cut(q, k)] \in Node
      BY Zenon, <1>3, <2>1, <2>2 DEF Present
    <2>4. /\ t[q].left \in Int /\ t[Cut(q, k)].left \in Int /\ Lowest \in Int
          /\ t[q].left >= Lowest
      BY Zenon, <2>3, NodeType
    <2>5. /\ u[q].left = IF t[q].left = Lowest THEN t[q].left ELSE t[q].left - 1
          /\ u[Cut(q, k)].left = IF t[Cut(q, k)].left = Lowest THEN t[Cut(q, k)].left
                                 ELSE t[Cut(q, k)].left - 1
      BY Zenon, <1>1, <2>1, <2>3
    <2>6. u[q].left <= u[Cut(q, k)].left
      <3> HIDE DEF u
      <3> QED BY <2>2, <2>4, <2>5
    <2> QED BY Zenon, <1>5, <2>1, <2>2, <2>6
  <1>7. \A q \in Paths : q = << >> => Present(u, q)
    BY Zenon, <1>5 DEF TreeOK
  <1> HIDE DEF u
  <1>8. TreeOK(u)
    BY Zenon, <1>4, <1>6, <1>7 DEF TreeOK
  <1> QED BY Zenon, <1>8 DEF u

\* CacheEntry::Put: the nodes on the way are at least as fresh as what they hold.
LEMMA PutOK ==
    ASSUME ConstantsOK, NEW t, TreeOK(t), NEW q \in Paths, NEW o \in Origins
    PROVE  TreeOK(PutPath(t, q, o))
  <1> DEFINE u == PutPath(t, q, o)
  <1>1. t \in [Paths -> Node \cup {None}]
    BY Zenon DEF TreeOK
  <1>2. ASSUME NEW r \in Paths, r \in Prefixes(q)
        PROVE  u[r] \in Node /\ u[r].left = Lifetime
    <2>1. Lifetime \in Lowest..Lifetime
      BY NodeType
    <2>2. CASE r = q
      BY Zenon, <2>1, <2>2 DEF PutPath, Node
    <2>3. CASE r # q
      <3>1. u[r] = [value |-> IF Present(t, r) THEN t[r].value ELSE None, left |-> Lifetime]
        BY Zenon, <1>2, <2>3 DEF PutPath
      <3>2. Present(t, r) => t[r].value \in Origins \cup {None}
        BY Zenon, <1>1 DEF Present, Node
      <3> QED BY <2>1, <3>1, <3>2 DEF Node
    <2> QED BY Zenon, <2>2, <2>3
  <1>3. ASSUME NEW r \in Paths, r \notin Prefixes(q)
        PROVE  u[r] = t[r]
    <2>1. r # q
      BY <1>3, PathCuts, PrefixIsCut
    <2> QED BY Zenon, <1>3, <2>1 DEF PutPath
  <1>4. u \in [Paths -> Node \cup {None}]
    <2>1. DOMAIN u = Paths /\ u = [r \in Paths |-> u[r]]
      BY Zenon DEF PutPath
    <2>2. \A r \in Paths : u[r] \in Node \cup {None}
      BY Zenon, <1>1, <1>2, <1>3
    <2> HIDE DEF u
    <2> QED BY Zenon, <2>1, <2>2
  <1> HIDE DEF u
  <1>5. \A r \in Paths : r \in Prefixes(q) \/ Present(t, r) => Present(u, r)
    BY Zenon, <1>2, <1>3, NodeType DEF Present
  <1>6. ASSUME NEW r \in Paths, Present(u, r), NEW k \in 1..Len(r)
        PROVE  Present(u, Cut(r, k)) /\ u[r].left <= u[Cut(r, k)].left
    <2>1. Cut(r, k) \in Paths /\ Len(Cut(r, k)) = k /\ Len(r) \in Nat
      BY PathCuts
    <2>2. u[r] \in Node /\ u[r].left \in Int /\ u[r].left <= Lifetime
      BY Zenon, <1>4, <1>6, NodeType DEF Present
    <2>3. CASE Cut(r, k) \in Prefixes(q)
      <3>1. u[Cut(r, k)].left = Lifetime /\ Present(u, Cut(r, k))
        BY Zenon, <1>2, <1>5, <2>1, <2>3
      <3> QED BY Zenon, <2>2, <3>1
    <2>4. CASE Cut(r, k) \notin Prefixes(q)
      <3>1. r \notin Prefixes(q)
        <4>1. SUFFICES ASSUME r \in Prefixes(q) PROVE FALSE
          OBVIOUS
        <4>2. Len(r) \in 0..Len(q) /\ r = Cut(q, Len(r)) /\ Len(q) \in Nat
          BY Zenon, <4>1, PathCuts, PrefixIsCut
        <4>3. Cut(r, k) = Cut(q, k) /\ k \in 0..Len(q)
          BY <2>1, <4>2, PathCuts
        <4> QED BY Zenon, <2>1, <2>4, <4>3, PrefixIsCut
      <3>2. u[r] = t[r] /\ u[Cut(r, k)] = t[Cut(r, k)]
        BY Zenon, <1>3, <2>1, <2>4, <3>1
      <3>3. Present(t, r)
        BY Zenon, <1>6, <3>2 DEF Present
      <3>4. Present(t, Cut(r, k)) /\ t[r].left <= t[Cut(r, k)].left
        BY Zenon, <3>3 DEF TreeOK
      <3> QED BY Zenon, <3>2, <3>4 DEF Present
    <2> QED BY Zenon, <2>3, <2>4
  <1>7. \A r \in Paths : r = << >> => Present(u, r)
    BY Zenon, <1>5 DEF TreeOK
  <1>8. TreeOK(u)
    BY Zenon, <1>4, <1>6, <1>7 DEF TreeOK
  <1> QED BY Zenon, <1>8 DEF u

\* CacheEntry::Expire: a branch goes as a whole.
LEMMA ExpireOK ==
    ASSUME ConstantsOK, NEW t, TreeOK(t), NEW lag \in Nat
    PROVE  TreeOK(ExpireTree(t, lag))
  <1> DEFINE u == ExpireTree(t, lag)
             Gone(q) == Present(t, Cut(q, 1)) /\ Expired(t[Cut(q, 1)], lag)
  <1>1. t \in [Paths -> Node \cup {None}]
    BY Zenon DEF TreeOK
  <1>2. \A q \in Paths : q # << >> => u[q] = IF Gone(q) THEN None ELSE t[q]
    BY Zenon DEF ExpireTree, Cut
  <1>3. ASSUME NEW q \in Paths, q = << >> PROVE u[q] \in Node
    <2>1. t[q] \in Node
      BY Zenon, <1>1, <1>3 DEF TreeOK, Present
    <2>2. u[q] = IF Expired(t[q], lag) THEN [t[q] EXCEPT !.value = None] ELSE t[q]
      BY Zenon, <1>3 DEF ExpireTree
    <2> QED BY Zenon, <2>1, <2>2 DEF Node
  <1>4. u \in [Paths -> Node \cup {None}]
    <2>1. DOMAIN u = Paths /\ u = [q \in Paths |-> u[q]]
      BY Zenon DEF ExpireTree
    <2>2. \A q \in Paths : u[q] \in Node \cup {None}
      BY Zenon, <1>1, <1>2, <1>3
    <2> HIDE DEF u
    <2> QED BY Zenon, <2>1, <2>2
  <1> HIDE DEF u
  <1>5. ASSUME NEW q \in Paths, Present(u, q), NEW k \in 1..Len(q)
        PROVE  Present(u, Cut(q, k)) /\ u[q].left <= u[Cut(q, k)].left
    <2>1. /\ Cut(q, k) \in Paths /\ Len(Cut(q, k)) = k /\ Len(q) \in Nat
          /\ Cut(Cut(q, k), 1) = Cut(q, 1)
      BY PathCuts
    <2>2. q # << >> /\ Cut(q, k) # << >>
      BY <2>1, PathCuts
    <2>3. u[q] = t[q] /\ ~Gone(q) /\ Present(t, q)
      BY Zenon, <1>2, <1>5, <2>2 DEF Present
    <2>4. ~Gone(Cut(q, k))
      BY Zenon, <2>1, <2>3
    <2>5. u[Cut(q, k)] = t[Cut(q, k)]
      BY Zenon, <1>2, <2>1, <2>2, <2>4
    <2>6. Present(t, Cut(q, k)) /\ t[q].left <= t[Cut(q, k)].left
      BY Zenon, <2>3 DEF TreeOK
    <2> QED BY Zenon, <2>3, <2>5, <2>6 DEF Present
  <1>6. \A q \in Paths : q = << >> => Present(u, q)
    BY Zenon, <1>3, NodeType DEF Present
  <1>7. TreeOK(u)
    BY Zenon, <1>4, <1>5, <1>6 DEF TreeOK
  <1> QED BY Zenon, <1>7 DEF u

\* The invariant holds of every state.
LEMMA TreeAlwaysOK ==
    ASSUME ConstantsOK
    PROVE  Spec => []TreeOK(tree)
  <1>1. Init => TreeOK(tree)
    BY Zenon, FreshOK DEF Init
  <1>2. TreeOK(tree) /\ [Next]_dvars => TreeOK(tree)'
    <2> SUFFICES ASSUME TreeOK(tree), [Next]_dvars PROVE TreeOK(tree')
      BY Zenon DEF TreeOK, Present
    <2>1. ASSUME NEW p \in Objects, Respond(p), tree' # tree PROVE TreeOK(tree')
      <3>1. PICK n \in 0..Len(p) : \E o \in Origins : tree' = PutPath(tree, SubSeq(p, 1, n), o)
        BY Zenon, <2>1 DEF Respond
      <3>2. SubSeq(p, 1, n) \in Paths
        BY DEF Paths, Prefixes
      <3> QED BY Zenon, <3>1, <3>2, PutOK
    <2>2. CASE Expire
      <3>1. PICK lag \in 0..MaxLag : tree' = ExpireTree(tree, lag)
        BY Zenon, <2>2 DEF Expire
      <3>2. lag \in Nat
        BY DEF ConstantsOK
      <3> QED BY Zenon, <3>1, <3>2, ExpireOK
    <2>3. CASE Tick
      BY Zenon, <2>3, TickOK DEF Tick
    <2>4. CASE Reset
      BY Zenon, <2>4, FreshOK DEF Reset
    <2>5. CASE tree' = tree
      BY Zenon, <2>5
    <2>6. ASSUME NEW p \in Objects, Resolve(p) PROVE tree' = tree
      BY Zenon, <2>6 DEF Resolve
    <2>7. BrokerExpire \/ UNCHANGED dvars => tree' = tree
      BY Zenon DEF BrokerExpire, dvars
    <2> QED BY Zenon, <2>1, <2>2, <2>3, <2>4, <2>5, <2>6, <2>7 DEF Next
  <1> QED BY <1>1, <1>2, PTL DEF Spec

\* ExpiryNested, for every tree the operations can make: CacheEntry::Get may stop at
\* the first expired node, and Expire may drop what is below one, without looking.
THEOREM NodesNested ==
    ASSUME ConstantsOK
    PROVE  Spec => []ExpiryNested
  <1>1. ASSUME TreeOK(tree) PROVE ExpiryNested
    <2> SUFFICES ASSUME NEW q \in Paths, Len(q) > 1, Present(tree, q)
                 PROVE  /\ Present(tree, SubSeq(q, 1, Len(q) - 1))
                        /\ tree[q].left <= tree[SubSeq(q, 1, Len(q) - 1)].left
      BY Zenon DEF ExpiryNested
    <2>1. Len(q) - 1 \in 1..Len(q)
      BY PathCuts
    <2> QED BY Zenon, <1>1, <2>1 DEF TreeOK, Cut
  <1> QED BY <1>1, TreeAlwaysOK, PTL

-----------------------------------------------------------------------------
(* The walk of CacheEntry::Get. *)

\* g is the function of GetNode for p.
IsGet(g, p) ==
    g = [n \in 0..Len(p) |->
            IF n = Len(p)
            THEN IF tree[SubSeq(p, 1, n)].value = None THEN None ELSE SubSeq(p, 1, n)
            ELSE IF \/ ~Present(tree, SubSeq(p, 1, n + 1))
                    \/ Expired(tree[SubSeq(p, 1, n + 1)], 0)
            THEN IF tree[SubSeq(p, 1, n)].value = None THEN None ELSE SubSeq(p, 1, n)
            ELSE IF g[n + 1] = None
            THEN IF tree[SubSeq(p, 1, n)].value = None THEN None ELSE SubSeq(p, 1, n)
            ELSE g[n + 1]]

\* The walk down a path ends.
LEMMA GetExists ==
    ASSUME NEW p, Len(p) \in Nat
    PROVE  \E g : IsGet(g, p)
  <1> DEFINE L == Len(p)
             Here(n) == IF tree[SubSeq(p, 1, n)].value = None THEN None ELSE SubSeq(p, 1, n)
             Step(x, n) == IF \/ ~Present(tree, SubSeq(p, 1, n + 1))
                              \/ Expired(tree[SubSeq(p, 1, n + 1)], 0)
                           THEN Here(n)
                           ELSE IF x = None THEN Here(n) ELSE x
             Is(f, k) == f = [n \in (L - k)..L |-> IF n = L THEN Here(n) ELSE Step(f[n + 1], n)]
             G == {k \in Nat : \E f : Is(f, k)}
  <1>0. ASSUME NEW f, f = [n \in 0..L |-> IF n = L THEN Here(n) ELSE Step(f[n + 1], n)]
        PROVE  IsGet(f, p)
    BY <1>0, Zenon DEF IsGet
  <1> HIDE DEF L, Here, Step
  <1>1. 0 \in G
    <2>1. L - 0 = L /\ L \in L..L /\ \A n \in L..L : n = L
      BY DEF L
    <2> DEFINE f == [n \in L..L |-> Here(n)]
    <2>2. f = [n \in (L - 0)..L |-> IF n = L THEN Here(n) ELSE Step(f[n + 1], n)]
      BY Zenon, <2>1
    <2> HIDE DEF f
    <2> QED BY Zenon, <2>2
  <1>2. ASSUME NEW k \in 0..(L - 1), k \in G PROVE k + 1 \in G
    <2>1. PICK f : Is(f, k)
      BY Zenon, <1>2
    <2> DEFINE g == [n \in (L - (k + 1))..L |-> IF n = L THEN Here(n) ELSE Step(f[n + 1], n)]
               h == [n \in (L - (k + 1))..L |-> IF n = L THEN Here(n) ELSE Step(g[n + 1], n)]
    <2>2. ASSUME NEW n \in (L - (k + 1))..L, n # L PROVE n + 1 \in (L - k)..L
      BY <2>2 DEF L
    <2>3. ASSUME NEW n \in (L - k)..L PROVE g[n] = f[n]
      <3>1. n \in (L - (k + 1))..L
        BY DEF L
      <3> QED BY Zenon, <2>1, <3>1
    <2>4. \A n \in (L - (k + 1))..L : g[n] = h[n]
      BY Zenon, <2>2, <2>3
    <2>5. g = h
      BY Zenon, <2>4
    <2>6. k + 1 \in Nat
      OBVIOUS
    <2> HIDE DEF g
    <2> QED BY Zenon, <2>5, <2>6
  <1>3. L \in G
    <2>1. L \in Nat
      BY Zenon DEF L
    <2> HIDE DEF G
    <2>2. \A n \in 0..L : n \in G
      BY Zenon, <1>1, <1>2, <2>1, Reaches
    <2> QED BY <2>1, <2>2
  <1>4. L - L = 0
    BY DEF L
  <1> QED BY Zenon, <1>0, <1>3, <1>4

\* The node of path q may answer a lookup.
Offers(q) ==
    /\ Present(tree, q) /\ tree[q].value # None
    /\ tree[q].left >= 0 \/ q = << >>

\* The walk finds the deepest node on the path that may answer.  It stops at the first
\* child that is missing or expired; that nothing below it offers anything is TreeOK.
LEMMA WalkFindsDeepest ==
    ASSUME ConstantsOK, TreeOK(tree), NEW p \in Paths
    PROVE  \/ GetNode(p) = None /\ \A m \in 0..Len(p) : ~Offers(Cut(p, m))
           \/ \E m \in 0..Len(p) : /\ GetNode(p) = Cut(p, m) /\ Offers(Cut(p, m))
                                  /\ \A j \in (m + 1)..Len(p) : ~Offers(Cut(p, j))
  <1> DEFINE L == Len(p)
  <1>1. /\ L \in Nat /\ Cut(p, 0) = << >>
        /\ \A m \in 0..L : /\ Cut(p, m) \in Paths /\ Cut(p, m) # None
                         /\ Len(Cut(p, m)) = m /\ (m = 0 <=> Cut(p, m) = << >>)
    BY Zenon, PathCuts DEF ConstantsOK
  <1>2. \A m \in 0..L : \A j \in 0..m : Cut(Cut(p, m), j) = Cut(p, j)
    BY Zenon, PathCuts
  <1>3. PICK g : IsGet(g, p) /\ GetNode(p) = g[0]
    <2> DEFINE C == CHOOSE g : IsGet(g, p)
    <2>1. IsGet(C, p)
      BY Zenon, <1>1, GetExists
    <2>2. GetNode(p) = C[0]
      BY Zenon DEF GetNode, IsGet
    <2> QED BY Zenon, <2>1, <2>2
  <1> DEFINE Here(n) == IF tree[Cut(p, n)].value = None THEN None ELSE Cut(p, n)
             Dead(n) == ~Present(tree, Cut(p, n)) \/ Expired(tree[Cut(p, n)], 0)
             Live(n) == n = 0 \/ ~Dead(n)
             Found(n) == \/ g[n] = None /\ \A m \in n..L : ~Offers(Cut(p, m))
                         \/ \E m \in n..L : /\ g[n] = Cut(p, m) /\ Offers(Cut(p, m))
                                           /\ \A j \in (m + 1)..L : ~Offers(Cut(p, j))
  <1>4. g[L] = Here(L)
    BY <1>1, <1>3 DEF IsGet, Cut
  <1>5. \A n \in 0..(L - 1) :
           g[n] = IF Dead(n + 1) THEN Here(n) ELSE IF g[n + 1] = None THEN Here(n)
                  ELSE g[n + 1]
    <2> TAKE n \in 0..(L - 1)
    <2>1. n \in 0..L /\ n # L
      BY <1>1
    <2> QED BY Zenon, <1>3, <2>1 DEF IsGet, Cut
  <1>6. ASSUME NEW n \in 0..L, Present(tree, Cut(p, n)) PROVE tree[Cut(p, n)].left \in Int
    BY Zenon, <1>1, <1>6, NodeType DEF TreeOK, Present
  <1>7. ASSUME NEW n \in 0..L, Live(n), g[n] = Here(n), \A j \in (n + 1)..L : ~Offers(Cut(p, j))
        PROVE  Found(n)
    <2>1. Present(tree, Cut(p, n))
      BY Zenon, <1>1, <1>7 DEF TreeOK
    <2>2. tree[Cut(p, n)].left >= 0 \/ Cut(p, n) = << >>
      BY <1>1, <1>6, <1>7, <2>1 DEF Expired
    <2>3. Offers(Cut(p, n)) <=> tree[Cut(p, n)].value # None
      BY Zenon, <2>1, <2>2 DEF Offers
    <2>4. n \in n..L /\ \A m \in n..L : m = n \/ m \in (n + 1)..L
      BY <1>1
    <2> QED BY Zenon, <1>7, <2>3, <2>4
  <1>8. ASSUME NEW n \in 0..(L - 1), Dead(n + 1), NEW j \in (n + 1)..L
        PROVE  ~Offers(Cut(p, j))
    <2> SUFFICES ASSUME Offers(Cut(p, j)) PROVE FALSE
      OBVIOUS
    <2>1. j \in 0..L /\ j # 0 /\ n + 1 \in 0..L /\ n + 1 \in 1..j /\ n + 1 \in 0..j
      BY <1>1
    <2>2. Present(tree, Cut(p, j)) /\ tree[Cut(p, j)].left >= 0
      BY Zenon, <1>1, <2>1 DEF Offers
    <2>3. /\ Present(tree, Cut(Cut(p, j), n + 1))
          /\ tree[Cut(p, j)].left <= tree[Cut(Cut(p, j), n + 1)].left
      BY Zenon, <1>1, <2>1, <2>2 DEF TreeOK
    <2>4. Cut(Cut(p, j), n + 1) = Cut(p, n + 1)
      BY Zenon, <1>2, <2>1
    <2>5. /\ Present(tree, Cut(p, n + 1))
          /\ tree[Cut(p, j)].left <= tree[Cut(p, n + 1)].left
      BY Zenon, <2>3, <2>4
    <2>6. tree[Cut(p, j)].left \in Int /\ tree[Cut(p, n + 1)].left \in Int
      BY Zenon, <1>6, <2>1, <2>2, <2>5
    <2> QED BY <1>8, <2>2, <2>5, <2>6 DEF Expired
  <1> HIDE DEF Here
  <1> DEFINE Good(k) == Live(L - k) => Found(L - k)
             G == {k \in 0..L : Good(k)}
  <1>9. Good(0)
    <2>1. L - 0 = L /\ L \in 0..L /\ (L + 1)..L = {}
      BY <1>1
    <2> QED BY Zenon, <1>4, <1>7, <2>1
  <1>10. ASSUME NEW k \in 0..(L - 1), Good(k) PROVE Good(k + 1)
    <2> DEFINE n == L - (k + 1)
    <2>1. n \in 0..(L - 1) /\ n \in 0..L /\ n + 1 = L - k /\ n \in Int
      BY <1>1
    <2> SUFFICES ASSUME Live(n) PROVE Found(n)
      BY Zenon
    <2>2. Live(n + 1) => Found(n + 1)
      BY Zenon, <1>10, <2>1
    <2> HIDE DEF n
    <2>3. CASE Dead(n + 1)
      <3>1. g[n] = Here(n)
        BY Zenon, <1>5, <2>1, <2>3
      <3>2. \A j \in (n + 1)..L : ~Offers(Cut(p, j))
        BY Zenon, <1>8, <2>1, <2>3
      <3> HIDE DEF Found, Live
      <3> QED BY Zenon, <1>7, <2>1, <3>1, <3>2
    <2>4. CASE ~Dead(n + 1)
      <3>1. Found(n + 1)
        BY Zenon, <2>2, <2>4
      <3>2. CASE g[n + 1] = None
        <4>1. g[n] = Here(n)
          BY Zenon, <1>5, <2>1, <2>4, <3>2
        <4>2. \A j \in (n + 1)..L : ~Offers(Cut(p, j))
          <5>1. \A m \in (n + 1)..L : m \in 0..L
            BY <1>1, <2>1
          <5> QED BY Zenon, <1>1, <3>1, <3>2, <5>1
        <4> HIDE DEF Found, Live
        <4> QED BY Zenon, <1>7, <2>1, <4>1, <4>2
      <3>3. CASE g[n + 1] # None
        <4>1. g[n] = g[n + 1]
          <5> HIDE DEF Dead
          <5> QED BY Zenon, <1>5, <2>1, <2>4, <3>3
        <4>2. \A m \in (n + 1)..L : m \in n..L
          BY <1>1, <2>1
        <4> HIDE DEF Dead, Live
        <4> QED BY Zenon, <3>1, <3>3, <4>1, <4>2
      <3> QED BY Zenon, <3>2, <3>3
    <2> QED BY Zenon, <2>3, <2>4
  <1>11. Good(L)
    <2>1. 0 \in G
      BY <1>1, <1>9
    <2>2. \A n \in 0..(L - 1) : n \in G => n + 1 \in G
      <3> HIDE DEF Good
      <3> QED BY <1>1, <1>10
    <2>3. L \in G
      <3> HIDE DEF G, L
      <3>1. \A n \in 0..L : n \in G
        BY Zenon, <1>1, <2>1, <2>2, Reaches
      <3> QED BY <1>1, <3>1
    <2> QED BY Zenon, <2>3
  <1>12. Found(0)
    <2>1. L - L = 0
      BY <1>1
    <2> QED BY Zenon, <1>11, <2>1
  <1> QED BY Zenon, <1>3, <1>12

-----------------------------------------------------------------------------
(* The tree implements the map. *)

\* The map that stands for the tree.
LEMMA StoredType ==
    ASSUME ConstantsOK, TreeOK(tree), NEW q \in Paths
    PROVE  /\ StoredEntry(q) = None <=> ~Present(tree, q) \/ tree[q].value = None
           /\ StoredEntry(q) # None =>
                 /\ StoredEntry(q) = [origin |-> tree[q].value, age |-> Lifetime - tree[q].left]
                 /\ tree[q].value \in Origins
                 /\ tree[q].left \in Int /\ tree[q].left >= Lowest /\ tree[q].left <= Lifetime
  <1> DEFINE e == [origin |-> tree[q].value, age |-> Lifetime - tree[q].left]
  <1>1. Present(tree, q) => /\ tree[q] \in Node /\ tree[q].value \in Origins \cup {None}
                            /\ tree[q].left \in Int
                            /\ tree[q].left >= Lowest /\ tree[q].left <= Lifetime
    BY Zenon, NodeType DEF TreeOK, Present, Node
  <1>2. Present(tree, q) /\ tree[q].value # None => e \in [origin : Origins, age : Int]
    BY <1>1, NodeType
  <1>3. Present(tree, q) /\ tree[q].value # None => e # None
    BY Zenon, <1>2 DEF ConstantsOK
  <1> QED BY Zenon, <1>1, <1>3 DEF StoredEntry

\* DirectorCache::Get answers what the map answers: the longest prefix of the path that
\* has an origin and is not too old.
LEMMA GetIsLookup ==
    ASSUME ConstantsOK, TreeOK(tree), NEW p \in Objects
    PROVE  Answer(p) = Promise!Lookup(p)
  <1> DEFINE hits == {q \in Promise!Paths : q \in Promise!Prefixes(p) /\ Promise!Visible(q)}
  <1>1. p \in Paths
    <2>1. p \in Seq({p[i] : i \in DOMAIN p}) /\ Len(p) \in Nat
      BY Zenon, LenProperties DEF ConstantsOK
    <2>2. SubSeq(p, 1, Len(p)) = p /\ Len(p) \in 0..Len(p)
      BY SMTT(20), <2>1, SubSeqFull
    <2>3. p \in Prefixes(p)
      BY Zenon, <2>2 DEF Prefixes
    <2> QED BY Zenon, <2>3 DEF Paths
  <1>2. Promise!Paths = Paths /\ Promise!Prefixes(p) = {Cut(p, m) : m \in 0..Len(p)}
    BY Zenon DEF Promise!Paths, Promise!Prefixes, Paths, Prefixes, Cut
  <1>3. ASSUME NEW q \in Paths PROVE Promise!Visible(q) <=> Offers(q)
    <2>1. Promise!Visible(q) <=>
             /\ StoredEntry(q) # None
             /\ StoredEntry(q).age <= Lifetime \/ q = << >>
      BY Zenon DEF Promise!Visible
    <2>2. Lifetime \in Nat
      BY Zenon DEF ConstantsOK
    <2>3. StoredEntry(q) # None => (StoredEntry(q).age <= Lifetime <=> tree[q].left >= 0)
      <3> SUFFICES ASSUME StoredEntry(q) # None
                   PROVE  StoredEntry(q).age <= Lifetime <=> tree[q].left >= 0
        OBVIOUS
      <3>1. StoredEntry(q).age = Lifetime - tree[q].left /\ tree[q].left \in Int
        BY StoredType
      <3> QED BY <2>2, <3>1
    <2> QED BY Zenon, <2>1, <2>3, StoredType DEF Offers
  <1>4. \A m \in 0..Len(p) : Cut(p, m) \in Paths /\ Len(Cut(p, m)) = m
    BY Zenon, <1>1, PathCuts
  <1>5. hits = {Cut(p, m) : m \in {k \in 0..Len(p) : Offers(Cut(p, k))}}
    BY Zenon, <1>2, <1>3, <1>4
  <1>6. Promise!Lookup(p) =
           IF hits = {} THEN None
           ELSE [path |-> p, at |-> Promise!Longest(hits),
                 origin |-> [q \in Paths |-> StoredEntry(q)][Promise!Longest(hits)].origin]
    BY Zenon DEF Promise!Lookup
  <1> HIDE DEF hits
  <1>7. CASE GetNode(p) = None /\ \A m \in 0..Len(p) : ~Offers(Cut(p, m))
    <2>1. hits = {}
      BY Zenon, <1>5, <1>7
    <2> QED BY Zenon, <1>6, <1>7, <2>1 DEF Answer
  <1>8. ASSUME NEW m \in 0..Len(p), GetNode(p) = Cut(p, m), Offers(Cut(p, m)),
               \A j \in (m + 1)..Len(p) : ~Offers(Cut(p, j))
        PROVE  Answer(p) = Promise!Lookup(p)
    <2>1. Cut(p, m) \in hits
      BY Zenon, <1>5, <1>8
    <2>2. ASSUME NEW r \in hits
          PROVE  Len(r) <= m /\ r = Cut(p, Len(r)) /\ Len(r) \in Nat
      <3>1. PICK k \in 0..Len(p) : r = Cut(p, k) /\ Offers(Cut(p, k))
        BY Zenon, <1>5
      <3>2. Len(p) \in Nat /\ k \notin (m + 1)..Len(p)
        BY Zenon, <1>1, <1>8, <3>1, PathCuts
      <3> QED BY <1>4, <3>1, <3>2
    <2>3. Promise!Longest(hits) = Cut(p, m)
      <3> DEFINE Top(q) == q \in hits /\ \A r \in hits : Len(r) <= Len(q)
      <3>1. Top(Cut(p, m))
        BY Zenon, <1>4, <2>1, <2>2
      <3>2. ASSUME NEW q, Top(q) PROVE q = Cut(p, m)
        <4>1. Len(q) <= m /\ q = Cut(p, Len(q)) /\ Len(q) \in Nat
          BY Zenon, <2>2, <3>2
        <4>2. m <= Len(q)
          BY Zenon, <1>4, <2>1, <3>2
        <4>3. Len(q) = m
          BY <4>1, <4>2
        <4> QED BY Zenon, <4>1, <4>3
      <3>3. Promise!Longest(hits) = CHOOSE q : Top(q)
        BY Zenon DEF Promise!Longest
      <3> HIDE DEF Top
      <3> QED BY Zenon, <3>1, <3>2, <3>3
    <2>4. Cut(p, m) \in Paths /\ Cut(p, m) # None
      BY Zenon, <1>4 DEF ConstantsOK
    <2>5. StoredEntry(Cut(p, m)).origin = tree[Cut(p, m)].value
      BY <1>8, <2>4, StoredType DEF Offers
    <2>6. Answer(p) = [path |-> p, at |-> Cut(p, m), origin |-> tree[Cut(p, m)].value]
      BY Zenon, <1>8, <2>4 DEF Answer
    <2> QED BY Zenon, <1>6, <2>1, <2>3, <2>4, <2>5, <2>6
  <1> QED BY Zenon, <1>1, <1>7, <1>8, WalkFindsDeepest

\* A response of the director is a put.
LEMMA RespondIsPut ==
    ASSUME ConstantsOK, TreeOK(tree), NEW q \in Paths, NEW o \in Origins,
           tree' = PutPath(tree, q, o), answer' = answer
    PROVE  Promise!Put(q, o)
  <1> DEFINE s == [r \in Paths |-> StoredEntry(r)]
  <1>1. TreeOK(tree')
    BY Zenon, PutOK
  <1>2. ASSUME NEW r \in Paths
        PROVE  StoredEntry(r)' = IF r = q THEN [origin |-> o, age |-> 0]
                                 ELSE IF r \in Prefixes(q)
                                 THEN IF s[r] = None THEN None ELSE [s[r] EXCEPT !.age = 0]
                                 ELSE s[r]
    <2>1. Lifetime - Lifetime = 0 /\ Lifetime \in Lowest..Lifetime
      BY NodeType
    <2>2. \A v \in Origins \cup {None} : [value |-> v, left |-> Lifetime] # None
      BY <2>1, NodeType DEF Node
    <2>3. StoredEntry(r)' = IF ~Present(tree', r) \/ tree'[r].value = None THEN None
                            ELSE [origin |-> tree'[r].value, age |-> Lifetime - tree'[r].left]
      BY Zenon DEF StoredEntry, Present
    <2>4. CASE r = q
      <3>1. tree'[r] = [value |-> o, left |-> Lifetime] /\ o # None
        BY Zenon, <2>4 DEF PutPath, ConstantsOK
      <3> QED BY <2>1, <2>2, <2>3, <2>4, <3>1 DEF Present
    <2>5. CASE r # q /\ r \in Prefixes(q)
      <3> DEFINE v == IF Present(tree, r) THEN tree[r].value ELSE None
      <3>1. tree'[r] = [value |-> v, left |-> Lifetime]
        BY Zenon, <2>5 DEF PutPath
      <3>2. v \in Origins \cup {None}
        BY Zenon DEF TreeOK, Present, Node
      <3>3. StoredEntry(r)' = IF v = None THEN None ELSE [origin |-> v, age |-> 0]
        BY <2>1, <2>2, <2>3, <3>1, <3>2 DEF Present
      <3>4. s[r] = None <=> v = None
        BY Zenon, StoredType
      <3>5. s[r] # None => [s[r] EXCEPT !.age = 0] = [origin |-> v, age |-> 0]
        BY StoredType
      <3> QED BY Zenon, <2>5, <3>3, <3>4, <3>5
    <2>6. CASE r # q /\ r \notin Prefixes(q)
      <3>1. tree'[r] = tree[r]
        BY Zenon, <2>6 DEF PutPath
      <3> QED BY Zenon, <2>3, <2>6, <3>1 DEF StoredEntry, Present
    <2> QED BY Zenon, <2>4, <2>5, <2>6
  <1> QED BY Zenon, <1>2 DEF Promise!Put, Promise!Renewed, Promise!Paths, Promise!Prefixes,
                       Paths, Prefixes

\* A pass of the expiry thread forgets only what is too old: a branch is dropped because
\* of its first node, which expires last.
LEMMA ExpireIsForget ==
    ASSUME ConstantsOK, TreeOK(tree), Expire
    PROVE  Promise!Forget
  <1> DEFINE s == [q \in Paths |-> StoredEntry(q)]
             S == {q \in Paths : s[q] # None /\ StoredEntry(q)' = None}
  <1>1. PICK lag \in 0..MaxLag : tree' = ExpireTree(tree, lag)
    BY Zenon DEF Expire
  <1>2. lag \in Nat
    BY DEF ConstantsOK
  <1>3. \A q \in Paths :
           StoredEntry(q)' = IF ~Present(tree', q) \/ tree'[q].value = None THEN None
                             ELSE [origin |-> tree'[q].value, age |-> Lifetime - tree'[q].left]
    BY Zenon DEF StoredEntry, Present
  <1>4. ASSUME NEW q \in Paths, s[q] = None \/ StoredEntry(q)' # None
        PROVE  StoredEntry(q)' = s[q]
    <2>1. CASE tree'[q] = tree[q]
      BY Zenon, <1>3, <2>1 DEF StoredEntry, Present
    <2>2. CASE tree'[q] = None
      BY Zenon, <1>3, <1>4, <2>2 DEF Present
    <2>3. CASE q = << >> /\ tree'[q] = [tree[q] EXCEPT !.value = None]
      <3>1. tree[q] \in Node
        BY Zenon, <2>3 DEF TreeOK, Present
      <3>2. tree'[q].value = None
        BY Zenon, <2>3, <3>1 DEF Node
      <3> QED BY Zenon, <1>3, <1>4, <3>2
    <2> QED BY Zenon, <1>1, <2>1, <2>2, <2>3 DEF ExpireTree
  <1>5. ASSUME NEW q \in S PROVE s[q].age > Lifetime
    <2>1. /\ Present(tree, q) /\ s[q].age = Lifetime - tree[q].left
          /\ tree[q].left \in Int /\ tree[q].value # None
      BY StoredType
    <2>2. tree'[q] # tree[q]
      <3>1. tree'[q] = tree[q] => StoredEntry(q)' = StoredEntry(q)
        BY Zenon, <1>3 DEF StoredEntry, Present
      <3> QED BY Zenon, <3>1
    <2>3. tree[q].left < 0
      <3>1. CASE q = << >>
        BY SMTT(20), <1>1, <1>2, <2>1, <2>2, <3>1 DEF ExpireTree, Expired
      <3>2. CASE q # << >>
        <4>1. Present(tree, Cut(q, 1)) /\ Expired(tree[Cut(q, 1)], lag)
          BY Zenon, <1>1, <2>2, <3>2 DEF ExpireTree, Cut
        <4>2. 1 \in 1..Len(q) /\ Cut(q, 1) \in Paths
          BY <3>2, PathCuts
        <4>3. tree[q].left <= tree[Cut(q, 1)].left /\ tree[Cut(q, 1)].left \in Int
          BY Zenon, <2>1, <4>1, <4>2, NodeType DEF TreeOK, Present
        <4> QED BY <1>2, <2>1, <4>1, <4>3 DEF Expired
      <3> QED BY Zenon, <3>1, <3>2
    <2>4. Lifetime \in Nat
      BY Zenon, NodeType
    <2> HIDE DEF s, S
    <2> QED BY <2>1, <2>3, <2>4
  <1>6. [q \in Paths |-> StoredEntry(q)'] = [q \in Paths |-> IF q \in S THEN None ELSE s[q]]
    BY Zenon, <1>4
  <1>7. S \in SUBSET {q \in Paths : s[q] # None /\ s[q].age > Lifetime}
    BY Zenon, <1>5
  <1>8. Promise!Paths = Paths
    BY Zenon DEF Promise!Paths, Promise!Prefixes, Paths, Prefixes
  <1>9. Promise!Forget <=>
           /\ \E Z \in SUBSET {q \in Paths : s[q] # None /\ s[q].age > Lifetime} :
                 [q \in Paths |-> StoredEntry(q)'] =
                    [q \in Paths |-> IF q \in Z THEN None ELSE s[q]]
           /\ UNCHANGED answer
    BY Zenon, <1>8 DEF Promise!Forget
  <1>10. UNCHANGED answer
    BY Zenon DEF Expire
  <1> HIDE DEF s, S
  <1> QED BY Zenon, <1>6, <1>7, <1>9, <1>10

\* The clock is the clock: the ages that are not told apart are the same.
LEMMA TickIsTick ==
    ASSUME ConstantsOK, TreeOK(tree), Tick
    PROVE  Promise!Tick
  <1> DEFINE s == [q \in Paths |-> StoredEntry(q)]
             MaxAge == Lifetime - Lowest
  <1>1. ASSUME NEW q \in Paths
        PROVE  StoredEntry(q)' = IF s[q] = None \/ s[q].age = MaxAge THEN s[q]
                                 ELSE [s[q] EXCEPT !.age = s[q].age + 1]
    <2>1. StoredEntry(q)' = IF ~Present(tree', q) \/ tree'[q].value = None THEN None
                            ELSE [origin |-> tree'[q].value, age |-> Lifetime - tree'[q].left]
      BY Zenon DEF StoredEntry, Present
    <2>2. tree'[q] = Sooner(tree[q]) /\ (tree[q] \in Node \/ tree[q] = None)
      BY Zenon DEF Tick, TreeOK
    <2>3. CASE tree'[q] = tree[q] /\ (tree[q] = None \/ tree[q].left = Lowest)
      <3>1. StoredEntry(q)' = s[q]
        BY Zenon, <2>1, <2>3 DEF StoredEntry, Present
      <3>2. s[q] # None => s[q].age = MaxAge
        BY <2>3, StoredType DEF Present
      <3> QED BY Zenon, <3>1, <3>2
    <2>4. CASE tree[q] \in Node /\ tree[q].left # Lowest /\ tree[q] # None
      <3>1. tree'[q] = [tree[q] EXCEPT !.left = tree[q].left - 1]
        BY Zenon, <2>2, <2>4 DEF Sooner
      <3>2. tree'[q].value = tree[q].value /\ tree'[q].left = tree[q].left - 1
        BY Zenon, <2>4, <3>1 DEF Node
      <3>3. tree[q].left \in Int /\ Lowest \in Int /\ Lifetime \in Nat /\ tree'[q] # None
        <4>1. TreeOK(tree')
          BY Zenon, TickOK DEF Tick
        <4>2. tree[q].left - 1 \in Lowest..Lifetime
          BY <2>4, NodeType
        <4>3. tree'[q] \in Node
          BY Zenon, <2>4, <3>1, <4>2 DEF Node
        <4> QED BY Zenon, <2>4, <4>3, NodeType
      <3>4. CASE tree[q].value = None
        BY Zenon, <2>1, <2>4, <3>2, <3>4 DEF StoredEntry
      <3>5. CASE tree[q].value # None
        <4>1. s[q] = [origin |-> tree[q].value, age |-> Lifetime - tree[q].left] /\ s[q] # None
          BY Zenon, <2>4, <3>5, StoredType DEF Present
        <4>2. s[q].age = Lifetime - tree[q].left /\ s[q].age # MaxAge
          BY <2>4, <3>3, <4>1
        <4>3. StoredEntry(q)' = [origin |-> tree[q].value, age |-> Lifetime - (tree[q].left - 1)]
          BY Zenon, <2>1, <3>2, <3>3, <3>5 DEF Present
        <4>4. Lifetime - (tree[q].left - 1) = s[q].age + 1
          BY <3>3, <4>2
        <4> QED BY <4>1, <4>2, <4>3, <4>4
      <3> QED BY Zenon, <3>4, <3>5
    <2> QED BY Zenon, <2>2, <2>3, <2>4 DEF Sooner
  <1>2. Promise!Paths = Paths
    BY Zenon DEF Promise!Paths, Promise!Prefixes, Paths, Prefixes
  <1>3. UNCHANGED answer
    BY Zenon DEF Tick
  <1> QED BY Zenon, <1>1, <1>2, <1>3 DEF Promise!Tick, Promise!Older

\* The tree of path components, with its renewed expiries, its walk, its lazy expiry and
\* the responses that arrive late, is for its users the map of PrefixMap: a lookup
\* gets the origin of the longest prefix that is not too old, and no other.
THEOREM TreeIsPrefixMap ==
    ASSUME ConstantsOK
    PROVE  Spec => ImplementsPrefixMap
  <1>1. Promise!Paths = Paths
    BY Zenon DEF Promise!Paths, Promise!Prefixes, Paths, Prefixes
  <1>2. Init => Promise!Init
    <2> SUFFICES ASSUME Init PROVE Promise!Init
      OBVIOUS
    <2>1. \A q \in Paths : StoredEntry(q) = None
      BY Zenon DEF Init, Fresh, StoredEntry, Present
    <2> QED BY Zenon, <1>1, <2>1 DEF Init, Promise!Init
  <1>3. ASSUME TreeOK(tree), [Next]_dvars PROVE [Promise!Next]_Promise!pvars
    <2>1. ASSUME NEW p \in Objects, Resolve(p) PROVE Promise!Next
      <3>1. answer' = Promise!Lookup(p) /\ tree' = tree
        BY Zenon, <1>3, <2>1, GetIsLookup DEF Resolve
      <3>2. Promise!Get(p)
        BY Zenon, <3>1 DEF Promise!Get, StoredEntry, Present
      <3> QED BY Zenon, <3>2 DEF Promise!Next
    <2>2. ASSUME NEW p \in Objects, Respond(p), tree' # tree PROVE Promise!Next
      <3>1. PICK n \in 0..Len(p) : \E o \in Origins : tree' = PutPath(tree, SubSeq(p, 1, n), o)
        BY Zenon, <2>2 DEF Respond
      <3>2. PICK o \in Origins : tree' = PutPath(tree, SubSeq(p, 1, n), o)
        BY Zenon, <3>1
      <3>3. SubSeq(p, 1, n) \in Paths
        BY DEF Paths, Prefixes
      <3>4. Promise!Put(SubSeq(p, 1, n), o)
        BY Zenon, <1>3, <2>2, <3>2, <3>3, RespondIsPut DEF Respond
      <3> QED BY Zenon, <1>1, <3>3, <3>4 DEF Promise!Next
    <2>3. CASE Expire
      BY Zenon, <1>3, <2>3, ExpireIsForget DEF Promise!Next
    <2>4. CASE Tick
      BY Zenon, <1>3, <2>4, TickIsTick DEF Promise!Next
    <2>5. CASE Reset
      <3>1. \A q \in Paths : StoredEntry(q)' = None
        BY Zenon, <2>5 DEF Reset, Fresh, StoredEntry, Present
      <3>2. Promise!Reset
        BY Zenon, <1>1, <2>5, <3>1 DEF Reset, Promise!Reset
      <3> QED BY Zenon, <3>2 DEF Promise!Next
    <2>6. CASE tree' = tree /\ answer' = answer
      BY Zenon, <2>6 DEF Promise!pvars, StoredEntry, Present
    <2>7. ASSUME NEW p \in Objects, Respond(p) PROVE answer' = answer
      BY Zenon, <2>7 DEF Respond
    <2>8. BrokerExpire \/ UNCHANGED dvars => tree' = tree /\ answer' = answer
      BY Zenon DEF BrokerExpire, dvars
    <2> QED BY Zenon, <1>3, <2>1, <2>2, <2>3, <2>4, <2>5, <2>6, <2>7, <2>8 DEF Next
  <1> QED BY <1>2, <1>3, TreeAlwaysOK, PTL DEF Spec, ImplementsPrefixMap, Promise!Spec
=============================================================================
