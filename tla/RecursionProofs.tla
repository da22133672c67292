-------------------------- MODULE RecursionProofs --------------------------
(***************************************************************************)
(* What recursive functions compute, for all their arguments: a recursive  *)
(* definition whose calls descend has the values it describes, FlattenSeq  *)
(* and the chains of NodeLinks in particular.  The induction theorems of   *)
(* the library need an operator as their parameter; here the induction is  *)
(* over a set of numbers, from the well-foundedness of < alone.            *)
(*                                                                         *)
(* Then how a node that is linked to an array of nodes changes its lists   *)
(* and the tree that it shows.                                             *)
(***************************************************************************)
EXTENDS NodeLinks, SequencesExt, SequenceTheorems, FiniteSetTheorems, WellFoundedInduction, TLAPS

-----------------------------------------------------------------------------
(* Induction.                                                              *)

\* A set that holds 0 and with a number below n the next one too holds all up to n.
LEMMA CountsTo ==
  ASSUME NEW n \in Nat, NEW S, 0 \in S, \A k \in 0 .. n - 1 : k \in S => k + 1 \in S
  PROVE  \A k \in 0 .. n : k \in S
<1> DEFINE T == {k \in 0 .. n : k \notin S}
<1> SUFFICES ASSUME T # {} PROVE FALSE
  OBVIOUS
<1>1. T \subseteq Nat
  OBVIOUS
<1>2. PICK m \in T : \A t \in T : <<t, m>> \notin OpToRel(<, Nat)
  <2> HIDE DEF T
  <2> QED  BY <1>1, NatLessThanWellFounded, WFMin, Zenon
<1>3. m \in 0 .. n /\ m \notin S /\ m # 0
  OBVIOUS
<1>4. m - 1 \in 0 .. n - 1 /\ m - 1 \in Nat /\ (m - 1) + 1 = m /\ m - 1 < m
  BY <1>3
<1>5. m - 1 \notin T
  <2>1. <<m - 1, m>> \in Nat \X Nat /\ <<m - 1, m>>[1] < <<m - 1, m>>[2]
    BY <1>3, <1>4
  <2>2. <<m - 1, m>> \in OpToRel(<, Nat)
    BY <2>1, Zenon DEF OpToRel
  <2> HIDE DEF T
  <2> QED  BY <1>2, <2>2
<1>6. m - 1 \in S
  BY <1>4, <1>5
<1> QED  BY <1>3, <1>4, <1>6

\* An element of I is in S when all those of smaller rank are; the ranks are bounded.
Inductive(I, n, rank, S) ==
  /\ n \in Nat /\ rank \in [I -> 0 .. n]
  /\ \A i \in I : (\A j \in I : rank[j] < rank[i] => j \in S) => i \in S

LEMMA ByRank ==
  ASSUME NEW I, NEW n, NEW rank, NEW S, Inductive(I, n, rank, S)
  PROVE  \A i \in I : i \in S
<1> USE DEF Inductive
<1> DEFINE T == {m \in 0 .. n + 1 : \A i \in I : rank[i] < m => i \in S}
<1>1. 0 \in T
  OBVIOUS
<1>2. ASSUME NEW m \in 0 .. n + 1 - 1, m \in T PROVE m + 1 \in T
  <2>1. \A i, j \in I : rank[i] < m + 1 /\ rank[j] < rank[i] => rank[j] < m
    OBVIOUS
  <2>2. m + 1 \in 0 .. n + 1
    OBVIOUS
  <2>3. \A i \in I : rank[i] < m => i \in S
    BY <1>2
  <2>4. ASSUME NEW i \in I, rank[i] < m + 1 PROVE i \in S
    <3>1. \A j \in I : rank[j] < rank[i] => j \in S
      BY <2>1, <2>3, <2>4
    <3> QED  BY <3>1
  <2> QED  BY <2>2, <2>4
<1>3. n + 1 \in T
  <2> HIDE DEF T
  <2>1. n + 1 \in Nat /\ n + 1 \in 0 .. n + 1
    OBVIOUS
  <2> QED  BY <1>1, <1>2, <2>1, CountsTo
<1>4. \A i \in I : rank[i] < n + 1
  OBVIOUS
<1> QED  BY <1>3, <1>4

\* g is a rule for the value of a function h at i, which only looks at arguments of a
\* smaller rank; the ranks are bounded.
Rule(I, V, n, rank, g) ==
  /\ V # {} /\ n \in Nat /\ rank \in [I -> 0 .. n] /\ g \in [I \X [I -> V] -> V]
  /\ \A i \in I : \A h, k \in [I -> V] :
       (\A j \in I : rank[j] < rank[i] => h[j] = k[j]) => g[<<i, h>>] = g[<<i, k>>]

\* Such a rule determines a function.
LEMMA Recursion ==
  ASSUME NEW I, NEW V, NEW n, NEW rank, NEW g, Rule(I, V, n, rank, g)
  PROVE  \E f \in [I -> V] : \A i \in I : f[i] = g[<<i, f>>]
<1> USE DEF Rule
<1> DEFINE Functions == [I -> V]
           Below(f, m) == \A i \in I : rank[i] < m => f[i] = g[<<i, f>>]
           S == {m \in 0 .. n + 1 : \E f \in Functions : Below(f, m)}
<1>1. 0 \in S
  <2>1. PICK v \in V : TRUE
    OBVIOUS
  <2> DEFINE f == [i \in I |-> v]
  <2>2. f \in Functions
    OBVIOUS
  <2> HIDE DEF f
  <2>3. \A i \in I : ~(rank[i] < 0)
    OBVIOUS
  <2>4. Below(f, 0) /\ 0 \in 0 .. n + 1
    BY <2>3
  <2> HIDE DEF Functions, Below
  <2> QED  BY <2>2, <2>4
<1>2. ASSUME NEW m \in 0 .. n + 1 - 1, m \in S
      PROVE  m + 1 \in S
  <2>1. PICK f \in Functions : Below(f, m)
    BY <1>2
  <2> DEFINE h == [i \in I |-> g[<<i, f>>]]
  <2>2. h \in Functions /\ \A i \in I : h[i] = g[<<i, f>>]
    OBVIOUS
  <2> HIDE DEF h
  <2>3. \A i \in I : rank[i] < m => h[i] = f[i]
    BY <2>1, <2>2
  <2>4. ASSUME NEW i \in I, rank[i] < m + 1 PROVE h[i] = g[<<i, h>>]
    <3>1. \A j \in I : rank[j] < rank[i] => rank[j] < m
      BY <2>4
    <3>2. \A j \in I : rank[j] < rank[i] => f[j] = h[j]
      BY <2>3, <3>1
    <3>3. g[<<i, f>>] = g[<<i, h>>]
      BY <2>1, <2>2, <3>2
    <3> QED  BY <2>2, <3>3
  <2>5. Below(h, m + 1)
    BY <2>4
  <2>6. m + 1 \in 0 .. n + 1
    OBVIOUS
  <2> HIDE DEF Functions, Below
  <2> QED  BY <2>2, <2>5, <2>6
<1>3. n + 1 \in S
  <2> HIDE DEF S
  <2>1. n + 1 \in Nat /\ n + 1 \in 0 .. n + 1
    OBVIOUS
  <2> QED  BY <1>1, <1>2, <2>1, CountsTo
<1>4. PICK f \in Functions : Below(f, n + 1)
  BY <1>3
<1>5. \A i \in I : rank[i] < n + 1
  OBVIOUS
<1> QED  BY <1>4, <1>5

\* A set of positions has a smallest one.
LEMMA MinExists ==
  ASSUME NEW S, S \subseteq Nat, S # {}
  PROVE  Min(S) \in S /\ \A y \in S : Min(S) <= y
<1>1. PICK m \in S : \A t \in S : <<t, m>> \notin OpToRel(<, Nat)
  BY NatLessThanWellFounded, WFMin, Zenon
<1>2. \A t \in S : ~(t < m)
  <2> SUFFICES ASSUME NEW t \in S, t < m PROVE FALSE
    OBVIOUS
  <2>1. <<t, m>> \in Nat \X Nat /\ <<t, m>>[1] < <<t, m>>[2]
    OBVIOUS
  <2> QED  BY <1>1, <2>1, Zenon DEF OpToRel
<1>3. \A y \in S : m <= y
  BY <1>2
<1> QED  BY <1>3 DEF Min

\* The first of some places from i on, or the end.
LEMMA FirstOr ==
  ASSUME NEW n \in Nat, NEW i \in Nat, NEW S, S \subseteq i .. n
  PROVE  Min(S \cup {n + 1}) \in Nat /\ Min(S \cup {n + 1}) <= n + 1
         /\ (i <= n + 1 => i <= Min(S \cup {n + 1}))
<1> DEFINE T == S \cup {n + 1}
<1>1. T \subseteq Nat /\ T # {} /\ n + 1 \in T
  OBVIOUS
<1>2. i <= n + 1 => \A y \in T : i <= y
  OBVIOUS
<1> HIDE DEF T
<1>3. Min(T) \in T /\ \A y \in T : Min(T) <= y
  BY <1>1, MinExists
<1> QED  BY <1>1, <1>2, <1>3 DEF T

\* A value computed step by step: with v at first and by g from each to the next.
GoesBy(f, n, v, g) == f[0] = v /\ \A k \in 1 .. n : f[k] = g[<<k, f[k - 1]>>]

LEMMA StepByStep ==
  ASSUME NEW n \in Nat, NEW V, NEW v \in V, NEW g \in [(1 .. n) \X V -> V]
  PROVE  \E f \in [0 .. n -> V] : GoesBy(f, n, v, g)
<1> DEFINE I == 0 .. n
           h == [x \in I \X [I -> V] |-> IF x[1] = 0 THEN v ELSE g[<<x[1], x[2][x[1] - 1]>>]]
           rank == [k \in I |-> k]
<1>1. \A k \in I : k # 0 => k \in 1 .. n /\ k - 1 \in I /\ k - 1 < k
  OBVIOUS
<1>2. ASSUME NEW k \in I, NEW f \in [I -> V]
      PROVE  /\ h[<<k, f>>] = IF k = 0 THEN v ELSE g[<<k, f[k - 1]>>]
             /\ h[<<k, f>>] \in V
  <2>1. h[<<k, f>>] = IF k = 0 THEN v ELSE g[<<k, f[k - 1]>>]
    <3> HIDE DEF I
    <3> QED  OBVIOUS
  <2>2. k # 0 => <<k, f[k - 1]>> \in (1 .. n) \X V
    <3> HIDE DEF I
    <3> QED  BY <1>1
  <2> QED  BY <2>1, <2>2
<1>3. h \in [I \X [I -> V] -> V]
  <2>1. h = [x \in I \X [I -> V] |-> h[x]]
    OBVIOUS
  <2>2. ASSUME NEW x \in I \X [I -> V] PROVE h[x] \in V
    <3>1. x = <<x[1], x[2]>> /\ x[1] \in I /\ x[2] \in [I -> V]
      <4> HIDE DEF I
      <4> QED  OBVIOUS
    <3>2. h[<<x[1], x[2]>>] \in V
      <4> HIDE DEF h, I
      <4> QED  BY <1>2, <3>1
    <3> QED  BY <3>1, <3>2
  <2> HIDE DEF h, I
  <2> QED  BY <2>1, <2>2
<1>4. ASSUME NEW k \in I, NEW e \in [I -> V], NEW f \in [I -> V],
             \A j \in I : rank[j] < rank[k] => e[j] = f[j]
      PROVE  h[<<k, e>>] = h[<<k, f>>]
  <2>1. k # 0 => e[k - 1] = f[k - 1]
    BY <1>1, <1>4
  <2> HIDE DEF h, I, rank
  <2> QED  BY <1>2, <2>1
<1>5. Rule(I, V, n, rank, h)
  <2>1. rank \in [I -> 0 .. n] /\ V # {}
    OBVIOUS
  <2> HIDE DEF h, I, rank
  <2> QED  BY <1>3, <1>4, <2>1 DEF Rule
<1>6. PICK f \in [I -> V] : \A k \in I : f[k] = h[<<k, f>>]
  <2> HIDE DEF h, I, rank
  <2> QED  BY <1>5, Recursion
<1>7. f[0] = v
  <2>1. 0 \in I
    OBVIOUS
  <2> HIDE DEF h, I
  <2> QED  BY <1>2, <1>6, <2>1
<1>8. \A k \in 1 .. n : f[k] = g[<<k, f[k - 1]>>]
  <2>1. \A k \in 1 .. n : k \in I /\ k # 0
    OBVIOUS
  <2> HIDE DEF h, I
  <2> QED  BY <1>2, <1>6, <2>1
<1> QED  BY <1>6, <1>7, <1>8 DEF GoesBy

\* A set that holds the empty sequence, and with a sequence every one with an element
\* more at its end, holds all sequences.
LEMMA Appended ==
  ASSUME NEW S, NEW T, <<>> \in T,
         \A s \in Seq(S) : \A x \in S : s \in T => Append(s, x) \in T
  PROVE  \A s \in Seq(S) : s \in T
<1> SUFFICES ASSUME NEW s \in Seq(S) PROVE s \in T
  OBVIOUS
<1> DEFINE L == Len(s)
           U == {k \in 0 .. L : SubSeq(s, 1, k) \in T}
<1>1. L \in Nat
  OBVIOUS
<1>2. 0 \in U
  <2>1. SubSeq(s, 1, 0) = <<>> /\ 0 \in 0 .. L
    BY <1>1
  <2>2. SubSeq(s, 1, 0) \in T
    BY <2>1, Zenon
  <2> QED  BY <2>1, <2>2
<1>3. ASSUME NEW k \in 0 .. L - 1, k \in U PROVE k + 1 \in U
  <2>1. k + 1 \in 0 .. L /\ k + 1 \in 1 .. L
    BY <1>1
  <2>2. s[k + 1] \in S /\ SubSeq(s, 1, k) \in Seq(S)
    BY <1>1, <2>1
  <2>3. SubSeq(s, 1, k + 1) = Append(SubSeq(s, 1, k), s[k + 1])
    BY <1>1, <2>1
  <2> QED  BY <1>3, <2>1, <2>2, <2>3
<1>4. L \in U
  <2> HIDE DEF U
  <2>1. L \in 0 .. L
    BY <1>1
  <2> QED  BY <1>1, <1>2, <1>3, <2>1, CountsTo
<1>5. SubSeq(s, 1, L) = s
  OBVIOUS
<1> QED  BY <1>4, <1>5

-----------------------------------------------------------------------------
(* How many members of a sequence are in a set.                            *)

\* The places of a sequence where a member of T stands.
Places(s, T) == {i \in DOMAIN s : s[i] \in T}
Number(s, T) == Cardinality(Places(s, T))

LEMMA NumberType ==
  ASSUME NEW S, NEW s \in Seq(S), NEW T
  PROVE  IsFiniteSet(Places(s, T)) /\ Number(s, T) \in Nat
<1>1. Len(s) \in Nat /\ DOMAIN s = 1 .. Len(s)
  OBVIOUS
<1>2. IsFiniteSet(1 .. Len(s))
  BY <1>1, FS_Interval
<1>3. Places(s, T) \in SUBSET (1 .. Len(s))
  BY <1>1 DEF Places
<1> QED  BY <1>2, <1>3, FS_Subset, FS_CardinalityType DEF Number

LEMMA NumberNone ==
  ASSUME NEW S, NEW s \in Seq(S), NEW T, S \cap T = {}
  PROVE  Number(s, T) = 0
<1>1. Places(s, T) = {}
  BY DEF Places
<1> QED  BY <1>1, FS_EmptySet DEF Number

\* One member more.
LEMMA NumberAppend ==
  ASSUME NEW S, NEW s \in Seq(S), NEW x \in S, NEW T
  PROVE  Number(Append(s, x), T) = Number(s, T) + IF x \in T THEN 1 ELSE 0
<1> DEFINE L == Len(s)
           more == Append(s, x)
           P == Places(s, T)
           Q == Places(more, T)
<1>1. /\ L \in Nat /\ DOMAIN s = 1 .. L /\ DOMAIN more = 1 .. L + 1
      /\ more[L + 1] = x /\ \A i \in 1 .. L : more[i] = s[i]
  OBVIOUS
<1>2. IsFiniteSet(P) /\ Cardinality(P) \in Nat /\ Number(s, T) = Cardinality(P)
  BY NumberType DEF Number
<1> HIDE DEF more
<1>3. \A i : i \in Q <=> i \in P \/ (i = L + 1 /\ x \in T)
  BY <1>1 DEF Places
<1>4. L + 1 \notin P
  BY <1>1 DEF Places
<1>5. Number(more, T) = Cardinality(Q)
  BY DEF Number
<1> HIDE DEF P, Q, L
<1>6. CASE x \in T
  <2>1. Q = P \cup {L + 1}
    BY <1>3, <1>6
  <2>2. Cardinality(Q) = Cardinality(P) + 1
    BY <1>2, <1>4, <2>1, FS_AddElement
  <2> QED  BY <1>2, <1>5, <1>6, <2>2 DEF more
<1>7. CASE x \notin T
  <2>1. Q = P
    BY <1>3, <1>7
  <2> QED  BY <1>2, <1>5, <1>7, <2>1 DEF more
<1> QED  BY <1>6, <1>7

LEMMA NumberConcat ==
  ASSUME NEW S, NEW s \in Seq(S), NEW t \in Seq(S), NEW T
  PROVE  Number(s \o t, T) = Number(s, T) + Number(t, T)
<1> DEFINE U == {r \in Seq(S) : Number(s \o r, T) = Number(s, T) + Number(r, T)}
<1>1. <<>> \in U
  <2>1. s \o <<>> = s /\ <<>> \in Seq(S)
    BY ConcatEmptySeq
  <2>2. Number(<<>>, T) = 0
    <3>1. <<>> \in Seq({}) /\ {} \cap T = {}
      OBVIOUS
    <3> QED  BY <3>1, NumberNone
  <2>3. Number(s, T) \in Nat
    BY NumberType
  <2> QED  BY <2>1, <2>2, <2>3
<1>2. ASSUME NEW r \in Seq(S), NEW x \in S, r \in U PROVE Append(r, x) \in U
  <2>1. s \o r \in Seq(S) /\ s \o Append(r, x) = Append(s \o r, x) /\ Append(r, x) \in Seq(S)
    OBVIOUS
  <2>2. Number(Append(s \o r, x), T) = Number(s \o r, T) + IF x \in T THEN 1 ELSE 0
    BY <2>1, NumberAppend
  <2>3. Number(Append(r, x), T) = Number(r, T) + IF x \in T THEN 1 ELSE 0
    BY NumberAppend
  <2>4. Number(s, T) \in Nat /\ Number(r, T) \in Nat
    BY NumberType
  <2>5. Number(s \o r, T) = Number(s, T) + Number(r, T)
    BY <1>2
  <2> DEFINE a == IF x \in T THEN 1 ELSE 0
             m == Number(s, T)
             n == Number(r, T)
  <2>6. a \in Nat
    OBVIOUS
  <2> HIDE DEF a, m, n
  <2>7. Number(s \o Append(r, x), T) = (m + n) + a /\ Number(Append(r, x), T) = n + a
    BY <2>1, <2>2, <2>3, <2>5 DEF a, m, n
  <2>8. m \in Nat /\ n \in Nat
    BY <2>4 DEF m, n
  <2>9. (m + n) + a = m + (n + a)
    BY <2>6, <2>8
  <2> QED  BY <2>1, <2>7, <2>9 DEF m
<1>3. \A r \in Seq(S) : r \in U
  <2> HIDE DEF U
  <2> QED  BY <1>1, <1>2, Appended
<1> QED  BY <1>3

-----------------------------------------------------------------------------
(* FlattenSeq of the community modules.                                    *)

\* f flattens the sequences ss one after the other.
Flattens(ss, f) == f[0] = <<>> /\ \A i \in 1 .. Len(ss) : f[i] = f[i - 1] \o ss[i]

\* FlattenSeq has the values that describe it.
LEMMA FlattenDef ==
  ASSUME NEW S, NEW ss \in Seq(Seq(S))
  PROVE  \E f \in [0 .. Len(ss) -> Seq(S)] : Flattens(ss, f) /\ FlattenSeq(ss) = f[Len(ss)]
<1>1. Len(ss) \in Nat
  OBVIOUS
<1>2. CASE Len(ss) = 0
  <2>1. ss = <<>> /\ <<>> \in Seq(S)
    BY <1>2
  <2>2. FlattenSeq(ss) = <<>>
    BY <1>2, <2>1 DEF FlattenSeq
  <2> DEFINE f == [i \in 0 .. Len(ss) |-> <<>>]
  <2>3. f \in [0 .. Len(ss) -> Seq(S)]
    BY <2>1
  <2>4. Flattens(ss, f) /\ f[Len(ss)] = <<>>
    BY <1>2 DEF Flattens
  <2> QED  BY <2>2, <2>3, <2>4
<1>3. CASE Len(ss) # 0
  <2> DEFINE L == Len(ss)
             D == 1 .. L
             Value(f, i) == IF i = 1 THEN ss[i] ELSE f[i - 1] \o ss[i]
             Described(f) == f = [i \in 1 .. Len(ss) |-> IF i = 1 THEN ss[i] ELSE f[i - 1] \o ss[i]]
             flatten == CHOOSE f : Described(f)
             V == Seq(S)
             g == [x \in D \X [D -> V] |-> Value(x[2], x[1])]
             rank == [i \in D |-> i]
  <2>1. rank \in [D -> 0 .. L] /\ V # {} /\ L \in D
    <3>1. <<>> \in V
      OBVIOUS
    <3> QED  BY <1>1, <1>3, <3>1
  <2>2. \A i \in D : ss[i] \in V /\ (i # 1 => i - 1 \in D /\ i - 1 < i)
    <3>1. \A i \in D : i # 1 => i - 1 \in D /\ i - 1 < i
      BY <1>1
    <3>2. \A i \in D : ss[i] \in V
      OBVIOUS
    <3> QED  BY <3>1, <3>2
  <2>3. ASSUME NEW h \in [D -> V], NEW i \in D PROVE Value(h, i) \in V
    <3> HIDE DEF D
    <3>1. CASE i = 1
      BY <2>2, <3>1
    <3>2. CASE i # 1
      <4>1. h[i - 1] \in V /\ ss[i] \in V
        BY <2>2, <3>2
      <4>2. h[i - 1] \o ss[i] \in V
        BY <4>1
      <4> QED  BY <3>2, <4>2
    <3> QED  BY <3>1, <3>2
  <2>4. g \in [D \X [D -> V] -> V] /\ \A i \in D : \A h \in [D -> V] : g[<<i, h>>] = Value(h, i)
    <3> HIDE DEF Value, D, V
    <3> QED  BY <2>3
  <2>5. ASSUME NEW i \in D, NEW h \in [D -> V], NEW k \in [D -> V],
               \A j \in D : rank[j] < rank[i] => h[j] = k[j]
        PROVE  g[<<i, h>>] = g[<<i, k>>]
    <3>1. i # 1 => h[i - 1] = k[i - 1]
      <4>1. \A j \in D : j < i => h[j] = k[j]
        BY <2>5
      <4> HIDE DEF D
      <4> QED  BY <2>2, <4>1
    <3>2. Value(h, i) = Value(k, i)
      <4> HIDE DEF D
      <4> QED  BY <3>1
    <3> HIDE DEF g, Value, D, V
    <3> QED  BY <2>4, <3>2
  <2>6. PICK f \in [D -> V] : \A i \in D : f[i] = g[<<i, f>>]
    <3> HIDE DEF D, g, rank, Value, V
    <3>1. Rule(D, V, L, rank, g)
      BY <1>1, <2>1, <2>4, <2>5 DEF Rule
    <3> QED  BY <3>1, Recursion
  <2>7. Described(f)
    <3>1. \A i \in D : f[i] = Value(f, i)
      <4> HIDE DEF D, g, Value, V
      <4> QED  BY <2>4, <2>6
    <3>2. f = [i \in D |-> f[i]]
      BY <2>6
    <3>3. f = [i \in D |-> Value(f, i)]
      <4> HIDE DEF D, Value
      <4> QED  BY <3>1, <3>2
    <3> QED  BY <3>3
  <2>8. Described(flatten)
    <3> HIDE DEF Described
    <3> QED  BY <2>7
  <2>9. FlattenSeq(ss) = flatten[L]
    BY <1>3 DEF FlattenSeq
  <2> HIDE DEF flatten
  <2>10. \A i \in D : flatten[i] = Value(flatten, i)
    <3> HIDE DEF Value, D
    <3>1. flatten = [i \in D |-> Value(flatten, i)]
      BY <2>8 DEF Value, D
    <3> QED  BY <3>1
  <2> DEFINE T == {k \in 0 .. L : k # 0 => flatten[k] \in V}
  <2>11. 0 \in T
    BY <1>1
  <2>12. ASSUME NEW k \in 0 .. L - 1, k \in T PROVE k + 1 \in T
    <3>1. k + 1 \in D /\ k + 1 \in 0 .. L /\ (k + 1) - 1 = k /\ (k + 1 = 1 <=> k = 0)
      BY <1>1
    <3>2. flatten[k + 1] = IF k = 0 THEN ss[k + 1] ELSE flatten[k] \o ss[k + 1]
      <4> DEFINE j == k + 1
      <4>1. flatten[j] = IF j = 1 THEN ss[j] ELSE flatten[j - 1] \o ss[j]
        BY <2>10, <3>1
      <4> QED  BY <3>1, <4>1
    <3>3. ss[k + 1] \in V
      BY <2>2, <3>1
    <3>4. k # 0 => flatten[k] \o ss[k + 1] \in V
      BY <2>12, <3>3
    <3>5. flatten[k + 1] \in V
      BY <3>2, <3>3, <3>4
    <3> QED  BY <3>1, <3>5
  <2>13. \A k \in 0 .. L : k \in T
    <3> HIDE DEF T
    <3> QED  BY <1>1, <2>11, <2>12, CountsTo
  <2> DEFINE h == [k \in 0 .. L |-> IF k = 0 THEN <<>> ELSE flatten[k]]
  <2>14. h \in [0 .. L -> V]
    <3>1. <<>> \in V /\ \A k \in 0 .. L : k # 0 => flatten[k] \in V
      BY <2>13
    <3> HIDE DEF V
    <3> QED  BY <3>1
  <2>15. ASSUME NEW i \in D PROVE h[i] = h[i - 1] \o ss[i]
    <3>1. i \in 0 .. L /\ i - 1 \in 0 .. L /\ i # 0 /\ (i - 1 = 0 <=> i = 1)
      BY <1>1
    <3>2. CASE i = 1
      <4>1. h[i] = ss[i] /\ h[i - 1] = <<>>
        BY <2>10, <3>1, <3>2
      <4>2. <<>> \o ss[i] = ss[i]
        BY <2>2
      <4> QED  BY <4>1, <4>2
    <3>3. CASE i # 1
      BY <2>10, <3>1, <3>3
    <3> QED  BY <3>2, <3>3
  <2>16. Flattens(ss, h)
    <3>1. h[0] = <<>>
      BY <1>1
    <3> HIDE DEF h
    <3> QED  BY <2>15, <3>1 DEF Flattens
  <2>17. h[L] = flatten[L]
    BY <1>1, <1>3
  <2> HIDE DEF h
  <2> QED  BY <2>9, <2>14, <2>16, <2>17
<1> QED  BY <1>2, <1>3

\* It keeps to the members of the sequences.
LEMMA FlattenType ==
  ASSUME NEW S, NEW ss \in Seq(Seq(S))
  PROVE  FlattenSeq(ss) \in Seq(S)
<1>1. PICK f \in [0 .. Len(ss) -> Seq(S)] : FlattenSeq(ss) = f[Len(ss)]
  BY FlattenDef
<1>2. Len(ss) \in 0 .. Len(ss)
  OBVIOUS
<1> QED  BY <1>1, <1>2

\* There is one way to flatten them.
LEMMA FlattenIs ==
  ASSUME NEW S, NEW ss \in Seq(Seq(S)), NEW h, Flattens(ss, h)
  PROVE  FlattenSeq(ss) = h[Len(ss)]
<1> DEFINE L == Len(ss)
<1>1. PICK f \in [0 .. L -> Seq(S)] : Flattens(ss, f) /\ FlattenSeq(ss) = f[L]
  BY FlattenDef
<1>2. L \in Nat
  OBVIOUS
<1> DEFINE T == {k \in 0 .. L : f[k] = h[k]}
<1>3. 0 \in T
  BY <1>1, <1>2 DEF Flattens
<1>4. ASSUME NEW k \in 0 .. L - 1, k \in T PROVE k + 1 \in T
  <2>1. k + 1 \in 1 .. L /\ k + 1 \in 0 .. L /\ (k + 1) - 1 = k
    BY <1>2
  <2> DEFINE j == k + 1
  <2>2. f[j] = f[j - 1] \o ss[j] /\ h[j] = h[j - 1] \o ss[j]
    BY <1>1, <2>1 DEF Flattens
  <2> QED  BY <1>4, <2>1, <2>2
<1>5. L \in T
  <2> HIDE DEF T
  <2>1. L \in 0 .. L
    BY <1>2
  <2> QED  BY <1>2, <1>3, <1>4, <2>1, CountsTo
<1> QED  BY <1>1, <1>5

\* A sequence more at the end adds its members at the end.
LEMMA FlattenAppend ==
  ASSUME NEW S, NEW ss \in Seq(Seq(S)), NEW x \in Seq(S)
  PROVE  FlattenSeq(Append(ss, x)) = FlattenSeq(ss) \o x
<1> DEFINE L == Len(ss)
           tt == Append(ss, x)
<1>1. PICK f \in [0 .. L -> Seq(S)] : Flattens(ss, f) /\ FlattenSeq(ss) = f[L]
  BY FlattenDef
<1>2. /\ tt \in Seq(Seq(S)) /\ L \in Nat /\ Len(tt) = L + 1 /\ tt[L + 1] = x
      /\ \A i \in 1 .. L : tt[i] = ss[i]
  OBVIOUS
<1> HIDE DEF tt
<1> DEFINE h == [k \in 0 .. L + 1 |-> IF k = L + 1 THEN f[L] \o x ELSE f[k]]
<1>3. h[0] = <<>>
  BY <1>1, <1>2 DEF Flattens
<1>4. ASSUME NEW i \in 1 .. L + 1 PROVE h[i] = h[i - 1] \o tt[i]
  <2>1. i - 1 \in 0 .. L + 1 /\ i - 1 # L + 1 /\ i \in 0 .. L + 1
    BY <1>2
  <2>2. h[i - 1] = f[i - 1]
    BY <2>1
  <2>3. CASE i = L + 1
    <3>1. h[i] = f[L] \o x /\ i - 1 = L /\ tt[i] = x
      BY <1>2, <2>1, <2>3
    <3> QED  BY <2>2, <3>1
  <2>4. CASE i # L + 1
    <3>1. i \in 1 .. L
      BY <1>2, <2>4
    <3>2. h[i] = f[i]
      BY <2>1, <2>4
    <3>3. f[i] = f[i - 1] \o ss[i]
      BY <1>1, <3>1 DEF Flattens
    <3> QED  BY <1>2, <2>2, <3>1, <3>2, <3>3
  <2> QED  BY <2>3, <2>4
<1>5. Flattens(tt, h)
  BY <1>2, <1>3, <1>4 DEF Flattens
<1>6. h[L + 1] = f[L] \o x
  BY <1>2
<1> HIDE DEF h
<1>7. FlattenSeq(tt) = h[L + 1]
  BY <1>2, <1>5, FlattenIs
<1> QED  BY <1>1, <1>6, <1>7 DEF tt

\* A sequence more at the beginning adds its members there.
LEMMA FlattenCons ==
  ASSUME NEW S, NEW ss \in Seq(Seq(S)), NEW x \in Seq(S)
  PROVE  FlattenSeq(<<x>> \o ss) = x \o FlattenSeq(ss)
<1> DEFINE L == Len(ss)
           tt == <<x>> \o ss
<1>1. PICK f \in [0 .. L -> Seq(S)] : Flattens(ss, f) /\ FlattenSeq(ss) = f[L]
  BY FlattenDef
<1>2. /\ tt \in Seq(Seq(S)) /\ L \in Nat /\ Len(tt) = L + 1 /\ tt[1] = x
      /\ \A i \in 1 .. L : tt[i + 1] = ss[i] /\ ss[i] \in Seq(S)
  <2> DEFINE V == Seq(S)
  <2>1. ss \in Seq(V) /\ x \in V
    OBVIOUS
  <2> HIDE DEF V
  <2>2. /\ tt \in Seq(V) /\ L \in Nat /\ Len(tt) = L + 1 /\ tt[1] = x
        /\ \A i \in 1 .. L : tt[i + 1] = ss[i] /\ ss[i] \in V
    BY <2>1
  <2> QED  BY <2>2 DEF V
<1> HIDE DEF tt
<1> DEFINE h == [k \in 0 .. L + 1 |-> IF k = 0 THEN <<>> ELSE x \o f[k - 1]]
<1>3. h[0] = <<>>
  BY <1>2
<1>4. ASSUME NEW i \in 1 .. L + 1 PROVE h[i] = h[i - 1] \o tt[i]
  <2>1. i - 1 \in 0 .. L + 1 /\ i # 0 /\ i \in 0 .. L + 1 /\ i - 1 \in 0 .. L /\ (i - 1 = 0 <=> i = 1)
    BY <1>2
  <2>2. h[i] = x \o f[i - 1]
    BY <2>1
  <2>3. CASE i = 1
    <3>1. f[i - 1] = <<>> /\ h[i - 1] = <<>> /\ tt[i] = x
      BY <1>1, <1>2, <1>3, <2>3 DEF Flattens
    <3>2. x \o <<>> = x /\ <<>> \o x = x
      OBVIOUS
    <3> QED  BY <2>2, <3>1, <3>2
  <2>4. CASE i # 1
    <3> DEFINE j == i - 1
    <3>1. j \in 1 .. L /\ j - 1 \in 0 .. L /\ j + 1 = i /\ j \in 0 .. L
      BY <1>2, <2>1, <2>4
    <3>2. f[j] = f[j - 1] \o ss[j]
      BY <1>1, <3>1 DEF Flattens
    <3>3. h[j] = x \o f[j - 1]
      BY <2>1, <2>4
    <3>4. tt[i] = ss[j] /\ ss[j] \in Seq(S) /\ f[j - 1] \in Seq(S)
      BY <1>1, <1>2, <3>1
    <3>5. h[i] = x \o f[j] /\ h[i - 1] = h[j] /\ tt[i] = ss[j]
      BY <2>2, <3>4
    <3> HIDE DEF j, h
    <3>6. x \o (f[j - 1] \o ss[j]) = (x \o f[j - 1]) \o ss[j]
      <4> DEFINE a == f[j - 1]
                 b == ss[j]
      <4>1. x \in Seq(S) /\ a \in Seq(S) /\ b \in Seq(S)
        BY <3>4
      <4> HIDE DEF a, b
      <4>2. (x \o a) \o b = x \o (a \o b)
        BY <4>1, ConcatAssociative, SMTT(30)
      <4> QED  BY <4>2 DEF a, b
    <3>7. h[i] = h[j] \o ss[j]
      BY <3>2, <3>3, <3>5, <3>6, Zenon
    <3> QED  BY <3>5, <3>7, Zenon
  <2> QED  BY <2>3, <2>4
<1>5. Flattens(tt, h)
  BY <1>2, <1>3, <1>4 DEF Flattens
<1>6. h[L + 1] = x \o f[L]
  BY <1>2
<1> HIDE DEF h
<1>7. FlattenSeq(tt) = h[L + 1]
  BY <1>2, <1>5, FlattenIs
<1> QED  BY <1>1, <1>6, <1>7 DEF tt

\* What the first n sequences make.
Part(ss, n) == FlattenSeq([i \in 1 .. n |-> ss[i]])

LEMMA PartNext ==
  ASSUME NEW S, NEW ss \in Seq(Seq(S))
  PROVE  /\ Part(ss, 0) = <<>> /\ Part(ss, Len(ss)) = FlattenSeq(ss)
         /\ \A n \in 0 .. Len(ss) : Part(ss, n) \in Seq(S)
         /\ \A n \in 0 .. Len(ss) - 1 : Part(ss, n + 1) = Part(ss, n) \o ss[n + 1]
<1> DEFINE V == Seq(S)
           first(n) == [i \in 1 .. n |-> ss[i]]
<1>8. ss \in Seq(V)
  OBVIOUS
<1>1. \A n \in 0 .. Len(ss) : first(n) \in Seq(V)
  <2> HIDE DEF V
  <2> QED  BY <1>8
<1>2. first(0) = <<>> /\ first(Len(ss)) = ss
  OBVIOUS
<1>3. \A n \in 0 .. Len(ss) - 1 :
        first(n + 1) = Append(first(n), ss[n + 1]) /\ ss[n + 1] \in V /\ n \in 0 .. Len(ss)
  <2> HIDE DEF V
  <2> QED  BY <1>8
<1>4. FlattenSeq(<<>>) = <<>>
  <2>1. <<>> \in Seq(Seq({}))
    OBVIOUS
  <2>2. FlattenSeq(<<>>) \in Seq({})
    BY <2>1, FlattenType
  <2> QED  BY <2>2
<1>5. \A n : Part(ss, n) = FlattenSeq(first(n))
  BY DEF Part
<1> HIDE DEF first
<1>6. \A n \in 0 .. Len(ss) : Part(ss, n) \in Seq(S)
  BY <1>1, <1>5, FlattenType
<1>7. ASSUME NEW n \in 0 .. Len(ss) - 1
      PROVE  Part(ss, n + 1) = Part(ss, n) \o ss[n + 1]
  <2> DEFINE f == first(n)
             x == ss[n + 1]
  <2>1. f \in Seq(Seq(S)) /\ x \in Seq(S)
    BY <1>1, <1>3
  <2> HIDE DEF f, x
  <2>2. FlattenSeq(Append(f, x)) = FlattenSeq(f) \o x
    BY <2>1, FlattenAppend
  <2> QED  BY <1>3, <1>5, <2>2 DEF f, x
<1> QED  BY <1>2, <1>4, <1>5, <1>6, <1>7

\* They begin the whole.
Begins(s, t) == Len(s) <= Len(t) /\ \A p \in 1 .. Len(s) : t[p] = s[p]

LEMMA PartBegins ==
  ASSUME NEW S, NEW ss \in Seq(Seq(S)), NEW k \in 0 .. Len(ss)
  PROVE  Begins(Part(ss, k), FlattenSeq(ss))
<1> DEFINE L == Len(ss)
           P(n) == Part(ss, n)
           T == {n \in 0 .. L : k <= n => Begins(P(k), P(n))}
<1>1. /\ L \in Nat /\ P(L) = FlattenSeq(ss) /\ \A n \in 0 .. L : P(n) \in Seq(S)
      /\ \A n \in 0 .. L - 1 : P(n + 1) = P(n) \o ss[n + 1] /\ ss[n + 1] \in Seq(S)
  BY PartNext
<1> HIDE DEF P
<1>2. Begins(P(k), P(k))
  <2>1. Len(P(k)) \in Nat
    BY <1>1
  <2> QED  BY <2>1 DEF Begins
<1>3. 0 \in T
  <2>1. k <= 0 => k = 0
    BY <1>1
  <2> QED  BY <1>1, <1>2, <2>1
<1>4. ASSUME NEW n \in 0 .. L - 1, n \in T PROVE n + 1 \in T
  <2>1. n \in 0 .. L /\ n + 1 \in 0 .. L
    BY <1>1
  <2>2. CASE k <= n
    <3> DEFINE s == P(k)
               t == P(n)
               u == ss[n + 1]
    <3>1. s \in Seq(S) /\ t \in Seq(S) /\ u \in Seq(S) /\ P(n + 1) = t \o u /\ Begins(s, t)
      BY <1>1, <1>4, <2>1, <2>2
    <3> HIDE DEF s, t, u
    <3>2. /\ Len(s) \in Nat /\ Len(t) \in Nat /\ Len(t \o u) >= Len(t)
          /\ \A p \in 1 .. Len(t) : (t \o u)[p] = t[p]
      BY <3>1
    <3>3. Begins(s, t \o u)
      <4>1. \A p \in 1 .. Len(s) : p \in 1 .. Len(t)
        BY <3>1, <3>2 DEF Begins
      <4>2. Len(s) <= Len(t \o u)
        <5>1. Len(t \o u) \in Nat
          BY <3>1
        <5> QED  BY <3>1, <3>2, <5>1 DEF Begins
      <4> QED  BY <3>1, <3>2, <4>1, <4>2 DEF Begins
    <3>4. Begins(s, P(n + 1))
      BY <3>1, <3>3
    <3> QED  BY <2>1, <3>4 DEF s
  <2>3. CASE ~(k <= n)
    <3>1. k <= n + 1 => k = n + 1
      BY <2>1, <2>3
    <3> QED  BY <1>2, <2>1, <3>1
  <2> QED  BY <2>2, <2>3
<1>5. L \in T
  <2> HIDE DEF T
  <2>1. L \in 0 .. L
    BY <1>1
  <2> QED  BY <1>1, <1>3, <1>4, <2>1, CountsTo
<1>6. k <= L
  BY <1>1
<1> QED  BY <1>1, <1>5, <1>6 DEF P

\* A member of one of the sequences is a member of the whole.
LEMMA FlattenHas ==
  ASSUME NEW S, NEW ss \in Seq(Seq(S)), NEW k \in 1 .. Len(ss), NEW i \in 1 .. Len(ss[k])
  PROVE  \E p \in 1 .. Len(FlattenSeq(ss)) : FlattenSeq(ss)[p] = ss[k][i]
<1>1. PICK n \in 0 .. Len(ss) - 1 : k = n + 1
  <2>1. k - 1 \in 0 .. Len(ss) - 1 /\ k = (k - 1) + 1
    OBVIOUS
  <2> QED  BY <2>1
<1> DEFINE s == Part(ss, n)
           t == ss[k]
           w == FlattenSeq(ss)
<1>2. s \in Seq(S) /\ Part(ss, k) = s \o t /\ t \in Seq(S) /\ w \in Seq(S) /\ k \in 0 .. Len(ss)
  <2>1. /\ \A m \in 0 .. Len(ss) : Part(ss, m) \in Seq(S)
        /\ \A m \in 0 .. Len(ss) - 1 : Part(ss, m + 1) = Part(ss, m) \o ss[m + 1]
    BY PartNext
  <2>2. n \in 0 .. Len(ss) /\ k \in 0 .. Len(ss)
    OBVIOUS
  <2>3. w \in Seq(S)
    BY FlattenType
  <2>4. t \in Seq(S)
    OBVIOUS
  <2> QED  BY <1>1, <2>1, <2>2, <2>3, <2>4
<1>3. Begins(s \o t, w)
  BY <1>2, PartBegins
<1> HIDE DEF s, t, w
<1>4. /\ Len(s) \in Nat /\ Len(t) \in Nat /\ Len(w) \in Nat /\ Len(s \o t) = Len(s) + Len(t) /\ i \in 1 .. Len(t)
      /\ (s \o t)[Len(s) + i] = t[i]
  <2>1. i \in 1 .. Len(t)
    BY DEF t
  <2> QED  BY <1>2, <2>1
<1> DEFINE p == Len(s) + i
<1>5. p \in Nat /\ p >= 1 /\ p <= Len(s \o t)
  BY <1>4
<1> HIDE DEF p
<1>6. p \in 1 .. Len(w)
  <2>1. Len(s \o t) \in Nat /\ Len(s \o t) <= Len(w)
    BY <1>3, <1>4 DEF Begins
  <2> QED  BY <1>4, <1>5, <2>1
<1>7. p \in 1 .. Len(s \o t)
  <2>1. Len(s \o t) \in Nat
    BY <1>4
  <2> QED  BY <1>5, <2>1
<1>8. w[p] = (s \o t)[p]
  BY <1>3, <1>7 DEF Begins
<1>9. (s \o t)[p] = t[i]
  BY <1>4 DEF p
<1> QED  BY <1>6, <1>8, <1>9 DEF w, t

-----------------------------------------------------------------------------
(* Chains.                                                                 *)

\* An array of n nodes whose siblings come later.
Forward(nodes, n) ==
  /\ DOMAIN nodes = 0 .. n - 1
  /\ \A i \in 0 .. n - 1 : nodes[i].next_sibling = Null \/ nodes[i].next_sibling \in i + 1 .. n - 1

\* f has the value at i that the definition of a chain gives it.
ChainAt(nodes, f, i) ==
  f[i] = IF i = Null THEN <<>> ELSE <<i>> \o f[nodes[i].next_sibling]

\* There is a function as the definition of a chain describes it: it is found from
\* the end of the array on.
LEMMA ChainsExist ==
  ASSUME NEW n \in Nat, NEW nodes, Forward(nodes, n)
  PROVE  \E f \in [0 .. n - 1 -> Seq(0 .. n - 1)] : \A i \in 0 .. n - 1 : ChainAt(nodes, f, i)
<1> DEFINE Functions == [0 .. n - 1 -> Seq(0 .. n - 1)]
           Until(f, k) == /\ n # 0 => f[Null] = <<>>
                          /\ \A i \in n - k .. n - 1 : ChainAt(nodes, f, i)
           S == {k \in 0 .. n : \E f \in Functions : Until(f, k)}
<1>1. 0 \in S
  <2> DEFINE f == [i \in 0 .. n - 1 |-> <<>>]
  <2>1. f \in Functions
    OBVIOUS
  <2>2. Until(f, 0)
    <3>1. \A i \in n - 0 .. n - 1 : FALSE
      OBVIOUS
    <3>2. n # 0 => f[Null] = <<>>
      BY DEF Null
    <3> QED  BY <3>1, <3>2
  <2> HIDE DEF Functions, Until, f
  <2> QED  BY <2>1, <2>2
<1>2. ASSUME NEW k \in 0 .. n - 1, k \in S
      PROVE  k + 1 \in S
  <2>1. PICK f \in Functions : Until(f, k)
    BY <1>2
  <2> DEFINE j == n - (k + 1)
             next == nodes[j].next_sibling
             value == IF j = Null THEN <<>> ELSE <<j>> \o f[next]
             g == [f EXCEPT ![j] = value]
  <2>2. j \in 0 .. n - 1 /\ n - k = j + 1 /\ n # 0
    OBVIOUS
  <2>3. next = Null \/ next \in j + 1 .. n - 1
    BY <2>2 DEF Forward
  <2>4. next \in 0 .. n - 1
    BY <2>2, <2>3 DEF Null
  <2>5. value \in Seq(0 .. n - 1)
    <3>1. f[next] \in Seq(0 .. n - 1)
      BY <2>4
    <3>2. <<j>> \in Seq(0 .. n - 1)
      BY <2>2
    <3> HIDE DEF j, next
    <3>3. <<j>> \o f[next] \in Seq(0 .. n - 1)
      BY <3>1, <3>2, ConcatProperties
    <3>4. <<>> \in Seq(0 .. n - 1)
      OBVIOUS
    <3> QED  BY <3>3, <3>4
  <2>6. j = Null => value = f[Null]
    BY <2>1, <2>2
  <2> HIDE DEF value
  <2>7. g \in Functions /\ g[j] = value /\ \A i \in 0 .. n - 1 : i # j => g[i] = f[i]
    BY <2>2, <2>5
  <2> HIDE DEF g
  <2>8. g[Null] = f[Null] /\ Null \in 0 .. n - 1
    BY <2>2, <2>6, <2>7 DEF Null
  <2>9. ChainAt(nodes, g, j)
    <3>1. j # Null => g[next] = f[next]
      <4>1. next # j \/ j = Null
        BY <2>2, <2>3 DEF Null
      <4> HIDE DEF j, next
      <4> QED  BY <4>1, <2>4, <2>7
    <3> QED  BY <3>1, <2>7 DEF ChainAt, value
  <2>10. ASSUME NEW i \in n - k .. n - 1
         PROVE  ChainAt(nodes, g, i)
    <3>1. i \in 0 .. n - 1 /\ i # j /\ i # Null /\ i > j
      BY <2>2 DEF Null
    <3> DEFINE after == nodes[i].next_sibling
    <3>2. after = Null \/ after \in i + 1 .. n - 1
      BY <3>1 DEF Forward
    <3>3. g[after] = f[after]
      <4>1. CASE after = Null
        BY <4>1, <2>8
      <4>2. CASE after # Null
        <5>1. after \in 0 .. n - 1 /\ after # j
          BY <4>2, <3>1, <3>2
        <5> HIDE DEF after, j
        <5> QED  BY <5>1, <2>7
      <4> QED  BY <4>1, <4>2
    <3>4. ChainAt(nodes, f, i)
      BY <2>1
    <3>5. g[i] = f[i]
      BY <3>1, <2>7
    <3> QED  BY <3>3, <3>4, <3>5 DEF ChainAt
  <2>11. Until(g, k + 1)
    <3>1. \A i \in n - (k + 1) .. n - 1 : i = j \/ i \in n - k .. n - 1
      OBVIOUS
    <3>2. n # 0 => g[Null] = <<>>
      BY <2>1, <2>8
    <3> HIDE DEF j
    <3> QED  BY <2>9, <2>10, <3>1, <3>2 DEF j
  <2> HIDE DEF Functions, Until
  <2> QED  BY <2>7, <2>11
<1>3. n \in S
  <2> HIDE DEF S
  <2> QED  BY <1>1, <1>2, CountsTo
<1>4. PICK f \in Functions : Until(f, n)
  BY <1>3
<1>5. \A i \in 0 .. n - 1 : ChainAt(nodes, f, i)
  BY <1>4
<1> QED  BY <1>5

\* A chain is empty, or its first node and the chain from the next one on.
LEMMA ChainDef ==
  ASSUME NEW n \in Nat, NEW nodes, Forward(nodes, n), NEW i \in 0 .. n - 1
  PROVE  Chain(nodes, i) = IF i = Null THEN <<>>
                           ELSE <<i>> \o Chain(nodes, nodes[i].next_sibling)
<1> DEFINE Described(f) ==
             f = [j \in DOMAIN nodes |->
                    IF j = Null THEN <<>> ELSE <<j>> \o f[nodes[j].next_sibling]]
           from == CHOOSE f : Described(f)
<1>1. PICK f \in [0 .. n - 1 -> Seq(0 .. n - 1)] : \A j \in 0 .. n - 1 : ChainAt(nodes, f, j)
  BY ChainsExist
<1>2. Described(f)
  BY <1>1 DEF Forward, ChainAt
<1>3. Described(from)
  <2> HIDE DEF Described
  <2> QED  BY <1>2
<1>4. \A j : Chain(nodes, j) = from[j]
  BY DEF Chain
<1>5. i \in DOMAIN nodes
  BY DEF Forward
<1>6. from[i] = IF i = Null THEN <<>> ELSE <<i>> \o from[nodes[i].next_sibling]
  <2> HIDE DEF from
  <2> QED  BY <1>3, <1>5
<1> HIDE DEF from
<1> QED  BY <1>4, <1>6

-----------------------------------------------------------------------------

\* s lists the nodes from `first` on along next_sibling.
IsChain(nodes, first, s) ==
  /\ s \in Seq(DOMAIN nodes \ {Null})
  /\ IF s = <<>> THEN first = Null
     ELSE first = s[1] /\ nodes[s[Len(s)]].next_sibling = Null
  /\ \A k \in 1 .. Len(s) - 1 : nodes[s[k]].next_sibling = s[k + 1]

\* A sequence is its first element and the rest.
LEMMA FirstAndRest ==
  ASSUME NEW S, NEW s \in Seq(S), NEW j \in 1 .. Len(s)
  PROVE  <<s[j]>> \o SubSeq(s, j + 1, Len(s)) = SubSeq(s, j, Len(s))
  BY SubSeqRecursiveFirst

\* What lists the nodes is the chain.
LEMMA ChainIs ==
  ASSUME NEW n \in Nat, NEW nodes, Forward(nodes, n), n # 0,
         NEW first, NEW s, IsChain(nodes, first, s)
  PROVE  Chain(nodes, first) = s
<1>0. /\ DOMAIN nodes = 0 .. n - 1 /\ Null \in 0 .. n - 1
      /\ Chain(nodes, Null) = <<>>
  <2>1. DOMAIN nodes = 0 .. n - 1 /\ Null \in 0 .. n - 1
    BY DEF Forward, Null
  <2> QED  BY <2>1, ChainDef
<1>1. CASE s = <<>>
  BY <1>0, <1>1 DEF IsChain
<1>2. CASE s # <<>>
  <2> DEFINE L == Len(s)
             S == {k \in 0 .. L - 1 : Chain(nodes, s[L - k]) = SubSeq(s, L - k, L)}
  <2>1. s \in Seq(DOMAIN nodes \ {Null}) /\ L \in Nat /\ L >= 1
    BY <1>2, EmptySeq, LenProperties DEF IsChain
  <2>2. ASSUME NEW j \in 1 .. L
        PROVE  /\ s[j] \in 0 .. n - 1 /\ s[j] # Null
               /\ Chain(nodes, s[j]) = <<s[j]>> \o Chain(nodes, nodes[s[j]].next_sibling)
               /\ <<s[j]>> \o SubSeq(s, j + 1, L) = SubSeq(s, j, L)
    <3>1. s[j] \in DOMAIN nodes \ {Null}
      BY <2>1, ElementOfSeq
    <3>2. Chain(nodes, s[j]) = <<s[j]>> \o Chain(nodes, nodes[s[j]].next_sibling)
      BY <1>0, <3>1, ChainDef
    <3> QED  BY <1>0, <2>1, <3>1, <3>2, FirstAndRest
  <2>3. 0 \in S
    <3>1. L \in 1 .. L /\ nodes[s[L]].next_sibling = Null
      BY <1>2, <2>1 DEF IsChain
    <3>2. SubSeq(s, L + 1, L) = <<>>
      BY <2>1, SubSeqEmpty
    <3>3. Chain(nodes, s[L]) = SubSeq(s, L, L)
      <4>1. Chain(nodes, s[L]) = <<s[L]>> \o Chain(nodes, Null)
        BY <2>2, <3>1
      <4>2. <<s[L]>> \o SubSeq(s, L + 1, L) = SubSeq(s, L, L)
        BY <2>2, <3>1
      <4> QED  BY <1>0, <3>2, <4>1, <4>2
    <3>4. L - 0 = L /\ 0 \in 0 .. L - 1
      BY <2>1
    <3> QED  BY <3>3, <3>4
  <2>4. ASSUME NEW k \in 0 .. (L - 1) - 1, k \in S
        PROVE  k + 1 \in S
    <3> DEFINE j == L - (k + 1)
    <3>1. j \in 1 .. L - 1 /\ j \in 1 .. L /\ j + 1 = L - k /\ k + 1 \in 0 .. L - 1
      BY <2>1
    <3>2. nodes[s[j]].next_sibling = s[j + 1]
      BY <3>1 DEF IsChain
    <3>3. Chain(nodes, s[j + 1]) = SubSeq(s, j + 1, L)
      BY <2>4, <3>1
    <3>4. /\ Chain(nodes, s[j]) = <<s[j]>> \o Chain(nodes, nodes[s[j]].next_sibling)
          /\ <<s[j]>> \o SubSeq(s, j + 1, L) = SubSeq(s, j, L)
      <4> HIDE DEF j, L
      <4> QED  BY <2>2, <3>1
    <3>5. Chain(nodes, s[j]) = SubSeq(s, j, L)
      BY <3>2, <3>3, <3>4
    <3> QED  BY <3>1, <3>5
  <2>5. L - 1 \in S
    <3>1. L - 1 \in Nat /\ L - 1 \in 0 .. L - 1
      BY <2>1
    <3> HIDE DEF S, L
    <3> QED  BY <2>3, <2>4, <3>1, CountsTo
  <2>6. Chain(nodes, s[1]) = SubSeq(s, 1, L)
    BY <2>1, <2>5
  <2>7. SubSeq(s, 1, L) = s
    BY <2>1, SubSeqFull
  <2> QED  BY <1>2, <2>6, <2>7 DEF IsChain
<1> QED  BY <1>1, <1>2

\* Nothing is chained behind a null link.
LEMMA NoChain ==
  ASSUME NEW nodes
  PROVE  IsChain(nodes, Null, <<>>)
BY DEF IsChain

\* A chain stays one in an array that keeps the siblings of its members.
LEMMA ChainKept ==
  ASSUME NEW nodes, NEW more, NEW first, NEW s, IsChain(nodes, first, s),
         DOMAIN nodes \subseteq DOMAIN more,
         \A k \in 1 .. Len(s) : more[s[k]].next_sibling = nodes[s[k]].next_sibling
  PROVE  IsChain(more, first, s)
<1>1. s \in Seq(DOMAIN nodes \ {Null}) /\ Len(s) \in Nat
  BY LenProperties DEF IsChain
<1>2. s \in Seq(DOMAIN more \ {Null})
  <2>1. \A k \in 1 .. Len(s) : s[k] \in DOMAIN more \ {Null}
    BY <1>1, ElementOfSeq
  <2> QED  BY <1>1, <2>1, SeqDef, LenProperties
<1>3. s # <<>> => Len(s) \in 1 .. Len(s)
  BY <1>1, EmptySeq
<1>4. \A k \in 1 .. Len(s) - 1 : k \in 1 .. Len(s)
  BY <1>1
<1> QED  BY <1>2, <1>3, <1>4 DEF IsChain

\* It has one member more when its last one, or nothing, comes to lead to that.
LEMMA ChainAppended ==
  ASSUME NEW nodes, NEW more, NEW first, NEW s, IsChain(nodes, first, s),
         DOMAIN nodes \subseteq DOMAIN more,
         \A k \in 1 .. Len(s) - 1 : more[s[k]].next_sibling = nodes[s[k]].next_sibling,
         NEW n \in DOMAIN more \ {Null}, more[n].next_sibling = Null,
         s # <<>> => more[s[Len(s)]].next_sibling = n
  PROVE  IsChain(more, IF s = <<>> THEN n ELSE first, Append(s, n))
<1> DEFINE L == Len(s)
           r == Append(s, n)
<1>1. s \in Seq(DOMAIN nodes \ {Null}) /\ L \in Nat /\ (s = <<>> <=> L = 0)
  BY LenProperties, EmptySeq DEF IsChain
<1>2. s \in Seq(DOMAIN more \ {Null})
  <2>1. \A k \in 1 .. L : s[k] \in DOMAIN more \ {Null}
    BY <1>1, ElementOfSeq
  <2> QED  BY <1>1, <2>1, SeqDef, LenProperties
<1>3. /\ r \in Seq(DOMAIN more \ {Null}) /\ Len(r) = L + 1 /\ r[L + 1] = n
      /\ \A k \in 1 .. L : r[k] = s[k]
  BY <1>2, AppendProperties
<1> HIDE DEF L, r
<1>4. r # <<>> /\ r[1] = (IF s = <<>> THEN n ELSE s[1])
  <2>1. r # <<>>
    BY <1>1, <1>3, EmptySeq
  <2>2. L # 0 => 1 \in 1 .. L
    BY <1>1
  <2> QED  BY <1>1, <1>3, <2>1, <2>2
<1>5. ASSUME NEW k \in 1 .. Len(r) - 1
      PROVE  more[r[k]].next_sibling = r[k + 1]
  <2>1. k \in 1 .. L
    BY <1>1, <1>3
  <2>2. CASE k = L
    <3>1. L # 0
      BY <2>1, <1>1
    <3>2. more[s[L]].next_sibling = n
      BY <3>1, <1>1 DEF L
    <3> QED  BY <2>1, <2>2, <1>3, <3>2
  <2>3. CASE k # L
    <3>1. k \in 1 .. L - 1 /\ k + 1 \in 1 .. L
      BY <1>1, <2>1, <2>3
    <3>2. nodes[s[k]].next_sibling = s[k + 1]
      BY <3>1 DEF IsChain, L
    <3>3. more[s[k]].next_sibling = nodes[s[k]].next_sibling
      BY <3>1 DEF L
    <3> QED  BY <1>3, <2>1, <3>1, <3>2, <3>3
  <2> QED  BY <2>2, <2>3
<1>6. more[r[Len(r)]].next_sibling = Null
  BY <1>3
<1>7. IsChain(more, IF s = <<>> THEN n ELSE first, r)
  BY <1>3, <1>4, <1>5, <1>6 DEF IsChain
<1> QED  BY <1>7 DEF r

-----------------------------------------------------------------------------
(* The lists of an array: the children and the attributes of each node.    *)

Firsts == {"first_child", "first_attr"}

\* Kids, or AttrsOn
ListOf(nodes, p, f) == Chain(nodes, nodes[p][f])

\* A node whose type is in T and whose value is in V.
NodeOf(T, V) ==
  [type : T, at : Nat, val : V, first_child : Nat, next_sibling : Nat, first_attr : Nat]

\* Those lists do not overlap, and their members come after the node they belong to.
LinksListed(nodes, n) ==
  /\ n \in Nat \ {0, 1} /\ Forward(nodes, n)
  /\ \A p \in 0 .. n - 1 : \A f \in Firsts :
       /\ IsChain(nodes, nodes[p][f], ListOf(nodes, p, f))
       /\ \A i \in 1 .. Len(ListOf(nodes, p, f)) :
            ListOf(nodes, p, f)[i] > p /\ ListOf(nodes, p, f)[i] \in 2 .. n - 1
  /\ \A p, q \in 0 .. n - 1 : \A f, g \in Firsts :
       \A i \in 1 .. Len(ListOf(nodes, p, f)) : \A j \in 1 .. Len(ListOf(nodes, q, g)) :
         ListOf(nodes, p, f)[i] = ListOf(nodes, q, g)[j] => p = q /\ f = g /\ i = j

\* The last member of a list.
ListEnd(s) == IF s = <<>> THEN Null ELSE s[Len(s)]

\* Two nodes that differ in their links at most.
AsMade(a, b) == a.type = b.type /\ a.at = b.at /\ a.val = b.val

\* m is the n nodes and a new one at the end of the owner's list.
OneListed(m, nodes, n, T, V, new, owner, first) ==
  /\ m \in [0 .. n -> NodeOf(T, V)] /\ LinksListed(m, n + 1)
  /\ AsMade(m[n], new) /\ \A i \in 0 .. n - 1 : AsMade(m[i], nodes[i])
  /\ \A f \in Firsts : ListOf(m, n, f) = <<>>
  /\ \A p \in 0 .. n - 1 : \A f \in Firsts :
       ListOf(m, p, f) = IF p = owner /\ f = first THEN Append(ListOf(nodes, p, f), n)
                                                   ELSE ListOf(nodes, p, f)

\* How the links of the array change.
OneLinked(m, nodes, n, T, V, new, owner, first, last) ==
  /\ m \in [0 .. n -> NodeOf(T, V)]
  /\ AsMade(m[n], new) /\ \A i \in 0 .. n - 1 : AsMade(m[i], nodes[i])
  /\ m[n].next_sibling = new.next_sibling
  /\ \A i \in 0 .. n - 1 :
       m[i].next_sibling = IF last # Null /\ i = last THEN n ELSE nodes[i].next_sibling
  /\ \A f \in Firsts :
       /\ m[n][f] = new[f]
       /\ \A i \in 0 .. n - 1 :
            m[i][f] = IF last = Null /\ i = owner /\ f = first THEN n ELSE nodes[i][f]

LEMMA ChainedFields ==
  ASSUME NEW T, NEW V, NEW n \in Nat, n >= 2, NEW nodes \in [0 .. n - 1 -> NodeOf(T, V)],
         NEW new \in NodeOf(T, V), NEW owner \in 0 .. n - 1, NEW first \in Firsts,
         NEW last \in 0 .. n - 1
  PROVE  OneLinked(Chained(Grown(nodes, n, new), owner, first, last, n),
                   nodes, n, T, V, new, owner, first, last)
<1> DEFINE g == Grown(nodes, n, new)
           m == Chained(g, owner, first, last, n)
<1>1. /\ g \in [0 .. n -> NodeOf(T, V)] /\ g[n] = new
      /\ \A i \in 0 .. n - 1 : g[i] = nodes[i] /\ i \in 0 .. n /\ i # n
      /\ owner \in 0 .. n /\ last \in 0 .. n /\ owner # n /\ last # n /\ n \in 0 .. n
  BY DEF Grown
<1>3. g[owner] \in NodeOf(T, V) /\ g[last] \in NodeOf(T, V)
  BY <1>1
<1> HIDE DEF g
<1>4. CASE last # Null
  <2> DEFINE node == [g[last] EXCEPT !.next_sibling = n]
  <2>1. m = [g EXCEPT ![last] = node]
    BY <1>4 DEF Chained
  <2>2. /\ node \in NodeOf(T, V) /\ AsMade(node, g[last])
        /\ \A f \in Firsts : node[f] = g[last][f]
        /\ node.next_sibling = n
    BY <1>1, <1>3 DEF NodeOf, AsMade, Firsts
  <2> HIDE DEF node, m
  <2>3. m \in [0 .. n -> NodeOf(T, V)] /\ \A i \in 0 .. n : m[i] = IF i = last THEN node ELSE g[i]
    BY <1>1, <2>1, <2>2
  <2> QED  BY <1>1, <1>4, <2>2, <2>3 DEF g, m, AsMade, OneLinked
<1>5. CASE last = Null
  <2> DEFINE node == [g[owner] EXCEPT ![first] = n]
  <2>1. m = [g EXCEPT ![owner] = node]
    BY <1>5 DEF Chained
  <2>2. /\ node \in NodeOf(T, V) /\ AsMade(node, g[owner])
        /\ node.next_sibling = g[owner].next_sibling
        /\ \A f \in Firsts : node[f] = IF f = first THEN n ELSE g[owner][f]
    BY <1>1, <1>3 DEF NodeOf, AsMade, Firsts
  <2> HIDE DEF node, m
  <2>3. m \in [0 .. n -> NodeOf(T, V)] /\ \A i \in 0 .. n : m[i] = IF i = owner THEN node ELSE g[i]
    BY <1>1, <2>1, <2>2
  <2> QED  BY <1>1, <1>5, <2>2, <2>3 DEF g, m, AsMade, OneLinked
<1> QED  BY <1>4, <1>5

\* A list is a sequence of nodes.
LEMMA ListType ==
  ASSUME NEW n, NEW nodes, LinksListed(nodes, n), NEW p \in 0 .. n - 1, NEW f \in Firsts
  PROVE  /\ ListOf(nodes, p, f) \in Seq(2 .. n - 1) /\ Len(ListOf(nodes, p, f)) \in Nat
         /\ ListEnd(ListOf(nodes, p, f)) \in 0 .. n - 1
         /\ ListEnd(ListOf(nodes, p, f)) = Null <=> ListOf(nodes, p, f) = <<>>
<1> DEFINE s == ListOf(nodes, p, f)
<1>1. IsChain(nodes, nodes[p][f], s) /\ n \in Nat /\ n >= 2 /\ \A i \in 1 .. Len(s) : s[i] \in 2 .. n - 1
  BY DEF LinksListed
<1> HIDE DEF s
<1>2. s \in Seq(DOMAIN nodes \ {Null}) /\ Len(s) \in Nat
  BY <1>1, LenProperties DEF IsChain
<1>3. s \in Seq(2 .. n - 1)
  BY <1>1, <1>2, SeqDef, LenProperties
<1>4. s # <<>> => Len(s) \in 1 .. Len(s)
  BY <1>2, EmptySeq
<1>5. ListEnd(s) \in 0 .. n - 1 /\ (ListEnd(s) = Null <=> s = <<>>)
  <2>1. CASE s = <<>>
    BY <2>1, <1>1 DEF ListEnd, Null
  <2>2. CASE s # <<>>
    <3>1. s[Len(s)] \in 2 .. n - 1
      BY <2>2, <1>1, <1>4
    <3> QED  BY <2>2, <3>1, <1>1 DEF ListEnd, Null
  <2> QED  BY <2>1, <2>2
<1> QED  BY <1>2, <1>3, <1>5 DEF s

\* A new node linked from the end of a list is at the end of that list, and in no other.
LEMMA ListedMore ==
  ASSUME NEW T, NEW V, NEW n, NEW nodes \in [0 .. n - 1 -> NodeOf(T, V)], LinksListed(nodes, n),
         NEW new \in NodeOf(T, V), new.next_sibling = Null, \A f \in Firsts : new[f] = Null,
         NEW owner \in 0 .. n - 1, NEW first \in Firsts,
         NEW last, last = ListEnd(ListOf(nodes, owner, first))
  PROVE  OneListed(Chained(Grown(nodes, n, new), owner, first, last, n),
                   nodes, n, T, V, new, owner, first)
<1> DEFINE m == Chained(Grown(nodes, n, new), owner, first, last, n)
           Old(p, f) == ListOf(nodes, p, f)
           New(p, f) == IF p = n THEN <<>>
                        ELSE IF p = owner /\ f = first THEN Append(Old(p, f), n) ELSE Old(p, f)
<1>1. n \in Nat /\ n >= 2 /\ last \in 0 .. n - 1 /\ (last = Null <=> Old(owner, first) = <<>>)
  <2>1. n \in Nat /\ n >= 2
    BY DEF LinksListed
  <2>2. /\ ListEnd(ListOf(nodes, owner, first)) \in 0 .. n - 1
        /\ ListEnd(ListOf(nodes, owner, first)) = Null <=> ListOf(nodes, owner, first) = <<>>
    BY ListType
  <2> QED  BY <2>1, <2>2
<1>2. /\ m \in [0 .. n -> NodeOf(T, V)]
      /\ AsMade(m[n], new) /\ \A i \in 0 .. n - 1 : AsMade(m[i], nodes[i])
      /\ m[n].next_sibling = Null
      /\ \A i \in 0 .. n - 1 :
           m[i].next_sibling = IF last # Null /\ i = last THEN n ELSE nodes[i].next_sibling
      /\ \A f \in Firsts :
           /\ m[n][f] = Null
           /\ \A i \in 0 .. n - 1 :
                m[i][f] = IF last = Null /\ i = owner /\ f = first THEN n ELSE nodes[i][f]
  <2>1. OneLinked(m, nodes, n, T, V, new, owner, first, last)
    BY <1>1, ChainedFields
  <2> HIDE DEF m
  <2> QED  BY <2>1 DEF OneLinked
<1> HIDE DEF m
<1>3. Forward(m, n + 1)
  <2>1. DOMAIN m = 0 .. n /\ (n + 1) - 1 = n
    BY <1>1, <1>2
  <2>2. ASSUME NEW i \in 0 .. n
        PROVE  m[i].next_sibling = Null \/ m[i].next_sibling \in i + 1 .. n
    <3>1. CASE i = n
      BY <3>1, <1>2
    <3>2. CASE i # n
      <4>1. i \in 0 .. n - 1
        BY <3>2, <1>1
      <4>2. nodes[i].next_sibling = Null \/ nodes[i].next_sibling \in i + 1 .. n - 1
        BY <4>1 DEF LinksListed, Forward
      <4> QED  BY <4>1, <4>2, <1>1, <1>2
    <3> QED  BY <3>1, <3>2
  <2> QED  BY <2>1, <2>2 DEF Forward
<1>4. ASSUME NEW p \in 0 .. n - 1, NEW f \in Firsts
      PROVE  /\ Old(p, f) \in Seq(2 .. n - 1) /\ Len(Old(p, f)) \in Nat
             /\ IsChain(nodes, nodes[p][f], Old(p, f))
             /\ \A i \in 1 .. Len(Old(p, f)) : Old(p, f)[i] > p /\ Old(p, f)[i] \in 2 .. n - 1
  BY ListType DEF LinksListed
<1>5. \A p, q \in 0 .. n - 1 : \A f, g \in Firsts :
        \A i \in 1 .. Len(Old(p, f)) : \A j \in 1 .. Len(Old(q, g)) :
          Old(p, f)[i] = Old(q, g)[j] => p = q /\ f = g /\ i = j
  BY DEF LinksListed
<1>6. last # Null => Len(Old(owner, first)) \in 1 .. Len(Old(owner, first))
                     /\ last = Old(owner, first)[Len(Old(owner, first))]
  <2>1. last # Null => Old(owner, first) # <<>> /\ last = Old(owner, first)[Len(Old(owner, first))]
    BY <1>1 DEF ListEnd
  <2> QED  BY <2>1, <1>4, EmptySeq
<1>7. DOMAIN nodes = 0 .. n - 1 /\ DOMAIN m = 0 .. n /\ DOMAIN nodes \subseteq DOMAIN m
  BY <1>1, <1>2
<1> HIDE DEF Old
<1>8. ASSUME NEW p \in 0 .. n, NEW f \in Firsts
      PROVE  IsChain(m, m[p][f], New(p, f))
  <2>1. CASE p = n
    BY <2>1, <1>2, NoChain
  <2>2. CASE p # n
    <3>1. p \in 0 .. n - 1
      BY <2>2, <1>1
    <3> DEFINE s == Old(p, f)
    <3>2. s \in Seq(2 .. n - 1) /\ Len(s) \in Nat /\ IsChain(nodes, nodes[p][f], s)
          /\ \A i \in 1 .. Len(s) : s[i] \in 0 .. n - 1
      BY <3>1, <1>4
    <3>3. CASE p = owner /\ f = first
      <4>1. \A k \in 1 .. Len(s) - 1 : m[s[k]].next_sibling = nodes[s[k]].next_sibling
        <5> SUFFICES ASSUME NEW k \in 1 .. Len(s) - 1
                     PROVE  m[s[k]].next_sibling = nodes[s[k]].next_sibling
          OBVIOUS
        <5>1. k \in 1 .. Len(s) /\ k # Len(s)
          BY <3>2
        <5>2. last # Null => s[k] # last
          BY <5>1, <3>1, <3>3, <1>5, <1>6
        <5> QED  BY <5>1, <5>2, <3>2, <1>2
      <4>2. n \in DOMAIN m \ {Null} /\ m[n].next_sibling = Null
        BY <1>1, <1>2, <1>7 DEF Null
      <4>3. s # <<>> => m[s[Len(s)]].next_sibling = n
        BY <3>3, <1>1, <1>2, <1>6
      <4> HIDE DEF s
      <4>4. IsChain(m, IF s = <<>> THEN n ELSE nodes[p][f], Append(s, n))
        BY <3>2, <4>1, <4>2, <4>3, <1>7, ChainAppended
      <4>5. m[p][f] = IF s = <<>> THEN n ELSE nodes[p][f]
        BY <3>1, <3>3, <1>1, <1>2 DEF s
      <4> QED  BY <4>4, <4>5, <3>3, <2>2 DEF s
    <3>4. CASE ~(p = owner /\ f = first)
      <4>1. \A k \in 1 .. Len(s) : m[s[k]].next_sibling = nodes[s[k]].next_sibling
        <5> SUFFICES ASSUME NEW k \in 1 .. Len(s)
                     PROVE  m[s[k]].next_sibling = nodes[s[k]].next_sibling
          OBVIOUS
        <5>1. last # Null => s[k] # last
          BY <3>1, <3>4, <1>5, <1>6
        <5> QED  BY <5>1, <3>2, <1>2
      <4> HIDE DEF s
      <4>2. IsChain(m, nodes[p][f], s)
        BY <3>2, <4>1, <1>7, ChainKept
      <4>3. m[p][f] = nodes[p][f]
        BY <3>1, <3>4, <1>2
      <4> QED  BY <4>2, <4>3, <3>4, <2>2 DEF s
    <3> QED  BY <3>3, <3>4
  <2> QED  BY <2>1, <2>2
<1>9. \A p \in 0 .. n : \A f \in Firsts : ListOf(m, p, f) = New(p, f)
  <2> SUFFICES ASSUME NEW p \in 0 .. n, NEW f \in Firsts
               PROVE  ListOf(m, p, f) = New(p, f)
    OBVIOUS
  <2>1. IsChain(m, m[p][f], New(p, f)) /\ n + 1 \in Nat /\ n + 1 # 0
    BY <1>1, <1>8
  <2> HIDE DEF New
  <2> QED  BY <2>1, <1>3, ChainIs DEF ListOf
<1>10. ASSUME NEW p \in 0 .. n, NEW f \in Firsts, NEW i \in 1 .. Len(New(p, f))
       PROVE  /\ p # n
              /\ \/ i \in 1 .. Len(Old(p, f)) /\ New(p, f)[i] = Old(p, f)[i]
                 \/ /\ p = owner /\ f = first /\ i = Len(Old(p, f)) + 1 /\ New(p, f)[i] = n
                    /\ i \notin 1 .. Len(Old(p, f))
  <2>1. p # n
    BY <1>10
  <2>2. p \in 0 .. n - 1
    BY <2>1, <1>1
  <2>3. Old(p, f) \in Seq(2 .. n - 1) /\ Len(Old(p, f)) \in Nat
    BY <2>2, <1>4
  <2>4. CASE p = owner /\ f = first
    <3>1. /\ Len(Append(Old(p, f), n)) = Len(Old(p, f)) + 1
          /\ Append(Old(p, f), n)[Len(Old(p, f)) + 1] = n
          /\ \A j \in 1 .. Len(Old(p, f)) : Append(Old(p, f), n)[j] = Old(p, f)[j]
      <4>1. Old(p, f) \in Seq(Nat) /\ n \in Nat
        <5>1. \A j \in 1 .. Len(Old(p, f)) : Old(p, f)[j] \in Nat
          BY <2>2, <1>4
        <5> QED  BY <5>1, <2>3, <1>1, SeqDef, LenProperties
      <4> QED  BY <4>1, AppendProperties
    <3>2. New(p, f) = Append(Old(p, f), n)
      BY <2>4, <2>1
    <3> QED  BY <2>1, <2>3, <2>4, <3>1, <3>2
  <2>5. CASE ~(p = owner /\ f = first)
    BY <2>1, <2>5
  <2> QED  BY <2>4, <2>5
<1> HIDE DEF New
<1>11. \A p \in 0 .. n : \A f \in Firsts : \A i \in 1 .. Len(New(p, f)) :
         New(p, f)[i] > p /\ New(p, f)[i] \in 2 .. n
  <2> SUFFICES ASSUME NEW p \in 0 .. n, NEW f \in Firsts, NEW i \in 1 .. Len(New(p, f))
               PROVE  New(p, f)[i] > p /\ New(p, f)[i] \in 2 .. n
    OBVIOUS
  <2>1. p \in 0 .. n - 1
    BY <1>10, <1>1
  <2>2. i \in 1 .. Len(Old(p, f)) => Old(p, f)[i] > p /\ Old(p, f)[i] \in 2 .. n - 1
    BY <2>1, <1>4
  <2> QED  BY <2>1, <2>2, <1>1, <1>10
<1>12. \A p, q \in 0 .. n : \A f, g \in Firsts :
         \A i \in 1 .. Len(New(p, f)) : \A j \in 1 .. Len(New(q, g)) :
           New(p, f)[i] = New(q, g)[j] => p = q /\ f = g /\ i = j
  <2> SUFFICES ASSUME NEW p \in 0 .. n, NEW q \in 0 .. n, NEW f \in Firsts, NEW g \in Firsts,
                      NEW i \in 1 .. Len(New(p, f)), NEW j \in 1 .. Len(New(q, g)),
                      New(p, f)[i] = New(q, g)[j]
               PROVE  p = q /\ f = g /\ i = j
    OBVIOUS
  <2>1. p \in 0 .. n - 1 /\ q \in 0 .. n - 1
    BY <1>10, <1>1
  <2>2. /\ i \in 1 .. Len(Old(p, f)) => Old(p, f)[i] # n
        /\ j \in 1 .. Len(Old(q, g)) => Old(q, g)[j] # n
    <3>1. \A k \in 1 .. Len(Old(p, f)) : Old(p, f)[k] \in 2 .. n - 1
      BY <2>1, <1>4
    <3>2. \A k \in 1 .. Len(Old(q, g)) : Old(q, g)[k] \in 2 .. n - 1
      BY <2>1, <1>4
    <3> QED  BY <3>1, <3>2, <1>1
  <2>3. /\ \/ i \in 1 .. Len(Old(p, f)) /\ New(p, f)[i] = Old(p, f)[i]
           \/ /\ p = owner /\ f = first /\ i = Len(Old(p, f)) + 1 /\ New(p, f)[i] = n
              /\ i \notin 1 .. Len(Old(p, f))
        /\ \/ j \in 1 .. Len(Old(q, g)) /\ New(q, g)[j] = Old(q, g)[j]
           \/ /\ q = owner /\ g = first /\ j = Len(Old(q, g)) + 1 /\ New(q, g)[j] = n
              /\ j \notin 1 .. Len(Old(q, g))
    BY <1>10
  <2>4. CASE i \in 1 .. Len(Old(p, f)) /\ j \in 1 .. Len(Old(q, g))
    <3>1. New(p, f)[i] = Old(p, f)[i] /\ New(q, g)[j] = Old(q, g)[j]
      BY <2>3, <2>4
    <3>2. Old(p, f)[i] = Old(q, g)[j]
      BY <3>1
    <3> QED  BY <2>1, <2>4, <3>2, <1>5
  <2>5. CASE ~(i \in 1 .. Len(Old(p, f)) /\ j \in 1 .. Len(Old(q, g)))
    BY <2>2, <2>3, <2>5
  <2> QED  BY <2>4, <2>5
<1>13. LinksListed(m, n + 1)
  <2>1. n + 1 \in Nat \ {0, 1} /\ (n + 1) - 1 = n
    BY <1>1
  <2>2. \A p \in 0 .. n : \A f \in Firsts : IsChain(m, m[p][f], ListOf(m, p, f))
    BY <1>8, <1>9
  <2> HIDE DEF ListOf
  <2>3. \A p \in 0 .. n : \A f \in Firsts : \A i \in 1 .. Len(ListOf(m, p, f)) :
          ListOf(m, p, f)[i] > p /\ ListOf(m, p, f)[i] \in 2 .. n
    BY <1>9, <1>11
  <2>4. \A p, q \in 0 .. n : \A f, g \in Firsts :
          \A i \in 1 .. Len(ListOf(m, p, f)) : \A j \in 1 .. Len(ListOf(m, q, g)) :
            ListOf(m, p, f)[i] = ListOf(m, q, g)[j] => p = q /\ f = g /\ i = j
    <3> SUFFICES ASSUME NEW p \in 0 .. n, NEW q \in 0 .. n, NEW f \in Firsts, NEW g \in Firsts,
                        NEW i \in 1 .. Len(ListOf(m, p, f)), NEW j \in 1 .. Len(ListOf(m, q, g)),
                        ListOf(m, p, f)[i] = ListOf(m, q, g)[j]
                 PROVE  p = q /\ f = g /\ i = j
      OBVIOUS
    <3>1. ListOf(m, p, f) = New(p, f) /\ ListOf(m, q, g) = New(q, g)
      BY <1>9
    <3> QED  BY <3>1, <1>12
  <2> QED  BY <2>1, <2>2, <2>3, <2>4, <1>3 DEF LinksListed
<1>14. /\ \A f \in Firsts : ListOf(m, n, f) = <<>>
       /\ \A p \in 0 .. n - 1 : \A f \in Firsts :
            ListOf(m, p, f) = IF p = owner /\ f = first THEN Append(ListOf(nodes, p, f), n)
                                                        ELSE ListOf(nodes, p, f)
  <2>1. \A p \in 0 .. n - 1 : p # n /\ p \in 0 .. n
    BY <1>1
  <2>2. n \in 0 .. n
    BY <1>1
  <2> QED  BY <2>1, <2>2, <1>9 DEF New, Old
<1> QED  BY <1>2, <1>13, <1>14 DEF OneListed, m

-----------------------------------------------------------------------------
(* The nodes of the tree and their numbers.                                *)

\* Each node of the tree is a child of some node.
Held(nodes) == \A k \in TreeNodes(nodes) : HoldersOf(nodes, k) # {}

\* Every number up to theirs is the number of one of them.
Numbered(nodes) ==
  \A m \in 1 .. Cardinality(TreeNodes(nodes)) : \E k \in TreeNodes(nodes) : OrdinalOf(nodes, k) = m

\* The nodes up to k.
UpTo(nodes, k) == {j \in TreeNodes(nodes) : j <= k}

LEMMA TreeNodesType ==
  ASSUME NEW n \in Nat, NEW nodes, DOMAIN nodes = 0 .. n - 1
  PROVE  /\ TreeNodes(nodes) \subseteq 2 .. n - 1 /\ IsFiniteSet(TreeNodes(nodes))
         /\ Cardinality(TreeNodes(nodes)) \in Nat
         /\ \A k : /\ UpTo(nodes, k) \subseteq TreeNodes(nodes) /\ IsFiniteSet(UpTo(nodes, k))
                   /\ OrdinalOf(nodes, k) = Cardinality(UpTo(nodes, k))
                   /\ OrdinalOf(nodes, k) \in 0 .. Cardinality(TreeNodes(nodes))
<1>1. TreeNodes(nodes) \subseteq 2 .. n - 1
  BY DEF TreeNodes, Null, Document
<1>2. IsFiniteSet(TreeNodes(nodes))
  <2>1. 2 \in Int /\ n - 1 \in Int
    OBVIOUS
  <2>2. IsFiniteSet(2 .. n - 1)
    BY <2>1, FS_Interval
  <2> QED  BY <1>1, <2>2, FS_Subset
<1>3. Cardinality(TreeNodes(nodes)) \in Nat
  BY <1>2, FS_CardinalityType
<1>4. ASSUME NEW k
      PROVE  /\ UpTo(nodes, k) \subseteq TreeNodes(nodes) /\ IsFiniteSet(UpTo(nodes, k))
             /\ OrdinalOf(nodes, k) = Cardinality(UpTo(nodes, k))
             /\ OrdinalOf(nodes, k) \in 0 .. Cardinality(TreeNodes(nodes))
  <2>1. UpTo(nodes, k) \subseteq TreeNodes(nodes)
    BY DEF UpTo
  <2>2. /\ IsFiniteSet(UpTo(nodes, k))
        /\ Cardinality(UpTo(nodes, k)) <= Cardinality(TreeNodes(nodes))
    BY <2>1, <1>2, FS_Subset
  <2>3. Cardinality(UpTo(nodes, k)) \in Nat
    BY <2>2, FS_CardinalityType
  <2>4. OrdinalOf(nodes, k) = Cardinality(UpTo(nodes, k))
    BY DEF OrdinalOf, UpTo
  <2> QED  BY <2>1, <2>2, <2>3, <2>4, <1>3
<1> QED  BY <1>1, <1>2, <1>3, <1>4

\* A later node has a greater number.
LEMMA OrdinalsGrow ==
  ASSUME NEW n \in Nat, NEW nodes, DOMAIN nodes = 0 .. n - 1,
         NEW j \in TreeNodes(nodes), NEW k \in TreeNodes(nodes), j < k
  PROVE  OrdinalOf(nodes, j) < OrdinalOf(nodes, k)
<1>1. /\ UpTo(nodes, j) \subseteq TreeNodes(nodes) /\ IsFiniteSet(UpTo(nodes, j))
      /\ UpTo(nodes, k) \subseteq TreeNodes(nodes) /\ IsFiniteSet(UpTo(nodes, k))
      /\ OrdinalOf(nodes, j) = Cardinality(UpTo(nodes, j))
      /\ OrdinalOf(nodes, k) = Cardinality(UpTo(nodes, k))
      /\ TreeNodes(nodes) \subseteq 2 .. n - 1
  BY TreeNodesType
<1>2. UpTo(nodes, j) \cup {k} \subseteq UpTo(nodes, k) /\ k \notin UpTo(nodes, j)
  BY <1>1 DEF UpTo
<1>3. Cardinality(UpTo(nodes, j) \cup {k}) = Cardinality(UpTo(nodes, j)) + 1
  BY <1>1, <1>2, FS_AddElement
<1>4. Cardinality(UpTo(nodes, j) \cup {k}) <= Cardinality(UpTo(nodes, k))
  BY <1>1, <1>2, FS_Subset
<1>5. Cardinality(UpTo(nodes, j)) \in Nat /\ Cardinality(UpTo(nodes, k)) \in Nat
  BY <1>1, FS_CardinalityType
<1> QED  BY <1>1, <1>3, <1>4, <1>5

\* A node of the tree is the one with its number.
LEMMA NthIs ==
  ASSUME NEW n \in Nat, NEW nodes, DOMAIN nodes = 0 .. n - 1, Numbered(nodes)
  PROVE  /\ \A k \in TreeNodes(nodes) :
              /\ OrdinalOf(nodes, k) \in 1 .. Cardinality(TreeNodes(nodes))
              /\ NthNode(nodes, OrdinalOf(nodes, k)) = k
         /\ \A m \in 1 .. Cardinality(TreeNodes(nodes)) :
              NthNode(nodes, m) \in TreeNodes(nodes) /\ OrdinalOf(nodes, NthNode(nodes, m)) = m
<1>0. TreeNodes(nodes) \subseteq 2 .. n - 1 /\ Cardinality(TreeNodes(nodes)) \in Nat
  BY TreeNodesType
<1>1. ASSUME NEW m \in 1 .. Cardinality(TreeNodes(nodes))
      PROVE  NthNode(nodes, m) \in TreeNodes(nodes) /\ OrdinalOf(nodes, NthNode(nodes, m)) = m
  BY DEF Numbered, NthNode
<1>2. ASSUME NEW k \in TreeNodes(nodes)
      PROVE  OrdinalOf(nodes, k) \in 1 .. Cardinality(TreeNodes(nodes))
  <2>1. OrdinalOf(nodes, k) \in 0 .. Cardinality(TreeNodes(nodes))
        /\ OrdinalOf(nodes, k) = Cardinality(UpTo(nodes, k)) /\ IsFiniteSet(UpTo(nodes, k))
    BY TreeNodesType
  <2>2. k \in UpTo(nodes, k)
    BY <1>0 DEF UpTo
  <2>3. Cardinality(UpTo(nodes, k)) # 0
    BY <2>1, <2>2, FS_EmptySet
  <2> QED  BY <2>1, <2>3, <1>0
<1>3. ASSUME NEW k \in TreeNodes(nodes)
      PROVE  NthNode(nodes, OrdinalOf(nodes, k)) = k
  <2> DEFINE j == NthNode(nodes, OrdinalOf(nodes, k))
  <2>1. j \in TreeNodes(nodes) /\ OrdinalOf(nodes, j) = OrdinalOf(nodes, k)
    BY <1>1, <1>2
  <2>2. j \in Nat /\ k \in Nat /\ OrdinalOf(nodes, k) \in Nat
    BY <2>1, <1>0, <1>2
  <2> HIDE DEF j
  <2>3. ~(j < k)
    BY <2>1, <2>2, OrdinalsGrow
  <2>4. ~(k < j)
    BY <2>1, <2>2, OrdinalsGrow
  <2> QED  BY <2>2, <2>3, <2>4 DEF j
<1> QED  BY <1>1, <1>2, <1>3

\* The nodes and numbers of an array with a node more.
LEMMA NumbersMore ==
  ASSUME NEW n \in Nat, NEW nodes, DOMAIN nodes = 0 .. n - 1, n >= 2,
         NEW m, DOMAIN m = 0 .. n, \A i \in 0 .. n - 1 : m[i].type = nodes[i].type
  PROVE  /\ TreeNodes(m) = IF m[n].type = "attribute" THEN TreeNodes(nodes)
                           ELSE TreeNodes(nodes) \cup {n}
         /\ Cardinality(TreeNodes(m)) = Cardinality(TreeNodes(nodes))
                                        + IF m[n].type = "attribute" THEN 0 ELSE 1
         /\ \A k \in 0 .. n - 1 : OrdinalOf(m, k) = OrdinalOf(nodes, k)
         /\ OrdinalOf(m, n) = Cardinality(TreeNodes(m))
         /\ Numbered(nodes) => Numbered(m)
<1>1. /\ TreeNodes(nodes) \subseteq 2 .. n - 1 /\ IsFiniteSet(TreeNodes(nodes))
      /\ Cardinality(TreeNodes(nodes)) \in Nat
  BY TreeNodesType
<1>2. TreeNodes(m) = IF m[n].type = "attribute" THEN TreeNodes(nodes)
                     ELSE TreeNodes(nodes) \cup {n}
  BY DEF TreeNodes, Null, Document
<1>3. Cardinality(TreeNodes(m)) = Cardinality(TreeNodes(nodes))
                                  + IF m[n].type = "attribute" THEN 0 ELSE 1
  <2>1. n \notin TreeNodes(nodes)
    BY <1>1
  <2>2. Cardinality(TreeNodes(nodes) \cup {n}) = Cardinality(TreeNodes(nodes)) + 1
    BY <2>1, <1>1, FS_AddElement
  <2> QED  BY <2>2, <1>1, <1>2
<1>4. ASSUME NEW k \in 0 .. n - 1
      PROVE  OrdinalOf(m, k) = OrdinalOf(nodes, k)
  <2>1. {j \in TreeNodes(m) : j <= k} = {j \in TreeNodes(nodes) : j <= k}
    BY <1>2
  <2> QED  BY <2>1 DEF OrdinalOf
<1>5. OrdinalOf(m, n) = Cardinality(TreeNodes(m))
  <2>1. {j \in TreeNodes(m) : j <= n} = TreeNodes(m)
    BY <1>1, <1>2
  <2> QED  BY <2>1 DEF OrdinalOf
<1>6. ASSUME Numbered(nodes), NEW x \in 1 .. Cardinality(TreeNodes(m))
      PROVE  \E k \in TreeNodes(m) : OrdinalOf(m, k) = x
  <2>1. CASE x \in 1 .. Cardinality(TreeNodes(nodes))
    <3>1. PICK k \in TreeNodes(nodes) : OrdinalOf(nodes, k) = x
      BY <1>6, <2>1 DEF Numbered
    <3>2. k \in 0 .. n - 1 /\ k \in TreeNodes(m)
      BY <1>1, <1>2
    <3> QED  BY <3>1, <3>2, <1>4
  <2>2. CASE x \notin 1 .. Cardinality(TreeNodes(nodes))
    <3>1. m[n].type # "attribute" /\ x = Cardinality(TreeNodes(m))
      BY <2>2, <1>1, <1>3
    <3> QED  BY <3>1, <1>2, <1>5
  <2> QED  BY <2>1, <2>2
<1> QED  BY <1>2, <1>3, <1>4, <1>5, <1>6 DEF Numbered

-----------------------------------------------------------------------------

LEMMA MembersOf ==
  ASSUME NEW S, NEW s \in Seq(S)
  PROVE  DOMAIN s = 1 .. Len(s) /\ \A i \in 1 .. Len(s) : s[i] \in S
<1>1. DOMAIN s = 1 .. Len(s)
  OBVIOUS
<1> QED  BY <1>1, ElementOfSeq

\* Who holds a node when one more is listed.
HoldersGrow(m, nodes, n, owner, first) ==
  /\ \A k \in 0 .. n - 1 : HoldersOf(m, k) = HoldersOf(nodes, k)
  /\ first = "first_child" => HoldersOf(m, n) = {owner}

LEMMA HoldersMore ==
  ASSUME NEW T, NEW V, NEW n, NEW nodes, LinksListed(nodes, n), NEW m, NEW new,
         NEW owner \in 0 .. n - 1, NEW first \in Firsts,
         OneListed(m, nodes, n, T, V, new, owner, first)
  PROVE  HoldersGrow(m, nodes, n, owner, first)
<1>1. n \in Nat /\ n >= 2 /\ DOMAIN nodes = 0 .. n - 1 /\ DOMAIN m = 0 .. n
  BY DEF LinksListed, Forward, OneListed
<1>2. ASSUME NEW p \in 0 .. n - 1
      PROVE  /\ Kids(nodes, p) \in Seq(2 .. n - 1) /\ Len(Kids(nodes, p)) \in Nat
             /\ Kids(m, p) = IF p = owner /\ first = "first_child"
                             THEN Append(Kids(nodes, p), n) ELSE Kids(nodes, p)
  <2>1. "first_child" \in Firsts /\ Kids(nodes, p) = ListOf(nodes, p, "first_child")
        /\ Kids(m, p) = ListOf(m, p, "first_child")
    BY DEF Firsts, Kids, ListOf
  <2>2. ListOf(nodes, p, "first_child") \in Seq(2 .. n - 1) /\ Len(ListOf(nodes, p, "first_child")) \in Nat
    BY <2>1, ListType
  <2>3. ListOf(m, p, "first_child") = IF p = owner /\ first = "first_child"
          THEN Append(ListOf(nodes, p, "first_child"), n) ELSE ListOf(nodes, p, "first_child")
    <3>1. \A f \in Firsts : ListOf(m, p, f) = IF p = owner /\ f = first
            THEN Append(ListOf(nodes, p, f), n) ELSE ListOf(nodes, p, f)
      BY DEF OneListed
    <3> QED  BY <2>1, <3>1
  <2> QED  BY <2>1, <2>2, <2>3
<1>3. Kids(m, n) = <<>>
  BY DEF Kids, ListOf, OneListed, Firsts
<1> DEFINE In(a, p, k) == \E i \in DOMAIN Kids(a, p) : Kids(a, p)[i] = k
<1>4. ASSUME NEW p \in 0 .. n - 1, NEW k \in 0 .. n
      PROVE  In(m, p, k) <=> In(nodes, p, k) \/ (k = n /\ p = owner /\ first = "first_child")
  <2> DEFINE s == Kids(nodes, p)
  <2>1. /\ s \in Seq(2 .. n - 1) /\ Len(s) \in Nat /\ DOMAIN s = 1 .. Len(s) /\ s \in Seq(Nat)
    <3>1. s \in Seq(2 .. n - 1) /\ Len(s) \in Nat
      BY <1>2
    <3> HIDE DEF s
    <3>2. \A i \in 1 .. Len(s) : s[i] \in Nat
      <4>1. \A i \in 1 .. Len(s) : s[i] \in 2 .. n - 1
        BY <3>1, ElementOfSeq
      <4> QED  BY <4>1
    <3> QED  BY <3>1, <3>2, SeqDef, LenProperties
  <2>2. CASE p = owner /\ first = "first_child"
    <3>1. Kids(m, p) = Append(s, n)
      BY <1>2, <2>2
    <3> HIDE DEF s
    <3>2. /\ DOMAIN Append(s, n) = 1 .. Len(s) + 1
          /\ Append(s, n)[Len(s) + 1] = n
          /\ \A i \in 1 .. Len(s) : Append(s, n)[i] = s[i]
      BY <2>1, <1>1, AppendProperties
    <3>3. In(m, p, k) <=> (\E i \in 1 .. Len(s) : s[i] = k) \/ k = n
      <4>1. ASSUME In(m, p, k) PROVE (\E i \in 1 .. Len(s) : s[i] = k) \/ k = n
        <5>1. PICK i \in 1 .. Len(s) + 1 : Append(s, n)[i] = k
          BY <4>1, <3>1, <3>2
        <5>2. i \in 1 .. Len(s) \/ i = Len(s) + 1
          BY <2>1
        <5> QED  BY <5>1, <5>2, <3>2
      <4>2. ASSUME NEW i \in 1 .. Len(s), s[i] = k PROVE In(m, p, k)
        <5>1. i \in 1 .. Len(s) + 1
          BY <2>1
        <5> QED  BY <5>1, <4>2, <3>1, <3>2
      <4>3. ASSUME k = n PROVE In(m, p, k)
        <5>1. Len(s) + 1 \in 1 .. Len(s) + 1
          BY <2>1
        <5> QED  BY <5>1, <4>3, <3>1, <3>2
      <4> QED  BY <4>1, <4>2, <4>3
    <3> QED  BY <3>3, <2>1, <2>2 DEF s
  <2>3. CASE ~(p = owner /\ first = "first_child")
    BY <2>3, <1>2
  <2> QED  BY <2>2, <2>3
<1>5. \A p \in 0 .. n - 1 : ~In(nodes, p, n)
  <2> SUFFICES ASSUME NEW p \in 0 .. n - 1, NEW i \in DOMAIN Kids(nodes, p)
               PROVE  Kids(nodes, p)[i] # n
    OBVIOUS
  <2>1. Kids(nodes, p)[i] \in 2 .. n - 1
    <3>1. Kids(nodes, p) \in Seq(2 .. n - 1) /\ i \in 1 .. Len(Kids(nodes, p))
      BY <1>2
    <3> QED  BY <3>1, MembersOf
  <2> QED  BY <2>1, <1>1
<1>6. \A k : ~In(m, n, k)
  BY <1>3
<1>7. \A a, k : HoldersOf(a, k) = {p \in DOMAIN a : In(a, p, k)}
  BY DEF HoldersOf
<1> HIDE DEF In
<1>8. 0 .. n = (0 .. n - 1) \cup {n}
  BY <1>1
<1>9. ASSUME NEW k \in 0 .. n - 1 PROVE HoldersOf(m, k) = HoldersOf(nodes, k)
  <2>1. k \in 0 .. n /\ k # n
    BY <1>1
  <2>2. \A p \in 0 .. n - 1 : In(m, p, k) <=> In(nodes, p, k)
    BY <2>1, <1>4
  <2> QED  BY <2>2, <1>1, <1>6, <1>7, <1>8
<1>10. first = "first_child" => HoldersOf(m, n) = {owner}
  <2>1. \A p \in 0 .. n - 1 : In(m, p, n) <=> p = owner /\ first = "first_child"
    <3>1. n \in 0 .. n
      BY <1>1
    <3> QED  BY <3>1, <1>4, <1>5
  <2> QED  BY <2>1, <1>1, <1>6, <1>7, <1>8
<1> QED  BY <1>9, <1>10 DEF HoldersGrow

Item == [at : Nat, parent : Nat, attrs : Seq(Nat)]

\* What a node is in the tree.
LEMMA ItemType ==
  ASSUME NEW T, NEW V, NEW n, NEW nodes \in [0 .. n - 1 -> NodeOf(T, V)], LinksListed(nodes, n),
         Held(nodes), NEW k \in TreeNodes(nodes)
  PROVE  TreeItem(nodes, k) \in Item /\ TreeParent(nodes, k) \in 0 .. n - 1
         /\ TreeParent(nodes, k) \in HoldersOf(nodes, k) /\ k \in 2 .. n - 1
<1>1. n \in Nat /\ DOMAIN nodes = 0 .. n - 1
  BY DEF LinksListed
<1>2. k \in 2 .. n - 1 /\ k \in 0 .. n - 1
  BY <1>1, TreeNodesType
<1>3. TreeParent(nodes, k) \in HoldersOf(nodes, k) /\ TreeParent(nodes, k) \in 0 .. n - 1
  BY <1>1 DEF Held, TreeParent, HoldersOf
<1>4. OrdinalOf(nodes, TreeParent(nodes, k)) \in Nat
  BY <1>1, TreeNodesType
<1> DEFINE s == AttrsOn(nodes, k)
<1>5. s \in Seq(2 .. n - 1) /\ Len(s) \in Nat
  <2>1. "first_attr" \in Firsts /\ s = ListOf(nodes, k, "first_attr")
    BY DEF Firsts, AttrsOn, ListOf
  <2> QED  BY <1>2, <2>1, ListType
<1>6. nodes[k].at \in Nat
  BY <1>2 DEF NodeOf
<1>7. [a \in DOMAIN s |-> nodes[s[a]].at] \in Seq(Nat)
  <2> HIDE DEF s
  <2>1. DOMAIN s = 1 .. Len(s)
    BY <1>5
  <2>2. \A a \in 1 .. Len(s) : nodes[s[a]].at \in Nat
    <3> SUFFICES ASSUME NEW a \in 1 .. Len(s) PROVE nodes[s[a]].at \in Nat
      OBVIOUS
    <3>1. s[a] \in 2 .. n - 1
      BY <1>5, ElementOfSeq
    <3>2. nodes[s[a]] \in NodeOf(T, V)
      BY <3>1
    <3> QED  BY <3>2 DEF NodeOf
  <2> QED  BY <1>5, <2>1, <2>2, IsASeq
<1> QED  BY <1>2, <1>3, <1>4, <1>6, <1>7 DEF TreeItem, Item

LEMMA ItemsType ==
  ASSUME NEW T, NEW V, NEW n, NEW nodes \in [0 .. n - 1 -> NodeOf(T, V)], LinksListed(nodes, n),
         Held(nodes), Numbered(nodes)
  PROVE  TreeItems(nodes) \in Seq(Item) /\ Len(TreeItems(nodes)) = Cardinality(TreeNodes(nodes))
<1>1. n \in Nat /\ DOMAIN nodes = 0 .. n - 1
  BY DEF LinksListed
<1>2. Cardinality(TreeNodes(nodes)) \in Nat
  BY <1>1, TreeNodesType
<1>3. \A m \in 1 .. Cardinality(TreeNodes(nodes)) : TreeItem(nodes, NthNode(nodes, m)) \in Item
  BY <1>1, NthIs, ItemType
<1> QED  BY <1>2, <1>3, IsASeq DEF TreeItems

\* One more child is one more item.
LEMMA ItemsOfChild ==
  ASSUME NEW T, NEW V, NEW n, NEW nodes \in [0 .. n - 1 -> NodeOf(T, V)], LinksListed(nodes, n),
         Held(nodes), Numbered(nodes), NEW new, new.type # "attribute", new.at \in Nat,
         NEW owner \in 0 .. n - 1, NEW m,
         OneListed(m, nodes, n, T, V, new, owner, "first_child")
  PROVE  /\ Held(m) /\ Numbered(m)
         /\ TreeItems(m) = Append(TreeItems(nodes),
                                  [at |-> new.at, parent |-> OrdinalOf(nodes, owner), attrs |-> <<>>])
         /\ \A k \in 0 .. n - 1 : OrdinalOf(m, k) = OrdinalOf(nodes, k)
         /\ OrdinalOf(m, n) = Len(TreeItems(m)) /\ Len(TreeItems(m)) = Len(TreeItems(nodes)) + 1
<1> DEFINE C == Cardinality(TreeNodes(nodes))
           item == [at |-> new.at, parent |-> OrdinalOf(nodes, owner), attrs |-> <<>>]
<1>1. n \in Nat /\ n >= 2 /\ DOMAIN nodes = 0 .. n - 1
  BY DEF LinksListed
<1>2. /\ m \in [0 .. n -> NodeOf(T, V)] /\ DOMAIN m = 0 .. n /\ LinksListed(m, n + 1) /\ (n + 1) - 1 = n
      /\ m[n].type = new.type /\ m[n].at = new.at
      /\ \A i \in 0 .. n - 1 : m[i].type = nodes[i].type /\ m[i].at = nodes[i].at
  BY <1>1 DEF OneListed, AsMade
<1>3. /\ TreeNodes(m) = TreeNodes(nodes) \cup {n}
      /\ Cardinality(TreeNodes(m)) = C + 1 /\ C \in Nat
      /\ \A k \in 0 .. n - 1 : OrdinalOf(m, k) = OrdinalOf(nodes, k)
      /\ OrdinalOf(m, n) = C + 1
      /\ Numbered(m) /\ TreeNodes(nodes) \subseteq 2 .. n - 1
  <2>1. TreeNodes(nodes) \subseteq 2 .. n - 1 /\ C \in Nat
    BY <1>1, TreeNodesType
  <2>2. /\ TreeNodes(m) = TreeNodes(nodes) \cup {n} /\ Cardinality(TreeNodes(m)) = C + 1
        /\ \A k \in 0 .. n - 1 : OrdinalOf(m, k) = OrdinalOf(nodes, k)
        /\ OrdinalOf(m, n) = Cardinality(TreeNodes(m)) /\ Numbered(m)
    <3> HIDE DEF C
    <3> QED  BY <1>1, <1>2, NumbersMore DEF C
  <2> QED  BY <2>1, <2>2
<1>0. \A k \in TreeNodes(m) : NthNode(m, OrdinalOf(m, k)) = k
  <2>1. n + 1 \in Nat /\ DOMAIN m = 0 .. (n + 1) - 1
    BY <1>1, <1>2
  <2> QED  BY <2>1, <1>3, NthIs
<1>4. /\ \A k \in 0 .. n - 1 : HoldersOf(m, k) = HoldersOf(nodes, k)
      /\ HoldersOf(m, n) = {owner}
  <2>1. "first_child" \in Firsts
    BY DEF Firsts
  <2>2. HoldersGrow(m, nodes, n, owner, "first_child")
    BY <2>1, HoldersMore
  <2> QED  BY <2>2 DEF HoldersGrow
<1>5. Held(m)
  BY <1>3, <1>4 DEF Held
<1>6. ASSUME NEW k \in TreeNodes(nodes)
      PROVE  TreeItem(m, k) = TreeItem(nodes, k)
  <2>0. k \in 0 .. n - 1
    BY <1>1, <1>3
  <2>1. k \in 0 .. n - 1 /\ TreeParent(m, k) = TreeParent(nodes, k)
    <3>1. HoldersOf(m, k) = HoldersOf(nodes, k)
      BY <2>0, <1>4
    <3> QED  BY <2>0, <3>1 DEF TreeParent
  <2>2. OrdinalOf(m, TreeParent(m, k)) = OrdinalOf(nodes, TreeParent(nodes, k))
    BY <2>1, <1>3, ItemType
  <2>3. /\ AttrsOn(m, k) = AttrsOn(nodes, k) /\ AttrsOn(nodes, k) \in Seq(2 .. n - 1)
    <3>1. /\ "first_attr" \in Firsts /\ "first_attr" # "first_child"
          /\ AttrsOn(nodes, k) = ListOf(nodes, k, "first_attr")
          /\ AttrsOn(m, k) = ListOf(m, k, "first_attr")
      BY DEF Firsts, AttrsOn, ListOf
    <3> QED  BY <2>1, <3>1, ListType DEF OneListed
  <2>4. \A a \in DOMAIN AttrsOn(nodes, k) : m[AttrsOn(nodes, k)[a]].at = nodes[AttrsOn(nodes, k)[a]].at
    <3> DEFINE s == AttrsOn(nodes, k)
    <3>1. \A a \in DOMAIN s : s[a] \in 0 .. n - 1
      <4>1. s \in Seq(2 .. n - 1)
        BY <2>3
      <4> HIDE DEF s
      <4>2. DOMAIN s = 1 .. Len(s) /\ \A a \in 1 .. Len(s) : s[a] \in 2 .. n - 1
        BY <4>1, MembersOf
      <4> QED  BY <4>2
    <3> QED  BY <3>1, <1>2
  <2> QED  BY <2>1, <2>2, <2>3, <2>4, <1>2 DEF TreeItem
<1>7. TreeItem(m, n) = item
  <2>1. TreeParent(m, n) = owner
    BY <1>4 DEF TreeParent
  <2>2. AttrsOn(m, n) = <<>>
    BY DEF AttrsOn, OneListed, ListOf, Firsts
  <2>3. [a \in DOMAIN AttrsOn(m, n) |-> m[AttrsOn(m, n)[a]].at] = <<>>
    BY <2>2
  <2> QED  BY <2>1, <2>3, <1>2, <1>3 DEF TreeItem
<1>8. /\ TreeItems(nodes) \in Seq(Item) /\ Len(TreeItems(nodes)) = C
      /\ TreeItems(m) \in Seq(Item) /\ Len(TreeItems(m)) = C + 1
  <2>1. TreeItems(nodes) \in Seq(Item) /\ Len(TreeItems(nodes)) = C
    BY ItemsType
  <2>2. TreeItems(m) \in Seq(Item) /\ Len(TreeItems(m)) = Cardinality(TreeNodes(m))
    <3>1. m \in [0 .. (n + 1) - 1 -> NodeOf(T, V)]
      BY <1>2
    <3>2. LinksListed(m, n + 1) /\ Held(m) /\ Numbered(m)
      BY <1>2, <1>3, <1>5
    <3> QED  BY <3>1, <3>2, ItemsType
  <2> QED  BY <2>1, <2>2, <1>3
<1>9. \A x \in 1 .. C : TreeItems(m)[x] = TreeItems(nodes)[x]
  <2> SUFFICES ASSUME NEW x \in 1 .. C PROVE TreeItems(m)[x] = TreeItems(nodes)[x]
    OBVIOUS
  <2> DEFINE k == NthNode(nodes, x)
  <2>1. k \in TreeNodes(nodes) /\ OrdinalOf(nodes, k) = x
    BY <1>1, NthIs
  <2> HIDE DEF k
  <2>2. k \in TreeNodes(m) /\ OrdinalOf(m, k) = x
    BY <2>1, <1>3
  <2>3. NthNode(m, x) = k
    BY <2>2, <1>0
  <2>4. x \in 1 .. Cardinality(TreeNodes(m)) /\ x \in 1 .. Cardinality(TreeNodes(nodes))
    BY <1>3
  <2>5. TreeItems(m)[x] = TreeItem(m, NthNode(m, x))
        /\ TreeItems(nodes)[x] = TreeItem(nodes, NthNode(nodes, x))
    BY <2>4 DEF TreeItems
  <2> QED  BY <2>1, <2>3, <2>5, <1>6 DEF k
<1>10. TreeItems(m)[C + 1] = item
  <2>1. NthNode(m, C + 1) = n
    <3>1. n \in TreeNodes(m)
      BY <1>3
    <3> QED  BY <3>1, <1>0, <1>3
  <2>2. C + 1 \in 1 .. Cardinality(TreeNodes(m))
    BY <1>3
  <2> QED  BY <2>1, <2>2, <1>7 DEF TreeItems
<1>11. item \in Item
  <2>1. OrdinalOf(nodes, owner) \in Nat
    BY <1>1, TreeNodesType
  <2> QED  BY <2>1 DEF Item
<1>12. TreeItems(m) = Append(TreeItems(nodes), item)
  <2> DEFINE s == TreeItems(nodes)
             r == TreeItems(m)
  <2> HIDE DEF s, r, item, C
  <2>1. /\ Append(s, item) \in Seq(Item) /\ Len(Append(s, item)) = C + 1
        /\ Append(s, item)[C + 1] = item
        /\ \A x \in 1 .. C : Append(s, item)[x] = s[x]
    BY <1>8, <1>11, AppendProperties DEF s, r
  <2>2. \A x \in 1 .. C + 1 : r[x] = Append(s, item)[x]
    <3>1. \A x \in 1 .. C + 1 : x \in 1 .. C \/ x = C + 1
      BY <1>3
    <3> QED  BY <3>1, <2>1, <1>9, <1>10 DEF s, r
  <2> QED  BY <2>1, <2>2, <1>8, SeqEqual DEF s, r
<1> QED  BY <1>3, <1>5, <1>8, <1>12

\* One more attribute of the last node is one more in the last item.
LEMMA ItemsOfAttr ==
  ASSUME NEW T, NEW V, NEW n, NEW nodes \in [0 .. n - 1 -> NodeOf(T, V)], LinksListed(nodes, n),
         Held(nodes), Numbered(nodes), NEW new, new.type = "attribute", new.at \in Nat,
         NEW owner \in 0 .. n - 1, owner \in TreeNodes(nodes),
         OrdinalOf(nodes, owner) = Cardinality(TreeNodes(nodes)),
         NEW m, OneListed(m, nodes, n, T, V, new, owner, "first_attr")
  PROVE  /\ Held(m) /\ Numbered(m)
         /\ TreeItems(m) = [TreeItems(nodes) EXCEPT ![Len(TreeItems(nodes))].attrs = Append(@, new.at)]
         /\ \A k \in 0 .. n - 1 : OrdinalOf(m, k) = OrdinalOf(nodes, k)
         /\ Len(TreeItems(m)) = Len(TreeItems(nodes))
<1> DEFINE C == Cardinality(TreeNodes(nodes))
<1>1. n \in Nat /\ n >= 2 /\ DOMAIN nodes = 0 .. n - 1
  BY DEF LinksListed
<1>2. /\ m \in [0 .. n -> NodeOf(T, V)] /\ DOMAIN m = 0 .. n /\ LinksListed(m, n + 1) /\ (n + 1) - 1 = n
      /\ m[n].type = new.type /\ m[n].at = new.at
      /\ \A i \in 0 .. n - 1 : m[i].type = nodes[i].type /\ m[i].at = nodes[i].at
  BY <1>1 DEF OneListed, AsMade
<1>3. /\ TreeNodes(m) = TreeNodes(nodes)
      /\ Cardinality(TreeNodes(m)) = C /\ C \in Nat
      /\ \A k \in 0 .. n - 1 : OrdinalOf(m, k) = OrdinalOf(nodes, k)
      /\ Numbered(m) /\ TreeNodes(nodes) \subseteq 2 .. n - 1
  BY <1>1, <1>2, NumbersMore, TreeNodesType
<1>0. owner \in 0 .. n - 1 /\ owner \in 2 .. n - 1
  BY <1>3
<1>7. \A k \in TreeNodes(m) : NthNode(m, OrdinalOf(m, k)) = k
  <2>1. n + 1 \in Nat /\ DOMAIN m = 0 .. (n + 1) - 1
    BY <1>1, <1>2
  <2> QED  BY <2>1, <1>3, NthIs
<1>4. \A k \in 0 .. n - 1 : HoldersOf(m, k) = HoldersOf(nodes, k)
  <2>1. "first_attr" \in Firsts
    BY DEF Firsts
  <2>2. HoldersGrow(m, nodes, n, owner, "first_attr")
    BY <2>1, HoldersMore
  <2> QED  BY <2>2 DEF HoldersGrow
<1>5. Held(m)
  BY <1>3, <1>4 DEF Held
<1>6. ASSUME NEW k \in TreeNodes(nodes)
      PROVE  /\ TreeItem(m, k).at = TreeItem(nodes, k).at
             /\ TreeItem(m, k).parent = TreeItem(nodes, k).parent
             /\ TreeItem(m, k).attrs = IF k = owner THEN Append(TreeItem(nodes, k).attrs, new.at)
                                                    ELSE TreeItem(nodes, k).attrs
  <2>0. k \in 0 .. n - 1
    BY <1>1, <1>3
  <2>1. k \in 0 .. n - 1 /\ TreeParent(m, k) = TreeParent(nodes, k)
    <3>1. HoldersOf(m, k) = HoldersOf(nodes, k)
      BY <2>0, <1>4
    <3> QED  BY <2>0, <3>1 DEF TreeParent
  <2>2. OrdinalOf(m, TreeParent(m, k)) = OrdinalOf(nodes, TreeParent(nodes, k))
    BY <2>1, <1>3, ItemType
  <2> DEFINE s == AttrsOn(nodes, k)
             r == AttrsOn(m, k)
  <2>3. r = (IF k = owner THEN Append(s, n) ELSE s) /\ s \in Seq(2 .. n - 1) /\ Len(s) \in Nat
    <3>1. /\ "first_attr" \in Firsts
          /\ s = ListOf(nodes, k, "first_attr") /\ r = ListOf(m, k, "first_attr")
      BY DEF Firsts, AttrsOn, ListOf
    <3> QED  BY <2>1, <3>1, ListType DEF OneListed
  <2> DEFINE b == [a \in DOMAIN s |-> nodes[s[a]].at]
             c == [a \in DOMAIN r |-> m[r[a]].at]
  <2>4. /\ TreeItem(m, k).at = m[k].at /\ TreeItem(nodes, k).at = nodes[k].at
        /\ TreeItem(m, k).parent = OrdinalOf(m, TreeParent(m, k))
        /\ TreeItem(nodes, k).parent = OrdinalOf(nodes, TreeParent(nodes, k))
        /\ TreeItem(m, k).attrs = c /\ TreeItem(nodes, k).attrs = b
    BY DEF TreeItem
  <2> HIDE DEF s, r
  <2>5. DOMAIN s = 1 .. Len(s) /\ \A a \in 1 .. Len(s) : s[a] \in 2 .. n - 1
    <3>1. s \in Seq(2 .. n - 1)
      BY <2>3
    <3> QED  BY <3>1, MembersOf
  <2>6. \A a \in 1 .. Len(s) : s[a] \in 0 .. n - 1 /\ m[s[a]].at = nodes[s[a]].at
                               /\ nodes[s[a]].at \in Nat
    <3>1. \A a \in 1 .. Len(s) : s[a] \in 0 .. n - 1
      BY <2>5
    <3>2. \A i \in 0 .. n - 1 : nodes[i].at \in Nat
      BY DEF NodeOf
    <3> QED  BY <3>1, <3>2, <1>2
  <2>7. CASE k # owner
    BY <2>1, <2>2, <2>3, <2>4, <2>5, <2>6, <2>7, <1>2
  <2>8. CASE k = owner
    <3>0. s \in Seq(Nat) /\ n \in Nat
      <4>1. \A a \in 1 .. Len(s) : s[a] \in Nat
        BY <2>5
      <4> QED  BY <4>1, <2>3, <1>1, SeqDef, LenProperties
    <3>1. /\ r \in Seq(Nat) /\ Len(r) = Len(s) + 1 /\ r[Len(s) + 1] = n
          /\ \A a \in 1 .. Len(s) : r[a] = s[a]
      BY <3>0, <2>3, <2>8, AppendProperties
    <3>2. DOMAIN r = 1 .. Len(s) + 1
      BY <3>1
    <3>3. b \in Seq(Nat) /\ Len(b) = Len(s)
      BY <2>3, <2>5, <2>6, IsASeq
    <3>4. c \in Seq(Nat) /\ Len(c) = Len(s) + 1
      <4>1. \A a \in 1 .. Len(s) + 1 : m[r[a]].at \in Nat
        <5>1. \A a \in 1 .. Len(s) + 1 : a \in 1 .. Len(s) \/ a = Len(s) + 1
          BY <2>3
        <5> QED  BY <5>1, <3>1, <2>6, <1>2
      <4>2. Len(s) + 1 \in Nat
        BY <2>3
      <4> QED  BY <4>1, <4>2, <3>2, IsASeq
    <3>5. /\ \A a \in 1 .. Len(s) : c[a] = b[a]
          /\ c[Len(s) + 1] = new.at
      <4>1. \A a \in 1 .. Len(s) : a \in 1 .. Len(s) + 1
        BY <2>3
      <4>2. Len(s) + 1 \in 1 .. Len(s) + 1
        BY <2>3
      <4> QED  BY <4>1, <4>2, <3>1, <3>2, <2>5, <2>6, <1>2
    <3>6. c = Append(b, new.at)
      <4> HIDE DEF b, c
      <4>1. /\ Append(b, new.at) \in Seq(Nat) /\ Len(Append(b, new.at)) = Len(s) + 1
            /\ Append(b, new.at)[Len(s) + 1] = new.at
            /\ \A a \in 1 .. Len(s) : Append(b, new.at)[a] = b[a]
        BY <3>3, AppendProperties
      <4>2. \A a \in 1 .. Len(s) + 1 : c[a] = Append(b, new.at)[a]
        <5>1. \A a \in 1 .. Len(s) + 1 : a \in 1 .. Len(s) \/ a = Len(s) + 1
          BY <2>3
        <5> QED  BY <5>1, <4>1, <3>5
      <4> QED  BY <4>1, <4>2, <3>4, SeqEqual
    <3> QED  BY <3>6, <2>1, <2>2, <2>4, <2>8, <1>2
  <2> QED  BY <2>7, <2>8
<1>8. /\ TreeItems(nodes) \in Seq(Item) /\ Len(TreeItems(nodes)) = C
      /\ TreeItems(m) \in Seq(Item) /\ Len(TreeItems(m)) = C
  BY <1>2, <1>3, <1>5, ItemsType
<1>9. ASSUME NEW x \in 1 .. C
      PROVE  TreeItems(m)[x] = IF x = C THEN [TreeItems(nodes)[x] EXCEPT !.attrs = Append(@, new.at)]
                                        ELSE TreeItems(nodes)[x]
  <2> DEFINE k == NthNode(nodes, x)
  <2>1. k \in TreeNodes(nodes) /\ OrdinalOf(nodes, k) = x
    BY <1>1, NthIs
  <2>2. x = C <=> k = owner
    <3>1. NthNode(nodes, C) = owner
      BY <1>1, NthIs
    <3> QED  BY <3>1, <2>1
  <2> HIDE DEF k
  <2>3. k \in TreeNodes(m) /\ OrdinalOf(m, k) = x /\ k \in 0 .. n - 1
    BY <2>1, <1>3
  <2>4. NthNode(m, x) = k
    BY <2>3, <1>7
  <2>5. TreeItems(m)[x] = TreeItem(m, k) /\ TreeItems(nodes)[x] = TreeItem(nodes, k)
    <3>1. x \in 1 .. Cardinality(TreeNodes(m)) /\ x \in 1 .. Cardinality(TreeNodes(nodes))
      BY <1>3
    <3> QED  BY <3>1, <2>4 DEF TreeItems, k
  <2>6. TreeItem(m, k) \in Item /\ TreeItem(nodes, k) \in Item
    BY <2>1, <2>3, <1>2, <1>5, ItemType
  <2> DEFINE i == TreeItem(nodes, k)
             j == TreeItem(m, k)
  <2>7. /\ j.at = i.at /\ j.parent = i.parent
        /\ j.attrs = IF k = owner THEN Append(i.attrs, new.at) ELSE i.attrs
    BY <2>1, <1>6
  <2>9. TreeItems(m)[x] = j /\ TreeItems(nodes)[x] = i /\ i \in Item /\ j \in Item
    BY <2>5, <2>6
  <2> HIDE DEF i, j
  <2>8. j = IF k = owner THEN [i EXCEPT !.attrs = Append(@, new.at)] ELSE i
    BY <2>7, <2>9 DEF Item
  <2> QED  BY <2>2, <2>8, <2>9
<1>10. C \in 1 .. C
  BY <1>0, <1>1, NthIs
<1>11. TreeItems(m) = [TreeItems(nodes) EXCEPT ![C].attrs = Append(@, new.at)]
  <2> DEFINE s == TreeItems(nodes)
             r == TreeItems(m)
  <2>1. DOMAIN r = 1 .. C /\ DOMAIN s = 1 .. C /\ r \in Seq(Item)
    BY <1>8
  <2>2. r = [x \in 1 .. C |-> r[x]]
    BY <1>3, <1>8 DEF TreeItems
  <2> QED  BY <2>1, <2>2, <1>9, <1>10
<1> QED  BY <1>3, <1>5, <1>8, <1>11

\* Before parsing starts there is no tree yet.
LEMMA FirstListed ==
  ASSUME NEW v
  PROVE  /\ LinksListed(FirstNodes(v), 2) /\ Held(FirstNodes(v)) /\ Numbered(FirstNodes(v))
         /\ TreeItems(FirstNodes(v)) = <<>>
         /\ \A p \in 0 .. 1 : \A f \in Firsts : ListOf(FirstNodes(v), p, f) = <<>>
<1> DEFINE a == FirstNodes(v)
<1>1. /\ DOMAIN a = {0, 1} /\ 0 .. 1 = {0, 1} /\ 2 - 1 = 1
      /\ \A i \in {0, 1} : /\ a[i].next_sibling = 0
                           /\ \A f \in Firsts : a[i][f] = 0
  BY DEF FirstNodes, NewNode, Null, Document, Firsts
<1> HIDE DEF a
<1>2. Forward(a, 2)
  BY <1>1 DEF Forward, Null
<1>3. Chain(a, 0) = <<>>
  <2>1. 0 \in 0 .. 2 - 1 /\ 2 \in Nat
    OBVIOUS
  <2> QED  BY <1>2, <2>1, ChainDef DEF Null
<1>4. \A p \in 0 .. 1 : \A f \in Firsts : a[p][f] = 0 /\ ListOf(a, p, f) = <<>>
  BY <1>1, <1>3 DEF ListOf
<1>5. LinksListed(a, 2)
  <2>1. \A p \in 0 .. 2 - 1 : \A f \in Firsts :
          /\ IsChain(a, a[p][f], ListOf(a, p, f))
          /\ Len(ListOf(a, p, f)) = 0
    BY <1>4, NoChain DEF Null
  <2>2. 1 .. 0 = {}
    OBVIOUS
  <2> QED  BY <1>2, <2>1, <2>2 DEF LinksListed
<1>6. TreeNodes(a) = {} /\ Cardinality(TreeNodes(a)) = 0
  <2>1. TreeNodes(a) = {}
    BY <1>1 DEF TreeNodes, Null, Document
  <2> QED  BY <2>1, FS_EmptySet
<1>7. Held(a) /\ Numbered(a) /\ TreeItems(a) = <<>>
  <2>1. 1 .. 0 = {}
    OBVIOUS
  <2> QED  BY <1>6, <2>1 DEF Held, Numbered, TreeItems
<1> QED  BY <1>4, <1>5, <1>7 DEF a

\* The array stands for a tree.
WellLinked(nodes, n) == LinksListed(nodes, n) /\ Held(nodes) /\ Numbered(nodes)

\* The last member of a list with one more.
LEMMA EndOfAppend ==
  ASSUME NEW S, NEW s \in Seq(S), NEW x
  PROVE  ListEnd(Append(s, x)) = x
<1>1. s \in Seq(S \cup {x}) /\ x \in S \cup {x}
  <2>1. Len(s) \in Nat /\ \A i \in 1 .. Len(s) : s[i] \in S
    BY MembersOf, LenProperties
  <2>2. \A i \in 1 .. Len(s) : s[i] \in S \cup {x}
    BY <2>1
  <2> QED  BY <2>1, <2>2, SeqDef, LenProperties
<1>2. /\ Append(s, x) \in Seq(S \cup {x}) /\ Len(Append(s, x)) = Len(s) + 1
      /\ Append(s, x)[Len(s) + 1] = x /\ Len(s) \in Nat
  BY <1>1, AppendProperties, LenProperties
<1>3. Append(s, x) # <<>>
  BY <1>2, EmptySeq
<1> QED  BY <1>2, <1>3 DEF ListEnd

\* A child is one more item of the tree.
ChildShows(m, nodes, n, owner, new) ==
  /\ WellLinked(m, n + 1) /\ m[n].type = new.type
  /\ TreeItems(m) = Append(TreeItems(nodes),
                           [at |-> new.at, parent |-> OrdinalOf(nodes, owner), attrs |-> <<>>])
  /\ \A k \in 0 .. n - 1 : OrdinalOf(m, k) = OrdinalOf(nodes, k)
  /\ n \in TreeNodes(m) /\ OrdinalOf(m, n) = Len(TreeItems(m))
  /\ Kids(m, n) = <<>> /\ AttrsOn(m, n) = <<>>
  /\ \A p \in 0 .. n - 1 : ListEnd(Kids(m, p)) = IF p = owner THEN n ELSE ListEnd(Kids(nodes, p))

LEMMA ChildShown ==
  ASSUME NEW T, NEW V, NEW n, NEW nodes \in [0 .. n - 1 -> NodeOf(T, V)], WellLinked(nodes, n),
         NEW new \in NodeOf(T, V), new.next_sibling = Null, \A f \in Firsts : new[f] = Null,
         new.type # "attribute", NEW owner \in 0 .. n - 1,
         NEW last, last = ListEnd(Kids(nodes, owner))
  PROVE  ChildShows(Chained(Grown(nodes, n, new), owner, "first_child", last, n),
                    nodes, n, owner, new)
<1> DEFINE first == "first_child"
           m == Chained(Grown(nodes, n, new), owner, first, last, n)
<1>1. /\ first \in Firsts /\ LinksListed(nodes, n) /\ Held(nodes) /\ Numbered(nodes)
      /\ n \in Nat /\ n >= 2 /\ \A a, p : Kids(a, p) = ListOf(a, p, first)
  <2>1. first \in Firsts
    BY DEF Firsts
  <2>2. n \in Nat /\ n >= 2 /\ LinksListed(nodes, n) /\ Held(nodes) /\ Numbered(nodes)
    <3>1. LinksListed(nodes, n) /\ Held(nodes) /\ Numbered(nodes)
      BY DEF WellLinked
    <3>2. n \in Nat \ {0, 1}
      BY <3>1 DEF LinksListed
    <3> QED  BY <3>1, <3>2
  <2>3. \A a, p : Kids(a, p) = ListOf(a, p, first)
    BY DEF Kids, ListOf
  <2> QED  BY <2>1, <2>2, <2>3
<1>2. new.at \in Nat
  BY DEF NodeOf
<1>3. OneListed(m, nodes, n, T, V, new, owner, first)
  <2>1. last = ListEnd(ListOf(nodes, owner, first))
    BY <1>1
  <2> HIDE DEF first
  <2> QED  BY <1>1, <2>1, ListedMore
<1> HIDE DEF m
<1>4. /\ Held(m) /\ Numbered(m)
      /\ TreeItems(m) = Append(TreeItems(nodes),
                               [at |-> new.at, parent |-> OrdinalOf(nodes, owner), attrs |-> <<>>])
      /\ \A k \in 0 .. n - 1 : OrdinalOf(m, k) = OrdinalOf(nodes, k)
      /\ OrdinalOf(m, n) = Len(TreeItems(m))
  BY <1>1, <1>2, <1>3, ItemsOfChild
<1>5. /\ m \in [0 .. n -> NodeOf(T, V)] /\ LinksListed(m, n + 1) /\ m[n].type = new.type
  BY <1>3 DEF OneListed, AsMade
<1>6. n \in TreeNodes(m)
  BY <1>1, <1>5 DEF TreeNodes, Null, Document
<1>7. /\ Kids(m, n) = <<>> /\ AttrsOn(m, n) = <<>>
      /\ \A p \in 0 .. n - 1 :
           Kids(m, p) = IF p = owner THEN Append(Kids(nodes, p), n) ELSE Kids(nodes, p)
  BY <1>3 DEF OneListed, Kids, AttrsOn, ListOf, Firsts
<1>8. ListEnd(Append(Kids(nodes, owner), n)) = n
  <2>1. ListOf(nodes, owner, first) \in Seq(2 .. n - 1)
    <3> HIDE DEF first
    <3> QED  BY <1>1, ListType
  <2>2. Kids(nodes, owner) \in Seq(2 .. n - 1)
    BY <1>1, <2>1
  <2> QED  BY <2>2, EndOfAppend
<1> QED  BY <1>4, <1>5, <1>6, <1>7, <1>8 DEF ChildShows, WellLinked, m

\* An attribute is one more of the last item.
AttrShows(m, nodes, n, owner, new) ==
  /\ WellLinked(m, n + 1) /\ m[n].type = new.type
  /\ TreeItems(m) = [TreeItems(nodes) EXCEPT ![Len(TreeItems(nodes))].attrs = Append(@, new.at)]
  /\ \A k \in 0 .. n - 1 : OrdinalOf(m, k) = OrdinalOf(nodes, k)
  /\ owner \in TreeNodes(m) /\ OrdinalOf(m, owner) = Len(TreeItems(m))
  /\ ListEnd(AttrsOn(m, owner)) = n
  /\ \A p \in 0 .. n - 1 : Kids(m, p) = Kids(nodes, p)

LEMMA AttrShown ==
  ASSUME NEW T, NEW V, NEW n, NEW nodes \in [0 .. n - 1 -> NodeOf(T, V)], WellLinked(nodes, n),
         NEW new \in NodeOf(T, V), new.next_sibling = Null, \A f \in Firsts : new[f] = Null,
         new.type = "attribute", NEW owner \in 0 .. n - 1, owner \in TreeNodes(nodes),
         OrdinalOf(nodes, owner) = Len(TreeItems(nodes)),
         NEW last, last = ListEnd(AttrsOn(nodes, owner))
  PROVE  AttrShows(Chained(Grown(nodes, n, new), owner, "first_attr", last, n),
                   nodes, n, owner, new)
<1> DEFINE first == "first_attr"
           m == Chained(Grown(nodes, n, new), owner, first, last, n)
<1>1. /\ first \in Firsts /\ LinksListed(nodes, n) /\ Held(nodes) /\ Numbered(nodes)
      /\ n \in Nat /\ n >= 2 /\ \A a, p : AttrsOn(a, p) = ListOf(a, p, first)
      /\ first # "first_child"
  <2>1. first \in Firsts /\ first # "first_child"
    BY DEF Firsts
  <2>2. n \in Nat /\ n >= 2 /\ LinksListed(nodes, n) /\ Held(nodes) /\ Numbered(nodes)
    <3>1. LinksListed(nodes, n) /\ Held(nodes) /\ Numbered(nodes)
      BY DEF WellLinked
    <3>2. n \in Nat \ {0, 1}
      BY <3>1 DEF LinksListed
    <3> QED  BY <3>1, <3>2
  <2>3. \A a, p : AttrsOn(a, p) = ListOf(a, p, first)
    BY DEF AttrsOn, ListOf
  <2> QED  BY <2>1, <2>2, <2>3
<1>2. new.at \in Nat /\ Len(TreeItems(nodes)) = Cardinality(TreeNodes(nodes))
  BY <1>1, ItemsType DEF NodeOf
<1>3. OneListed(m, nodes, n, T, V, new, owner, first)
  <2>1. last = ListEnd(ListOf(nodes, owner, first))
    BY <1>1
  <2> HIDE DEF first
  <2> QED  BY <1>1, <2>1, ListedMore
<1> HIDE DEF m
<1>4. /\ Held(m) /\ Numbered(m)
      /\ TreeItems(m) = [TreeItems(nodes) EXCEPT ![Len(TreeItems(nodes))].attrs = Append(@, new.at)]
      /\ \A k \in 0 .. n - 1 : OrdinalOf(m, k) = OrdinalOf(nodes, k)
      /\ Len(TreeItems(m)) = Len(TreeItems(nodes))
  <2>1. OneListed(m, nodes, n, T, V, new, owner, "first_attr")
    BY <1>3
  <2>2. /\ LinksListed(nodes, n) /\ Held(nodes) /\ Numbered(nodes) /\ new.at \in Nat
        /\ OrdinalOf(nodes, owner) = Cardinality(TreeNodes(nodes))
        /\ Len(TreeItems(nodes)) = Cardinality(TreeNodes(nodes))
    BY <1>1, <1>2
  <2> HIDE DEF first
  <2> QED  BY <2>1, <2>2, ItemsOfAttr
<1>5. /\ m \in [0 .. n -> NodeOf(T, V)] /\ LinksListed(m, n + 1) /\ m[n].type = new.type
      /\ \A i \in 0 .. n - 1 : m[i].type = nodes[i].type
  BY <1>3 DEF OneListed, AsMade
<1>6. owner \in TreeNodes(m)
  BY <1>1, <1>5 DEF TreeNodes
<1>7. /\ AttrsOn(m, owner) = Append(AttrsOn(nodes, owner), n)
      /\ \A p \in 0 .. n - 1 : Kids(m, p) = Kids(nodes, p)
  BY <1>3 DEF OneListed, Kids, AttrsOn, ListOf, Firsts
<1>8. ListEnd(Append(AttrsOn(nodes, owner), n)) = n
  <2>1. ListOf(nodes, owner, first) \in Seq(2 .. n - 1)
    <3> HIDE DEF first
    <3> QED  BY <1>1, ListType
  <2>2. AttrsOn(nodes, owner) \in Seq(2 .. n - 1)
    BY <1>1, <2>1
  <2> QED  BY <2>2, EndOfAppend
<1> QED  BY <1>4, <1>5, <1>6, <1>7, <1>8 DEF AttrShows, WellLinked, m

\* A sequence without its last element.
LEMMA FrontIs ==
  ASSUME NEW S, NEW s \in Seq(S), Len(s) \in 1 .. Len(s)
  PROVE  /\ SubSeq(s, 1, Len(s) - 1) \in Seq(S) /\ Len(SubSeq(s, 1, Len(s) - 1)) = Len(s) - 1
         /\ \A j \in 1 .. Len(s) - 1 : SubSeq(s, 1, Len(s) - 1)[j] = s[j]
<1> DEFINE f == SubSeq(s, 1, Len(s) - 1)
           n == Len(s)
<1>1. n \in Nat /\ n >= 1
  BY LenProperties
<1>2. \A j \in 1 .. n - 1 : s[j] \in S
  BY <1>1, ElementOfSeq
<1>3. /\ f \in Seq(S)
      /\ Len(f) = IF 1 <= n - 1 THEN (n - 1) - 1 + 1 ELSE 0
      /\ \A j \in 1 .. (n - 1) - 1 + 1 : f[j] = s[1 + j - 1]
  BY <1>1, <1>2, SubSeqProperties
<1> HIDE DEF f, n
<1>4. Len(f) = n - 1
  BY <1>1, <1>3
<1>5. \A j \in 1 .. n - 1 : j \in 1 .. (n - 1) - 1 + 1 /\ 1 + j - 1 = j
  BY <1>1
<1> QED  BY <1>3, <1>4, <1>5 DEF f, n

=============================================================================
