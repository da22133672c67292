-------------------------- MODULE DomBuilderProofs --------------------------
(***************************************************************************)
(* Proofs about DomBuilder: for any calls, whatever they nest, the tree of *)
(* the builder is what they add, in their order; build() gives every node  *)
(* its name and its text; and a removal takes out what it names.           *)
(*                                                                         *)
(* The inductive invariant is IInv: the nodes come in the order of their   *)
(* calls, the stack holds the elements those calls left open, every text   *)
(* lies where its node says, and the k-th node with a name has the k-th    *)
(* name.                                                                   *)
(***************************************************************************)
EXTENDS DomBuilder, RecursionProofs

-----------------------------------------------------------------------------
(* Filtered sequences.                                                     *)

\* f[k] is what Only keeps of the first k elements.
Keeps(f, s, S) ==
  /\ f[0] = <<>>
  /\ \A k \in 1 .. Len(s) : f[k] = IF s[k] \in S THEN Append(f[k - 1], s[k]) ELSE f[k - 1]

LEMMA OnlyDef ==
  ASSUME NEW V, NEW s \in Seq(V), NEW S
  PROVE  \E f \in [0 .. Len(s) -> Seq(V)] : Keeps(f, s, S) /\ Only(s, S) = f[Len(s)]
<1> DEFINE n == Len(s)
           g == [x \in (1 .. n) \X Seq(V) |->
                   IF s[x[1]] \in S THEN Append(x[2], s[x[1]]) ELSE x[2]]
           Is(f) == f = [i \in 0 .. Len(s) |->
                           IF i = 0 THEN <<>>
                           ELSE IF s[i] \in S THEN Append(f[i - 1], s[i]) ELSE f[i - 1]]
           kept == CHOOSE f : Is(f)
<1>1. n \in Nat /\ <<>> \in Seq(V) /\ \A k \in 1 .. n : s[k] \in V
  BY LenProperties, ElementOfSeq
<1>2. g \in [(1 .. n) \X Seq(V) -> Seq(V)]
  <2>1. ASSUME NEW k \in 1 .. n, NEW t \in Seq(V)
        PROVE  (IF s[k] \in S THEN Append(t, s[k]) ELSE t) \in Seq(V)
    BY <1>1, AppendProperties
  <2> HIDE DEF n
  <2> QED  BY <2>1
<1>3. PICK f \in [0 .. n -> Seq(V)] : GoesBy(f, n, <<>>, g)
  <2> HIDE DEF g, n
  <2> QED  BY <1>1, <1>2, StepByStep
<1>4. \A k \in 1 .. n : k - 1 \in 0 .. n /\ f[k - 1] \in Seq(V)
  <2> HIDE DEF n
  <2>1. \A k \in 1 .. n : k - 1 \in 0 .. n
    BY <1>1
  <2> QED  BY <2>1
<1>5. \A k \in 1 .. n : f[k] = IF s[k] \in S THEN Append(f[k - 1], s[k]) ELSE f[k - 1]
  <2> SUFFICES ASSUME NEW k \in 1 .. n
               PROVE  f[k] = IF s[k] \in S THEN Append(f[k - 1], s[k]) ELSE f[k - 1]
    OBVIOUS
  <2>1. f[k] = g[<<k, f[k - 1]>>] /\ <<k, f[k - 1]>> \in (1 .. n) \X Seq(V)
    BY <1>3, <1>4 DEF GoesBy
  <2> HIDE DEF n
  <2> QED  BY <2>1
<1>6. f[0] = <<>>
  BY <1>3 DEF GoesBy
<1>7. Is(f)
  <2>1. \A i \in 0 .. n : i # 0 => i \in 1 .. n
    BY <1>1
  <2>2. f = [i \in 0 .. n |-> f[i]]
    BY <1>3
  <2>3. \A i \in 0 .. n : f[i] = IF i = 0 THEN <<>>
                                 ELSE IF s[i] \in S THEN Append(f[i - 1], s[i]) ELSE f[i - 1]
    BY <1>5, <1>6, <2>1
  <2> QED  BY <2>2, <2>3
<1>8. Is(kept)
  <2> HIDE DEF Is
  <2> QED  BY <1>7
<1>9. Only(s, S) = kept[n]
  BY DEF Only
<1> DEFINE U == {k \in 0 .. n : kept[k] = f[k]}
<1>10. \A i \in 0 .. n : kept[i] = IF i = 0 THEN <<>>
                                   ELSE IF s[i] \in S THEN Append(kept[i - 1], s[i]) ELSE kept[i - 1]
  <2> HIDE DEF kept
  <2> QED  BY <1>8
<1>11. n \in U
  <2> HIDE DEF kept, n
  <2>1. 0 \in 0 .. n /\ \A k \in 0 .. n - 1 : k + 1 \in 0 .. n /\ k + 1 \in 1 .. n /\ k + 1 # 0 /\ (k + 1) - 1 = k
    BY <1>1
  <2>2. 0 \in U
    BY <1>6, <1>10, <2>1
  <2>3. \A k \in 0 .. n - 1 : k \in U => k + 1 \in U
    BY <1>5, <1>10, <2>1
  <2>4. n \in 0 .. n
    BY <1>1
  <2> HIDE DEF U
  <2> QED  BY <1>1, <2>2, <2>3, <2>4, CountsTo
<1>12. Only(s, S) = f[n]
  <2> HIDE DEF kept, n
  <2> QED  BY <1>9, <1>11
<1> HIDE DEF kept
<1> QED  BY <1>5, <1>6, <1>12 DEF Keeps

\* There is one way to filter.
LEMMA OnlyIs ==
  ASSUME NEW V, NEW s \in Seq(V), NEW S, NEW h, Keeps(h, s, S)
  PROVE  Only(s, S) = h[Len(s)]
<1> DEFINE n == Len(s)
<1>1. n \in Nat
  BY LenProperties
<1>2. PICK f \in [0 .. Len(s) -> Seq(V)] : Keeps(f, s, S) /\ Only(s, S) = f[Len(s)]
  BY OnlyDef
<1> DEFINE U == {k \in 0 .. n : h[k] = f[k]}
<1>3. /\ f[0] = <<>> /\ h[0] = <<>>
      /\ \A k \in 1 .. n : /\ f[k] = IF s[k] \in S THEN Append(f[k - 1], s[k]) ELSE f[k - 1]
                           /\ h[k] = IF s[k] \in S THEN Append(h[k - 1], s[k]) ELSE h[k - 1]
  BY <1>2 DEF Keeps
<1> HIDE DEF n
<1>4. 0 \in 0 .. n /\ n \in 0 .. n
      /\ \A k \in 0 .. n - 1 : k + 1 \in 0 .. n /\ k + 1 \in 1 .. n /\ (k + 1) - 1 = k
  BY <1>1
<1>5. 0 \in U /\ \A k \in 0 .. n - 1 : k \in U => k + 1 \in U
  BY <1>3, <1>4
<1>6. n \in U
  <2> HIDE DEF U
  <2> QED  BY <1>1, <1>4, <1>5, CountsTo
<1> QED  BY <1>2, <1>6 DEF n

LEMMA OnlyType ==
  ASSUME NEW V, NEW s \in Seq(V), NEW S
  PROVE  Only(s, S) \in Seq(V)
<1>1. PICK f \in [0 .. Len(s) -> Seq(V)] : Only(s, S) = f[Len(s)]
  BY OnlyDef
<1>2. Len(s) \in 0 .. Len(s)
  BY LenProperties
<1> QED  BY <1>1, <1>2

LEMMA OnlyEmpty ==
  ASSUME NEW S
  PROVE  Only(<<>>, S) = <<>>
<1> DEFINE h == [k \in {0} |-> <<>>]
<1>1. <<>> \in Seq({}) /\ Len(<<>>) = 0
  OBVIOUS
<1>2. Keeps(h, <<>>, S)
  BY <1>1 DEF Keeps
<1>3. h[0] = <<>>
  OBVIOUS
<1> HIDE DEF h
<1>4. Only(<<>>, S) = h[Len(<<>>)]
  BY <1>1, <1>2, OnlyIs
<1> QED  BY <1>1, <1>3, <1>4

\* One element more is kept or not.
LEMMA OnlyAppend ==
  ASSUME NEW V, NEW s \in Seq(V), NEW x \in V, NEW S
  PROVE  Only(Append(s, x), S) = IF x \in S THEN Append(Only(s, S), x) ELSE Only(s, S)
<1> DEFINE n == Len(s)
           t == Append(s, x)
<1>1. n \in Nat /\ t \in Seq(V) /\ Len(t) = n + 1 /\ t[n + 1] = x /\ \A k \in 1 .. n : t[k] = s[k]
  BY LenProperties, AppendProperties
<1>2. PICK f \in [0 .. Len(s) -> Seq(V)] : Keeps(f, s, S) /\ Only(s, S) = f[Len(s)]
  BY OnlyDef
<1> DEFINE new == IF x \in S THEN Append(f[n], x) ELSE f[n]
           h == [k \in 0 .. n + 1 |-> IF k = n + 1 THEN new ELSE f[k]]
<1>3. /\ f[0] = <<>> /\ Only(s, S) = f[n]
      /\ \A k \in 1 .. n : f[k] = IF s[k] \in S THEN Append(f[k - 1], s[k]) ELSE f[k - 1]
  BY <1>2 DEF Keeps
<1> HIDE DEF n, t, new
<1>4. h[n + 1] = new /\ \A k \in 0 .. n : h[k] = f[k]
  BY <1>1
<1>5. Keeps(h, t, S)
  <2>1. h[0] = <<>>
    BY <1>1, <1>3, <1>4
  <2>2. \A k \in 1 .. n + 1 : h[k] = IF t[k] \in S THEN Append(h[k - 1], t[k]) ELSE h[k - 1]
    <3> HIDE DEF h
    <3> SUFFICES ASSUME NEW k \in 1 .. n + 1
                 PROVE  h[k] = IF t[k] \in S THEN Append(h[k - 1], t[k]) ELSE h[k - 1]
      OBVIOUS
    <3>1. CASE k = n + 1
      <4>1. k - 1 = n /\ h[k - 1] = f[n]
        BY <3>1, <1>1, <1>4
      <4> QED  BY <3>1, <4>1, <1>1, <1>4 DEF new
    <3>2. CASE k # n + 1
      <4>1. k \in 1 .. n /\ k \in 0 .. n /\ k - 1 \in 0 .. n
        BY <3>2, <1>1
      <4> QED  BY <4>1, <1>1, <1>3, <1>4
    <3> QED  BY <3>1, <3>2
  <2> HIDE DEF h
  <2> QED  BY <2>1, <2>2, <1>1 DEF Keeps
<1> HIDE DEF h
<1>6. Only(t, S) = h[n + 1]
  BY <1>1, <1>5, OnlyIs
<1> QED  BY <1>3, <1>4, <1>6 DEF t, new

\* Nothing is kept if nothing is to be.
LEMMA OnlyNone ==
  ASSUME NEW V, NEW s \in Seq(V), NEW S, \A k \in 1 .. Len(s) : s[k] \notin S
  PROVE  Only(s, S) = <<>>
<1> DEFINE h == [k \in 0 .. Len(s) |-> <<>>]
<1>1. Len(s) \in Nat /\ \A k \in 1 .. Len(s) : k \in 0 .. Len(s) /\ k - 1 \in 0 .. Len(s)
  BY LenProperties
<1>2. \A k \in 0 .. Len(s) : h[k] = <<>>
  OBVIOUS
<1> HIDE DEF h
<1>3. 0 \in 0 .. Len(s) /\ Len(s) \in 0 .. Len(s)
  BY <1>1
<1>4. Keeps(h, s, S)
  BY <1>1, <1>2, <1>3 DEF Keeps
<1>5. Only(s, S) = h[Len(s)]
  BY <1>4, OnlyIs
<1> QED  BY <1>2, <1>3, <1>5

\* All is kept if all is to be.
LEMMA OnlyAll ==
  ASSUME NEW V, NEW s \in Seq(V), NEW S, \A k \in 1 .. Len(s) : s[k] \in S
  PROVE  Only(s, S) = s
<1> DEFINE T == {t \in Seq(V) : (\A k \in 1 .. Len(t) : t[k] \in S) => Only(t, S) = t}
<1>1. <<>> \in T
  BY OnlyEmpty
<1>2. ASSUME NEW t \in Seq(V), NEW x \in V, t \in T PROVE Append(t, x) \in T
  <2>1. /\ Append(t, x) \in Seq(V) /\ Len(Append(t, x)) = Len(t) + 1 /\ Len(t) \in Nat
        /\ Append(t, x)[Len(t) + 1] = x /\ \A k \in 1 .. Len(t) : Append(t, x)[k] = t[k]
    BY AppendProperties, LenProperties
  <2>2. Only(Append(t, x), S) = IF x \in S THEN Append(Only(t, S), x) ELSE Only(t, S)
    BY OnlyAppend
  <2>3. ASSUME \A k \in 1 .. Len(Append(t, x)) : Append(t, x)[k] \in S
        PROVE  x \in S /\ \A k \in 1 .. Len(t) : t[k] \in S
    <3>1. Len(t) + 1 \in 1 .. Len(t) + 1 /\ \A k \in 1 .. Len(t) : k \in 1 .. Len(t) + 1
      BY <2>1
    <3> QED  BY <2>1, <2>3, <3>1
  <2> QED  BY <2>1, <2>2, <2>3, <1>2
<1>3. s \in T
  <2> HIDE DEF T
  <2> QED  BY <1>1, <1>2, Appended
<1> QED  BY <1>3

\* The first one kept is the first there is to keep.
FirstKept(s, S) ==
  \/ Only(s, S) = <<>> /\ \A k \in 1 .. Len(s) : s[k] \notin S
  \/ /\ Only(s, S) # <<>>
     /\ \E k \in 1 .. Len(s) : s[k] \in S /\ Only(s, S)[1] = s[k] /\ \A j \in 1 .. k - 1 : s[j] \notin S

LEMMA OnlyFirst ==
  ASSUME NEW V, NEW s \in Seq(V), NEW S
  PROVE  FirstKept(s, S)
<1> DEFINE T == {t \in Seq(V) : FirstKept(t, S)}
<1>1. <<>> \in T
  BY OnlyEmpty DEF FirstKept
<1>2. ASSUME NEW t \in Seq(V), NEW x \in V, t \in T PROVE Append(t, x) \in T
  <2> DEFINE u == Append(t, x)
  <2>1. /\ u \in Seq(V) /\ Len(u) = Len(t) + 1 /\ Len(t) \in Nat
        /\ u[Len(t) + 1] = x /\ \A k \in 1 .. Len(t) : u[k] = t[k]
    BY AppendProperties, LenProperties
  <2>2. Only(u, S) = IF x \in S THEN Append(Only(t, S), x) ELSE Only(t, S)
    BY OnlyAppend
  <2>3. Only(t, S) \in Seq(V) /\ FirstKept(t, S)
    BY OnlyType, <1>2
  <2> HIDE DEF u
  <2>4. CASE Only(t, S) = <<>> /\ \A k \in 1 .. Len(t) : t[k] \notin S
    <3>1. CASE x \in S
      <4>1. Only(u, S) = Append(<<>>, x)
        BY <2>2, <2>4, <3>1
      <4>2. Append(<<>>, x) # <<>> /\ Append(<<>>, x)[1] = x
        OBVIOUS
      <4>3. Len(t) + 1 \in 1 .. Len(u) /\ \A j \in 1 .. (Len(t) + 1) - 1 : j \in 1 .. Len(t)
        BY <2>1
      <4>4. \A j \in 1 .. (Len(t) + 1) - 1 : u[j] \notin S
        BY <2>1, <2>4, <4>3
      <4>5. u[Len(t) + 1] \in S /\ Only(u, S)[1] = u[Len(t) + 1] /\ Only(u, S) # <<>>
        BY <2>1, <3>1, <4>1, <4>2
      <4>6. FirstKept(u, S)
        BY <4>3, <4>4, <4>5 DEF FirstKept
      <4> QED  BY <2>1, <4>6 DEF u
    <3>2. CASE x \notin S
      <4>1. \A k \in 1 .. Len(u) : u[k] \notin S
        <5>1. \A k \in 1 .. Len(t) + 1 : k = Len(t) + 1 \/ k \in 1 .. Len(t)
          BY <2>1
        <5> QED  BY <2>1, <2>4, <3>2, <5>1
      <4>2. FirstKept(u, S)
        BY <2>2, <2>4, <3>2, <4>1 DEF FirstKept
      <4> QED  BY <2>1, <4>2 DEF u
    <3> QED  BY <3>1, <3>2
  <2>5. CASE ~(Only(t, S) = <<>> /\ \A k \in 1 .. Len(t) : t[k] \notin S)
    <3>1. /\ Only(t, S) # <<>>
          /\ \E k \in 1 .. Len(t) : /\ t[k] \in S /\ Only(t, S)[1] = t[k]
                                    /\ \A j \in 1 .. k - 1 : t[j] \notin S
      BY <2>3, <2>5 DEF FirstKept
    <3>2. PICK k \in 1 .. Len(t) : t[k] \in S /\ Only(t, S)[1] = t[k] /\ \A j \in 1 .. k - 1 : t[j] \notin S
      BY <3>1
    <3>3. Only(u, S) # <<>> /\ Only(u, S)[1] = Only(t, S)[1]
      <4>1. Len(Only(t, S)) \in Nat /\ Len(Only(t, S)) # 0
        BY <2>3, <3>1, EmptySeq, LenProperties
      <4>2. 1 \in 1 .. Len(Only(t, S))
        BY <4>1
      <4>3. /\ Append(Only(t, S), x)[1] = Only(t, S)[1]
            /\ Append(Only(t, S), x) # <<>>
        <5>1. /\ Append(Only(t, S), x)[1] = Only(t, S)[1]
              /\ Append(Only(t, S), x) \in Seq(V)
              /\ Len(Append(Only(t, S), x)) = Len(Only(t, S)) + 1
          BY <2>3, <4>2, AppendProperties
        <5> QED  BY <5>1, <4>1, EmptySeq
      <4> QED  BY <4>3, <2>2, <3>1
    <3>4. k \in 1 .. Len(u) /\ \A j \in 1 .. k - 1 : j \in 1 .. Len(t)
      BY <2>1
    <3>5. u[k] \in S /\ Only(u, S)[1] = u[k] /\ \A j \in 1 .. k - 1 : u[j] \notin S
      BY <2>1, <3>2, <3>3, <3>4
    <3>6. FirstKept(u, S)
      BY <3>3, <3>4, <3>5 DEF FirstKept
    <3> QED  BY <2>1, <3>6 DEF u
  <2> QED  BY <2>4, <2>5
<1>3. s \in T
  <2> HIDE DEF T
  <2> QED  BY <1>1, <1>2, Appended
<1> QED  BY <1>3

\* The first elements of a sequence and the next one.
LEMMA OneMore ==
  ASSUME NEW V, NEW n \in Nat, NEW e \in [1 .. n -> V], NEW m \in 0 .. n - 1
  PROVE  Append([q \in 1 .. m |-> e[q]], e[m + 1]) = [q \in 1 .. m + 1 |-> e[q]]
<1> DEFINE s == [q \in 1 .. m |-> e[q]]
           t == [q \in 1 .. m + 1 |-> e[q]]
<1>1. m \in Nat /\ m + 1 \in 1 .. n /\ \A q \in 1 .. m : q \in 1 .. n
  OBVIOUS
<1>2. s \in Seq(V) /\ Len(s) = m /\ \A q \in 1 .. m : s[q] = e[q]
  BY <1>1, SeqDef, LenProperties
<1>3. \A q \in 1 .. m + 1 : q \in 1 .. n
  BY <1>1
<1>4. t \in Seq(V) /\ Len(t) = m + 1 /\ \A q \in 1 .. m + 1 : t[q] = e[q]
  BY <1>1, <1>3, SeqDef, LenProperties
<1> HIDE DEF s, t
<1>5. /\ Append(s, e[m + 1]) \in Seq(V) /\ Len(Append(s, e[m + 1])) = m + 1
      /\ Append(s, e[m + 1])[m + 1] = e[m + 1]
      /\ \A q \in 1 .. m : Append(s, e[m + 1])[q] = s[q]
  BY <1>1, <1>2, AppendProperties
<1>6. \A q \in 1 .. m + 1 : q = m + 1 \/ q \in 1 .. m
  BY <1>1
<1>7. \A q \in 1 .. m + 1 : Append(s, e[m + 1])[q] = t[q]
  BY <1>2, <1>4, <1>5, <1>6
<1>8. Append(s, e[m + 1]) = t
  BY <1>4, <1>5, <1>7, SeqEqual
<1> QED  BY <1>8 DEF s, t

\* s without its p-th element.
Left(s, p) == [q \in 1 .. Len(s) - 1 |-> IF q < p THEN s[q] ELSE s[q + 1]]

\* All but one is kept.
LEMMA OnlyWithout ==
  ASSUME NEW V, NEW s \in Seq(V), NEW S, NEW p \in 1 .. Len(s), s[p] \notin S,
         \A k \in 1 .. Len(s) : k # p => s[k] \in S
  PROVE  Only(s, S) = Left(s, p)
<1> DEFINE n == Len(s)
           e == Left(s, p)
           W(m) == [q \in 1 .. m |-> e[q]]
           h == [i \in 0 .. n |-> IF i < p THEN W(i) ELSE W(i - 1)]
<1>1. n \in Nat /\ n >= 1 /\ n - 1 \in Nat /\ \A k \in 1 .. n : s[k] \in V
  BY LenProperties, ElementOfSeq
<1>2. /\ e \in [1 .. n - 1 -> V]
      /\ \A q \in 1 .. n - 1 : e[q] = IF q < p THEN s[q] ELSE s[q + 1]
  <2>1. \A q \in 1 .. n - 1 : q \in 1 .. n /\ q + 1 \in 1 .. n
    BY <1>1
  <2> HIDE DEF n
  <2>2. \A q \in 1 .. n - 1 : (IF q < p THEN s[q] ELSE s[q + 1]) \in V
    BY <1>1, <2>1
  <2> QED  BY <2>2 DEF Left, n
<1> HIDE DEF n, e
<1>3. p \in 1 .. n
  BY DEF n
<1>4. ASSUME NEW m \in 0 .. n - 2
      PROVE  Append(W(m), e[m + 1]) = W(m + 1)
  <2>1. m \in 0 .. (n - 1) - 1
    BY <1>1
  <2> QED  BY <2>1, <1>1, <1>2, OneMore
<1>5. W(0) = <<>>
  OBVIOUS
<1>6. W(n - 1) = e
  BY <1>1, <1>2
<1> HIDE DEF W
<1>7. \A i \in 0 .. n : h[i] = IF i < p THEN W(i) ELSE W(i - 1)
  OBVIOUS
<1> HIDE DEF h
<1>8. h[0] = <<>>
  BY <1>1, <1>3, <1>5, <1>7
<1>9. ASSUME NEW k \in 1 .. n
      PROVE  h[k] = IF s[k] \in S THEN Append(h[k - 1], s[k]) ELSE h[k - 1]
  <2>1. k \in 0 .. n /\ k - 1 \in 0 .. n
    BY <1>1
  <2>2. CASE k < p
    <3>1. k - 1 < p /\ k # p /\ k - 1 \in 0 .. n - 2 /\ (k - 1) + 1 = k /\ k \in 1 .. n - 1
      BY <2>2, <1>1, <1>3
    <3>2. h[k - 1] = W(k - 1) /\ h[k] = W(k) /\ s[k] \in S /\ e[k] = s[k]
      BY <3>1, <2>1, <2>2, <1>2, <1>7 DEF n
    <3>3. Append(W(k - 1), e[(k - 1) + 1]) = W((k - 1) + 1)
      BY <3>1, <1>4
    <3> QED  BY <3>1, <3>2, <3>3
  <2>3. CASE k = p
    <3>1. k - 1 < p /\ ~ k < p
      BY <2>3, <1>1, <1>3
    <3> QED  BY <3>1, <2>1, <2>3, <1>7
  <2>4. CASE k > p
    <3>1. /\ ~ k - 1 < p /\ ~ k < p /\ k # p /\ k - 2 \in 0 .. n - 2 /\ (k - 2) + 1 = k - 1
          /\ (k - 1) - 1 = k - 2 /\ k - 1 \in 1 .. n - 1 /\ (k - 1) + 1 = k
      BY <2>4, <1>1, <1>3
    <3>2. h[k - 1] = W(k - 2) /\ h[k] = W(k - 1) /\ s[k] \in S /\ e[k - 1] = s[k]
      BY <3>1, <2>1, <1>2, <1>7 DEF n
    <3>3. Append(W(k - 2), e[(k - 2) + 1]) = W((k - 2) + 1)
      BY <3>1, <1>4
    <3> QED  BY <3>1, <3>2, <3>3
  <2> QED  BY <2>2, <2>3, <2>4, <1>1, <1>3
<1>10. Only(s, S) = h[n]
  <2>1. Keeps(h, s, S)
    BY <1>8, <1>9 DEF Keeps, n
  <2> QED  BY <2>1, OnlyIs DEF n
<1>11. h[n] = W(n - 1)
  <2>1. n \in 0 .. n /\ ~ n < p
    BY <1>1, <1>3
  <2> QED  BY <2>1, <1>7
<1> QED  BY <1>6, <1>10, <1>11 DEF e

-----------------------------------------------------------------------------
(* Taking a node out of a list.                                            *)

\* How the links of the array change when the p-th member of a list goes.
Skipped(m, nds, n, T, V, owner, first, p) ==
  LET L == ListOf(nds, owner, first) IN
  /\ m \in [0 .. n - 1 -> NodeOf(T, V)] /\ \A i \in 0 .. n - 1 : AsMade(m[i], nds[i])
  /\ \A i \in 0 .. n - 1 :
       m[i].next_sibling = IF p # 1 /\ i = L[p - 1] THEN nds[L[p]].next_sibling ELSE nds[i].next_sibling
  /\ \A i \in 0 .. n - 1 : \A f \in Firsts :
       m[i][f] = IF p = 1 /\ i = owner /\ f = first THEN nds[L[p]].next_sibling ELSE nds[i][f]

LEMMA UnlinkedSkips ==
  ASSUME NEW T, NEW V, NEW n, nodes \in [0 .. n - 1 -> NodeOf(T, V)], LinksListed(nodes, n),
         NEW owner \in 0 .. n - 1, NEW first \in Firsts,
         NEW p \in 1 .. Len(ListOf(nodes, owner, first))
  PROVE  Skipped(Unlinked(owner, first, ListOf(nodes, owner, first)[p]), nodes, n, T, V, owner, first, p)
<1> DEFINE L == ListOf(nodes, owner, first)
           k == L[p]
           m == Unlinked(owner, first, k)
           place == {q \in DOMAIN L : L[q] = k}
<1>1. /\ L \in Seq(2 .. n - 1) /\ Len(L) \in Nat /\ n \in Nat
      /\ DOMAIN L = 1 .. Len(L) /\ \A i \in 1 .. Len(L) : L[i] \in 2 .. n - 1
  <2>1. L \in Seq(2 .. n - 1) /\ Len(L) \in Nat
    BY ListType
  <2> HIDE DEF L
  <2> QED  BY <2>1, MembersOf DEF LinksListed
<1>2. \A i, j \in 1 .. Len(L) : L[i] = L[j] => i = j
  BY DEF LinksListed
<1>3. m = IF place = {} THEN nodes
          ELSE IF 1 \in place THEN [nodes EXCEPT ![owner][first] = nodes[k].next_sibling]
          ELSE LET q == CHOOSE q \in place : TRUE
               IN  [nodes EXCEPT ![L[q - 1]].next_sibling = nodes[k].next_sibling]
  BY DEF Unlinked, ListOf
<1>4. p \in 1 .. Len(L)
  OBVIOUS
<1> HIDE DEF L, m
<1>5. place = {p}
  BY <1>1, <1>2, <1>4
<1> HIDE DEF place
<1>6. k \in 2 .. n - 1 /\ k \in 0 .. n - 1
  BY <1>1, <1>4
<1>7. nodes[k].next_sibling \in Nat /\ nodes[owner] \in NodeOf(T, V)
  BY <1>6 DEF NodeOf
<1>8. CASE p = 1
  <2> DEFINE node == [nodes[owner] EXCEPT ![first] = nodes[k].next_sibling]
  <2>1. m = [nodes EXCEPT ![owner] = node]
    BY <1>3, <1>5, <1>8
  <2> HIDE DEF k
  <2>2. /\ node \in NodeOf(T, V) /\ AsMade(node, nodes[owner])
        /\ node.next_sibling = nodes[owner].next_sibling
        /\ \A f \in Firsts : node[f] = IF f = first THEN nodes[k].next_sibling ELSE nodes[owner][f]
    BY <1>7 DEF NodeOf, AsMade, Firsts
  <2> HIDE DEF node
  <2>3. /\ m \in [0 .. n - 1 -> NodeOf(T, V)]
        /\ \A i \in 0 .. n - 1 : m[i] = IF i = owner THEN node ELSE nodes[i]
    BY <2>1, <2>2
  <2>4. \A i \in 0 .. n - 1 : AsMade(m[i], nodes[i]) /\ m[i].next_sibling = nodes[i].next_sibling
    BY <2>2, <2>3 DEF AsMade
  <2>5. \A i \in 0 .. n - 1 : \A f \in Firsts :
          m[i][f] = IF i = owner /\ f = first THEN nodes[k].next_sibling ELSE nodes[i][f]
    BY <2>2, <2>3
  <2> QED  BY <2>3, <2>4, <2>5, <1>8 DEF Skipped, L, m, k
<1>9. CASE p # 1
  <2> DEFINE b == L[p - 1]
             node == [nodes[b] EXCEPT !.next_sibling = nodes[k].next_sibling]
  <2>1. p - 1 \in 1 .. Len(L)
    BY <1>1, <1>4, <1>9
  <2>2. b \in 0 .. n - 1 /\ nodes[b] \in NodeOf(T, V)
    BY <1>1, <2>1
  <2>3. (CHOOSE q \in place : TRUE) = p /\ 1 \notin place /\ place # {}
    BY <1>5, <1>9
  <2>4. m = [nodes EXCEPT ![b] = node]
    BY <1>3, <2>3
  <2> HIDE DEF k, b
  <2>5. /\ node \in NodeOf(T, V) /\ AsMade(node, nodes[b])
        /\ node.next_sibling = nodes[k].next_sibling
        /\ \A f \in Firsts : node[f] = nodes[b][f]
    BY <1>7, <2>2 DEF NodeOf, AsMade, Firsts
  <2> HIDE DEF node
  <2>6. /\ m \in [0 .. n - 1 -> NodeOf(T, V)]
        /\ \A i \in 0 .. n - 1 : m[i] = IF i = b THEN node ELSE nodes[i]
    BY <2>2, <2>4, <2>5
  <2>7. \A i \in 0 .. n - 1 :
          /\ AsMade(m[i], nodes[i])
          /\ m[i].next_sibling = IF i = b THEN nodes[k].next_sibling ELSE nodes[i].next_sibling
    BY <2>5, <2>6 DEF AsMade
  <2>8. \A i \in 0 .. n - 1 : \A f \in Firsts : m[i][f] = nodes[i][f]
    BY <2>5, <2>6
  <2> QED  BY <2>6, <2>7, <2>8, <1>9 DEF Skipped, L, m, k, b
<1> QED  BY <1>8, <1>9

\* The list without that member is what is linked then.
LEMMA LeftIsChain ==
  ASSUME NEW nds, NEW m, NEW first, NEW s, IsChain(nds, first, s), DOMAIN m = DOMAIN nds,
         NEW p \in 1 .. Len(s), \A i, j \in 1 .. Len(s) : s[i] = s[j] => i = j,
         \A i \in 1 .. Len(s) :
           m[s[i]].next_sibling = IF p # 1 /\ i = p - 1 THEN nds[s[p]].next_sibling
                                  ELSE nds[s[i]].next_sibling
  PROVE  IsChain(m, IF p = 1 THEN nds[s[p]].next_sibling ELSE first, Left(s, p))
<1> DEFINE n == Len(s)
           t == Left(s, p)
<1>1. s \in Seq(DOMAIN nds \ {Null}) /\ n \in Nat /\ n >= 1
  BY LenProperties DEF IsChain
<1>2. \A k \in 1 .. n : s[k] \in DOMAIN nds \ {Null}
  BY <1>1, ElementOfSeq
<1>3. /\ t \in Seq(DOMAIN m \ {Null}) /\ Len(t) = n - 1
      /\ \A q \in 1 .. n - 1 : t[q] = IF q < p THEN s[q] ELSE s[q + 1]
  <2>1. \A q \in 1 .. n - 1 : q \in 1 .. n /\ q + 1 \in 1 .. n
    BY <1>1
  <2> HIDE DEF n
  <2>2. \A q \in 1 .. n - 1 : (IF q < p THEN s[q] ELSE s[q + 1]) \in DOMAIN m \ {Null}
    BY <1>2, <2>1
  <2>3. t = [q \in 1 .. n - 1 |-> IF q < p THEN s[q] ELSE s[q + 1]] /\ n - 1 \in Nat
    BY <1>1 DEF Left, n
  <2> QED  BY <2>2, <2>3, SeqDef, LenProperties
<1>4. /\ first = s[1] /\ nds[s[n]].next_sibling = Null
      /\ \A k \in 1 .. n - 1 : nds[s[k]].next_sibling = s[k + 1]
  <2>1. s # <<>>
    BY <1>1, EmptySeq
  <2> QED  BY <2>1 DEF IsChain
<1>5. \A i \in 1 .. n : m[s[i]].next_sibling = IF p # 1 /\ i = p - 1 THEN nds[s[p]].next_sibling
                                               ELSE nds[s[i]].next_sibling
  OBVIOUS
<1>6. p \in 1 .. n
  OBVIOUS
<1> HIDE DEF n, t
<1>7. t = <<>> <=> n = 1
  BY <1>1, <1>3, EmptySeq
<1>8. CASE n = 1
  <2>1. p = 1 /\ nds[s[p]].next_sibling = Null
    BY <1>4, <1>6, <1>8
  <2>2. \A k \in 1 .. Len(t) - 1 : FALSE
    BY <1>3, <1>8
  <2> QED  BY <2>1, <2>2, <1>3, <1>7, <1>8 DEF IsChain, t
<1>9. CASE n # 1
  <2>1. n >= 2 /\ 1 \in 1 .. n - 1 /\ n - 1 \in 1 .. n - 1 /\ n \in 1 .. n
    BY <1>1, <1>9
  <2>2. (IF p = 1 THEN nds[s[p]].next_sibling ELSE first) = t[1]
    BY <2>1, <1>3, <1>4, <1>6
  <2>3. m[t[n - 1]].next_sibling = Null
    <3>1. CASE p = n
      <4>1. n - 1 < p /\ n - 1 = p - 1 /\ p # 1 /\ n - 1 \in 1 .. n
        BY <3>1, <2>1
      <4>2. t[n - 1] = s[n - 1] /\ m[s[n - 1]].next_sibling = nds[s[p]].next_sibling
        BY <4>1, <2>1, <1>3, <1>5
      <4> QED  BY <3>1, <4>2, <1>4
    <3>2. CASE p # n
      <4>1. ~ n - 1 < p /\ (n - 1) + 1 = n /\ n # p - 1
        BY <3>2, <2>1, <1>1, <1>6
      <4>2. t[n - 1] = s[n] /\ m[s[n]].next_sibling = nds[s[n]].next_sibling
        BY <4>1, <2>1, <1>3, <1>5
      <4> QED  BY <4>2, <1>4
    <3> QED  BY <3>1, <3>2
  <2>4. ASSUME NEW q \in 1 .. (n - 1) - 1
        PROVE  m[t[q]].next_sibling = t[q + 1]
    <3>1. /\ q \in 1 .. n - 1 /\ q + 1 \in 1 .. n - 1 /\ q \in 1 .. n /\ q + 1 \in 1 .. n
          /\ (q + 1) + 1 \in 1 .. n
      BY <1>1
    <3>2. CASE q + 1 < p
      <4>1. q < p /\ q # p - 1
        BY <3>1, <3>2, <1>6
      <4> QED  BY <4>1, <3>1, <3>2, <1>3, <1>4, <1>5
    <3>3. CASE q + 1 = p
      <4>1. q < p /\ q = p - 1 /\ p # 1 /\ ~ q + 1 < p
        BY <3>1, <3>3, <1>6
      <4>2. t[q] = s[q] /\ t[q + 1] = s[p + 1]
        BY <4>1, <3>1, <3>3, <1>3
      <4>3. m[s[q]].next_sibling = nds[s[p]].next_sibling
        BY <4>1, <3>1, <1>5
      <4>4. p \in 1 .. n - 1
        BY <3>1, <3>3
      <4> QED  BY <4>2, <4>3, <4>4, <1>4
    <3>4. CASE q + 1 > p
      <4>1. ~ q < p /\ ~ q + 1 < p /\ q + 1 # p - 1
        BY <3>1, <3>4, <1>6
      <4>2. t[q] = s[q + 1] /\ t[q + 1] = s[(q + 1) + 1]
        BY <4>1, <3>1, <1>3
      <4>3. m[s[q + 1]].next_sibling = nds[s[q + 1]].next_sibling
        BY <4>1, <3>1, <1>5
      <4> QED  BY <4>2, <4>3, <3>1, <1>4
    <3> QED  BY <3>1, <3>2, <3>3, <3>4, <1>6
  <2> QED  BY <2>2, <2>3, <2>4, <1>3, <1>7, <1>9 DEF IsChain, t
<1> QED  BY <1>8, <1>9

\* An array with the same nodes but for their links, and with the lists N.
Relisted(m, nds, n, T, V, N) ==
  /\ m \in [0 .. n - 1 -> NodeOf(T, V)] /\ LinksListed(m, n)
  /\ \A i \in 0 .. n - 1 : AsMade(m[i], nds[i])
  /\ \A q \in 0 .. n - 1 : \A f \in Firsts : ListOf(m, q, f) = N[<<q, f>>]

\* The lists of an array without the p-th member of one of them.
ListsWithout(nds, n, owner, first, p) ==
  [x \in (0 .. n - 1) \X Firsts |->
     IF x[1] = owner /\ x[2] = first THEN Left(ListOf(nds, x[1], x[2]), p)
                                     ELSE ListOf(nds, x[1], x[2])]

LEMMA SkippedLists ==
  ASSUME NEW T, NEW V, NEW n, NEW nds \in [0 .. n - 1 -> NodeOf(T, V)], LinksListed(nds, n),
         NEW owner \in 0 .. n - 1, NEW first \in Firsts,
         NEW p \in 1 .. Len(ListOf(nds, owner, first)),
         NEW m, Skipped(m, nds, n, T, V, owner, first, p)
  PROVE  Relisted(m, nds, n, T, V, ListsWithout(nds, n, owner, first, p))
<1> DEFINE Old(q, f) == ListOf(nds, q, f)
           L == Old(owner, first)
           N == ListsWithout(nds, n, owner, first, p)
           New(q, f) == N[<<q, f>>]
<1>1. n \in Nat /\ n >= 2 /\ DOMAIN nds = 0 .. n - 1 /\ n # 0
  BY DEF LinksListed
<1>2. ASSUME NEW q \in 0 .. n - 1, NEW f \in Firsts
      PROVE  /\ Old(q, f) \in Seq(2 .. n - 1) /\ Len(Old(q, f)) \in Nat
             /\ IsChain(nds, nds[q][f], Old(q, f))
             /\ \A i \in 1 .. Len(Old(q, f)) : Old(q, f)[i] > q /\ Old(q, f)[i] \in 2 .. n - 1
  BY ListType DEF LinksListed
<1>3. \A q, r \in 0 .. n - 1 : \A f, g \in Firsts :
        \A i \in 1 .. Len(Old(q, f)) : \A j \in 1 .. Len(Old(r, g)) :
          Old(q, f)[i] = Old(r, g)[j] => q = r /\ f = g /\ i = j
  BY DEF LinksListed
<1>4. ASSUME NEW q \in 0 .. n - 1, NEW f \in Firsts
      PROVE  New(q, f) = IF q = owner /\ f = first THEN Left(Old(q, f), p) ELSE Old(q, f)
  <2>1. <<q, f>> \in (0 .. n - 1) \X Firsts
    OBVIOUS
  <2> QED  BY <2>1 DEF ListsWithout
<1>5. /\ m \in [0 .. n - 1 -> NodeOf(T, V)] /\ \A i \in 0 .. n - 1 : AsMade(m[i], nds[i])
      /\ \A i \in 0 .. n - 1 :
           m[i].next_sibling = IF p # 1 /\ i = L[p - 1] THEN nds[L[p]].next_sibling ELSE nds[i].next_sibling
      /\ \A i \in 0 .. n - 1 : \A f \in Firsts :
           m[i][f] = IF p = 1 /\ i = owner /\ f = first THEN nds[L[p]].next_sibling ELSE nds[i][f]
  BY DEF Skipped
<1>6. p \in 1 .. Len(L)
  OBVIOUS
<1> HIDE DEF Old, N
<1>7. Len(L) \in Nat /\ (p # 1 => p - 1 \in 1 .. Len(L)) /\ p \in Nat
      /\ \A i \in 1 .. Len(L) : L[i] \in 2 .. n - 1 /\ L[i] \in 0 .. n - 1
  <2>1. Len(L) \in Nat /\ \A i \in 1 .. Len(L) : L[i] \in 2 .. n - 1
    BY <1>2
  <2> HIDE DEF L
  <2>2. \A i \in 2 .. n - 1 : i \in 0 .. n - 1
    BY <1>1
  <2>3. p \in Nat /\ (p # 1 => p - 1 \in 1 .. Len(L))
    BY <1>6, <2>1
  <2> QED  BY <2>1, <2>2, <2>3
<1> HIDE DEF L
<1>8. DOMAIN m = 0 .. n - 1
  BY <1>5
<1>9. Forward(m, n)
  <2>1. ASSUME NEW i \in 0 .. n - 1
        PROVE  m[i].next_sibling = Null \/ m[i].next_sibling \in i + 1 .. n - 1
    <3>1. nds[i].next_sibling = Null \/ nds[i].next_sibling \in i + 1 .. n - 1
      BY DEF LinksListed, Forward
    <3>2. CASE p # 1 /\ i = L[p - 1]
      <4>1. p - 1 \in 1 .. Len(L) - 1 /\ (p - 1) + 1 = p
        BY <3>2, <1>6, <1>7
      <4>2. nds[L[p - 1]].next_sibling = L[p]
        BY <4>1, <1>2 DEF IsChain, L
      <4>3. L[p] \in i + 1 .. n - 1 /\ L[p] \in 0 .. n - 1
        BY <3>1, <3>2, <4>2, <1>6, <1>7 DEF Null
      <4>4. nds[L[p]].next_sibling = Null \/ nds[L[p]].next_sibling \in L[p] + 1 .. n - 1
        BY <4>3 DEF LinksListed, Forward
      <4>5. nds[L[p]].next_sibling = Null \/ nds[L[p]].next_sibling \in i + 1 .. n - 1
        BY <4>3, <4>4, <1>1
      <4> QED  BY <4>5, <3>2, <1>5
    <3>3. CASE ~(p # 1 /\ i = L[p - 1])
      BY <3>1, <3>3, <1>5
    <3> QED  BY <3>2, <3>3
  <2> QED  BY <2>1, <1>8 DEF Forward
<1>10. ASSUME NEW q \in 0 .. n - 1, NEW f \in Firsts
       PROVE  IsChain(m, m[q][f], New(q, f))
  <2> DEFINE s == Old(q, f)
  <2>1. IsChain(nds, nds[q][f], s) /\ \A i \in 1 .. Len(s) : s[i] \in 0 .. n - 1
    <3>1. IsChain(nds, nds[q][f], s) /\ \A i \in 1 .. Len(s) : s[i] \in 2 .. n - 1
      BY <1>2
    <3>2. \A i \in 2 .. n - 1 : i \in 0 .. n - 1
      BY <1>1
    <3> QED  BY <3>1, <3>2
  <2>2. CASE q = owner /\ f = first
    <3>1. s = L
      BY <2>2 DEF L
    <3>2. \A i, j \in 1 .. Len(L) : L[i] = L[j] => i = j
      BY <1>3 DEF L
    <3>3. \A i \in 1 .. Len(L) :
            m[L[i]].next_sibling = IF p # 1 /\ i = p - 1 THEN nds[L[p]].next_sibling
                                   ELSE nds[L[i]].next_sibling
      <4> SUFFICES ASSUME NEW i \in 1 .. Len(L)
                   PROVE m[L[i]].next_sibling = IF p # 1 /\ i = p - 1 THEN nds[L[p]].next_sibling
                                                ELSE nds[L[i]].next_sibling
        OBVIOUS
      <4>1. (p # 1 /\ L[i] = L[p - 1]) <=> (p # 1 /\ i = p - 1)
        BY <1>7, <3>2
      <4>2. L[i] \in 0 .. n - 1
        BY <1>7
      <4> QED  BY <4>1, <4>2, <1>5
    <3>4. IsChain(nds, nds[q][f], L)
      BY <2>1, <3>1
    <3>5. IsChain(m, IF p = 1 THEN nds[L[p]].next_sibling ELSE nds[q][f], Left(L, p))
      BY <3>2, <3>3, <3>4, <1>1, <1>6, <1>8, LeftIsChain
    <3>6. m[q][f] = IF p = 1 THEN nds[L[p]].next_sibling ELSE nds[q][f]
      BY <2>2, <1>5
    <3>7. New(q, f) = Left(L, p)
      BY <2>2, <1>4 DEF L
    <3> QED  BY <3>5, <3>6, <3>7
  <2>3. CASE ~(q = owner /\ f = first)
    <3>1. \A k \in 1 .. Len(s) : m[s[k]].next_sibling = nds[s[k]].next_sibling
      <4> SUFFICES ASSUME NEW k \in 1 .. Len(s) PROVE m[s[k]].next_sibling = nds[s[k]].next_sibling
        OBVIOUS
      <4>1. p # 1 => s[k] # L[p - 1]
        <5>1. ASSUME p # 1, s[k] = L[p - 1] PROVE FALSE
          <6>1. \E b \in 1 .. Len(Old(owner, first)) : Old(q, f)[k] = Old(owner, first)[b]
            BY <5>1, <1>7 DEF L
          <6>2. k \in 1 .. Len(Old(q, f))
            OBVIOUS
          <6> QED  BY <6>1, <6>2, <2>3, <1>3, SMTT(30)
        <5> QED  BY <5>1
      <4>2. s[k] \in 0 .. n - 1
        BY <2>1
      <4> HIDE DEF s
      <4> QED  BY <4>1, <4>2, <1>5
    <3> HIDE DEF s
    <3>2. IsChain(m, nds[q][f], s)
      BY <2>1, <3>1, <1>1, <1>8, ChainKept
    <3>3. m[q][f] = nds[q][f]
      BY <2>3, <1>5
    <3>4. New(q, f) = s
      BY <2>3, <1>4 DEF s
    <3> QED  BY <3>2, <3>3, <3>4
  <2> QED  BY <2>2, <2>3
<1>11. \A q \in 0 .. n - 1 : \A f \in Firsts : ListOf(m, q, f) = New(q, f)
  <2> SUFFICES ASSUME NEW q \in 0 .. n - 1, NEW f \in Firsts
               PROVE  ListOf(m, q, f) = New(q, f)
    OBVIOUS
  <2>1. IsChain(m, m[q][f], New(q, f))
    BY <1>10
  <2> HIDE DEF New
  <2> QED  BY <2>1, <1>1, <1>9, ChainIs DEF ListOf
\* What is in a new list was in the old one.
<1>12. ASSUME NEW q \in 0 .. n - 1, NEW f \in Firsts, NEW i \in 1 .. Len(New(q, f))
       PROVE  \E j \in 1 .. Len(Old(q, f)) :
                /\ New(q, f)[i] = Old(q, f)[j]
                /\ j = IF q = owner /\ f = first /\ i >= p THEN i + 1 ELSE i
  <2>1. CASE q = owner /\ f = first
    <3>1. New(q, f) = Left(L, p) /\ Old(q, f) = L
      BY <2>1, <1>4 DEF L
    <3>2. Len(Left(L, p)) = Len(L) - 1
          /\ \A j \in 1 .. Len(L) - 1 : Left(L, p)[j] = IF j < p THEN L[j] ELSE L[j + 1]
      <4>1. Len(L) - 1 \in Nat
        BY <1>6, <1>7
      <4> QED  BY <4>1 DEF Left
    <3>3. i \in 1 .. Len(L) - 1 /\ i \in 1 .. Len(L) /\ i + 1 \in 1 .. Len(L) /\ (i < p <=> ~ i >= p)
      BY <3>1, <3>2, <1>6, <1>7, <1>12
    <3> QED  BY <2>1, <3>1, <3>2, <3>3
  <2>2. CASE ~(q = owner /\ f = first)
    BY <2>2, <1>4, <1>12
  <2> QED  BY <2>1, <2>2
<1> HIDE DEF New
<1>13. \A q \in 0 .. n - 1 : \A f \in Firsts : \A i \in 1 .. Len(New(q, f)) :
         New(q, f)[i] > q /\ New(q, f)[i] \in 2 .. n - 1
  BY <1>2, <1>12
<1>14. \A q, r \in 0 .. n - 1 : \A f, g \in Firsts :
         \A i \in 1 .. Len(New(q, f)) : \A j \in 1 .. Len(New(r, g)) :
           New(q, f)[i] = New(r, g)[j] => q = r /\ f = g /\ i = j
  <2> SUFFICES ASSUME NEW q \in 0 .. n - 1, NEW r \in 0 .. n - 1, NEW f \in Firsts, NEW g \in Firsts,
                      NEW i \in 1 .. Len(New(q, f)), NEW j \in 1 .. Len(New(r, g)),
                      New(q, f)[i] = New(r, g)[j]
               PROVE  q = r /\ f = g /\ i = j
    OBVIOUS
  <2>1. PICK a \in 1 .. Len(Old(q, f)) :
          /\ New(q, f)[i] = Old(q, f)[a]
          /\ a = IF q = owner /\ f = first /\ i >= p THEN i + 1 ELSE i
    BY <1>12
  <2>2. PICK b \in 1 .. Len(Old(r, g)) :
          /\ New(r, g)[j] = Old(r, g)[b]
          /\ b = IF r = owner /\ g = first /\ j >= p THEN j + 1 ELSE j
    BY <1>12
  <2>3. q = r /\ f = g /\ a = b
    <3>1. Old(q, f)[a] = Old(r, g)[b]
      BY <2>1, <2>2
    <3> QED  BY <3>1, <1>3, SMTT(30)
  <2>4. i = j
    BY <2>1, <2>2, <2>3, <1>7
  <2> QED  BY <2>3, <2>4
<1>15. LinksListed(m, n)
  <2>1. \A q \in 0 .. n - 1 : \A f \in Firsts : IsChain(m, m[q][f], ListOf(m, q, f))
    BY <1>10, <1>11
  <2>2. \A q \in 0 .. n - 1 : \A f \in Firsts : \A i \in 1 .. Len(ListOf(m, q, f)) :
          ListOf(m, q, f)[i] > q /\ ListOf(m, q, f)[i] \in 2 .. n - 1
    BY <1>11, <1>13
  <2>3. \A q, r \in 0 .. n - 1 : \A f, g \in Firsts :
          \A i \in 1 .. Len(ListOf(m, q, f)) : \A j \in 1 .. Len(ListOf(m, r, g)) :
            ListOf(m, q, f)[i] = ListOf(m, r, g)[j] => q = r /\ f = g /\ i = j
    <3> SUFFICES ASSUME NEW q \in 0 .. n - 1, NEW r \in 0 .. n - 1, NEW f \in Firsts, NEW g \in Firsts
                 PROVE  \A i \in 1 .. Len(ListOf(m, q, f)) : \A j \in 1 .. Len(ListOf(m, r, g)) :
                          ListOf(m, q, f)[i] = ListOf(m, r, g)[j] => q = r /\ f = g /\ i = j
      OBVIOUS
    <3>1. ListOf(m, q, f) = New(q, f) /\ ListOf(m, r, g) = New(r, g)
      BY <1>11
    <3> QED  BY <3>1, <1>14
  <2>4. n \in Nat \ {0, 1}
    BY <1>1
  <2> HIDE DEF ListOf
  <2> QED  BY <2>1, <2>2, <2>3, <2>4, <1>9 DEF LinksListed
<1> QED  BY <1>5, <1>11, <1>15 DEF Relisted, New, N

\* An array with the same links has the same lists.
SameLinks(m, nds, n) ==
  /\ DOMAIN nds = 0 .. n - 1 /\ DOMAIN m = 0 .. n - 1
  /\ \A i \in 0 .. n - 1 : \A f \in Links : m[i][f] = nds[i][f]

LEMMA SameLists ==
  ASSUME NEW n, NEW nds, NEW m, LinksListed(nds, n), SameLinks(m, nds, n)
  PROVE  LinksListed(m, n) /\ \A q \in 0 .. n - 1 : \A f \in Firsts : ListOf(m, q, f) = ListOf(nds, q, f)
<1> DEFINE Old(q, f) == ListOf(nds, q, f)
<1>1. n \in Nat /\ n >= 2 /\ DOMAIN nds = 0 .. n - 1 /\ n # 0 /\ DOMAIN m = 0 .. n - 1
      /\ n \in Nat \ {0, 1}
  BY DEF LinksListed, SameLinks
<1>2. \A i \in 0 .. n - 1 : /\ m[i].next_sibling = nds[i].next_sibling
                            /\ \A f \in Firsts : m[i][f] = nds[i][f]
  BY DEF Firsts, Links, SameLinks
<1>3. Forward(m, n)
  BY <1>1, <1>2 DEF LinksListed, Forward
<1>4. ASSUME NEW q \in 0 .. n - 1, NEW f \in Firsts
      PROVE  IsChain(m, m[q][f], Old(q, f))
  <2>1. IsChain(nds, nds[q][f], Old(q, f)) /\ \A i \in 1 .. Len(Old(q, f)) : Old(q, f)[i] \in 0 .. n - 1
    BY <1>1 DEF LinksListed
  <2> HIDE DEF Old
  <2>2. \A k \in 1 .. Len(Old(q, f)) : m[Old(q, f)[k]].next_sibling = nds[Old(q, f)[k]].next_sibling
    BY <2>1, <1>2
  <2>3. IsChain(m, nds[q][f], Old(q, f))
    BY <2>1, <2>2, <1>1, ChainKept
  <2> QED  BY <2>3, <1>2
<1>5. \A q \in 0 .. n - 1 : \A f \in Firsts : ListOf(m, q, f) = Old(q, f)
  <2> SUFFICES ASSUME NEW q \in 0 .. n - 1, NEW f \in Firsts
               PROVE  ListOf(m, q, f) = Old(q, f)
    OBVIOUS
  <2>1. IsChain(m, m[q][f], Old(q, f))
    BY <1>4
  <2> HIDE DEF Old
  <2> QED  BY <2>1, <1>1, <1>3, ChainIs DEF ListOf
<1>6. \A q \in 0 .. n - 1 : \A f \in Firsts : IsChain(m, m[q][f], ListOf(m, q, f))
  BY <1>4, <1>5
<1>7. /\ \A q \in 0 .. n - 1 : \A f \in Firsts : \A i \in 1 .. Len(ListOf(m, q, f)) :
           ListOf(m, q, f)[i] > q /\ ListOf(m, q, f)[i] \in 2 .. n - 1
      /\ \A q, r \in 0 .. n - 1 : \A f, g \in Firsts :
           \A i \in 1 .. Len(ListOf(m, q, f)) : \A j \in 1 .. Len(ListOf(m, r, g)) :
             ListOf(m, q, f)[i] = ListOf(m, r, g)[j] => q = r /\ f = g /\ i = j
  <2>1. /\ \A q \in 0 .. n - 1 : \A f \in Firsts : \A i \in 1 .. Len(Old(q, f)) :
             Old(q, f)[i] > q /\ Old(q, f)[i] \in 2 .. n - 1
        /\ \A q, r \in 0 .. n - 1 : \A f, g \in Firsts :
             \A i \in 1 .. Len(Old(q, f)) : \A j \in 1 .. Len(Old(r, g)) :
               Old(q, f)[i] = Old(r, g)[j] => q = r /\ f = g /\ i = j
    BY DEF LinksListed
  <2> HIDE DEF Old
  <2> QED  BY <2>1, <1>5
<1> HIDE DEF Old
<1>8. LinksListed(m, n)
  <2> HIDE DEF ListOf
  <2> QED  BY <1>1, <1>3, <1>6, <1>7 DEF LinksListed
<1> QED  BY <1>5, <1>8 DEF Old

\* What Unlinked makes of the lists.
LEMMA UnlinkedLists ==
  ASSUME NEW T, NEW V, NEW n, nodes \in [0 .. n - 1 -> NodeOf(T, V)], LinksListed(nodes, n),
         NEW owner \in 0 .. n - 1, NEW first \in Firsts, NEW k,
         NEW m, m = Unlinked(owner, first, k)
  PROVE  /\ m \in [0 .. n - 1 -> NodeOf(T, V)] /\ LinksListed(m, n)
         /\ \A i \in 0 .. n - 1 : AsMade(m[i], nodes[i])
         /\ \A q \in 0 .. n - 1 : \A f \in Firsts :
              ListOf(m, q, f) = IF q = owner /\ f = first THEN Without(ListOf(nodes, q, f), k)
                                ELSE ListOf(nodes, q, f)
<1> DEFINE L == ListOf(nodes, owner, first)
<1>1. L \in Seq(2 .. n - 1) /\ Len(L) \in Nat /\ DOMAIN nodes = 0 .. n - 1 /\ n \in Nat
  BY ListType DEF LinksListed
<1>2. DOMAIN L = 1 .. Len(L) /\ \A i \in 1 .. Len(L) : L[i] \in 0 .. n - 1
  <2> HIDE DEF L
  <2>1. DOMAIN L = 1 .. Len(L) /\ \A i \in 1 .. Len(L) : L[i] \in 2 .. n - 1
    BY <1>1, MembersOf
  <2> QED  BY <2>1, <1>1
<1>3. CASE \A p \in 1 .. Len(L) : L[p] # k
  <2>1. m = nodes
    <3>1. {p \in DOMAIN L : L[p] = k} = {}
      <4> HIDE DEF L
      <4> QED  BY <1>2, <1>3
    <3> QED  BY <3>1 DEF Unlinked, ListOf
  <2>2. Without(L, k) = L
    <3> HIDE DEF L
    <3>1. \A p \in 1 .. Len(L) : L[p] \in DOMAIN nodes \ {k}
      BY <1>1, <1>2, <1>3
    <3> QED  BY <3>1, <1>1, OnlyAll DEF Without
  <2>3. \A i \in 0 .. n - 1 : AsMade(nodes[i], nodes[i])
    BY DEF AsMade
  <2> QED  BY <2>1, <2>2, <2>3
<1>4. CASE \E p \in 1 .. Len(L) : L[p] = k
  <2>1. PICK p \in 1 .. Len(L) : L[p] = k
    BY <1>4
  <2>2. Skipped(m, nodes, n, T, V, owner, first, p)
    BY <2>1, UnlinkedSkips
  <2>3. Relisted(m, nodes, n, T, V, ListsWithout(nodes, n, owner, first, p))
    BY <2>2, SkippedLists
  <2>4. Without(L, k) = Left(L, p)
    <3>1. \A i, j \in 1 .. Len(L) : L[i] = L[j] => i = j
      BY DEF LinksListed
    <3> HIDE DEF L
    <3>2. L[p] \notin DOMAIN nodes \ {k}
      BY <2>1
    <3>3. \A i \in 1 .. Len(L) : i # p => L[i] \in DOMAIN nodes \ {k}
      BY <1>1, <1>2, <2>1, <3>1
    <3> QED  BY <3>2, <3>3, <1>1, OnlyWithout DEF Without
  <2>5. \A q \in 0 .. n - 1 : \A f \in Firsts :
          ListsWithout(nodes, n, owner, first, p)[<<q, f>>]
            = IF q = owner /\ f = first THEN Left(ListOf(nodes, q, f), p) ELSE ListOf(nodes, q, f)
    <3> SUFFICES ASSUME NEW q \in 0 .. n - 1, NEW f \in Firsts
                 PROVE  ListsWithout(nodes, n, owner, first, p)[<<q, f>>]
                          = IF q = owner /\ f = first THEN Left(ListOf(nodes, q, f), p)
                            ELSE ListOf(nodes, q, f)
      OBVIOUS
    <3>1. <<q, f>> \in (0 .. n - 1) \X Firsts
      OBVIOUS
    <3> QED  BY <3>1 DEF ListsWithout
  <2> QED  BY <2>3, <2>4, <2>5 DEF Relisted, L
<1> QED  BY <1>3, <1>4

-----------------------------------------------------------------------------
(* The inductive invariant.                                                *)

Types   == {"null", "document", "element", "attribute", "text", "comment"}
Span    == [at : Nat, len : Nat]
Content == [name : Span, value : Span]

Typed ==
  /\ script \in Scripts /\ done \in 0 .. Len(script) /\ phase \in {"building", "built"}
  /\ nodes \in [0 .. Size - 1 -> NodeOf(Types, Content)] /\ LinksListed(nodes, Size)
  /\ values \in Seq(STRING) /\ names \in Seq(Seq(STRING)) /\ name_offsets \in Seq(Nat)
  /\ removals \in Nat

\* Nodes come in the order of the calls that made them.
MadeInOrder ==
  /\ nodes[Document].at = 0 /\ nodes[Document].type = "document" /\ nodes[Null].type = "null"
  /\ \A i \in {Null, Document} : nodes[i].val.name.len = 0
  /\ \A i \in 2 .. Size - 1 : nodes[i].at \in 1 .. done /\ nodes[i].type \notin {"null", "document"}
  /\ \A i, j \in 1 .. Size - 1 : i < j => nodes[i].at < nodes[j].at

\* Call s opened an element, at depth d, that none of the calls up to n has closed.
OpenSince(calls, n, s, d) ==
  /\ s \in 1 .. n /\ calls[s].op = "start" /\ OpenAfter(calls, s) = d
  /\ \A k \in s .. n : OpenAfter(calls, k) >= d

\* On the stack are the document and the open elements, each with its last child.
StackIsOpen ==
  phase = "building" =>
    /\ stack \in Seq([node : Nat, last : Nat]) /\ Len(stack) = OpenAfter(script, done) + 1
    /\ stack[1].node = Document
    /\ \A j \in 1 .. Len(stack) :
         stack[j].node \in Owners /\ stack[j].last = ListEnd(Kids(nodes, stack[j].node))
    /\ \A i, j \in 1 .. Len(stack) : i < j => stack[i].node < stack[j].node
    /\ \A j \in 2 .. Len(stack) : OpenSince(script, done, nodes[stack[j].node].at, j - 1)

\* t lies in s, behind the first `at` elements.
InPlace(s, at, t) ==
  at \in Nat /\ at + Len(t) <= Len(s) /\ \A j \in 1 .. Len(t) : s[at + j] = t[j]

CallOf(i)   == script[nodes[i].at]
HasName(i) == nodes[i].val.name.len > 0

\* A node has lengths of its name and text, and the place of its text.
TextsPlaced ==
  \A i \in 2 .. Size - 1 :
    /\ nodes[i].val.name.len = Len(CallOf(i).name)
    /\ nodes[i].val.value.len = Clamped(Len(CallOf(i).text))
    /\ InPlace(values, nodes[i].val.value.at, CallOf(i).text)

OffsetsPlace ==
  phase = "building" =>
    /\ Len(name_offsets) = Len(names)
    /\ \A k \in 1 .. Len(names) : InPlace(FlattenSeq(names), name_offsets[k], names[k])

\* The k-th node with a name has the k-th name.
NamesCounted ==
  phase = "building" /\ AllNamed =>
    /\ NameIndex(Size - 1) = Len(names)
    /\ \A i \in 2 .. Size - 1 : HasName(i) =>
         NameIndex(i) \in 1 .. Len(names) /\ names[NameIndex(i)] = CallOf(i).name

\* In a built document each name has its place.
NamesPlaced ==
  phase = "built" /\ AllNamed =>
    \A i \in 2 .. Size - 1 : HasName(i) => InPlace(values, nodes[i].val.name.at, CallOf(i).name)

IInv ==
  /\ Typed /\ MadeInOrder /\ StackIsOpen /\ TreeIsAsCalled
  /\ TextsPlaced /\ OffsetsPlace /\ NamesCounted /\ NamesPlaced


-----------------------------------------------------------------------------
(* The calls.                                                              *)

Counted(open, op) ==
  CASE op = "start" -> open + 1
    [] op = "end" /\ open > 0 -> open - 1
    [] OTHER -> open

\* How many elements a call opens or closes.
LEMMA OpenStep ==
  ASSUME NEW d, Len(d) \in Nat
  PROVE  /\ OpenAfter(d, 0) = 0
         /\ \A n \in 0 .. Len(d) : OpenAfter(d, n) \in Nat
         /\ \A n \in 1 .. Len(d) : OpenAfter(d, n) = Counted(OpenAfter(d, n - 1), d[n].op)
<1> DEFINE L == Len(d)
           Is(f) == f = [k \in 0 .. Len(d) |->
              IF k = 0 THEN 0
              ELSE CASE d[k].op = "start" -> f[k - 1] + 1
                     [] d[k].op = "end" /\ f[k - 1] > 0 -> f[k - 1] - 1
                     [] OTHER -> f[k - 1]]
           open == CHOOSE f : Is(f)
           g == [x \in (1 .. L) \X Nat |-> Counted(x[2], d[x[1]].op)]
<1>1. \A k \in 1 .. L : \A a \in Nat : g[<<k, a>>] = Counted(a, d[k].op)
  OBVIOUS
<1>2. g \in [(1 .. L) \X Nat -> Nat]
  <2>1. \A a \in Nat : \A op : Counted(a, op) \in Nat
    BY DEF Counted
  <2> QED  BY <2>1
<1> HIDE DEF g
<1>3. PICK f \in [0 .. L -> Nat] : GoesBy(f, L, 0, g)
  BY <1>2, StepByStep
<1>4. f[0] = 0 /\ \A k \in 1 .. L : f[k] = Counted(f[k - 1], d[k].op)
  <2>1. \A k \in 1 .. L : k - 1 \in 0 .. L
    OBVIOUS
  <2> QED  BY <1>1, <1>3, <2>1 DEF GoesBy
<1>5. Is(f)
  <2>1. \A k \in 0 .. L : k # 0 => k \in 1 .. L
    OBVIOUS
  <2>2. ASSUME NEW k \in 0 .. L
        PROVE  f[k] = IF k = 0 THEN 0
                      ELSE CASE d[k].op = "start" -> f[k - 1] + 1
                             [] d[k].op = "end" /\ f[k - 1] > 0 -> f[k - 1] - 1
                             [] OTHER -> f[k - 1]
    BY <1>4, <2>1 DEF Counted
  <2> QED  BY <2>2
<1>6. Is(open)
  BY <1>5
<1>7. \A n \in 0 .. L : OpenAfter(d, n) = open[n]
  BY DEF OpenAfter
<1> HIDE DEF open
<1>8. open[0] = 0 /\ \A k \in 1 .. L : open[k] = Counted(open[k - 1], d[k].op)
  <2>1. 0 \in 0 .. L /\ \A k \in 1 .. L : k \in 0 .. L /\ k # 0
    OBVIOUS
  <2>2. ASSUME NEW k \in 0 .. L
        PROVE  open[k] = IF k = 0 THEN 0
                         ELSE CASE d[k].op = "start" -> open[k - 1] + 1
                                [] d[k].op = "end" /\ open[k - 1] > 0 -> open[k - 1] - 1
                                [] OTHER -> open[k - 1]
    BY <1>6
  <2> QED  BY <2>1, <2>2 DEF Counted
<1>9. \A k \in 0 .. L : open[k] \in Nat
  <2> DEFINE S == {k \in 0 .. L : open[k] \in Nat}
  <2>1. 0 \in S
    BY <1>8
  <2>2. ASSUME NEW k \in 0 .. L - 1, k \in S PROVE k + 1 \in S
    <3>1. k + 1 \in 1 .. L /\ k + 1 \in 0 .. L /\ (k + 1) - 1 = k
      OBVIOUS
    <3>2. open[k + 1] = Counted(open[k], d[k + 1].op)
      BY <1>8, <3>1
    <3>3. open[k + 1] \in Nat
      BY <2>2, <3>2 DEF Counted
    <3> QED  BY <3>1, <3>3
  <2>3. \A k \in 0 .. L : k \in S
    <3> HIDE DEF S
    <3> QED  BY <2>1, <2>2, CountsTo
  <2> QED  BY <2>3
<1>10. 0 \in 0 .. L /\ \A n \in 1 .. L : n \in 0 .. L /\ n - 1 \in 0 .. L
  OBVIOUS
<1> QED  BY <1>7, <1>8, <1>9, <1>10

LEMMA ScriptType ==
  ASSUME Typed
  PROVE  /\ IsScript(script) /\ Len(script) \in Nat /\ DOMAIN script = 1 .. Len(script)
         /\ done \in 0 .. Len(script) /\ done \in Nat
         /\ \A k \in 1 .. Len(script) : /\ script[k] \in Call
                                        /\ script[k].op \in {"end", "text", "comment"} => script[k].name = <<>>
                                        /\ script[k].op \in {"start", "end", "add"} => script[k].text = <<>>
<1>1. IsScript(script)
  BY BuilderAssumption DEF Typed
<1>2. script \in Seq(Call) /\ Len(script) \in Nat
  BY <1>1, LenProperties DEF IsScript
<1>3. DOMAIN script = 1 .. Len(script) /\ \A k \in 1 .. Len(script) : script[k] \in Call
  BY <1>2, MembersOf
<1> QED  BY <1>1, <1>2, <1>3 DEF IsScript, Typed

\* The largest of some numbers.
LEMMA MaxOf ==
  ASSUME NEW n \in Nat, NEW S, S \subseteq 0 .. n, S # {}
  PROVE  Max(S) \in S /\ \A y \in S : y <= Max(S)
<1> DEFINE T == {n - x : x \in S}
<1>0. \A x \in S : x \in 0 .. n /\ n - x \in Nat
  <2>1. \A x \in 0 .. n : n - x \in Nat
    OBVIOUS
  <2> QED  BY <2>1
<1>1. T \subseteq Nat /\ T # {}
  BY <1>0
<1> HIDE DEF T
<1>2. Min(T) \in T /\ \A y \in T : Min(T) <= y
  BY <1>1, MinExists
<1>3. PICK x \in S : Min(T) = n - x
  BY <1>2 DEF T
<1>4. \A y \in S : y <= x
  <2> SUFFICES ASSUME NEW y \in S PROVE y <= x
    OBVIOUS
  <2>1. n - y \in T
    BY DEF T
  <2>2. n - x <= n - y
    BY <1>2, <1>3, <2>1
  <2>3. x \in 0 .. n /\ y \in 0 .. n
    BY <1>0
  <2> QED  BY <2>2, <2>3
<1> QED  BY <1>4 DEF Max

\* A call is for an element opened before.
LEMMA OwnerBefore ==
  ASSUME NEW calls, NEW k \in Nat \ {0}
  PROVE  OwnerCall(calls, k) \in 0 .. k - 1
<1> DEFINE S == {0} \cup {s \in 1 .. k - 1 : /\ calls[s].op = "start" /\ OpenAfter(calls, k - 1) > 0
                                            /\ OpenAfter(calls, s) = OpenAfter(calls, k - 1)}
<1>1. k - 1 \in Nat /\ S \subseteq 0 .. k - 1 /\ S # {}
  OBVIOUS
<1>2. OwnerCall(calls, k) = Max(S)
  BY DEF OwnerCall
<1> HIDE DEF S
<1>3. Max(S) \in S
  BY <1>1, MaxOf
<1> QED  BY <1>1, <1>2, <1>3

\* The next call is for the element on top of the stack.
LEMMA OwnerIsTop ==
  ASSUME Typed, MadeInOrder, StackIsOpen, phase = "building", done < Len(script)
  PROVE  OwnerCall(script, done + 1) = nodes[Top.node].at
<1> DEFINE depth == OpenAfter(script, done)
           S == {0} \cup {s \in 1 .. done : /\ script[s].op = "start" /\ depth > 0
                                            /\ OpenAfter(script, s) = depth}
           at == nodes[Top.node].at
<1>1. Len(script) \in Nat /\ done \in Nat /\ done \in 0 .. Len(script) /\ (done + 1) - 1 = done
  BY ScriptType
<1>2. /\ \A n \in 0 .. Len(script) : OpenAfter(script, n) \in Nat
      /\ \A n \in 1 .. Len(script) : OpenAfter(script, n) = Counted(OpenAfter(script, n - 1), script[n].op)
  BY <1>1, OpenStep
<1>3. depth \in Nat /\ Len(stack) = depth + 1
  BY <1>1, <1>2 DEF StackIsOpen
<1>4. OwnerCall(script, done + 1) = Max(S) /\ S \subseteq 0 .. done /\ S # {}
  BY <1>1 DEF OwnerCall
<1> HIDE DEF S
<1>5. Max(S) \in S /\ \A y \in S : y <= Max(S)
  BY <1>1, <1>4, MaxOf
<1>6. CASE depth = 0
  <2>1. Top = stack[1] /\ stack[1].node = Document /\ nodes[Document].at = 0
    BY <1>3, <1>6 DEF Top, StackIsOpen, MadeInOrder
  <2>2. Max(S) = 0
    BY <1>5, <1>6 DEF S
  <2> QED  BY <1>4, <2>1, <2>2
<1>7. CASE depth # 0
  <2>1. Len(stack) \in 2 .. Len(stack) /\ Top = stack[Len(stack)] /\ Len(stack) - 1 = depth
    BY <1>3, <1>7 DEF Top
  <2>2. OpenSince(script, done, at, depth)
    BY <2>1 DEF StackIsOpen
  <2> HIDE DEF at, depth
  <2>3. at \in S
    BY <2>2, <1>3, <1>7 DEF OpenSince, S
  <2>4. ASSUME NEW s \in S PROVE s <= at
    <3>1. at \in 1 .. done
      BY <2>2 DEF OpenSince
    <3>2. CASE s = 0
      BY <3>1, <3>2
    <3>3. CASE s # 0
      <4>1. s \in 1 .. done /\ script[s].op = "start" /\ OpenAfter(script, s) = depth
        BY <2>4, <3>3 DEF S
      <4>2. CASE s > at
        <5>1. s - 1 \in at .. done /\ s \in 1 .. Len(script) /\ s - 1 \in 0 .. Len(script)
          BY <3>1, <4>1, <4>2, <1>1
        <5>2. OpenAfter(script, s - 1) >= depth /\ OpenAfter(script, s - 1) \in Nat
          BY <5>1, <2>2, <1>2 DEF OpenSince
        <5>3. OpenAfter(script, s) = OpenAfter(script, s - 1) + 1
          BY <5>1, <4>1, <1>2 DEF Counted
        <5> QED  BY <5>2, <5>3, <4>1, <1>3
      <4> QED  BY <4>1, <4>2, <3>1
    <3> QED  BY <3>2, <3>3
  <2>5. Max(S) \in Nat /\ at \in Nat
    <3>1. \A x \in 0 .. done : x \in Nat
      OBVIOUS
    <3> QED  BY <1>4, <1>5, <2>3, <3>1
  <2>6. Max(S) = at
    BY <1>5, <2>3, <2>4, <2>5
  <2> QED  BY <1>4, <2>6 DEF at
<1> QED  BY <1>6, <1>7

\* What one call more adds to the calls for an element.
LEMMA CallsMore ==
  ASSUME Typed, done < Len(script), NEW owner, NEW ops
  PROVE  Only([k \in 1 .. done + 1 |-> k], CallsOf(script, owner, ops))
           = IF Arg.op \in ops /\ OwnerCall(script, done + 1) = owner
             THEN Append(CallsFor(owner, ops), done + 1) ELSE CallsFor(owner, ops)
<1> DEFINE s == [k \in 1 .. done |-> k]
           t == [k \in 1 .. done + 1 |-> k]
<1>1. done \in Nat /\ done + 1 \in 1 .. Len(script) /\ done + 1 \in Nat
  BY ScriptType
<1>2. s \in Seq(Nat) /\ Len(s) = done
  BY <1>1
<1>3. t = Append(s, done + 1)
  <2> DEFINE e == [k \in 1 .. done + 1 |-> k]
  <2>1. e \in [1 .. done + 1 -> Nat] /\ done \in 0 .. (done + 1) - 1 /\ e[done + 1] = done + 1
    BY <1>1
  <2>2. Append([q \in 1 .. done |-> e[q]], e[done + 1]) = [q \in 1 .. done + 1 |-> e[q]]
    <3> HIDE DEF e
    <3> QED  BY <2>1, <1>1, OneMore
  <2>3. [q \in 1 .. done |-> e[q]] = s /\ [q \in 1 .. done + 1 |-> e[q]] = t
    BY <1>1
  <2> QED  BY <2>1, <2>2, <2>3
<1> HIDE DEF s, t
<1>4. Only(t, CallsOf(script, owner, ops))
        = IF done + 1 \in CallsOf(script, owner, ops)
          THEN Append(Only(s, CallsOf(script, owner, ops)), done + 1)
          ELSE Only(s, CallsOf(script, owner, ops))
  <2> DEFINE K == CallsOf(script, owner, ops)
             x == done + 1
  <2>1. s \in Seq(Nat) /\ x \in Nat
    BY <1>1, <1>2
  <2> HIDE DEF K, x
  <2>2. Only(Append(s, x), K) = IF x \in K THEN Append(Only(s, K), x) ELSE Only(s, K)
    BY <2>1, OnlyAppend
  <2> QED  BY <1>3, <2>2 DEF K, x
<1>5. done + 1 \in CallsOf(script, owner, ops)
        <=> Arg.op \in ops /\ OwnerCall(script, done + 1) = owner
  BY <1>1 DEF CallsOf, Arg
<1>6. CallsFor(owner, ops) = Only(s, CallsOf(script, owner, ops))
  BY DEF CallsFor, s
<1> QED  BY <1>4, <1>5, <1>6 DEF t

\* No call before the one that opens an element is for it.
LEMMA CallsNone ==
  ASSUME Typed, done < Len(script), NEW ops
  PROVE  Only([k \in 1 .. done + 1 |-> k], CallsOf(script, done + 1, ops)) = <<>>
<1> DEFINE t == [k \in 1 .. done + 1 |-> k]
<1>1. done \in Nat /\ done + 1 \in Nat
  BY ScriptType
<1>2. t \in Seq(Nat) /\ Len(t) = done + 1 /\ \A k \in 1 .. done + 1 : t[k] = k
  BY <1>1
<1>3. \A k \in 1 .. done + 1 : k \notin CallsOf(script, done + 1, ops)
  <2> SUFFICES ASSUME NEW k \in 1 .. done + 1 PROVE k \notin CallsOf(script, done + 1, ops)
    OBVIOUS
  <2>1. OwnerCall(script, k) \in 0 .. k - 1
    BY <1>1, OwnerBefore
  <2>2. OwnerCall(script, k) # done + 1
    BY <1>1, <2>1
  <2> QED  BY <2>2 DEF CallsOf
<1> HIDE DEF t
<1>4. \A k \in 1 .. Len(t) : t[k] \notin CallsOf(script, done + 1, ops)
  BY <1>2, <1>3
<1>5. Only(t, CallsOf(script, done + 1, ops)) = <<>>
  BY <1>2, <1>4, OnlyNone
<1> QED  BY <1>5 DEF t

-----------------------------------------------------------------------------
(* Making a node.                                                          *)

LEMMA SizeIs ==
  ASSUME NEW n \in Nat, NEW a, a = 0 .. n - 1
  PROVE  Cardinality(a) = n
<1>1. Cardinality(0 .. n - 1) = IF 0 > n - 1 THEN 0 ELSE (n - 1) - 0 + 1
  BY FS_Interval
<1> QED  BY <1>1

LEMMA BaseType ==
  ASSUME Typed
  PROVE  /\ Size \in Nat /\ Size >= 2 /\ DOMAIN nodes = 0 .. Size - 1
         /\ Document \in 1 .. Size - 1 /\ Document = 1
         /\ \A i \in 0 .. Size - 1 : /\ nodes[i] \in NodeOf(Types, Content) /\ nodes[i].at \in Nat
                                     /\ nodes[i].val.name.len \in Nat /\ nodes[i].val.name.at \in Nat
                                     /\ nodes[i].val.value.len \in Nat /\ nodes[i].val.value.at \in Nat
         /\ \A p \in 0 .. Size - 1 : /\ Kids(nodes, p) = ListOf(nodes, p, "first_child")
                                     /\ AttrsOn(nodes, p) = ListOf(nodes, p, "first_attr")
<1>1. Size \in Nat /\ Size >= 2
  BY DEF Typed, LinksListed
<1>2. DOMAIN nodes = 0 .. Size - 1 /\ \A i \in 0 .. Size - 1 : nodes[i] \in NodeOf(Types, Content)
  <2> HIDE DEF Size
  <2> QED  BY DEF Typed
<1>3. \A i \in 0 .. Size - 1 : /\ nodes[i].at \in Nat
                               /\ nodes[i].val.name.len \in Nat /\ nodes[i].val.name.at \in Nat
                               /\ nodes[i].val.value.len \in Nat /\ nodes[i].val.value.at \in Nat
  BY <1>2 DEF NodeOf, Content, Span
<1> QED  BY <1>1, <1>2, <1>3 DEF Kids, AttrsOn, ListOf, Document

\* The call that is made.
Calls ==
  /\ phase = "building" /\ done < Len(script)
  /\ done' = done + 1 /\ script' = script /\ phase' = phase /\ removals' = removals

LEMMA CallingCalls == ASSUME NEW op, Calling(op) PROVE Calls /\ Arg.op = op
BY DEF Calling, Calls

\* A node is made and linked to the innermost open element.
Makes(type, first) ==
  /\ Calls
  /\ nodes' = Chained(Grown(nodes, Size, Made(type)), Top.node, first,
                      ListEnd(ListOf(nodes, Top.node, first)), Size)

LEMMA ArgType ==
  ASSUME Typed, Calls
  PROVE  /\ Arg \in Call /\ Arg.name \in Seq(STRING) /\ Arg.text \in Seq(STRING)
         /\ Len(Arg.name) \in Nat /\ Len(Arg.text) \in Nat
         /\ Arg.op \in {"end", "text", "comment"} => Arg.name = <<>>
         /\ Arg.op \in {"start", "end", "add"} => Arg.text = <<>>
         /\ Arg = script[done + 1] /\ done + 1 \in 1 .. Len(script) /\ done \in Nat
<1>1. done \in Nat /\ Len(script) \in Nat /\ done + 1 \in 1 .. Len(script)
  BY ScriptType DEF Calls
<1>2. /\ Arg \in Call
      /\ Arg.op \in {"end", "text", "comment"} => Arg.name = <<>>
      /\ Arg.op \in {"start", "end", "add"} => Arg.text = <<>>
  BY <1>1, ScriptType DEF Arg
<1>3. Arg.name \in Seq(STRING) /\ Arg.text \in Seq(STRING)
  BY <1>2 DEF Call
<1> QED  BY <1>1, <1>2, <1>3, LenProperties DEF Arg

LEMMA ClampedType ==
  ASSUME NEW n \in Nat
  PROVE  Clamped(n) \in Nat /\ Clamped(n) <= n
BY BuilderAssumption DEF Clamped

LEMMA MadeType ==
  ASSUME Typed, Calls, NEW type \in Types
  PROVE  /\ Made(type) \in NodeOf(Types, Content)
         /\ Made(type).type = type /\ Made(type).at = done + 1
         /\ Made(type).val.name.len = Len(Arg.name)
         /\ Made(type).val.value.len = Clamped(Len(Arg.text))
         /\ Made(type).val.value.at = Len(values)
         /\ Made(type).next_sibling = Null /\ \A f \in Firsts : Made(type)[f] = Null
<1>1. done + 1 \in Nat /\ Len(Arg.name) \in Nat /\ Clamped(Len(Arg.text)) \in Nat /\ Len(values) \in Nat
  <2>1. done \in Nat /\ Len(Arg.name) \in Nat /\ Len(Arg.text) \in Nat
    BY ArgType
  <2>2. Clamped(Len(Arg.text)) \in Nat
    BY <2>1, ClampedType
  <2>3. Len(values) \in Nat
    BY LenProperties DEF Typed
  <2> QED  BY <2>1, <2>2, <2>3
<1> DEFINE val == [name  |-> [at |-> 0, len |-> Len(Arg.name)],
                   value |-> [at |-> Len(values), len |-> Clamped(Len(Arg.text))]]
<1>2. val \in Content /\ val.name.len = Len(Arg.name) /\ val.value.len = Clamped(Len(Arg.text))
      /\ val.value.at = Len(values)
  BY <1>1 DEF Content, Span
<1>3. Made(type) = NewNode(type, done + 1, val)
  BY DEF Made
<1> HIDE DEF val
<1> QED  BY <1>1, <1>2, <1>3 DEF NewNode, NodeOf, Firsts, Null

LEMMA TopType ==
  ASSUME Typed, StackIsOpen, phase = "building"
  PROVE  /\ Len(stack) \in Nat /\ Len(stack) >= 1 /\ Top = stack[Len(stack)]
         /\ \A j \in 1 .. Len(stack) : /\ stack[j] \in [node : Nat, last : Nat]
                                       /\ stack[j].node \in 1 .. Size - 1 /\ stack[j].node \in Owners
         /\ Top.node \in 1 .. Size - 1 /\ Top.node \in 0 .. Size - 1 /\ Top.node \in Owners
         /\ Top.last = ListEnd(Kids(nodes, Top.node))
         /\ Len(stack) > 1 => Top.node # Document
         /\ Len(stack) = 1 => Top.node = Document
         /\ OpenAfter(script, done) \in Nat /\ Len(stack) = OpenAfter(script, done) + 1
<1>1. OpenAfter(script, done) \in Nat /\ Len(stack) = OpenAfter(script, done) + 1
  <2>1. OpenAfter(script, done) \in Nat
    BY ScriptType, OpenStep
  <2> QED  BY <2>1 DEF StackIsOpen
<1>2. Len(stack) \in Nat /\ Len(stack) >= 1 /\ Len(stack) \in 1 .. Len(stack) /\ 1 \in 1 .. Len(stack)
  BY <1>1
<1>3. /\ stack \in Seq([node : Nat, last : Nat]) /\ stack[1].node = Document
      /\ \A j \in 1 .. Len(stack) :
           stack[j].node \in Owners /\ stack[j].last = ListEnd(Kids(nodes, stack[j].node))
      /\ \A i, j \in 1 .. Len(stack) : i < j => stack[i].node < stack[j].node
  BY DEF StackIsOpen
<1>4. \A j \in 1 .. Len(stack) : stack[j] \in [node : Nat, last : Nat] /\ stack[j].node \in Nat
  <2>1. \A j \in 1 .. Len(stack) : stack[j] \in [node : Nat, last : Nat]
    BY <1>3, MembersOf
  <2> QED  BY <2>1
<1>5. \A j \in 1 .. Len(stack) : stack[j].node \in 1 .. Size - 1
  <2> SUFFICES ASSUME NEW j \in 1 .. Len(stack) PROVE stack[j].node \in 1 .. Size - 1
    OBVIOUS
  <2>1. stack[j].node \in 0 .. Size - 1 /\ Document = 1
    BY <1>3, BaseType DEF Owners
  <2>2. j # 1 => stack[1].node < stack[j].node
    BY <1>2, <1>3
  <2>3. Size \in Nat
    BY BaseType
  <2> HIDE DEF Size
  <2> QED  BY <1>2, <1>3, <1>4, <2>1, <2>2, <2>3
<1>6. Top = stack[Len(stack)]
  BY DEF Top
<1>7. Top.node \in 1 .. Size - 1 /\ Top.node \in 0 .. Size - 1
  <2>1. Top.node \in 1 .. Size - 1 /\ Size \in Nat
    BY <1>2, <1>5, <1>6, BaseType
  <2> HIDE DEF Size, Top
  <2> QED  BY <2>1
<1>8. Len(stack) > 1 => Top.node # Document
  BY <1>2, <1>3, <1>4, <1>6
<1> QED  BY <1>1, <1>2, <1>3, <1>4, <1>5, <1>6, <1>7, <1>8

LEMMA LinkMakes ==
  ASSUME Typed, StackIsOpen, Calls, NEW type, LinkChild(type)
  PROVE  Makes(type, "first_child")
<1>1. Top.last = ListEnd(Kids(nodes, Top.node)) /\ Top.node \in 0 .. Size - 1
  BY TopType DEF Calls
<1>2. Kids(nodes, Top.node) = ListOf(nodes, Top.node, "first_child")
  BY <1>1, BaseType
<1>3. Top.last = ListEnd(ListOf(nodes, Top.node, "first_child"))
  BY <1>1, <1>2
<1> QED  BY <1>3 DEF LinkChild, Makes

LEMMA AttrMakes ==
  ASSUME Typed, StackIsOpen, Calls,
         nodes' = Chained(Grown(nodes, Size, Made("attribute")),
                          Top.node, "first_attr", LastAttr(Top.node), Size)
  PROVE  Makes("attribute", "first_attr")
<1> DEFINE s == ListOf(nodes, Top.node, "first_attr")
<1>1. Top.node \in 0 .. Size - 1 /\ "first_attr" \in Firsts /\ LinksListed(nodes, Size)
  BY TopType DEF Calls, Firsts, Typed
<1>2. IsChain(nodes, nodes[Top.node].first_attr, s) /\ AttrsOn(nodes, Top.node) = s
  <2>1. IsChain(nodes, nodes[Top.node]["first_attr"], s)
    <3> HIDE DEF Size, Top
    <3> QED  BY <1>1 DEF LinksListed
  <2> QED  BY <2>1, <1>1, BaseType
<1>3. LastAttr(Top.node) = ListEnd(s)
  <2> DEFINE owner == Top.node
  <2> HIDE DEF owner, s
  <2>1. CASE nodes[owner].first_attr = Null
    <3>1. s = <<>>
      <4> SUFFICES ASSUME s # <<>> PROVE FALSE
        OBVIOUS
      <4>1. s \in Seq(DOMAIN nodes \ {Null}) /\ nodes[owner].first_attr = s[1]
        BY <1>2 DEF IsChain, owner
      <4>2. 1 \in 1 .. Len(s)
        BY <4>1, EmptySeq, LenProperties
      <4> QED  BY <2>1, <4>1, <4>2, ElementOfSeq
    <3> QED  BY <2>1, <3>1 DEF LastAttr, ListEnd, owner
  <2>2. CASE nodes[owner].first_attr # Null
    <3>1. s # <<>>
      BY <2>2, <1>2 DEF IsChain, owner
    <3> QED  BY <2>2, <3>1, <1>2 DEF LastAttr, ListEnd, Last, owner
  <2> QED  BY <2>1, <2>2 DEF owner
<1> QED  BY <1>3 DEF Makes

\* The new node is at the end of its list.
LEMMA MadeListed ==
  ASSUME Typed, StackIsOpen, NEW type \in Types, NEW first \in Firsts, Makes(type, first)
  PROVE  /\ OneListed(nodes', nodes, Size, Types, Content, Made(type), Top.node, first)
         /\ Size' = Size + 1 /\ DOMAIN nodes' = 0 .. Size
<1>1. /\ nodes \in [0 .. Size - 1 -> NodeOf(Types, Content)] /\ LinksListed(nodes, Size)
      /\ Top.node \in 0 .. Size - 1 /\ Calls
  BY TopType DEF Typed, Makes, Calls
<1>2. /\ Made(type) \in NodeOf(Types, Content) /\ Made(type).next_sibling = Null
      /\ \A f \in Firsts : Made(type)[f] = Null
  BY <1>1, MadeType
<1>3. nodes' = Chained(Grown(nodes, Size, Made(type)), Top.node, first,
                       ListEnd(ListOf(nodes, Top.node, first)), Size)
  BY DEF Makes
<1>4. OneListed(nodes', nodes, Size, Types, Content, Made(type), Top.node, first)
  <2> DEFINE n == Size
             owner == Top.node
             new == Made(type)
             last == ListEnd(ListOf(nodes, owner, first))
             m == nodes'
  <2>1. /\ nodes \in [0 .. n - 1 -> NodeOf(Types, Content)] /\ LinksListed(nodes, n) /\ owner \in 0 .. n - 1
        /\ new \in NodeOf(Types, Content) /\ new.next_sibling = Null /\ \A f \in Firsts : new[f] = Null
        /\ m = Chained(Grown(nodes, n, new), owner, first, last, n)
        /\ last = ListEnd(ListOf(nodes, owner, first))
    BY <1>1, <1>2, <1>3
  <2> HIDE DEF n, owner, new, last, m
  <2>2. OneListed(m, nodes, n, Types, Content, new, owner, first)
    BY <2>1, ListedMore
  <2> QED  BY <2>2 DEF n, owner, new, m
<1>5. Size \in Nat
  BY BaseType
<1>6. DOMAIN nodes' = 0 .. Size
  <2> DEFINE n == Size
             m == nodes'
  <2>1. m \in [0 .. n -> NodeOf(Types, Content)]
    BY <1>4 DEF OneListed
  <2> HIDE DEF n, m
  <2>2. DOMAIN m = 0 .. n
    BY <2>1
  <2> QED  BY <2>2 DEF n, m
<1>7. Size' = Size + 1
  <2> DEFINE n == Size
  <2>1. n + 1 \in Nat /\ 0 .. n = 0 .. (n + 1) - 1
    <3> HIDE DEF n
    <3> QED  BY <1>5 DEF n
  <2>2. Size' = Cardinality(DOMAIN nodes')
    BY DEF Size
  <2> QED  BY <1>6, <2>1, <2>2, SizeIs
<1> QED  BY <1>4, <1>6, <1>7

\* What a call with a new node leaves of the nodes.
LEMMA MadeNodes ==
  ASSUME Typed, StackIsOpen, NEW type \in Types, NEW first \in Firsts, Makes(type, first)
  PROVE  /\ Size' = Size + 1 /\ Size' - 1 = Size /\ Size \in Nat /\ Size >= 2
         /\ nodes' \in [0 .. Size' - 1 -> NodeOf(Types, Content)] /\ LinksListed(nodes', Size')
         /\ AsMade(nodes'[Size], Made(type)) /\ \A i \in 0 .. Size - 1 : AsMade(nodes'[i], nodes[i])
         /\ \A f \in Firsts : ListOf(nodes', Size, f) = <<>>
         /\ \A p \in 0 .. Size - 1 : \A f \in Firsts :
              ListOf(nodes', p, f) = IF p = Top.node /\ f = first THEN Append(ListOf(nodes, p, f), Size)
                                     ELSE ListOf(nodes, p, f)
         /\ Owners' = Owners \cup (IF type \in {"document", "element"} THEN {Size} ELSE {})
<1>1. /\ OneListed(nodes', nodes, Size, Types, Content, Made(type), Top.node, first)
      /\ Size' = Size + 1 /\ DOMAIN nodes' = 0 .. Size
  BY MadeListed
<1>2. Size \in Nat /\ Size >= 2 /\ DOMAIN nodes = 0 .. Size - 1
  BY BaseType
<1>3. Size' - 1 = Size
  <2> HIDE DEF Size
  <2> QED  BY <1>1, <1>2
<1>4. Made(type).type = type
  BY MadeType DEF Makes
<1> DEFINE n == Size
           m == nodes'
           owner == Top.node
           new == Made(type)
<1>5. Owners' = {i \in DOMAIN m : m[i].type \in {"document", "element"}}
  BY DEF Owners
<1>6. OneListed(m, nodes, n, Types, Content, new, owner, first)
  BY <1>1
<1> HIDE DEF n, m, owner, new
<1>7. /\ m \in [0 .. n -> NodeOf(Types, Content)] /\ LinksListed(m, n + 1)
      /\ AsMade(m[n], new) /\ \A i \in 0 .. n - 1 : AsMade(m[i], nodes[i])
      /\ \A f \in Firsts : ListOf(m, n, f) = <<>>
      /\ \A p \in 0 .. n - 1 : \A f \in Firsts :
           ListOf(m, p, f) = IF p = owner /\ f = first THEN Append(ListOf(nodes, p, f), n)
                                                       ELSE ListOf(nodes, p, f)
  BY <1>6 DEF OneListed
<1>8. Owners' = Owners \cup (IF type \in {"document", "element"} THEN {n} ELSE {})
  <2>1. DOMAIN m = 0 .. n /\ DOMAIN nodes = 0 .. n - 1 /\ n \in Nat
    BY <1>1, <1>2 DEF n, m
  <2>2. m[n].type = type /\ \A i \in 0 .. n - 1 : m[i].type = nodes[i].type
    BY <1>4, <1>7 DEF AsMade, new
  <2>3. 0 .. n = (0 .. n - 1) \cup {n} /\ n \notin 0 .. n - 1
    BY <2>1
  <2>4. Owners = {i \in DOMAIN nodes : nodes[i].type \in {"document", "element"}}
    BY DEF Owners
  <2> QED  BY <1>5, <2>1, <2>2, <2>3, <2>4
<1> QED  BY <1>1, <1>2, <1>3, <1>7, <1>8 DEF n, m, owner, new

LEMMA MadeKeepsOrder ==
  ASSUME Typed, MadeInOrder, StackIsOpen, NEW type \in Types \ {"null", "document"},
         NEW first \in Firsts, Makes(type, first)
  PROVE  MadeInOrder'
<1> DEFINE n == Size
           m == nodes'
<1>1. /\ Size' - 1 = n /\ n \in Nat /\ n >= 2 /\ done' = done + 1 /\ done \in Nat
      /\ AsMade(m[n], Made(type)) /\ \A i \in 0 .. n - 1 : AsMade(m[i], nodes[i])
  BY MadeNodes, ScriptType DEF Makes, Calls
<1>2. m[n].at = done + 1 /\ m[n].type = type
  BY <1>1, MadeType DEF Makes, AsMade
<1>3. \A i \in 0 .. n - 1 : m[i].at = nodes[i].at /\ m[i].type = nodes[i].type /\ m[i].val = nodes[i].val
  BY <1>1 DEF AsMade
<1>4. /\ nodes[Document].at = 0 /\ nodes[Document].type = "document" /\ nodes[Null].type = "null"
      /\ \A i \in {Null, Document} : nodes[i].val.name.len = 0
      /\ \A i \in 2 .. n - 1 : nodes[i].at \in 1 .. done /\ nodes[i].type \notin {"null", "document"}
      /\ \A i, j \in 1 .. n - 1 : i < j => nodes[i].at < nodes[j].at
  BY DEF MadeInOrder
<1> HIDE DEF n, m
<1>5. Document \in 0 .. n - 1 /\ Null \in 0 .. n - 1 /\ Document = 1
  BY <1>1 DEF Document, Null
<1>6. \A i \in 2 .. n : m[i].at \in 1 .. done + 1 /\ m[i].type \notin {"null", "document"}
  <2> SUFFICES ASSUME NEW i \in 2 .. n
               PROVE  m[i].at \in 1 .. done + 1 /\ m[i].type \notin {"null", "document"}
    OBVIOUS
  <2>1. CASE i = n
    BY <2>1, <1>1, <1>2
  <2>2. CASE i # n
    <3>1. i \in 2 .. n - 1 /\ i \in 0 .. n - 1
      BY <2>2, <1>1
    <3>2. m[i].at \in 1 .. done /\ m[i].type \notin {"null", "document"}
      BY <3>1, <1>3, <1>4
    <3> QED  BY <3>2, <1>1
  <2> QED  BY <2>1, <2>2
<1>7. \A i, j \in 1 .. n : i < j => m[i].at < m[j].at
  <2> SUFFICES ASSUME NEW i \in 1 .. n, NEW j \in 1 .. n, i < j PROVE m[i].at < m[j].at
    OBVIOUS
  <2>1. i \in 1 .. n - 1 /\ i \in 0 .. n - 1
    BY <1>1
  <2>2. CASE j = n
    <3>1. nodes[i].at \in 0 .. done
      <4>1. i = 1 \/ i \in 2 .. n - 1
        BY <2>1
      <4>2. \A k \in 1 .. done : k \in 0 .. done
        BY <1>1
      <4> QED  BY <4>1, <4>2, <1>1, <1>4, <1>5
    <3> QED  BY <2>1, <2>2, <3>1, <1>1, <1>2, <1>3
  <2>3. CASE j # n
    <3>1. j \in 1 .. n - 1 /\ j \in 0 .. n - 1
      BY <2>3, <1>1
    <3> QED  BY <2>1, <3>1, <1>3, <1>4
  <2> QED  BY <2>2, <2>3
<1>8. /\ m[Document].at = 0 /\ m[Document].type = "document" /\ m[Null].type = "null"
      /\ \A i \in {Null, Document} : m[i].val.name.len = 0
  BY <1>3, <1>4, <1>5
<1> QED  BY <1>1, <1>6, <1>7, <1>8 DEF MadeInOrder, n, m

-----------------------------------------------------------------------------
(* The tree and the calls.                                                 *)

ChildOps == {"start", "add", "text", "comment"}

Ats(nds, s) == [k \in DOMAIN s |-> nds[s[k]].at]

\* The calls up to n for an element.
UpToCall(calls, n, owner, ops) == Only([k \in 1 .. n |-> k], CallsOf(calls, owner, ops))

AsCalled(nds, i, calls, n) ==
  /\ Ats(nds, ListOf(nds, i, "first_child")) = UpToCall(calls, n, nds[i].at, ChildOps)
  /\ Ats(nds, ListOf(nds, i, "first_attr")) = IF i = Document THEN <<>>
                                              ELSE UpToCall(calls, n, nds[i].at, {"attr"})

LEMMA TreeAsCalled ==
  TreeIsAsCalled <=> (removals = 0 => \A i \in Owners : AsCalled(nodes, i, script, done))
BY DEF TreeIsAsCalled, AsCalled, Ats, MadeBy, UpToCall, CallsFor, Kids, AttrsOn, ListOf, ChildOps

LEMMA TreeAsCalledNext ==
  TreeIsAsCalled' <=> (removals' = 0 => \A i \in Owners' : AsCalled(nodes', i, script', done'))
BY DEF TreeIsAsCalled, AsCalled, Ats, MadeBy, UpToCall, CallsFor, Kids, AttrsOn, ListOf, ChildOps

LEMMA AtsOfAppend ==
  ASSUME NEW n \in Nat, NEW m, NEW nds, NEW s \in Seq(0 .. n - 1),
         \A i \in 0 .. n - 1 : m[i].at = nds[i].at
  PROVE  Ats(m, s) = Ats(nds, s) /\ Ats(m, Append(s, n)) = Append(Ats(nds, s), m[n].at)
         /\ Len(Ats(nds, s)) = Len(s)
<1>1. Len(s) \in Nat /\ DOMAIN s = 1 .. Len(s) /\ \A k \in 1 .. Len(s) : s[k] \in 0 .. n - 1
  BY LenProperties, MembersOf
<1>2. Ats(m, s) = Ats(nds, s)
  BY <1>1 DEF Ats
<1> DEFINE t == Append(s, n)
           S == {nds[s[k]].at : k \in 1 .. Len(s)} \cup {m[n].at}
<1>3. /\ DOMAIN t = 1 .. Len(s) + 1 /\ t[Len(s) + 1] = n /\ \A k \in 1 .. Len(s) : t[k] = s[k]
  <2>1. s \in Seq(Nat)
    <3>1. \A k \in 1 .. Len(s) : s[k] \in Nat
      BY <1>1
    <3> QED  BY <3>1, <1>1, SeqDef, LenProperties
  <2>2. /\ t \in Seq(Nat) /\ Len(t) = Len(s) + 1 /\ t[Len(s) + 1] = n
        /\ \A k \in 1 .. Len(s) : t[k] = s[k]
    BY <2>1, AppendProperties
  <2>3. DOMAIN t = 1 .. Len(t)
    BY <2>2, LenProperties
  <2> QED  BY <2>2, <2>3
<1>4. Ats(nds, s) = [k \in 1 .. Len(s) |-> nds[s[k]].at]
  BY <1>1 DEF Ats
<1>5. Ats(nds, s) \in Seq(S) /\ Len(Ats(nds, s)) = Len(s)
  <2>1. \A k \in 1 .. Len(s) : nds[s[k]].at \in S
    OBVIOUS
  <2> HIDE DEF S
  <2> QED  BY <1>1, <1>4, <2>1, SeqDef, LenProperties
<1>6. m[n].at \in S
  OBVIOUS
<1> HIDE DEF t, S
<1>7. Ats(m, t) = [k \in 1 .. Len(s) + 1 |-> m[t[k]].at]
  BY <1>3 DEF Ats
<1>8. \A k \in 1 .. Len(s) + 1 : m[t[k]].at = IF k = Len(s) + 1 THEN m[n].at ELSE nds[s[k]].at
  <2>1. \A k \in 1 .. Len(s) + 1 : k = Len(s) + 1 \/ k \in 1 .. Len(s)
    BY <1>1
  <2> QED  BY <1>1, <1>3, <2>1
<1>9. Ats(m, t) \in Seq(S) /\ Len(Ats(m, t)) = Len(s) + 1
  <2>1. Len(s) + 1 \in Nat
    BY <1>1
  <2>2. \A k \in 1 .. Len(s) + 1 : m[t[k]].at \in S
    <3>1. \A k \in 1 .. Len(s) + 1 : k # Len(s) + 1 => k \in 1 .. Len(s)
      BY <1>1
    <3> QED  BY <1>8, <3>1 DEF S
  <2> QED  BY <1>7, <2>1, <2>2, SeqDef, LenProperties
<1>10. /\ Append(Ats(nds, s), m[n].at) \in Seq(S) /\ Len(Append(Ats(nds, s), m[n].at)) = Len(s) + 1
       /\ Append(Ats(nds, s), m[n].at)[Len(s) + 1] = m[n].at
       /\ \A k \in 1 .. Len(s) : Append(Ats(nds, s), m[n].at)[k] = Ats(nds, s)[k]
  BY <1>5, <1>6, AppendProperties
<1>11. \A k \in 1 .. Len(s) + 1 : Ats(m, t)[k] = Append(Ats(nds, s), m[n].at)[k]
  <2>1. \A k \in 1 .. Len(s) + 1 : k = Len(s) + 1 \/ (k \in 1 .. Len(s) /\ k # Len(s) + 1)
    BY <1>1
  <2> QED  BY <1>4, <1>7, <1>8, <1>10, <2>1
<1>12. Ats(m, t) = Append(Ats(nds, s), m[n].at)
  BY <1>9, <1>10, <1>11, SeqEqual
<1> QED  BY <1>2, <1>5, <1>12 DEF t

\* A sequence of elements that are in T as well.
LEMMA SeqOver ==
  ASSUME NEW S, NEW s \in Seq(S), NEW T, \A k \in 1 .. Len(s) : s[k] \in T
  PROVE  s \in Seq(T)
BY SeqDef, LenProperties

LEMMA MadeAsCalled ==
  ASSUME Typed, MadeInOrder, StackIsOpen, TreeIsAsCalled,
         NEW type \in {"element", "attribute", "text", "comment"}, NEW first \in Firsts,
         Makes(type, first),
         first = "first_attr" => Arg.op = "attr" /\ Top.node # Document /\ type = "attribute",
         first = "first_child" => Arg.op \in ChildOps
  PROVE  TreeIsAsCalled'
<1> DEFINE n == Size
           m == nodes'
           top == Top.node
           D == done + 1
           Of(o, ops) == UpToCall(script, done, o, ops)
           Now(o, ops) == UpToCall(script, D, o, ops)
<1>1. /\ type \in Types /\ phase = "building" /\ done < Len(script) /\ done' = D /\ script' = script
      /\ removals' = removals /\ Calls
  BY DEF Types, Makes, Calls
<1>2. /\ n \in Nat /\ n >= 2
      /\ AsMade(m[n], Made(type)) /\ \A i \in 0 .. n - 1 : AsMade(m[i], nodes[i])
      /\ \A f \in Firsts : ListOf(m, n, f) = <<>>
      /\ \A p \in 0 .. n - 1 : \A f \in Firsts :
           ListOf(m, p, f) = IF p = top /\ f = first THEN Append(ListOf(nodes, p, f), n)
                             ELSE ListOf(nodes, p, f)
      /\ Owners' = Owners \cup (IF type \in {"document", "element"} THEN {n} ELSE {})
  BY <1>1, MadeNodes
<1>3. m[n].at = D /\ \A i \in 0 .. n - 1 : m[i].at = nodes[i].at
  BY <1>1, <1>2, MadeType DEF AsMade
<1>4. top \in 1 .. n - 1 /\ \A p \in 0 .. n - 1 : \A f \in Firsts : ListOf(nodes, p, f) \in Seq(2 .. n - 1)
  BY <1>1, TopType, ListType DEF Typed
<1>5. \A i \in Owners : i \in 1 .. n - 1
  <2>1. Owners \subseteq 0 .. n - 1 /\ Null \notin Owners
    BY BaseType DEF Owners, MadeInOrder
  <2> HIDE DEF n
  <2> QED  BY <2>1, <1>2 DEF Null
<1>6. \A i, j \in 1 .. n - 1 : nodes[i].at = nodes[j].at => i = j
  <2>1. \A i, j \in 1 .. n - 1 : i < j => nodes[i].at < nodes[j].at
    BY DEF MadeInOrder
  <2>2. \A i \in 1 .. n - 1 : nodes[i].at \in Nat
    <3>1. \A i \in 1 .. n - 1 : i \in 0 .. n - 1
      BY <1>2
    <3> QED  BY <3>1, BaseType
  <2> HIDE DEF n
  <2>3. SUFFICES ASSUME NEW i \in 1 .. n - 1, NEW j \in 1 .. n - 1, nodes[i].at = nodes[j].at, i # j
                 PROVE  FALSE
    OBVIOUS
  <2>4. i < j \/ j < i
    BY <2>3, <1>2
  <2> QED  BY <2>1, <2>2, <2>3, <2>4
<1>7. \A o, ops : Now(o, ops) = IF Arg.op \in ops /\ nodes[top].at = o THEN Append(Of(o, ops), D)
                                ELSE Of(o, ops)
  <2>1. OwnerCall(script, D) = nodes[top].at
    BY <1>1, OwnerIsTop
  <2> SUFFICES ASSUME NEW o, NEW ops
               PROVE  Now(o, ops) = IF Arg.op \in ops /\ nodes[top].at = o THEN Append(Of(o, ops), D)
                                    ELSE Of(o, ops)
    OBVIOUS
  <2>2. Only([k \in 1 .. D |-> k], CallsOf(script, o, ops))
          = IF Arg.op \in ops /\ OwnerCall(script, D) = o
            THEN Append(CallsFor(o, ops), D) ELSE CallsFor(o, ops)
    BY <1>1, CallsMore
  <2> QED  BY <2>1, <2>2 DEF UpToCall, CallsFor
<1>8. \A ops : Now(D, ops) = <<>>
  BY <1>1, CallsNone DEF UpToCall
<1>9. removals = 0 => \A i \in Owners : AsCalled(nodes, i, script, done)
  BY TreeAsCalled
<1>10. \A i \in 0 .. n - 1 : \A f \in Firsts :
         /\ Ats(m, ListOf(nodes, i, f)) = Ats(nodes, ListOf(nodes, i, f))
         /\ Ats(m, Append(ListOf(nodes, i, f), n)) = Append(Ats(nodes, ListOf(nodes, i, f)), D)
  <2> SUFFICES ASSUME NEW i \in 0 .. n - 1, NEW f \in Firsts
               PROVE  /\ Ats(m, ListOf(nodes, i, f)) = Ats(nodes, ListOf(nodes, i, f))
                      /\ Ats(m, Append(ListOf(nodes, i, f), n)) = Append(Ats(nodes, ListOf(nodes, i, f)), D)
    OBVIOUS
  <2> DEFINE s == ListOf(nodes, i, f)
  <2>1. s \in Seq(0 .. n - 1)
    <3>1. s \in Seq(2 .. n - 1)
      BY <1>4
    <3> HIDE DEF s, n
    <3>2. \A k \in 1 .. Len(s) : s[k] \in 0 .. n - 1
      <4>1. \A k \in 1 .. Len(s) : s[k] \in 2 .. n - 1
        BY <3>1, ElementOfSeq
      <4>2. \A k \in 2 .. n - 1 : k \in 0 .. n - 1
        BY <1>2
      <4> QED  BY <4>1, <4>2
    <3> QED  BY <3>1, <3>2, SeqOver
  <2> HIDE DEF s, n, m, D
  <2>2. Ats(m, s) = Ats(nodes, s) /\ Ats(m, Append(s, n)) = Append(Ats(nodes, s), m[n].at)
    BY <2>1, <1>2, <1>3, AtsOfAppend
  <2> QED  BY <2>2, <1>3 DEF s
<1>11. Document = 1 /\ "first_child" \in Firsts /\ "first_attr" \in Firsts /\ "first_child" # "first_attr"
       /\ "attr" \notin ChildOps
  BY DEF Document, Firsts, ChildOps
<1>12. SUFFICES ASSUME removals = 0, NEW i \in Owners'
                PROVE  AsCalled(m, i, script, D)
  BY <1>1, TreeAsCalledNext
<1>13. CASE i = n
  <2>1. /\ ListOf(m, i, "first_child") = <<>> /\ ListOf(m, i, "first_attr") = <<>> /\ m[i].at = D
    BY <1>2, <1>3, <1>11, <1>13
  <2>2. Ats(m, <<>>) = <<>>
    BY DEF Ats
  <2>3. Now(D, ChildOps) = <<>> /\ Now(D, {"attr"}) = <<>>
    BY <1>8
  <2> HIDE DEF D, m
  <2> QED  BY <2>1, <2>2, <2>3 DEF AsCalled
<1>14. CASE i # n
  <2>1. i \in Owners /\ i \in 1 .. n - 1 /\ i \in 0 .. n - 1
    <3>1. i \in Owners
      BY <1>2, <1>12, <1>14
    <3>2. i \in 1 .. n - 1
      BY <3>1, <1>5
    <3> HIDE DEF n
    <3> QED  BY <3>1, <3>2, <1>2
  <2> DEFINE at == nodes[i].at
             C == ListOf(nodes, i, "first_child")
             A == ListOf(nodes, i, "first_attr")
  <2>2. /\ Ats(nodes, C) = Of(at, ChildOps)
        /\ Ats(nodes, A) = IF i = Document THEN <<>> ELSE Of(at, {"attr"})
    BY <1>9, <1>12, <2>1 DEF AsCalled
  <2>3. m[i].at = at /\ (nodes[top].at = at <=> i = top)
    BY <1>3, <1>4, <1>6, <2>1
  <2>4. /\ ListOf(m, i, "first_child") = IF i = top /\ first = "first_child" THEN Append(C, n) ELSE C
        /\ ListOf(m, i, "first_attr") = IF i = top /\ first = "first_attr" THEN Append(A, n) ELSE A
    BY <1>2, <1>11, <2>1
  <2>5. /\ Ats(m, C) = Ats(nodes, C) /\ Ats(m, Append(C, n)) = Append(Ats(nodes, C), D)
        /\ Ats(m, A) = Ats(nodes, A) /\ Ats(m, Append(A, n)) = Append(Ats(nodes, A), D)
    BY <1>10, <1>11, <2>1
  <2>6. /\ Now(at, ChildOps) = IF Arg.op \in ChildOps /\ i = top THEN Append(Of(at, ChildOps), D)
                               ELSE Of(at, ChildOps)
        /\ Now(at, {"attr"}) = IF Arg.op = "attr" /\ i = top THEN Append(Of(at, {"attr"}), D)
                               ELSE Of(at, {"attr"})
    <3> HIDE DEF Now, Of, at, top, D
    <3> QED  BY <1>7, <2>3
  <2>7. /\ first = "first_child" <=> Arg.op \in ChildOps
        /\ first = "first_attr" <=> Arg.op = "attr"
    BY <1>11 DEF Firsts, ChildOps
  <2> HIDE DEF Of, at, C, A, n, m, top, D
  <2>8. Ats(m, ListOf(m, i, "first_child")) = Now(at, ChildOps)
    BY <2>2, <2>4, <2>5, <2>6, <2>7
  <2>9. Ats(m, ListOf(m, i, "first_attr")) = IF i = Document THEN <<>> ELSE Now(at, {"attr"})
    <3>1. first = "first_attr" => top # Document
      BY DEF top
    <3> QED  BY <3>1, <2>2, <2>4, <2>5, <2>6, <2>7
  <2> QED  BY <2>3, <2>8, <2>9 DEF AsCalled
<1> QED  BY <1>13, <1>14

\* A call that makes no node.
LEMMA NothingAsCalled ==
  ASSUME Typed, MadeInOrder, StackIsOpen, TreeIsAsCalled, Calls, nodes' = nodes,
         Arg.op \notin ChildOps, Arg.op = "attr" => Top.node = Document
  PROVE  TreeIsAsCalled'
<1> DEFINE D == done + 1
           Of(o, ops) == UpToCall(script, done, o, ops)
           Now(o, ops) == UpToCall(script, D, o, ops)
<1>1. /\ phase = "building" /\ done < Len(script) /\ done' = D /\ script' = script
      /\ removals' = removals /\ Owners' = Owners
  BY DEF Calls, Owners
<1>2. \A o, ops : Now(o, ops) = IF Arg.op \in ops /\ nodes[Top.node].at = o THEN Append(Of(o, ops), D)
                                ELSE Of(o, ops)
  <2>1. OwnerCall(script, D) = nodes[Top.node].at
    BY <1>1, OwnerIsTop
  <2> SUFFICES ASSUME NEW o, NEW ops
               PROVE  Now(o, ops) = IF Arg.op \in ops /\ nodes[Top.node].at = o
                                    THEN Append(Of(o, ops), D) ELSE Of(o, ops)
    OBVIOUS
  <2>2. Only([k \in 1 .. D |-> k], CallsOf(script, o, ops))
          = IF Arg.op \in ops /\ OwnerCall(script, D) = o
            THEN Append(CallsFor(o, ops), D) ELSE CallsFor(o, ops)
    BY <1>1, CallsMore
  <2> QED  BY <2>1, <2>2 DEF UpToCall, CallsFor
<1>3. removals = 0 => \A i \in Owners : AsCalled(nodes, i, script, done)
  BY TreeAsCalled
<1>4. SUFFICES ASSUME removals = 0, NEW i \in Owners
               PROVE  AsCalled(nodes, i, script, D)
  BY <1>1, TreeAsCalledNext
<1>5. Arg.op = "attr" => nodes[Top.node].at = 0
  BY DEF MadeInOrder
<1>6. i # Document => nodes[i].at # 0
  <2>1. i \in 0 .. Size - 1 /\ i # Null /\ Size \in Nat /\ Document = 1
    BY BaseType DEF Owners, MadeInOrder
  <2>2. i # Document => i \in 2 .. Size - 1
    <3> HIDE DEF Size
    <3> QED  BY <2>1 DEF Null
  <2> QED  BY <2>2 DEF MadeInOrder
<1> DEFINE at == nodes[i].at
<1>7. Now(at, ChildOps) = Of(at, ChildOps) /\ (i # Document => Now(at, {"attr"}) = Of(at, {"attr"}))
  <2> HIDE DEF Now, Of, D
  <2> QED  BY <1>2, <1>5, <1>6
<1>8. AsCalled(nodes, i, script, done)
  BY <1>3, <1>4
<1> QED  BY <1>7, <1>8 DEF AsCalled

-----------------------------------------------------------------------------
(* The stack.                                                              *)

\* t is the stack after n calls.
StackOf(t, nds, own, calls, n) ==
  /\ t \in Seq([node : Nat, last : Nat]) /\ Len(t) = OpenAfter(calls, n) + 1
  /\ t[1].node = Document
  /\ \A j \in 1 .. Len(t) :
       t[j].node \in own /\ t[j].last = ListEnd(ListOf(nds, t[j].node, "first_child"))
  /\ \A i, j \in 1 .. Len(t) : i < j => t[i].node < t[j].node
  /\ \A j \in 2 .. Len(t) : OpenSince(calls, n, nds[t[j].node].at, j - 1)

LEMMA StackSo == StackIsOpen <=> (phase = "building" => StackOf(stack, nodes, Owners, script, done))
BY DEF StackIsOpen, StackOf, Kids, ListOf

LEMMA StackSoNext ==
  StackIsOpen' <=> (phase' = "building" => StackOf(stack', nodes', Owners', script', done'))
BY DEF StackIsOpen, StackOf, Kids, ListOf

LEMMA OpenMore ==
  ASSUME NEW calls, NEW n \in Nat, NEW s, NEW d, OpenSince(calls, n, s, d),
         OpenAfter(calls, n + 1) >= d
  PROVE  OpenSince(calls, n + 1, s, d)
<1>1. s \in 1 .. n + 1
  BY DEF OpenSince
<1>2. \A k \in s .. n + 1 : k = n + 1 \/ k \in s .. n
  BY <1>1
<1> QED  BY <1>1, <1>2 DEF OpenSince

\* One step of OpenAfter.
LEMMA OpenNext ==
  ASSUME Typed, Calls
  PROVE  /\ OpenAfter(script, done) \in Nat
         /\ OpenAfter(script, done + 1) = Counted(OpenAfter(script, done), Arg.op)
<1>1. Len(script) \in Nat /\ done \in 0 .. Len(script) /\ done + 1 \in 1 .. Len(script) /\ (done + 1) - 1 = done
  BY ScriptType DEF Calls
<1>2. /\ \A n \in 0 .. Len(script) : OpenAfter(script, n) \in Nat
      /\ \A n \in 1 .. Len(script) : OpenAfter(script, n) = Counted(OpenAfter(script, n - 1), script[n].op)
  BY <1>1, OpenStep
<1> QED  BY <1>1, <1>2 DEF Arg

\* What the entries that stay on the stack still are.
LEMMA EntriesStay ==
  ASSUME Typed, StackIsOpen, Calls, NEW t, Len(t) \in Nat, Len(t) <= Len(stack),
         \A j \in 1 .. Len(t) : t[j].node = stack[j].node,
         NEW m, \A i \in 0 .. Size - 1 : m[i].at = nodes[i].at,
         OpenAfter(script, done + 1) >= Len(t) - 1
  PROVE  /\ \A i, j \in 1 .. Len(t) : i < j => t[i].node < t[j].node
         /\ \A j \in 2 .. Len(t) : OpenSince(script, done + 1, m[t[j].node].at, j - 1)
<1>1. /\ Len(stack) \in Nat /\ done \in Nat /\ OpenAfter(script, done + 1) \in Nat
      /\ \A j \in 1 .. Len(stack) : stack[j].node \in 1 .. Size - 1
      /\ phase = "building"
  <2>1. OpenAfter(script, done + 1) \in Nat
    BY OpenNext DEF Counted
  <2> QED  BY <2>1, TopType, ScriptType DEF Calls
<1>2. /\ \A i, j \in 1 .. Len(stack) : i < j => stack[i].node < stack[j].node
      /\ \A j \in 2 .. Len(stack) : OpenSince(script, done, nodes[stack[j].node].at, j - 1)
  BY <1>1 DEF StackIsOpen
<1>3. \A j \in 1 .. Len(t) : j \in 1 .. Len(stack)
  BY <1>1
<1>4. \A j \in 2 .. Len(t) : j \in 1 .. Len(t) /\ j \in 2 .. Len(stack) /\ j - 1 <= Len(t) - 1
  BY <1>1
<1>5. ASSUME NEW j \in 2 .. Len(t)
      PROVE  OpenSince(script, done + 1, m[t[j].node].at, j - 1)
  <2>1. t[j].node = stack[j].node /\ stack[j].node \in 0 .. Size - 1
    <3>1. \A k \in 1 .. Size - 1 : k \in 0 .. Size - 1
      BY BaseType
    <3> QED  BY <1>1, <1>3, <1>4, <3>1
  <2>2. OpenSince(script, done, nodes[stack[j].node].at, j - 1)
    BY <1>2, <1>4
  <2>3. OpenAfter(script, done + 1) >= j - 1
    <3>1. j - 1 <= Len(t) - 1 /\ j \in Nat
      BY <1>4
    <3> QED  BY <3>1, <1>1
  <2> DEFINE at == nodes[stack[j].node].at
             d == j - 1
  <2>4. OpenSince(script, done, at, d) /\ OpenAfter(script, done + 1) >= d
    BY <2>2, <2>3
  <2> HIDE DEF at, d
  <2>5. OpenSince(script, done + 1, at, d)
    BY <1>1, <2>4, OpenMore
  <2> QED  BY <2>1, <2>5 DEF at, d
<1>6. \A i, j \in 1 .. Len(t) : i < j => t[i].node < t[j].node
  BY <1>2, <1>3
<1> QED  BY <1>5, <1>6

\* The last child of the innermost open element is the new node.
LEMMA LinkedLast ==
  ASSUME Typed, StackIsOpen, phase = "building"
  PROVE  /\ LastLinked \in Seq([node : Nat, last : Nat]) /\ Len(LastLinked) = Len(stack)
         /\ \A j \in 1 .. Len(stack) :
              /\ LastLinked[j].node = stack[j].node
              /\ LastLinked[j].last = IF j = Len(stack) THEN Size ELSE stack[j].last
<1> DEFINE L == Len(stack)
           n == Size
           top == [stack[L] EXCEPT !.last = n]
           t == LastLinked
<1>1. L \in Nat /\ L >= 1 /\ L \in 1 .. L /\ n \in Nat
      /\ stack \in Seq([node : Nat, last : Nat])
      /\ \A j \in 1 .. L : stack[j] \in [node : Nat, last : Nat]
  <2>1. stack \in Seq([node : Nat, last : Nat])
    BY DEF StackIsOpen
  <2> QED  BY <2>1, TopType, BaseType
<1>2. t = [stack EXCEPT ![L] = top]
  BY DEF LastLinked
<1> HIDE DEF n, L, t
<1>3. top \in [node : Nat, last : Nat] /\ top.node = stack[L].node /\ top.last = n
  BY <1>1
<1> HIDE DEF top
<1>4. stack \in [1 .. L -> [node : Nat, last : Nat]]
  BY <1>1, LenProperties DEF L
<1>5. /\ t \in [1 .. L -> [node : Nat, last : Nat]]
      /\ \A j \in 1 .. L : t[j] = IF j = L THEN top ELSE stack[j]
  BY <1>1, <1>2, <1>3, <1>4
<1>6. t \in Seq([node : Nat, last : Nat]) /\ Len(t) = L
  BY <1>1, <1>2, <1>3, ExceptSeq DEF L
<1> QED  BY <1>3, <1>5, <1>6 DEF L, t, n

\* The lists of children a new child leaves.
LEMMA MadeStack ==
  ASSUME Typed, MadeInOrder, StackIsOpen, NEW type \in {"element", "text", "comment"},
         Makes(type, "first_child")
  PROVE  \A j \in 1 .. Len(stack) :
           /\ LastLinked[j].node \in Owners' /\ LastLinked[j].node \in 1 .. Size - 1
           /\ LastLinked[j].last = ListEnd(ListOf(nodes', LastLinked[j].node, "first_child"))
<1> DEFINE n == Size
           m == nodes'
<1>1. type \in Types /\ "first_child" \in Firsts /\ phase = "building" /\ Calls
  BY DEF Types, Firsts, Makes, Calls
<1>2. /\ \A p \in 0 .. n - 1 :
           ListOf(m, p, "first_child") = IF p = Top.node THEN Append(ListOf(nodes, p, "first_child"), n)
                                         ELSE ListOf(nodes, p, "first_child")
      /\ Owners \subseteq Owners' /\ n \in Nat
  BY <1>1, MadeNodes
<1>3. /\ \A j \in 1 .. Len(stack) : /\ LastLinked[j].node = stack[j].node
                                    /\ LastLinked[j].last = IF j = Len(stack) THEN n ELSE stack[j].last
      /\ Len(stack) \in Nat /\ Len(stack) >= 1 /\ Top = stack[Len(stack)]
      /\ \A j \in 1 .. Len(stack) : stack[j].node \in Owners /\ stack[j].node \in 1 .. n - 1
  BY <1>1, LinkedLast, TopType
<1>4. /\ \A i, j \in 1 .. Len(stack) : i < j => stack[i].node < stack[j].node
      /\ \A j \in 1 .. Len(stack) : stack[j].last = ListEnd(Kids(nodes, stack[j].node))
  BY <1>1 DEF StackIsOpen
<1> HIDE DEF n, m
<1> SUFFICES ASSUME NEW j \in 1 .. Len(stack)
             PROVE  /\ LastLinked[j].node \in Owners' /\ LastLinked[j].node \in 1 .. n - 1
                    /\ LastLinked[j].last = ListEnd(ListOf(m, LastLinked[j].node, "first_child"))
  BY DEF n, m
<1> DEFINE p == stack[j].node
           s == ListOf(nodes, p, "first_child")
<1>5. p \in 1 .. n - 1 /\ p \in 0 .. n - 1 /\ LastLinked[j].node = p /\ p \in Owners
  <2>1. \A k \in 1 .. n - 1 : k \in 0 .. n - 1
    BY <1>2
  <2> QED  BY <1>3, <2>1
<1>6. Kids(nodes, p) = s
  <2>1. p \in 0 .. Size - 1
    BY <1>5 DEF n
  <2> QED  BY <2>1, BaseType
<1>7. LastLinked[j].last = ListEnd(ListOf(m, p, "first_child"))
  <2>1. CASE j = Len(stack)
    <3>1. s \in Seq(2 .. n - 1)
      BY <1>1, <1>5, ListType DEF Typed, n
    <3>2. ListEnd(Append(s, n)) = n
      <4> HIDE DEF s
      <4> QED  BY <3>1, EndOfAppend
    <3>3. p = Top.node
      BY <2>1, <1>3
    <3> QED  BY <2>1, <3>2, <3>3, <1>2, <1>3, <1>5
  <2>2. CASE j # Len(stack)
    <3>1. j < Len(stack) /\ Len(stack) \in 1 .. Len(stack)
      BY <2>2, <1>3
    <3>2. p < Top.node
      BY <3>1, <1>3, <1>4
    <3>3. p # Top.node
      <4> HIDE DEF p
      <4> QED  BY <3>2, <1>5
    <3> QED  BY <2>2, <3>3, <1>2, <1>3, <1>4, <1>5, <1>6
  <2> QED  BY <2>1, <2>2
<1> QED  BY <1>2, <1>5, <1>7

\* A child without children of its own: add_element, add_text, add_comment.
LEMMA LeafStack ==
  ASSUME Typed, MadeInOrder, StackIsOpen, NEW type \in {"element", "text", "comment"},
         Makes(type, "first_child"), Arg.op \notin {"start", "end"}, stack' = LastLinked
  PROVE  StackIsOpen'
<1>1. phase = "building" /\ Calls /\ script' = script /\ done' = done + 1
  BY DEF Makes, Calls
<1>2. OpenAfter(script, done + 1) = OpenAfter(script, done) /\ OpenAfter(script, done) \in Nat
      /\ Len(stack) = OpenAfter(script, done) + 1 /\ Len(stack) \in Nat /\ 1 \in 1 .. Len(stack)
      /\ stack[1].node = Document
  BY <1>1, OpenNext, TopType DEF Counted, StackIsOpen
<1>3. /\ LastLinked \in Seq([node : Nat, last : Nat]) /\ Len(LastLinked) = Len(stack)
      /\ \A j \in 1 .. Len(stack) : LastLinked[j].node = stack[j].node
  BY <1>1, LinkedLast
<1>4. \A j \in 1 .. Len(stack) :
        /\ LastLinked[j].node \in Owners'
        /\ LastLinked[j].last = ListEnd(ListOf(nodes', LastLinked[j].node, "first_child"))
  BY MadeStack
<1>5. \A i \in 0 .. Size - 1 : nodes'[i].at = nodes[i].at
  BY MadeNodes DEF AsMade, Types, Firsts
<1> DEFINE t == LastLinked
           m == nodes'
<1>6. /\ \A i, j \in 1 .. Len(t) : i < j => t[i].node < t[j].node
      /\ \A j \in 2 .. Len(t) : OpenSince(script, done + 1, m[t[j].node].at, j - 1)
  <2>1. OpenAfter(script, done + 1) >= Len(t) - 1 /\ Len(t) \in Nat /\ Len(t) <= Len(stack)
    BY <1>2, <1>3
  <2>2. \A j \in 1 .. Len(t) : t[j].node = stack[j].node
    BY <1>3
  <2>3. \A i \in 0 .. Size - 1 : m[i].at = nodes[i].at
    BY <1>5
  <2> HIDE DEF t, m
  <2> QED  BY <2>1, <2>2, <2>3, <1>1, EntriesStay
<1>7. StackOf(t, m, Owners', script, done + 1)
  BY <1>2, <1>3, <1>4, <1>6 DEF StackOf
<1> QED  BY <1>1, <1>7, StackSoNext

\* start_element: the new node is open.
LEMMA StartStack ==
  ASSUME Typed, MadeInOrder, StackIsOpen, Makes("element", "first_child"), Arg.op = "start",
         stack' = Append(LastLinked, [node |-> Size, last |-> Null])
  PROVE  StackIsOpen'
<1> DEFINE n == Size
           L == Len(stack)
           b == LastLinked
           t == Append(b, [node |-> n, last |-> Null])
           m == nodes'
           D == done + 1
<1>1. phase = "building" /\ Calls /\ script' = script /\ done' = D
  BY DEF Makes, Calls
<1>2. OpenAfter(script, D) = OpenAfter(script, done) + 1 /\ OpenAfter(script, done) \in Nat
      /\ L = OpenAfter(script, done) + 1 /\ L \in Nat /\ L >= 1 /\ stack[1].node = Document
  BY <1>1, OpenNext, TopType DEF Counted, StackIsOpen
<1>3. /\ b \in Seq([node : Nat, last : Nat]) /\ Len(b) = L
      /\ \A j \in 1 .. L : b[j].node = stack[j].node
  BY <1>1, LinkedLast
<1>4. \A j \in 1 .. L :
        /\ b[j].node \in Owners' /\ b[j].node \in 1 .. n - 1
        /\ b[j].last = ListEnd(ListOf(m, b[j].node, "first_child"))
  BY MadeStack
<1>5. /\ n \in Nat /\ Owners' = Owners \cup {n} /\ ListOf(m, n, "first_child") = <<>>
      /\ \A i \in 0 .. n - 1 : m[i].at = nodes[i].at
      /\ m[n].at = D
  <2>1. "element" \in Types /\ "first_child" \in Firsts
    BY DEF Types, Firsts
  <2>2. Made("element").at = D
    BY <1>1, <2>1, MadeType
  <2> QED  BY <2>1, <2>2, MadeNodes DEF AsMade
<1>6. /\ \A i, j \in 1 .. Len(b) : i < j => b[i].node < b[j].node
      /\ \A j \in 2 .. Len(b) : OpenSince(script, done + 1, m[b[j].node].at, j - 1)
  <2>1. OpenAfter(script, done + 1) >= Len(b) - 1 /\ Len(b) \in Nat /\ Len(b) <= Len(stack)
    BY <1>2, <1>3
  <2>2. \A j \in 1 .. Len(b) : b[j].node = stack[j].node
    BY <1>3
  <2>3. \A i \in 0 .. Size - 1 : m[i].at = nodes[i].at
    BY <1>5
  <2> HIDE DEF b, m
  <2> QED  BY <2>1, <2>2, <2>3, <1>1, EntriesStay
<1>7. /\ t \in Seq([node : Nat, last : Nat]) /\ Len(t) = L + 1
      /\ t[L + 1] = [node |-> n, last |-> Null] /\ \A j \in 1 .. L : t[j] = b[j]
  <2>1. [node |-> n, last |-> Null] \in [node : Nat, last : Nat]
    BY <1>5 DEF Null
  <2> HIDE DEF b, n
  <2> QED  BY <1>3, <2>1, AppendProperties
<1>8. done \in Nat /\ script[D].op = "start" /\ L + 1 >= 2
  BY <1>1, <1>2, ScriptType DEF Arg
<1>9. OpenSince(script, D, D, L)
  <2>1. D \in 1 .. D /\ \A k \in D .. D : k = D
    BY <1>8
  <2>2. OpenAfter(script, D) = L
    BY <1>2
  <2> HIDE DEF D
  <2> QED  BY <2>1, <2>2, <1>2, <1>8 DEF OpenSince
<1> HIDE DEF t, b, n, m, D, L
<1>10. \A j \in 1 .. L + 1 : j # L + 1 => j \in 1 .. L
  BY <1>2
<1>11. \A j \in 1 .. L + 1 :
         t[j].node \in Owners' /\ t[j].last = ListEnd(ListOf(m, t[j].node, "first_child"))
  <2> SUFFICES ASSUME NEW j \in 1 .. L + 1
               PROVE  t[j].node \in Owners' /\ t[j].last = ListEnd(ListOf(m, t[j].node, "first_child"))
    OBVIOUS
  <2>1. CASE j = L + 1
    <3>1. t[j].node = n /\ t[j].last = Null
      BY <2>1, <1>7
    <3> QED  BY <3>1, <1>5 DEF ListEnd
  <2>2. CASE j # L + 1
    BY <2>2, <1>4, <1>7, <1>10
  <2> QED  BY <2>1, <2>2
<1>12. \A i, j \in 1 .. L + 1 : i < j => t[i].node < t[j].node
  <2> SUFFICES ASSUME NEW i \in 1 .. L + 1, NEW j \in 1 .. L + 1, i < j
               PROVE  t[i].node < t[j].node
    OBVIOUS
  <2>1. i \in 1 .. L
    BY <1>2
  <2>2. CASE j = L + 1
    <3>1. t[j].node = n /\ t[i].node \in 1 .. n - 1
      BY <2>1, <2>2, <1>4, <1>7
    <3> QED  BY <3>1, <1>5
  <2>3. CASE j # L + 1
    BY <2>1, <2>3, <1>3, <1>6, <1>7, <1>10
  <2> QED  BY <2>2, <2>3
<1>13. \A j \in 2 .. L + 1 : OpenSince(script, D, m[t[j].node].at, j - 1)
  <2> SUFFICES ASSUME NEW j \in 2 .. L + 1
               PROVE  OpenSince(script, D, m[t[j].node].at, j - 1)
    OBVIOUS
  <2>1. CASE j = L + 1
    <3>1. t[j].node = n /\ j - 1 = L
      BY <2>1, <1>2, <1>7
    <3> QED  BY <3>1, <1>5, <1>9
  <2>2. CASE j # L + 1
    <3>1. j \in 2 .. L /\ j \in 1 .. L
      BY <2>2, <1>2
    <3>2. OpenSince(script, D, m[b[j].node].at, j - 1)
      BY <3>1, <1>3, <1>6 DEF D
    <3> QED  BY <3>1, <3>2, <1>7
  <2> QED  BY <2>1, <2>2
<1>14. t[1].node = Document /\ Len(t) = OpenAfter(script, D) + 1
  <2>1. 1 \in 1 .. L
    BY <1>2
  <2> QED  BY <2>1, <1>2, <1>3, <1>7
<1>15. StackOf(t, m, Owners', script, D)
  BY <1>7, <1>11, <1>12, <1>13, <1>14 DEF StackOf
<1>16. stack' = t /\ nodes' = m /\ done' = D /\ script' = script
  BY <1>1 DEF t, b, n, m
<1> QED  BY <1>15, <1>16, StackSoNext

\* A call that leaves the lists of children: add_attribute, and end_element, which
\* leaves the stack without its last entry, or as it is if that is the document.
LEMMA SameStack ==
  ASSUME Typed, StackIsOpen, Calls, NEW t, stack' = t, Len(t) \in Nat, Len(t) <= Len(stack),
         t \in Seq([node : Nat, last : Nat]), \A j \in 1 .. Len(t) : t[j] = stack[j],
         Len(t) = OpenAfter(script, done + 1) + 1, Owners \subseteq Owners',
         \A i \in 0 .. Size - 1 : nodes'[i].at = nodes[i].at,
         \A i \in 0 .. Size - 1 : ListOf(nodes', i, "first_child") = ListOf(nodes, i, "first_child")
  PROVE  StackIsOpen'
<1> DEFINE m == nodes'
           n == Size
<1>1. phase = "building" /\ script' = script /\ done' = done + 1
  BY DEF Calls
<1>2. OpenAfter(script, done + 1) \in Nat /\ Len(stack) \in Nat
  BY <1>1, OpenNext, TopType DEF Counted
<1>3. /\ \A j \in 1 .. Len(stack) : stack[j].node \in Owners /\ stack[j].node \in 0 .. n - 1
                                    /\ stack[j].last = ListEnd(ListOf(nodes, stack[j].node, "first_child"))
      /\ stack[1].node = Document
  <2>1. \A j \in 1 .. Len(stack) : /\ stack[j].node \in Owners /\ stack[j].node \in 0 .. n - 1
                                   /\ stack[j].last = ListEnd(Kids(nodes, stack[j].node))
    <3>1. \A k \in 1 .. n - 1 : k \in 0 .. n - 1
      BY BaseType
    <3> QED  BY <1>1, <3>1, TopType DEF StackIsOpen
  <2> QED  BY <2>1, <1>1, BaseType DEF StackIsOpen
<1>4. \A i \in 0 .. n - 1 : /\ m[i].at = nodes[i].at
                            /\ ListOf(m, i, "first_child") = ListOf(nodes, i, "first_child")
  OBVIOUS
<1> HIDE DEF m
<1>5. /\ \A i, j \in 1 .. Len(t) : i < j => t[i].node < t[j].node
      /\ \A j \in 2 .. Len(t) : OpenSince(script, done + 1, m[t[j].node].at, j - 1)
  <2>1. OpenAfter(script, done + 1) >= Len(t) - 1
    BY <1>2
  <2> QED  BY <2>1, <1>4, EntriesStay
<1>6. \A j \in 1 .. Len(t) : j \in 1 .. Len(stack)
  BY <1>2
<1>7. 1 \in 1 .. Len(t)
  BY <1>2
<1>8. \A j \in 1 .. Len(t) :
        t[j].node \in Owners' /\ t[j].last = ListEnd(ListOf(m, t[j].node, "first_child"))
  BY <1>3, <1>4, <1>6
<1>9. t[1].node = Document
  BY <1>3, <1>7
<1>10. StackOf(t, m, Owners', script, done + 1)
  BY <1>5, <1>8, <1>9 DEF StackOf
<1> QED  BY <1>1, <1>10, StackSoNext DEF m

-----------------------------------------------------------------------------
(* Names and texts.                                                        *)

LEMMA PlacedBefore ==
  ASSUME NEW S, NEW s \in Seq(S), NEW u \in Seq(S), NEW at, NEW t, Len(t) \in Nat, InPlace(s, at, t)
  PROVE  InPlace(s \o u, at, t)
<1>1. at \in Nat /\ at + Len(t) <= Len(s) /\ \A j \in 1 .. Len(t) : s[at + j] = t[j]
  BY DEF InPlace
<1>2. /\ Len(s \o u) = Len(s) + Len(u) /\ Len(s) \in Nat /\ Len(u) \in Nat
      /\ \A i \in 1 .. Len(s) : (s \o u)[i] = s[i]
  BY ConcatProperties, LenProperties
<1>3. \A j \in 1 .. Len(t) : at + j \in 1 .. Len(s)
  BY <1>1, <1>2
<1>4. at + Len(t) <= Len(s \o u)
  BY <1>1, <1>2
<1> QED  BY <1>1, <1>2, <1>3, <1>4 DEF InPlace

LEMMA PlacedAfter ==
  ASSUME NEW S, NEW s \in Seq(S), NEW u \in Seq(S), NEW at, NEW t, Len(t) \in Nat, InPlace(u, at, t)
  PROVE  InPlace(s \o u, Len(s) + at, t)
<1>1. at \in Nat /\ at + Len(t) <= Len(u) /\ \A j \in 1 .. Len(t) : u[at + j] = t[j]
  BY DEF InPlace
<1>2. /\ Len(s \o u) = Len(s) + Len(u) /\ Len(s) \in Nat /\ Len(u) \in Nat
      /\ \A i \in 1 .. Len(s \o u) : (s \o u)[i] = IF i <= Len(s) THEN s[i] ELSE u[i - Len(s)]
  BY ConcatProperties, LenProperties
<1>3. \A j \in 1 .. Len(t) : (s \o u)[(Len(s) + at) + j] = t[j]
  <2> SUFFICES ASSUME NEW j \in 1 .. Len(t) PROVE (s \o u)[(Len(s) + at) + j] = t[j]
    OBVIOUS
  <2> DEFINE w == s \o u
             a == Len(s)
             i == (a + at) + j
  <2>1. i \in 1 .. Len(w) /\ ~ i <= a /\ i - a = at + j
    BY <1>1, <1>2
  <2>2. w[i] = IF i <= a THEN s[i] ELSE u[i - a]
    BY <2>1, <1>2
  <2> HIDE DEF w, a, i
  <2>3. w[i] = t[j]
    BY <2>1, <2>2, <1>1
  <2> QED  BY <2>3 DEF w, a, i
<1>4. Len(s) + at \in Nat /\ (Len(s) + at) + Len(t) <= Len(s \o u)
  BY <1>1, <1>2
<1> QED  BY <1>3, <1>4 DEF InPlace

LEMMA PlacedAll ==
  ASSUME NEW S, NEW s \in Seq(S), NEW u \in Seq(S)
  PROVE  InPlace(s \o u, Len(s), u)
<1>1. InPlace(u, 0, u) /\ Len(u) \in Nat /\ Len(s) \in Nat
  BY LenProperties DEF InPlace
<1>2. InPlace(s \o u, Len(s) + 0, u)
  BY <1>1, PlacedAfter
<1> QED  BY <1>1, <1>2

\* What is read from its place.
LEMMA PlacedRead ==
  ASSUME NEW S, NEW s \in Seq(S), NEW t \in Seq(S), NEW at, InPlace(s, at, t),
         NEW n \in Nat, n <= Len(t)
  PROVE  SubSeq(s, at + 1, at + n) = SubSeq(t, 1, n)
<1>1. /\ at \in Nat /\ at + Len(t) <= Len(s) /\ \A j \in 1 .. Len(t) : s[at + j] = t[j]
      /\ Len(s) \in Nat /\ Len(t) \in Nat /\ n \in Nat /\ n <= Len(t)
  BY LenProperties DEF InPlace
<1>2. /\ \A i \in (at + 1) .. (at + n) : s[i] \in S
      /\ \A i \in 1 .. n : t[i] \in S
  <2>1. /\ \A i \in (at + 1) .. (at + n) : i \in 1 .. Len(s)
        /\ \A i \in 1 .. n : i \in 1 .. Len(t)
    BY <1>1
  <2> QED  BY <2>1, ElementOfSeq
<1> DEFINE a == SubSeq(s, at + 1, at + n)
           b == SubSeq(t, 1, n)
<1>3. /\ a \in Seq(S)
      /\ Len(a) = IF at + 1 <= at + n THEN (at + n) - (at + 1) + 1 ELSE 0
      /\ \A i \in 1 .. (at + n) - (at + 1) + 1 : a[i] = s[(at + 1) + i - 1]
  BY <1>1, <1>2, SubSeqProperties
<1>4. /\ b \in Seq(S)
      /\ Len(b) = IF 1 <= n THEN n - 1 + 1 ELSE 0
      /\ \A i \in 1 .. n - 1 + 1 : b[i] = t[1 + i - 1]
  BY <1>1, <1>2, SubSeqProperties
<1> HIDE DEF a, b
<1>5. Len(a) = n /\ Len(b) = n
  BY <1>1, <1>3, <1>4
<1>6. \A i \in 1 .. n : a[i] = b[i]
  <2> SUFFICES ASSUME NEW i \in 1 .. n PROVE a[i] = b[i]
    OBVIOUS
  <2>1. /\ i \in 1 .. (at + n) - (at + 1) + 1 /\ (at + 1) + i - 1 = at + i
        /\ i \in 1 .. n - 1 + 1 /\ 1 + i - 1 = i /\ i \in 1 .. Len(t)
    BY <1>1
  <2> QED  BY <2>1, <1>1, <1>3, <1>4
<1>7. a = b
  BY <1>3, <1>4, <1>5, <1>6, SeqEqual
<1> QED  BY <1>7 DEF a, b

\* The number of nodes up to i that have a name.
NamedUpTo(nds, i) == Cardinality({j \in 0 .. i : nds[j].val.name.len > 0})

LEMMA NamedSame ==
  ASSUME NEW i \in Nat, NEW m, NEW nds, \A j \in 0 .. i : m[j].val.name.len = nds[j].val.name.len
  PROVE  NamedUpTo(m, i) = NamedUpTo(nds, i)
<1>1. {j \in 0 .. i : m[j].val.name.len > 0} = {j \in 0 .. i : nds[j].val.name.len > 0}
  OBVIOUS
<1> QED  BY <1>1 DEF NamedUpTo

LEMMA NamedNext ==
  ASSUME NEW n \in Nat \ {0}, NEW m
  PROVE  /\ NamedUpTo(m, n - 1) \in Nat
         /\ NamedUpTo(m, n) = NamedUpTo(m, n - 1) + IF m[n].val.name.len > 0 THEN 1 ELSE 0
<1> DEFINE Named(j) == m[j].val.name.len > 0
           A == {j \in 0 .. n - 1 : Named(j)}
           B == {j \in 0 .. n : Named(j)}
<1>1. IsFiniteSet(A) /\ Cardinality(A) \in Nat
  <2>1. IsFiniteSet(0 .. n - 1)
    BY FS_Interval
  <2>2. IsFiniteSet(A)
    BY <2>1, FS_Subset
  <2> QED  BY <2>2, FS_CardinalityType
<1>2. n \notin A /\ 0 .. n = (0 .. n - 1) \cup {n}
  OBVIOUS
<1>3. B = IF Named(n) THEN A \cup {n} ELSE A
  <2> HIDE DEF Named
  <2> QED  BY <1>2
<1>4. Cardinality(A \cup {n}) = Cardinality(A) + 1
  <2> HIDE DEF A
  <2> QED  BY <1>1, <1>2, FS_AddElement
<1>5. NamedUpTo(m, n - 1) = Cardinality(A) /\ NamedUpTo(m, n) = Cardinality(B)
  BY DEF NamedUpTo
<1> HIDE DEF A, B
<1> QED  BY <1>1, <1>3, <1>4, <1>5

LEMMA IndexIs ==
  /\ \A i : NameIndex(i) = NamedUpTo(nodes, i)
  /\ \A i : (NameIndex(i))' = NamedUpTo(nodes', i)
BY DEF NameIndex, NamedUpTo

LEMMA NamedAreNamed ==
  ASSUME names \in Seq(Seq(STRING))
  PROVE  AllNamed <=> \A k \in 1 .. Len(names) : names[k] # <<>>
<1>1. DOMAIN names = 1 .. Len(names)
  BY LenProperties
<1> QED  BY <1>1 DEF AllNamed, Range

LEMMA NamedAreNamedNext ==
  ASSUME names' \in Seq(Seq(STRING))
  PROVE  AllNamed' <=> \A k \in 1 .. Len(names') : names'[k] # <<>>
<1>1. DOMAIN names' = 1 .. Len(names')
  BY LenProperties
<1> QED  BY <1>1 DEF AllNamed, Range

\* The name and the text of the call are stored, if it has them.
Stores ==
  /\ values' = values \o Arg.text
  /\ IF Arg.name = <<>> /\ Arg.op \in {"end", "text", "comment"}
     THEN names' = names /\ name_offsets' = name_offsets
     ELSE SetName

LEMMA StoresType ==
  ASSUME Typed, Calls, Stores
  PROVE  /\ values' \in Seq(STRING) /\ names' \in Seq(Seq(STRING)) /\ name_offsets' \in Seq(Nat)
         /\ FlattenSeq(names) \in Seq(STRING)
<1>1. /\ values \in Seq(STRING) /\ names \in Seq(Seq(STRING)) /\ name_offsets \in Seq(Nat)
      /\ Arg.text \in Seq(STRING) /\ Arg.name \in Seq(STRING)
  BY ArgType DEF Typed
<1>2. FlattenSeq(names) \in Seq(STRING)
  BY <1>1, FlattenType
<1>3. values' \in Seq(STRING)
  BY <1>1, ConcatProperties DEF Stores
<1>4. Len(FlattenSeq(names)) \in Nat
  BY <1>2, LenProperties
<1>5. names' \in Seq(Seq(STRING)) /\ name_offsets' \in Seq(Nat)
  <2>1. CASE names' = names /\ name_offsets' = name_offsets
    BY <2>1, <1>1
  <2>2. CASE SetName
    <3>1. names' = Append(names, Arg.name) /\ name_offsets' = Append(name_offsets, Len(FlattenSeq(names)))
      BY <2>2 DEF SetName
    <3>2. Append(names, Arg.name) \in Seq(Seq(STRING))
      BY <1>1, AppendProperties
    <3>3. Append(name_offsets, Len(FlattenSeq(names))) \in Seq(Nat)
      BY <1>1, <1>4, AppendProperties
    <3> QED  BY <3>1, <3>2, <3>3
  <2> QED  BY <2>1, <2>2 DEF Stores
<1> QED  BY <1>2, <1>3, <1>5

LEMMA MadeTexts ==
  ASSUME Typed, MadeInOrder, StackIsOpen, TextsPlaced, NEW type \in Types, NEW first \in Firsts,
         Makes(type, first), Stores
  PROVE  TextsPlaced'
<1> DEFINE n == Size
           m == nodes'
<1>1. /\ Size' - 1 = n /\ n \in Nat /\ n >= 2 /\ Calls /\ script' = script
      /\ AsMade(m[n], Made(type)) /\ \A i \in 0 .. n - 1 : AsMade(m[i], nodes[i])
      /\ Made(type).at = done + 1 /\ Made(type).val.name.len = Len(Arg.name)
      /\ Made(type).val.value.len = Clamped(Len(Arg.text)) /\ Made(type).val.value.at = Len(values)
  BY MadeNodes, MadeType DEF Makes, Calls
<1>2. /\ values \in Seq(STRING) /\ Arg.text \in Seq(STRING) /\ script[done + 1] = Arg
      /\ values' = values \o Arg.text
  BY <1>1, ArgType DEF Typed, Stores
<1>3. m[n].at = done + 1 /\ m[n].val = Made(type).val
      /\ \A i \in 0 .. n - 1 : m[i].at = nodes[i].at /\ m[i].val = nodes[i].val
  BY <1>1 DEF AsMade
<1> HIDE DEF n, m
<1> SUFFICES ASSUME NEW i \in 2 .. n
             PROVE  /\ m[i].val.name.len = Len(script[m[i].at].name)
                    /\ m[i].val.value.len = Clamped(Len(script[m[i].at].text))
                    /\ InPlace(values', m[i].val.value.at, script[m[i].at].text)
  BY <1>1 DEF TextsPlaced, CallOf, m, n
<1>4. CASE i = n
  <2>1. InPlace(values', Len(values), Arg.text)
    BY <1>2, PlacedAll
  <2> QED  BY <2>1, <1>1, <1>2, <1>3, <1>4
<1>5. CASE i # n
  <2>1. i \in 2 .. n - 1 /\ i \in 0 .. n - 1
    BY <1>1, <1>5
  <2>2. /\ nodes[i].val.name.len = Len(script[nodes[i].at].name)
        /\ nodes[i].val.value.len = Clamped(Len(script[nodes[i].at].text))
        /\ InPlace(values, nodes[i].val.value.at, script[nodes[i].at].text)
    BY <2>1 DEF TextsPlaced, CallOf, n
  <2>3. Len(script[nodes[i].at].text) \in Nat
    <3>1. nodes[i].at \in 1 .. done /\ done \in 0 .. Len(script) /\ Len(script) \in Nat
      BY <2>1, ScriptType DEF MadeInOrder, n
    <3>2. nodes[i].at \in 1 .. Len(script)
      BY <3>1
    <3>3. script[nodes[i].at].text \in Seq(STRING)
      BY <3>2, ScriptType DEF Call
    <3> QED  BY <3>3, LenProperties
  <2>4. InPlace(values', nodes[i].val.value.at, script[nodes[i].at].text)
    BY <1>2, <2>2, <2>3, PlacedBefore
  <2> QED  BY <2>1, <2>2, <2>4, <1>3
<1> QED  BY <1>4, <1>5

LEMMA MadeOffsets ==
  ASSUME Typed, OffsetsPlace, Calls, Stores
  PROVE  OffsetsPlace'
<1>1. /\ phase = "building" /\ names \in Seq(Seq(STRING)) /\ name_offsets \in Seq(Nat)
      /\ Arg.name \in Seq(STRING) /\ FlattenSeq(names) \in Seq(STRING)
  BY ArgType, StoresType DEF Typed, Calls
<1>2. /\ Len(name_offsets) = Len(names)
      /\ \A k \in 1 .. Len(names) : InPlace(FlattenSeq(names), name_offsets[k], names[k])
  BY <1>1 DEF OffsetsPlace
<1>3. CASE names' = names /\ name_offsets' = name_offsets
  BY <1>2, <1>3 DEF OffsetsPlace
<1>4. CASE SetName
  <2> DEFINE F == FlattenSeq(names)
  <2>1. names' = Append(names, Arg.name) /\ name_offsets' = Append(name_offsets, Len(F))
    BY <1>4 DEF SetName
  <2>2. FlattenSeq(names') = F \o Arg.name
    BY <1>1, <2>1, FlattenAppend
  <2>3. /\ Len(names) \in Nat /\ Len(names') = Len(names) + 1 /\ names'[Len(names) + 1] = Arg.name
        /\ \A k \in 1 .. Len(names) : names'[k] = names[k] /\ names[k] \in Seq(STRING)
    BY <1>1, <2>1, AppendProperties, LenProperties, ElementOfSeq
  <2>4. /\ Len(name_offsets') = Len(names) + 1 /\ name_offsets'[Len(names) + 1] = Len(F)
        /\ \A k \in 1 .. Len(names) : name_offsets'[k] = name_offsets[k]
    <3>1. Len(F) \in Nat
      BY <1>1, LenProperties
    <3> HIDE DEF F
    <3>2. /\ Len(name_offsets') = Len(name_offsets) + 1 /\ name_offsets'[Len(name_offsets) + 1] = Len(F)
          /\ \A k \in 1 .. Len(name_offsets) : name_offsets'[k] = name_offsets[k]
      BY <1>1, <2>1, <3>1, AppendProperties
    <3> QED  BY <3>2, <1>2
  <2> HIDE DEF F
  <2>5. ASSUME NEW k \in 1 .. Len(names')
        PROVE  InPlace(F \o Arg.name, name_offsets'[k], names'[k])
    <3>1. CASE k = Len(names) + 1
      BY <3>1, <1>1, <2>3, <2>4, PlacedAll DEF F
    <3>2. CASE k # Len(names) + 1
      <4>1. k \in 1 .. Len(names)
        BY <3>2, <2>3
      <4>2. InPlace(F, name_offsets[k], names[k]) /\ Len(names[k]) \in Nat /\ F \in Seq(STRING)
        BY <4>1, <1>1, <1>2, <2>3, LenProperties DEF F
      <4>3. InPlace(F \o Arg.name, name_offsets[k], names[k])
        BY <4>2, <1>1, PlacedBefore
      <4> QED  BY <4>1, <4>3, <2>3, <2>4
    <3> QED  BY <3>1, <3>2
  <2> QED  BY <2>2, <2>3, <2>4, <2>5 DEF OffsetsPlace
<1> QED  BY <1>3, <1>4 DEF Stores

LEMMA MadeNames ==
  ASSUME Typed, MadeInOrder, StackIsOpen, NamesCounted, NEW type \in Types, NEW first \in Firsts,
         Makes(type, first), Stores
  PROVE  NamesCounted'
<1> DEFINE n == Size
           m == nodes'
<1>1. /\ Size' - 1 = n /\ n \in Nat /\ n >= 2 /\ Calls /\ script' = script /\ phase = "building"
      /\ AsMade(m[n], Made(type)) /\ \A i \in 0 .. n - 1 : AsMade(m[i], nodes[i])
      /\ Made(type).at = done + 1 /\ Made(type).val.name.len = Len(Arg.name)
  BY MadeNodes, MadeType DEF Makes, Calls
<1>2. /\ names \in Seq(Seq(STRING)) /\ Arg.name \in Seq(STRING) /\ script[done + 1] = Arg
      /\ names' \in Seq(Seq(STRING)) /\ Len(names) \in Nat
  BY <1>1, ArgType, StoresType, LenProperties DEF Typed
<1>3. m[n].at = done + 1 /\ m[n].val.name.len = Len(Arg.name)
      /\ \A i \in 0 .. n - 1 : m[i].at = nodes[i].at /\ m[i].val = nodes[i].val
  BY <1>1 DEF AsMade
<1>4. /\ \A i : NameIndex(i) = NamedUpTo(nodes, i)
      /\ \A i : (NameIndex(i))' = NamedUpTo(m, i)
  BY IndexIs
<1> HIDE DEF n, m
<1>5. \A i \in 0 .. n - 1 : NamedUpTo(m, i) = NamedUpTo(nodes, i)
  <2> SUFFICES ASSUME NEW i \in 0 .. n - 1 PROVE NamedUpTo(m, i) = NamedUpTo(nodes, i)
    OBVIOUS
  <2>1. i \in Nat /\ \A j \in 0 .. i : j \in 0 .. n - 1
    BY <1>1
  <2> QED  BY <2>1, <1>3, NamedSame
<1>6. NamedUpTo(m, n) = NamedUpTo(nodes, n - 1) + IF Len(Arg.name) > 0 THEN 1 ELSE 0
  <2>1. n \in Nat \ {0} /\ n - 1 \in 0 .. n - 1
    BY <1>1
  <2> QED  BY <2>1, <1>3, <1>5, NamedNext
<1> SUFFICES ASSUME AllNamed'
             PROVE  /\ NamedUpTo(m, n) = Len(names')
                    /\ \A i \in 2 .. n : m[i].val.name.len > 0 =>
                         /\ NamedUpTo(m, i) \in 1 .. Len(names')
                         /\ names'[NamedUpTo(m, i)] = script[m[i].at].name
  BY <1>1, <1>4 DEF NamesCounted, HasName, CallOf, m, n
<1>7. \A k \in 1 .. Len(names') : names'[k] # <<>>
  BY <1>2, NamedAreNamedNext
<1>8. /\ Len(names) <= Len(names') /\ Len(names') \in Nat
      /\ \A k \in 1 .. Len(names) : names'[k] = names[k]
      /\ Len(names') = Len(names) + IF Len(Arg.name) > 0 THEN 1 ELSE 0
      /\ Len(Arg.name) > 0 => names'[Len(names) + 1] = Arg.name
  <2>1. Arg.name = <<>> <=> ~ Len(Arg.name) > 0
    <3>1. Len(Arg.name) \in Nat /\ (Arg.name = <<>> <=> Len(Arg.name) = 0)
      BY <1>2, LenProperties, EmptySeq
    <3> QED  BY <3>1
  <2>2. CASE Arg.name = <<>> /\ Arg.op \in {"end", "text", "comment"}
    BY <2>1, <2>2, <1>2 DEF Stores
  <2>3. CASE ~(Arg.name = <<>> /\ Arg.op \in {"end", "text", "comment"})
    <3>1. names' = Append(names, Arg.name)
      BY <2>3 DEF Stores, SetName
    <3>2. /\ Len(names') = Len(names) + 1 /\ names'[Len(names) + 1] = Arg.name
          /\ \A k \in 1 .. Len(names) : names'[k] = names[k]
      BY <3>1, <1>2, AppendProperties
    <3>3. Len(names) + 1 \in 1 .. Len(names')
      BY <3>2, <1>2
    <3>4. Arg.name # <<>>
      BY <3>2, <3>3, <1>7
    <3> QED  BY <3>2, <3>4, <2>1, <1>2
  <2> QED  BY <2>2, <2>3
<1>9. AllNamed
  <2>1. \A k \in 1 .. Len(names) : k \in 1 .. Len(names')
    BY <1>2, <1>8
  <2>2. \A k \in 1 .. Len(names) : names[k] # <<>>
    BY <2>1, <1>7, <1>8
  <2> QED  BY <2>2, <1>2, NamedAreNamed
<1>10. /\ NamedUpTo(nodes, n - 1) = Len(names)
       /\ \A i \in 2 .. n - 1 : nodes[i].val.name.len > 0 =>
            /\ NamedUpTo(nodes, i) \in 1 .. Len(names)
            /\ names[NamedUpTo(nodes, i)] = script[nodes[i].at].name
  BY <1>1, <1>4, <1>9 DEF NamesCounted, HasName, CallOf, n
<1>11. NamedUpTo(m, n) = Len(names')
  BY <1>6, <1>8, <1>10
<1>12. ASSUME NEW i \in 2 .. n, m[i].val.name.len > 0
       PROVE  NamedUpTo(m, i) \in 1 .. Len(names') /\ names'[NamedUpTo(m, i)] = script[m[i].at].name
  <2>1. CASE i = n
    <3>1. Len(Arg.name) > 0 /\ Len(names') = Len(names) + 1 /\ names'[Len(names) + 1] = Arg.name
      BY <2>1, <1>3, <1>8, <1>12
    <3> QED  BY <2>1, <3>1, <1>2, <1>3, <1>11
  <2>2. CASE i # n
    <3>1. i \in 2 .. n - 1 /\ i \in 0 .. n - 1
      BY <2>2, <1>1
    <3>2. /\ NamedUpTo(nodes, i) \in 1 .. Len(names)
          /\ names[NamedUpTo(nodes, i)] = script[nodes[i].at].name
      BY <3>1, <1>3, <1>10, <1>12
    <3>3. NamedUpTo(m, i) = NamedUpTo(nodes, i) /\ m[i].at = nodes[i].at
      BY <3>1, <1>3, <1>5
    <3>4. NamedUpTo(nodes, i) \in 1 .. Len(names')
      BY <3>2, <1>2, <1>8
    <3> QED  BY <3>2, <3>3, <3>4, <1>8
  <2> QED  BY <2>1, <2>2
<1> QED  BY <1>11, <1>12

-----------------------------------------------------------------------------
(* The calls keep the invariant.                                           *)

LEMMA InitInv == Init => IInv
<1> SUFFICES ASSUME Init PROVE IInv
  OBVIOUS
<1> DEFINE v == [name |-> NoSpan, value |-> NoSpan]
<1>1. /\ script \in Scripts /\ done = 0 /\ phase = "building" /\ nodes = FirstNodes(v)
      /\ values = <<>> /\ names = <<>> /\ name_offsets = <<>>
      /\ stack = <<[node |-> Document, last |-> Null]>> /\ removals = 0
  BY DEF Init
<1>2. v \in Content /\ v.name.len = 0
  BY DEF Content, Span, NoSpan
<1> HIDE DEF v
<1>3. IsScript(script) /\ Len(script) \in Nat
  <2>1. IsScript(script)
    BY <1>1, BuilderAssumption
  <2> QED  BY <2>1, LenProperties DEF IsScript
<1>4. /\ LinksListed(FirstNodes(v), 2)
      /\ \A p \in 0 .. 1 : \A f \in Firsts : ListOf(FirstNodes(v), p, f) = <<>>
  BY FirstListed
<1>5. /\ nodes \in [0 .. 1 -> NodeOf(Types, Content)] /\ DOMAIN nodes = 0 .. 1
      /\ \A i \in 0 .. 1 : nodes[i].at = 0 /\ nodes[i].val = v
      /\ nodes[0].type = "null" /\ nodes[1].type = "document"
  <2>1. {Null, Document} = 0 .. 1
    BY DEF Null, Document
  <2>2. \A i \in 0 .. 1 : NewNode(IF i = Null THEN "null" ELSE "document", 0, v) \in NodeOf(Types, Content)
    BY <1>2 DEF NewNode, NodeOf, Types, Null
  <2>3. nodes = [i \in 0 .. 1 |-> NewNode(IF i = Null THEN "null" ELSE "document", 0, v)]
    BY <1>1, <2>1 DEF FirstNodes
  <2>4. nodes \in [0 .. 1 -> NodeOf(Types, Content)] /\ DOMAIN nodes = 0 .. 1
    BY <2>2, <2>3
  <2> QED  BY <2>3, <2>4 DEF NewNode, Null
<1>6. Size = 2
  <2>1. 0 .. 1 = 0 .. 2 - 1
    OBVIOUS
  <2> QED  BY <1>5, <2>1, SizeIs DEF Size
<1>7. Typed
  <2>1. 0 \in 0 .. Len(script) /\ 0 .. 2 - 1 = 0 .. 1
    BY <1>3
  <2>2. nodes \in [0 .. Size - 1 -> NodeOf(Types, Content)] /\ LinksListed(nodes, Size)
    BY <1>1, <1>4, <1>5, <1>6, <2>1
  <2>3. values \in Seq(STRING) /\ names \in Seq(Seq(STRING)) /\ name_offsets \in Seq(Nat)
    BY <1>1
  <2> QED  BY <1>1, <2>1, <2>2, <2>3 DEF Typed
<1>8. MadeInOrder
  <2>1. \A i \in 2 .. Size - 1 : FALSE
    BY <1>6
  <2>2. \A i, j \in 1 .. Size - 1 : ~ i < j
    BY <1>6
  <2> QED  BY <1>2, <1>5, <2>1, <2>2 DEF MadeInOrder, Null, Document
<1>9. Owners = {1}
  <2>1. \A i \in 0 .. 1 : i = 0 \/ i = 1
    OBVIOUS
  <2> QED  BY <1>5, <2>1 DEF Owners
<1>10. StackIsOpen
  <2>1. OpenAfter(script, 0) = 0
    BY <1>3, OpenStep
  <2>2. /\ stack \in Seq([node : Nat, last : Nat]) /\ Len(stack) = 1
        /\ stack[1].node = Document /\ stack[1].last = Null
    BY <1>1 DEF Document, Null
  <2>3. Kids(nodes, Document) = <<>>
    BY <1>1, <1>4 DEF Kids, ListOf, Firsts, Document
  <2>4. \A j \in 1 .. 1 : j = 1
    OBVIOUS
  <2>5. \A j \in 1 .. Len(stack) : stack[j].node \in Owners /\ stack[j].last = ListEnd(Kids(nodes, stack[j].node))
    BY <1>9, <2>2, <2>3, <2>4 DEF ListEnd, Document
  <2>6. (\A i, j \in 1 .. Len(stack) : i < j => stack[i].node < stack[j].node)
        /\ \A j \in 2 .. Len(stack) : FALSE
    BY <2>2
  <2> QED  BY <1>1, <2>1, <2>2, <2>5, <2>6 DEF StackIsOpen
<1>11. TreeIsAsCalled
  <2>1. ListOf(nodes, 1, "first_child") = <<>>
    BY <1>1, <1>4 DEF Firsts
  <2>2. ListOf(nodes, 1, "first_attr") = <<>>
    BY <1>1, <1>4 DEF Firsts
  <2>3. UpToCall(script, 0, nodes[1].at, ChildOps) = <<>>
    <3>1. [k \in 1 .. 0 |-> k] = <<>>
      OBVIOUS
    <3> QED  BY <3>1, OnlyEmpty DEF UpToCall
  <2>4. Ats(nodes, <<>>) = <<>>
    BY DEF Ats
  <2>5. AsCalled(nodes, 1, script, 0)
    BY <2>1, <2>2, <2>3, <2>4 DEF AsCalled, Document
  <2> QED  BY <1>1, <1>9, <2>5, TreeAsCalled
<1>12. TextsPlaced
  BY <1>6 DEF TextsPlaced
<1>13. OffsetsPlace
  BY <1>1 DEF OffsetsPlace
<1>14. NamesCounted
  <2>1. NameIndex(1) = 0
    <3>1. {j \in 0 .. 1 : nodes[j].val.name.len > 0} = {}
      BY <1>2, <1>5
    <3>2. Cardinality({}) = 0
      BY FS_EmptySet
    <3> QED  BY <3>1, <3>2 DEF NameIndex
  <2>2. (\A i \in 2 .. Size - 1 : FALSE) /\ Size - 1 = 1 /\ Len(names) = 0
    BY <1>1, <1>6
  <2> QED  BY <2>1, <2>2 DEF NamesCounted
<1>15. NamesPlaced
  BY <1>1 DEF NamesPlaced
<1> QED  BY <1>7, <1>8, <1>10, <1>11, <1>12, <1>13, <1>14, <1>15 DEF IInv

\* All but the stack, when a node is made.
LEMMA MakesKeeps ==
  ASSUME IInv, NEW type \in {"element", "attribute", "text", "comment"}, NEW first \in Firsts,
         Makes(type, first), Stores,
         first = "first_attr" => Arg.op = "attr" /\ Top.node # Document /\ type = "attribute",
         first = "first_child" => Arg.op \in ChildOps
  PROVE  /\ Typed' /\ MadeInOrder' /\ TreeIsAsCalled'
         /\ TextsPlaced' /\ OffsetsPlace' /\ NamesCounted' /\ NamesPlaced'
<1>1. /\ Typed /\ MadeInOrder /\ StackIsOpen /\ TreeIsAsCalled /\ TextsPlaced /\ OffsetsPlace
      /\ NamesCounted /\ Calls /\ type \in Types /\ type \in Types \ {"null", "document"}
  BY DEF IInv, Makes, Types
<1>2. MadeInOrder' /\ TreeIsAsCalled'
  BY <1>1, MadeKeepsOrder, MadeAsCalled
<1>3. TextsPlaced' /\ OffsetsPlace' /\ NamesCounted'
  BY <1>1, MadeTexts, MadeOffsets, MadeNames
<1>4. NamesPlaced'
  BY <1>1 DEF NamesPlaced, Calls
<1>5. Typed'
  <2>1. /\ nodes' \in [0 .. Size' - 1 -> NodeOf(Types, Content)] /\ LinksListed(nodes', Size')
    BY <1>1, MadeNodes
  <2>2. /\ values' \in Seq(STRING) /\ names' \in Seq(Seq(STRING)) /\ name_offsets' \in Seq(Nat)
    BY <1>1, StoresType
  <2>3. /\ script' \in Scripts /\ phase' \in {"building", "built"} /\ removals' \in Nat
        /\ done' \in 0 .. Len(script')
    <3>1. done + 1 \in 1 .. Len(script) /\ Len(script) \in Nat
      BY <1>1, ArgType, ScriptType
    <3> QED  BY <1>1, <3>1 DEF Calls, Typed
  <2> QED  BY <2>1, <2>2, <2>3 DEF Typed
<1> QED  BY <1>2, <1>3, <1>4, <1>5

LEMMA EmptyAdded ==
  ASSUME NEW S, NEW s \in Seq(S)
  PROVE  s = s \o <<>>
BY ConcatEmptySeq

LEMMA StartInv == IInv /\ StartElement => IInv'
<1> SUFFICES ASSUME IInv, StartElement PROVE IInv'
  OBVIOUS
<1>1. Calls /\ Arg.op = "start" /\ Typed /\ StackIsOpen /\ MadeInOrder
  BY CallingCalls DEF StartElement, IInv
<1>2. Makes("element", "first_child")
  BY <1>1, LinkMakes DEF StartElement
<1>3. Stores
  <2>1. Arg.text = <<>> /\ values \in Seq(STRING)
    BY <1>1, ArgType DEF Typed
  <2>2. values' = values \o Arg.text
    BY <2>1, EmptyAdded DEF StartElement
  <2> QED  BY <1>1, <2>2 DEF Stores, StartElement
<1>4. StackIsOpen'
  BY <1>1, <1>2, StartStack DEF StartElement
<1>5. "first_child" \in Firsts /\ Arg.op \in ChildOps /\ "first_child" # "first_attr"
  BY <1>1 DEF Firsts, ChildOps
<1> QED  BY <1>2, <1>3, <1>4, <1>5, MakesKeeps DEF IInv

LEMMA AddElementInv == IInv /\ AddElement => IInv'
<1> SUFFICES ASSUME IInv, AddElement PROVE IInv'
  OBVIOUS
<1>1. Calls /\ Arg.op = "add" /\ Typed /\ StackIsOpen /\ MadeInOrder
  BY CallingCalls DEF AddElement, IInv
<1>2. Makes("element", "first_child")
  BY <1>1, LinkMakes DEF AddElement
<1>3. Stores
  <2>1. Arg.text = <<>> /\ values \in Seq(STRING)
    BY <1>1, ArgType DEF Typed
  <2>2. values' = values \o Arg.text
    BY <2>1, EmptyAdded DEF AddElement
  <2> QED  BY <1>1, <2>2 DEF Stores, AddElement
<1>4. StackIsOpen'
  BY <1>1, <1>2, LeafStack DEF AddElement
<1>5. "first_child" \in Firsts /\ Arg.op \in ChildOps /\ "first_child" # "first_attr"
  BY <1>1 DEF Firsts, ChildOps
<1> QED  BY <1>2, <1>3, <1>4, <1>5, MakesKeeps DEF IInv

LEMMA CharactersInv ==
  ASSUME IInv, NEW op \in {"text", "comment"}, AddCharacters(op)
  PROVE  IInv'
<1>1. Calls /\ Arg.op = op /\ Typed /\ StackIsOpen /\ MadeInOrder
  BY CallingCalls DEF AddCharacters, IInv
<1>2. Makes(op, "first_child")
  BY <1>1, LinkMakes DEF AddCharacters
<1>3. Stores
  <2>1. Arg.name = <<>>
    BY <1>1, ArgType
  <2> QED  BY <1>1, <2>1 DEF Stores, AddCharacters, SetValue
<1>4. StackIsOpen'
  BY <1>1, <1>2, LeafStack DEF AddCharacters
<1>5. "first_child" \in Firsts /\ Arg.op \in ChildOps /\ "first_child" # "first_attr"
  BY <1>1 DEF Firsts, ChildOps
<1> QED  BY <1>2, <1>3, <1>4, <1>5, MakesKeeps DEF IInv

LEMMA AttributeInv == IInv /\ AddAttribute => IInv'
<1> SUFFICES ASSUME IInv, AddAttribute PROVE IInv'
  OBVIOUS
<1>1. Calls /\ Arg.op = "attr" /\ Typed /\ StackIsOpen /\ MadeInOrder /\ Len(stack) > 1 /\ stack' = stack
  BY CallingCalls DEF AddAttribute, IInv
<1>2. Makes("attribute", "first_attr")
  BY <1>1, AttrMakes DEF AddAttribute
<1>3. Stores
  BY <1>1 DEF Stores, AddAttribute, SetValue
<1>4. Top.node # Document /\ phase = "building" /\ Len(stack) \in Nat
      /\ Len(stack) = OpenAfter(script, done) + 1
  BY <1>1, TopType DEF Calls
<1>5. "first_attr" \in Firsts /\ "first_child" # "first_attr" /\ "first_child" \in Firsts
      /\ "attribute" \in Types
  BY DEF Firsts, Types
<1>6. StackIsOpen'
  <2>1. OpenAfter(script, done + 1) = OpenAfter(script, done)
    BY <1>1, OpenNext DEF Counted
  <2>2. /\ Owners \subseteq Owners'
        /\ \A i \in 0 .. Size - 1 : nodes'[i].at = nodes[i].at
        /\ \A i \in 0 .. Size - 1 : ListOf(nodes', i, "first_child") = ListOf(nodes, i, "first_child")
    BY <1>1, <1>2, <1>5, MadeNodes DEF AsMade
  <2>3. stack \in Seq([node : Nat, last : Nat])
    BY <1>1, <1>4 DEF StackIsOpen
  <2> QED  BY <1>1, <1>4, <2>1, <2>2, <2>3, SameStack
<1> QED  BY <1>1, <1>2, <1>3, <1>4, <1>5, <1>6, MakesKeeps DEF IInv

\* A call that makes no node.
LEMMA NothingInv ==
  ASSUME IInv, Calls, UNCHANGED <<nodes, values, names, name_offsets>>, Arg.op \notin ChildOps,
         Arg.op = "attr" => Top.node = Document, StackIsOpen'
  PROVE  IInv'
<1>1. /\ Typed /\ MadeInOrder /\ StackIsOpen /\ TreeIsAsCalled /\ TextsPlaced /\ OffsetsPlace /\ NamesCounted
      /\ script' = script /\ phase' = phase /\ done' = done + 1 /\ removals' = removals
      /\ phase = "building" /\ Size' = Size
  BY DEF IInv, Calls, Size
<1>2. TreeIsAsCalled'
  BY <1>1, NothingAsCalled
<1>3. done + 1 \in 0 .. Len(script) /\ \A k \in 1 .. done : k \in 1 .. done + 1
  <2>1. done + 1 \in 1 .. Len(script) /\ done \in Nat /\ Len(script) \in Nat
    BY <1>1, ArgType, ScriptType
  <2> QED  BY <2>1
<1>4. Typed'
  BY <1>1, <1>3 DEF Typed
<1>5. MadeInOrder'
  BY <1>1, <1>3 DEF MadeInOrder
<1>6. TextsPlaced' /\ OffsetsPlace'
  BY <1>1 DEF TextsPlaced, OffsetsPlace, CallOf
<1>7. NamesCounted'
  <2>1. \A i : (NameIndex(i))' = NameIndex(i)
    BY IndexIs
  <2>2. AllNamed' <=> AllNamed
    BY DEF AllNamed
  <2> QED  BY <1>1, <2>1, <2>2 DEF NamesCounted, HasName, CallOf
<1>8. NamesPlaced'
  BY <1>1 DEF NamesPlaced
<1> QED  BY <1>2, <1>4, <1>5, <1>6, <1>7, <1>8 DEF IInv

LEMMA EndInv == IInv /\ EndElement => IInv'
<1> SUFFICES ASSUME IInv, EndElement PROVE IInv'
  OBVIOUS
<1>1. /\ Calls /\ Arg.op = "end" /\ Typed /\ StackIsOpen /\ stack' = Popped /\ nodes' = nodes
      /\ UNCHANGED <<nodes, values, names, name_offsets>>
  BY CallingCalls DEF EndElement, IInv
<1>2. /\ phase = "building" /\ Len(stack) \in Nat /\ Len(stack) >= 1
      /\ OpenAfter(script, done) \in Nat /\ Len(stack) = OpenAfter(script, done) + 1
      /\ stack \in Seq([node : Nat, last : Nat])
  BY <1>1, TopType DEF Calls, StackIsOpen
<1>3. /\ Popped \in Seq([node : Nat, last : Nat]) /\ Len(Popped) <= Len(stack) /\ Len(Popped) \in Nat
      /\ \A j \in 1 .. Len(Popped) : Popped[j] = stack[j]
      /\ Len(Popped) = OpenAfter(script, done + 1) + 1
  <2>1. OpenAfter(script, done + 1) = IF OpenAfter(script, done) > 0 THEN OpenAfter(script, done) - 1
                                      ELSE OpenAfter(script, done)
    BY <1>1, OpenNext DEF Counted
  <2>2. CASE Len(stack) > 1
    <3>1. stack # <<>> /\ Popped = Front(stack)
      BY <2>2, <1>2, EmptySeq DEF Popped
    <3>2. /\ Front(stack) \in Seq([node : Nat, last : Nat]) /\ Len(Front(stack)) = Len(stack) - 1
          /\ \A j \in 1 .. Len(stack) - 1 : Front(stack)[j] = stack[j]
      <4>1. Front(stack) = SubSeq(stack, 1, Len(stack) - 1)
        BY DEF Front
      <4>2. Len(stack) \in 1 .. Len(stack) /\ stack \in Seq([node : Nat, last : Nat])
        BY <1>2
      <4> DEFINE F == [node : Nat, last : Nat]
      <4> HIDE DEF F
      <4>3. ASSUME stack \in Seq(F)
            PROVE  /\ SubSeq(stack, 1, Len(stack) - 1) \in Seq(F)
                   /\ Len(SubSeq(stack, 1, Len(stack) - 1)) = Len(stack) - 1
                   /\ \A j \in 1 .. Len(stack) - 1 : SubSeq(stack, 1, Len(stack) - 1)[j] = stack[j]
        BY <4>2, <4>3, FrontIs
      <4> QED  BY <4>1, <4>2, <4>3 DEF F
    <3> QED  BY <2>1, <2>2, <3>1, <3>2, <1>2
  <2>3. CASE ~ Len(stack) > 1
    BY <2>1, <2>3, <1>2 DEF Popped
  <2> QED  BY <2>2, <2>3
<1>4. StackIsOpen'
  <2>1. Owners' = Owners
    BY <1>1 DEF Owners
  <2> QED  BY <1>1, <1>3, <2>1, SameStack
<1>5. Arg.op \notin ChildOps /\ Arg.op # "attr"
  BY <1>1 DEF ChildOps
<1> QED  BY <1>1, <1>4, <1>5, NothingInv

LEMMA IgnoredInv == IInv /\ AttributeOfNothing => IInv'
<1> SUFFICES ASSUME IInv, AttributeOfNothing PROVE IInv'
  OBVIOUS
<1>1. /\ Calls /\ Arg.op = "attr" /\ Typed /\ StackIsOpen /\ stack' = stack /\ nodes' = nodes
      /\ UNCHANGED <<nodes, values, names, name_offsets>> /\ Len(stack) = 1
  BY CallingCalls DEF AttributeOfNothing, IInv
<1>2. /\ phase = "building" /\ Top.node = Document
      /\ OpenAfter(script, done) \in Nat /\ Len(stack) = OpenAfter(script, done) + 1
      /\ stack \in Seq([node : Nat, last : Nat])
  BY <1>1, TopType DEF Calls, StackIsOpen
<1>3. OpenAfter(script, done + 1) = OpenAfter(script, done)
  BY <1>1, OpenNext DEF Counted
<1>4. StackIsOpen'
  <2>1. Owners' = Owners /\ Len(stack) \in Nat /\ Len(stack) <= Len(stack)
    BY <1>1 DEF Owners
  <2> QED  BY <1>1, <1>2, <1>3, <2>1, SameStack
<1>5. Arg.op \notin ChildOps
  BY <1>1 DEF ChildOps
<1> QED  BY <1>1, <1>2, <1>4, <1>5, NothingInv

-----------------------------------------------------------------------------
(* build().                                                                *)

\* A node gets the place of its name, nothing else.
Placed(a, b) ==
  /\ a.type = b.type /\ a.at = b.at /\ a.val.value = b.val.value
  /\ a.val.name.len = b.val.name.len /\ \A f \in Links : a[f] = b[f]

\* The call that made a node.
LEMMA CallIsCall ==
  ASSUME Typed, MadeInOrder, NEW i \in 2 .. Size - 1
  PROVE  /\ CallOf(i) \in Call /\ CallOf(i).name \in Seq(STRING) /\ CallOf(i).text \in Seq(STRING)
         /\ Len(CallOf(i).name) \in Nat /\ Len(CallOf(i).text) \in Nat
<1>1. nodes[i].at \in 1 .. done /\ done \in 0 .. Len(script) /\ Len(script) \in Nat
  BY ScriptType DEF MadeInOrder
<1>2. nodes[i].at \in 1 .. Len(script)
  BY <1>1
<1>3. CallOf(i) \in Call
  BY <1>2, ScriptType DEF CallOf
<1>4. CallOf(i).name \in Seq(STRING) /\ CallOf(i).text \in Seq(STRING)
  BY <1>3 DEF Call
<1> QED  BY <1>3, <1>4, LenProperties

LEMMA RepointedIs ==
  ASSUME NEW node \in NodeOf(Types, Content), NEW i,
         node.val.name.len > 0 /\ NameIndex(i) <= Len(name_offsets) =>
           NamesStart + name_offsets[NameIndex(i)] \in Nat
  PROVE  /\ Repointed(node, i) \in NodeOf(Types, Content) /\ Placed(Repointed(node, i), node)
         /\ node.val.name.len > 0 /\ NameIndex(i) <= Len(name_offsets) =>
              Repointed(node, i).val.name.at = NamesStart + name_offsets[NameIndex(i)]
<1> DEFINE at  == NamesStart + name_offsets[NameIndex(i)]
           new == [node EXCEPT !.val = [node.val EXCEPT !.name = [node.val.name EXCEPT !.at = at]]]
           may == node.val.name.len > 0 /\ NameIndex(i) <= Len(name_offsets)
<1>1. CASE ~ may
  <2>1. Repointed(node, i) = node
    BY <1>1 DEF Repointed
  <2> QED  BY <1>1, <2>1 DEF Placed
<1>2. CASE may
  <2>1. Repointed(node, i) = new
    BY <1>2 DEF Repointed
  <2>2. at \in Nat
    BY <1>2
  <2> HIDE DEF at, may
  <2>3. node.val \in Content /\ node.val.name \in Span
    BY DEF NodeOf, Content
  <2> DEFINE span == [node.val.name EXCEPT !.at = at]
  <2>4. span \in Span /\ span.len = node.val.name.len /\ span.at = at
    BY <2>2, <2>3 DEF Span
  <2> HIDE DEF span
  <2> DEFINE val == [node.val EXCEPT !.name = span]
  <2>5. val \in Content /\ val.name = span /\ val.value = node.val.value
    BY <2>3, <2>4 DEF Content
  <2>6. new = [node EXCEPT !.val = val]
    BY DEF span
  <2> HIDE DEF val, new
  <2>7. new \in NodeOf(Types, Content) /\ new.val = val /\ new.type = node.type /\ new.at = node.at
        /\ \A f \in Links : new[f] = node[f]
    BY <2>5, <2>6 DEF NodeOf, Links
  <2> QED  BY <2>1, <2>4, <2>5, <2>7 DEF Placed, at
<1> QED  BY <1>1, <1>2

\* The names are behind the values, and each node has the place of its own there.
LEMMA BuildInv == IInv /\ Build => IInv'
<1> SUFFICES ASSUME IInv, Build PROVE IInv'
  OBVIOUS
<1> DEFINE n == Size
<1>1. /\ Typed /\ MadeInOrder /\ TreeIsAsCalled /\ TextsPlaced /\ OffsetsPlace /\ NamesCounted
      /\ phase = "building" /\ phase' = "built" /\ script' = script /\ done' = done
      /\ names' = names /\ name_offsets' = name_offsets /\ stack' = stack /\ removals' = removals
      /\ values' = values \o FlattenSeq(names)
      /\ nodes' = [i \in DOMAIN nodes |-> Repointed(nodes[i], i)]
  BY DEF IInv, Build
<1>2. /\ n \in Nat /\ n >= 2 /\ DOMAIN nodes = 0 .. n - 1
      /\ \A i \in 0 .. n - 1 : nodes[i] \in NodeOf(Types, Content)
  BY <1>1, BaseType
<1>3. /\ values \in Seq(STRING) /\ FlattenSeq(names) \in Seq(STRING) /\ Len(values) \in Nat
      /\ names \in Seq(Seq(STRING)) /\ name_offsets \in Seq(Nat) /\ Len(name_offsets) \in Nat
  <2>1. values \in Seq(STRING) /\ names \in Seq(Seq(STRING)) /\ name_offsets \in Seq(Nat)
    BY <1>1 DEF Typed
  <2> QED  BY <2>1, FlattenType, LenProperties
<1>4. ASSUME NEW i \in 0 .. n - 1, nodes[i].val.name.len > 0
      PROVE  i \in 2 .. n - 1 /\ NameIndex(i) \in Nat /\ NameIndex(i) >= 1
  <2>1. i \notin {0, 1}
    BY <1>1, <1>4 DEF MadeInOrder, Null, Document
  <2>2. i \in 2 .. n - 1 /\ i \in Nat \ {0}
    BY <2>1, <1>2
  <2>3. NameIndex(i) = NamedUpTo(nodes, i)
    BY IndexIs
  <2>4. NamedUpTo(nodes, i - 1) \in Nat /\ NamedUpTo(nodes, i) = NamedUpTo(nodes, i - 1) + 1
    BY <2>2, <1>4, NamedNext
  <2> QED  BY <2>2, <2>3, <2>4
<1>5. ASSUME NEW i \in 0 .. n - 1
      PROVE  /\ nodes'[i] \in NodeOf(Types, Content) /\ Placed(nodes'[i], nodes[i])
             /\ nodes[i].val.name.len > 0 /\ NameIndex(i) <= Len(name_offsets) =>
                  nodes'[i].val.name.at = NamesStart + name_offsets[NameIndex(i)]
  <2>1. nodes'[i] = Repointed(nodes[i], i)
    BY <1>1, <1>2
  <2>2. ASSUME nodes[i].val.name.len > 0, NameIndex(i) <= Len(name_offsets)
        PROVE  NamesStart + name_offsets[NameIndex(i)] \in Nat
    <3>1. NameIndex(i) \in 1 .. Len(name_offsets)
      BY <2>2, <1>3, <1>4
    <3>2. name_offsets[NameIndex(i)] \in Nat
      BY <3>1, <1>3, ElementOfSeq
    <3> QED  BY <3>2, <1>3 DEF NamesStart
  <2>3. nodes[i] \in NodeOf(Types, Content)
    BY <1>2
  <2> QED  BY <2>1, <2>2, <2>3, RepointedIs
<1>6. nodes' \in [0 .. n - 1 -> NodeOf(Types, Content)] /\ DOMAIN nodes' = 0 .. n - 1
  <2>1. DOMAIN nodes' = 0 .. n - 1 /\ nodes' = [i \in 0 .. n - 1 |-> nodes'[i]]
    BY <1>1, <1>2
  <2> QED  BY <2>1, <1>5
<1>7. Size' = n
  BY <1>2, <1>6 DEF Size
<1>8. /\ LinksListed(nodes', n)
      /\ \A q \in 0 .. n - 1 : \A f \in Firsts : ListOf(nodes', q, f) = ListOf(nodes, q, f)
  <2>1. \A i \in 0 .. n - 1 : \A f \in Links : nodes'[i][f] = nodes[i][f]
    BY <1>5 DEF Placed
  <2>2. nodes \in [0 .. n - 1 -> NodeOf(Types, Content)] /\ LinksListed(nodes, n)
    BY <1>1 DEF Typed
  <2> DEFINE m == nodes'
  <2>3. DOMAIN m = 0 .. n - 1 /\ DOMAIN nodes = 0 .. n - 1
    BY <1>2, <1>6
  <2>4. \A i \in 0 .. n - 1 : \A f \in Links : m[i][f] = nodes[i][f]
    BY <2>1
  <2> HIDE DEF n, m
  <2>5. SameLinks(m, nodes, n)
    BY <2>3, <2>4 DEF SameLinks
  <2>6. LinksListed(m, n) /\ \A q \in 0 .. n - 1 : \A f \in Firsts : ListOf(m, q, f) = ListOf(nodes, q, f)
    BY <2>2, <2>5, SameLists
  <2> QED  BY <2>6 DEF m
<1>9. Owners' = Owners /\ \A i \in 0 .. n - 1 : nodes'[i].at = nodes[i].at /\ nodes'[i].type = nodes[i].type
  <2>1. \A i \in 0 .. n - 1 : nodes'[i].at = nodes[i].at /\ nodes'[i].type = nodes[i].type
    BY <1>5 DEF Placed
  <2> QED  BY <2>1, <1>2, <1>6 DEF Owners
<1>10. Typed'
  <2>1. values' \in Seq(STRING)
    BY <1>1, <1>3, ConcatProperties
  <2> HIDE DEF n
  <2> QED  BY <1>1, <1>6, <1>7, <1>8, <2>1 DEF Typed, n
<1>11. MadeInOrder'
  <2>1. {Null, Document} \subseteq 0 .. n - 1 /\ 2 .. n - 1 \subseteq 0 .. n - 1 /\ 1 .. n - 1 \subseteq 0 .. n - 1
    BY <1>2 DEF Null, Document
  <2>2. \A i \in 0 .. n - 1 : nodes'[i].val.name.len = nodes[i].val.name.len
    BY <1>5 DEF Placed
  <2>3. Null \in 0 .. n - 1 /\ Document \in 0 .. n - 1
    BY <2>1
  <2> HIDE DEF n
  <2>4. /\ nodes'[Document].at = 0 /\ nodes'[Document].type = "document" /\ nodes'[Null].type = "null"
        /\ \A i \in {Null, Document} : nodes'[i].val.name.len = 0
    BY <1>1, <1>9, <2>2, <2>3 DEF MadeInOrder
  <2>5. \A i \in 2 .. n - 1 : nodes'[i].at \in 1 .. done /\ nodes'[i].type \notin {"null", "document"}
    BY <1>1, <1>9, <2>1 DEF MadeInOrder, n
  <2>6. \A i, j \in 1 .. n - 1 : i < j => nodes'[i].at < nodes'[j].at
    <3>1. \A i \in 1 .. n - 1 : nodes'[i].at = nodes[i].at
      BY <1>9, <2>1
    <3>2. \A i, j \in 1 .. n - 1 : i < j => nodes[i].at < nodes[j].at
      BY <1>1 DEF MadeInOrder, n
    <3> QED  BY <3>1, <3>2
  <2> QED  BY <1>1, <1>7, <2>4, <2>5, <2>6 DEF MadeInOrder
<1>12. StackIsOpen' /\ OffsetsPlace' /\ NamesCounted'
  BY <1>1 DEF StackIsOpen, OffsetsPlace, NamesCounted
<1>13. TreeIsAsCalled'
  <2> SUFFICES ASSUME removals' = 0, NEW i \in Owners' PROVE AsCalled(nodes', i, script', done')
    BY TreeAsCalledNext
  <2>1. AsCalled(nodes, i, script, done) /\ i \in 0 .. n - 1
    BY <1>1, <1>2, <1>9, TreeAsCalled DEF Owners
  <2>2. "first_child" \in Firsts /\ "first_attr" \in Firsts
    BY DEF Firsts
  <2>3. ASSUME NEW f \in Firsts
        PROVE  Ats(nodes', ListOf(nodes', i, f)) = Ats(nodes, ListOf(nodes, i, f))
    <3>1. ListOf(nodes', i, f) = ListOf(nodes, i, f) /\ ListOf(nodes, i, f) \in Seq(2 .. n - 1)
      <4>1. nodes \in [0 .. n - 1 -> NodeOf(Types, Content)] /\ LinksListed(nodes, n)
        BY <1>1 DEF Typed
      <4> HIDE DEF n
      <4> QED  BY <1>8, <2>1, <4>1, ListType
    <3>2. \A k \in DOMAIN ListOf(nodes, i, f) : ListOf(nodes, i, f)[k] \in 0 .. n - 1
      <4>1. \A k \in DOMAIN ListOf(nodes, i, f) : ListOf(nodes, i, f)[k] \in 2 .. n - 1
        BY <3>1, MembersOf
      <4> QED  BY <4>1, <1>2
    <3> QED  BY <3>1, <3>2, <1>9 DEF Ats
  <2> QED  BY <2>1, <2>2, <2>3, <1>1, <1>9 DEF AsCalled
<1>14. TextsPlaced'
  <2> SUFFICES ASSUME NEW i \in 2 .. n - 1
               PROVE  /\ nodes'[i].val.name.len = Len(CallOf(i).name)
                      /\ nodes'[i].val.value.len = Clamped(Len(CallOf(i).text))
                      /\ InPlace(values', nodes'[i].val.value.at, CallOf(i).text)
                      /\ CallOf(i)' = CallOf(i)
    BY <1>7 DEF TextsPlaced
  <2>1. i \in 0 .. n - 1
    BY <1>2
  <2>2. /\ nodes[i].val.name.len = Len(CallOf(i).name)
        /\ nodes[i].val.value.len = Clamped(Len(CallOf(i).text))
        /\ InPlace(values, nodes[i].val.value.at, CallOf(i).text)
    BY <1>1 DEF TextsPlaced
  <2>3. nodes'[i].val.name.len = nodes[i].val.name.len /\ nodes'[i].val.value = nodes[i].val.value
        /\ CallOf(i)' = CallOf(i)
    BY <1>1, <1>5, <2>1 DEF Placed, CallOf
  <2>4. Len(CallOf(i).text) \in Nat
    BY <1>1, CallIsCall
  <2>5. InPlace(values', nodes[i].val.value.at, CallOf(i).text)
    BY <1>1, <1>3, <2>2, <2>4, PlacedBefore
  <2> QED  BY <2>2, <2>3, <2>5
<1>15. NamesPlaced'
  <2> SUFFICES ASSUME AllNamed, NEW i \in 2 .. n - 1, nodes[i].val.name.len > 0
               PROVE  InPlace(values', nodes'[i].val.name.at, CallOf(i).name)
    <3>1. \A i \in 2 .. n - 1 : CallOf(i)' = CallOf(i) /\ (HasName(i)' => HasName(i))
      <4>1. \A i \in 2 .. n - 1 : i \in 0 .. n - 1
        BY <1>2
      <4> QED  BY <1>1, <1>5, <4>1 DEF CallOf, HasName, Placed
    <3>2. AllNamed' <=> AllNamed
      BY <1>1 DEF AllNamed
    <3> QED  BY <1>7, <3>1, <3>2 DEF NamesPlaced, HasName
  <2> DEFINE k == NameIndex(i)
  <2>1. i \in 0 .. n - 1 /\ HasName(i)
    BY <1>2 DEF HasName
  <2>2. /\ k \in 1 .. Len(names) /\ names[k] = CallOf(i).name /\ Len(name_offsets) = Len(names)
        /\ InPlace(FlattenSeq(names), name_offsets[k], names[k])
    BY <1>1, <2>1 DEF NamesCounted, OffsetsPlace
  <2>3. nodes'[i].val.name.at = Len(values) + name_offsets[k]
    <3>1. k <= Len(name_offsets)
      BY <2>2, <1>3
    <3> HIDE DEF k
    <3> QED  BY <1>5, <2>1, <3>1 DEF NamesStart, k
  <2>4. Len(names[k]) \in Nat
    <3> HIDE DEF k
    <3>1. names[k] \in Seq(STRING)
      BY <2>2, <1>3, ElementOfSeq
    <3> QED  BY <3>1, LenProperties
  <2> HIDE DEF k
  <2>5. InPlace(values \o FlattenSeq(names), Len(values) + name_offsets[k], names[k])
    BY <2>2, <2>4, <1>3, PlacedAfter
  <2> QED  BY <2>2, <2>3, <2>5, <1>1
<1> QED  BY <1>10, <1>11, <1>12, <1>13, <1>14, <1>15 DEF IInv

-----------------------------------------------------------------------------
(* Removal.                                                                *)

\* What a removal leaves of the invariant.
LEMMA RemovingInv ==
  ASSUME IInv, Removing, NEW owner \in Owners, NEW first \in Firsts, NEW k,
         nodes' = nodes \/ nodes' = Unlinked(owner, first, k)
  PROVE  IInv'
<1> DEFINE n == Size
<1>1. /\ Typed /\ MadeInOrder /\ TextsPlaced /\ NamesPlaced
      /\ phase = "built" /\ phase' = "built" /\ script' = script /\ done' = done
      /\ names' = names /\ name_offsets' = name_offsets /\ stack' = stack /\ removals' = removals + 1
      /\ values' = values /\ removals \in Nat
  BY DEF IInv, Removing, Typed
<1>2. /\ n \in Nat /\ n >= 2 /\ DOMAIN nodes = 0 .. n - 1 /\ owner \in 0 .. n - 1
      /\ nodes \in [0 .. n - 1 -> NodeOf(Types, Content)] /\ LinksListed(nodes, n)
  <2>1. n \in Nat /\ n >= 2 /\ DOMAIN nodes = 0 .. n - 1
    BY <1>1, BaseType
  <2> QED  BY <2>1, <1>1 DEF Typed, Owners
<1>3. /\ nodes' \in [0 .. n - 1 -> NodeOf(Types, Content)] /\ LinksListed(nodes', n)
      /\ \A i \in 0 .. n - 1 : AsMade(nodes'[i], nodes[i])
  <2>1. CASE nodes' = nodes
    BY <2>1, <1>2 DEF AsMade
  <2>2. CASE nodes' = Unlinked(owner, first, k)
    <3> DEFINE m == nodes'
    <3>1. m = Unlinked(owner, first, k)
      BY <2>2
    <3> HIDE DEF n, m
    <3>2. m \in [0 .. n - 1 -> NodeOf(Types, Content)] /\ LinksListed(m, n)
          /\ \A i \in 0 .. n - 1 : AsMade(m[i], nodes[i])
      BY <1>2, <3>1, UnlinkedLists
    <3> QED  BY <3>2 DEF m
  <2> QED  BY <2>1, <2>2
<1>4. DOMAIN nodes' = 0 .. n - 1 /\ Size' = n
  BY <1>2, <1>3 DEF Size
<1>5. \A i \in 0 .. n - 1 : nodes'[i].at = nodes[i].at /\ nodes'[i].type = nodes[i].type /\ nodes'[i].val = nodes[i].val
  BY <1>3 DEF AsMade
<1>6. {Null, Document} \subseteq 0 .. n - 1 /\ 2 .. n - 1 \subseteq 0 .. n - 1 /\ 1 .. n - 1 \subseteq 0 .. n - 1
  BY <1>2 DEF Null, Document
<1>7. Typed'
  <2>1. removals + 1 \in Nat
    BY <1>1
  <2> HIDE DEF n
  <2> QED  BY <1>1, <1>3, <1>4, <2>1 DEF Typed
<1>8. MadeInOrder'
  <2>1. Null \in 0 .. n - 1 /\ Document \in 0 .. n - 1
    BY <1>6
  <2> HIDE DEF n
  <2>2. /\ nodes'[Document].at = 0 /\ nodes'[Document].type = "document" /\ nodes'[Null].type = "null"
        /\ \A i \in {Null, Document} : nodes'[i].val.name.len = 0
    BY <1>1, <1>5, <2>1 DEF MadeInOrder
  <2>3. \A i \in 2 .. n - 1 : nodes'[i].at \in 1 .. done /\ nodes'[i].type \notin {"null", "document"}
    BY <1>1, <1>5, <1>6 DEF MadeInOrder, n
  <2>4. \A i, j \in 1 .. n - 1 : i < j => nodes'[i].at < nodes'[j].at
    BY <1>1, <1>5, <1>6 DEF MadeInOrder, n
  <2> QED  BY <1>1, <1>4, <2>2, <2>3, <2>4 DEF MadeInOrder
<1>9. StackIsOpen' /\ OffsetsPlace' /\ NamesCounted'
  BY <1>1 DEF StackIsOpen, OffsetsPlace, NamesCounted
<1>10. TreeIsAsCalled'
  BY <1>1 DEF TreeIsAsCalled
<1>11. TextsPlaced'
  <2>1. \A i \in 2 .. n - 1 : nodes'[i].val = nodes[i].val /\ CallOf(i)' = CallOf(i)
    BY <1>1, <1>5, <1>6 DEF CallOf
  <2> HIDE DEF n
  <2> QED  BY <1>1, <1>4, <2>1 DEF TextsPlaced, n
<1>12. NamesPlaced'
  <2>1. \A i \in 2 .. n - 1 : nodes'[i].val = nodes[i].val /\ CallOf(i)' = CallOf(i)
    BY <1>1, <1>5, <1>6 DEF CallOf
  <2>2. AllNamed' <=> AllNamed
    BY <1>1 DEF AllNamed
  <2> HIDE DEF n
  <2> QED  BY <1>1, <1>4, <2>1, <2>2 DEF NamesPlaced, HasName, n
<1> QED  BY <1>7, <1>8, <1>9, <1>10, <1>11, <1>12 DEF IInv

LEMMA NextInv == IInv /\ [Next]_vars => IInv'
<1> SUFFICES ASSUME IInv, [Next]_vars PROVE IInv'
  OBVIOUS
<1>1. CASE StartElement
  BY <1>1, StartInv
<1>2. CASE AddElement
  BY <1>2, AddElementInv
<1>3. CASE EndElement
  BY <1>3, EndInv
<1>4. CASE AddAttribute
  BY <1>4, AttributeInv
<1>5. CASE AttributeOfNothing
  BY <1>5, IgnoredInv
<1>6. CASE AddText
  BY <1>6, CharactersInv DEF AddText
<1>7. CASE AddComment
  BY <1>7, CharactersInv DEF AddComment
<1>8. CASE Build
  BY <1>8, BuildInv
<1>9. ASSUME NEW parent \in Owners, NEW child \in DOMAIN nodes \ {Null}, RemoveChild(parent, child)
      PROVE  IInv'
  <2>1. "first_child" \in Firsts
    BY DEF Firsts
  <2> QED  BY <1>9, <2>1, RemovingInv DEF RemoveChild
<1>10. ASSUME NEW elem \in Owners, NEW name \in Range(names), RemoveAttribute(elem, name)
       PROVE  IInv'
  <2>1. "first_attr" \in Firsts
    BY DEF Firsts
  <2>2. PICK k : nodes' = nodes \/ nodes' = Unlinked(elem, "first_attr", k)
    BY <1>10 DEF RemoveAttribute
  <2> QED  BY <1>10, <2>1, <2>2, RemovingInv DEF RemoveAttribute
<1>11. CASE UNCHANGED vars
  <2>1. /\ Size' = Size /\ Owners' = Owners /\ \A i : NameIndex(i)' = NameIndex(i)
        /\ AllNamed' <=> AllNamed
    BY <1>11 DEF vars, Size, Owners, NameIndex, AllNamed
  <2>2. Typed' /\ MadeInOrder'
    BY <1>11, <2>1 DEF IInv, Typed, MadeInOrder, vars
  <2>3. StackIsOpen'
    BY <1>11, <2>1 DEF IInv, StackIsOpen, vars
  <2>4. TreeIsAsCalled'
    BY <1>11, TreeAsCalled, TreeAsCalledNext, <2>1 DEF IInv, vars
  <2>5. TextsPlaced' /\ OffsetsPlace' /\ NamesCounted' /\ NamesPlaced'
    BY <1>11, <2>1 DEF IInv, TextsPlaced, OffsetsPlace, NamesCounted, NamesPlaced, CallOf, HasName, vars
  <2> QED  BY <2>2, <2>3, <2>4, <2>5 DEF IInv
<1> QED  BY <1>1, <1>2, <1>3, <1>4, <1>5, <1>6, <1>7, <1>8, <1>9, <1>10, <1>11 DEF Next

THEOREM BuilderInvariant == Spec => []IInv
<1>1. Init => IInv
  BY InitInv
<1>2. IInv /\ [Next]_vars => IInv'
  BY NextInv
<1> QED  BY <1>1, <1>2, PTL DEF Spec

\* The tree of a builder is what its calls add, in their order.
THEOREM TreeFollowsCalls == Spec => []TreeIsAsCalled
<1>1. IInv => TreeIsAsCalled
  BY DEF IInv
<1> QED  BY <1>1, BuilderInvariant, PTL

LEMMA ContentFromPlaces == IInv => ContentKept
<1> SUFFICES ASSUME IInv, phase = "built", AllNamed, NEW i \in DOMAIN nodes \ {Null, Document}
             PROVE  /\ nodes[i].type \in {"element", "attribute"} => NameOf(i) = CallOf(i).name
                    /\ nodes[i].type \in {"attribute", "text", "comment"} =>
                         ValueOf(i) = SubSeq(CallOf(i).text, 1, Clamped(Len(CallOf(i).text)))
  BY DEF ContentKept, CallOf
<1>1. Typed /\ MadeInOrder /\ TextsPlaced /\ NamesPlaced
  BY DEF IInv
<1>2. i \in 2 .. Size - 1 /\ values \in Seq(STRING) /\ i \in 0 .. Size - 1
  <2>1. Size \in Nat /\ DOMAIN nodes = 0 .. Size - 1 /\ Null = 0 /\ Document = 1
    BY <1>1, BaseType DEF Null
  <2> HIDE DEF Size
  <2>2. i \in 2 .. Size - 1 /\ i \in 0 .. Size - 1
    BY <2>1
  <2> QED  BY <2>2, <1>1 DEF Typed
<1>3. /\ CallOf(i).name \in Seq(STRING) /\ CallOf(i).text \in Seq(STRING)
      /\ Len(CallOf(i).name) \in Nat /\ Len(CallOf(i).text) \in Nat
  BY <1>1, <1>2, CallIsCall
<1>4. /\ nodes[i].val.name.len = Len(CallOf(i).name)
      /\ nodes[i].val.value.len = Clamped(Len(CallOf(i).text))
      /\ InPlace(values, nodes[i].val.value.at, CallOf(i).text)
  BY <1>1, <1>2 DEF TextsPlaced
<1>5. ValueOf(i) = SubSeq(CallOf(i).text, 1, Clamped(Len(CallOf(i).text)))
  <2>1. Clamped(Len(CallOf(i).text)) \in 0 .. Len(CallOf(i).text)
    BY <1>3, ClampedType
  <2> DEFINE at == nodes[i].val.value.at
             t  == CallOf(i).text
             k  == Clamped(Len(CallOf(i).text))
  <2>2. ValueOf(i) = SubSeq(values, at + 1, at + k)
    BY <1>4 DEF ValueOf, Read
  <2>3. InPlace(values, at, t)
    BY <1>4
  <2>4. t \in Seq(STRING) /\ k \in Nat /\ k <= Len(t)
    BY <1>3, <2>1
  <2>5. values \in Seq(STRING)
    BY <1>2
  <2> HIDE DEF at, t, k
  <2>6. SubSeq(values, at + 1, at + k) = SubSeq(t, 1, k)
    BY <2>3, <2>4, <2>5, PlacedRead
  <2> QED  BY <2>2, <2>6 DEF t, k
<1>6. NameOf(i) = CallOf(i).name
  <2> DEFINE at == nodes[i].val.name.at
             t  == CallOf(i).name
             k  == Len(CallOf(i).name)
  <2>1. NameOf(i) = SubSeq(values, at + 1, at + k)
    BY <1>4 DEF NameOf, Read
  <2>2. at \in Nat /\ t \in Seq(STRING) /\ k \in Nat /\ k = Len(t)
    BY <1>1, <1>2, <1>3, BaseType
  <2>3. CASE k = 0
    <3>1. SubSeq(values, at + 1, at + k) = <<>>
      <4> HIDE DEF at, t, k
      <4> QED  BY <1>2, <2>2, <2>3
    <3>2. t = <<>>
      <4> HIDE DEF at, t, k
      <4> QED  BY <2>2, <2>3, EmptySeq
    <3> QED  BY <2>1, <3>1, <3>2
  <2>4. CASE k # 0
    <3>1. InPlace(values, at, t)
      <4>1. HasName(i)
        BY <1>3, <1>4, <2>4 DEF HasName
      <4> QED  BY <1>1, <1>2, <4>1 DEF NamesPlaced
    <3>2. k <= Len(t)
      BY <2>2
    <3> HIDE DEF at, t, k
    <3>3. SubSeq(values, at + 1, at + k) = SubSeq(t, 1, k)
      BY <3>1, <3>2, <2>2, <1>2, PlacedRead
    <3>4. SubSeq(t, 1, k) = t
      BY <2>2, SubSeqFull
    <3> QED  BY <2>1, <3>3, <3>4 DEF t
  <2> QED  BY <2>3, <2>4
<1> QED  BY <1>5, <1>6

\* In the built document every node has the name and the text of its call.
THEOREM ContentAsCalled == Spec => []ContentKept
<1>1. IInv => ContentKept
  BY ContentFromPlaces
<1> QED  BY <1>1, BuilderInvariant, PTL

LEMMA ChildOut ==
  ASSUME Typed, NEW parent \in Owners, NEW child \in DOMAIN nodes \ {Null}, RemoveChild(parent, child)
  PROVE  ChildTakenOut(parent, child)
<1> DEFINE n == Size
           m == nodes'
<1>1. /\ DOMAIN nodes = 0 .. n - 1 /\ nodes \in [0 .. n - 1 -> NodeOf(Types, Content)] /\ LinksListed(nodes, n)
      /\ parent \in 0 .. n - 1 /\ "first_child" \in Firsts /\ "first_attr" \in Firsts
      /\ "first_attr" # "first_child" /\ Owners \subseteq 0 .. n - 1
  BY BaseType DEF Typed, Owners, Firsts
<1>2. m = Unlinked(parent, "first_child", child)
  BY DEF RemoveChild
<1>3. \A q \in 0 .. n - 1 : \A f \in Firsts :
        ListOf(m, q, f) = IF q = parent /\ f = "first_child" THEN Without(ListOf(nodes, q, f), child)
                          ELSE ListOf(nodes, q, f)
  <2> HIDE DEF n, m
  <2> QED  BY <1>1, <1>2, UnlinkedLists
<1> HIDE DEF n
<1> QED  BY <1>1, <1>3 DEF ChildTakenOut, OthersAsBefore, Kids, AttrsOn, ListOf

LEMMA AttributeOut ==
  ASSUME Typed, NEW elem \in Owners, NEW name \in Range(names), RemoveAttribute(elem, name)
  PROVE  AttributeTakenOut(elem, name)
<1> DEFINE n == Size
           m == nodes'
           attrs == AttrsOn(nodes, elem)
           S == {a \in DOMAIN nodes : NameOf(a) = name}
           named == Only(attrs, S)
<1>1. /\ DOMAIN nodes = 0 .. n - 1 /\ nodes \in [0 .. n - 1 -> NodeOf(Types, Content)] /\ LinksListed(nodes, n)
      /\ elem \in 0 .. n - 1 /\ "first_child" \in Firsts /\ "first_attr" \in Firsts
      /\ "first_attr" # "first_child" /\ Owners \subseteq 0 .. n - 1 /\ n \in Nat
  BY BaseType DEF Typed, Owners, Firsts
<1>2. m = IF named = <<>> THEN nodes ELSE Unlinked(elem, "first_attr", named[1])
  BY DEF RemoveAttribute
<1>3. attrs = ListOf(nodes, elem, "first_attr")
  BY DEF AttrsOn, ListOf
<1>4. attrs \in Seq(2 .. n - 1) /\ Len(attrs) \in Nat /\ DOMAIN attrs = 1 .. Len(attrs)
      /\ \A k \in 1 .. Len(attrs) : attrs[k] \in DOMAIN nodes
  <2> HIDE DEF attrs
  <2>1. attrs \in Seq(2 .. n - 1) /\ Len(attrs) \in Nat
    <3> HIDE DEF n
    <3> QED  BY <1>1, <1>3, ListType
  <2>2. DOMAIN attrs = 1 .. Len(attrs) /\ \A k \in 1 .. Len(attrs) : attrs[k] \in 2 .. n - 1
    <3> HIDE DEF n
    <3> QED  BY <2>1, MembersOf
  <2>3. \A k \in 2 .. n - 1 : k \in 0 .. n - 1
    BY <1>1
  <2> QED  BY <1>1, <2>1, <2>2, <2>3
<1>5. FirstKept(attrs, S)
  <2> HIDE DEF attrs, S
  <2> QED  BY <1>4, OnlyFirst
<1>6. \A k \in 1 .. Len(attrs) : attrs[k] \in S <=> NameOf(attrs[k]) = name
  <2> HIDE DEF attrs
  <2> QED  BY <1>4
<1>7. CASE named = <<>>
  <2>1. m = nodes
    BY <1>2, <1>7
  <2>2. \A a \in Range(attrs) : NameOf(a) # name
    <3> HIDE DEF attrs, S
    <3> QED  BY <1>4, <1>5, <1>6, <1>7 DEF FirstKept, Range
  <2> QED  BY <2>1, <2>2 DEF AttributeTakenOut, OthersAsBefore
<1>8. CASE named # <<>>
  <2>1. PICK k \in 1 .. Len(attrs) : /\ attrs[k] \in S /\ named[1] = attrs[k]
                                     /\ \A j \in 1 .. k - 1 : attrs[j] \notin S
    <3> HIDE DEF attrs, S
    <3> QED  BY <1>5, <1>8 DEF FirstKept
  <2>2. m = Unlinked(elem, "first_attr", attrs[k])
    BY <1>2, <1>8, <2>1
  <2>3. \A q \in 0 .. n - 1 : \A f \in Firsts :
          ListOf(m, q, f) = IF q = elem /\ f = "first_attr" THEN Without(ListOf(nodes, q, f), attrs[k])
                            ELSE ListOf(nodes, q, f)
    <3> HIDE DEF n, m, attrs
    <3> QED  BY <1>1, <2>2, UnlinkedLists
  <2>4. OthersAsBefore(elem) /\ Kids(m, elem) = Kids(nodes, elem)
        /\ AttrsOn(m, elem) = Without(attrs, attrs[k])
    <3> HIDE DEF n, attrs
    <3> QED  BY <1>1, <1>3, <2>3 DEF OthersAsBefore, Kids, AttrsOn, ListOf
  <2>5. NameOf(attrs[k]) = name /\ \A j \in 1 .. k - 1 : NameOf(attrs[j]) # name
    <3>1. \A j \in 1 .. k - 1 : j \in 1 .. Len(attrs)
      BY <1>4
    <3> HIDE DEF attrs, S
    <3> QED  BY <1>6, <2>1, <3>1
  <2>6. k \in DOMAIN attrs
    BY <1>4
  <2> HIDE DEF attrs
  <2> QED  BY <2>4, <2>5, <2>6 DEF AttributeTakenOut, attrs
<1> QED  BY <1>7, <1>8

\* A removal takes out what it names, and leaves all others where they are.
THEOREM RemovalIsExact == Spec => RemovesExactly
<1>1. IInv => /\ \A parent \in Owners, child \in DOMAIN nodes \ {Null} :
                   RemoveChild(parent, child) => ChildTakenOut(parent, child)
              /\ \A elem \in Owners, name \in Range(names) :
                   RemoveAttribute(elem, name) => AttributeTakenOut(elem, name)
  BY ChildOut, AttributeOut DEF IInv
<1> QED  BY <1>1, BuilderInvariant, PTL DEF RemovesExactly

=============================================================================
