-------------------------- MODULE SaxParserProofs --------------------------
(***************************************************************************)
(* Proofs about the SAX parser and about the namespaces that its handlers  *)
(* keep.                                                                   *)
(*                                                                         *)
(* LimitsCorrect: the tokens lie within the input (Walk), so each callback *)
(* says what stands there; while a document is read, depth and             *)
(* entity_count are what the callbacks so far add up to (SaxInv).          *)
(*                                                                         *)
(* IndexCorrect: the quotes that a document opens and closes are followed  *)
(* from its first character (Follows).  Between the blocks the scanner     *)
(* knows the quote that it is in and has found all that is outside of      *)
(* quotes (IndexInv), whatever the length of a block.                      *)
(*                                                                         *)
(* BindingCorrect: bindings_ is what the open elements declared, one after *)
(* the other, and scope_starts_ says where each begins (NsInv).            *)
(***************************************************************************)
EXTENDS SaxParser, NsContext, RecursionProofs, FiniteSetTheorems

-----------------------------------------------------------------------------
(* The tokens lie within the input.                                        *)

Scan ==
  /\ data \in Seq(Unit) /\ backend \in Backends /\ scanned \in 0 .. Len(data)
  /\ dq_state \in BOOLEAN /\ sq_state \in BOOLEAN
  /\ index \in Seq(1 .. Len(data))

TokenOf(d) == {t \in [type : TokenTypes, from : Nat \ {0}, to : Nat] : t.to <= Len(d)}

\* One token, if it is one of that input.
LEMMA TokenType ==
  ASSUME NEW d, NEW type \in TokenTypes, NEW from \in Nat \ {0}, NEW to \in Nat, to <= Len(d)
  PROVE  Token(type, from, to) \in Seq(TokenOf(d))
<1> DEFINE t == [type |-> type, from |-> from, to |-> to]
<1>1. t \in TokenOf(d)
  BY DEF TokenOf
<1> HIDE DEF t
<1>2. <<t>> \in Seq(TokenOf(d))
  BY <1>1
<1> QED  BY <1>2 DEF Token, t

LEMMA NoTokens ==
  ASSUME NEW d
  PROVE  <<>> \in Seq(TokenOf(d)) /\ \A s, t \in Seq(TokenOf(d)) : s \o t \in Seq(TokenOf(d))
<1> DEFINE V == TokenOf(d)
<1> HIDE DEF V
<1>1. <<>> \in Seq(V) /\ \A s, t \in Seq(V) : s \o t \in Seq(V)
  OBVIOUS
<1> QED  BY <1>1 DEF V

LEMMA TextTokenType ==
  ASSUME NEW d, NEW from \in Nat \ {0}, NEW to \in Int, to <= Len(d), Len(d) \in Nat
  PROVE  TextToken(from, to) \in Seq(TokenOf(d))
<1>1. "Text" \in TokenTypes
  BY DEF TokenTypes
<1>2. CASE from <= to
  <2>1. to \in Nat
    BY <1>2
  <2> QED  BY <1>1, <1>2, <2>1, TokenType DEF TextToken
<1>3. CASE ~(from <= to)
  BY <1>3, NoTokens DEF TextToken
<1> QED  BY <1>2, <1>3

\* process_text
LEMMA TextTokensType ==
  ASSUME Scan, NEW from \in Nat \ {0}, NEW to \in Nat, to <= Len(data), from <= to + 1
  PROVE  TextTokens(from, to) \in Seq(TokenOf(data))
<1> DEFINE Place == from .. to + 1
           I == Place \X Place
           V == Seq(TokenOf(data))
           Semi(k) == Min({j \in k + 1 .. to : data[j] = ";"} \cup {to + 1})
           Value(f, k, begin) ==
             CASE k > to -> TextToken(begin, to)
               [] k <= to /\ data[k] # "&" -> f[<<k + 1, begin>>]
               [] OTHER -> TextToken(begin, k - 1)
                           \o IF Semi(k) <= to THEN Token("EntityRef", k, Semi(k)) \o f[<<Semi(k) + 1, Semi(k) + 1>>]
                              ELSE f[<<k + 1, begin>>]
           Described(f) == f = [at \in (from .. to + 1) \X (from .. to + 1) |->
             CASE at[1] > to -> TextToken(at[2], to)
               [] at[1] <= to /\ data[at[1]] # "&" -> f[<<at[1] + 1, at[2]>>]
               [] OTHER -> TextToken(at[2], at[1] - 1)
                           \o IF Min({j \in at[1] + 1 .. to : data[j] = ";"} \cup {to + 1}) <= to
                              THEN Token("EntityRef", at[1], Min({j \in at[1] + 1 .. to : data[j] = ";"} \cup {to + 1}))
                                   \o f[<<Min({j \in at[1] + 1 .. to : data[j] = ";"} \cup {to + 1}) + 1,
                                          Min({j \in at[1] + 1 .. to : data[j] = ";"} \cup {to + 1}) + 1>>]
                              ELSE f[<<at[1] + 1, at[2]>>]]
           rest == CHOOSE f : Described(f)
           g == [x \in I \X [I -> V] |-> Value(x[2], x[1][1], x[1][2])]
           rank == [x \in I |-> to + 1 - x[1]]
<1>1. Len(data) \in Nat /\ from \in Place
  BY DEF Scan
<1>2. \A k \in Place : k \in Nat /\ k \in Int /\ from <= k /\ k <= to + 1
  OBVIOUS
<1>3. \A k \in Place : Semi(k) \in Nat /\ Semi(k) <= to + 1 /\ (k <= to => k + 1 <= Semi(k))
  <2> SUFFICES ASSUME NEW k \in Place
               PROVE  Semi(k) \in Nat /\ Semi(k) <= to + 1 /\ (k <= to => k + 1 <= Semi(k))
    OBVIOUS
  <2> DEFINE S == {j \in k + 1 .. to : data[j] = ";"}
  <2>1. k + 1 \in Nat /\ (k <= to => k + 1 <= to + 1)
    BY <1>2
  <2>2. S \subseteq k + 1 .. to
    OBVIOUS
  <2> HIDE DEF S
  <2>3. /\ Min(S \cup {to + 1}) \in Nat /\ Min(S \cup {to + 1}) <= to + 1
        /\ (k + 1 <= to + 1 => k + 1 <= Min(S \cup {to + 1}))
    BY <2>1, <2>2, FirstOr
  <2> QED  BY <2>1, <2>3 DEF S
<1>4. \A k \in Place : k <= to =>
        /\ k + 1 \in Place /\ k + 1 > k
        /\ Semi(k) <= to => Semi(k) + 1 \in Place /\ Semi(k) + 1 > k /\ Semi(k) \in Nat /\ Semi(k) <= Len(data)
  <2> SUFFICES ASSUME NEW k \in Place, k <= to
               PROVE  /\ k + 1 \in Place /\ k + 1 > k
                      /\ Semi(k) <= to => Semi(k) + 1 \in Place /\ Semi(k) + 1 > k /\ Semi(k) \in Nat
                                          /\ Semi(k) <= Len(data)
    OBVIOUS
  <2>1. Semi(k) \in Nat /\ k + 1 <= Semi(k)
    BY <1>3
  <2> HIDE DEF Semi
  <2> QED  BY <1>1, <2>1
<1> HIDE DEF Semi
<1>5. ASSUME NEW h, NEW k \in Place, NEW b \in Place,
             \A l, c \in Place : l > k => h[<<l, c>>] \in V
      PROVE  Value(h, k, b) \in V
  <2>1. k \in Nat /\ b \in Nat \ {0} /\ k - 1 \in Int /\ (k <= to => k - 1 <= Len(data)) /\ k \in Nat \ {0}
    BY <1>1, <1>2
  <2>2. k > to \/ k <= to
    BY <2>1
  <2>3. CASE k > to
    BY <1>1, <2>1, <2>3, TextTokenType
  <2>4. CASE k <= to /\ data[k] # "&"
    <3>1. Value(h, k, b) = h[<<k + 1, b>>]
      BY <2>1, <2>4
    <3>2. h[<<k + 1, b>>] \in V
      BY <1>4, <1>5, <2>4
    <3> QED  BY <3>1, <3>2
  <2>5. CASE k <= to /\ data[k] = "&"
    <3> DEFINE after == IF Semi(k) <= to THEN Token("EntityRef", k, Semi(k)) \o h[<<Semi(k) + 1, Semi(k) + 1>>]
                        ELSE h[<<k + 1, b>>]
    <3> DEFINE token == TextToken(b, k - 1)
    <3> HIDE DEF token, after
    <3>1. Value(h, k, b) = token \o after
      <4>1. ~(k > to) /\ ~(data[k] # "&")
        BY <2>1, <2>5
      <4> QED  BY <4>1, Zenon DEF token, after
    <3>2. token \in V
      BY <1>1, <2>1, <2>5, TextTokenType DEF token
    <3>3. after \in V
      <4>1. CASE Semi(k) <= to
        <5>1. Semi(k) + 1 \in Place /\ Semi(k) + 1 > k /\ Semi(k) \in Nat /\ Semi(k) <= Len(data)
          BY <1>4, <2>5, <4>1
        <5>2. Token("EntityRef", k, Semi(k)) \in V
          BY <2>1, <5>1, TokenType DEF TokenTypes
        <5>3. h[<<Semi(k) + 1, Semi(k) + 1>>] \in V
          BY <1>5, <5>1
        <5> HIDE DEF V
        <5>4. Token("EntityRef", k, Semi(k)) \o h[<<Semi(k) + 1, Semi(k) + 1>>] \in V
          BY <5>2, <5>3, NoTokens DEF V
        <5> QED  BY <4>1, <5>4 DEF after
      <4>2. CASE ~(Semi(k) <= to)
        BY <1>4, <1>5, <2>5, <4>2 DEF after
      <4> QED  BY <4>1, <4>2 DEF after
    <3> QED  BY <3>1, <3>2, <3>3, NoTokens
  <2> QED  BY <2>2, <2>3, <2>4, <2>5
<1>6. ASSUME NEW h, NEW e, NEW k \in Place, NEW b \in Place,
             \A l, c \in Place : l > k => h[<<l, c>>] = e[<<l, c>>]
      PROVE  Value(h, k, b) = Value(e, k, b)
  <2>1. k <= to => h[<<k + 1, b>>] = e[<<k + 1, b>>]
    BY <1>4, <1>6
  <2>2. k <= to /\ Semi(k) <= to => h[<<Semi(k) + 1, Semi(k) + 1>>] = e[<<Semi(k) + 1, Semi(k) + 1>>]
    BY <1>4, <1>6
  <2>3. k > to \/ k <= to
    BY <1>2
  <2> HIDE DEF Place
  <2> QED  BY <2>1, <2>2, <2>3
<1> DEFINE F(h) == [x \in I |-> Value(h, x[1], x[2])]
<1>7. \A h : Described(h) <=> h = F(h)
  BY DEF Semi
<1> HIDE DEF Value, Described
<1>8. \A x \in I : x = <<x[1], x[2]>> /\ x[1] \in Place /\ x[2] \in Place
  <2> HIDE DEF Place
  <2> QED  OBVIOUS
<1>9. \A l, c \in Place : <<l, c>> \in I /\ <<l, c>>[1] = l /\ <<l, c>>[2] = c
  <2> HIDE DEF Place
  <2> QED  OBVIOUS
<1>10. \E f : f = F(f)
  <2>1. rank \in [I -> 0 .. to + 1] /\ V # {} /\ \A x \in I : rank[x] = to + 1 - x[1]
    <3>1. \A x \in I : to + 1 - x[1] \in 0 .. to + 1
      BY <1>2, <1>8
    <3>2. <<>> \in V
      BY NoTokens
    <3> HIDE DEF I, V
    <3> QED  BY <3>1, <3>2
  <2>2. ASSUME NEW x \in I, NEW h \in [I -> V]
        PROVE  Value(h, x[1], x[2]) \in V
    <3>1. \A l, c \in Place : h[<<l, c>>] \in V
      <4> HIDE DEF I, V, Place
      <4> QED  BY <1>9
    <3> HIDE DEF I, V, Place
    <3> QED  BY <1>5, <1>8, <3>1
  <2>3. g \in [I \X [I -> V] -> V] /\ \A x \in I : \A h \in [I -> V] : g[<<x, h>>] = Value(h, x[1], x[2])
    <3> HIDE DEF I, V
    <3> QED  BY <2>2
  <2>4. ASSUME NEW x \in I, NEW h \in [I -> V], NEW e \in [I -> V],
               \A y \in I : rank[y] < rank[x] => h[y] = e[y]
        PROVE  g[<<x, h>>] = g[<<x, e>>]
    <3>1. \A l, c \in Place : l > x[1] => h[<<l, c>>] = e[<<l, c>>]
      <4> SUFFICES ASSUME NEW l \in Place, NEW c \in Place, l > x[1] PROVE h[<<l, c>>] = e[<<l, c>>]
        OBVIOUS
      <4> DEFINE y == <<l, c>>
      <4>1. y \in I /\ y[1] = l
        BY <1>9
      <4> HIDE DEF y
      <4>2. rank[y] = to + 1 - l /\ rank[x] = to + 1 - x[1]
        BY <2>1, <4>1
      <4>3. x[1] \in Nat /\ l \in Nat
        BY <1>2, <1>8
      <4>4. rank[y] < rank[x]
        BY <4>2, <4>3
      <4>5. h[y] = e[y]
        BY <2>4, <4>1, <4>4
      <4> QED  BY <4>5 DEF y
    <3>2. x[1] \in Place /\ x[2] \in Place
      BY <1>8
    <3> HIDE DEF g, I, V, rank, Place
    <3>3. Value(h, x[1], x[2]) = Value(e, x[1], x[2])
      BY <1>6, <3>1, <3>2
    <3> QED  BY <2>3, <3>3
  <2>5. PICK f \in [I -> V] : \A x \in I : f[x] = g[<<x, f>>]
    <3> HIDE DEF g, I, V, rank
    <3>1. to + 1 \in Nat
      OBVIOUS
    <3>2. Rule(I, V, to + 1, rank, g)
      BY <2>1, <2>3, <2>4, <3>1 DEF Rule
    <3> QED  BY <3>2, Recursion
  <2> HIDE DEF g, I, V
  <2>6. f = [x \in I |-> f[x]] /\ \A x \in I : f[x] = Value(f, x[1], x[2])
    BY <2>3, <2>5
  <2>7. f = F(f)
    BY <2>6
  <2> QED  BY <2>7
<1>11. rest = F(rest)
  <2> HIDE DEF F
  <2> QED  BY <1>7, <1>10
<1>12. TextTokens(from, to) = rest[<<from, from>>]
  BY DEF TextTokens, Described
<1> HIDE DEF rest
<1>13. \A x \in I : rest[x] = Value(rest, x[1], x[2])
  <2>1. F(rest) = [x \in I |-> Value(rest, x[1], x[2])]
    OBVIOUS
  <2> HIDE DEF F, I
  <2> QED  BY <1>11, <2>1
<1>14. \A x \in I : rest[x] \in V
  <2> DEFINE S == {x \in I : rest[x] \in V}
  <2>1. rank \in [I -> 0 .. to + 1] /\ \A x \in I : rank[x] = to + 1 - x[1]
    <3>1. \A x \in I : to + 1 - x[1] \in 0 .. to + 1
      BY <1>2, <1>8
    <3> HIDE DEF I
    <3> QED  BY <3>1
  <2>2. ASSUME NEW x \in I, \A y \in I : rank[y] < rank[x] => y \in S PROVE x \in S
    <3>1. \A l, c \in Place : l > x[1] => rest[<<l, c>>] \in V
      <4> SUFFICES ASSUME NEW l \in Place, NEW c \in Place, l > x[1] PROVE rest[<<l, c>>] \in V
        OBVIOUS
      <4> DEFINE y == <<l, c>>
      <4>1. y \in I /\ y[1] = l
        BY <1>9
      <4> HIDE DEF y
      <4>2. rank[y] = to + 1 - l /\ rank[x] = to + 1 - x[1]
        BY <2>1, <4>1
      <4>3. x[1] \in Nat /\ l \in Nat
        BY <1>2, <1>8
      <4>4. rank[y] < rank[x]
        BY <4>2, <4>3
      <4>5. rest[y] \in V
        BY <2>2, <4>1, <4>4
      <4> QED  BY <4>5 DEF y
    <3>2. x[1] \in Place /\ x[2] \in Place
      BY <1>8
    <3> HIDE DEF I, V, rank, Place
    <3>3. Value(rest, x[1], x[2]) \in V
      BY <1>5, <3>1, <3>2
    <3> QED  BY <1>13, <3>3
  <2>3. Inductive(I, to + 1, rank, S)
    <3> HIDE DEF I, rank, S
    <3> QED  BY <2>1, <2>2 DEF Inductive
  <2> HIDE DEF I, rank, S
  <2>4. \A x \in I : x \in S
    BY <2>3, ByRank
  <2> QED  BY <2>4 DEF S
<1> QED  BY <1>1, <1>9, <1>12, <1>14

\* The lesser of two numbers.
LEMMA MinOfTwo ==
  ASSUME NEW a \in Nat, NEW b \in Nat
  PROVE  Min({a, b}) \in {a, b} /\ Min({a, b}) <= a /\ Min({a, b}) <= b
<1> DEFINE S == {a, b}
<1>1. S \subseteq Nat /\ S # {} /\ a \in S /\ b \in S
  OBVIOUS
<1> HIDE DEF S
<1>2. Min(S) \in S /\ \A y \in S : Min(S) <= y
  BY <1>1, MinExists
<1> QED  BY <1>1, <1>2 DEF S

\* process_tag's attributes
LEMMA AttributeTokensType ==
  ASSUME Scan, NEW from \in 1 .. Len(data) + 1, NEW end \in 1 .. Len(data)
  PROVE  AttributeTokens(from, end) \in Seq(TokenOf(data))
<1> DEFINE L == Len(data)
           I == 1 .. L + 1
           V == Seq(TokenOf(data))
           Quote(k) == FirstFrom(k + 1, data[k])
           After(k) == Min({Quote(k + 2), L}) + 1
           Valued(k) == k + 2 < end /\ data[k + 1] = "=" /\ data[k + 2] \in Quotes
           Bare(k) == k + 1 < end /\ data[k + 1] = "=" /\ UnitAt(k + 2) \notin Quotes
           Value(f, k) ==
             IF k >= end \/ UnitAt(k) \notin Names THEN <<>>
             ELSE Token("AttributeName", k, k)
                  \o CASE Valued(k) -> Token("AttributeValue", k + 3, Quote(k + 2) - 1) \o f[After(k)]
                       [] Bare(k)   -> f[k + 2]
                       [] OTHER     -> f[k + 1]
           Described(f) == f = [k \in 1 .. Len(data) + 1 |->
             IF k >= end \/ UnitAt(k) \notin Names THEN <<>>
             ELSE Token("AttributeName", k, k)
                  \o CASE k + 2 < end /\ data[k + 1] = "=" /\ data[k + 2] \in Quotes ->
                            Token("AttributeValue", k + 3, FirstFrom((k + 2) + 1, data[k + 2]) - 1)
                            \o f[Min({FirstFrom((k + 2) + 1, data[k + 2]), Len(data)}) + 1]
                       [] k + 1 < end /\ data[k + 1] = "=" /\ UnitAt(k + 2) \notin Quotes -> f[k + 2]
                       [] OTHER -> f[k + 1]]
           rest == CHOOSE f : Described(f)
           g == [x \in I \X [I -> V] |-> Value(x[2], x[1])]
           rank == [k \in I |-> L + 1 - k]
           F(h) == [k \in I |-> Value(h, k)]
<1>1. L \in Nat /\ end \in Nat /\ end <= L
  BY DEF Scan
<1>2. ASSUME NEW k \in I, Valued(k)
      PROVE  /\ Quote(k + 2) \in Nat /\ Quote(k + 2) - 1 \in Nat /\ Quote(k + 2) - 1 <= L
             /\ After(k) \in I /\ After(k) > k
  <2> DEFINE S == {j \in (k + 2) + 1 .. L : data[j] = data[k + 2]}
             q == Quote(k + 2)
  <2>1. S \subseteq (k + 2) + 1 .. L /\ (k + 2) + 1 \in Nat /\ (k + 2) + 1 <= L + 1
    BY <1>1, <1>2
  <2>2. q = Min(S \cup {L + 1})
    BY DEF FirstFrom
  <2> HIDE DEF S, q
  <2>3. q \in Nat /\ q <= L + 1 /\ (k + 2) + 1 <= q
    BY <1>1, <2>1, <2>2, FirstOr
  <2>4. After(k) = Min({q, L}) + 1
    BY DEF q
  <2>5. Min({q, L}) \in {q, L} /\ Min({q, L}) <= q /\ Min({q, L}) <= L
    BY <1>1, <2>3, MinOfTwo
  <2> DEFINE m == Min({q, L})
  <2> HIDE DEF m
  <2>6. (m = q \/ m = L) /\ m <= L
    BY <2>5 DEF m
  <2>7. m + 1 \in I /\ m + 1 > k
    BY <1>1, <1>2, <2>3, <2>6
  <2>8. q - 1 \in Nat /\ q - 1 <= L
    BY <1>1, <1>2, <2>3
  <2> QED  BY <2>3, <2>4, <2>7, <2>8 DEF m, q
<1>3. \A k \in I : /\ k \in Nat \ {0} /\ k + 3 \in Nat \ {0}
                   /\ k < end => k + 1 \in I /\ k <= L
                   /\ Bare(k) => k + 2 \in I /\ ~Valued(k)
  <2> SUFFICES ASSUME NEW k \in I
               PROVE  /\ k \in Nat \ {0} /\ k + 3 \in Nat \ {0}
                      /\ k < end => k + 1 \in I /\ k <= L
                      /\ Bare(k) => k + 2 \in I /\ ~Valued(k)
    OBVIOUS
  <2>1. k + 2 < end => UnitAt(k + 2) = data[k + 2]
    <3> DEFINE j == k + 2
    <3>1. k + 2 < end => j <= Len(data)
      BY <1>1
    <3> HIDE DEF j
    <3>2. j <= Len(data) => UnitAt(j) = data[j]
      BY DEF UnitAt
    <3> QED  BY <3>1, <3>2 DEF j
  <2> QED  BY <1>1, <2>1
<1> HIDE DEF Quote, After, Valued, Bare
<1>4. ASSUME NEW h, NEW k \in I, \A l \in I : l > k => h[l] \in V
      PROVE  Value(h, k) \in V
  <2>1. k \in Nat \ {0} /\ k + 3 \in Nat \ {0}
    BY <1>3
  <2>2. CASE k >= end \/ UnitAt(k) \notin Names
    <3>1. Value(h, k) = <<>>
      BY <2>2
    <3> QED  BY <3>1, NoTokens
  <2> DEFINE name == Token("AttributeName", k, k)
             value == Token("AttributeValue", k + 3, Quote(k + 2) - 1)
  <2>3. ASSUME ~(k >= end \/ UnitAt(k) \notin Names)
        PROVE  name \in V /\ k + 1 \in I /\ k + 1 > k /\ k + 2 > k
    <3>1. k < end
      BY <1>1, <2>1, <2>3
    <3>2. k <= L /\ k + 1 \in I
      BY <1>3, <3>1
    <3>3. name \in V
      BY <2>1, <3>2, TokenType DEF TokenTypes
    <3> QED  BY <2>1, <3>2, <3>3
  <2>4. CASE ~(k >= end \/ UnitAt(k) \notin Names) /\ Valued(k)
    <3>1. Value(h, k) = name \o (value \o h[After(k)])
      BY <1>3, <2>4
    <3>2. value \in V
      BY <1>2, <2>1, <2>4, TokenType DEF TokenTypes
    <3>3. h[After(k)] \in V
      BY <1>2, <1>4, <2>4
    <3> HIDE DEF name, value
    <3>4. name \in V
      BY <2>3, <2>4
    <3> QED  BY <3>1, <3>2, <3>3, <3>4, NoTokens
  <2>5. CASE ~(k >= end \/ UnitAt(k) \notin Names) /\ ~Valued(k)
    <3> HIDE DEF name
    <3> DEFINE next == IF Bare(k) THEN k + 2 ELSE k + 1
    <3>1. Value(h, k) = name \o h[next]
      BY <2>5 DEF name
    <3>2. next \in I /\ next > k
      BY <1>3, <2>3, <2>5
    <3> HIDE DEF next
    <3>3. h[next] \in V /\ name \in V
      BY <1>4, <2>3, <2>5, <3>2
    <3> QED  BY <3>1, <3>3, NoTokens
  <2> QED  BY <2>2, <2>4, <2>5
<1>5. ASSUME NEW h, NEW e, NEW k \in I, \A l \in I : l > k => h[l] = e[l]
      PROVE  Value(h, k) = Value(e, k)
  <2>1. CASE k >= end \/ UnitAt(k) \notin Names
    <3>1. Value(h, k) = <<>> /\ Value(e, k) = <<>>
      BY <2>1
    <3> QED  BY <3>1
  <2>2. CASE ~(k >= end \/ UnitAt(k) \notin Names)
    <3>1. k \in Nat /\ k < end
      BY <1>1, <1>3, <2>2
    <3>2. k + 1 \in I /\ k + 1 > k
      BY <1>3, <3>1
    <3>3. Bare(k) => k + 2 \in I /\ k + 2 > k
      BY <1>3, <3>1
    <3>4. Valued(k) => h[After(k)] = e[After(k)]
      BY <1>2, <1>5
    <3>5. Bare(k) => h[k + 2] = e[k + 2]
      BY <1>5, <3>3
    <3>6. h[k + 1] = e[k + 1]
      BY <1>5, <3>2
    <3> HIDE DEF I
    <3> DEFINE hs == CASE Valued(k) -> Token("AttributeValue", k + 3, Quote(k + 2) - 1) \o h[After(k)]
                       [] Bare(k)   -> h[k + 2]
                       [] OTHER     -> h[k + 1]
               es == CASE Valued(k) -> Token("AttributeValue", k + 3, Quote(k + 2) - 1) \o e[After(k)]
                       [] Bare(k)   -> e[k + 2]
                       [] OTHER     -> e[k + 1]
    <3>7. hs = es
      BY <1>3, <3>4, <3>5, <3>6
    <3>8. Value(h, k) = Token("AttributeName", k, k) \o hs /\ Value(e, k) = Token("AttributeName", k, k) \o es
      BY <2>2
    <3> HIDE DEF hs, es
    <3> QED  BY <3>7, <3>8
  <2> QED  BY <2>1, <2>2
<1>6. \A h : Described(h) <=> h = F(h)
  BY DEF Quote, After, Valued, Bare
<1> HIDE DEF Value, Described
<1>7. rank \in [I -> 0 .. L + 1] /\ \A k \in I : rank[k] = L + 1 - k
  <2>1. \A k \in I : L + 1 - k \in 0 .. L + 1
    BY <1>1
  <2> QED  BY <2>1
<1>8. \A k, l \in I : rank[l] < rank[k] <=> l > k
  BY <1>1, <1>7
<1>9. L + 1 \in Nat /\ V # {}
  <2>1. <<>> \in V
    BY NoTokens
  <2> HIDE DEF V
  <2> QED  BY <1>1, <2>1
<1> HIDE DEF I, V, rank
<1>10. \E f : f = F(f)
  <2>1. ASSUME NEW k \in I, NEW h \in [I -> V]
        PROVE  Value(h, k) \in V
    BY <1>4
  <2>2. g \in [I \X [I -> V] -> V] /\ \A k \in I : \A h \in [I -> V] : g[<<k, h>>] = Value(h, k)
    BY <2>1
  <2>3. ASSUME NEW k \in I, NEW h \in [I -> V], NEW e \in [I -> V],
               \A l \in I : rank[l] < rank[k] => h[l] = e[l]
        PROVE  g[<<k, h>>] = g[<<k, e>>]
    <3>1. \A l \in I : l > k => h[l] = e[l]
      BY <1>8, <2>3
    <3> HIDE DEF g
    <3> QED  BY <1>5, <2>2, <3>1
  <2> HIDE DEF g
  <2>4. Rule(I, V, L + 1, rank, g)
    BY <1>7, <1>9, <2>2, <2>3 DEF Rule
  <2>5. PICK f \in [I -> V] : \A k \in I : f[k] = g[<<k, f>>]
    BY <2>4, Recursion
  <2>6. f = [k \in I |-> f[k]] /\ \A k \in I : f[k] = Value(f, k)
    BY <2>2, <2>5
  <2>7. f = F(f)
    BY <2>6
  <2> QED  BY <2>7
<1>11. rest = F(rest)
  <2> HIDE DEF F
  <2> QED  BY <1>6, <1>10
<1>12. AttributeTokens(from, end) = rest[from]
  BY DEF AttributeTokens, Described
<1> HIDE DEF rest
<1>13. \A k \in I : rest[k] = Value(rest, k)
  <2>1. F(rest) = [k \in I |-> Value(rest, k)]
    OBVIOUS
  <2> HIDE DEF F
  <2> QED  BY <1>11, <2>1
<1> DEFINE S == {k \in I : rest[k] \in V}
<1>14. ASSUME NEW k \in I, \A l \in I : rank[l] < rank[k] => l \in S PROVE k \in S
  <2>1. \A l \in I : l > k => rest[l] \in V
    BY <1>8, <1>14
  <2>2. Value(rest, k) \in V
    BY <1>4, <2>1
  <2> QED  BY <1>13, <2>2
<1>15. \A k \in I : k \in S
  <2> HIDE DEF S
  <2>1. Inductive(I, L + 1, rank, S)
    BY <1>7, <1>9, <1>14 DEF Inductive
  <2> QED  BY <2>1, ByRank
<1>16. from \in I
  BY DEF I
<1> QED  BY <1>12, <1>15, <1>16 DEF V

\* The tokenizer's place in the index and in the input.
Walk ==
  /\ Scan
  /\ si \in Nat \ {0} /\ text_start \in 1 .. Len(data) + 1
  /\ tokens \in Seq(TokenOf(data))

\* What is made of a tag.
LEMMA TagTokensType ==
  ASSUME Scan, NEW start \in 1 .. Len(data), NEW end \in 1 .. Len(data), HasName(start)
  PROVE  TagTokens(start, end) \in Seq(TokenOf(data))
<1>1. Len(data) \in Nat /\ start \in Nat /\ start + 1 \in Nat \ {0} /\ start + 2 \in Nat \ {0}
  BY DEF Scan
<1>2. \A k : UnitAt(k) \in Names => k <= Len(data)
  BY TokenizerAssumption DEF UnitAt, Unit
<1>3. "EndTag" \in TokenTypes /\ "SelfClosingTag" \in TokenTypes /\ "StartTag" \in TokenTypes
  BY DEF TokenTypes
<1>4. CASE UnitAt(start + 1) = "/"
  <2>1. start + 2 <= Len(data)
    BY <1>2, <1>4 DEF HasName
  <2>2. Token("EndTag", start + 2, start + 2) \in Seq(TokenOf(data))
    BY <1>1, <1>3, <2>1, TokenType
  <2> QED  BY <1>4, <2>2 DEF TagTokens
<1>5. CASE UnitAt(start + 1) # "/"
  <2> DEFINE type == IF data[end - 1] = "/" THEN "SelfClosingTag" ELSE "StartTag"
             tag == Token(type, start + 1, start + 1)
             attrs == AttributeTokens(start + 2, end)
  <2>1. start + 1 <= Len(data)
    BY <1>2, <1>5 DEF HasName
  <2>2. type \in TokenTypes
    BY <1>3
  <2> HIDE DEF type
  <2>3. tag \in Seq(TokenOf(data))
    BY <1>1, <2>1, <2>2, TokenType
  <2>4. start + 2 \in 1 .. Len(data) + 1
    BY <1>1, <2>1
  <2>5. attrs \in Seq(TokenOf(data))
    BY <2>4, AttributeTokensType
  <2>6. TagTokens(start, end) = tag \o attrs
    BY <1>5 DEF TagTokens, type
  <2> HIDE DEF tag, attrs
  <2> QED  BY <2>3, <2>5, <2>6, NoTokens
<1> QED  BY <1>4, <1>5

\* The text before an entry of the index.
LEMMA TextBeforeType ==
  ASSUME Walk, si <= Len(index)
  PROVE  Here \in 1 .. Len(data) /\ TextBefore \in Seq(TokenOf(data))
<1>1. Len(data) \in Nat /\ Here \in 1 .. Len(data)
  BY DEF Walk, Scan, Here
<1>2. text_start \in Nat \ {0} /\ text_start \in Nat
  BY <1>1 DEF Walk
<1>3. CASE Here > text_start
  <2>1. Here - 1 \in Nat /\ Here - 1 <= Len(data) /\ text_start <= (Here - 1) + 1
    BY <1>1, <1>2, <1>3
  <2>2. TextTokens(text_start, Here - 1) \in Seq(TokenOf(data))
    BY <1>2, <2>1, TextTokensType DEF Walk
  <2> QED  BY <1>1, <1>3, <2>2 DEF TextBefore
<1>4. CASE ~(Here > text_start)
  <2>1. TextBefore = <<>>
    BY <1>4 DEF TextBefore
  <2> QED  BY <1>1, <2>1, NoTokens
<1> QED  BY <1>3, <1>4

\* An entry of the index is a number of one.
LEMMA EntryType ==
  ASSUME Walk, si <= Len(index)
  PROVE  /\ \A position : EntryFrom(position) \in Nat \ {0}
         /\ TagEnd \in Nat /\ TagEnd <= Len(index) + 1 /\ si + 1 <= TagEnd
<1>1. Len(index) \in Nat /\ si + 1 \in Nat /\ si + 1 <= Len(index) + 1 /\ si \in Nat
  BY DEF Walk, Scan
<1>2. ASSUME NEW position PROVE EntryFrom(position) \in Nat \ {0}
  <2> DEFINE S == {s \in si + 1 .. Len(index) : index[s] >= position}
             n == Len(index)
  <2>1. S \subseteq si + 1 .. n
    OBVIOUS
  <2>2. EntryFrom(position) = Min(S \cup {n + 1})
    BY DEF EntryFrom
  <2> HIDE DEF S, n
  <2>3. n \in Nat /\ si + 1 \in Nat /\ si + 1 <= n + 1
    BY <1>1 DEF n
  <2>4. Min(S \cup {n + 1}) \in Nat /\ si + 1 <= Min(S \cup {n + 1})
    BY <2>1, <2>3, FirstOr
  <2> QED  BY <1>1, <2>2, <2>4
<1>3. TagEnd \in Nat /\ TagEnd <= Len(index) + 1 /\ si + 1 <= TagEnd
  <2> DEFINE S == {s \in si + 1 .. Len(index) : IsGt(data[index[s]])}
             n == Len(index)
  <2>1. S \subseteq si + 1 .. n
    OBVIOUS
  <2>2. TagEnd = Min(S \cup {n + 1})
    BY DEF TagEnd
  <2> HIDE DEF S, n
  <2>3. n \in Nat /\ si + 1 \in Nat /\ si + 1 <= n + 1
    BY <1>1 DEF n
  <2>4. Min(S \cup {n + 1}) \in Nat /\ Min(S \cup {n + 1}) <= n + 1 /\ si + 1 <= Min(S \cup {n + 1})
    BY <2>1, <2>3, FirstOr
  <2> QED  BY <2>2, <2>4 DEF n
<1> QED  BY <1>2, <1>3

\* More tokens, and a place further on.
LEMMA WalkOn ==
  ASSUME Walk, UNCHANGED scanVars, NEW made \in Seq(TokenOf(data)),
         tokens' = tokens \o made, text_start' \in 1 .. Len(data) + 1, si' \in Nat \ {0}
  PROVE  Walk'
<1>1. Scan' /\ data' = data
  BY DEF Walk, Scan, scanVars
<1>2. tokens' \in Seq(TokenOf(data))
  BY NoTokens DEF Walk
<1> QED  BY <1>1, <1>2 DEF Walk

LEMMA SectionWalks ==
  ASSUME Walk, UNCHANGED scanVars, SectionToken
  PROVE  Walk'
<1> DEFINE L == Len(data)
           closing == Closing[UnitAt(Here + 1)]
           close == FirstFrom(Here + 2, closing)
           type == SectionType(Here)
           S == {j \in Here + 2 .. L : data[j] = closing}
<1>1. si <= Len(index) /\ UnitAt(Here + 1) \in DOMAIN Closing
      /\ Ended(Token(type, Here + 2, close - 1), Min({close, L}) + 1)
  BY DEF SectionToken, AtTag
<1>2. Here \in 1 .. L /\ TextBefore \in Seq(TokenOf(data)) /\ L \in Nat
  BY <1>1, TextBeforeType DEF Walk, Scan
<1>3. Here + 1 <= L
  BY <1>1 DEF Closing, UnitAt
<1>4. type \in TokenTypes
  BY DEF SectionType, TokenTypes
<1>5. close = Min(S \cup {L + 1}) /\ S \subseteq Here + 2 .. L
  BY DEF FirstFrom
<1> HIDE DEF S, L, closing, type
<1>6. Here + 2 \in Nat /\ Here + 2 <= L + 1 /\ Here + 2 \in Nat \ {0}
  BY <1>2, <1>3
<1>7. close \in Nat /\ close <= L + 1 /\ Here + 2 <= close
  BY <1>2, <1>5, <1>6, FirstOr
<1> HIDE DEF close
<1>8. close - 1 \in Nat /\ close - 1 <= L
  BY <1>2, <1>6, <1>7
<1>9. Token(type, Here + 2, close - 1) \in Seq(TokenOf(data))
  BY <1>4, <1>6, <1>8, TokenType DEF L
<1> DEFINE m == Min({close, L})
<1>10. m \in {close, L} /\ m <= L
  BY <1>2, <1>7, MinOfTwo
<1> HIDE DEF m
<1>11. m + 1 \in 1 .. L + 1
  BY <1>2, <1>7, <1>10
<1> DEFINE made == TextBefore \o Token(type, Here + 2, close - 1)
<1>12. made \in Seq(TokenOf(data))
  BY <1>2, <1>9, NoTokens
<1>13. tokens' = tokens \o made /\ text_start' = m + 1 /\ si' \in Nat \ {0}
  <2>1. tokens' = tokens \o TextBefore \o Token(type, Here + 2, close - 1)
        /\ text_start' = m + 1 /\ si' = EntryFrom(m + 1)
    BY <1>1 DEF Ended, m
  <2> DEFINE token == Token(type, Here + 2, close - 1)
             V == TokenOf(data)
  <2> HIDE DEF token, V
  <2>2. tokens \in Seq(V) /\ TextBefore \in Seq(V) /\ token \in Seq(V)
    BY <1>2, <1>9 DEF Walk, V, token
  <2>3. tokens \o TextBefore \o token = tokens \o (TextBefore \o token)
    BY <2>2, ConcatAssociative
  <2>4. si' \in Nat \ {0}
    BY <1>1, <2>1, EntryType
  <2> QED  BY <2>1, <2>3, <2>4 DEF token
<1> HIDE DEF made
<1>14. text_start' \in 1 .. Len(data) + 1
  BY <1>11, <1>13 DEF L
<1> QED  BY <1>12, <1>13, <1>14, WalkOn

LEMMA DoctypeWalks ==
  ASSUME Walk, UNCHANGED scanVars, DoctypeToken
  PROVE  Walk'
<1> DEFINE L == Len(data)
           S == {k \in Here + 2 .. L : IsGt(data[k]) /\ Brackets(Here + 2, k) = 0} \cup {L}
           end == Min(S)
           token == Token("DocType", Here, end)
           V == TokenOf(data)
<1>1. si <= Len(index) /\ Ended(token, end + 1)
  BY DEF DoctypeToken, AtTag
<1>2. Here \in 1 .. L /\ TextBefore \in Seq(V) /\ L \in Nat
  BY <1>1, TextBeforeType DEF Walk, Scan
<1>3. S \subseteq Nat /\ S # {} /\ S \subseteq 1 .. L
  BY <1>2
<1> HIDE DEF S
<1>4. end \in S
  BY <1>3, MinExists
<1>5. end \in Nat /\ end <= L /\ end + 1 \in 1 .. L + 1
  <2> HIDE DEF L, end
  <2>1. end \in 1 .. L
    BY <1>3, <1>4
  <2> QED  BY <1>2, <2>1
<1> HIDE DEF end
<1>6. token \in Seq(V)
  BY <1>2, <1>5, TokenType DEF TokenTypes
<1>7. tokens' = tokens \o TextBefore \o token /\ text_start' = end + 1 /\ si' = EntryFrom(end + 1)
  BY <1>1 DEF Ended
<1>8. si' \in Nat \ {0}
  BY <1>1, <1>7, EntryType
<1>9. tokens \in Seq(V)
  BY DEF Walk
<1> HIDE DEF token, V
<1>10. tokens \o TextBefore \o token = tokens \o (TextBefore \o token) /\ TextBefore \o token \in Seq(V)
  BY <1>2, <1>6, <1>9, ConcatAssociative
<1>11. TextBefore \o token \in Seq(TokenOf(data))
  BY <1>10 DEF V
<1> QED  BY <1>5, <1>7, <1>8, <1>10, <1>11, WalkOn DEF L

LEMMA TagWalks ==
  ASSUME Walk, UNCHANGED scanVars, TagToken
  PROVE  Walk'
<1> DEFINE L == Len(data)
           V == TokenOf(data)
           end == index[TagEnd]
           made == TagTokens(Here, end)
<1>1. si <= Len(index) /\ TagEnd <= Len(index) /\ HasName(Here)
  BY DEF TagToken, AtPlainTag, AtTag
<1>2. Here \in 1 .. L /\ TextBefore \in Seq(V) /\ L \in Nat
  BY <1>1, TextBeforeType DEF Walk, Scan
<1>3. TagEnd \in Nat /\ si + 1 <= TagEnd /\ si \in Nat \ {0}
  BY <1>1, EntryType DEF Walk
<1>4. end \in 1 .. L
  <2>1. TagEnd \in 1 .. Len(index) /\ index \in Seq(1 .. L)
    BY <1>1, <1>3 DEF Walk, Scan
  <2> DEFINE W == 1 .. L
             e == TagEnd
  <2> HIDE DEF W, e
  <2>2. index[e] \in W
    BY <2>1 DEF W, e
  <2> QED  BY <2>2 DEF W, e
<1>5. made \in Seq(V)
  BY <1>1, <1>2, <1>4, TagTokensType DEF Walk
<1>6. tokens' = tokens \o TextBefore \o made /\ text_start' = end + 1 /\ si' = TagEnd + 1
  BY DEF TagToken
<1>7. tokens \in Seq(V)
  BY DEF Walk
<1> HIDE DEF made, V, end
<1>8. tokens \o TextBefore \o made = tokens \o (TextBefore \o made) /\ TextBefore \o made \in Seq(V)
  BY <1>2, <1>5, <1>7, ConcatAssociative
<1>9. text_start' \in 1 .. L + 1 /\ si' \in Nat \ {0}
  BY <1>2, <1>3, <1>4, <1>6
<1>10. TextBefore \o made \in Seq(TokenOf(data))
  BY <1>8 DEF V
<1> QED  BY <1>6, <1>8, <1>9, <1>10, WalkOn

LEMMA TokenStepWalks ==
  ASSUME Walk, UNCHANGED scanVars, TokenStep \/ LastText
  PROVE  Walk'
<1>1. CASE BadTag
  <2>1. si <= Len(index) /\ tokens' = tokens \o TextBefore /\ UNCHANGED <<si, text_start>>
    BY <1>1 DEF BadTag, AtPlainTag, AtTag
  <2>2. TextBefore \in Seq(TokenOf(data))
    BY <2>1, TextBeforeType
  <2> QED  BY <2>1, <2>2, WalkOn DEF Walk
<1>2. CASE OtherEntry
  <2>1. si' = si + 1 /\ UNCHANGED <<text_start, tokens, data>>
    BY <1>2 DEF OtherEntry, scanVars
  <2>2. Scan'
    BY DEF Walk, Scan, scanVars
  <2> QED  BY <2>1, <2>2 DEF Walk
<1>3. CASE LastText
  <2>1. tokens' = tokens \o TextTokens(text_start, Len(data)) /\ UNCHANGED <<si, text_start>>
    BY <1>3 DEF LastText
  <2>2. Len(data) \in Nat /\ text_start \in Nat \ {0} /\ text_start <= Len(data) + 1
    BY DEF Walk, Scan
  <2>3. TextTokens(text_start, Len(data)) \in Seq(TokenOf(data))
    BY <2>2, TextTokensType DEF Walk
  <2> QED  BY <2>1, <2>3, WalkOn DEF Walk
<1> QED  BY <1>1, <1>2, <1>3, SectionWalks, DoctypeWalks, TagWalks DEF TokenStep

\* A block adds places of the input to the index.
LEMMA BlockScans ==
  ASSUME Scan, ScanBlock, backend # "scalar"
  PROVE  Scan'
<1> DEFINE L == Len(data)
           found == [k \in 1 .. Block |-> IF Listed(scanned + k) THEN <<scanned + k>> ELSE <<>>]
<1>1. Block \in Nat \ {0} /\ scanned \in Nat /\ scanned + Block <= L /\ L \in Nat
  BY ScanAssumption DEF Scan, ScanBlock, Block
<1>2. found \in Seq(Seq(1 .. L))
  <2> DEFINE V == 1 .. L
  <2>1. \A k \in 1 .. Block : scanned + k \in V
    BY <1>1
  <2> HIDE DEF V
  <2>2. \A k \in 1 .. Block : (IF Listed(scanned + k) THEN <<scanned + k>> ELSE <<>>) \in Seq(V)
    BY <2>1
  <2>3. found \in Seq(Seq(V))
    BY <1>1, <2>2
  <2> QED  BY <2>3 DEF V
<1>3. index' = index \o FlattenSeq(found)
  BY DEF ScanBlock
<1>4. FlattenSeq(found) \in Seq(1 .. L)
  <2> HIDE DEF found, L
  <2> QED  BY <1>2, FlattenType
<1>5. index' \in Seq(1 .. L)
  <2> HIDE DEF found, L
  <2> QED  BY <1>3, <1>4 DEF Scan, L
<1>6. data' = data /\ backend' = backend /\ scanned' \in 0 .. L
  BY <1>1 DEF ScanBlock
<1>7. dq_state' \in BOOLEAN /\ sq_state' \in BOOLEAN
  BY DEF ScanBlock, StateAfter, Within, Scan
<1> QED  BY <1>5, <1>6, <1>7 DEF Scan

\* What ScanOne makes of the characters behind `scanned`, one after the other.
Scans(at) ==
  /\ at[0] = [quote |-> IF dq_state THEN "dq" ELSE IF sq_state THEN "sq" ELSE "none", index |-> index]
  /\ \A k \in 1 .. Len(data) - scanned : at[k] = ScanOne(at[k - 1], scanned + k)

LEMMA ScanRestDef ==
  ASSUME Scan
  PROVE  \E at \in [0 .. Len(data) - scanned -> [quote : Quotes \cup {"none"}, index : Seq(1 .. Len(data))]] :
           Scans(at) /\ ScanRest = at[Len(data) - scanned]
<1> DEFINE L == Len(data)
           n == L - scanned
           V == [quote : Quotes \cup {"none"}, index : Seq(1 .. L)]
           v == [quote |-> IF dq_state THEN "dq" ELSE IF sq_state THEN "sq" ELSE "none", index |-> index]
           g == [x \in (1 .. n) \X V |-> ScanOne(x[2], scanned + x[1])]
           Described(f) == f = [k \in 0 .. Len(data) - scanned |->
             IF k = 0 THEN [quote |-> IF dq_state THEN "dq" ELSE IF sq_state THEN "sq" ELSE "none",
                            index |-> index]
             ELSE ScanOne(f[k - 1], scanned + k)]
           at == CHOOSE f : Described(f)
<1>1. L \in Nat /\ scanned \in Nat /\ n \in Nat
  BY DEF Scan
<1>2. v \in V
  BY DEF Scan, Quotes
<1>3. ASSUME NEW a \in V, NEW k \in 1 .. n
      PROVE  ScanOne(a, scanned + k) \in V
  <2> DEFINE p == scanned + k
  <2>1. p \in 1 .. L
    BY <1>1
  <2>2. a.index \in Seq(1 .. L) /\ a.quote \in Quotes \cup {"none"}
        /\ a = [quote |-> a.quote, index |-> a.index]
    <3> HIDE DEF L
    <3> QED  OBVIOUS
  <2>3. Append(a.index, p) \in Seq(1 .. L)
    <3> DEFINE W == 1 .. L
    <3> HIDE DEF W, p
    <3> QED  BY <2>1, <2>2 DEF W
  <2> DEFINE more == Append(a.index, p)
  <2> HIDE DEF p, more
  <2>4. \/ ScanOne(a, p) = [quote |-> "none", index |-> more]
        \/ ScanOne(a, p) = a
        \/ data[p] \in Quotes /\ ScanOne(a, p) = [quote |-> data[p], index |-> more]
        \/ ScanOne(a, p) = [quote |-> a.quote, index |-> more]
    <3>1. CASE a.quote # "none" /\ data[p] = a.quote
      BY <3>1 DEF ScanOne, more
    <3>2. CASE a.quote # "none" /\ data[p] # a.quote
      BY <3>2 DEF ScanOne, more
    <3>3. CASE a.quote = "none" /\ data[p] \in Quotes
      BY <3>3 DEF ScanOne, more, IsStructural, IsGt, Quotes
    <3>4. CASE a.quote = "none" /\ data[p] \notin Quotes
      <4>1. [a EXCEPT !.index = Append(@, p)] = [quote |-> a.quote, index |-> more]
        <5> DEFINE it == a.index
                   s == a.quote
                   one == Append(it, p)
        <5> HIDE DEF it, s, one
        <5>1. a = [quote |-> s, index |-> it]
          BY <2>2 DEF it, s
        <5>2. [a EXCEPT !.index = one] = [quote |-> s, index |-> one]
          BY <5>1
        <5> QED  BY <5>2 DEF more, one, it, s
      <4>2. \/ ScanOne(a, p) = [a EXCEPT !.index = Append(@, p)]
            \/ ScanOne(a, p) = a
        BY <3>4 DEF ScanOne
      <4> QED  BY <4>1, <4>2
    <3> QED  BY <3>1, <3>2, <3>3, <3>4
  <2>5. more \in Seq(1 .. L)
    BY <2>3 DEF more
  <2> HIDE DEF L
  <2>6. ScanOne(a, p) \in V
    BY <2>2, <2>4, <2>5
  <2> QED  BY <2>6 DEF p
<1> HIDE DEF V, v
<1>4. g \in [(1 .. n) \X V -> V] /\ \A k \in 1 .. n : \A a \in V : g[<<k, a>>] = ScanOne(a, scanned + k)
  BY <1>3
<1> HIDE DEF g, n
<1>5. PICK f \in [0 .. n -> V] : f[0] = v /\ \A k \in 1 .. n : f[k] = g[<<k, f[k - 1]>>]
  <2>1. n \in Nat /\ g \in [(1 .. n) \X V -> V]
    BY <1>1, <1>4 DEF n
  <2>2. \E f \in [0 .. n -> V] : GoesBy(f, n, v, g)
    BY <1>2, <2>1, StepByStep
  <2> QED  BY <2>2 DEF GoesBy
<1>6. \A k \in 1 .. n : k - 1 \in 0 .. n /\ k # 0 /\ k \in 0 .. n
  BY <1>1
<1>7. f = [k \in 0 .. n |-> IF k = 0 THEN v ELSE ScanOne(f[k - 1], scanned + k)]
  <2>1. \A k \in 0 .. n : k # 0 => k \in 1 .. n
    BY <1>1
  <2>2. \A k \in 1 .. n : f[k] = ScanOne(f[k - 1], scanned + k)
    BY <1>4, <1>5, <1>6
  <2>3. \A k \in 0 .. n : f[k] = IF k = 0 THEN v ELSE ScanOne(f[k - 1], scanned + k)
    BY <1>5, <2>1, <2>2
  <2>4. f = [k \in 0 .. n |-> f[k]]
    BY <1>5
  <2> QED  BY <2>3, <2>4
<1>8. \A h : Described(h) <=> h = [k \in 0 .. n |-> IF k = 0 THEN v ELSE ScanOne(h[k - 1], scanned + k)]
  BY DEF n, v
<1> HIDE DEF Described
<1>9. at = [k \in 0 .. n |-> IF k = 0 THEN v ELSE ScanOne(at[k - 1], scanned + k)]
  BY <1>7, <1>8
<1>10. ScanRest = at[n]
  BY DEF ScanRest, Described, n
<1> HIDE DEF at
<1>11. at[0] = v /\ \A k \in 1 .. n : at[k] = ScanOne(at[k - 1], scanned + k)
  <2>1. 0 \in 0 .. n
    BY <1>1
  <2> QED  BY <1>6, <1>9, <2>1
<1> DEFINE S == {k \in 0 .. n : at[k] \in V}
<1>12. 0 \in S
  BY <1>1, <1>2, <1>11
<1>13. ASSUME NEW k \in 0 .. n - 1, k \in S PROVE k + 1 \in S
  <2>1. k + 1 \in 1 .. n /\ (k + 1) - 1 = k /\ k + 1 \in 0 .. n
    BY <1>1
  <2>2. at[k + 1] = ScanOne(at[k], scanned + (k + 1))
    BY <1>11, <2>1
  <2> QED  BY <1>3, <1>13, <2>1, <2>2
<1>14. \A k \in 0 .. n : at[k] \in V
  <2> HIDE DEF S
  <2>1. \A k \in 0 .. n : k \in S
    BY <1>1, <1>12, <1>13, CountsTo
  <2> QED  BY <2>1 DEF S
<1>15. at \in [0 .. n -> V]
  BY <1>9, <1>14
<1>16. Scans(at)
  BY <1>11 DEF Scans, n, v
<1> QED  BY <1>10, <1>15, <1>16 DEF n, V

LEMMA TailScans ==
  ASSUME Scan, ScanTail
  PROVE  Scan'
<1> DEFINE n == Len(data) - scanned
           V == [quote : Quotes \cup {"none"}, index : Seq(1 .. Len(data))]
<1>1. ScanRest \in V
  <2>1. n \in Nat
    BY DEF Scan
  <2>2. PICK at \in [0 .. n -> V] : ScanRest = at[n]
    BY ScanRestDef
  <2> HIDE DEF V, n
  <2> QED  BY <2>1, <2>2
<1>2. index' = ScanRest.index /\ scanned' = Len(data) /\ UNCHANGED <<data, backend, dq_state, sq_state>>
  BY DEF ScanTail
<1>3. index' \in Seq(1 .. Len(data))
  BY <1>1, <1>2
<1> QED  BY <1>2, <1>3 DEF Scan

-----------------------------------------------------------------------------
(* What is said of a tag.                                                  *)

Said == Unit \cup {"ref", "@", "is"}

\* The names of attributes that have a value behind them.
Valued(s) == {i \in DOMAIN s : s[i] = "@" /\ \E j \in i + 1 .. Len(s) : s[j] = "is"}

LEMMA ValuedConcat ==
  ASSUME NEW s \in Seq(Said), NEW t \in Seq(Said)
  PROVE  /\ (\A j \in DOMAIN t : t[j] # "is") => Valued(s \o t) \subseteq Valued(s)
         /\ (\A j \in DOMAIN t : t[j] # "@") => Valued(s \o t) \subseteq Places(s, {"@"})
<1> DEFINE L == Len(s)
           M == Len(t)
           b == s \o t
<1>1. /\ L \in Nat /\ M \in Nat /\ DOMAIN s = 1 .. L /\ DOMAIN t = 1 .. M
      /\ Len(b) = L + M /\ DOMAIN b = 1 .. L + M
  OBVIOUS
<1>2. /\ \A i \in 1 .. L : b[i] = s[i]
      /\ \A i \in 1 .. L + M : i > L => b[i] = t[i - L] /\ i - L \in 1 .. M
  <2>1. \A i \in 1 .. L + M : b[i] = IF i <= L THEN s[i] ELSE t[i - L]
    BY ConcatProperties
  <2> HIDE DEF b
  <2> QED  BY <1>1, <2>1
<1> HIDE DEF b
<1>3. ASSUME \A j \in DOMAIN t : t[j] # "is", NEW i \in Valued(b)
      PROVE  i \in Valued(s)
  <2>1. PICK j \in i + 1 .. L + M : b[j] = "is"
    BY <1>1, <1>3 DEF Valued
  <2>2. i \in 1 .. L + M /\ b[i] = "@"
    BY <1>1, <1>3 DEF Valued
  <2>3. j \in 1 .. L + M /\ i < j
    BY <1>1, <2>1, <2>2
  <2>4. j <= L
    <3> SUFFICES ASSUME j > L PROVE FALSE
      BY <1>1, <2>3
    <3> QED  BY <1>1, <1>2, <1>3, <2>1, <2>3
  <2>5. i \in 1 .. L /\ j \in i + 1 .. L /\ j \in 1 .. L
    BY <1>1, <2>2, <2>3, <2>4
  <2> QED  BY <1>1, <1>2, <2>1, <2>2, <2>5 DEF Valued
<1>4. ASSUME \A j \in DOMAIN t : t[j] # "@", NEW i \in Valued(b)
      PROVE  i \in Places(s, {"@"})
  <2>1. i \in 1 .. L + M /\ b[i] = "@"
    BY <1>1, <1>4 DEF Valued
  <2>2. i <= L
    <3> SUFFICES ASSUME i > L PROVE FALSE
      BY <1>1, <2>1
    <3> QED  BY <1>1, <1>2, <1>4, <2>1
  <2>3. i \in 1 .. L
    BY <1>1, <2>1, <2>2
  <2> QED  BY <1>1, <1>2, <2>1, <2>3 DEF Places
<1> QED  BY <1>3, <1>4 DEF b

\* The mark of a name, a value or a reference and its text.
IsPiece(piece, mark) ==
  /\ piece \in Seq(Said)
  /\ Number(piece, {"@"}) = IF mark = "@" THEN 1 ELSE 0
  /\ Number(piece, {"ref"}) = IF mark = "ref" THEN 1 ELSE 0
  /\ \A j \in DOMAIN piece : piece[j] \in Unit \cup {mark}

LEMMA PieceIs ==
  ASSUME NEW u \in Seq(Unit), NEW mark \in {"@", "is", "ref"}
  PROVE  IsPiece(<<mark>> \o u, mark)
<1> DEFINE piece == <<mark>> \o u
<1>1. u \in Seq(Said) /\ mark \in Said /\ <<mark>> = Append(<<>>, mark) /\ <<>> \in Seq(Said)
  <2>1. Unit \subseteq Said /\ mark \in Said
    BY DEF Said
  <2>2. u \in Seq(Said)
    BY <2>1, SeqMonotonic
  <2>3. <<mark>> = Append(<<>>, mark) /\ <<>> \in Seq(Said)
    OBVIOUS
  <2> QED  BY <2>1, <2>2, <2>3
<1>2. <<mark>> \in Seq(Said) /\ piece \in Seq(Said)
  BY <1>1
<1> DEFINE one == <<mark>>
           none == Append(<<>>, mark)
<1>6. one = none /\ one \in Seq(Said) /\ piece = one \o u
  BY <1>1, <1>2
<1> HIDE DEF one
<1>7. ASSUME NEW T
      PROVE  /\ Number(none, T) = Number(<<>>, T) + IF mark \in T THEN 1 ELSE 0
             /\ Number(one \o u, T) = Number(one, T) + Number(u, T)
  <2> DEFINE S == Said
             e == <<>>
  <2>1. e \in Seq(S) /\ mark \in S /\ one \in Seq(S) /\ u \in Seq(S)
    BY <1>1, <1>6
  <2> HIDE DEF S, e, none
  <2>2. Number(Append(e, mark), T) = Number(e, T) + IF mark \in T THEN 1 ELSE 0
    BY <2>1, NumberAppend
  <2>3. Number(one \o u, T) = Number(one, T) + Number(u, T)
    BY <2>1, NumberConcat
  <2> QED  BY <2>2, <2>3 DEF e, none
<1>3. ASSUME NEW x \in {"@", "ref"}
      PROVE  Number(piece, {x}) = IF mark = x THEN 1 ELSE 0
  <2>1. Number(u, {x}) = 0
    <3>1. Unit \cap {x} = {}
      BY SaxAssumption
    <3> QED  BY <3>1, NumberNone
  <2>2. Number(<<>>, {x}) = 0
    <3>1. <<>> \in Seq({}) /\ {} \cap {x} = {}
      OBVIOUS
    <3> QED  BY <3>1, NumberNone
  <2>3. Number(one, {x}) = 0 + IF mark = x THEN 1 ELSE 0
    BY <1>6, <1>7, <2>2
  <2>4. Number(piece, {x}) = Number(one, {x}) + Number(u, {x})
    BY <1>6, <1>7
  <2> HIDE DEF piece
  <2> QED  BY <2>1, <2>3, <2>4
<1>4. \A j \in DOMAIN piece : piece[j] \in Unit \cup {mark}
  <2>1. piece \in Seq(Unit \cup {mark})
    OBVIOUS
  <2> HIDE DEF piece
  <2> QED  BY <2>1
<1>5. /\ Number(piece, {"@"}) = IF mark = "@" THEN 1 ELSE 0
      /\ Number(piece, {"ref"}) = IF mark = "ref" THEN 1 ELSE 0
  <2> HIDE DEF piece
  <2> QED  BY <1>3
<1> QED  BY <1>2, <1>4, <1>5 DEF IsPiece

\* A tag's name and the marks and texts of its attributes: when no value has more than
\* `limit` names before it, no more names than that have a value behind them.
LEMMA BodyIs ==
  ASSUME NEW head \in Seq(Unit), NEW n \in Nat, NEW named \in [1 .. n -> BOOLEAN],
         NEW texts \in [1 .. n -> Seq(Unit)], NEW limit \in Nat,
         \A j \in 1 .. n : ~named[j] => Cardinality({i \in 1 .. j : named[i]}) <= limit
  PROVE  LET body == head \o FlattenSeq([j \in 1 .. n |-> <<IF named[j] THEN "@" ELSE "is">> \o texts[j]])
         IN  /\ body \in Seq(Said) /\ Number(body, {"ref"}) = 0
             /\ Cardinality(Valued(body)) <= limit
<1> DEFINE mark(j) == IF named[j] THEN "@" ELSE "is"
           piece(j) == <<mark(j)>> \o texts[j]
           F(k) == head \o FlattenSeq([j \in 1 .. k |-> piece(j)])
           Count(k) == Cardinality({i \in 1 .. k : named[i]})
           Good(k) == /\ F(k) \in Seq(Said) /\ Number(F(k), {"ref"}) = 0
                      /\ Number(F(k), {"@"}) = Count(k)
                      /\ IsFiniteSet(Valued(F(k))) /\ Cardinality(Valued(F(k))) <= limit
           U == {k \in 0 .. n : Good(k)}
<1>1. \A j \in 1 .. n : IsPiece(piece(j), mark(j))
  <2> SUFFICES ASSUME NEW j \in 1 .. n PROVE IsPiece(piece(j), mark(j))
    OBVIOUS
  <2> DEFINE m == mark(j)
             u == texts[j]
  <2>1. m \in {"@", "is"} /\ u \in Seq(Unit) /\ piece(j) = <<m>> \o u
    OBVIOUS
  <2> HIDE DEF m, u
  <2>2. IsPiece(<<m>> \o u, m)
    BY <2>1, PieceIs
  <2>3. IsPiece(piece(j), m)
    BY <2>1, <2>2
  <2> QED  BY <2>3 DEF m
<1>2. head \in Seq(Said)
  <2>1. Unit \subseteq Said
    BY DEF Said
  <2> QED  BY <2>1, SeqMonotonic
<1>3. /\ F(0) = head
      /\ \A k \in 0 .. n - 1 : F(k + 1) = F(k) \o piece(k + 1)
  <2> DEFINE ps(k) == [j \in 1 .. k |-> piece(j)]
  <2>1. \A k \in 0 .. n : ps(k) \in Seq(Seq(Said))
    <3>1. \A j \in 1 .. n : piece(j) \in Seq(Said)
      BY <1>1 DEF IsPiece
    <3> HIDE DEF piece
    <3> QED  BY <3>1
  <2>2. ps(0) = <<>>
    OBVIOUS
  <2>3. FlattenSeq(<<>>) = <<>>
    <3>1. PICK f \in [0 .. Len(<<>>) -> Seq({})] : FlattenSeq(<<>>) = f[Len(<<>>)]
      <4>1. <<>> \in Seq(Seq({}))
        OBVIOUS
      <4> QED  BY <4>1, FlattenDef
    <3>2. f[0] \in Seq({}) /\ Len(<<>>) = 0
      OBVIOUS
    <3> QED  BY <3>1, <3>2, EmptySeq
  <2>4. F(0) = head
    <3>1. head \o <<>> = head
      BY <1>2, ConcatEmptySeq
    <3> QED  BY <2>2, <2>3, <3>1
  <2>5. ASSUME NEW k \in 0 .. n - 1 PROVE F(k + 1) = F(k) \o piece(k + 1)
    <3>1. k \in 0 .. n /\ k + 1 \in 1 .. n /\ k + 1 \in 0 .. n
      OBVIOUS
    <3> DEFINE p == piece(k + 1)
               s == ps(k)
    <3>2. ps(k + 1) = Append(s, p)
      <4> HIDE DEF piece
      <4> QED  BY <3>1
    <3>3. p \in Seq(Said) /\ s \in Seq(Seq(Said))
      BY <1>1, <2>1, <3>1 DEF IsPiece
    <3>6. F(k) = head \o FlattenSeq(s) /\ F(k + 1) = head \o FlattenSeq(ps(k + 1))
      OBVIOUS
    <3> HIDE DEF p, s, F, ps
    <3>4. FlattenSeq(Append(s, p)) = FlattenSeq(s) \o p /\ FlattenSeq(s) \in Seq(Said)
      BY <3>3, FlattenAppend, FlattenType
    <3> DEFINE f == FlattenSeq(s)
    <3>8. f \in Seq(Said) /\ p \in Seq(Said)
      BY <3>3, <3>4
    <3> HIDE DEF f
    <3>9. head \o (f \o p) = (head \o f) \o p
      BY <1>2, <3>8
    <3>5. head \o (FlattenSeq(s) \o p) = (head \o FlattenSeq(s)) \o p
      BY <3>9 DEF f
    <3>7. F(k + 1) = F(k) \o p
      BY <3>2, <3>4, <3>5, <3>6
    <3> QED  BY <3>7 DEF p
  <2> QED  BY <2>4, <2>5
<1>4. ASSUME NEW k \in 0 .. n
      PROVE  IsFiniteSet({i \in 1 .. k : named[i]}) /\ Count(k) \in Nat
  <2> DEFINE S == {i \in 1 .. k : named[i]}
  <2>1. IsFiniteSet(1 .. k) /\ S \in SUBSET (1 .. k)
    BY FS_Interval
  <2> HIDE DEF S
  <2>2. IsFiniteSet(S) /\ Cardinality(S) \in Nat
    BY <2>1, FS_Subset, FS_CardinalityType
  <2> QED  BY <2>2 DEF S
<1>5. Count(0) = 0
  <2>1. {i \in 1 .. 0 : named[i]} = {}
    OBVIOUS
  <2> QED  BY <2>1, FS_EmptySet
<1>6. ASSUME NEW k \in 0 .. n - 1
      PROVE  Count(k + 1) = Count(k) + IF named[k + 1] THEN 1 ELSE 0
  <2> DEFINE S == {i \in 1 .. k : named[i]}
             T == {i \in 1 .. k + 1 : named[i]}
  <2>1. IsFiniteSet(S) /\ k + 1 \notin S /\ Cardinality(S) \in Nat
    <3>1. k \in 0 .. n /\ k + 1 \notin S
      OBVIOUS
    <3>2. IsFiniteSet(S)
      BY <1>4, <3>1
    <3> HIDE DEF S
    <3> QED  BY <3>1, <3>2, FS_CardinalityType
  <2>2. T = IF named[k + 1] THEN S \cup {k + 1} ELSE S
    OBVIOUS
  <2> HIDE DEF S, T
  <2>3. Cardinality(S \cup {k + 1}) = Cardinality(S) + 1
    BY <2>1, FS_AddElement
  <2>4. Cardinality(T) = Cardinality(S) + IF named[k + 1] THEN 1 ELSE 0
    BY <2>1, <2>2, <2>3
  <2> QED  BY <2>4 DEF S, T
<1>7. \A k \in 1 .. n : ~named[k] => Count(k) <= limit
  OBVIOUS
<1>8. 0 \in U
  <2>1. /\ Number(head, {"ref"}) = 0 /\ Number(head, {"@"}) = 0
    <3>1. Unit \cap {"ref"} = {} /\ Unit \cap {"@"} = {}
      BY SaxAssumption
    <3> QED  BY <3>1, NumberNone
  <2>2. Valued(head) = {}
    <3>1. \A i \in DOMAIN head : head[i] # "@"
      BY SaxAssumption
    <3> QED  BY <3>1 DEF Valued
  <2>3. IsFiniteSet(Valued(head)) /\ Cardinality(Valued(head)) = 0
    BY <2>2, FS_EmptySet
  <2> HIDE DEF F, Count
  <2> QED  BY <1>2, <1>3, <1>5, <2>1, <2>3
<1> HIDE DEF F, Count
<1>9. ASSUME NEW k \in 0 .. n - 1, k \in U PROVE k + 1 \in U
  <2> DEFINE s == F(k)
             p == piece(k + 1)
  <2>1. k \in 0 .. n /\ k + 1 \in 1 .. n /\ k + 1 \in 0 .. n
    OBVIOUS
  <2>2. /\ s \in Seq(Said) /\ Number(s, {"ref"}) = 0 /\ Number(s, {"@"}) = Count(k)
        /\ IsFiniteSet(Valued(s)) /\ Cardinality(Valued(s)) <= limit
    BY <1>9
  <2>3. F(k + 1) = s \o p
    BY <1>3, <2>2
  <2>5. (mark(k + 1) = "@" <=> named[k + 1]) /\ mark(k + 1) \in {"@", "is"}
    OBVIOUS
  <2> HIDE DEF s, piece, mark
  <2>4. /\ p \in Seq(Said) /\ Number(p, {"ref"}) = 0
        /\ Number(p, {"@"}) = IF named[k + 1] THEN 1 ELSE 0
        /\ \A i \in DOMAIN p : p[i] \in Unit \cup {mark(k + 1)}
    BY <1>1, <2>1, <2>5 DEF IsPiece
  <2> DEFINE b == s \o p
             a == mark(k + 1)
  <2> HIDE DEF p, a
  <2>6. b \in Seq(Said)
    BY <2>2, <2>4
  <2>7. \A T : Number(b, T) = Number(s, T) + Number(p, T)
    BY <2>2, <2>4, NumberConcat
  <2>8. Number(b, {"ref"}) = 0 /\ Number(b, {"@"}) = Count(k + 1)
    BY <1>6, <2>2, <2>4, <2>7
  <2>9. IsFiniteSet(Valued(b)) /\ Cardinality(Valued(b)) <= limit
    <3>1. CASE named[k + 1]
      <4>1. \A j \in DOMAIN p : p[j] # "is"
        BY <2>4, <2>5, <3>1, SaxAssumption DEF a
      <4>2. Valued(b) \subseteq Valued(s)
        BY <2>2, <2>4, <4>1, ValuedConcat
      <4> DEFINE A == Valued(b)
                 B == Valued(s)
      <4> HIDE DEF A, B
      <4>3. IsFiniteSet(A) /\ Cardinality(A) \in Nat /\ Cardinality(B) \in Nat /\ Cardinality(A) <= Cardinality(B)
        BY <2>2, <4>2, FS_Subset, FS_CardinalityType DEF A, B
      <4>4. Cardinality(B) <= limit
        BY <2>2 DEF B
      <4>5. Cardinality(A) <= limit
        BY <4>3, <4>4
      <4> QED  BY <4>3, <4>5 DEF A
    <3>2. CASE ~named[k + 1]
      <4>1. \A j \in DOMAIN p : p[j] # "@"
        BY <2>4, <2>5, <3>2, SaxAssumption DEF a
      <4>2. Valued(b) \subseteq Places(s, {"@"})
        BY <2>2, <2>4, <4>1, ValuedConcat
      <4>3. Cardinality(Places(s, {"@"})) = Count(k) /\ IsFiniteSet(Places(s, {"@"}))
        BY <2>2, NumberType DEF Number
      <4> DEFINE A == Valued(b)
                 B == Places(s, {"@"})
      <4> HIDE DEF A, B
      <4>4. IsFiniteSet(A) /\ Cardinality(A) \in Nat /\ Cardinality(A) <= Cardinality(B)
        BY <4>2, <4>3, FS_Subset, FS_CardinalityType DEF A, B
      <4>5. Cardinality(B) = Count(k) /\ Count(k) \in Nat /\ Count(k + 1) <= limit /\ Count(k + 1) = Count(k) + 0
        BY <1>4, <1>6, <1>7, <2>1, <3>2, <4>3 DEF B
      <4>6. Cardinality(A) <= limit
        BY <4>4, <4>5
      <4> QED  BY <4>4, <4>6 DEF A
    <3> QED  BY <3>1, <3>2
  <2>10. Good(k + 1)
    BY <2>3, <2>6, <2>8, <2>9
  <2> QED  BY <2>1, <2>10
<1>10. n \in U
  <2> HIDE DEF U
  <2>1. n \in 0 .. n
    OBVIOUS
  <2> QED  BY <1>8, <1>9, <2>1, CountsTo
<1>11. F(n) \in Seq(Said) /\ Number(F(n), {"ref"}) = 0 /\ Cardinality(Valued(F(n))) <= limit
  BY <1>10
<1> QED  BY <1>11 DEF F

-----------------------------------------------------------------------------
(* The callbacks.                                                          *)

EventSet == [kind : {"start", "end"} \cup {EventKind[k] : k \in DOMAIN EventKind}, body : Seq(Said)]

WithKind(kind) == {e \in EventSet : e.kind = kind}

\* How many elements the callbacks leave open.
OpenAfter(evs) == Number(evs, WithKind("start")) - Number(evs, WithKind("end"))

Allowed(evs) ==
  /\ OpenAfter(evs) \in 0 .. MaxDepth
  /\ References(evs) <= MaxEntities
  /\ \A i \in DOMAIN evs : evs[i].kind = "start" => AttrsOf(evs[i]) <= MaxAttrs

LEMMA ReferencesAppend ==
  ASSUME NEW evs \in Seq(EventSet), NEW e \in EventSet
  PROVE  References(Append(evs, e)) = References(evs) + Number(e.body, {"ref"}) /\ References(evs) \in Nat
<1> DEFINE bodies(s) == [i \in DOMAIN s |-> s[i].body]
           more == Append(evs, e)
           V == Seq(Said)
<1>1. \A x \in EventSet : x.body \in V
  BY DEF EventSet
<1>2. bodies(evs) \in Seq(V) /\ bodies(more) = Append(bodies(evs), e.body) /\ e.body \in V
  <2> HIDE DEF V
  <2>1. bodies(evs) \in Seq(V) /\ e.body \in V
    BY <1>1
  <2>2. bodies(more) = Append(bodies(evs), e.body)
    OBVIOUS
  <2> QED  BY <2>1, <2>2
<1>3. \A s : References(s) = Number(FlattenSeq(bodies(s)), {"ref"})
  BY DEF References, Number, Places
<1> DEFINE b == bodies(evs)
           x == e.body
<1>4. References(evs) = Number(FlattenSeq(b), {"ref"}) /\ References(more) = Number(FlattenSeq(Append(b, x)), {"ref"})
  BY <1>2, <1>3
<1>5. b \in Seq(Seq(Said)) /\ x \in Seq(Said)
  BY <1>2
<1> HIDE DEF b, x, more
<1>6. FlattenSeq(b) \in Seq(Said) /\ FlattenSeq(Append(b, x)) = FlattenSeq(b) \o x
  BY <1>5, FlattenAppend, FlattenType
<1>7. Number(FlattenSeq(b) \o x, {"ref"}) = Number(FlattenSeq(b), {"ref"}) + Number(x, {"ref"})
  BY <1>5, <1>6, NumberConcat
<1>8. Number(FlattenSeq(b), {"ref"}) \in Nat
  BY <1>6, NumberType
<1> QED  BY <1>4, <1>6, <1>7, <1>8 DEF more, x

\* One callback more.
LEMMA EventAdded ==
  ASSUME NEW evs \in Seq(EventSet), NEW e \in EventSet
  PROVE  /\ Append(evs, e) \in Seq(EventSet)
         /\ OpenAfter(evs) \in Int
         /\ OpenAfter(Append(evs, e)) =
              OpenAfter(evs) + IF e.kind = "start" THEN 1 ELSE IF e.kind = "end" THEN -1 ELSE 0
         /\ References(Append(evs, e)) = References(evs) + Number(e.body, {"ref"})
         /\ References(evs) \in Nat
         /\ (/\ \A i \in DOMAIN evs : evs[i].kind = "start" => AttrsOf(evs[i]) <= MaxAttrs
             /\ e.kind = "start" => AttrsOf(e) <= MaxAttrs)
            => \A i \in DOMAIN Append(evs, e) :
                 Append(evs, e)[i].kind = "start" => AttrsOf(Append(evs, e)[i]) <= MaxAttrs
<1> DEFINE more == Append(evs, e)
<1>1. \A k : /\ Number(more, WithKind(k)) = Number(evs, WithKind(k)) + IF e.kind = k THEN 1 ELSE 0
             /\ Number(evs, WithKind(k)) \in Nat
  <2> SUFFICES ASSUME NEW k
               PROVE  /\ Number(more, WithKind(k)) = Number(evs, WithKind(k)) + IF e.kind = k THEN 1 ELSE 0
                      /\ Number(evs, WithKind(k)) \in Nat
    OBVIOUS
  <2>1. e \in WithKind(k) <=> e.kind = k
    BY DEF WithKind
  <2>2. Number(more, WithKind(k)) = Number(evs, WithKind(k)) + IF e \in WithKind(k) THEN 1 ELSE 0
    BY NumberAppend
  <2>3. Number(evs, WithKind(k)) \in Nat
    BY NumberType
  <2> HIDE DEF more
  <2> QED  BY <2>1, <2>2, <2>3
<1>2. more \in Seq(EventSet)
  OBVIOUS
<1>3. \A i \in DOMAIN more : (i \in DOMAIN evs /\ more[i] = evs[i]) \/ more[i] = e
  OBVIOUS
<1> DEFINE s == Number(evs, WithKind("start"))
           t == Number(evs, WithKind("end"))
<1>4. s \in Nat /\ t \in Nat
  BY <1>1
<1>5. OpenAfter(evs) = s - t
  BY DEF OpenAfter
<1>6. OpenAfter(more) = (s + IF e.kind = "start" THEN 1 ELSE 0) - (t + IF e.kind = "end" THEN 1 ELSE 0)
  BY <1>1 DEF OpenAfter
<1> HIDE DEF s, t, more
<1>7. OpenAfter(evs) \in Int
  BY <1>4, <1>5
<1>8. OpenAfter(more) = OpenAfter(evs) + IF e.kind = "start" THEN 1 ELSE IF e.kind = "end" THEN -1 ELSE 0
  BY <1>4, <1>5, <1>6
<1>9. References(more) = References(evs) + Number(e.body, {"ref"}) /\ References(evs) \in Nat
  BY ReferencesAppend DEF more
<1> QED  BY <1>2, <1>3, <1>7, <1>8, <1>9 DEF more

\* What the runs check is said of the same sets.
LEMMA LimitsAre ==
  ASSUME events \in Seq(EventSet)
  PROVE  LimitsHold <=> Allowed(events)
<1>1. \A k : Times(k) = Number(events, WithKind(k))
  <2> SUFFICES ASSUME NEW k PROVE Times(k) = Number(events, WithKind(k))
    OBVIOUS
  <2>1. {i \in DOMAIN events : events[i].kind = k} = Places(events, WithKind(k))
    BY DEF Places, WithKind
  <2> QED  BY <2>1 DEF Times, Number
<1> QED  BY <1>1 DEF LimitsHold, Allowed, OpenAfter

\* What a token denotes.
LEMMA TextOfType ==
  ASSUME Scan, NEW t \in TokenOf(data)
  PROVE  TextOf(t) \in Seq(Unit) /\ TextOf(t) \in Seq(Said)
<1>1. data \in Seq(Unit) /\ t.from \in Nat \ {0} /\ t.to \in Nat /\ t.to <= Len(data)
  BY DEF Scan, TokenOf
<1> DEFINE m == t.from
           n == t.to
           U == Unit
<1> HIDE DEF m, n, U
<1>2. \A i \in m .. n : data[i] \in U
  <2> SUFFICES ASSUME NEW i \in m .. n PROVE data[i] \in U
    OBVIOUS
  <2>1. i \in 1 .. Len(data)
    BY <1>1 DEF m, n
  <2> QED  BY <1>1, <2>1 DEF U
<1>3. SubSeq(data, m, n) \in Seq(U)
  BY <1>1, <1>2, SubSeqProperties DEF m, n
<1>4. TextOf(t) \in Seq(Unit)
  BY <1>3 DEF TextOf, m, n, U
<1>5. Unit \subseteq Said
  BY DEF Said
<1> QED  BY <1>4, <1>5, SeqMonotonic

\* expand_entities gives characters.
LEMMA ExpandedType ==
  ASSUME Scan, NEW t \in TokenOf(data)
  PROVE  /\ <<"ref">> \o Expanded(t) \in Seq(Said)
         /\ Number(<<"ref">> \o Expanded(t), {"ref"}) = 1
<1> DEFINE entity == SubSeq(data, t.from + 1, t.to - 1)
           x == Expanded(t)
<1>1. TextOf(t) \in Seq(Unit)
  BY TextOfType
<1>2. x \in Seq(Unit)
  <2>1. \A k \in DOMAIN Predefined : Predefined[k] \in Unit
    <3>1. DOMAIN Predefined = {"lt", "gt", "amp", "apos", "quot"}
      BY DEF Predefined
    <3>2. /\ Predefined["lt"] = "<" /\ Predefined["gt"] = ">" /\ Predefined["amp"] = "&"
          /\ Predefined["apos"] = "sq" /\ Predefined["quot"] = "dq"
      BY DEF Predefined
    <3>3. {"<", ">", "&", "sq", "dq"} \subseteq Unit
      BY DEF Unit, Marks, Quotes
    <3> QED  BY <3>1, <3>2, <3>3
  <2>2. "<" \in Unit
    BY DEF Unit, Marks
  <2> DEFINE U == Unit
             P == Predefined
             s == TextOf(t)
  <2> HIDE DEF U, P, s, entity
  <2>4. entity = <<"#60">> => Head(entity) = "#60"
    OBVIOUS
  <2>5. "#60" \notin DOMAIN P /\ "#x110000" \notin DOMAIN P
    <3>1. DOMAIN P = {"lt", "gt", "amp", "apos", "quot"}
      BY DEF P, Predefined
    <3> QED  BY <3>1
  <2>6. \A k \in DOMAIN P : <<P[k]>> \in Seq(U)
    BY <2>1 DEF P, U
  <2>7. <<"<">> \in Seq(U) /\ <<>> \in Seq(U) /\ s \in Seq(U)
    BY <1>1, <2>2 DEF U, s
  <2>8. x \in Seq(U)
    <3>1. CASE Len(entity) = 1 /\ Head(entity) \in DOMAIN P
      <4>1. entity # <<"#60">> /\ entity # <<"#x110000">>
        BY <2>5, <3>1
      <4>2. x = <<P[Head(entity)]>>
        BY <3>1, <4>1 DEF Expanded, entity, P
      <4> QED  BY <2>6, <3>1, <4>2
    <3>2. CASE ~(Len(entity) = 1 /\ Head(entity) \in DOMAIN P)
      <4>1. x \in {<<"<">>, <<>>, s}
        <5>1. CASE entity = <<"#60">>
          <6>1. entity # <<"#x110000">>
            BY <5>1
          <6> QED  BY <3>2, <5>1, <6>1 DEF Expanded, entity, P
        <5>2. CASE entity = <<"#x110000">>
          <6>1. entity # <<"#60">>
            BY <5>2
          <6> QED  BY <3>2, <5>2, <6>1 DEF Expanded, entity, P
        <5>3. CASE entity # <<"#60">> /\ entity # <<"#x110000">>
          BY <3>2, <5>3 DEF Expanded, entity, P, s
        <5> QED  BY <5>1, <5>2, <5>3
      <4> HIDE DEF x
      <4> QED  BY <2>7, <4>1
    <3> QED  BY <3>1, <3>2
  <2> QED  BY <2>8 DEF U
<1> HIDE DEF x
<1>3. IsPiece(<<"ref">> \o x, "ref")
  BY <1>2, PieceIs
<1> QED  BY <1>3 DEF x, IsPiece

\* The token that is read.
LEMMA TokIs ==
  ASSUME Walk, ti \in Nat \ {0}, NEW types, Reading(types)
  PROVE  Tok \in TokenOf(data) /\ Tok.type \in types /\ Scan
<1>1. ti \in 1 .. Len(tokens) /\ tokens \in Seq(TokenOf(data))
  BY DEF Reading, Walk
<1> DEFINE V == TokenOf(data)
<1> HIDE DEF V
<1>2. tokens[ti] \in V
  BY <1>1 DEF V
<1> QED  BY <1>2 DEF Reading, Tok, Walk, V

\* The tokens behind a tag's that are its attributes'.
LEMMA AttrTokensAre ==
  ASSUME Walk, ti \in Nat \ {0}, ti <= Len(tokens)
  PROVE  /\ AttrsEnd \in Nat \ {0} /\ AttrTokens \in Seq(TokenOf(data))
         /\ \A j \in DOMAIN AttrTokens : AttrTokens[j].type \in {"AttributeName", "AttributeValue"}
<1> DEFINE L == Len(tokens)
           V == TokenOf(data)
           S == {j \in ti + 1 .. L : tokens[j].type \notin {"AttributeName", "AttributeValue"}}
           e == Min(S \cup {L + 1})
<1>1. L \in Nat /\ tokens \in Seq(V) /\ ti + 1 \in Nat /\ ti + 1 <= L + 1 /\ ti \in Nat
  BY DEF Walk
<1>2. S \subseteq ti + 1 .. L /\ AttrsEnd = e
  BY DEF AttrsEnd
<1>3. e \in Nat /\ e <= L + 1 /\ ti + 1 <= e
  <2> HIDE DEF L, S
  <2> QED  BY <1>1, <1>2, FirstOr
<1>4. \A j \in S : e <= j
  <2> DEFINE T == S \cup {L + 1}
  <2>1. T \subseteq Nat /\ T # {} /\ S \subseteq T
    BY <1>1
  <2> HIDE DEF T
  <2>2. \A j \in T : Min(T) <= j
    BY <2>1, MinExists
  <2> HIDE DEF S
  <2> QED  BY <2>1, <2>2 DEF T
<1>5. \A j \in ti + 1 .. e - 1 : j \in 1 .. L /\ tokens[j].type \in {"AttributeName", "AttributeValue"}
  <2> SUFFICES ASSUME NEW j \in ti + 1 .. e - 1
               PROVE  j \in 1 .. L /\ tokens[j].type \in {"AttributeName", "AttributeValue"}
    OBVIOUS
  <2> HIDE DEF e
  <2>1. j \in 1 .. L /\ j \in ti + 1 .. L /\ ~(e <= j)
    BY <1>1, <1>3
  <2>2. j \notin S
    BY <1>4, <2>1
  <2> QED  BY <2>1, <2>2
<1> DEFINE a == SubSeq(tokens, ti + 1, e - 1)
<1> HIDE DEF e, V, L, S
<1>6. /\ a \in Seq(V) /\ Len(a) = IF ti + 1 <= e - 1 THEN (e - 1) - (ti + 1) + 1 ELSE 0
      /\ \A j \in 1 .. Len(a) : a[j] = tokens[ti + j]
  <2> DEFINE m == ti + 1
             n == e - 1
  <2>1. m \in Int /\ n \in Int /\ \A i \in m .. n : tokens[i] \in V
    BY <1>1, <1>3, <1>5 DEF L
  <2> HIDE DEF m, n
  <2>2. /\ SubSeq(tokens, m, n) \in Seq(V)
        /\ Len(SubSeq(tokens, m, n)) = IF m <= n THEN n - m + 1 ELSE 0
        /\ \A i \in 1 .. n - m + 1 : SubSeq(tokens, m, n)[i] = tokens[m + i - 1]
    BY <1>1, <2>1, SubSeqProperties
  <2> QED  BY <1>1, <1>3, <2>2 DEF m, n
<1>7. \A j \in 1 .. Len(a) : ti + j \in ti + 1 .. e - 1
  <2> HIDE DEF a
  <2> QED  BY <1>1, <1>3, <1>6
<1>8. \A j \in DOMAIN a : a[j].type \in {"AttributeName", "AttributeValue"}
  <2>1. DOMAIN a = 1 .. Len(a)
    BY <1>6
  <2> HIDE DEF a
  <2> QED  BY <1>5, <1>6, <1>7, <2>1
<1> QED  BY <1>2, <1>3, <1>1, <1>6, <1>8 DEF AttrTokens, V

LEMMA TagBody ==
  ASSUME Walk, ti \in Nat \ {0}, NEW types, Reading(types), ~TooManyAttrs
  PROVE  Body \in Seq(Said) /\ Number(Body, {"ref"}) = 0 /\ Cardinality(Valued(Body)) <= MaxAttrs
<1> DEFINE a == AttrTokens
           n == Len(a)
           named == [j \in 1 .. n |-> a[j].type = "AttributeName"]
           texts == [j \in 1 .. n |-> TextOf(a[j])]
           head == TextOf(Tok)
           pieces == [j \in 1 .. n |-> <<IF named[j] THEN "@" ELSE "is">> \o texts[j]]
<1>1. ti <= Len(tokens)
  BY DEF Reading
<1>2. /\ a \in Seq(TokenOf(data))
      /\ \A j \in 1 .. n : a[j].type \in {"AttributeName", "AttributeValue"}
  <2>1. /\ a \in Seq(TokenOf(data))
        /\ \A j \in DOMAIN a : a[j].type \in {"AttributeName", "AttributeValue"}
    BY <1>1, AttrTokensAre
  <2> HIDE DEF a
  <2> QED  BY <2>1
<1>3. head \in Seq(Unit) /\ Scan
  BY TokIs, TextOfType
<1> HIDE DEF a
<1>4. n \in Nat /\ DOMAIN a = 1 .. n /\ \A j \in 1 .. n : a[j] \in TokenOf(data)
  <2> DEFINE V == TokenOf(data)
  <2>1. a \in Seq(V)
    BY <1>2
  <2> HIDE DEF V
  <2>2. n \in Nat /\ DOMAIN a = 1 .. n /\ \A j \in 1 .. n : a[j] \in V
    BY <2>1
  <2> QED  BY <2>2 DEF V
<1>5. \A j \in 1 .. n : TextOf(a[j]) \in Seq(Unit)
  BY <1>3, <1>4, TextOfType
<1>6. named \in [1 .. n -> BOOLEAN] /\ texts \in [1 .. n -> Seq(Unit)]
  BY <1>5
<1>7. \A j \in 1 .. n : ~named[j] => Cardinality({i \in 1 .. j : named[i]}) <= MaxAttrs
  <2> SUFFICES ASSUME NEW j \in 1 .. n, ~named[j]
               PROVE  Cardinality({i \in 1 .. j : named[i]}) <= MaxAttrs
    OBVIOUS
  <2>1. a[j].type = "AttributeValue"
    BY <1>2
  <2>2. {i \in 1 .. j : named[i]} = {i \in 1 .. j : a[i].type = "AttributeName"}
    <3>1. \A i \in 1 .. j : i \in 1 .. n
      BY <1>4
    <3>2. \A i \in 1 .. j : named[i] = (a[i].type = "AttributeName")
      BY <3>1
    <3> QED  BY <3>2
  <2>3. ~(Counted(j) > MaxAttrs)
    BY <1>4, <2>1 DEF TooManyAttrs, a
  <2> DEFINE c == Cardinality({i \in 1 .. j : a[i].type = "AttributeName"})
  <2>4. Counted(j) = c
    BY DEF Counted, a
  <2>5. c \in Nat
    <3>1. IsFiniteSet(1 .. j) /\ {i \in 1 .. j : a[i].type = "AttributeName"} \in SUBSET (1 .. j)
      BY <1>4, FS_Interval
    <3> QED  BY <3>1, FS_Subset, FS_CardinalityType
  <2>6. MaxAttrs \in Nat
    BY SaxAssumption
  <2> HIDE DEF c
  <2>7. c <= MaxAttrs
    BY <2>3, <2>4, <2>5, <2>6
  <2> QED  BY <2>2, <2>7 DEF c
<1>8. Body = head \o FlattenSeq(pieces)
  <2>1. [j \in DOMAIN a |-> <<IF a[j].type = "AttributeName" THEN "@" ELSE "is">> \o TextOf(a[j])] = pieces
    BY <1>4
  <2> QED  BY <2>1 DEF Body, a
<1> DEFINE body == head \o FlattenSeq(pieces)
<1>9. MaxAttrs \in Nat
  BY SaxAssumption
<1> HIDE DEF n, named, texts, head
<1>10. /\ body \in Seq(Said) /\ Number(body, {"ref"}) = 0
       /\ Cardinality(Valued(body)) <= MaxAttrs
  BY <1>3, <1>4, <1>6, <1>7, <1>9, BodyIs
<1> QED  BY <1>8, <1>10

-----------------------------------------------------------------------------
(* The limits.                                                             *)

\* While a document is read, the counters count what the application was told.
Counting == pc # "idle" => depth = OpenAfter(events) /\ entity_count = References(events)

SaxInv ==
  /\ Walk /\ ti \in Nat \ {0} /\ depth \in Nat /\ entity_count \in Nat
  /\ events \in Seq(EventSet) /\ Allowed(events) /\ Counting

LEMMA NothingSaid ==
  /\ <<>> \in Seq(EventSet) /\ Allowed(<<>>) /\ OpenAfter(<<>>) = 0 /\ References(<<>>) = 0
<1>1. <<>> \in Seq(EventSet) /\ <<>> \in Seq({}) /\ \A T : {} \cap T = {}
  OBVIOUS
<1>2. \A T : Number(<<>>, T) = 0
  BY <1>1, NumberNone
<1>3. OpenAfter(<<>>) = 0
  BY <1>2 DEF OpenAfter
<1>4. References(<<>>) = 0
  <2>1. <<>> \in Seq(Seq({})) /\ [i \in DOMAIN <<>> |-> <<>>[i].body] = <<>>
    OBVIOUS
  <2>2. FlattenSeq(<<>>) \in Seq({})
    BY <2>1, FlattenType
  <2>3. Number(FlattenSeq(<<>>), {"ref"}) = 0
    BY <1>1, <2>2, NumberNone
  <2> QED  BY <2>1, <2>3 DEF References, Number, Places
<1>5. 0 \in 0 .. MaxDepth /\ 0 <= MaxEntities
  BY SaxAssumption
<1> QED  BY <1>1, <1>3, <1>4, <1>5 DEF Allowed

LEMMA InitSax == Init => SaxInv
<1> SUFFICES ASSUME Init PROVE SaxInv
  OBVIOUS
<1>1. backend \in Backends
  BY DEF Init, BestScanner, Backends
<1>2. Walk
  <2>1. /\ data = <<>> /\ index = <<>> /\ tokens = <<>> /\ scanned = 0 /\ si = 1 /\ text_start = 1
        /\ dq_state = FALSE /\ sq_state = FALSE
    BY DEF Init
  <2>2. data \in Seq(Unit) /\ Len(data) = 0 /\ index \in Seq(1 .. Len(data)) /\ tokens \in Seq(TokenOf(data))
    BY <2>1
  <2>3. text_start \in 1 .. Len(data) + 1 /\ scanned \in 0 .. Len(data)
    BY <2>1, <2>2
  <2>4. Scan
    BY <1>1, <2>1, <2>2, <2>3 DEF Scan
  <2>5. si \in Nat \ {0}
    BY <2>1
  <2> QED  BY <2>2, <2>3, <2>4, <2>5 DEF Walk
<1>3. events = <<>> /\ pc = "idle" /\ ti = 1 /\ depth = 0 /\ entity_count = 0
  BY DEF Init
<1> QED  BY <1>2, <1>3, NothingSaid DEF SaxInv, Counting

LEMMA ParseSax ==
  ASSUME SaxInv, Parse
  PROVE  SaxInv'
<1>1. PICK in \in Inputs \cup LaterInputs : doc' = in.doc /\ ScanInit(in.data)
  BY DEF Parse
<1>2. in.data \in Seq(Unit)
  <2> DEFINE units == [i \in DOMAIN in.doc |-> in.doc[i].units]
  <2>1. in.doc \in Seq(Construct) /\ in.data = FlattenSeq(units)
    BY SaxAssumption DEF IsInput
  <2>2. \A c \in Construct : c.units \in Seq(Unit)
    BY DEF Construct
  <2>3. units \in Seq(Seq(Unit))
    BY <2>1, <2>2
  <2> HIDE DEF units
  <2> QED  BY <2>1, <2>3, FlattenType
<1>3. /\ data' = in.data /\ scanned' = 0 /\ dq_state' = FALSE /\ sq_state' = FALSE /\ index' = <<>>
      /\ backend' = backend /\ si' = 1 /\ text_start' = 1 /\ tokens' = <<>>
  BY <1>1 DEF Parse, ScanInit, TokenInit
<1>4. Walk'
  <2>1. data' \in Seq(Unit) /\ Len(data') \in Nat
    BY <1>2, <1>3
  <2>2. index' \in Seq(1 .. Len(data')) /\ tokens' \in Seq(TokenOf(data'))
    BY <1>3
  <2>3. text_start' \in 1 .. Len(data') + 1 /\ scanned' \in 0 .. Len(data') /\ si' \in Nat \ {0}
    BY <1>3, <2>1
  <2>4. backend' \in Backends
    BY <1>3 DEF SaxInv, Walk, Scan
  <2> QED  BY <1>3, <2>1, <2>2, <2>3, <2>4 DEF Walk, Scan
<1>5. events' = <<>> /\ ti' = 1 /\ depth' = 0 /\ entity_count' = 0
  BY DEF Parse, Zeroed
<1> QED  BY <1>4, <1>5, NothingSaid DEF SaxInv, Counting

LEMMA ScanningSax ==
  ASSUME SaxInv, Scanning
  PROVE  SaxInv'
<1>1. Scan'
  BY BlockScans, TailScans DEF Scanning, SaxInv, Walk, ScanSse42, ScanAvx2, ScanAvx512
<1>2. data' = data /\ UNCHANGED <<si, text_start, tokens, ti, depth, entity_count, events>> /\ pc # "idle"
  BY DEF Scanning, tokenVars, ScanSse42, ScanAvx2, ScanAvx512, ScanBlock, ScanTail
<1>3. Walk'
  BY <1>1, <1>2 DEF SaxInv, Walk
<1> QED  BY <1>2, <1>3 DEF SaxInv, Counting

LEMMA TokenizingSax ==
  ASSUME SaxInv, Tokenizing
  PROVE  SaxInv'
<1>1. UNCHANGED scanVars /\ (TokenStep \/ LastText) /\ UNCHANGED <<ti, depth, entity_count, events>> /\ pc # "idle"
  BY DEF Tokenizing
<1>2. Walk'
  BY <1>1, TokenStepWalks DEF SaxInv
<1> QED  BY <1>1, <1>2 DEF SaxInv, Counting

\* Nothing is said, and the document is refused or its end reached.
LEMMA StoppedSax ==
  ASSUME SaxInv, UNCHANGED <<scanVars, tokenVars, events, ti>>, pc' = "idle",
         depth' \in Nat, entity_count' \in Nat
  PROVE  SaxInv'
<1>1. Walk'
  BY DEF SaxInv, Walk, Scan, scanVars, tokenVars
<1> QED  BY <1>1 DEF SaxInv, Counting

\* What else is said keeps to the limits.
LEMMA SaidSax ==
  ASSUME SaxInv, UNCHANGED <<scanVars, tokenVars, pc>>, ti' \in Nat \ {0}, pc = "emit",
         events' \in Seq(EventSet), Allowed(events'),
         depth' = OpenAfter(events'), entity_count' = References(events'),
         depth' \in Nat, entity_count' \in Nat
  PROVE  SaxInv'
<1>1. Walk'
  BY DEF SaxInv, Walk, Scan, scanVars, tokenVars
<1> QED  BY <1>1 DEF SaxInv, Counting

LEMMA StartTagSax ==
  ASSUME SaxInv, StartTag
  PROVE  SaxInv'
<1> DEFINE e == Event("start", Body)
           a == OpenAfter(events)
<1>1. /\ Body \in Seq(Said) /\ Number(Body, {"ref"}) = 0 /\ Cardinality(Valued(Body)) <= MaxAttrs
  BY TagBody DEF SaxInv, StartTag
<1>2. e \in EventSet /\ e.kind = "start" /\ e.body = Body
  BY <1>1 DEF Event, EventSet
<1>3. AttrsOf(e) <= MaxAttrs
  BY <1>1, <1>2 DEF AttrsOf, Valued
<1>4. events' = Append(events, e) /\ pc = "emit" /\ ti <= Len(tokens)
  BY DEF StartTag, Emit, Reading
<1> HIDE DEF e
<1>5. /\ events' \in Seq(EventSet) /\ OpenAfter(events') = a + 1
      /\ References(events') = References(events) + 0
      /\ \A i \in DOMAIN events' : events'[i].kind = "start" => AttrsOf(events'[i]) <= MaxAttrs
  BY <1>1, <1>2, <1>3, <1>4, EventAdded DEF SaxInv, Allowed
<1>6. depth = a /\ entity_count = References(events) /\ depth \in Nat /\ entity_count \in Nat
  BY <1>4 DEF SaxInv, Counting
<1>7. depth' = depth + 1 /\ entity_count' = entity_count /\ ~(depth + 1 > MaxDepth) /\ ti' = AttrsEnd
      /\ UNCHANGED <<scanVars, tokenVars, pc>>
  BY DEF StartTag, TooDeep, Go
<1>8. MaxDepth \in Nat /\ MaxEntities \in Nat /\ References(events) <= MaxEntities
  BY SaxAssumption DEF SaxInv, Allowed
<1> HIDE DEF a
<1>9. /\ OpenAfter(events') \in 0 .. MaxDepth /\ References(events') <= MaxEntities
      /\ depth' = OpenAfter(events') /\ entity_count' = References(events')
      /\ depth' \in Nat /\ entity_count' \in Nat
  BY <1>5, <1>6, <1>7, <1>8
<1>10. ti' \in Nat \ {0}
  BY <1>4, <1>7, AttrTokensAre DEF SaxInv
<1>11. Allowed(events')
  BY <1>5, <1>9 DEF Allowed
<1> QED  BY <1>4, <1>5, <1>7, <1>9, <1>10, <1>11, SaidSax

LEMMA SelfClosingTagSax ==
  ASSUME SaxInv, SelfClosingTag
  PROVE  SaxInv'
<1> DEFINE e == Event("start", Body)
           f == Event("end", TextOf(Tok))
           more == Append(events, e)
           a == OpenAfter(events)
<1>1. /\ Body \in Seq(Said) /\ Number(Body, {"ref"}) = 0 /\ Cardinality(Valued(Body)) <= MaxAttrs
  BY TagBody DEF SaxInv, SelfClosingTag
<1>2. TextOf(Tok) \in Seq(Said) /\ Number(TextOf(Tok), {"ref"}) = 0
  <2>1. TextOf(Tok) \in Seq(Unit) /\ TextOf(Tok) \in Seq(Said)
    BY TokIs, TextOfType DEF SaxInv, SelfClosingTag
  <2>2. Unit \cap {"ref"} = {}
    BY SaxAssumption
  <2> QED  BY <2>1, <2>2, NumberNone
<1>3. /\ e \in EventSet /\ e.kind = "start" /\ e.body = Body
      /\ f \in EventSet /\ f.kind = "end" /\ f.body = TextOf(Tok)
  BY <1>1, <1>2 DEF Event, EventSet
<1>4. AttrsOf(e) <= MaxAttrs
  BY <1>1, <1>3 DEF AttrsOf, Valued
<1>5. events' = events \o <<e, f>> /\ pc = "emit" /\ ti <= Len(tokens) /\ events \in Seq(EventSet)
  BY DEF SelfClosingTag, Reading, SaxInv
<1> HIDE DEF e, f
<1>6. events' = Append(more, f)
  BY <1>3, <1>5
<1>7. /\ more \in Seq(EventSet) /\ OpenAfter(more) = a + 1 /\ a \in Int
      /\ References(more) = References(events) + 0 /\ References(events) \in Nat
      /\ \A i \in DOMAIN more : more[i].kind = "start" => AttrsOf(more[i]) <= MaxAttrs
  BY <1>1, <1>3, <1>4, <1>5, EventAdded DEF SaxInv, Allowed
<1> HIDE DEF more
<1>8. /\ events' \in Seq(EventSet) /\ OpenAfter(events') = OpenAfter(more) + (-1)
      /\ References(events') = References(more) + 0
      /\ \A i \in DOMAIN events' : events'[i].kind = "start" => AttrsOf(events'[i]) <= MaxAttrs
  BY <1>2, <1>3, <1>6, <1>7, EventAdded
<1>9. depth = a /\ entity_count = References(events) /\ depth \in Nat /\ entity_count \in Nat
  BY <1>5 DEF SaxInv, Counting
<1>10. depth' = depth /\ entity_count' = entity_count /\ ti' = AttrsEnd
       /\ UNCHANGED <<scanVars, tokenVars, pc>>
  BY DEF SelfClosingTag, Go
<1>11. a \in 0 .. MaxDepth /\ References(events) <= MaxEntities
  BY DEF SaxInv, Allowed
<1> HIDE DEF a
<1>12. /\ OpenAfter(events') \in 0 .. MaxDepth /\ References(events') <= MaxEntities
       /\ depth' = OpenAfter(events') /\ entity_count' = References(events')
       /\ depth' \in Nat /\ entity_count' \in Nat
  BY <1>7, <1>8, <1>9, <1>10, <1>11
<1>13. ti' \in Nat \ {0}
  BY <1>5, <1>10, AttrTokensAre DEF SaxInv
<1>14. Allowed(events')
  BY <1>8, <1>12 DEF Allowed
<1> QED  BY <1>5, <1>8, <1>10, <1>12, <1>13, <1>14, SaidSax

\* A callback other than a start tag's, with `more` references.
LEMMA OneSaid ==
  ASSUME SaxInv, pc = "emit", UNCHANGED <<scanVars, tokenVars, pc>>, ti' = ti + 1,
         NEW e \in EventSet, e.kind # "start", events' = Append(events, e),
         depth' = depth + IF e.kind = "end" THEN -1 ELSE 0, depth' \in Nat,
         entity_count' = entity_count + Number(e.body, {"ref"}),
         Number(e.body, {"ref"}) \in {0, 1},
         Number(e.body, {"ref"}) = 1 => entity_count < MaxEntities
  PROVE  SaxInv'
<1> DEFINE a == OpenAfter(events)
           r == References(events)
           k == Number(e.body, {"ref"})
           d == IF e.kind = "end" THEN -1 ELSE 0
<1>1. /\ events' \in Seq(EventSet) /\ OpenAfter(events') = a + d /\ a \in Int
      /\ References(events') = r + k /\ r \in Nat
      /\ \A i \in DOMAIN events' : events'[i].kind = "start" => AttrsOf(events'[i]) <= MaxAttrs
  BY EventAdded DEF SaxInv, Allowed
<1>2. depth = a /\ entity_count = r
  BY DEF SaxInv, Counting
<1>3. depth' = depth + d /\ entity_count' = entity_count + k /\ d \in {-1, 0} /\ k \in {0, 1}
      /\ (k = 1 => entity_count < MaxEntities)
  OBVIOUS
<1>4. a \in 0 .. MaxDepth /\ r <= MaxEntities /\ MaxDepth \in Nat /\ MaxEntities \in Nat /\ depth' \in Nat
  BY SaxAssumption DEF SaxInv, Allowed
<1> HIDE DEF a, r, k, d
<1>5. /\ OpenAfter(events') \in 0 .. MaxDepth /\ References(events') <= MaxEntities
      /\ depth' = OpenAfter(events') /\ entity_count' = References(events')
      /\ depth' \in Nat /\ entity_count' \in Nat
  BY <1>1, <1>2, <1>3, <1>4
<1>6. ti' \in Nat \ {0}
  BY DEF SaxInv
<1>7. Allowed(events')
  BY <1>1, <1>5 DEF Allowed
<1> QED  BY <1>1, <1>5, <1>6, <1>7, SaidSax

LEMMA PlainText ==
  ASSUME Scan, NEW t \in TokenOf(data)
  PROVE  TextOf(t) \in Seq(Said) /\ Number(TextOf(t), {"ref"}) = 0
<1>1. TextOf(t) \in Seq(Unit) /\ TextOf(t) \in Seq(Said)
  BY TextOfType
<1>2. Unit \cap {"ref"} = {}
  BY SaxAssumption
<1> QED  BY <1>1, <1>2, NumberNone

LEMMA OthersSax ==
  ASSUME SaxInv, EndTag \/ EntityRef \/ Content
  PROVE  SaxInv'
<1>1. CASE EndTag
  <2> DEFINE e == Event("end", TextOf(Tok))
  <2>1. TextOf(Tok) \in Seq(Said) /\ Number(TextOf(Tok), {"ref"}) = 0
    BY <1>1, TokIs, PlainText DEF SaxInv, EndTag
  <2>2. e \in EventSet /\ e.kind = "end" /\ e.body = TextOf(Tok)
    BY <2>1 DEF Event, EventSet
  <2>3. /\ events' = Append(events, e) /\ pc = "emit" /\ depth' = depth - 1 /\ depth > 0
        /\ ti' = ti + 1 /\ UNCHANGED <<scanVars, tokenVars, pc>> /\ entity_count' = entity_count
    BY <1>1 DEF EndTag, Emit, Reading, Go, MayEnd
  <2>4. depth \in Nat /\ entity_count \in Nat
    BY DEF SaxInv
  <2> HIDE DEF e
  <2>5. depth' = depth + (IF e.kind = "end" THEN -1 ELSE 0) /\ depth' \in Nat
        /\ entity_count' = entity_count + 0
    BY <2>2, <2>3, <2>4
  <2>6. Number(e.body, {"ref"}) = 0
    BY <2>1, <2>2
  <2>7. /\ e.kind # "start" /\ entity_count' = entity_count + Number(e.body, {"ref"})
        /\ Number(e.body, {"ref"}) \in {0, 1}
        /\ (Number(e.body, {"ref"}) = 1 => entity_count < MaxEntities)
    BY <2>2, <2>5, <2>6
  <2> QED  BY <2>2, <2>3, <2>5, <2>7, OneSaid
<1>2. CASE EntityRef
  <2> DEFINE said == <<"ref">> \o Expanded(Tok)
             e == Event("text", said)
  <2>1. said \in Seq(Said) /\ Number(said, {"ref"}) = 1
    BY <1>2, TokIs, ExpandedType DEF SaxInv, EntityRef
  <2> HIDE DEF said
  <2>2. e \in EventSet /\ e.kind = "text" /\ e.body = said
    <3>1. "text" \in {"start", "end"} \cup {EventKind[k] : k \in DOMAIN EventKind}
      <4>1. "Text" \in DOMAIN EventKind /\ EventKind["Text"] = "text"
        BY DEF EventKind
      <4> QED  BY <4>1
    <3> QED  BY <2>1, <3>1 DEF Event, EventSet
  <2>3. /\ events' = Append(events, e) /\ pc = "emit" /\ entity_count' = entity_count + 1
        /\ entity_count < MaxEntities
        /\ ti' = ti + 1 /\ UNCHANGED <<scanVars, tokenVars, pc>> /\ depth' = depth
    BY <1>2 DEF EntityRef, Emit, Reading, Go, said
  <2>4. depth \in Nat /\ entity_count \in Nat
    BY DEF SaxInv
  <2> HIDE DEF e
  <2>5. /\ e.kind # "start" /\ depth' = depth + (IF e.kind = "end" THEN -1 ELSE 0) /\ depth' \in Nat
    BY <2>2, <2>3, <2>4
  <2>6. /\ entity_count' = entity_count + Number(e.body, {"ref"})
        /\ Number(e.body, {"ref"}) \in {0, 1}
        /\ (Number(e.body, {"ref"}) = 1 => entity_count < MaxEntities)
    BY <2>1, <2>2, <2>3
  <2> QED  BY <2>2, <2>3, <2>5, <2>6, OneSaid
<1>3. CASE Content /\ Shown(Tok)
  <2> DEFINE kind == EventKind[Tok.type]
             e == Event(kind, TextOf(Tok))
  <2>1. TextOf(Tok) \in Seq(Said) /\ Number(TextOf(Tok), {"ref"}) = 0
    BY <1>3, TokIs, PlainText DEF SaxInv, Content
  <2>2. kind \in {EventKind[k] : k \in DOMAIN EventKind} /\ kind \notin {"start", "end"}
    <3>1. Tok.type \in DOMAIN EventKind
      BY <1>3 DEF Shown
    <3>2. \A k \in DOMAIN EventKind : EventKind[k] \notin {"start", "end"}
      <4>1. DOMAIN EventKind = {"Text", "Comment", "CData", "PI", "XmlDeclaration"}
        BY DEF EventKind
      <4>2. /\ EventKind["Text"] = "text" /\ EventKind["Comment"] = "comment"
            /\ EventKind["CData"] = "cdata" /\ EventKind["PI"] = "pi"
            /\ EventKind["XmlDeclaration"] = "decl"
        BY DEF EventKind
      <4> QED  BY <4>1, <4>2
    <3> QED  BY <3>1, <3>2
  <2> HIDE DEF kind
  <2>3. e \in EventSet /\ e.kind = kind /\ e.body = TextOf(Tok)
    BY <2>1, <2>2 DEF Event, EventSet
  <2>4. /\ events' = Append(events, e) /\ pc = "emit" /\ entity_count' = entity_count
        /\ ti' = ti + 1 /\ UNCHANGED <<scanVars, tokenVars, pc>> /\ depth' = depth
    BY <1>3 DEF Content, Emit, Reading, Go, kind
  <2>5. depth \in Nat /\ entity_count \in Nat
    BY DEF SaxInv
  <2> HIDE DEF e
  <2>6. /\ e.kind # "start" /\ depth' = depth + (IF e.kind = "end" THEN -1 ELSE 0) /\ depth' \in Nat
        /\ entity_count' = entity_count + 0
    BY <2>2, <2>3, <2>4, <2>5
  <2>7. Number(e.body, {"ref"}) = 0
    BY <2>1, <2>3
  <2>8. /\ entity_count' = entity_count + Number(e.body, {"ref"})
        /\ Number(e.body, {"ref"}) \in {0, 1}
        /\ (Number(e.body, {"ref"}) = 1 => entity_count < MaxEntities)
    BY <2>6, <2>7
  <2> QED  BY <2>3, <2>4, <2>6, <2>8, OneSaid
<1>4. CASE Content /\ ~Shown(Tok)
  <2>1. /\ UNCHANGED <<scanVars, tokenVars, pc, events, depth, entity_count>>
        /\ ti' = ti + 1 /\ pc = "emit"
    BY <1>4 DEF Content, Go, Reading
  <2>2. ti' \in Nat \ {0}
    BY <2>1 DEF SaxInv
  <2>3. /\ events' \in Seq(EventSet) /\ Allowed(events') /\ depth' \in Nat /\ entity_count' \in Nat
        /\ depth' = OpenAfter(events') /\ entity_count' = References(events')
    BY <2>1 DEF SaxInv, Counting
  <2> QED  BY <2>1, <2>2, <2>3, SaidSax
<1> QED  BY <1>1, <1>2, <1>3, <1>4

LEMMA NextSax == SaxInv /\ [Next]_vars => SaxInv'
<1> SUFFICES ASSUME SaxInv, [Next]_vars PROVE SaxInv'
  OBVIOUS
<1>1. CASE Emitting
  <2>1. CASE StartTagOverLimit \/ SelfClosingTagOverLimit \/ UnexpectedEndTag \/ TooManyReferences
    <3>1. /\ UNCHANGED <<scanVars, tokenVars, events, ti>> /\ pc' = "idle"
          /\ depth' \in {depth, depth + 1} /\ entity_count' \in {entity_count, entity_count + 1}
      BY <2>1 DEF StartTagOverLimit, SelfClosingTagOverLimit, UnexpectedEndTag, TooManyReferences, Throw
    <3>2. depth' \in Nat /\ entity_count' \in Nat
      BY <3>1 DEF SaxInv
    <3> QED  BY <3>1, <3>2, StoppedSax
  <2>2. CASE Return
    <3>1. /\ UNCHANGED <<scanVars, tokenVars, events, ti, depth, entity_count>> /\ pc' = "idle"
      BY <2>2 DEF Return
    <3>2. depth' \in Nat /\ entity_count' \in Nat
      BY <3>1 DEF SaxInv
    <3> QED  BY <3>1, <3>2, StoppedSax
  <2> QED  BY <1>1, <2>1, <2>2, StartTagSax, SelfClosingTagSax, OthersSax DEF Emitting
<1>2. CASE UNCHANGED vars
  <2>1. UNCHANGED <<data, backend, scanned, dq_state, sq_state, index, si, text_start, tokens,
                    pc, ti, depth, entity_count, events>>
    BY <1>2 DEF vars, scanVars, tokenVars, parserVars
  <2> QED  BY <2>1 DEF SaxInv, Walk, Scan, Counting
<1> QED  BY <1>1, <1>2, ParseSax, ScanningSax, TokenizingSax DEF Next, Done

THEOREM LimitsCorrect == Spec => []LimitsHold
<1>1. SaxInv => LimitsHold
  BY LimitsAre DEF SaxInv
<1> QED  BY <1>1, InitSax, NextSax, PTL DEF Spec

-----------------------------------------------------------------------------
(* The quotes.                                                             *)

\* What a unit makes of the quote that it is in, if any.
After(quote, u) ==
  IF u \notin Quotes THEN quote
  ELSE IF quote = "none" THEN u
  ELSE IF quote = u THEN "none" ELSE quote

Open == Quotes \cup {"none"}

Follows(q, units) ==
  /\ q \in [0 .. Len(units) -> Open] /\ q[0] = "none"
  /\ \A k \in 1 .. Len(units) : q[k] = After(q[k - 1], units[k])

LEMMA QuotesFollow ==
  ASSUME NEW units \in Seq(Unit)
  PROVE  \E q : Follows(q, units)
<1> DEFINE n == Len(units)
           g == [x \in (1 .. n) \X Open |-> After(x[2], units[x[1]])]
<1>1. n \in Nat /\ "none" \in Open
  BY DEF Open
<1>2. \A k \in 1 .. n : \A o \in Open : After(o, units[k]) \in Open
  BY DEF After, Open
<1>3. g \in [(1 .. n) \X Open -> Open] /\ \A k \in 1 .. n : \A o \in Open : g[<<k, o>>] = After(o, units[k])
  BY <1>2
<1> HIDE DEF g, n
<1>4. PICK q \in [0 .. n -> Open] : GoesBy(q, n, "none", g)
  BY <1>1, <1>3, StepByStep
<1>5. q[0] = "none" /\ \A k \in 1 .. n : q[k] = g[<<k, q[k - 1]>>]
  BY <1>4 DEF GoesBy
<1>6. \A k \in 1 .. n : q[k - 1] \in Open
  <2>1. \A k \in 1 .. n : k - 1 \in 0 .. n
    BY <1>1
  <2> QED  BY <1>4, <2>1
<1>7. \A k \in 1 .. n : q[k] = After(q[k - 1], units[k])
  BY <1>3, <1>5, <1>6
<1> QED  BY <1>4, <1>5, <1>7 DEF Follows, n

\* Two that follow the quotes are the same.
LEMMA OneFollows ==
  ASSUME NEW units \in Seq(Unit), NEW q, Follows(q, units), NEW h,
         h[0] = "none", \A k \in 1 .. Len(units) : h[k] = After(h[k - 1], units[k])
  PROVE  \A k \in 0 .. Len(units) : h[k] = q[k]
<1> DEFINE n == Len(units)
           T == {k \in 0 .. n : h[k] = q[k]}
<1>1. n \in Nat /\ 0 \in T
  BY DEF Follows
<1>2. ASSUME NEW k \in 0 .. n - 1, k \in T PROVE k + 1 \in T
  <2>1. k + 1 \in 1 .. n /\ (k + 1) - 1 = k /\ k + 1 \in 0 .. n
    BY <1>1
  <2>2. h[k + 1] = After(h[k], units[k + 1]) /\ q[k + 1] = After(q[k], units[k + 1])
    BY <2>1 DEF Follows
  <2> QED  BY <1>2, <2>1, <2>2
<1>3. \A k \in 0 .. n : k \in T
  <2> HIDE DEF T
  <2> QED  BY <1>1, <1>2, CountsTo
<1> QED  BY <1>3

\* Quotes that the scanner follows, closed by the construct's end.
LEMMA QuotedIs ==
  ASSUME NEW c, c.units \in Seq(Unit), Quoted(c), NEW q, Follows(q, c.units)
  PROVE  /\ q[Len(c.units)] = "none"
         /\ backend # "scalar" =>
              \A i \in 1 .. Len(c.units) : c.units[i] \in Quotes => q[i - 1] \in {"none", c.units[i]}
<1> DEFINE units == c.units
           n == Len(units)
           Described(f) == f = [i \in 0 .. Len(c.units) |->
             IF i = 0 THEN "none"
             ELSE IF c.units[i] \notin Quotes THEN f[i - 1]
             ELSE IF f[i - 1] = "none" THEN c.units[i]
             ELSE IF f[i - 1] = c.units[i] THEN "none" ELSE f[i - 1]]
           quote == CHOOSE f : Described(f)
<1>1. n \in Nat /\ DOMAIN units = 1 .. n
  OBVIOUS
<1>2. /\ quote[n] = "none"
      /\ backend = "scalar" \/ \A i \in DOMAIN units :
           units[i] \in Quotes => quote[i - 1] \in {"none", units[i]}
  BY DEF Quoted
<1>3. \A f : Described(f) <=> f = [i \in 0 .. n |-> IF i = 0 THEN "none" ELSE After(f[i - 1], units[i])]
  BY DEF After
<1>4. q = [i \in 0 .. n |-> IF i = 0 THEN "none" ELSE After(q[i - 1], units[i])]
  <2>1. \A i \in 0 .. n : i # 0 => i \in 1 .. n
    BY <1>1
  <2>2. q = [i \in 0 .. n |-> q[i]]
    BY DEF Follows
  <2>3. \A i \in 0 .. n : q[i] = IF i = 0 THEN "none" ELSE After(q[i - 1], units[i])
    BY <2>1 DEF Follows
  <2> QED  BY <2>2, <2>3
<1> HIDE DEF Described
<1>5. quote = [i \in 0 .. n |-> IF i = 0 THEN "none" ELSE After(quote[i - 1], units[i])]
  BY <1>3, <1>4
<1> HIDE DEF quote, units
<1>6. quote[0] = "none" /\ \A i \in 1 .. n : quote[i] = After(quote[i - 1], units[i])
  <2>1. 0 \in 0 .. n /\ \A i \in 1 .. n : i \in 0 .. n /\ i # 0
    BY <1>1
  <2> QED  BY <1>5, <2>1
<1>7. \A i \in 0 .. n : quote[i] = q[i]
  BY <1>6, OneFollows DEF units
<1>8. n \in 0 .. n /\ \A i \in 1 .. n : i - 1 \in 0 .. n
  BY <1>1
<1> QED  BY <1>1, <1>2, <1>7, <1>8 DEF units

\* A construct that starts outside of quotes is followed as if it stood alone.
LEMMA OneConstruct ==
  ASSUME NEW whole \in Seq(Unit), NEW q, Follows(q, whole), NEW s \in Seq(Unit), NEW u \in Seq(Unit),
         Begins(s \o u, whole), q[Len(s)] = "none", NEW h, Follows(h, u)
  PROVE  /\ Len(s \o u) = Len(s) + Len(u) /\ Len(s) + Len(u) <= Len(whole)
         /\ \A i \in 1 .. Len(u) : whole[Len(s) + i] = u[i]
         /\ \A i \in 0 .. Len(u) : q[Len(s) + i] = h[i]
<1> DEFINE L == Len(s)
           M == Len(u)
           g == [i \in 0 .. M |-> q[L + i]]
<1>1. L \in Nat /\ M \in Nat /\ Len(whole) \in Nat /\ Len(s \o u) = L + M
  OBVIOUS
<1>2. L + M <= Len(whole)
  BY <1>1 DEF Begins
<1>3. \A i \in 1 .. M : (s \o u)[L + i] = u[i]
  OBVIOUS
<1>4. \A i \in 1 .. M : L + i \in 1 .. L + M /\ L + i \in 1 .. Len(whole) /\ (L + i) - 1 = L + (i - 1)
  BY <1>1, <1>2
<1>5. \A i \in 1 .. M : whole[L + i] = u[i]
  <2>1. \A p \in 1 .. L + M : whole[p] = (s \o u)[p]
    BY <1>1 DEF Begins
  <2> HIDE DEF L, M
  <2> QED  BY <1>3, <1>4, <2>1
<1> HIDE DEF L, M
<1>6. g[0] = "none"
  <2>1. 0 \in 0 .. M /\ L + 0 = L
    BY <1>1
  <2> QED  BY <2>1 DEF L
<1>7. \A i \in 1 .. M : g[i] = After(g[i - 1], u[i])
  <2> SUFFICES ASSUME NEW i \in 1 .. M PROVE g[i] = After(g[i - 1], u[i])
    OBVIOUS
  <2>1. i \in 0 .. M /\ i - 1 \in 0 .. M
    BY <1>1
  <2>2. g[i] = q[L + i] /\ g[i - 1] = q[L + (i - 1)]
    BY <2>1
  <2>3. q[L + i] = After(q[(L + i) - 1], whole[L + i])
    BY <1>4 DEF Follows
  <2> QED  BY <1>4, <1>5, <2>2, <2>3
<1> DEFINE f == g
<1> HIDE DEF g
<1>8. \A i \in 0 .. M : g[i] = h[i]
  BY <1>6, <1>7, OneFollows DEF M
<1>9. \A i \in 0 .. M : q[L + i] = h[i]
  BY <1>8 DEF g
<1> QED  BY <1>1, <1>2, <1>5, <1>9 DEF L, M

\* What the constructs are made of, and data of them.
Units == [i \in DOMAIN doc |-> doc[i].units]
Made  == doc \in Seq(Construct) /\ data = FlattenSeq(Units)

LEMMA UnitsAre ==
  ASSUME Made
  PROVE  /\ Units \in Seq(Seq(Unit)) /\ Len(Units) = Len(doc) /\ data \in Seq(Unit) /\ Len(doc) \in Nat
         /\ \A k \in 1 .. Len(doc) : Units[k] = doc[k].units /\ doc[k] \in Construct
<1>1. \A c \in Construct : c.units \in Seq(Unit)
  BY DEF Construct
<1>2. doc \in Seq(Construct) /\ data = FlattenSeq(Units)
  BY DEF Made
<1>3. \A k \in 1 .. Len(doc) : doc[k] \in Construct
  BY <1>2
<1>4. Units \in Seq(Seq(Unit))
  <2> DEFINE V == Seq(Unit)
  <2> HIDE DEF V
  <2>1. \A k \in 1 .. Len(doc) : doc[k].units \in V
    BY <1>1, <1>3 DEF V
  <2>2. Units \in Seq(V)
    BY <1>2, <2>1 DEF Units
  <2> QED  BY <2>2 DEF V
<1>5. Len(Units) = Len(doc) /\ Len(doc) \in Nat /\ \A k \in 1 .. Len(doc) : Units[k] = doc[k].units
  BY <1>2 DEF Units
<1>6. data \in Seq(Unit)
  BY <1>2, <1>4, FlattenType
<1> QED  BY <1>3, <1>4, <1>5, <1>6

\* At the end of each construct the scanner is outside of quotes.
LEMMA ConstructsQuoted ==
  ASSUME Made, WellQuoted, NEW q, Follows(q, data)
  PROVE  \A k \in 0 .. Len(doc) :
           /\ q[Len(Part(Units, k))] = "none"
           /\ backend # "scalar" =>
                \A p \in 1 .. Len(Part(Units, k)) : data[p] \in Quotes => q[p - 1] \in {"none", data[p]}
<1> DEFINE n == Len(doc)
           P(k) == Part(Units, k)
           Good(k) == /\ q[Len(P(k))] = "none"
                      /\ backend # "scalar" =>
                           \A p \in 1 .. Len(P(k)) : data[p] \in Quotes => q[p - 1] \in {"none", data[p]}
           T == {k \in 0 .. n : Good(k)}
<1>1. /\ n \in Nat /\ Units \in Seq(Seq(Unit)) /\ Len(Units) = n /\ data \in Seq(Unit)
      /\ \A k \in 1 .. n : Units[k] = doc[k].units
  BY UnitsAre
<1>2. /\ P(0) = <<>> /\ \A k \in 0 .. n : P(k) \in Seq(Unit) /\ Begins(P(k), data)
      /\ \A k \in 0 .. n - 1 : P(k + 1) = P(k) \o Units[k + 1]
  <2>1. \A k \in 0 .. n : Begins(P(k), data)
    <3>1. data = FlattenSeq(Units)
      BY DEF Made
    <3>2. \A k \in 0 .. n : Begins(Part(Units, k), FlattenSeq(Units))
      BY <1>1, PartBegins
    <3> QED  BY <3>1, <3>2
  <2> QED  BY <1>1, <2>1, PartNext
<1> HIDE DEF P
<1>3. 0 \in T
  <2>1. Len(P(0)) = 0 /\ 1 .. 0 = {}
    BY <1>2
  <2> QED  BY <1>1, <2>1 DEF Follows
<1>4. ASSUME NEW k \in 0 .. n - 1, k \in T PROVE k + 1 \in T
  <2> DEFINE s == P(k)
             u == Units[k + 1]
             L == Len(s)
             M == Len(u)
  <2>1. k \in 0 .. n /\ k + 1 \in 0 .. n /\ k + 1 \in 1 .. n
    BY <1>1
  <2>2. s \in Seq(Unit) /\ u \in Seq(Unit) /\ Begins(s \o u, data) /\ P(k + 1) = s \o u
    <3>1. u \in Seq(Unit)
      <4> DEFINE V == Seq(Unit)
      <4>1. Units \in Seq(V) /\ k + 1 \in 1 .. Len(Units)
        BY <1>1, <2>1
      <4> HIDE DEF V
      <4> QED  BY <4>1, ElementOfSeq DEF V
    <3>2. P(k + 1) = P(k) \o Units[k + 1]
      BY <1>2
    <3>3. P(k) \in Seq(Unit) /\ Begins(P(k + 1), data)
      BY <1>2, <2>1
    <3> QED  BY <3>1, <3>2, <3>3
  <2>3. Quoted(doc[k + 1]) /\ doc[k + 1].units = u
    BY <1>1, <2>1 DEF WellQuoted, Made
  <2>4. q[L] = "none" /\ (backend # "scalar" =>
          \A p \in 1 .. L : data[p] \in Quotes => q[p - 1] \in {"none", data[p]})
    BY <1>4
  <2> HIDE DEF s, u
  <2>5. PICK h : Follows(h, u)
    BY <2>2, QuotesFollow
  <2>6. h[M] = "none" /\ (backend # "scalar" =>
          \A i \in 1 .. M : u[i] \in Quotes => h[i - 1] \in {"none", u[i]})
    BY <2>2, <2>3, <2>5, QuotedIs
  <2>7. /\ Len(s \o u) = L + M
        /\ \A i \in 1 .. M : data[L + i] = u[i]
        /\ \A i \in 0 .. M : q[L + i] = h[i]
    BY <1>1, <2>2, <2>4, <2>5, OneConstruct
  <2>8. L \in Nat /\ M \in Nat
    BY <2>2
  <2> HIDE DEF L, M
  <2>9. q[L + M] = "none"
    BY <2>6, <2>7, <2>8
  <2>10. ASSUME backend # "scalar", NEW p \in 1 .. L + M, data[p] \in Quotes
         PROVE  q[p - 1] \in {"none", data[p]}
    <3>1. CASE p \in 1 .. L
      BY <2>4, <2>10, <3>1
    <3>2. CASE p \notin 1 .. L
      <4>1. PICK i \in 1 .. M : p = L + i /\ p - 1 = L + (i - 1) /\ i - 1 \in 0 .. M
        <5>1. p - L \in 1 .. M /\ p = L + (p - L) /\ p - 1 = L + ((p - L) - 1) /\ (p - L) - 1 \in 0 .. M
          BY <2>8, <3>2
        <5> QED  BY <5>1
      <4>2. data[p] = u[i] /\ q[p - 1] = h[i - 1]
        BY <2>7, <4>1
      <4> QED  BY <2>6, <2>10, <4>2
    <3> QED  BY <3>1, <3>2
  <2>11. Good(k + 1)
    BY <2>2, <2>7, <2>9, <2>10
  <2> QED  BY <2>1, <2>11
<1>5. \A k \in 0 .. n : k \in T
  <2> HIDE DEF T
  <2> QED  BY <1>1, <1>3, <1>4, CountsTo
<1> QED  BY <1>5 DEF P

\* Tags have their brackets.
Tagged ==
  \A k \in DOMAIN doc : doc[k].kind \in Tags =>
    LET us == doc[k].units IN Len(us) > 1 /\ us[1] = "<" /\ us[Len(us)] = ">"

\* They are structural, and no quote is open at them.
LEMMA MarksOutside ==
  ASSUME Made, Tagged, WellQuoted, NEW q, Follows(q, data), NEW p \in TagMarks
  PROVE  p \in 1 .. Len(data) /\ IsStructural(data[p]) /\ q[p] = "none"
<1>1. PICK k \in DOMAIN doc :
        doc[k].kind \in Tags /\ p \in {StartOf(k), StartOf(k) + Len(doc[k].units) - 1}
  BY DEF TagMarks
<1>2. /\ Units \in Seq(Seq(Unit)) /\ Len(Units) = Len(doc) /\ data \in Seq(Unit) /\ Len(doc) \in Nat
      /\ k \in 1 .. Len(doc) /\ Units[k] = doc[k].units
  <2>1. k \in 1 .. Len(doc)
    BY DEF Made
  <2> QED  BY <2>1, UnitsAre
<1>3. PICK j \in 0 .. Len(doc) - 1 : k = j + 1 /\ k - 1 = j /\ j \in 0 .. Len(doc) /\ k \in 0 .. Len(doc)
  <2>1. k - 1 \in 0 .. Len(doc) - 1 /\ k = (k - 1) + 1 /\ k - 1 \in 0 .. Len(doc) /\ k \in 0 .. Len(doc)
    BY <1>2
  <2> QED  BY <2>1
<1> DEFINE s == Part(Units, j)
           u == Units[k]
           L == Len(s)
           M == Len(u)
<1>4. /\ s \in Seq(Unit) /\ Part(Units, k) = s \o u /\ u \in Seq(Unit) /\ Begins(s \o u, data)
  <2>1. data = FlattenSeq(Units)
    BY DEF Made
  <2>2. /\ \A n \in 0 .. Len(Units) : Part(Units, n) \in Seq(Unit)
        /\ \A n \in 0 .. Len(Units) - 1 : Part(Units, n + 1) = Part(Units, n) \o Units[n + 1]
    BY <1>2, PartNext
  <2>3. s \in Seq(Unit) /\ Part(Units, k) = s \o u
    BY <1>2, <1>3, <2>2
  <2>4. Begins(Part(Units, k), FlattenSeq(Units))
    BY <1>2, <1>3, PartBegins
  <2>5. u \in Seq(Unit)
    <3> DEFINE V == Seq(Unit)
    <3>1. Units \in Seq(V) /\ k \in 1 .. Len(Units)
      BY <1>2
    <3> HIDE DEF V
    <3> QED  BY <3>1, ElementOfSeq DEF V
  <2> QED  BY <2>1, <2>3, <2>4, <2>5
<1>5. StartOf(k) = 1 + L
  <2>1. [i \in 1 .. k - 1 |-> doc[i].units] = [i \in 1 .. j |-> Units[i]]
    <3>1. \A i \in 1 .. j : i \in DOMAIN doc
      BY <1>2, <1>3 DEF Made
    <3> QED  BY <1>3, <3>1 DEF Units
  <2> QED  BY <2>1 DEF StartOf, Part
<1>6. q[L] = "none" /\ q[Len(s \o u)] = "none"
  BY <1>3, <1>4, ConstructsQuoted
<1>7. M > 1 /\ u[1] = "<" /\ u[M] = ">"
  BY <1>1, <1>2 DEF Tagged
<1> HIDE DEF s, u
<1>8. PICK h : Follows(h, u)
  BY <1>4, QuotesFollow
<1>9. /\ Len(s \o u) = L + M /\ L + M <= Len(data)
      /\ \A i \in 1 .. M : data[L + i] = u[i]
      /\ \A i \in 0 .. M : q[L + i] = h[i]
  BY <1>2, <1>4, <1>6, <1>8, OneConstruct
<1>10. L \in Nat /\ M \in Nat /\ Len(data) \in Nat /\ 1 \in 1 .. M /\ M \in 1 .. M /\ 1 \in 0 .. M /\ 1 - 1 = 0
  <2>1. L \in Nat /\ M \in Nat /\ Len(data) \in Nat
    BY <1>2, <1>4
  <2> HIDE DEF L, M
  <2> QED  BY <1>7, <2>1
<1>11. h[1] = "none"
  <2>1. h[1] = After(h[0], u[1]) /\ h[0] = "none"
    <3>1. h[0] = "none" /\ \A i \in 1 .. M : h[i] = After(h[i - 1], u[i])
      BY <1>8 DEF Follows
    <3> HIDE DEF M
    <3> QED  BY <1>10, <3>1
  <2>2. "<" \notin Quotes
    BY DEF Quotes
  <2> QED  BY <1>7, <2>1, <2>2 DEF After
<1>12. p = L + 1 \/ p = L + M
  <2>1. Len(doc[k].units) = M
    BY <1>2 DEF u
  <2> HIDE DEF L, M
  <2> QED  BY <1>1, <1>5, <1>10, <2>1
<1>13. CASE p = L + 1
  <2>1. data[p] = "<" /\ q[p] = "none"
    BY <1>7, <1>9, <1>10, <1>11, <1>13
  <2>2. p \in 1 .. Len(data)
    BY <1>7, <1>9, <1>10, <1>13
  <2> QED  BY <2>1, <2>2 DEF IsStructural
<1>14. CASE p = L + M
  <2>1. data[p] = ">" /\ q[p] = "none"
    BY <1>6, <1>7, <1>9, <1>10, <1>14
  <2>2. p \in 1 .. Len(data)
    BY <1>7, <1>9, <1>10, <1>14
  <2> QED  BY <2>1, <2>2 DEF IsStructural, IsGt
<1> QED  BY <1>12, <1>13, <1>14

-----------------------------------------------------------------------------
(* The index.                                                              *)

\* The scanner knows the quote that it is in.
Tracked(q) == (dq_state <=> q[scanned] = "dq") /\ (sq_state <=> q[scanned] = "sq")

\* Outside of quotes all structural characters were found that it has passed.
Found(q) == \A p \in 1 .. scanned : IsStructural(data[p]) /\ q[p] = "none" => p \in ToSet(index)

\* Quotes in a row are of one kind until they are closed.
OneKind(q) == \A p \in 1 .. Len(data) : data[p] \in Quotes => q[p - 1] \in {"none", data[p]}

LEMMA ToSetConcat ==
  ASSUME NEW S, NEW s \in Seq(S), NEW t \in Seq(S)
  PROVE  ToSet(s) \subseteq ToSet(s \o t) /\ ToSet(t) \subseteq ToSet(s \o t)
<1> DEFINE b == s \o t
<1>1. /\ Len(s) \in Nat /\ Len(t) \in Nat /\ DOMAIN s = 1 .. Len(s) /\ DOMAIN t = 1 .. Len(t)
      /\ DOMAIN b = 1 .. Len(s) + Len(t) /\ \A i \in 1 .. Len(s) : b[i] = s[i]
  OBVIOUS
<1>2. \A i \in 1 .. Len(t) : b[Len(s) + i] = t[i]
  OBVIOUS
<1> HIDE DEF b
<1>3. \A i \in DOMAIN s : i \in DOMAIN b /\ b[i] = s[i]
  BY <1>1
<1>4. \A i \in DOMAIN t : Len(s) + i \in DOMAIN b /\ b[Len(s) + i] = t[i]
  BY <1>1, <1>2
<1> QED  BY <1>3, <1>4 DEF ToSet, b

\* One character further, the number of quotes of a kind changes with that character.
LEMMA OddNext ==
  ASSUME NEW quote, NEW k \in Nat, scanned \in Nat, k >= scanned
  PROVE  /\ ~Odd(quote, scanned)
         /\ data[k + 1] = quote => (Odd(quote, k + 1) <=> ~Odd(quote, k))
         /\ data[k + 1] # quote => (Odd(quote, k + 1) <=> Odd(quote, k))
<1> DEFINE S(n) == {j \in scanned + 1 .. n : data[j] = quote}
<1>1. \A n \in Nat : IsFiniteSet(S(n)) /\ Cardinality(S(n)) \in Nat
  <2> SUFFICES ASSUME NEW n \in Nat PROVE IsFiniteSet(S(n)) /\ Cardinality(S(n)) \in Nat
    OBVIOUS
  <2> DEFINE s == S(n)
  <2>1. IsFiniteSet(scanned + 1 .. n) /\ s \in SUBSET (scanned + 1 .. n)
    BY FS_Interval
  <2> HIDE DEF s
  <2>2. IsFiniteSet(s) /\ Cardinality(s) \in Nat
    BY <2>1, FS_Subset, FS_CardinalityType
  <2> QED  BY <2>2 DEF s
<1>2. S(scanned) = {}
  OBVIOUS
<1>3. k + 1 \notin S(k) /\ S(k + 1) = IF data[k + 1] = quote THEN S(k) \cup {k + 1} ELSE S(k)
  OBVIOUS
<1>4. \A n : Odd(quote, n) <=> Cardinality(S(n)) % 2 = 1
  BY DEF Odd
<1> HIDE DEF S
<1>5. ~Odd(quote, scanned)
  <2>1. Cardinality(S(scanned)) = 0
    BY <1>2, FS_EmptySet
  <2> QED  BY <1>4, <2>1
<1>6. CASE data[k + 1] = quote
  <2> DEFINE n == Cardinality(S(k))
  <2>1. n \in Nat /\ Cardinality(S(k + 1)) = n + 1
    BY <1>1, <1>3, <1>6, FS_AddElement
  <2> HIDE DEF n
  <2>2. (n + 1) % 2 = 1 <=> ~(n % 2 = 1)
    BY <2>1
  <2> QED  BY <1>4, <1>5, <1>6, <2>1, <2>2 DEF n
<1>7. CASE data[k + 1] # quote
  BY <1>3, <1>4, <1>5, <1>7
<1> QED  BY <1>6, <1>7

LEMMA WithinIs ==
  ASSUME NEW quote, NEW state \in BOOLEAN, NEW k
  PROVE  Within(quote, state, k) <=> (Odd(quote, k) <=> ~state)
<1> DEFINE o == Odd(quote, k)
<1>1. o \in BOOLEAN
  BY DEF Odd
<1> HIDE DEF o
<1>2. Within(quote, state, k) <=> o # state
  BY DEF Within, o
<1>3. o # state <=> (o <=> ~state)
  BY <1>1, Zenon
<1> QED  BY <1>2, <1>3 DEF o

\* In a block, the numbers of both kinds of quotes say which one is open.
LEMMA BlockTracks ==
  ASSUME Scan, scanned + Block <= Len(data), Block \in Nat, NEW q, Follows(q, data), OneKind(q), Tracked(q)
  PROVE  \A i \in 0 .. Block : /\ Within("dq", dq_state, scanned + i) <=> q[scanned + i] = "dq"
                               /\ Within("sq", sq_state, scanned + i) <=> q[scanned + i] = "sq"
<1> DEFINE B == Block
           T == {i \in 0 .. B : /\ Within("dq", dq_state, scanned + i) <=> q[scanned + i] = "dq"
                                /\ Within("sq", sq_state, scanned + i) <=> q[scanned + i] = "sq"}
<1>1. B \in Nat /\ scanned \in Nat /\ scanned + B <= Len(data) /\ Len(data) \in Nat
      /\ dq_state \in BOOLEAN /\ sq_state \in BOOLEAN
  BY DEF Scan
<1> HIDE DEF B
<1>2. 0 \in T
  <2>1. ~Odd("dq", scanned) /\ ~Odd("sq", scanned)
    BY <1>1, OddNext
  <2>2. scanned + 0 = scanned /\ 0 \in 0 .. B
    BY <1>1
  <2>3. Within("dq", dq_state, scanned) <=> dq_state
    BY <1>1, <2>1, WithinIs
  <2>4. Within("sq", sq_state, scanned) <=> sq_state
    BY <1>1, <2>1, WithinIs
  <2> QED  BY <2>2, <2>3, <2>4 DEF Tracked
<1>3. ASSUME NEW i \in 0 .. B - 1, i \in T PROVE i + 1 \in T
  <2> DEFINE k == scanned + i
             u == data[k + 1]
  <2>1. k \in Nat /\ k >= scanned /\ k + 1 \in 1 .. Len(data) /\ (k + 1) - 1 = k
        /\ scanned + (i + 1) = k + 1 /\ i + 1 \in 0 .. B
    BY <1>1
  <2>2. q[k + 1] = After(q[k], u) /\ (u \in Quotes => q[k] \in {"none", u})
    BY <2>1 DEF Follows, OneKind
  <2>3. /\ Within("dq", dq_state, k) <=> q[k] = "dq"
        /\ Within("sq", sq_state, k) <=> q[k] = "sq"
    BY <1>3
  <2> HIDE DEF k, u
  <2>4. ASSUME NEW quote \in {"dq", "sq"}, NEW state \in BOOLEAN, Within(quote, state, k) <=> q[k] = quote
        PROVE  Within(quote, state, k + 1) <=> q[k + 1] = quote
    <3>1. /\ Within(quote, state, k) <=> (Odd(quote, k) <=> ~state)
          /\ Within(quote, state, k + 1) <=> (Odd(quote, k + 1) <=> ~state)
      BY WithinIs
    <3>2. CASE u = quote
      <4>1. Odd(quote, k + 1) <=> ~Odd(quote, k)
        BY <1>1, <2>1, <3>2, OddNext DEF u
      <4>2. q[k + 1] = quote <=> ~(q[k] = quote)
        BY <2>2, <3>2 DEF After, Quotes
      <4> QED  BY <2>4, <3>1, <4>1, <4>2
    <3>3. CASE u # quote
      <4>1. Odd(quote, k + 1) <=> Odd(quote, k)
        BY <1>1, <2>1, <3>3, OddNext DEF u
      <4>2. q[k + 1] = quote <=> q[k] = quote
        <5>1. CASE u \in Quotes
          BY <2>2, <3>3, <5>1 DEF After, Quotes
        <5>2. CASE u \notin Quotes
          BY <2>2, <5>2 DEF After
        <5> QED  BY <5>1, <5>2
      <4> QED  BY <2>4, <3>1, <4>1, <4>2
    <3> QED  BY <3>2, <3>3
  <2>5. /\ Within("dq", dq_state, k + 1) <=> q[k + 1] = "dq"
        /\ Within("sq", sq_state, k + 1) <=> q[k + 1] = "sq"
    BY <1>1, <2>3, <2>4
  <2> QED  BY <2>1, <2>5
<1>4. \A i \in 0 .. B : i \in T
  <2> HIDE DEF T
  <2> QED  BY <1>1, <1>2, <1>3, CountsTo
<1> QED  BY <1>4 DEF B

LEMMA BlockFinds ==
  ASSUME Scan, ScanBlock, backend # "scalar", NEW q, Follows(q, data), OneKind(q), Tracked(q), Found(q)
  PROVE  Tracked(q)' /\ Found(q)'
<1> DEFINE B == Block
           one(k) == IF Listed(scanned + k) THEN <<scanned + k>> ELSE <<>>
           found == [k \in 1 .. B |-> one(k)]
           n == scanned
<1>1. B \in Nat \ {0} /\ n \in Nat /\ n + B <= Len(data) /\ Len(data) \in Nat /\ Block \in Nat
  BY ScanAssumption DEF Scan, ScanBlock, Block
<1>2. \A i \in 0 .. B : /\ Within("dq", dq_state, n + i) <=> q[n + i] = "dq"
                        /\ Within("sq", sq_state, n + i) <=> q[n + i] = "sq"
  BY <1>1, BlockTracks DEF ScanBlock
<1>3. /\ scanned' = n + B /\ data' = data /\ index' = index \o FlattenSeq(found)
      /\ dq_state' = Within("dq", dq_state, n + B) /\ sq_state' = Within("sq", sq_state, n + B)
  BY DEF ScanBlock, StateAfter
<1> HIDE DEF B
<1>4. Tracked(q)'
  <2>1. B \in 0 .. B
    BY <1>1
  <2>2. dq_state' <=> q[n + B] = "dq"
    BY <1>2, <1>3, <2>1
  <2>3. sq_state' <=> q[n + B] = "sq"
    BY <1>2, <1>3, <2>1
  <2>4. scanned' = n + B
    BY <1>3
  <2> HIDE DEF n
  <2> QED  BY <2>2, <2>3, <2>4 DEF Tracked
<1> DEFINE V == 1 .. Len(data)
<1>5. \A k \in 1 .. B : n + k \in V
  BY <1>1
<1>6. found \in Seq(Seq(V)) /\ Len(found) = B /\ \A k \in 1 .. B : found[k] = one(k)
  <2> HIDE DEF V
  <2>1. \A k \in 1 .. B : one(k) \in Seq(V)
    BY <1>5
  <2> HIDE DEF one
  <2> QED  BY <1>1, <2>1
<1>7. index \in Seq(V) /\ FlattenSeq(found) \in Seq(V)
  <2>1. index \in Seq(V)
    BY DEF Scan
  <2> HIDE DEF V, found
  <2> QED  BY <1>6, <2>1, FlattenType
<1> HIDE DEF V, found, one
<1>8. ToSet(index) \subseteq ToSet(index') /\ ToSet(FlattenSeq(found)) \subseteq ToSet(index')
  BY <1>3, <1>7, ToSetConcat
<1>9. ASSUME NEW k \in 1 .. B, IsStructural(data[n + k]), q[n + k] = "none"
      PROVE  n + k \in ToSet(index')
  <2>1. k \in 0 .. B
    BY <1>1
  <2>2. Listed(n + k)
    BY <1>2, <1>9, <2>1 DEF Listed
  <2>3. found[k] = <<n + k>>
    BY <1>6, <2>2 DEF one
  <2>4. 1 \in 1 .. Len(found[k]) /\ found[k][1] = n + k /\ k \in 1 .. Len(found)
    BY <1>6, <2>3
  <2>5. \E p \in 1 .. Len(FlattenSeq(found)) : FlattenSeq(found)[p] = found[k][1]
    BY <1>6, <2>4, FlattenHas
  <2>6. n + k \in ToSet(FlattenSeq(found))
    BY <1>7, <2>4, <2>5 DEF ToSet
  <2> QED  BY <1>8, <2>6
<1>10. Found(q)'
  <2> SUFFICES ASSUME NEW p \in 1 .. n + B, IsStructural(data[p]), q[p] = "none"
               PROVE  p \in ToSet(index')
    BY <1>3 DEF Found
  <2>1. CASE p <= n
    <3>1. p \in 1 .. scanned
      BY <1>1, <2>1
    <3> QED  BY <1>8, <3>1 DEF Found
  <2>2. CASE p > n
    <3>1. p - n \in 1 .. B /\ n + (p - n) = p
      BY <1>1, <2>2
    <3> QED  BY <1>9, <3>1
  <2> QED  BY <1>1, <2>1, <2>2
<1> QED  BY <1>4, <1>10

\* The rest, and for the scalar scanner all, is followed quote by quote.
LEMMA TailFinds ==
  ASSUME Scan, ScanTail, NEW q, Follows(q, data), Tracked(q), Found(q)
  PROVE  Found(q)' /\ scanned' = Len(data)
<1> DEFINE N == Len(data) - scanned
           n == scanned
<1>1. n \in Nat /\ N \in Nat /\ n + N = Len(data) /\ Len(data) \in Nat
  BY DEF Scan
<1>2. PICK at \in [0 .. N -> [quote : Quotes \cup {"none"}, index : Seq(1 .. Len(data))]] :
        Scans(at) /\ ScanRest = at[N]
  BY ScanRestDef
<1>3. /\ at[0].quote = (IF dq_state THEN "dq" ELSE IF sq_state THEN "sq" ELSE "none")
      /\ at[0].index = index
      /\ \A k \in 1 .. N : at[k] = ScanOne(at[k - 1], n + k)
  BY <1>2 DEF Scans
<1> DEFINE V == 1 .. Len(data)
           Good(k) == /\ at[k].quote = q[n + k]
                      /\ \A p \in 1 .. n + k : IsStructural(data[p]) /\ q[p] = "none" => p \in ToSet(at[k].index)
           T == {k \in 0 .. N : Good(k)}
<1>4. \A k \in 0 .. N : at[k].index \in Seq(V)
  <2> HIDE DEF V, N
  <2>1. at \in [0 .. N -> [quote : Quotes \cup {"none"}, index : Seq(V)]]
    BY <1>2 DEF V
  <2> QED  BY <2>1
<1> HIDE DEF N
<1>5. 0 \in T
  <2>1. n + 0 = n /\ 0 \in 0 .. N
    BY <1>1
  <2>2. q[n] \in Quotes \cup {"none"}
    <3>1. n \in 0 .. Len(data)
      BY DEF Scan
    <3> QED  BY <3>1 DEF Follows, Open
  <2>3. at[0].quote = q[n]
    BY <1>3, <2>2 DEF Tracked, Quotes
  <2> QED  BY <1>3, <2>1, <2>3 DEF Found
<1>6. ASSUME NEW k \in 0 .. N - 1, k \in T PROVE k + 1 \in T
  <2> DEFINE p == n + (k + 1)
             a == at[k]
             b == at[k + 1]
  <2>1. k + 1 \in 1 .. N /\ (k + 1) - 1 = k /\ k + 1 \in 0 .. N /\ k \in 0 .. N /\ p \in 1 .. Len(data) /\ p - 1 = n + k
        /\ \A r \in 1 .. p : r \in 1 .. n + k \/ r = p
    BY <1>1
  <2>2. b = ScanOne(a, p) /\ a.index \in Seq(V)
    BY <1>3, <1>4, <2>1
  <2>3. a.quote = q[p - 1] /\ q[p] = After(a.quote, data[p])
    BY <1>6, <2>1 DEF Follows
  <2>4. \A r \in 1 .. n + k : IsStructural(data[r]) /\ q[r] = "none" => r \in ToSet(a.index)
    BY <1>6
  <2>5. ToSet(a.index) \subseteq ToSet(Append(a.index, p)) /\ p \in ToSet(Append(a.index, p))
    <3> DEFINE s == a.index
    <3>1. s \in Seq(V) /\ p \in V
      BY <2>1, <2>2
    <3> DEFINE more == Append(s, p)
    <3> HIDE DEF s, V, p
    <3>2. /\ Len(s) \in Nat /\ DOMAIN s = 1 .. Len(s) /\ DOMAIN more = 1 .. Len(s) + 1
          /\ more[Len(s) + 1] = p /\ \A i \in 1 .. Len(s) : more[i] = s[i]
      BY <3>1
    <3> HIDE DEF more
    <3>3. Len(s) + 1 \in DOMAIN more /\ \A i \in 1 .. Len(s) : i \in DOMAIN more
      BY <3>2
    <3>4. p \in ToSet(more) /\ \A i \in DOMAIN s : s[i] \in ToSet(more)
      BY <3>2, <3>3 DEF ToSet
    <3>5. ToSet(s) \subseteq ToSet(more)
      BY <3>4 DEF ToSet
    <3> QED  BY <3>4, <3>5 DEF s, more
  <2>6. a = [quote |-> a.quote, index |-> a.index]
    BY <1>2, <2>1
  <2> HIDE DEF a, p, b
  <2>7. b.quote = q[p] /\ ToSet(a.index) \subseteq ToSet(b.index)
        /\ (IsStructural(data[p]) /\ q[p] = "none" => p \in ToSet(b.index))
    <3>1. CASE a.quote # "none" /\ data[p] = a.quote
      <4>1. b = [quote |-> "none", index |-> Append(a.index, p)]
        BY <2>2, <3>1 DEF ScanOne
      <4>2. a.quote \in Quotes
        BY <1>2, <2>1, <3>1 DEF a
      <4> QED  BY <2>3, <2>5, <3>1, <4>1, <4>2 DEF After
    <3>2. CASE a.quote # "none" /\ data[p] # a.quote
      <4>1. b = a
        BY <2>2, <3>2 DEF ScanOne
      <4>2. q[p] = a.quote
        BY <2>3, <3>2 DEF After
      <4> QED  BY <3>2, <4>1, <4>2
    <3>3. CASE a.quote = "none" /\ data[p] \in Quotes
      <4>1. ~IsStructural(data[p]) /\ data[p] # "none"
        BY <3>3 DEF IsStructural, IsGt, Quotes
      <4>2. b = [quote |-> data[p], index |-> Append(a.index, p)]
        BY <2>2, <3>3, <4>1 DEF ScanOne
      <4>3. q[p] = data[p]
        BY <2>3, <3>3 DEF After
      <4> QED  BY <2>5, <4>1, <4>2, <4>3
    <3>4. CASE a.quote = "none" /\ data[p] \notin Quotes /\ IsStructural(data[p])
      <4>1. b = [a EXCEPT !.index = Append(@, p)]
        BY <2>2, <3>4 DEF ScanOne
      <4>2. b.quote = a.quote /\ b.index = Append(a.index, p)
        BY <2>6, <4>1
      <4>3. q[p] = "none"
        BY <2>3, <3>4 DEF After
      <4> QED  BY <2>5, <3>4, <4>2, <4>3
    <3>5. CASE a.quote = "none" /\ data[p] \notin Quotes /\ ~IsStructural(data[p])
      <4>1. b = a
        BY <2>2, <3>5 DEF ScanOne
      <4>2. q[p] = a.quote
        BY <2>3, <3>5 DEF After
      <4> QED  BY <3>5, <4>1, <4>2
    <3> QED  BY <3>1, <3>2, <3>3, <3>4, <3>5
  <2>8. \A r \in 1 .. p : IsStructural(data[r]) /\ q[r] = "none" => r \in ToSet(b.index)
    BY <2>1, <2>4, <2>7
  <2>9. Good(k + 1)
    BY <2>7, <2>8 DEF p, b
  <2> QED  BY <2>1, <2>9
<1>7. N \in T
  <2> HIDE DEF T
  <2>1. N \in 0 .. N
    BY <1>1
  <2> QED  BY <1>1, <1>5, <1>6, <2>1, CountsTo
<1>8. index' = at[N].index /\ scanned' = Len(data) /\ data' = data
  BY <1>2 DEF ScanTail
<1>9. \A p \in 1 .. Len(data) : IsStructural(data[p]) /\ q[p] = "none" => p \in ToSet(index')
  BY <1>1, <1>7, <1>8
<1> QED  BY <1>8, <1>9 DEF Found

\* The quotes that data opens and closes.
QuoteAt == CHOOSE q : Follows(q, data)

IndexInv ==
  /\ SaxInv /\ Made /\ Tagged
  /\ WellQuoted => /\ pc = "scan" => Tracked(QuoteAt)
                   /\ pc # "idle" => Found(QuoteAt)
  /\ Scanned => scanned = Len(data)

LEMMA QuoteAtFollows ==
  ASSUME data \in Seq(Unit)
  PROVE  Follows(QuoteAt, data)
<1>1. \E q : Follows(q, data)
  BY QuotesFollow
<1> QED  BY <1>1 DEF QuoteAt

LEMMA InitIndex == Init => IndexInv
<1> SUFFICES ASSUME Init PROVE IndexInv
  OBVIOUS
<1>1. SaxInv
  BY InitSax
<1>2. pc = "idle" /\ doc = <<>> /\ data = <<>>
  BY DEF Init
<1>3. Made
  <2>1. <<>> \in Seq(Seq({})) /\ <<>> \in Seq(Construct) /\ DOMAIN <<>> = {}
    OBVIOUS
  <2>2. FlattenSeq(<<>>) \in Seq({})
    BY <2>1, FlattenType
  <2>3. FlattenSeq(<<>>) = <<>>
    BY <2>2
  <2>4. [i \in DOMAIN <<>> |-> <<>>[i].units] = <<>>
    OBVIOUS
  <2> QED  BY <1>2, <2>1, <2>3, <2>4 DEF Made, Units
<1>4. Tagged
  BY <1>2 DEF Tagged
<1> QED  BY <1>1, <1>2, <1>3, <1>4 DEF IndexInv, Scanned

LEMMA ParseIndex ==
  ASSUME IndexInv, Parse
  PROVE  IndexInv'
<1>1. PICK in \in Inputs \cup LaterInputs : doc' = in.doc /\ ScanInit(in.data)
  BY DEF Parse
<1>2. /\ data' = in.data /\ scanned' = 0 /\ dq_state' = FALSE /\ sq_state' = FALSE /\ pc' = "scan"
  BY <1>1 DEF Parse, ScanInit
<1>3. IsInput(in)
  BY SaxAssumption
<1>4. Made'
  BY <1>1, <1>2, <1>3 DEF IsInput, Made, Units
<1>5. Tagged'
  BY <1>1, <1>3 DEF IsInput, Tagged
<1>6. SaxInv'
  BY ParseSax DEF IndexInv
<1>7. data' \in Seq(Unit)
  BY <1>6 DEF SaxInv, Walk, Scan
<1>8. Follows(QuoteAt', data')
  <2>1. \E q : Follows(q, data')
    BY <1>7, QuotesFollow
  <2> QED  BY <2>1 DEF QuoteAt
<1>9. QuoteAt'[0] = "none"
  BY <1>8 DEF Follows
<1>10. Tracked(QuoteAt)' /\ Found(QuoteAt)'
  <2>1. 1 .. 0 = {}
    OBVIOUS
  <2> QED  BY <1>2, <1>9, <2>1 DEF Tracked, Found
<1> QED  BY <1>2, <1>4, <1>5, <1>6, <1>10 DEF IndexInv, Scanned

LEMMA ScanningIndex ==
  ASSUME IndexInv, Scanning
  PROVE  IndexInv'
<1>1. SaxInv' /\ Scan /\ pc = "scan"
  BY ScanningSax DEF IndexInv, SaxInv, Walk, Scanning
<1>2. data' = data /\ doc' = doc /\ backend' = backend
  BY DEF Scanning, ScanSse42, ScanAvx2, ScanAvx512, ScanBlock, ScanTail
<1>3. QuoteAt' = QuoteAt /\ Made' /\ Tagged' /\ (WellQuoted' <=> WellQuoted)
  BY <1>2 DEF QuoteAt, Made, Units, Tagged, WellQuoted, Quoted, IndexInv
<1>4. Follows(QuoteAt, data)
  BY <1>1, QuoteAtFollows DEF Scan
<1> DEFINE q == QuoteAt
<1>5. CASE (ScanSse42 \/ ScanAvx2 \/ ScanAvx512) /\ UNCHANGED pc
  <2>1. ScanBlock /\ backend # "scalar"
    BY <1>5 DEF ScanSse42, ScanAvx2, ScanAvx512
  <2>2. ASSUME WellQuoted PROVE Tracked(q)' /\ Found(q)'
    <3>1. OneKind(q)
      <4>1. Len(doc) \in Nat /\ Len(Units) = Len(doc) /\ Units \in Seq(Seq(Unit)) /\ Made
        BY UnitsAre DEF IndexInv
      <4>2. Part(Units, Len(Units)) = FlattenSeq(Units)
        BY <4>1, PartNext
      <4>3. Part(Units, Len(doc)) = data
        BY <4>1, <4>2 DEF Made
      <4>4. Len(doc) \in 0 .. Len(doc)
        BY <4>1
      <4> QED  BY <1>4, <2>1, <2>2, <4>1, <4>3, <4>4, ConstructsQuoted DEF OneKind
    <3>2. Tracked(q) /\ Found(q)
      BY <1>1, <2>2 DEF IndexInv
    <3> DEFINE o == QuoteAt
    <3> HIDE DEF o
    <3>3. \A r : Follows(r, data) /\ OneKind(r) /\ Tracked(r) /\ Found(r) => Tracked(r)' /\ Found(r)'
      BY <1>1, <2>1, BlockFinds
    <3> QED  BY <1>3, <1>4, <3>1, <3>2, <3>3
  <2> QED  BY <1>1, <1>3, <1>5, <2>2 DEF IndexInv, Scanned
<1>6. CASE ScanTail /\ pc' = "tokenize"
  <2>1. ASSUME WellQuoted PROVE Found(q)'
    <3>1. Tracked(q) /\ Found(q)
      BY <1>1, <2>1 DEF IndexInv
    <3> QED  BY <1>1, <1>3, <1>4, <1>6, <3>1, TailFinds
  <2>2. scanned' = Len(data')
    BY <1>2, <1>6 DEF ScanTail
  <2> QED  BY <1>1, <1>3, <1>6, <2>1, <2>2 DEF IndexInv, Scanned
<1> QED  BY <1>5, <1>6 DEF Scanning

\* The index is not touched any more.
LEMMA OthersIndex ==
  ASSUME IndexInv, [Next]_vars, ~Parse, ~Scanning
  PROVE  IndexInv'
<1>1. SaxInv'
  BY NextSax DEF IndexInv
<1>2. UNCHANGED <<scanVars, doc>> /\ (pc' # "idle" => pc # "idle" /\ (pc' = "scan" => pc = "scan")
                                      /\ (pc' \in {"tokenize", "emit"} /\ pc # pc' => pc \in {"tokenize", "emit"}))
  <2>1. CASE Tokenizing
    BY <2>1 DEF Tokenizing
  <2>2. CASE Emitting
    BY <2>2 DEF Emitting, StartTag, StartTagOverLimit, SelfClosingTag, SelfClosingTagOverLimit,
      EndTag, UnexpectedEndTag, EntityRef, TooManyReferences, Content, Return, Go, Throw, Reading
  <2>3. CASE UNCHANGED vars
    BY <2>3 DEF vars, parserVars
  <2> QED  BY <2>1, <2>2, <2>3 DEF Next, Done
<1>3. UNCHANGED <<data, backend, scanned, dq_state, sq_state, index, doc>>
  BY <1>2 DEF scanVars
<1>4. QuoteAt' = QuoteAt /\ Made' /\ Tagged' /\ (WellQuoted' <=> WellQuoted)
  BY <1>3 DEF QuoteAt, Made, Units, Tagged, WellQuoted, Quoted, IndexInv
<1>5. (Tracked(QuoteAt)' <=> Tracked(QuoteAt)) /\ (Found(QuoteAt)' <=> Found(QuoteAt))
  BY <1>3, <1>4 DEF Tracked, Found
<1> QED  BY <1>1, <1>2, <1>3, <1>4, <1>5 DEF IndexInv, Scanned

THEOREM IndexCorrect == Spec => []TagsAreIndexed
<1>1. IndexInv /\ [Next]_vars => IndexInv'
  BY ParseIndex, ScanningIndex, OthersIndex
<1>2. IndexInv => TagsAreIndexed
  <2> SUFFICES ASSUME IndexInv, Scanned, WellQuoted PROVE TagMarks \subseteq ToSet(index)
    BY DEF TagsAreIndexed
  <2>1. Follows(QuoteAt, data)
    BY QuoteAtFollows DEF IndexInv, SaxInv, Walk, Scan
  <2>2. Found(QuoteAt) /\ scanned = Len(data) /\ Made /\ Tagged
    BY DEF IndexInv, Scanned
  <2>3. ASSUME NEW p \in TagMarks PROVE p \in ToSet(index)
    <3>1. p \in 1 .. Len(data) /\ IsStructural(data[p]) /\ QuoteAt[p] = "none"
      BY <2>1, <2>2, MarksOutside
    <3> QED  BY <2>2, <3>1 DEF Found
  <2> QED  BY <2>3
<1> QED  BY <1>1, <1>2, InitIndex, PTL DEF Spec

-----------------------------------------------------------------------------
(* Namespaces.                                                             *)

\* Where scope i ends in the bindings.
EndOf(st, s, i) == st[i] + Len(s[i])

Types(b, st, s) == b \in Seq(Binding) /\ st \in Seq(Nat) /\ s \in Seq(Seq(Binding))

\* Each scope begins where the one before ends, and the last ends the bindings.
Adjacent(b, st, s) ==
  /\ Len(st) = Len(s) /\ Len(s) > 0
  /\ \A i \in 1 .. Len(s) - 1 : st[i + 1] = EndOf(st, s, i)
  /\ Len(b) = EndOf(st, s, Len(s))

Ordered(st, s) == \A i, l \in 1 .. Len(s) : i < l => EndOf(st, s, i) <= st[l]

\* Every declaration is a binding.
Contained(b, st, s) ==
  \A i \in 1 .. Len(s) : \A j \in 1 .. Len(s[i]) : b[st[i] + j] = s[i][j]

\* Every binding is a declaration of an open element.
Covered(b, st, s) ==
  \A k \in 1 .. Len(b) : \E i \in 1 .. Len(s) : st[i] < k /\ k <= EndOf(st, s, i)

Laid(b, st, s) ==
  Types(b, st, s) /\ Adjacent(b, st, s) /\ Ordered(st, s) /\ Contained(b, st, s) /\ Covered(b, st, s)

NsInv ==
  /\ ns = [bindings |-> ns.bindings, starts |-> ns.starts]
  /\ Laid(ns.bindings, ns.starts, scopes)

-----------------------------------------------------------------------------

LEMMA FreshLaid == Laid(<<XmlBinding>>, <<0>>, << <<XmlBinding>> >>)
<1>1. XmlBinding \in Binding
  BY NamespaceAssumption DEF XmlBinding, Binding
<1> HIDE DEF XmlBinding
<1>2. Types(<<XmlBinding>>, <<0>>, << <<XmlBinding>> >>)
  BY <1>1 DEF Types
<1>3. Adjacent(<<XmlBinding>>, <<0>>, << <<XmlBinding>> >>)
  BY DEF Adjacent, EndOf
<1>4. Ordered(<<0>>, << <<XmlBinding>> >>)
  BY DEF Ordered, EndOf
<1>5. Contained(<<XmlBinding>>, <<0>>, << <<XmlBinding>> >>)
  BY DEF Contained
<1>6. Covered(<<XmlBinding>>, <<0>>, << <<XmlBinding>> >>)
  BY DEF Covered, EndOf
<1> QED  BY <1>2, <1>3, <1>4, <1>5, <1>6 DEF Laid

\* The parts of a layout are numbers and sequences.
LEMMA LaidTypes ==
  ASSUME NEW b, NEW st, NEW s, Laid(b, st, s)
  PROVE  /\ Len(s) \in Nat /\ Len(s) > 0 /\ Len(st) = Len(s) /\ Len(b) \in Nat
         /\ \A i \in 1 .. Len(s) :
              /\ s[i] \in Seq(Binding) /\ Len(s[i]) \in Nat /\ st[i] \in Nat
              /\ EndOf(st, s, i) \in Nat /\ st[i] <= EndOf(st, s, i)
              /\ EndOf(st, s, i) <= Len(b)
<1>1. /\ Len(s) \in Nat /\ Len(s) > 0 /\ Len(st) = Len(s) /\ Len(b) \in Nat
  BY DEF Laid, Types, Adjacent
<1>2. ASSUME NEW i \in 1 .. Len(s)
      PROVE  s[i] \in Seq(Binding) /\ Len(s[i]) \in Nat /\ st[i] \in Nat
  BY <1>1 DEF Laid, Types
<1>3. ASSUME NEW i \in 1 .. Len(s)
      PROVE  EndOf(st, s, i) \in Nat /\ st[i] <= EndOf(st, s, i)
  BY <1>2 DEF EndOf
<1>4. ASSUME NEW i \in 1 .. Len(s)
      PROVE  EndOf(st, s, i) <= Len(b)
  <2>1. Len(s) \in 1 .. Len(s)
    BY <1>1
  <2>2. CASE i = Len(s)
    BY <2>2, <1>1 DEF Laid, Adjacent
  <2>3. CASE i < Len(s)
    <3>1. EndOf(st, s, i) <= st[Len(s)]
      BY <2>1, <2>3 DEF Laid, Ordered
    <3>2. st[Len(s)] <= Len(b) /\ st[Len(s)] \in Nat /\ EndOf(st, s, i) \in Nat
      BY <2>1, <1>1, <1>2, <1>3 DEF Laid, Adjacent
    <3> QED  BY <3>1, <3>2, <1>1
  <2> QED  BY <2>2, <2>3, <1>1
<1> QED  BY <1>1, <1>2, <1>3, <1>4

\* A new scope with its declarations (push_scope, then declare for each).
LEMMA PushLaid ==
  ASSUME NEW b, NEW st, NEW s, Laid(b, st, s), NEW decls \in Seq(Binding)
  PROVE  Laid(b \o decls, Append(st, Len(b)), Append(s, decls))
<1> DEFINE d == b \o decls
           u == Append(st, Len(b))
           t == Append(s, decls)
           n == Len(s)
<1>1. /\ b \in Seq(Binding) /\ st \in Seq(Nat) /\ s \in Seq(Seq(Binding))
  BY DEF Laid, Types
<1>2. /\ n \in Nat /\ n > 0 /\ Len(st) = n /\ Len(b) \in Nat
      /\ \A i \in 1 .. n :
           /\ s[i] \in Seq(Binding) /\ Len(s[i]) \in Nat /\ st[i] \in Nat
           /\ EndOf(st, s, i) \in Nat /\ st[i] <= EndOf(st, s, i) /\ EndOf(st, s, i) <= Len(b)
  BY LaidTypes
<1>3. Types(d, u, t)
  BY <1>1 DEF Types
<1>4. /\ Len(t) = n + 1 /\ Len(u) = n + 1 /\ t[n + 1] = decls /\ u[n + 1] = Len(b)
      /\ Len(d) = Len(b) + Len(decls) /\ Len(decls) \in Nat
      /\ \A k \in 1 .. Len(b) : d[k] = b[k]
      /\ \A k \in 1 .. Len(decls) : d[Len(b) + k] = decls[k]
  BY <1>1, <1>2
<1>5. \A i \in 1 .. n : t[i] = s[i] /\ u[i] = st[i]
  BY <1>1, <1>2
<1> HIDE DEF d, u, t, n
<1>6. /\ \A i \in 1 .. n : EndOf(u, t, i) = EndOf(st, s, i)
      /\ EndOf(u, t, n + 1) = Len(d)
  BY <1>4, <1>5 DEF EndOf
<1>7. EndOf(st, s, n) = Len(b) /\ \A i \in 1 .. n - 1 : st[i + 1] = EndOf(st, s, i)
  BY DEF Laid, Adjacent, n
<1>8. Adjacent(d, u, t)
  <2>1. ASSUME NEW i \in 1 .. n PROVE u[i + 1] = EndOf(u, t, i)
    <3>1. CASE i = n
      BY <3>1, <1>4, <1>6, <1>7, <1>2
    <3>2. CASE i < n
      BY <3>2, <1>2, <1>5, <1>6, <1>7
    <3> QED  BY <3>1, <3>2, <1>2
  <2> QED  BY <2>1, <1>2, <1>4, <1>6 DEF Adjacent
<1>9. Ordered(u, t)
  <2> SUFFICES ASSUME NEW i \in 1 .. n + 1, NEW l \in 1 .. n + 1, i < l
               PROVE  EndOf(u, t, i) <= u[l]
    BY <1>4 DEF Ordered
  <2>1. i \in 1 .. n
    BY <1>2
  <2>2. CASE l = n + 1
    BY <2>1, <2>2, <1>2, <1>4, <1>6
  <2>3. CASE l \in 1 .. n
    BY <2>1, <2>3, <1>5, <1>6 DEF Laid, Ordered, n
  <2> QED  BY <2>2, <2>3, <1>2
<1>10. Contained(d, u, t)
  <2> SUFFICES ASSUME NEW i \in 1 .. n + 1, NEW j \in 1 .. Len(t[i])
               PROVE  d[u[i] + j] = t[i][j]
    BY <1>4 DEF Contained
  <2>1. CASE i = n + 1
    BY <2>1, <1>4
  <2>2. CASE i \in 1 .. n
    <3>1. t[i] = s[i] /\ u[i] = st[i] /\ b[st[i] + j] = s[i][j]
      BY <2>2, <1>5 DEF Laid, Contained, n
    <3>2. st[i] + j \in 1 .. Len(b)
      BY <2>2, <3>1, <1>2 DEF EndOf
    <3> QED  BY <3>1, <3>2, <1>4
  <2> QED  BY <2>1, <2>2, <1>2
<1>11. Covered(d, u, t)
  <2> SUFFICES ASSUME NEW k \in 1 .. Len(d)
               PROVE  \E i \in 1 .. n + 1 : u[i] < k /\ k <= EndOf(u, t, i)
    BY <1>4 DEF Covered
  <2>1. CASE k > Len(b)
    <3>1. n + 1 \in 1 .. n + 1
      BY <1>2
    <3> QED  BY <2>1, <3>1, <1>4, <1>6
  <2>2. CASE k \in 1 .. Len(b)
    <3>1. PICK i \in 1 .. n : st[i] < k /\ k <= EndOf(st, s, i)
      BY <2>2 DEF Laid, Covered, n
    <3>2. i \in 1 .. n + 1
      BY <1>2
    <3> QED  BY <3>1, <3>2, <1>5, <1>6
  <2> QED  BY <2>1, <2>2, <1>2, <1>4
<1>12. Laid(d, u, t)
  BY <1>3, <1>8, <1>9, <1>10, <1>11 DEF Laid
<1> QED  BY <1>12 DEF d, u, t

\* The innermost scope goes with its bindings (pop_scope).
LEMMA PopLaid ==
  ASSUME NEW b, NEW st, NEW s, Laid(b, st, s), Len(s) > 1
  PROVE  Laid(SubSeq(b, 1, st[Len(s)]), SubSeq(st, 1, Len(s) - 1), SubSeq(s, 1, Len(s) - 1))
<1> DEFINE n == Len(s)
           m == n - 1
           e == st[n]
           d == SubSeq(b, 1, e)
           u == SubSeq(st, 1, m)
           t == SubSeq(s, 1, m)
<1>1. /\ b \in Seq(Binding) /\ st \in Seq(Nat) /\ s \in Seq(Seq(Binding))
  BY DEF Laid, Types
<1>2. /\ n \in Nat /\ n > 1 /\ Len(st) = n /\ Len(b) \in Nat
      /\ \A i \in 1 .. n :
           /\ s[i] \in Seq(Binding) /\ Len(s[i]) \in Nat /\ st[i] \in Nat
           /\ EndOf(st, s, i) \in Nat /\ st[i] <= EndOf(st, s, i) /\ EndOf(st, s, i) <= Len(b)
  BY LaidTypes
<1>3. m \in Nat /\ m > 0 /\ n = m + 1 /\ n \in 1 .. n /\ m \in 1 .. n
  BY <1>2
<1>4. e \in Nat /\ e <= Len(b) /\ e = EndOf(st, s, m)
  <2>1. m \in 1 .. n - 1 /\ m + 1 = n
    BY <1>3
  <2>2. st[m + 1] = EndOf(st, s, m)
    BY <2>1 DEF Laid, Adjacent
  <2> QED  BY <1>2, <1>3, <2>1, <2>2
<1>5. /\ Len(d) = e /\ Len(u) = m /\ Len(t) = m
      /\ \A k \in 1 .. e : d[k] = b[k]
      /\ \A i \in 1 .. m : u[i] = st[i] /\ t[i] = s[i]
  BY <1>1, <1>2, <1>3, <1>4
<1>6. Types(d, u, t)
  <2>1. d \in Seq(Binding)
    BY <1>1, <1>4, SubSeqProperties
  <2>2. m \in Int /\ \A i \in 1 .. m : st[i] \in Nat /\ s[i] \in Seq(Binding)
    BY <1>2, <1>3
  <2>3. u \in Seq(Nat)
    BY <2>2, SubSeqProperties
  <2>4. t \in Seq(Seq(Binding))
    BY <2>2, SubSeqProperties
  <2> QED  BY <2>1, <2>3, <2>4 DEF Types
<1> HIDE DEF d, u, t, m, n, e
<1>7. /\ \A i \in 1 .. m : EndOf(u, t, i) = EndOf(st, s, i)
      /\ \A i \in 1 .. m : i \in 1 .. n
  BY <1>3, <1>5 DEF EndOf
<1>8. Adjacent(d, u, t)
  <2>1. ASSUME NEW i \in 1 .. m - 1 PROVE u[i + 1] = EndOf(u, t, i)
    <3>1. i \in 1 .. n - 1 /\ i + 1 \in 1 .. m /\ i \in 1 .. m
      BY <1>3
    <3>2. st[i + 1] = EndOf(st, s, i)
      BY <3>1 DEF Laid, Adjacent, n
    <3> QED  BY <3>1, <3>2, <1>5, <1>7
  <2>2. Len(d) = EndOf(u, t, m)
    BY <1>3, <1>4, <1>5, <1>7
  <2> QED  BY <2>1, <2>2, <1>3, <1>5 DEF Adjacent
<1>9. Ordered(u, t)
  <2> SUFFICES ASSUME NEW i \in 1 .. m, NEW l \in 1 .. m, i < l PROVE EndOf(u, t, i) <= u[l]
    BY <1>5 DEF Ordered
  <2>1. EndOf(st, s, i) <= st[l]
    BY <1>7 DEF Laid, Ordered, n
  <2> QED  BY <2>1, <1>5, <1>7
<1>10. Contained(d, u, t)
  <2> SUFFICES ASSUME NEW i \in 1 .. m, NEW j \in 1 .. Len(t[i]) PROVE d[u[i] + j] = t[i][j]
    BY <1>5 DEF Contained
  <2>1. t[i] = s[i] /\ u[i] = st[i] /\ i \in 1 .. n
    BY <1>5, <1>7
  <2>2. b[st[i] + j] = s[i][j]
    BY <2>1 DEF Laid, Contained, n
  <2>3. EndOf(st, s, i) <= e
    <3>1. CASE i = m
      BY <3>1, <1>2, <1>3, <1>4, <2>1
    <3>2. CASE i < m
      <4>1. i < n
        BY <3>2, <1>3
      <4> QED  BY <4>1, <2>1, <1>3 DEF Laid, Ordered, n, e
    <3> QED  BY <3>1, <3>2, <1>3
  <2>4. st[i] + j \in 1 .. e
    BY <2>1, <2>3, <1>2, <1>4 DEF EndOf
  <2> QED  BY <2>1, <2>2, <2>4, <1>5
<1>11. Covered(d, u, t)
  <2> SUFFICES ASSUME NEW k \in 1 .. e PROVE \E i \in 1 .. m : u[i] < k /\ k <= EndOf(u, t, i)
    BY <1>5 DEF Covered
  <2>1. k \in 1 .. Len(b)
    BY <1>2, <1>4
  <2>2. PICK i \in 1 .. n : st[i] < k /\ k <= EndOf(st, s, i)
    BY <2>1 DEF Laid, Covered, n
  <2>3. i # n
    BY <2>2, <1>4 DEF e
  <2>4. i \in 1 .. m
    BY <2>3, <1>3
  <2> QED  BY <2>2, <2>4, <1>5, <1>7
<1>12. Laid(d, u, t)
  BY <1>6, <1>8, <1>9, <1>10, <1>11 DEF Laid
<1> QED  BY <1>12 DEF d, u, t, m, n, e

\* One more declaration in the innermost scope (declare).
LEMMA DeclareLaid ==
  ASSUME NEW b, NEW st, NEW s, Laid(b, st, s), NEW x \in Binding
  PROVE  Laid(b \o <<x>>, st, [s EXCEPT ![Len(s)] = Append(@, x)])
<1> DEFINE n == Len(s)
           d == b \o <<x>>
           t == [s EXCEPT ![n] = Append(s[n], x)]
<1>1. /\ b \in Seq(Binding) /\ st \in Seq(Nat) /\ s \in Seq(Seq(Binding))
  BY DEF Laid, Types
<1>2. /\ n \in Nat /\ n > 0 /\ Len(st) = n /\ Len(b) \in Nat /\ n \in 1 .. n
      /\ \A i \in 1 .. n :
           /\ s[i] \in Seq(Binding) /\ Len(s[i]) \in Nat /\ st[i] \in Nat
           /\ EndOf(st, s, i) \in Nat /\ st[i] <= EndOf(st, s, i) /\ EndOf(st, s, i) <= Len(b)
  BY LaidTypes
<1>3. /\ Len(d) = Len(b) + 1 /\ d[Len(b) + 1] = x
      /\ \A k \in 1 .. Len(b) : d[k] = b[k]
  BY <1>1
<1>4. /\ Append(s[n], x) \in Seq(Binding) /\ Len(Append(s[n], x)) = Len(s[n]) + 1
      /\ Append(s[n], x)[Len(s[n]) + 1] = x
      /\ \A j \in 1 .. Len(s[n]) : Append(s[n], x)[j] = s[n][j]
  BY <1>2
<1>5. /\ Len(t) = n /\ t[n] = Append(s[n], x) /\ t \in Seq(Seq(Binding))
      /\ \A i \in 1 .. n - 1 : t[i] = s[i]
  BY <1>1, <1>2, <1>4
<1>6. Types(d, st, t)
  <2>1. <<x>> \in Seq(Binding)
    OBVIOUS
  <2>2. d \in Seq(Binding)
    BY <1>1, <2>1
  <2> QED  BY <1>1, <1>5, <2>2 DEF Types
<1> HIDE DEF d, t, n
<1>7. /\ \A i \in 1 .. n - 1 : EndOf(st, t, i) = EndOf(st, s, i)
      /\ EndOf(st, t, n) = EndOf(st, s, n) + 1
      /\ EndOf(st, s, n) = Len(b)
  <2>1. EndOf(st, s, n) = Len(b)
    BY DEF Laid, Adjacent, n
  <2>2. EndOf(st, t, n) = EndOf(st, s, n) + 1
    BY <1>2, <1>4, <1>5 DEF EndOf
  <2> QED  BY <2>1, <2>2, <1>5 DEF EndOf
<1>8. Adjacent(d, st, t)
  <2>1. \A i \in 1 .. n - 1 : st[i + 1] = EndOf(st, t, i)
    BY <1>7 DEF Laid, Adjacent, n
  <2> QED  BY <2>1, <1>2, <1>3, <1>5, <1>7 DEF Adjacent
<1>9. Ordered(st, t)
  <2> SUFFICES ASSUME NEW i \in 1 .. n, NEW l \in 1 .. n, i < l PROVE EndOf(st, t, i) <= st[l]
    BY <1>5 DEF Ordered
  <2>1. EndOf(st, s, i) <= st[l] /\ i \in 1 .. n - 1
    BY <1>2 DEF Laid, Ordered, n
  <2> QED  BY <2>1, <1>7
<1>10. Contained(d, st, t)
  <2> SUFFICES ASSUME NEW i \in 1 .. n, NEW j \in 1 .. Len(t[i]) PROVE d[st[i] + j] = t[i][j]
    BY <1>5 DEF Contained
  <2>1. CASE j \in 1 .. Len(s[i])
    <3>1. b[st[i] + j] = s[i][j] /\ st[i] + j \in 1 .. Len(b)
      BY <2>1, <1>2 DEF Laid, Contained, EndOf, n
    <3>2. t[i][j] = s[i][j]
      <4>1. CASE i = n
        BY <4>1, <2>1, <1>4, <1>5
      <4>2. CASE i \in 1 .. n - 1
        BY <4>2, <1>5
      <4> QED  BY <4>1, <4>2, <1>2
    <3> QED  BY <3>1, <3>2, <1>3
  <2>2. CASE j \notin 1 .. Len(s[i])
    <3>1. i = n /\ j = Len(s[n]) + 1
      BY <2>2, <1>2, <1>4, <1>5
    <3>2. st[n] + j = Len(b) + 1
      BY <3>1, <1>2, <1>7 DEF EndOf
    <3> QED  BY <3>1, <3>2, <1>3, <1>4, <1>5
  <2> QED  BY <2>1, <2>2
<1>11. Covered(d, st, t)
  <2> SUFFICES ASSUME NEW k \in 1 .. Len(d) PROVE \E i \in 1 .. n : st[i] < k /\ k <= EndOf(st, t, i)
    BY <1>5 DEF Covered
  <2>1. CASE k = Len(b) + 1
    BY <2>1, <1>2, <1>7
  <2>2. CASE k \in 1 .. Len(b)
    <3>1. PICK i \in 1 .. n : st[i] < k /\ k <= EndOf(st, s, i)
      BY <2>2 DEF Laid, Covered, n
    <3>2. EndOf(st, s, i) <= EndOf(st, t, i) /\ EndOf(st, t, i) \in Nat
      <4>1. CASE i = n
        BY <4>1, <1>2, <1>7
      <4>2. CASE i \in 1 .. n - 1
        BY <4>2, <1>2, <1>7
      <4> QED  BY <4>1, <4>2, <1>2
    <3> QED  BY <3>1, <3>2, <1>2
  <2> QED  BY <2>1, <2>2, <1>2, <1>3
<1>12. Laid(d, st, t)
  BY <1>6, <1>8, <1>9, <1>10, <1>11 DEF Laid
<1> QED  BY <1>12 DEF d, t, n

-----------------------------------------------------------------------------

\* LatestOf is the last binding of a bound prefix.
LEMMA LatestIsLast ==
  ASSUME NEW c, NEW prefix, c.bindings \in Seq(Binding),
         NEW k \in 1 .. Len(c.bindings), c.bindings[k].prefix = prefix,
         \A l \in 1 .. Len(c.bindings) : l > k => c.bindings[l].prefix # prefix
  PROVE  Resolve(c, prefix) = c.bindings[k].uri
<1>1. DOMAIN c.bindings = 1 .. Len(c.bindings) /\ Len(c.bindings) \in Nat
  OBVIOUS
<1>2. Bound(c, prefix)
  BY <1>1 DEF Bound
<1>3. LatestOf(c, prefix) = k
  <2> DEFINE Newest(l) ==
        /\ c.bindings[l].prefix = prefix
        /\ \A q \in DOMAIN c.bindings : q > l => c.bindings[q].prefix # prefix
  <2>1. Newest(k)
    BY <1>1
  <2>2. ASSUME NEW l \in DOMAIN c.bindings, Newest(l) PROVE l = k
    BY <2>1, <2>2, <1>1
  <2> HIDE DEF Newest
  <2>3. (CHOOSE l \in DOMAIN c.bindings : Newest(l)) = k
    BY <2>1, <2>2, <1>1
  <2> QED  BY <2>3 DEF LatestOf, Newest
<1> QED  BY <1>2, <1>3 DEF Resolve

\* The layout decides what a prefix resolves to.
LEMMA LaidResolves ==
  ASSUME Laid(ns.bindings, ns.starts, scopes)
  PROVE  InnermostBinding
<1> DEFINE b == ns.bindings
           st == ns.starts
           s == scopes
           n == Len(s)
<1>1. /\ b \in Seq(Binding) /\ s \in Seq(Seq(Binding))
  BY DEF Laid, Types
<1>2. /\ n \in Nat /\ n > 0 /\ Len(b) \in Nat
      /\ \A i \in 1 .. n :
           /\ s[i] \in Seq(Binding) /\ Len(s[i]) \in Nat /\ st[i] \in Nat
           /\ EndOf(st, s, i) \in Nat /\ st[i] <= EndOf(st, s, i) /\ EndOf(st, s, i) <= Len(b)
  BY LaidTypes
<1>3. /\ DOMAIN s = 1 .. n /\ DOMAIN b = 1 .. Len(b)
      /\ \A i \in 1 .. n : DOMAIN s[i] = 1 .. Len(s[i])
  BY <1>1, <1>2
\* Binding l is declaration l - st[m] of scope m.
<1>4. ASSUME NEW l \in 1 .. Len(b)
      PROVE  \E m \in 1 .. n : /\ l - st[m] \in 1 .. Len(s[m]) /\ b[l] = s[m][l - st[m]]
                               /\ st[m] < l /\ l <= EndOf(st, s, m)
  <2>1. PICK m \in 1 .. n : st[m] < l /\ l <= EndOf(st, s, m)
    BY DEF Laid, Covered
  <2>2. l - st[m] \in 1 .. Len(s[m]) /\ st[m] + (l - st[m]) = l
    BY <2>1, <1>2 DEF EndOf
  <2>3. b[st[m] + (l - st[m])] = s[m][l - st[m]]
    BY <2>2 DEF Laid, Contained
  <2> QED  BY <2>1, <2>2, <2>3
<1>5. ASSUME NEW i \in DOMAIN s, NEW j \in DOMAIN s[i], InForce(i, j)
      PROVE  Resolve(ns, s[i][j].prefix) = s[i][j].uri
  <2> DEFINE prefix == s[i][j].prefix
             k == st[i] + j
  <2>1. i \in 1 .. n /\ j \in 1 .. Len(s[i])
    BY <1>3
  <2>2. b[k] = s[i][j]
    BY <2>1 DEF Laid, Contained
  <2>3. k \in 1 .. Len(b) /\ k <= EndOf(st, s, i)
    BY <2>1, <1>2 DEF EndOf
  <2>4. ASSUME NEW l \in 1 .. Len(b), l > k PROVE b[l].prefix # prefix
    <3>1. PICK m \in 1 .. n : /\ l - st[m] \in 1 .. Len(s[m]) /\ b[l] = s[m][l - st[m]]
                              /\ st[m] < l /\ l <= EndOf(st, s, m)
      BY <1>4
    <3>2. CASE m = i
      <4>1. l - st[m] > j /\ l - st[m] \in DOMAIN s[i]
        BY <3>1, <3>2, <2>1, <2>3, <2>4, <1>2, <1>3
      <4> QED  BY <4>1, <3>1, <3>2, <1>5 DEF InForce
    <3>3. CASE m > i
      <4>1. ~Binds(s[m], prefix)
        BY <3>3, <1>3, <1>5 DEF InForce
      <4> QED  BY <4>1, <3>1, <1>3 DEF Binds
    <3>4. CASE m < i
      <4>1. EndOf(st, s, m) <= st[i]
        BY <3>4, <2>1 DEF Laid, Ordered
      <4>2. /\ st[i] \in Nat /\ EndOf(st, s, m) \in Nat
            /\ l \in Int /\ j \in Nat /\ l > st[i] + j /\ l <= EndOf(st, s, m)
        BY <3>1, <2>1, <2>4, <1>2
      <4> HIDE DEF prefix, k
      <4> QED  BY ONLY <4>1, <4>2
    <3> QED  BY <3>2, <3>3, <3>4, <2>1, <1>2
  <2>5. b[k].prefix = prefix /\ b[k].uri = s[i][j].uri
    BY <2>2
  <2> HIDE DEF k, prefix
  <2>6. Resolve(ns, prefix) = b[k].uri
    BY <2>3, <2>4, <2>5, <1>1, LatestIsLast
  <2> QED  BY <2>5, <2>6 DEF prefix
<1>6. ASSUME NEW prefix \in NsPrefixes, \A i \in DOMAIN s : ~Binds(s[i], prefix)
      PROVE  Resolve(ns, prefix) = Unbound
  <2>1. ~Bound(ns, prefix)
    <3> SUFFICES ASSUME NEW l \in 1 .. Len(b), b[l].prefix = prefix PROVE FALSE
      BY <1>3 DEF Bound
    <3>1. PICK m \in 1 .. n : l - st[m] \in 1 .. Len(s[m]) /\ b[l] = s[m][l - st[m]]
      BY <1>4
    <3> QED  BY <3>1, <1>3, <1>6 DEF Binds
  <2> QED  BY <2>1 DEF Resolve
<1> QED  BY <1>5, <1>6 DEF InnermostBinding

-----------------------------------------------------------------------------

LEMMA MoreBindings ==
  ASSUME NEW b, NEW st, NEW decls
  PROVE  WithBindings([bindings |-> b, starts |-> st], decls) = [bindings |-> b \o decls, starts |-> st]
<1> DEFINE c == [bindings |-> b, starts |-> st]
           x == b \o decls
<1>1. WithBindings(c, decls) = [c EXCEPT !.bindings = x]
  BY DEF WithBindings
<1> HIDE DEF x
<1>2. [c EXCEPT !.bindings = x] = [bindings |-> x, starts |-> st]
  OBVIOUS
<1> QED  BY <1>1, <1>2 DEF x

\* One scope more leaves the bindings.
LEMMA MoreScopes ==
  ASSUME NEW b, NEW st, NEW c, c = [bindings |-> b, starts |-> st]
  PROVE  ScopePushed(c) = [bindings |-> b, starts |-> Append(st, Len(b))]
<1> DEFINE x == Append(st, Len(b))
<1>1. c.bindings = b /\ c.starts = st
  OBVIOUS
<1>2. ScopePushed(c) = [c EXCEPT !.starts = x]
  BY <1>1, Zenon DEF ScopePushed
<1> HIDE DEF x
<1>3. [c EXCEPT !.starts = x] = [bindings |-> b, starts |-> x]
  OBVIOUS
<1> QED  BY <1>2, <1>3 DEF x

LEMMA NsInvInit == NsInit => NsInv
  BY FreshLaid DEF NsInit, NsInv, Fresh

LEMMA NsInvNext == NsInv /\ [NsNext]_nsVars => NsInv'
<1> SUFFICES ASSUME NsInv, [NsNext]_nsVars PROVE NsInv'
  OBVIOUS
<1> DEFINE b == ns.bindings
           st == ns.starts
<1>1. ns = [bindings |-> b, starts |-> st] /\ Laid(b, st, scopes)
  BY DEF NsInv
<1>2. st \in Seq(Nat) /\ Len(st) = Len(scopes) /\ Len(scopes) \in Nat
  BY <1>1, LaidTypes DEF Laid, Types
<1>3. ASSUME NEW decls \in Seq(Binding), StartElement(decls) PROVE NsInv'
  <2>1. ScopePushed(ns) = [bindings |-> b, starts |-> Append(st, Len(b))]
    BY <1>1, MoreScopes
  <2>2. ns' = [bindings |-> b \o decls, starts |-> Append(st, Len(b))]
    BY <2>1, <1>3, MoreBindings DEF StartElement
  <2>3. scopes' = Append(scopes, decls)
    BY <1>3 DEF StartElement
  <2> QED  BY <1>1, <2>2, <2>3, PushLaid DEF NsInv
<1>4. ASSUME EndElement PROVE NsInv'
  <2>1. CASE Len(scopes) > 1
    <3>1. /\ ns' = [bindings |-> SubSeq(b, 1, st[Len(scopes)]),
                    starts |-> SubSeq(st, 1, Len(scopes) - 1)]
          /\ scopes' = SubSeq(scopes, 1, Len(scopes) - 1)
      BY <2>1, <1>2, <1>4 DEF EndElement, ScopePopped
    <3> QED  BY <3>1, <2>1, <1>1, PopLaid DEF NsInv
  <2>2. CASE ~(Len(scopes) > 1)
    BY <2>2, <1>1, <1>2, <1>4 DEF EndElement, ScopePopped, NsInv
  <2> QED  BY <2>1, <2>2
<1>5. ASSUME NEW binding \in Binding, Declare(binding) PROVE NsInv'
  <2>1. ns' = [bindings |-> b \o <<binding>>, starts |-> st]
    BY <1>1, <1>5, MoreBindings DEF Declare
  <2>2. scopes' = [scopes EXCEPT ![Len(scopes)] = Append(@, binding)]
    BY <1>5 DEF Declare
  <2> QED  BY <1>1, <2>1, <2>2, DeclareLaid DEF NsInv
<1>6. ASSUME Reset PROVE NsInv'
  BY <1>6, FreshLaid DEF Reset, NsInv, Fresh
<1>7. ASSUME UNCHANGED nsVars PROVE NsInv'
  BY <1>7, <1>1 DEF nsVars, NsInv
<1> QED  BY <1>3, <1>4, <1>5, <1>6, <1>7 DEF NsNext

\* A prefix resolves to its last declaration on the innermost open element that
\* declares it, after any sequence of push_scope, pop_scope, declare and reset,
\* however deep and however many bindings (resolve searches from the back).
THEOREM BindingCorrect == NsSpec => []InnermostBinding
<1>1. NsInit => NsInv
  BY NsInvInit
<1>2. NsInv /\ [NsNext]_nsVars => NsInv'
  BY NsInvNext
<1>3. NsInv => InnermostBinding
  BY LaidResolves DEF NsInv
<1> QED  BY <1>1, <1>2, <1>3, PTL DEF NsSpec

=============================================================================
