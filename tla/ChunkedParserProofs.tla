------------------------ MODULE ChunkedParserProofs ------------------------
(***************************************************************************)
(* Proofs about ChunkedParser, for every input, chunk size, look-back and  *)
(* number of calls: whatever is cut where, each unit of the input reaches  *)
(* the parser once and in order, what is carried over is bounded, and the  *)
(* limits of Normal mode hold over all chunks together.                    *)
(***************************************************************************)
EXTENDS ChunkedParser, RecursionProofs, FiniteSetTheorems

-----------------------------------------------------------------------------
(* The largest of some positions.                                          *)

\* A non-empty set of positions below a bound has a largest one.
LEMMA MaxExists ==
  ASSUME NEW n \in Nat, NEW S, S \subseteq 1 .. n, S # {}
  PROVE  Max(S) \in S /\ \A y \in S : Max(S) >= y
<1> DEFINE T == {n - i : i \in S}
<1>1. T \subseteq Nat /\ T # {}
  <2>1. \A i \in S : n - i \in Nat
    OBVIOUS
  <2>2. PICK i \in S : TRUE
    OBVIOUS
  <2>3. n - i \in T
    OBVIOUS
  <2> QED BY <2>1, <2>3
<1>2. PICK m \in T : \A t \in T : <<t, m>> \notin OpToRel(<, Nat)
  <2> HIDE DEF T
  <2> QED BY <1>1, NatLessThanWellFounded, WFMin, Zenon
<1>3. \A t \in T : ~(t < m)
  <2> SUFFICES ASSUME NEW t \in T, t < m PROVE FALSE
    OBVIOUS
  <2>1. <<t, m>> \in Nat \X Nat /\ <<t, m>>[1] < <<t, m>>[2]
    BY <1>1
  <2> HIDE DEF T
  <2> QED BY <1>2, <2>1, Zenon DEF OpToRel
<1>4. PICK x \in S : m = n - x
  BY <1>2
<1>5. \A y \in S : x >= y
  BY <1>3, <1>4
<1> QED BY <1>5 DEF Max

-----------------------------------------------------------------------------
(* Where a chunk is cut.                                                   *)

Cut(start, end, s) ==
  /\ s \in start .. end
  /\ s < end => data[s + 1] = "<" /\ end - s <= Lookback

\* find_safe_boundary stays in the chunk, and cuts it before a "<" within the look-back
\* if it cuts it at all.
LEMMA SafeBoundaryCuts ==
  ASSUME data \in Seq(Unit), NEW start \in Nat, NEW end \in Nat,
         start <= end, end <= Len(data)
  PROVE  Cut(start, end, SafeBoundary(start, end))
<1> DEFINE from == SearchStart(start, end)
           lts  == {i \in from + 1 .. end : data[i] = "<"}
<1>1. from \in start .. end /\ end - from <= Lookback
  BY ChunkAssumption DEF SearchStart
<1>2. CASE lts = {}
  BY <1>2 DEF SafeBoundary, Cut
<1>3. CASE lts # {}
  <2>1. lts \subseteq 1 .. end
    BY <1>1
  <2>2. Max(lts) \in lts
    <3> HIDE DEF lts
    <3> QED BY <1>3, <2>1, MaxExists
  <2>3. SafeBoundary(start, end) = Max(lts) - 1
    BY <1>3 DEF SafeBoundary
  <2>4. Max(lts) \in from + 1 .. end /\ data[Max(lts)] = "<"
    BY <2>2
  <2>5. (Max(lts) - 1) + 1 = Max(lts)
    BY <1>1, <2>4
  <2> HIDE DEF lts, from
  <2> QED BY <1>1, <2>3, <2>4, <2>5, ChunkAssumption DEF Cut
<1> QED BY <1>2, <1>3

\* The smaller of two numbers.
LEMMA MinOfTwo ==
  ASSUME NEW a \in Nat, NEW b \in Nat
  PROVE  Min({a, b}) = IF a <= b THEN a ELSE b
<1>1. CASE a <= b
  BY <1>1 DEF Min
<1>2. CASE ~(a <= b)
  BY <1>2 DEF Min
<1> QED BY <1>1, <1>2

\* The positions of the chunk that starts at pos.
Positions ==
  /\ ChunkEnd \in pos + 1 .. Len(data) /\ ChunkEnd \in Nat
  /\ Cut(pos, ChunkEnd, SafeEnd)

\* While there is input left, a chunk ends behind pos and is cut within itself.
LEMMA ChunkPositions ==
  ASSUME data \in Seq(Unit), chunk_size \in Nat \ {0}, pos \in Nat, pos < Len(data)
  PROVE  Positions
<1>1. Len(data) \in Nat
  OBVIOUS
<1>2. ChunkEnd = IF pos + chunk_size <= Len(data) THEN pos + chunk_size ELSE Len(data)
  BY <1>1, MinOfTwo DEF ChunkEnd
<1>3. ChunkEnd \in pos + 1 .. Len(data) /\ ChunkEnd \in Nat
  BY <1>1, <1>2
<1>4. Cut(pos, ChunkEnd, SafeEnd)
  <2>1. CASE ChunkEnd < Len(data)
    BY <2>1, <1>1, <1>3, SafeBoundaryCuts DEF SafeEnd
  <2>2. CASE ~(ChunkEnd < Len(data))
    BY <2>2, <1>3 DEF SafeEnd, Cut
  <2> QED BY <2>1, <2>2
<1> QED BY <1>3, <1>4 DEF Positions

-----------------------------------------------------------------------------
(* Pieces of the input.                                                    *)

\* A slice is as long as its bounds say and has the input's units.
LEMMA SliceIsSeq ==
  ASSUME data \in Seq(Unit), NEW a \in Nat, NEW b \in Nat, b <= Len(data)
  PROVE  Slice(a, b) \in Seq(Unit)
  BY SubSeqProperties DEF Slice

\* What is known of a piece of D.
Piece(p, D, from, n) ==
  p \in Seq(Unit) /\ Len(p) = n /\ \A i \in 1 .. n : p[i] = D[from + i]

\* Two adjacent slices are one.
LEMMA SlicesJoin ==
  ASSUME NEW D \in Seq(Unit), NEW a \in Nat, NEW b \in Nat, a <= b, b <= Len(D)
  PROVE  SubSeq(D, 1, a) \o SubSeq(D, a + 1, b) = SubSeq(D, 1, b)
<1> DEFINE p == SubSeq(D, 1, a)
           q == SubSeq(D, a + 1, b)
           r == SubSeq(D, 1, b)
<1>1. Piece(p, D, 0, a)
  BY SubSeqProperties DEF Piece
<1>2. Piece(q, D, a, b - a)
  BY SubSeqProperties DEF Piece
<1>3. Piece(r, D, 0, b)
  BY SubSeqProperties DEF Piece
<1> HIDE DEF p, q, r
<1>4. /\ p \o q \in Seq(Unit) /\ Len(p \o q) = Len(p) + Len(q)
      /\ \A i \in 1 .. Len(p) + Len(q) : (p \o q)[i] = IF i <= Len(p) THEN p[i] ELSE q[i - Len(p)]
  <2>1. p \in Seq(Unit) /\ q \in Seq(Unit)
    BY <1>1, <1>2 DEF Piece
  <2> QED BY <2>1, ConcatProperties
<1>5. Len(p) = a /\ Len(q) = b - a /\ Len(r) = b /\ Len(p) + Len(q) = b
  BY <1>1, <1>2, <1>3 DEF Piece
<1>6. \A i \in 1 .. b : (p \o q)[i] = r[i]
  <2> SUFFICES ASSUME NEW i \in 1 .. b PROVE (p \o q)[i] = r[i]
    OBVIOUS
  <2>0. i <= a \/ i > a
    OBVIOUS
  <2>1. r[i] = D[i]
    BY <1>3 DEF Piece
  <2>2. CASE i <= a
    BY <2>1, <2>2, <1>1, <1>4, <1>5 DEF Piece
  <2>3. CASE i > a
    <3>1. i - a \in 1 .. b - a /\ a + (i - a) = i
      BY <2>3
    <3>2. (p \o q)[i] = q[i - a]
      BY <2>3, <1>4, <1>5
    <3>3. q[i - a] = D[a + (i - a)]
      BY <3>1, <1>2 DEF Piece
    <3> QED BY <2>1, <3>1, <3>2, <3>3
  <2> QED BY <2>0, <2>2, <2>3
<1>7. p \o q = r
  BY <1>3, <1>4, <1>5, <1>6, SeqEqual DEF Piece
<1> QED BY <1>7 DEF p, q, r

-----------------------------------------------------------------------------
(* The inductive invariant: FedInOrder and CarryBounded, with the cut that *)
(* the chunk being parsed was given, which CarryBounded rests on.          *)

Types ==
  /\ data \in Seq(Unit) /\ fed \in Seq(Unit) /\ boundary_buf \in Seq(Unit)
  /\ chunk_size \in Nat \ {0} /\ pos \in Nat /\ pos <= Len(data)
  /\ pc \in {"idle", "loop", "chunk"}

InLoop == fed \o boundary_buf = Slice(0, pos)
Carry  == boundary_buf # <<>> => Head(boundary_buf) = "<" /\ Len(boundary_buf) <= Lookback
InChunk == pos < Len(data) /\ safe_end = SafeEnd /\ fed = Slice(0, safe_end)
AtEnd  == calls > 0 /\ error = "none" => fed = data

IInv ==
  /\ Types
  /\ pc = "loop" => InLoop /\ Carry
  /\ pc = "chunk" => InChunk
  /\ pc = "idle" => AtEnd

\* No call was made yet.
LEMMA InitEstablishes == Init => IInv
<1> SUFFICES ASSUME Init PROVE IInv
  OBVIOUS
<1>1. Types
  BY ChunkAssumption DEF Init, Types
<1> QED BY <1>1 DEF Init, IInv, AtEnd

\* A call forgets what the one before has left.
LEMMA CallPreserves == ASSUME IInv, Call PROVE IInv'
<1>1. PICK in \in Inputs \cup LaterInputs : data' = in.data
  BY DEF Call
<1>2. data' \in Seq(Unit)
  BY <1>1, ChunkAssumption DEF IsInput
<1>3. Types'
  BY <1>2 DEF Call, Cleared, Types, IInv
<1>4. fed' = <<>> /\ boundary_buf' = <<>> /\ pos' = 0 /\ pc' = "loop"
  BY DEF Call, Cleared
<1>5. InLoop'
  <2>1. SubSeq(data', 1, 0) = <<>>
    BY SubSeqEmpty
  <2> QED BY <1>4, <2>1 DEF InLoop, Slice
<1> QED BY <1>3, <1>4, <1>5 DEF IInv, Carry

\* What is carried over and the part before the cut go to the parser together.
LEMMA ChunkPreserves == ASSUME IInv, Chunk PROVE IInv'
<1>1. /\ Types /\ InLoop /\ pos < Len(data) /\ pc' = "chunk"
      /\ fed' = fed \o (boundary_buf \o Slice(pos, SafeEnd)) /\ safe_end' = SafeEnd
      /\ UNCHANGED <<data, chunk_size, pos>>
      /\ boundary_buf' = boundary_buf \/ boundary_buf' = boundary_buf \o Slice(pos, SafeEnd)
  BY DEF IInv, Chunk
<1>2. SafeEnd \in Nat /\ pos <= SafeEnd /\ SafeEnd <= Len(data)
  <2>1. Positions
    BY <1>1, ChunkPositions DEF Types
  <2> QED BY <2>1, <1>1 DEF Positions, Cut, Types
<1>3. Slice(pos, SafeEnd) \in Seq(Unit)
  BY <1>1, <1>2, SliceIsSeq DEF Types
<1>4. fed' = (fed \o boundary_buf) \o Slice(pos, SafeEnd)
  BY <1>1, <1>3, ConcatAssociative DEF Types
<1>5. fed' = Slice(0, SafeEnd)
  <2>1. data \in Seq(Unit) /\ pos \in Nat
    BY <1>1 DEF Types
  <2>2. SubSeq(data, 1, pos) \o SubSeq(data, pos + 1, SafeEnd) = SubSeq(data, 1, SafeEnd)
    BY <1>2, <2>1, SlicesJoin
  <2>3. 0 + 1 = 1
    OBVIOUS
  <2>4. /\ Slice(0, pos) = SubSeq(data, 1, pos) /\ Slice(pos, SafeEnd) = SubSeq(data, pos + 1, SafeEnd)
        /\ Slice(0, SafeEnd) = SubSeq(data, 1, SafeEnd)
    BY <2>3, Zenon DEF Slice
  <2> QED BY <1>1, <1>4, <2>2, <2>4 DEF InLoop
<1>6. Types'
  <2>1. fed' \in Seq(Unit)
    BY <1>1, <1>2, <1>5, SliceIsSeq DEF Types
  <2>2. boundary_buf \o Slice(pos, SafeEnd) \in Seq(Unit)
    BY <1>1, <1>3, ConcatProperties DEF Types
  <2>3. boundary_buf' \in Seq(Unit)
    BY <1>1, <2>2 DEF Types
  <2> QED BY <1>1, <2>1, <2>3 DEF Types
<1>7. SafeEnd' = SafeEnd /\ Slice(0, SafeEnd)' = Slice(0, SafeEnd)
  BY <1>1 DEF SafeEnd, SafeBoundary, SearchStart, ChunkEnd, Slice
<1>8. InChunk'
  BY <1>1, <1>5, <1>7 DEF InChunk, Slice
<1> QED BY <1>1, <1>6, <1>8 DEF IInv

\* The part behind the cut is carried over.
LEMMA EndChunkPreserves == ASSUME IInv, EndChunk PROVE IInv'
<1>1. /\ Types /\ InChunk /\ pc' = "loop" /\ pos' = ChunkEnd
      /\ boundary_buf' = IF safe_end < ChunkEnd THEN Carried ELSE <<>>
      /\ UNCHANGED <<data, fed, chunk_size>>
  BY DEF IInv, EndChunk
<1>2. Positions
  BY <1>1, ChunkPositions DEF Types, InChunk
<1>3. /\ safe_end \in Nat /\ safe_end <= ChunkEnd /\ ChunkEnd \in Nat /\ ChunkEnd <= Len(data)
      /\ safe_end < ChunkEnd => data[safe_end + 1] = "<" /\ ChunkEnd - safe_end <= Lookback
  BY <1>1, <1>2 DEF Positions, Cut, Types, InChunk
<1>4. Carried \in Seq(Unit)
  BY <1>1, <1>3, SliceIsSeq DEF Carried, Types
<1>5. Types'
  BY <1>1, <1>3, <1>4 DEF Types
<1>6. InLoop'
  <2>1. Slice(0, pos)' = Slice(0, ChunkEnd)
    BY <1>1 DEF Slice
  <2>2. CASE safe_end < ChunkEnd
    <3>1. fed \o Carried = Slice(0, ChunkEnd)
      BY <1>1, <1>3, SlicesJoin DEF InChunk, Carried, Slice, Types
    <3> QED BY <1>1, <2>1, <2>2, <3>1 DEF InLoop
  <2>3. CASE ~(safe_end < ChunkEnd)
    <3>1. safe_end = ChunkEnd
      BY <2>3, <1>3
    <3> QED BY <1>1, <2>1, <2>3, <3>1, ConcatEmptySeq DEF InLoop, InChunk, Types
  <2> QED BY <2>2, <2>3
<1>7. Carry'
  <2>1. CASE safe_end < ChunkEnd
    <3>1. /\ Len(Carried) = ChunkEnd - safe_end
          /\ Carried[1] = data[safe_end + 1]
      BY <1>1, <1>3, <2>1, SubSeqProperties DEF Carried, Slice, Types
    <3> QED BY <1>1, <1>3, <1>4, <2>1, <3>1 DEF Carry
  <2>2. CASE ~(safe_end < ChunkEnd)
    BY <1>1, <2>2 DEF Carry
  <2> QED BY <2>1, <2>2
<1> QED BY <1>1, <1>5, <1>6, <1>7 DEF IInv

\* At the end of the input nothing is carried over.
LEMMA ReturnPreserves == ASSUME IInv, Return PROVE IInv'
<1>1. /\ Types /\ InLoop /\ pos >= Len(data) /\ boundary_buf = <<>> /\ pc' = "idle"
      /\ UNCHANGED <<data, fed, boundary_buf, chunk_size, pos>>
  BY DEF IInv, Return
<1>2. pos = Len(data)
  BY <1>1 DEF Types
<1>3. fed = Slice(0, Len(data))
  BY <1>1, <1>2, ConcatEmptySeq DEF InLoop, Types
<1>4. fed = data
  BY <1>1, <1>3, SubSeqFull DEF Slice, Types
<1>5. Types' /\ fed' = data'
  BY <1>1, <1>4 DEF Types
<1> QED BY <1>1, <1>5 DEF IInv, AtEnd

\* The parser's steps, an exception and stuttering leave the cuts alone.
LEMMA OthersPreserve ==
  ASSUME IInv, ParseChunk \/ Rethrow \/ Done \/ UNCHANGED vars
  PROVE  IInv'
<1>1. UNCHANGED <<data, fed, boundary_buf, chunk_size, pos, safe_end, calls>>
  BY DEF ParseChunk, Rethrow, Done, vars, chunkVars
<1>2. \/ pc' = pc /\ pc = "chunk"
      \/ pc' = pc /\ error' = error
      \/ pc' = "idle" /\ error' = error /\ error # "none"
  BY DEF ParseChunk, Rethrow, Done, vars, chunkVars, saxVars
<1>3. pc \in {"idle", "loop", "chunk"} /\ pc' \in {"idle", "loop", "chunk"}
  BY <1>2 DEF IInv, Types
<1>4. Types'
  BY <1>1, <1>3 DEF IInv, Types
<1>5. (InLoop <=> InLoop') /\ (Carry <=> Carry')
  BY <1>1 DEF InLoop, Carry, Slice
<1>6. SafeEnd' = SafeEnd
  BY <1>1 DEF SafeEnd, SafeBoundary, SearchStart, ChunkEnd
<1>7. InChunk <=> InChunk'
  BY <1>1, <1>6 DEF InChunk, Slice
<1>8. error' = error => (AtEnd <=> AtEnd')
  BY <1>1 DEF AtEnd
<1>9. error' = error /\ error # "none" => AtEnd'
  BY DEF AtEnd
<1> QED BY <1>2, <1>3, <1>4, <1>5, <1>7, <1>8, <1>9 DEF IInv

\* One lemma per action.
LEMMA NextPreserves == ASSUME IInv, [Next]_vars PROVE IInv'
  BY CallPreserves, ChunkPreserves, EndChunkPreserves, ReturnPreserves, OthersPreserve
     DEF Next, Running

\* The invariant holds throughout.
LEMMA Invariance == Spec => []IInv
<1>1. Init => IInv
  BY InitEstablishes
<1>2. IInv /\ [Next]_vars => IInv'
  BY NextPreserves
<1> QED BY <1>1, <1>2, PTL DEF Spec

-----------------------------------------------------------------------------

\* Every unit of the input is given to the parser once and in order, for every input,
\* chunk size and look-back, and whatever the calls before have left behind.
THEOREM EveryByteOnce == Spec => []FedInOrder
<1>1. IInv => FedInOrder
  BY DEF IInv, FedInOrder, Returned, InLoop, InChunk, AtEnd
<1> QED BY <1>1, Invariance, PTL

\* What is carried from chunk to chunk begins with "<" and is no longer than the look-back.
THEOREM CarryIsBounded == Spec => []CarryBounded
<1>1. IInv => CarryBounded
  BY DEF IInv, CarryBounded, Carry
<1> QED BY <1>1, Invariance, PTL

-----------------------------------------------------------------------------
(* Counting the callbacks of a kind, and the references that they pass.    *)

TimesIn(evs, kind) == Cardinality({i \in DOMAIN evs : evs[i].kind = kind})
RefsOf(evs) == UNION {{i} \X ReferencesIn(evs[i].body) : i \in DOMAIN evs}

\* One callback more is one more of its kind.
LEMMA TimesMore ==
  ASSUME NEW evs \in Seq(Event), NEW e \in Event, NEW kind
  PROVE  /\ TimesIn(evs, kind) \in Nat
         /\ TimesIn(Append(evs, e), kind) = TimesIn(evs, kind) + IF e.kind = kind THEN 1 ELSE 0
<1> DEFINE L == Len(evs)
           more == Append(evs, e)
           T == {i \in DOMAIN evs : evs[i].kind = kind}
           U == {i \in DOMAIN more : more[i].kind = kind}
<1>1. /\ L \in Nat /\ DOMAIN evs = 1 .. L /\ DOMAIN more = 1 .. L + 1
      /\ more[L + 1] = e /\ \A i \in 1 .. L : more[i] = evs[i]
  OBVIOUS
<1>2. IsFiniteSet(T) /\ Cardinality(T) \in Nat
  <2>1. IsFiniteSet(1 .. L)
    BY <1>1, FS_Interval
  <2>2. T \in SUBSET (1 .. L)
    BY <1>1
  <2> HIDE DEF T
  <2> QED  BY <2>1, <2>2, FS_Subset, FS_CardinalityType
<1> HIDE DEF more, L
<1>3. CASE e.kind = kind
  <2>1. U = T \cup {L + 1}
    BY <1>1, <1>3
  <2>2. L + 1 \notin T
    BY <1>1
  <2> HIDE DEF T, U
  <2>3. Cardinality(U) = Cardinality(T) + 1
    BY <1>2, <2>1, <2>2, FS_AddElement
  <2> QED  BY <1>2, <1>3, <2>3 DEF TimesIn, T, U, more
<1>4. CASE e.kind # kind
  <2>1. U = T
    BY <1>1, <1>4
  <2> HIDE DEF T, U
  <2>2. TimesIn(more, kind) = Cardinality(T) /\ TimesIn(evs, kind) = Cardinality(T)
    BY <2>1 DEF TimesIn, T, U
  <2>3. \A n \in Nat : n = n + 0
    OBVIOUS
  <2> QED  BY <1>2, <1>4, <2>2, <2>3 DEF more
<1> QED  BY <1>3, <1>4

\* Nor are references lost by it.
LEMMA RefsMore ==
  ASSUME NEW evs \in Seq(Event), NEW e \in Event
  PROVE  RefsOf(Append(evs, e)) = RefsOf(evs) \cup ({Len(evs) + 1} \X ReferencesIn(e.body))
<1> DEFINE L == Len(evs)
           more == Append(evs, e)
<1>1. /\ L \in Nat /\ DOMAIN evs = 1 .. L /\ DOMAIN more = 1 .. L + 1
      /\ more[L + 1] = e /\ \A i \in 1 .. L : more[i] = evs[i]
  OBVIOUS
<1> HIDE DEF more
<1>2. ASSUME NEW x PROVE x \in RefsOf(more) <=> x \in RefsOf(evs) \cup ({L + 1} \X ReferencesIn(e.body))
  <2>1. x \in RefsOf(more) <=> \E i \in 1 .. L + 1 : x \in {i} \X ReferencesIn(more[i].body)
    BY <1>1 DEF RefsOf
  <2>2. x \in RefsOf(evs) <=> \E i \in 1 .. L : x \in {i} \X ReferencesIn(evs[i].body)
    BY <1>1 DEF RefsOf
  <2>3. \A i : i \in 1 .. L + 1 <=> i \in 1 .. L \/ i = L + 1
    BY <1>1
  <2> HIDE DEF L
  <2> QED  BY <1>1, <2>1, <2>2, <2>3
<1> HIDE DEF L
<1>3. RefsOf(more) = RefsOf(evs) \cup ({L + 1} \X ReferencesIn(e.body))
  BY <1>2
<1> QED  BY <1>3 DEF L, more

\* The references in a body are finitely many.
LEMMA ReferencesFinite ==
  ASSUME NEW V, NEW body \in Seq(V)
  PROVE  IsFiniteSet(ReferencesIn(body)) /\ Cardinality(ReferencesIn(body)) \in Nat
<1>1. Len(body) \in Nat /\ DOMAIN body = 1 .. Len(body)
  OBVIOUS
<1>2. IsFiniteSet(1 .. Len(body))
  BY <1>1, FS_Interval
<1>3. ReferencesIn(body) \in SUBSET (1 .. Len(body))
  BY <1>1 DEF ReferencesIn
<1> QED  BY <1>2, <1>3, FS_Subset, FS_CardinalityType

\* The places a callback adds are new, and as many as its body has references.
LEMMA PlacesOf ==
  ASSUME NEW k \in Nat, NEW e \in Event
  PROVE  /\ IsFiniteSet({k} \X ReferencesIn(e.body))
         /\ Cardinality({k} \X ReferencesIn(e.body)) = Cardinality(ReferencesIn(e.body))
<1>1. e.body \in Seq(Unit \cup {"ref", NoAttr})
  BY DEF Event
<1> DEFINE R == ReferencesIn(e.body)
<1>2. IsFiniteSet(R) /\ Cardinality(R) \in Nat
  BY <1>1, ReferencesFinite
<1>3. IsFiniteSet({k}) /\ Cardinality({k}) = 1
  BY FS_Singleton
<1> HIDE DEF R
<1>4. IsFiniteSet({k} \X R) /\ Cardinality({k} \X R) = Cardinality({k}) * Cardinality(R)
  BY <1>2, <1>3, FS_Product
<1> QED  BY <1>2, <1>3, <1>4 DEF R

\* What is passed is finite, and at callbacks that were made.
Passing(evs) == IsFiniteSet(RefsOf(evs)) /\ \A x \in RefsOf(evs) : x[1] \in 1 .. Len(evs)

LEMMA PassingAll ==
  ASSUME NEW evs \in Seq(Event)
  PROVE  Passing(evs)
<1> DEFINE T == {s \in Seq(Event) : Passing(s)}
<1>1. <<>> \in T
  <2>1. RefsOf(<<>>) = {}
    BY DEF RefsOf
  <2>2. <<>> \in Seq(Event)
    OBVIOUS
  <2> QED  BY <2>1, <2>2, FS_EmptySet DEF Passing
<1>2. ASSUME NEW s \in Seq(Event), NEW e \in Event, s \in T PROVE Append(s, e) \in T
  <2> DEFINE P == {Len(s) + 1} \X ReferencesIn(e.body)
  <2>1. RefsOf(Append(s, e)) = RefsOf(s) \cup P
    BY RefsMore
  <2>2. Len(s) + 1 \in Nat /\ Len(Append(s, e)) = Len(s) + 1 /\ Append(s, e) \in Seq(Event) /\ Len(s) \in Nat
    OBVIOUS
  <2>3. IsFiniteSet(P)
    BY <2>2, PlacesOf
  <2>4. \A x \in P : x[1] = Len(s) + 1
    OBVIOUS
  <2> HIDE DEF P
  <2>5. IsFiniteSet(RefsOf(s) \cup P)
    BY <1>2, <2>3, FS_Union DEF Passing
  <2>6. \A x \in RefsOf(s) : x[1] \in 1 .. Len(s)
    BY <1>2 DEF Passing
  <2>7. \A x \in RefsOf(s) \cup P : x[1] \in 1 .. Len(s) + 1
    BY <2>2, <2>4, <2>6
  <2> QED  BY <2>1, <2>2, <2>5, <2>7 DEF Passing
<1>3. \A s \in Seq(Event) : s \in T
  <2> HIDE DEF T
  <2> QED  BY <1>1, <1>2, Appended
<1> QED  BY <1>3

\* One callback more passes the references of its body in addition.
LEMMA RefsCounted ==
  ASSUME NEW evs \in Seq(Event), NEW e \in Event
  PROVE  /\ Cardinality(RefsOf(evs)) \in Nat /\ Cardinality(ReferencesIn(e.body)) \in Nat
         /\ Cardinality(RefsOf(Append(evs, e))) =
              Cardinality(RefsOf(evs)) + Cardinality(ReferencesIn(e.body))
<1> DEFINE k == Len(evs) + 1
           P == {k} \X ReferencesIn(e.body)
           R == RefsOf(evs)
<1>1. RefsOf(Append(evs, e)) = R \cup P
  BY RefsMore
<1>2. k \in Nat /\ Len(evs) \in Nat
  OBVIOUS
<1>3. IsFiniteSet(P) /\ Cardinality(P) = Cardinality(ReferencesIn(e.body))
  BY <1>2, PlacesOf
<1>4. IsFiniteSet(R) /\ \A x \in R : x[1] \in 1 .. Len(evs)
  BY PassingAll DEF Passing
<1>5. \A x \in P : x[1] = k
  OBVIOUS
<1>6. R \cap P = {}
  <2>1. k \notin 1 .. Len(evs)
    BY <1>2
  <2> HIDE DEF R, P, k
  <2> QED  BY <1>4, <1>5, <2>1
<1> HIDE DEF R, P, k
<1>7. Cardinality(R \cap P) = 0
  BY <1>6, FS_EmptySet
<1>8. Cardinality(R) \in Nat /\ Cardinality(P) \in Nat
  BY <1>3, <1>4, FS_CardinalityType
<1>9. Cardinality(R \cup P) = Cardinality(R) + Cardinality(P) - Cardinality(R \cap P)
  BY <1>3, <1>4, FS_Union
<1> QED  BY <1>1, <1>3, <1>7, <1>8, <1>9 DEF R

-----------------------------------------------------------------------------
(* What a text with references is passed as.                               *)

\* One member more in a body is one reference more if it is one.
LEMMA BodyMore ==
  ASSUME NEW V, NEW body \in Seq(V), NEW u \in V
  PROVE  ReferencesIn(body \o <<u>>) =
           IF u = "ref" THEN ReferencesIn(body) \cup {Len(body) + 1} ELSE ReferencesIn(body)
<1> DEFINE L == Len(body)
           more == body \o <<u>>
<1>1. /\ L \in Nat /\ DOMAIN body = 1 .. L /\ DOMAIN more = 1 .. L + 1
      /\ more[L + 1] = u /\ \A i \in 1 .. L : more[i] = body[i]
  OBVIOUS
<1> HIDE DEF more
<1>2. \A i : i \in ReferencesIn(more) <=> i \in ReferencesIn(body) \/ (i = L + 1 /\ u = "ref")
  BY <1>1 DEF ReferencesIn
<1> HIDE DEF L
<1>3. CASE u = "ref"
  <2>1. ReferencesIn(more) = ReferencesIn(body) \cup {L + 1}
    BY <1>2, <1>3
  <2> QED  BY <1>3, <2>1 DEF more, L
<1>4. CASE u # "ref"
  <2>1. ReferencesIn(more) = ReferencesIn(body)
    BY <1>2, <1>4
  <2> QED  BY <1>4, <2>1 DEF more, L
<1> QED  BY <1>3, <1>4

\* The piece of a text's callback that stands for one of its units.
PieceOf(run, i) ==
  IF i \in References(run) THEN <<"ref">> ELSE IF i - 1 \in References(run) THEN <<>> ELSE <<run[i]>>

Bodies == Seq(Unit \cup {"ref"})

RefIsNoUnit == "ref" \notin Unit

LEMMA NoUnit == RefIsNoUnit
  BY SaxAssumption DEF RefIsNoUnit, Unit, Marks

\* Each reference of a text is passed as one.
LEMMA ExpandedRefs ==
  ASSUME NEW run \in Seq(Unit)
  PROVE  /\ Expanded(run) \in Bodies
         /\ Cardinality(ReferencesIn(Expanded(run))) = Cardinality(References(run))
         /\ IsFiniteSet(References(run)) /\ Cardinality(References(run)) \in Nat
<1> DEFINE R == References(run)
           L == Len(run)
           ps == [i \in DOMAIN run |-> PieceOf(run, i)]
<1>1. L \in Nat /\ DOMAIN run = 1 .. L /\ \A i \in 1 .. L : run[i] \in Unit
  OBVIOUS
<1>2. R \subseteq 1 .. L
  <2>1. \A i \in 1 .. Len(run) - 1 : i \in 1 .. L
    BY <1>1
  <2> QED  BY <2>1 DEF References
<1>3. IsFiniteSet(R) /\ Cardinality(R) \in Nat
  <2>1. IsFiniteSet(1 .. L)
    BY <1>1, FS_Interval
  <2>2. R \in SUBSET (1 .. L)
    BY <1>2
  <2> HIDE DEF R, L
  <2> QED  BY <2>1, <2>2, FS_Subset, FS_CardinalityType
<1>4. ASSUME NEW i \in 1 .. L
      PROVE  PieceOf(run, i) \in Bodies
  <2>1. run[i] \in Unit \cup {"ref"} /\ "ref" \in Unit \cup {"ref"}
    BY <1>1
  <2> DEFINE U == Unit \cup {"ref"}
  <2> HIDE DEF U
  <2>2. \A u \in U : <<u>> \in Seq(U)
    OBVIOUS
  <2>3. <<>> \in Seq(U)
    OBVIOUS
  <2> QED  BY <2>1, <2>2, <2>3 DEF PieceOf, Bodies, U
<1>5. ps \in Seq(Bodies) /\ Len(ps) = L /\ \A i \in 1 .. L : ps[i] = PieceOf(run, i)
  <2> HIDE DEF L
  <2> QED  BY <1>1, <1>4
<1>6. Expanded(run) = FlattenSeq(ps)
  BY DEF Expanded, PieceOf
<1> HIDE DEF ps
<1>7. PICK f \in [0 .. L -> Bodies] : Flattens(ps, f) /\ FlattenSeq(ps) = f[L]
  <2>1. ps \in Seq(Seq(Unit \cup {"ref"}))
    BY <1>5 DEF Bodies
  <2> DEFINE U == Unit \cup {"ref"}
  <2> HIDE DEF U
  <2>2. \E f \in [0 .. Len(ps) -> Seq(U)] : Flattens(ps, f) /\ FlattenSeq(ps) = f[Len(ps)]
    BY <2>1, FlattenDef DEF U
  <2> HIDE DEF L
  <2> QED  BY <1>5, <2>2 DEF Bodies, U
<1>8. \A k \in 0 .. L : f[k] \in Bodies
  BY <1>7
<1>9. \A i \in 1 .. L : f[i] = f[i - 1] \o PieceOf(run, i)
  BY <1>5, <1>7 DEF Flattens
<1>10. f[0] = <<>>
  BY <1>7 DEF Flattens
<1>11. Expanded(run) = f[L]
  BY <1>6, <1>7
<1> HIDE DEF L
<1> DEFINE Upto(k) == {i \in R : i <= k}
           T == {k \in 0 .. L : Cardinality(ReferencesIn(f[k])) = Cardinality(Upto(k))}
<1>12. 0 \in T
  <2>1. ReferencesIn(f[0]) = {}
    BY <1>10 DEF ReferencesIn
  <2>2. Upto(0) = {}
    BY <1>2
  <2>3. 0 \in 0 .. L
    BY <1>1
  <2> QED  BY <2>1, <2>2, <2>3
<1>13. ASSUME NEW k \in 0 .. L - 1, k \in T PROVE k + 1 \in T
  <2> DEFINE j == k + 1
             body == f[k]
  <2>1. j \in 1 .. L /\ j - 1 = k /\ j \in 0 .. L /\ k \in 0 .. L
    BY <1>1
  <2>2. body \in Bodies
    BY <1>8, <2>1
  <2>3. f[j] = body \o PieceOf(run, j)
    BY <1>9, <2>1
  <2>4. Cardinality(ReferencesIn(body)) = Cardinality(Upto(k))
    BY <1>13
  <2>5. \A i \in R : i <= j <=> i <= k \/ i = j
    BY <1>1, <1>2
  <2>6. IsFiniteSet(Upto(k)) /\ j \notin Upto(k)
    <3>1. Upto(k) \in SUBSET R
      OBVIOUS
    <3>2. ~(j <= k)
      BY <2>1
    <3>3. IsFiniteSet(Upto(k))
      <4> DEFINE A == Upto(k)
      <4> HIDE DEF A, R
      <4> QED  BY <1>3, <3>1, FS_Subset DEF A
    <3> QED  BY <3>2, <3>3
  <2>7. IsFiniteSet(ReferencesIn(body)) /\ Len(body) \in Nat /\ Len(body) + 1 \notin ReferencesIn(body)
    <3> DEFINE U == Unit \cup {"ref"}
    <3> HIDE DEF U, body
    <3>1. body \in Seq(U)
      BY <2>2 DEF Bodies, U
    <3>2. Len(body) \in Nat /\ DOMAIN body = 1 .. Len(body)
      BY <3>1
    <3> QED  BY <3>1, <3>2, ReferencesFinite DEF ReferencesIn
  <2>8. CASE j \in R
    <3>1. Upto(j) = Upto(k) \cup {j}
      BY <2>5, <2>8
    <3>2. f[j] = body \o <<"ref">>
      BY <2>3, <2>8 DEF PieceOf
    <3>3. ReferencesIn(f[j]) = ReferencesIn(body) \cup {Len(body) + 1}
      <4> DEFINE U == Unit \cup {"ref"}
      <4>1. "ref" \in U
        OBVIOUS
      <4> HIDE DEF U, body
      <4>2. body \in Seq(U)
        BY <2>2 DEF Bodies, U
      <4>3. ReferencesIn(body \o <<"ref">>) = ReferencesIn(body) \cup {Len(body) + 1}
        BY <4>1, <4>2, BodyMore
      <4> QED  BY <3>2, <4>3
    <3> HIDE DEF Upto, body, j
    <3>4. Cardinality(Upto(j)) = Cardinality(Upto(k)) + 1
      BY <2>6, <3>1, FS_AddElement
    <3>5. Cardinality(ReferencesIn(f[j])) = Cardinality(ReferencesIn(body)) + 1
      BY <2>7, <3>3, FS_AddElement
    <3>6. Cardinality(ReferencesIn(f[j])) = Cardinality(Upto(j))
      BY <2>4, <3>4, <3>5
    <3> QED  BY <2>1, <3>6 DEF j, Upto
  <2>9. CASE j \notin R
    <3>1. Upto(j) = Upto(k)
      BY <2>5, <2>9
    <3>2. ReferencesIn(f[j]) = ReferencesIn(body)
      <4>1. CASE k \in R
        <5>1. PieceOf(run, j) = <<>>
          BY <2>1, <2>9, <4>1 DEF PieceOf
        <5>2. body \o <<>> = body
          BY <2>2, ConcatEmptySeq DEF Bodies
        <5> QED  BY <2>3, <5>1, <5>2
      <4>2. CASE k \notin R
        <5>1. PieceOf(run, j) = <<run[j]>>
          BY <2>1, <2>9, <4>2 DEF PieceOf
        <5> DEFINE U == Unit \cup {"ref"}
                   u == run[j]
        <5>2. u \in U /\ u # "ref"
          BY <1>1, <2>1, NoUnit DEF RefIsNoUnit
        <5>3. f[j] = body \o <<u>>
          BY <2>3, <5>1
        <5> HIDE DEF U, body, u
        <5>4. body \in Seq(U)
          BY <2>2 DEF Bodies, U
        <5>5. ReferencesIn(body \o <<u>>) = ReferencesIn(body)
          BY <5>2, <5>4, BodyMore
        <5> QED  BY <5>3, <5>5
      <4> QED  BY <4>1, <4>2
    <3>3. Cardinality(ReferencesIn(f[j])) = Cardinality(Upto(j))
      BY <2>4, <3>1, <3>2
    <3> QED  BY <2>1, <3>3
  <2> QED  BY <2>8, <2>9
<1>14. L \in T
  <2> HIDE DEF T
  <2>1. L \in 0 .. L
    BY <1>1
  <2> QED  BY <1>1, <1>12, <1>13, <2>1, CountsTo
<1>15. Upto(L) = R
  BY <1>1, <1>2
<1>16. Cardinality(ReferencesIn(f[L])) = Cardinality(R)
  BY <1>14, <1>15
<1> QED  BY <1>1, <1>3, <1>8, <1>11, <1>16

-----------------------------------------------------------------------------
(* Pieces of the buffer.                                                   *)

\* What is read of the buffer are units.
LEMMA PieceUnits ==
  ASSUME NEW b \in Seq(Unit), NEW from \in Nat \ {0}, NEW to \in Int, to <= Len(b)
  PROVE  SubSeq(b, from, to) \in Seq(Unit)
<1>1. Len(b) \in Nat /\ \A i \in from .. to : b[i] \in Unit
  OBVIOUS
<1> QED  BY <1>1, SubSeqProperties

\* The invariant of the parser's data.
Buffers ==
  /\ buf \in Seq(Unit) /\ at \in Nat \ {0} /\ events \in Seq(Event)
  /\ attrs_buf \in [1 .. BufSize -> Unit \cup {NoAttr}]

\* Where text, sections and attributes end.
LEMMA Ends ==
  ASSUME Buffers
  PROVE  /\ TextEnd \in Nat /\ TextEnd <= Len(buf) + 1 /\ (at <= Len(buf) => at <= TextEnd)
         /\ Close \in Nat /\ Close <= Len(buf) + 1
         /\ AttrsEnd \in Nat /\ AttrsEnd <= Len(buf) + 1
<1> DEFINE n == Len(buf)
<1>1. n \in Nat /\ at \in Nat /\ at + 2 \in Nat
  BY DEF Buffers
<1> DEFINE S == {j \in at .. n : buf[j] = "<"}
           U == {j \in at + 2 .. n : buf[j] = Closing[Ahead(1)]}
           V == {j \in at + 2 .. n : buf[j] \notin Attrs}
<1>2. TextEnd = Min(S \cup {n + 1}) /\ Close = Min(U \cup {n + 1}) /\ AttrsEnd = Min(V \cup {n + 1})
  BY DEF TextEnd, Close, AttrsEnd, FirstFrom
<1>3. S \subseteq at .. n /\ U \subseteq at + 2 .. n /\ V \subseteq at + 2 .. n
  OBVIOUS
<1> HIDE DEF S, U, V, n
<1>4. Min(S \cup {n + 1}) \in Nat /\ Min(S \cup {n + 1}) <= n + 1
      /\ (at <= n + 1 => at <= Min(S \cup {n + 1}))
  BY <1>1, <1>3, FirstOr
<1>5. Min(U \cup {n + 1}) \in Nat /\ Min(U \cup {n + 1}) <= n + 1
  BY <1>1, <1>3, FirstOr
<1>6. Min(V \cup {n + 1}) \in Nat /\ Min(V \cup {n + 1}) <= n + 1
  BY <1>1, <1>3, FirstOr
<1>7. at <= n => at <= n + 1
  BY <1>1
<1> QED  BY <1>2, <1>4, <1>5, <1>6, <1>7 DEF n

\* What is ahead in the buffer is a unit.
LEMMA AheadUnit ==
  ASSUME Buffers, NEW k \in Nat, at + k <= Len(buf)
  PROVE  Ahead(k) \in Unit
<1>1. at + k \in 1 .. Len(buf) /\ buf \in Seq(Unit)
  BY DEF Buffers
<1> QED  BY <1>1 DEF Ahead

\* A text and the attributes of a tag are units.
LEMMA RunUnits ==
  ASSUME Buffers
  PROVE  /\ Run \in Seq(Unit) /\ TagAttrs \in Seq(Unit)
         /\ SubSeq(buf, at + 2, Close - 1) \in Seq(Unit)
<1>1. Len(buf) \in Nat /\ at \in Nat \ {0} /\ at + 2 \in Nat \ {0} /\ buf \in Seq(Unit)
  BY DEF Buffers
<1>2. /\ TextEnd - 1 \in Int /\ TextEnd - 1 <= Len(buf)
      /\ Close - 1 \in Int /\ Close - 1 <= Len(buf)
      /\ AttrsEnd - 1 \in Int /\ AttrsEnd - 1 <= Len(buf)
  BY <1>1, Ends
<1> QED  BY <1>1, <1>2, PieceUnits DEF Run, TagAttrs

\* Attributes are stored within attrs_buf, and what is passed is what was stored.
LEMMA StoredUnits ==
  ASSUME Buffers, NEW given \in Seq(Unit)
  PROVE  /\ InBuf(given) \in [1 .. BufSize -> Unit \cup {NoAttr}]
         /\ Passed(given) \in Seq(Unit \cup {NoAttr})
<1> DEFINE V == Unit \cup {NoAttr}
           b == InBuf(given)
           n == Len(given)
<1>1. n \in Nat /\ \A i \in 1 .. n : given[i] \in Unit
  OBVIOUS
<1>2. BufSize \in Nat /\ BufSize >= 1
  BY SaxAssumption
<1>3. \A i \in 1 .. n : given[i] \in V
  BY <1>1
<1>4. attrs_buf \in [1 .. BufSize -> V]
  BY DEF Buffers
<1> HIDE DEF V
<1>5. b \in [1 .. BufSize -> V]
  <2>1. ASSUME NEW i \in 1 .. BufSize PROVE (IF i <= n THEN given[i] ELSE attrs_buf[i]) \in V
    <3>1. i <= n => i \in 1 .. n
      BY <1>1, <1>2
    <3> QED  BY <1>3, <1>4, <3>1
  <2> QED  BY <2>1 DEF InBuf
<1> HIDE DEF b, n
<1>6. b \in Seq(V) /\ Len(b) = BufSize
  BY <1>2, <1>5
<1>7. CASE n <= BufSize
  <2>1. Passed(given) = SubSeq(b, 1, n)
    BY <1>7 DEF Passed, b, n
  <2>2. \A i \in 1 .. n : b[i] \in V
    BY <1>1, <1>2, <1>5, <1>7
  <2>3. SubSeq(b, 1, n) \in Seq(V)
    BY <1>1, <1>6, <2>2, SubSeqProperties
  <2> QED  BY <1>5, <2>1, <2>3 DEF V, b
<1>8. CASE ~(n <= BufSize)
  <2> DEFINE rest == SubSeq(given, BufSize + 1, n)
             s == b \o rest
  <2>1. Passed(given) = SubSeq(s, 1, n)
    BY <1>8 DEF Passed, Spilled, b, n
  <2>2. rest \in Seq(V) /\ Len(rest) = n - BufSize
    <3>1. given \in Seq(V) /\ Len(given) = n
      BY <1>3 DEF V, n
    <3>2. BufSize + 1 \in Nat /\ BufSize + 1 <= n /\ \A i \in BufSize + 1 .. n : given[i] \in V
      BY <1>1, <1>2, <1>3, <1>8
    <3>3. BufSize + 1 <= n + 1 /\ n - (BufSize + 1) + 1 = n - BufSize
      BY <1>1, <1>2, <3>2
    <3> DEFINE m == BufSize + 1
    <3> HIDE DEF m
    <3>4. SubSeq(given, m, n) \in Seq(V) /\ Len(SubSeq(given, m, n)) = IF m <= n THEN n - m + 1 ELSE 0
      BY <1>1, <3>1, <3>2, SubSeqProperties DEF m
    <3> QED  BY <3>2, <3>3, <3>4 DEF m
  <2> HIDE DEF rest
  <2>3. s \in Seq(V) /\ Len(s) = n
    BY <1>1, <1>2, <1>6, <2>2
  <2> HIDE DEF s
  <2>4. SubSeq(s, 1, n) = s
    BY <2>3, SubSeqFull
  <2> QED  BY <1>5, <2>1, <2>3, <2>4 DEF V, b
<1> QED  BY <1>1, <1>2, <1>7, <1>8

-----------------------------------------------------------------------------
(* The limits of Normal mode, over all chunks.                             *)

Balance(evs) == TimesIn(evs, "start") - TimesIn(evs, "end")
Refs(evs)    == Cardinality(RefsOf(evs))

\* How a callback changes the number of open elements.
Opens(e) == IF e.kind = "start" THEN 1 ELSE IF e.kind = "end" THEN -1 ELSE 0

\* While no exception was thrown, depth and entity_count are what was passed so far.
Limits ==
  /\ Balance(events) \in 0 .. MaxDepth /\ Refs(events) <= MaxEntities
  /\ error = "none" => depth = Balance(events) /\ entity_count = Refs(events)

LimitInv ==
  /\ Buffers /\ mode \in {"Normal", "Turbo"}
  /\ first_chunk => events = <<>>
  /\ pc = "chunk" => ~first_chunk
  /\ mode = "Normal" => Limits

\* What the limits are about, in the invariant's terms.
LEMMA LimitsAre == LimitInv => LimitsOverAllChunks
<1>1. Times("start") - Times("end") = Balance(events) /\ RefsPassed = Refs(events)
  BY DEF Times, TimesIn, Balance, RefsPassed, Refs, RefsOf
<1> QED  BY <1>1 DEF LimitInv, Limits, LimitsOverAllChunks

\* What one callback adds.
LEMMA OneEvent ==
  ASSUME NEW evs \in Seq(Event), NEW e \in Event
  PROVE  /\ Append(evs, e) \in Seq(Event)
         /\ Balance(evs) \in Int /\ Balance(Append(evs, e)) = Balance(evs) + Opens(e)
         /\ Refs(evs) \in Nat /\ Cardinality(ReferencesIn(e.body)) \in Nat
         /\ Refs(Append(evs, e)) = Refs(evs) + Cardinality(ReferencesIn(e.body))
<1> DEFINE more == Append(evs, e)
           s == TimesIn(evs, "start")
           t == TimesIn(evs, "end")
           c == TimesIn(more, "start")
           d == TimesIn(more, "end")
<1>1. s \in Nat /\ c = s + IF e.kind = "start" THEN 1 ELSE 0
  BY TimesMore
<1>2. t \in Nat /\ d = t + IF e.kind = "end" THEN 1 ELSE 0
  BY TimesMore
<1>3. more \in Seq(Event)
  OBVIOUS
<1>4. Refs(evs) \in Nat /\ Cardinality(ReferencesIn(e.body)) \in Nat
      /\ Refs(more) = Refs(evs) + Cardinality(ReferencesIn(e.body))
  BY RefsCounted DEF Refs
<1>5. Balance(evs) = s - t /\ Balance(more) = c - d
  BY DEF Balance
<1> HIDE DEF more, s, t, c, d
<1>6. s - t \in Int /\ c - d = (s - t) + Opens(e)
  BY <1>1, <1>2 DEF Opens
<1> QED  BY <1>3, <1>4, <1>5, <1>6 DEF more

\* A callback that passes no text that was expanded has no references.
LEMMA PlainEvent ==
  ASSUME NEW kind \in {"start", "end", "text", "comment", "cdata", "pi"},
         NEW body \in Seq(Unit \cup {NoAttr})
  PROVE  /\ [kind |-> kind, body |-> body] \in Event
         /\ Cardinality(ReferencesIn(body)) = 0
<1>1. body \in Seq(Unit \cup {"ref", NoAttr})
  OBVIOUS
<1>2. "ref" \notin Unit \cup {NoAttr}
  BY NoUnit DEF RefIsNoUnit, NoAttr
<1>3. \A j \in DOMAIN body : body[j] \in Unit \cup {NoAttr}
  OBVIOUS
<1>4. ReferencesIn(body) = {}
  BY <1>2, <1>3 DEF ReferencesIn
<1> QED  BY <1>1, <1>4, FS_EmptySet DEF Event

\* What the loop around the parser keeps while that parses.
Inside == pc = "chunk" /\ pc' = pc /\ first_chunk' = first_chunk /\ buf' = buf /\ mode' = mode

\* A step without a callback.
LEMMA SilentKeeps ==
  ASSUME LimitInv, Inside, events' = events, at' \in Nat \ {0},
         attrs_buf' \in [1 .. BufSize -> Unit \cup {NoAttr}],
         error' # "none" \/ UNCHANGED <<error, depth, entity_count>>
  PROVE  LimitInv'
<1>1. Buffers' /\ mode' \in {"Normal", "Turbo"}
  BY DEF LimitInv, Inside, Buffers
<1>2. mode = "Normal" => Limits'
  BY DEF LimitInv, Limits
<1> QED  BY <1>1, <1>2 DEF LimitInv, Inside

\* A step with one, within the limits.
LEMMA EmitKeeps ==
  ASSUME LimitInv, Inside, error = "none", error' = error, at' \in Nat \ {0},
         attrs_buf' \in [1 .. BufSize -> Unit \cup {NoAttr}],
         NEW e \in Event, events' = Append(events, e),
         mode = "Normal" =>
           /\ depth' = depth + Opens(e) /\ depth' \in 0 .. MaxDepth
           /\ entity_count' = entity_count + Cardinality(ReferencesIn(e.body))
           /\ entity_count' <= MaxEntities
  PROVE  LimitInv'
<1>1. events \in Seq(Event)
  BY DEF LimitInv, Buffers
<1>2. /\ events' \in Seq(Event) /\ Balance(events') = Balance(events) + Opens(e)
      /\ Refs(events') = Refs(events) + Cardinality(ReferencesIn(e.body))
  BY <1>1, OneEvent
<1>3. Buffers' /\ mode' \in {"Normal", "Turbo"}
  BY <1>2 DEF LimitInv, Inside, Buffers
<1>4. mode = "Normal" => Limits'
  BY <1>2 DEF LimitInv, Limits
<1> QED  BY <1>3, <1>4 DEF LimitInv, Inside

\* A run of text.
LEMMA TextKeeps ==
  ASSUME LimitInv, Inside, Text
  PROVE  LimitInv'
<1> DEFINE e == [kind |-> "text", body |-> Run]
<1>1. /\ error = "none" /\ error' = error /\ events' = Append(events, e) /\ at' = TextEnd
      /\ at <= Len(buf) /\ UNCHANGED <<depth, entity_count, attrs_buf>>
  BY DEF Text, InText, Parsing, Emit
<1>2. Buffers
  BY DEF LimitInv
<1>3. Run \in Seq(Unit \cup {NoAttr}) /\ at' \in Nat \ {0}
      /\ attrs_buf' \in [1 .. BufSize -> Unit \cup {NoAttr}]
  BY <1>1, <1>2, RunUnits, Ends DEF Buffers
<1>4. e \in Event /\ Cardinality(ReferencesIn(e.body)) = 0 /\ Opens(e) = 0
  BY <1>3, PlainEvent DEF Opens
<1> HIDE DEF e
<1>5. events \in Seq(Event)
  BY <1>2 DEF Buffers
<1>6. Balance(events) \in Int /\ Refs(events) \in Nat
  BY <1>4, <1>5, OneEvent
<1>7. mode = "Normal" => /\ depth' = depth + Opens(e) /\ depth' \in 0 .. MaxDepth
                         /\ entity_count' = entity_count + Cardinality(ReferencesIn(e.body))
                         /\ entity_count' <= MaxEntities
  BY <1>1, <1>4, <1>6, SaxAssumption DEF LimitInv, Limits
<1> QED  BY <1>1, <1>3, <1>4, <1>7, EmitKeeps

\* A run of text with references, which are counted before they are expanded.
LEMMA ReferencesKeep ==
  ASSUME LimitInv, Inside, TextWithReferences
  PROVE  LimitInv'
<1> DEFINE e == [kind |-> "text", body |-> Expanded(Run)]
           n == Cardinality(References(Run))
<1>1. /\ error = "none" /\ error' = error /\ events' = Append(events, e) /\ at' = TextEnd
      /\ at <= Len(buf) /\ entity_count' = entity_count + n /\ entity_count' <= MaxEntities
      /\ UNCHANGED <<depth, attrs_buf>>
  BY DEF TextWithReferences, InText, Parsing, Emit, EntityCount
<1>2. Buffers
  BY DEF LimitInv
<1>3. Run \in Seq(Unit) /\ at' \in Nat \ {0}
      /\ attrs_buf' \in [1 .. BufSize -> Unit \cup {NoAttr}]
  BY <1>1, <1>2, RunUnits, Ends DEF Buffers
<1>4. e \in Event /\ Cardinality(ReferencesIn(e.body)) = n /\ Opens(e) = 0
  <2>1. Expanded(Run) \in Bodies /\ Cardinality(ReferencesIn(Expanded(Run))) = n
    BY <1>3, ExpandedRefs
  <2>2. Expanded(Run) \in Seq(Unit \cup {"ref", NoAttr})
    BY <2>1 DEF Bodies
  <2> QED  BY <2>1, <2>2 DEF Event, Opens
<1> HIDE DEF e
<1>5. events \in Seq(Event)
  BY <1>2 DEF Buffers
<1>6. Balance(events) \in Int /\ Refs(events) \in Nat
  BY <1>4, <1>5, OneEvent
<1>7. mode = "Normal" => /\ depth' = depth + Opens(e) /\ depth' \in 0 .. MaxDepth
                         /\ entity_count' = entity_count + Cardinality(ReferencesIn(e.body))
                         /\ entity_count' <= MaxEntities
  BY <1>1, <1>4, <1>6, SaxAssumption DEF LimitInv, Limits
<1> QED  BY <1>1, <1>3, <1>4, <1>7, EmitKeeps

\* An end tag.
LEMMA EndTagKeeps ==
  ASSUME LimitInv, Inside, EndTag
  PROVE  LimitInv'
<1> DEFINE e == [kind |-> "end", body |-> <<Ahead(2)>>]
<1>1. /\ error = "none" /\ error' = error /\ events' = Append(events, e) /\ at' = at + 4
      /\ Ahead(2) \in Names
      /\ mode = "Normal" => depth > 0 /\ depth' = depth - 1
      /\ UNCHANGED <<entity_count, attrs_buf>>
  BY DEF EndTag, EndTagEnds, AtLt, Parsing, Emit
<1>2. Buffers
  BY DEF LimitInv
<1>3. <<Ahead(2)>> \in Seq(Unit \cup {NoAttr}) /\ at' \in Nat \ {0}
      /\ attrs_buf' \in [1 .. BufSize -> Unit \cup {NoAttr}]
  <2>1. Ahead(2) \in Unit \cup {NoAttr}
    BY <1>1 DEF Unit
  <2> QED  BY <1>1, <1>2, <2>1 DEF Buffers
<1>4. e \in Event /\ Cardinality(ReferencesIn(e.body)) = 0 /\ Opens(e) = -1
  BY <1>3, PlainEvent DEF Opens
<1> HIDE DEF e
<1>5. events \in Seq(Event)
  BY <1>2 DEF Buffers
<1>6. Balance(events) \in Int /\ Refs(events) \in Nat
  BY <1>4, <1>5, OneEvent
<1>7. mode = "Normal" => /\ depth' = depth + Opens(e) /\ depth' \in 0 .. MaxDepth
                         /\ entity_count' = entity_count + Cardinality(ReferencesIn(e.body))
                         /\ entity_count' <= MaxEntities
  BY <1>1, <1>4, <1>6, SaxAssumption DEF LimitInv, Limits
<1> QED  BY <1>1, <1>3, <1>4, <1>7, EmitKeeps

\* A comment, CDATA section or processing instruction.
LEMMA SectionKeeps ==
  ASSUME LimitInv, Inside, Section
  PROVE  LimitInv'
<1> DEFINE body == SubSeq(buf, at + 2, Close - 1)
           e == [kind |-> KindOf[Ahead(1)], body |-> body]
<1>1. /\ error = "none" /\ error' = error /\ events' = Append(events, e) /\ at' = Close + 1
      /\ Ahead(1) \in DOMAIN Closing /\ UNCHANGED <<depth, entity_count, attrs_buf>>
  BY DEF Section, AtLt, Parsing, Emit
<1>2. Buffers
  BY DEF LimitInv
<1>3. body \in Seq(Unit \cup {NoAttr}) /\ at' \in Nat \ {0}
      /\ attrs_buf' \in [1 .. BufSize -> Unit \cup {NoAttr}]
  <2>1. body \in Seq(Unit)
    BY <1>2, RunUnits
  <2> HIDE DEF body
  <2> QED  BY <1>1, <1>2, <2>1, Ends DEF Buffers
<1>4. KindOf[Ahead(1)] \in {"comment", "cdata", "pi"}
  BY <1>1 DEF KindOf, Closing
<1> HIDE DEF body
<1>5. e \in Event /\ Cardinality(ReferencesIn(e.body)) = 0 /\ Opens(e) = 0
  <2> DEFINE kind == KindOf[Ahead(1)]
  <2> HIDE DEF kind
  <2>1. kind \in {"comment", "cdata", "pi"}
    BY <1>4 DEF kind
  <2>2. [kind |-> kind, body |-> body] \in Event /\ Cardinality(ReferencesIn(body)) = 0
    BY <1>3, <2>1, PlainEvent
  <2> QED  BY <2>1, <2>2 DEF Opens, kind
<1> HIDE DEF e
<1>6. events \in Seq(Event)
  BY <1>2 DEF Buffers
<1>7. Balance(events) \in Int /\ Refs(events) \in Nat
  BY <1>5, <1>6, OneEvent
<1>8. mode = "Normal" => /\ depth' = depth + Opens(e) /\ depth' \in 0 .. MaxDepth
                         /\ entity_count' = entity_count + Cardinality(ReferencesIn(e.body))
                         /\ entity_count' <= MaxEntities
  BY <1>1, <1>5, <1>7, SaxAssumption DEF LimitInv, Limits
<1> QED  BY <1>1, <1>3, <1>5, <1>8, EmitKeeps

\* The callback of a start tag.
TagEvent == [kind |-> "start", body |-> <<Ahead(1)>> \o Passed(TagAttrs)]

LEMMA TagEventIs ==
  ASSUME Buffers, Ahead(1) \in Names
  PROVE  /\ TagEvent \in Event /\ Cardinality(ReferencesIn(TagEvent.body)) = 0
         /\ Opens(TagEvent) = 1
         /\ InBuf(TagAttrs) \in [1 .. BufSize -> Unit \cup {NoAttr}]
         /\ TagEnd \in Nat
<1> DEFINE V == Unit \cup {NoAttr}
           s == Passed(TagAttrs)
<1>1. TagAttrs \in Seq(Unit)
  BY RunUnits
<1>2. InBuf(TagAttrs) \in [1 .. BufSize -> V] /\ s \in Seq(V)
  BY <1>1, StoredUnits
<1>3. Ahead(1) \in V
  BY DEF Unit
<1>4. TagEnd \in Nat
  BY Ends DEF TagEnd
<1> HIDE DEF V, s
<1>5. <<Ahead(1)>> \o s \in Seq(V)
  BY <1>2, <1>3
<1> DEFINE body == <<Ahead(1)>> \o s
<1>6. TagEvent = [kind |-> "start", body |-> body]
  BY DEF TagEvent, s
<1>7. body \in Seq(Unit \cup {NoAttr})
  BY <1>5 DEF V
<1> HIDE DEF body
<1>8. TagEvent \in Event /\ Cardinality(ReferencesIn(body)) = 0
  BY <1>6, <1>7, PlainEvent
<1> QED  BY <1>2, <1>4, <1>6, <1>8 DEF V, Opens

\* A start tag within the limits.
LEMMA StartTagKeeps ==
  ASSUME LimitInv, Inside, StartTag
  PROVE  LimitInv'
<1> DEFINE e == TagEvent
<1>1. /\ error = "none" /\ error' = error /\ events' = Append(events, e) /\ at' = TagEnd + 1
      /\ Ahead(1) \in Names /\ attrs_buf' = InBuf(TagAttrs) /\ entity_count' = entity_count
      /\ mode = "Normal" => depth' = depth + 1 /\ ~(depth >= MaxDepth)
  BY DEF StartTag, StartsTag, AtLt, Parsing, Emit, Store, TooDeep, TagEvent
<1>2. Buffers
  BY DEF LimitInv
<1>3. /\ e \in Event /\ Cardinality(ReferencesIn(e.body)) = 0 /\ Opens(e) = 1
      /\ at' \in Nat \ {0} /\ attrs_buf' \in [1 .. BufSize -> Unit \cup {NoAttr}]
  BY <1>1, <1>2, TagEventIs
<1> HIDE DEF e
<1>4. events \in Seq(Event)
  BY <1>2 DEF Buffers
<1>5. Balance(events) \in Int /\ Refs(events) \in Nat
  BY <1>3, <1>4, OneEvent
<1>6. mode = "Normal" => /\ depth' = depth + Opens(e) /\ depth' \in 0 .. MaxDepth
                         /\ entity_count' = entity_count + Cardinality(ReferencesIn(e.body))
                         /\ entity_count' <= MaxEntities
  BY <1>1, <1>3, <1>5, SaxAssumption DEF LimitInv, Limits
<1> QED  BY <1>1, <1>3, <1>6, EmitKeeps

\* An empty element is opened and closed.
LEMMA EmptyTagKeeps ==
  ASSUME LimitInv, Inside, EmptyTag
  PROVE  LimitInv'
<1> DEFINE e == TagEvent
           d == [kind |-> "end", body |-> <<Ahead(1)>>]
           more == Append(events, e)
<1>1. /\ error = "none" /\ error' = error /\ events' = events \o <<e, d>> /\ at' = TagEnd + 1
      /\ Ahead(1) \in Names /\ attrs_buf' = InBuf(TagAttrs) /\ UNCHANGED <<depth, entity_count>>
  BY DEF EmptyTag, StartsTag, AtLt, Parsing, Store, TagEvent
<1>2. Buffers /\ events \in Seq(Event)
  BY DEF LimitInv, Buffers
<1>3. /\ e \in Event /\ Cardinality(ReferencesIn(e.body)) = 0 /\ Opens(e) = 1
      /\ at' \in Nat \ {0} /\ attrs_buf' \in [1 .. BufSize -> Unit \cup {NoAttr}]
  BY <1>1, <1>2, TagEventIs
<1>4. d \in Event /\ Cardinality(ReferencesIn(d.body)) = 0 /\ Opens(d) = -1
  <2>1. Ahead(1) \in Unit \cup {NoAttr}
    BY <1>1 DEF Unit
  <2>2. <<Ahead(1)>> \in Seq(Unit \cup {NoAttr})
    BY <2>1
  <2> QED  BY <2>2, PlainEvent DEF Opens
<1> HIDE DEF e, d
<1>5. /\ more \in Seq(Event) /\ Balance(events) \in Int /\ Balance(more) = Balance(events) + 1
      /\ Refs(events) \in Nat /\ Refs(more) = Refs(events) + 0
  BY <1>2, <1>3, OneEvent
<1>6. events' = Append(more, d)
  BY <1>1, <1>2, <1>3, <1>4
<1> HIDE DEF more
<1>7. /\ events' \in Seq(Event) /\ Balance(events') = Balance(more) + -1
      /\ Refs(events') = Refs(more) + 0
  BY <1>4, <1>5, <1>6, OneEvent
<1>8. Balance(events') = Balance(events) /\ Refs(events') = Refs(events)
  BY <1>5, <1>7
<1>9. Buffers' /\ mode' \in {"Normal", "Turbo"}
  BY <1>3, <1>7 DEF LimitInv, Inside, Buffers
<1>10. mode = "Normal" => Limits'
  BY <1>1, <1>8 DEF LimitInv, Limits
<1> QED  BY <1>9, <1>10 DEF LimitInv, Inside

\* What is not closed in the buffer and a document type are passed over.
LEMMA SkippedKeep ==
  ASSUME LimitInv, Inside, UnclosedSection \/ Doctype
  PROVE  LimitInv'
<1>1. events' = events /\ UNCHANGED <<error, depth, entity_count, attrs_buf>>
  BY DEF UnclosedSection, Doctype
<1>2. Buffers /\ Len(buf) \in Nat /\ at \in Nat
  BY DEF LimitInv, Buffers
<1>3. at' \in Nat \ {0}
  <2>1. CASE UnclosedSection
    BY <1>2, <2>1 DEF UnclosedSection, Dropped
  <2>2. CASE Doctype
    <3> DEFINE S == {i \in at + 2 .. Len(buf) : buf[i] = ">" /\ Brackets(i) = 0} \cup {Len(buf)}
    <3>1. at' = Min(S) + 1
      BY <2>2 DEF Doctype
    <3>2. S \subseteq Nat /\ S # {}
      BY <1>2
    <3> HIDE DEF S
    <3>3. Min(S) \in Nat
      BY <3>2, MinExists
    <3> QED  BY <3>1, <3>3
  <2> QED  BY <2>1, <2>2
<1>4. attrs_buf' \in [1 .. BufSize -> Unit \cup {NoAttr}]
  BY <1>1, <1>2 DEF Buffers
<1> QED  BY <1>1, <1>3, <1>4, SilentKeeps

\* An exception leaves the callbacks as they are.
LEMMA ThrowKeeps ==
  ASSUME LimitInv, Inside,
         TooManyReferences \/ BadEndTag \/ StartTagOverLimit \/ BadStartTag \/ NoTag
  PROVE  LimitInv'
<1>1. events' = events /\ error' # "none" /\ at' = at
  BY DEF TooManyReferences, BadEndTag, StartTagOverLimit, BadStartTag, NoTag, Throw
<1>2. Buffers
  BY DEF LimitInv
<1>3. \/ attrs_buf' = attrs_buf \/ attrs_buf' = InBuf(TagAttrs)
      \/ StartsTag /\ TooManyAttrs /\ attrs_buf' = InBuf(SubSeq(TagAttrs, 1, MaxAttrs))
  BY DEF TooManyReferences, BadEndTag, StartTagOverLimit, BadStartTag, NoTag, Store
<1>4. TagAttrs \in Seq(Unit)
  BY <1>2, RunUnits
<1>5. TooManyAttrs => SubSeq(TagAttrs, 1, MaxAttrs) \in Seq(Unit)
  BY <1>4, PieceUnits, SaxAssumption DEF TooManyAttrs
<1>6. attrs_buf' \in [1 .. BufSize -> Unit \cup {NoAttr}]
  BY <1>2, <1>3, <1>4, <1>5, StoredUnits DEF Buffers
<1> QED  BY <1>1, <1>2, <1>6, SilentKeeps DEF Buffers

\* One lemma per step of the parser.
LEMMA ParseKeeps ==
  ASSUME LimitInv, ParseChunk
  PROVE  LimitInv'
<1>1. Inside
  <2>1. SaxStep => buf' = buf /\ mode' = mode
    BY DEF SaxStep, Text, TextWithReferences, TooManyReferences, EndTag, BadEndTag,
           Section, UnclosedSection, Doctype, StartTag, EmptyTag, StartTagOverLimit, BadStartTag,
           NoTag, Throw
  <2> QED  BY <2>1 DEF ParseChunk, chunkVars, Inside
<1> QED  BY <1>1, TextKeeps, ReferencesKeep, EndTagKeeps, SectionKeeps, StartTagKeeps,
            EmptyTagKeeps, SkippedKeep, ThrowKeeps DEF ParseChunk, SaxStep

\* Before the first callback.
LEMMA NothingPassed == Balance(<<>>) = 0 /\ Refs(<<>>) = 0
<1>1. TimesIn(<<>>, "start") = 0 /\ TimesIn(<<>>, "end") = 0
  BY FS_EmptySet DEF TimesIn
<1>2. RefsOf(<<>>) = {}
  BY DEF RefsOf
<1> QED  BY <1>1, <1>2, FS_EmptySet DEF Balance, Refs

\* A call of parse begins anew.
LEMMA CallLimits ==
  ASSUME LimitInv, Call
  PROVE  LimitInv'
<1>1. /\ events' = <<>> /\ depth' = 0 /\ entity_count' = 0 /\ buf' = <<>> /\ at' = 1
      /\ attrs_buf' = [i \in 1 .. BufSize |-> NoAttr] /\ mode' = mode /\ pc' = "loop"
  BY DEF Call
<1>2. Buffers'
  BY <1>1 DEF Buffers
<1>3. Limits'
  BY <1>1, NothingPassed, SaxAssumption DEF Limits
<1> QED  BY <1>1, <1>2, <1>3 DEF LimitInv

\* So do the parser's objects.
LEMMA InitLimits == Init => LimitInv
<1> SUFFICES ASSUME Init PROVE LimitInv
  OBVIOUS
<1>1. Buffers
  BY DEF Init, Buffers
<1>2. Limits
  BY NothingPassed, SaxAssumption DEF Init, Limits
<1> QED  BY <1>1, <1>2 DEF Init, LimitInv

\* The counters start again with the first chunk only, before any callback.
LEMMA ChunkLimits ==
  ASSUME LimitInv, IInv, Chunk
  PROVE  LimitInv'
<1>1. /\ events' = events /\ error' = error /\ attrs_buf' = attrs_buf /\ mode' = mode
      /\ at' = 1 /\ buf' = boundary_buf \o Slice(pos, SafeEnd) /\ pos < Len(data)
      /\ depth' = IF first_chunk THEN 0 ELSE depth
      /\ entity_count' = IF first_chunk THEN 0 ELSE entity_count
      /\ first_chunk' = FALSE
  BY DEF Chunk, Resets
<1>2. buf' \in Seq(Unit)
  <2>1. Types
    BY DEF IInv
  <2>2. Positions
    BY <1>1, <2>1, ChunkPositions DEF Types
  <2>3. SafeEnd \in Nat /\ SafeEnd <= Len(data)
    BY <2>1, <2>2 DEF Positions, Cut, Types
  <2>4. Slice(pos, SafeEnd) \in Seq(Unit)
    BY <2>1, <2>3, SliceIsSeq DEF Types
  <2> QED  BY <1>1, <2>1, <2>4, ConcatProperties DEF Types
<1>3. Buffers'
  BY <1>1, <1>2 DEF LimitInv, Buffers
<1>4. first_chunk => Balance(events) = 0 /\ Refs(events) = 0
  BY NothingPassed DEF LimitInv
<1>5. mode = "Normal" => Limits'
  BY <1>1, <1>4 DEF LimitInv, Limits
<1> QED  BY <1>1, <1>3, <1>5 DEF LimitInv

\* The rest of the loop leaves the parser alone.
LEMMA LoopLimits ==
  ASSUME LimitInv, EndChunk \/ Rethrow \/ Return \/ Done \/ UNCHANGED vars
  PROVE  LimitInv'
<1>1. UNCHANGED saxVars /\ first_chunk' = first_chunk /\ (pc' = "chunk" => pc = "chunk")
  BY DEF EndChunk, Rethrow, Return, Done, vars, chunkVars
<1>2. (Buffers <=> Buffers') /\ (Limits <=> Limits')
  BY <1>1 DEF Buffers, Limits, saxVars
<1> QED  BY <1>1, <1>2 DEF LimitInv, saxVars

\* The invariant holds throughout.
LEMMA LimitInvariance == Spec => []LimitInv
<1>1. Init => LimitInv
  BY InitLimits
<1>2. IInv /\ LimitInv /\ [Next]_vars => LimitInv'
  BY ParseKeeps, CallLimits, ChunkLimits, LoopLimits DEF Next, Running
<1> QED  BY <1>1, <1>2, Invariance, PTL DEF Spec

\* The limits of Normal mode bound what the application is told over all chunks, for every
\* input, chunk size and look-back: the parser's counters, which start again with the first
\* chunk only, are the elements open and the references passed.
THEOREM LimitsCorrect == Spec => []LimitsOverAllChunks
  BY LimitsAre, LimitInvariance, PTL

=============================================================================
