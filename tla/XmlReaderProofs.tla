-------------------------- MODULE XmlReaderProofs --------------------------
(***************************************************************************)
(* Machine-checked proofs about XmlReader, for every set of inputs and     *)
(* every number of inline attribute slots.                                 *)
(***************************************************************************)
EXTENDS XmlReader, RecursionProofs

(***************************************************************************)
(* Lemmas on the operators the reader is built from.                       *)
(***************************************************************************)

\* A function on an initial interval of the naturals is a sequence, whatever
\* the sign of the bound.
LEMMA IntervalFunctionIsSeq ==
  ASSUME NEW S, NEW m \in Int, NEW f \in [1 .. m -> S]
  PROVE  f \in Seq(S) /\ Len(f) = IF m > 0 THEN m ELSE 0
<1>1. PICK n \in Nat : n = IF m > 0 THEN m ELSE 0
  OBVIOUS
<1>2. 1 .. m = 1 .. n
  BY <1>1
<1>3. f \in [1 .. n -> S]
  BY <1>2
<1>4. f \in Seq(S)
  BY <1>3, SeqDef
<1> QED
  BY <1>1, <1>3, <1>4, LenProperties

\* Leave, the pop of the element path, removes the last entry if there is one.
LEMMA LeaveProperties ==
  ASSUME NEW S, NEW p \in Seq(S)
  PROVE  /\ Leave(p) \in Seq(S)
         /\ Len(Leave(p)) = IF p = <<>> THEN 0 ELSE Len(p) - 1
         /\ \A k \in 1 .. Len(Leave(p)) : Leave(p)[k] = p[k]
<1>1. CASE p = <<>>
  BY <1>1, EmptySeq DEF Leave
<1>2. CASE p # <<>>
  <2>1. Len(p) \in Nat \ {0}
    BY <1>2, EmptySeq
  <2>2. \A i \in 1 .. Len(p) - 1 : p[i] \in S
    BY <2>1, ElementOfSeq
  <2>3. /\ SubSeq(p, 1, Len(p) - 1) \in Seq(S)
        /\ Len(SubSeq(p, 1, Len(p) - 1)) = Len(p) - 1
        /\ \A i \in 1 .. Len(p) - 1 : SubSeq(p, 1, Len(p) - 1)[i] = p[i]
    <3>1. PICK n \in Nat : n = Len(p) - 1
      BY <2>1
    <3>2. 1 \in Int /\ n \in Int /\ \A i \in 1 .. n : p[i] \in S
      BY <2>2, <3>1
    <3>3. /\ SubSeq(p, 1, n) \in Seq(S)
          /\ Len(SubSeq(p, 1, n)) = IF 1 <= n THEN n - 1 + 1 ELSE 0
          /\ \A i \in 1 .. n - 1 + 1 : SubSeq(p, 1, n)[i] = p[1 + i - 1]
      BY <3>2, SubSeqProperties
    <3> QED
      BY <3>1, <3>3
  <2> QED
    BY <1>2, <2>1, <2>3 DEF Leave
<1> QED
  BY <1>1, <1>2

\* Every token of an input has its kind, its number of attributes and its residue.
LEMMA TokenOfDoc ==
  ASSUME doc \in Docs
  PROVE  /\ doc \in Seq(Token) /\ Len(doc) \in Nat
         /\ \A i \in Tokens : /\ doc[i].kind \in Kinds
                              /\ doc[i].n \in Nat
                              /\ doc[i].residue \in BOOLEAN
<1>1. doc \in Seq(Token)
  BY DocsAssumption
<1>2. Len(doc) \in Nat
  BY <1>1, LenProperties
<1>3. \A i \in Tokens : doc[i] \in Token
  BY <1>1, ElementOfSeq DEF Tokens
<1> QED
  BY <1>1, <1>2, <1>3 DEF Token

\* What LoadAttrs(i) puts in the slots: the attributes of token i in order, the
\* first InlineAttrs of them inline and the others spilled.
LEMMA LoadAttrsProperties ==
  ASSUME TypeOK, NEW i \in Tokens, LoadAttrs(i)
  PROVE  /\ nattrs' = doc[i].n /\ nattrs' \in Nat
         /\ inline' \in [1 .. InlineAttrs -> Index \X Nat]
         /\ spill' \in Seq(Index \X Nat)
         /\ \A k \in 1 .. nattrs' : AttrAt(k)' = <<i, k>>
<1>1. doc[i].n \in Nat /\ i \in Index /\ InlineAttrs \in Nat
  BY TokenOfDoc, InlineAssumption DEF TypeOK, Tokens, Index
<1>2. inline' \in [1 .. InlineAttrs -> Index \X Nat]
  BY <1>1 DEF LoadAttrs, TypeOK
<1>3. spill' \in [1 .. doc[i].n - InlineAttrs -> Index \X Nat]
  BY <1>1 DEF LoadAttrs
<1>4. spill' \in Seq(Index \X Nat)
  <2> DEFINE S == Index \X Nat
             m == doc[i].n - InlineAttrs
  <2>1. m \in Int /\ spill' \in [1 .. m -> S]
    BY <1>1, <1>3
  <2> HIDE DEF S, m
  <2>2. spill' \in Seq(S)
    BY <2>1, IntervalFunctionIsSeq
  <2> QED
    BY <2>2 DEF S
<1>5. ASSUME NEW k \in 1 .. doc[i].n
      PROVE  AttrAt(k)' = <<i, k>>
  <2>1. CASE k <= InlineAttrs
    BY <1>1, <2>1 DEF AttrAt, LoadAttrs
  <2>2. CASE ~(k <= InlineAttrs)
    <3>1. k - InlineAttrs \in 1 .. doc[i].n - InlineAttrs
      BY <1>1, <2>2
    <3>2. spill'[k - InlineAttrs] = <<i, (k - InlineAttrs) + InlineAttrs>>
      BY <3>1 DEF LoadAttrs
    <3> QED
      BY <1>1, <2>2, <3>2 DEF AttrAt
  <2> QED
    BY <2>1, <2>2
<1> QED
  BY <1>1, <1>2, <1>4, <1>5 DEF LoadAttrs

-----------------------------------------------------------------------------
(***************************************************************************)
(* Type correctness.  `open` only stays a natural number because a helper  *)
(* that runs has it positive.                                              *)
(***************************************************************************)

ReaderTypeOK ==
  /\ doc \in Docs
  /\ pos \in 1 .. Len(doc) + 1
  /\ residue \in BOOLEAN /\ started \in BOOLEAN /\ done \in BOOLEAN
  /\ pending \in BOOLEAN
  /\ event \in Events
  /\ eventAt \in Index /\ scName \in Index
  /\ name \in Index /\ text \in Index /\ piData \in Index
  /\ nattrs \in Nat
  /\ inline \in [1 .. InlineAttrs -> Index \X Nat]
  /\ spill \in Seq(Index \X Nat)
  /\ depth \in Nat
  /\ ret \in {"none", "true", "false", "throw", "helper"}
  /\ path \in Seq(Index)

HelperRunning == mode # "app" => open > 0

TypeInv == TypeOK /\ HelperRunning

\* A reader before its first call is well typed.
LEMMA InitTypeInv == Init => TypeInv
<1> SUFFICES ASSUME Init PROVE TypeInv
  OBVIOUS
<1>1. doc \in Docs /\ Len(doc) \in Nat
  BY TokenOfDoc DEF Init
<1>2. 0 \in Index
  BY <1>1 DEF Index
<1>3. /\ <<>> \in Seq(Index) /\ <<>> \in Seq(Index \X Nat)
  OBVIOUS
<1>4. inline \in [1 .. InlineAttrs -> Index \X Nat]
  BY <1>2 DEF Init
<1>5. 1 \in 1 .. Len(doc) + 1
  BY <1>1
<1>6. HelperRunning
  BY DEF Init, HelperRunning
<1>7. TypeOK
  BY <1>1, <1>2, <1>3, <1>4, <1>5 DEF Init, TypeOK, Events
<1> QED
  BY <1>6, <1>7 DEF TypeInv

\* One call of next(), whatever its outcome, keeps the reader well typed.
LEMMA CallNextType ==
  ASSUME TypeOK, CallNext
  PROVE  ReaderTypeOK' /\ doc' = doc
<1> USE DEF ReaderTypeOK, Index
<1>1. /\ doc \in Docs /\ Len(doc) \in Nat /\ 0 \in Index
      /\ \A i \in Tokens : i \in Index /\ i \in 1 .. Len(doc) + 1 /\ i + 1 \in 1 .. Len(doc) + 1
  BY TokenOfDoc DEF TypeOK, Tokens
<1>2. ClearAttrs => /\ nattrs' \in Nat
                    /\ inline' \in [1 .. InlineAttrs -> Index \X Nat]
                    /\ spill' \in Seq(Index \X Nat)
  BY DEF ClearAttrs, TypeOK
<1>3. Leave(path) \in Seq(Index)
  BY LeaveProperties DEF TypeOK
<1>4. CASE AlreadyDone
  BY <1>4 DEF AlreadyDone, TypeOK, attrVars
<1>5. CASE EmitStartDocument
  BY <1>1, <1>2, <1>5 DEF EmitStartDocument, TypeOK, Events
<1>6. CASE EmitPendingEnd
  BY <1>1, <1>2, <1>3, <1>6 DEF EmitPendingEnd, TypeOK, Events
<1>7. CASE EmitResidue
  <2>1. pos - 1 \in Index
    BY <1>1 DEF TypeOK
  <2> QED
    BY <1>1, <1>2, <1>7, <2>1 DEF EmitResidue, TypeOK, Events
<1>8. ASSUME NEW i \in Tokens, EmitStart(i)
      PROVE  ReaderTypeOK' /\ doc' = doc
  <2>1. /\ nattrs' \in Nat
        /\ inline' \in [1 .. InlineAttrs -> Index \X Nat]
        /\ spill' \in Seq(Index \X Nat)
    BY <1>8, LoadAttrsProperties DEF EmitStart
  <2>2. Append(path, i) \in Seq(Index)
    BY <1>1 DEF TypeOK
  <2>3. depth' \in Nat
    BY <1>8 DEF EmitStart, DepthAfterStart, TypeOK
  <2>4. pending' \in BOOLEAN /\ scName' \in Index
    BY <1>1, <1>8 DEF EmitStart, TypeOK
  <2> QED
    BY <1>1, <1>8, <2>1, <2>2, <2>3, <2>4 DEF EmitStart, After, TypeOK, Events
<1>9. ASSUME NEW i \in Tokens, EmitEnd(i)
      PROVE  ReaderTypeOK' /\ doc' = doc
  <2>1. depth' \in Nat
    BY <1>9 DEF EmitEnd, DepthAfterEnd, TypeOK
  <2> QED
    BY <1>1, <1>2, <1>3, <1>9, <2>1 DEF EmitEnd, After, TypeOK, Events
<1>10. ASSUME NEW i \in Tokens, EmitContent(i)
       PROVE  ReaderTypeOK' /\ doc' = doc
  <2>1. event' \in Events
    BY <1>10 DEF EmitContent, Visible, EventOf, Events
  <2>2. name' \in Index /\ piData' \in Index
    BY <1>1, <1>10 DEF EmitContent, ContentName, TypeOK
  <2> QED
    BY <1>1, <1>2, <1>10, <2>1, <2>2 DEF EmitContent, After, TypeOK
<1>11. ASSUME NEW i \in Tokens, Throw(i)
       PROVE  ReaderTypeOK' /\ doc' = doc
  <2>1. /\ nattrs' \in Nat
        /\ inline' \in [1 .. InlineAttrs -> Index \X Nat]
        /\ spill' \in Seq(Index \X Nat)
    <3>1. CASE doc[i].kind = "badstart"
      BY <1>11, <3>1, LoadAttrsProperties DEF Throw
    <3>2. CASE doc[i].kind # "badstart"
      BY <1>11, <3>2 DEF Throw, attrVars, TypeOK
    <3> QED
      BY <3>1, <3>2
  <2>2. residue' \in BOOLEAN
    BY <1>11, TokenOfDoc DEF Throw, TypeOK
  <2> QED
    BY <1>1, <1>11, <2>1, <2>2 DEF Throw, After, TypeOK
<1>12. CASE Exhaust
  BY <1>1, <1>12 DEF Exhaust, TypeOK, attrVars, Events
<1> QED
  BY <1>4, <1>5, <1>6, <1>7, <1>8, <1>9, <1>10, <1>11, <1>12 DEF CallNext

\* One iteration of a helper's loop is a call of next() followed by the update
\* of the helper's own state.
LEMMA HelperStepCalls == HelperStep => CallNext
BY DEF HelperStep, CallNext

\* Every step keeps the types.
LEMMA NextTypeInv == TypeInv /\ [Next]_vars => TypeInv'
<1> SUFFICES ASSUME TypeInv, [Next]_vars PROVE TypeInv'
  OBVIOUS
<1> USE DEF TypeInv
<1>1. CASE AppNext
  <2>1. ReaderTypeOK' /\ doc' = doc
    BY <1>1, CallNextType DEF AppNext
  <2>2. <<>> \in Seq(Index')
    OBVIOUS
  <2> QED
    BY <1>1, <2>1, <2>2 DEF AppNext, TypeOK, ReaderTypeOK, HelperRunning, Index
<1>2. ASSUME NEW h \in {"skip", "text"}, CallHelper(h)
      PROVE  TypeInv'
  <2>1. Leave(path) \in Seq(Index)
    BY LeaveProperties DEF TypeOK
  <2>2. <<>> \in Seq(Index)
    OBVIOUS
  <2>3. doc' = doc /\ Index' = Index
    BY <1>2 DEF CallHelper, Index
  <2>4. CASE pending
    BY <1>2, <2>1, <2>2, <2>3, <2>4 DEF CallHelper, TypeOK, attrVars, HelperRunning
  <2>5. CASE ~pending
    BY <1>2, <2>2, <2>3, <2>5 DEF CallHelper, TypeOK, attrVars, HelperRunning
  <2> QED
    BY <2>4, <2>5
<1>3. CASE HelperStep
  <2>1. ReaderTypeOK' /\ doc' = doc /\ Index' = Index
    BY <1>3, CallNextType, HelperStepCalls DEF Index
  <2>2. open' \in Nat /\ mode' \in {"app", "skip", "text"} /\ HelperRunning'
    BY <1>3 DEF HelperStep, HelperOpen, TypeOK, HelperRunning
  <2>3. acc' \in Seq(Index)
    <3>1. text' \in Index
      BY <2>1 DEF ReaderTypeOK
    <3>2. <<>> \in Seq(Index) /\ acc \in Seq(Index) /\ Append(acc, text') \in Seq(Index)
      BY <3>1 DEF TypeOK
    <3> QED
      BY <1>3, <3>2 DEF HelperStep
  <2>4. elem' \in Index
    BY <1>3 DEF HelperStep, TypeOK
  <2> QED
    BY <2>1, <2>2, <2>3, <2>4 DEF TypeOK, ReaderTypeOK
<1>4. CASE UNCHANGED vars
  BY <1>4 DEF vars, attrVars, helperVars, TypeOK, HelperRunning, Index
<1> QED
  BY <1>1, <1>2, <1>3, <1>4 DEF Next

\* The reader and its helpers are well typed in every state: no counter goes
\* below zero, no view points outside the input, no attribute outside the slots.
THEOREM TypeCorrect == Spec => []TypeOK
<1>1. TypeInv => TypeOK
  BY DEF TypeInv
<1> QED
  BY InitTypeInv, NextTypeInv, <1>1, PTL DEF Spec

-----------------------------------------------------------------------------
(***************************************************************************)
(* The safety invariants.  Three facts make them inductive: an EndElement  *)
(* is owed only between the StartElement of a self-closing tag and the     *)
(* next call; a reader that is done reports EndDocument; and a             *)
(* StartElement just delivered is the innermost open element.              *)
(***************************************************************************)

OwedEnd == pending => /\ started /\ event = "StartElement" /\ ret = "true"
                      /\ scName = eventAt /\ name = eventAt

DoneAtEnd == done => event = "EndDocument"

InnermostIsCurrent ==
  event = "StartElement" /\ ret = "true" => path # <<>> /\ path[Len(path)] = name

ReaderInv ==
  /\ DepthIsOpenElements /\ PayloadIsCurrent /\ AttrsFromOneTag
  /\ OwedEnd /\ DoneAtEnd /\ InnermostIsCurrent

IInv ==
  /\ TypeInv
  /\ ReaderInv
  /\ Strict => HelperStaysInside

\* A reader before its first call satisfies the invariant.
LEMMA InitIInv == Init => IInv
<1> SUFFICES ASSUME Init PROVE IInv
  OBVIOUS
<1>1. TypeInv
  BY InitTypeInv
<1>2. Len(doc) \in Nat
  BY TokenOfDoc DEF Init
<1>3. DepthIsOpenElements /\ OwedEnd /\ DoneAtEnd /\ InnermostIsCurrent
  BY DEF Init, DepthIsOpenElements, OwedEnd, DoneAtEnd, InnermostIsCurrent
<1>4. PayloadIsCurrent
  BY DEF Init, PayloadIsCurrent
<1>5. AttrsFromOneTag
  BY <1>2 DEF Init, AttrsFromOneTag, Index
<1>6. HelperStaysInside
  BY DEF Init, HelperStaysInside
<1> QED
  BY <1>1, <1>3, <1>4, <1>5, <1>6 DEF IInv, ReaderInv

\* depth_ follows the element path through every outcome of next().
LEMMA CallNextDepth ==
  ASSUME TypeOK, DepthIsOpenElements, CallNext
  PROVE  DepthIsOpenElements'
<1> USE DEF DepthIsOpenElements
<1>1. Len(path) \in Nat /\ depth \in Nat /\ (path = <<>> <=> Len(path) = 0)
  BY EmptySeq DEF TypeOK
<1>2. Len(Leave(path)) = IF path = <<>> THEN 0 ELSE Len(path) - 1
  BY LeaveProperties DEF TypeOK
<1>3. \A i \in Tokens : Len(Append(path, i)) = Len(path) + 1
  BY DEF TypeOK
<1>4. CASE AlreadyDone \/ EmitStartDocument \/ EmitResidue \/ Exhaust
  BY <1>4 DEF AlreadyDone, EmitStartDocument, EmitResidue, Exhaust
<1>5. CASE EmitPendingEnd
  BY <1>1, <1>2, <1>5 DEF EmitPendingEnd
<1>6. ASSUME NEW i \in Tokens, EmitStart(i)
      PROVE  DepthIsOpenElements'
  <2>1. CASE doc[i].kind = "empty"
    BY <1>1, <1>3, <1>6, <2>1 DEF EmitStart, DepthAfterStart, Scanning
  <2>2. CASE doc[i].kind # "empty"
    BY <1>1, <1>3, <1>6, <2>2 DEF EmitStart, DepthAfterStart, Scanning
  <2> QED
    BY <2>1, <2>2
<1>7. ASSUME NEW i \in Tokens, EmitEnd(i)
      PROVE  DepthIsOpenElements'
  BY <1>1, <1>2, <1>7 DEF EmitEnd, DepthAfterEnd, Scanning
<1>8. ASSUME NEW i \in Tokens, EmitContent(i) \/ Throw(i)
      PROVE  DepthIsOpenElements'
  BY <1>8 DEF EmitContent, Throw
<1> QED
  BY <1>4, <1>5, <1>6, <1>7, <1>8 DEF CallNext

\* A call of next() replaces the whole payload, or says that it did not.
LEMMA CallNextPayload ==
  ASSUME TypeOK, PayloadIsCurrent, OwedEnd, DoneAtEnd, CallNext
  PROVE  PayloadIsCurrent' /\ OwedEnd' /\ DoneAtEnd'
<1> USE DEF PayloadIsCurrent, OwedEnd, DoneAtEnd
<1>1. CASE AlreadyDone
  BY <1>1 DEF AlreadyDone, TypeOK
<1>2. CASE EmitStartDocument
  BY <1>2 DEF EmitStartDocument
<1>3. CASE EmitPendingEnd
  BY <1>3 DEF EmitPendingEnd
<1>4. CASE EmitResidue
  BY <1>4 DEF EmitResidue, Scanning
<1>5. ASSUME NEW i \in Tokens, EmitStart(i) \/ EmitEnd(i)
      PROVE  PayloadIsCurrent' /\ OwedEnd' /\ DoneAtEnd'
  BY <1>5 DEF EmitStart, EmitEnd, Scanning
<1>6. ASSUME NEW i \in Tokens, EmitContent(i)
      PROVE  PayloadIsCurrent' /\ OwedEnd' /\ DoneAtEnd'
  <2>1. doc[i].kind \in {"text", "cdata", "comment", "pi", "decl"}
    BY <1>6 DEF EmitContent, Visible, EventOf
  <2>2. /\ event' = EventOf[doc[i].kind] /\ text' = i /\ eventAt' = i
        /\ name' = IF doc[i].kind \in {"pi", "decl"} THEN i ELSE 0
        /\ piData' = IF doc[i].kind \in {"pi", "decl"} THEN i ELSE piData
        /\ ~pending' /\ ~done'
    BY <1>6 DEF EmitContent, ContentName, Scanning
  <2>3. CASE doc[i].kind = "pi"
    BY <2>2, <2>3 DEF EventOf
  <2>4. CASE doc[i].kind = "decl"
    BY <2>2, <2>4 DEF EventOf
  <2>5. CASE doc[i].kind \in {"text", "cdata", "comment"}
    BY <2>2, <2>5 DEF EventOf
  <2> QED
    BY <2>1, <2>3, <2>4, <2>5
<1>7. ASSUME NEW i \in Tokens, Throw(i)
      PROVE  PayloadIsCurrent' /\ OwedEnd' /\ DoneAtEnd'
  BY <1>7 DEF Throw, Scanning
<1>8. CASE Exhaust
  BY <1>8 DEF Exhaust, Scanning
<1> QED
  BY <1>1, <1>2, <1>3, <1>4, <1>5, <1>6, <1>7, <1>8 DEF CallNext

\* Only a tag changes the attributes, and it replaces all of them.
LEMMA CallNextAttrs ==
  ASSUME TypeOK, AttrsFromOneTag, DoneAtEnd, CallNext
  PROVE  AttrsFromOneTag'
<1>1. doc' = doc /\ Index' = Index /\ Len(doc) \in Nat /\ 0 \in Index
  BY CallNextType, TokenOfDoc DEF Index, TypeOK
<1>2. ASSUME ClearAttrs, event' # "StartElement"
      PROVE  AttrsFromOneTag'
  BY <1>1, <1>2 DEF ClearAttrs, AttrsFromOneTag
<1>3. CASE AlreadyDone
  BY <1>1, <1>3 DEF AlreadyDone, AttrsFromOneTag, attrVars, DoneAtEnd, AttrAt
<1>4. CASE EmitStartDocument \/ EmitPendingEnd \/ EmitResidue
  BY <1>2, <1>4 DEF EmitStartDocument, EmitPendingEnd, EmitResidue
<1>5. ASSUME NEW i \in Tokens, EmitStart(i)
      PROVE  AttrsFromOneTag'
  <2>1. nattrs' = doc[i].n /\ \A k \in 1 .. nattrs' : AttrAt(k)' = <<i, k>>
    BY <1>5, LoadAttrsProperties DEF EmitStart
  <2>2. i \in Index' /\ eventAt' = i /\ name' = i
    BY <1>1, <1>5 DEF EmitStart, Index, Tokens
  <2> QED
    BY <1>1, <2>1, <2>2 DEF AttrsFromOneTag
<1>6. ASSUME NEW i \in Tokens, EmitEnd(i)
      PROVE  AttrsFromOneTag'
  BY <1>2, <1>6 DEF EmitEnd
<1>7. ASSUME NEW i \in Tokens, EmitContent(i)
      PROVE  AttrsFromOneTag'
  BY <1>2, <1>7 DEF EmitContent, Visible, EventOf
<1>8. ASSUME NEW i \in Tokens, Throw(i)
      PROVE  AttrsFromOneTag'
  <2>1. ret' = "throw"
    BY <1>8 DEF Throw
  <2>2. CASE doc[i].kind = "badstart"
    <3>1. \A k \in 1 .. nattrs' : AttrAt(k)' = <<i, k>>
      BY <1>8, <2>2, LoadAttrsProperties DEF Throw
    <3>2. i \in Index'
      BY <1>1 DEF Index, Tokens
    <3> QED
      BY <2>1, <3>1, <3>2 DEF AttrsFromOneTag
  <2>3. CASE doc[i].kind # "badstart"
    BY <1>1, <1>8, <2>1, <2>3 DEF Throw, attrVars, AttrsFromOneTag, AttrAt
  <2> QED
    BY <2>2, <2>3
<1>9. CASE Exhaust
  BY <1>1, <1>9 DEF Exhaust, attrVars, AttrsFromOneTag, AttrAt
<1> QED
  BY <1>3, <1>4, <1>5, <1>6, <1>7, <1>8, <1>9 DEF CallNext

\* A StartElement delivered by next() is the innermost open element.
LEMMA CallNextInnermost ==
  ASSUME TypeOK, InnermostIsCurrent, CallNext
  PROVE  InnermostIsCurrent'
<1> USE DEF InnermostIsCurrent
<1>1. CASE AlreadyDone \/ EmitStartDocument \/ EmitPendingEnd \/ EmitResidue \/ Exhaust
  BY <1>1 DEF AlreadyDone, EmitStartDocument, EmitPendingEnd, EmitResidue, Exhaust
<1>2. ASSUME NEW i \in Tokens, EmitStart(i)
      PROVE  InnermostIsCurrent'
  <2>1. path' = Append(path, i) /\ name' = i /\ path \in Seq(Index)
    BY <1>2 DEF EmitStart, TypeOK
  <2>2. Len(path') = Len(path) + 1 /\ path'[Len(path')] = i /\ path' # <<>>
    BY <2>1
  <2> QED
    BY <2>1, <2>2
<1>3. ASSUME NEW i \in Tokens, EmitEnd(i) \/ EmitContent(i) \/ Throw(i)
      PROVE  InnermostIsCurrent'
  BY <1>3 DEF EmitEnd, EmitContent, Throw, Visible, EventOf
<1> QED
  BY <1>1, <1>2, <1>3 DEF CallNext

\* One iteration of a helper's loop keeps the helper inside its element.
LEMMA HelperStepInside ==
  ASSUME TypeInv, HelperStaysInside, HelperStep
  PROVE  HelperStaysInside'
<1> USE DEF HelperStaysInside
<1>1. /\ mode # "app" /\ elem' = elem
      /\ open \in 1 .. Len(path) /\ path[Len(path) - open + 1] = elem
      /\ path \in Seq(Index) /\ Len(path) \in Nat
  BY DEF HelperStep, TypeInv, TypeOK
<1>2. path # <<>>
  BY <1>1
<1>3. CASE mode' = "app"
  BY <1>3
<1>4. CASE mode' # "app"
  <2>1. open' = HelperOpen /\ HelperOpen # 0
    BY <1>1, <1>4 DEF HelperStep
  <2>2. CASE EmitPendingEnd \/ \E i \in Tokens : EmitEnd(i)
    <3>1. path' = Leave(path) /\ event' = "EndElement"
      BY <2>2 DEF EmitPendingEnd, EmitEnd
    <3>2. /\ Len(path') = Len(path) - 1
          /\ \A k \in 1 .. Len(path') : path'[k] = path[k]
      BY <1>1, <1>2, <3>1, LeaveProperties
    <3>3. open' = open - 1
      BY <2>1, <3>1 DEF HelperOpen
    <3> QED
      BY <1>1, <2>1, <3>2, <3>3
  <2>3. ASSUME NEW i \in Tokens, EmitStart(i)
        PROVE  HelperStaysInside'
    <3>1. path' = Append(path, i) /\ event' = "StartElement"
      BY <2>3 DEF EmitStart
    <3>2. /\ Len(path') = Len(path) + 1
          /\ \A k \in 1 .. Len(path) : path'[k] = path[k]
      BY <1>1, <3>1
    <3>3. open' = open + 1
      BY <2>1, <3>1 DEF HelperOpen
    <3> QED
      BY <1>1, <3>2, <3>3
  <2>4. ASSUME EmitResidue \/ \E i \in Tokens : EmitContent(i)
        PROVE  HelperStaysInside'
    <3>1. path' = path /\ event' \notin {"StartElement", "EndElement"}
      BY <2>4 DEF EmitResidue, EmitContent, Visible, EventOf
    <3> QED
      BY <1>1, <2>1, <3>1 DEF HelperOpen
  <2> QED
    BY <1>4, <2>2, <2>3, <2>4 DEF HelperStep
<1> QED
  BY <1>3, <1>4

\* All parts of ReaderInv, over a call of next().
LEMMA CallNextReaderInv ==
  ASSUME TypeOK, ReaderInv, CallNext
  PROVE  ReaderInv'
BY CallNextDepth, CallNextPayload, CallNextAttrs, CallNextInnermost DEF ReaderInv

\* A call of a helper, also one that returns at once, keeps the invariant.
LEMMA CallHelperIInv ==
  ASSUME TypeInv, ReaderInv, NEW h \in {"skip", "text"}, CallHelper(h)
  PROVE  ReaderInv' /\ (Strict /\ mode = "app" => HelperStaysInside')
<1> USE DEF TypeInv
<1>1. path \in Seq(Index) /\ Len(path) \in Nat /\ Index' = Index
  BY DEF TypeOK, CallHelper, Index
<1>2. \A k : AttrAt(k)' = AttrAt(k)
  BY DEF CallHelper, attrVars, AttrAt
<1>3. CASE pending
  <2>1. /\ event = "StartElement" /\ ret = "true" /\ ret' = "helper" /\ ~pending'
        /\ mode' = "app" /\ path' = Leave(path)
    BY <1>3 DEF CallHelper, ReaderInv, OwedEnd
  <2>2. depth = Len(path) - 1 /\ path # <<>> /\ Len(Leave(path)) = Len(path) - 1
    BY <1>1, <1>3, <2>1, LeaveProperties
       DEF ReaderInv, DepthIsOpenElements, InnermostIsCurrent
  <2>3. DepthIsOpenElements'
    BY <1>1, <2>1, <2>2 DEF CallHelper, DepthIsOpenElements
  <2>4. PayloadIsCurrent' /\ OwedEnd' /\ DoneAtEnd' /\ InnermostIsCurrent'
    BY <2>1 DEF CallHelper, ReaderInv, PayloadIsCurrent, OwedEnd, DoneAtEnd, InnermostIsCurrent
  <2>5. AttrsFromOneTag'
    BY <1>1, <1>2, <2>1 DEF CallHelper, attrVars, ReaderInv, AttrsFromOneTag
  <2> QED
    BY <2>1, <2>3, <2>4, <2>5 DEF ReaderInv, HelperStaysInside
<1>4. CASE ~pending
  <2>1. /\ UNCHANGED <<path, depth, pending, ret, event, eventAt, name, text, piData,
                      started, done, scName, nattrs, doc>>
        /\ event = "StartElement" /\ open' = 1 /\ elem' = name
        /\ Strict => ret = "true"
    BY <1>4 DEF CallHelper, attrVars
  <2>2. DepthIsOpenElements' /\ PayloadIsCurrent' /\ OwedEnd' /\ DoneAtEnd' /\ InnermostIsCurrent'
    BY <2>1 DEF ReaderInv, DepthIsOpenElements, PayloadIsCurrent, OwedEnd, DoneAtEnd,
                InnermostIsCurrent
  <2>3. AttrsFromOneTag'
    BY <1>1, <1>2, <2>1 DEF ReaderInv, AttrsFromOneTag
  <2>4. Strict => HelperStaysInside'
    <3>1. Strict => path # <<>> /\ path[Len(path)] = name
      BY <2>1 DEF ReaderInv, InnermostIsCurrent
    <3>2. path # <<>> => Len(path) \in 1 .. Len(path) /\ 1 \in 1 .. Len(path)
      BY <1>1, EmptySeq
    <3> QED
      BY <1>1, <2>1, <3>1, <3>2 DEF HelperStaysInside
  <2> QED
    BY <2>2, <2>3, <2>4 DEF ReaderInv
<1> QED
  BY <1>3, <1>4

\* Every step keeps the invariant.
LEMMA NextIInv == IInv /\ [Next]_vars => IInv'
<1> SUFFICES ASSUME IInv, [Next]_vars PROVE IInv'
  OBVIOUS
<1>1. TypeInv' /\ TypeInv /\ TypeOK /\ ReaderInv
  BY NextTypeInv DEF IInv, TypeInv
<1>2. CASE AppNext
  <2>1. ReaderInv'
    BY <1>1, <1>2, CallNextReaderInv DEF AppNext
  <2>2. HelperStaysInside'
    BY <1>2 DEF AppNext, HelperStaysInside
  <2> QED
    BY <1>1, <2>1, <2>2 DEF IInv
<1>3. ASSUME NEW h \in {"skip", "text"}, CallHelper(h)
      PROVE  IInv'
  <2>1. mode = "app"
    BY <1>3 DEF CallHelper
  <2>2. Strict' = Strict
    OBVIOUS
  <2> QED
    BY <1>1, <1>3, <2>1, <2>2, CallHelperIInv DEF IInv
<1>4. CASE HelperStep
  <2>1. ReaderInv'
    BY <1>1, <1>4, CallNextReaderInv, HelperStepCalls
  <2>2. Strict => HelperStaysInside'
    BY <1>1, <1>4, HelperStepInside DEF IInv
  <2> QED
    BY <1>1, <2>1, <2>2 DEF IInv
<1>5. CASE UNCHANGED vars
  <2>1. Index' = Index /\ \A k : AttrAt(k)' = AttrAt(k)
    BY <1>5 DEF vars, attrVars, Index, AttrAt
  <2>2. ReaderInv'
    BY <1>1, <1>5, <2>1 DEF vars, attrVars, ReaderInv, DepthIsOpenElements, PayloadIsCurrent,
         AttrsFromOneTag, OwedEnd, DoneAtEnd, InnermostIsCurrent
  <2>3. Strict => HelperStaysInside'
    BY <1>5 DEF vars, helperVars, IInv, HelperStaysInside
  <2> QED
    BY <1>1, <2>2, <2>3 DEF IInv
<1> QED
  BY <1>2, <1>3, <1>4, <1>5 DEF Next

\* The invariant holds throughout.
LEMMA IInvHolds == Spec => []IInv
BY InitIInv, NextIInv, PTL DEF Spec

\* depth() is the number of open elements, whatever the input and whatever the
\* order in which next(), skip_element() and read_element_text() are called.
THEOREM DepthCorrect == Spec => []DepthIsOpenElements
<1>1. IInv => DepthIsOpenElements
  BY DEF IInv, ReaderInv
<1> QED
  BY <1>1, IInvHolds, PTL

\* The accessors never report a mixture of two events.
THEOREM PayloadCorrect == Spec => []PayloadIsCurrent
<1>1. IInv => PayloadIsCurrent
  BY DEF IInv, ReaderInv
<1> QED
  BY <1>1, IInvHolds, PTL

\* The attribute accessors never mix two tags, for every number of inline slots.
THEOREM AttrsCorrect == Spec => []AttrsFromOneTag
<1>1. IInv => AttrsFromOneTag
  BY DEF IInv, ReaderInv
<1> QED
  BY <1>1, IInvHolds, PTL

\* A helper called on a StartElement just delivered never leaves that element
\* before it returns.
THEOREM HelperCorrect == Strict => (Spec => []HelperStaysInside)
<1>1. Strict /\ IInv => HelperStaysInside
  BY DEF IInv
<1>2. CASE Strict
  <2>1. IInv => HelperStaysInside
    BY <1>1, <1>2
  <2> QED
    BY <2>1, IInvHolds, PTL
<1> QED
  BY <1>2

-----------------------------------------------------------------------------
(***************************************************************************)
(* The events of an input: what each token adds to the stream, and where.  *)
(***************************************************************************)

Pair == Cursor!EventKinds \X Nat

\* A token adds two events if it is self-closing or leaves a residue, none if it
\* is invisible, and else one.
LEMMA EventsOfToken ==
  ASSUME doc \in Docs, NEW i \in Tokens
  PROVE  /\ EventsOf(doc, i) \in Seq(Pair)
         /\ Len(EventsOf(doc, i)) =
              IF doc[i].kind = "empty" \/ (doc[i].kind \in Bad /\ doc[i].residue) THEN 2
              ELSE IF doc[i].kind \in {"doctype", "unterminated"} THEN 0 ELSE 1
         /\ \A m \in 1 .. Len(EventsOf(doc, i)) : EventsOf(doc, i)[m][2] = i
         /\ doc[i].kind \in {"start", "empty"} => EventsOf(doc, i)[1][1] = "S"
         /\ doc[i].kind = "empty" => EventsOf(doc, i)[2][1] = "E"
         /\ doc[i].kind = "end" => EventsOf(doc, i)[1][1] = "E"
         /\ doc[i].kind \in {"text", "cdata"} => EventsOf(doc, i)[1][1] = "T"
         /\ doc[i].kind \in {"comment", "pi", "decl"} => EventsOf(doc, i)[1][1] = "O"
         /\ doc[i].kind \in Bad => EventsOf(doc, i)[1][1] = "F"
         /\ doc[i].kind \in Bad /\ doc[i].residue => EventsOf(doc, i)[2][1] = "T"
<1>1. doc[i].kind \in Kinds /\ doc[i].residue \in BOOLEAN /\ i \in Nat /\ i # 0
  BY TokenOfDoc DEF Tokens
<1>2. \A k \in {"D", "S", "E", "T", "O", "F"} : <<k, i>> \in Pair
  BY <1>1 DEF Pair, Cursor!EventKinds
<1> HIDE DEF Pair
<1>3. ASSUME NEW k \in {"D", "S", "E", "T", "O", "F"}
      PROVE  <<<<k, i>>>> \in Seq(Pair) /\ Len(<<<<k, i>>>>) = 1 /\ <<<<k, i>>>>[1] = <<k, i>>
  <2> DEFINE e == <<k, i>>
  <2>1. e \in Pair
    BY <1>2
  <2> HIDE DEF e
  <2>2. <<e>> \in Seq(Pair) /\ Len(<<e>>) = 1 /\ <<e>>[1] = e
    BY <2>1
  <2> QED  BY <2>2 DEF e
<1>4. ASSUME NEW k \in {"D", "S", "E", "T", "O", "F"}, NEW l \in {"D", "S", "E", "T", "O", "F"}
      PROVE  /\ <<<<k, i>>, <<l, i>>>> \in Seq(Pair) /\ Len(<<<<k, i>>, <<l, i>>>>) = 2
             /\ <<<<k, i>>, <<l, i>>>>[1] = <<k, i>> /\ <<<<k, i>>, <<l, i>>>>[2] = <<l, i>>
  <2> DEFINE e == <<k, i>>
             g == <<l, i>>
  <2>1. e \in Pair /\ g \in Pair
    BY <1>2
  <2> HIDE DEF e, g
  <2>2. <<e, g>> \in Seq(Pair) /\ Len(<<e, g>>) = 2 /\ <<e, g>>[1] = e /\ <<e, g>>[2] = g
    BY <2>1
  <2> QED  BY <2>2 DEF e, g
<1>5. /\ <<>> \in Seq(Pair) /\ Len(<<>>) = 0
  OBVIOUS
<1> DEFINE ev == EventsOf(doc, i)
           kind == doc[i].kind
<1>6. CASE kind = "start"
  <2>1. ev = <<<<"S", i>>>>
    BY <1>1, <1>6 DEF EventsOf, Bad
  <2> HIDE DEF ev
  <2>2. ev \in Seq(Pair) /\ Len(ev) = 1 /\ ev[1] = <<"S", i>>
    BY <2>1, <1>3
  <2>3. \A m \in 1 .. Len(ev) : ev[m][2] = i
    BY <2>2
  <2> QED  BY <2>2, <2>3, <1>6 DEF Bad, ev
<1>7. CASE kind = "empty"
  <2>1. ev = <<<<"S", i>>, <<"E", i>>>>
    BY <1>1, <1>7 DEF EventsOf, Bad
  <2> HIDE DEF ev
  <2>2. ev \in Seq(Pair) /\ Len(ev) = 2 /\ ev[1] = <<"S", i>> /\ ev[2] = <<"E", i>>
    BY <2>1, <1>4
  <2>3. \A m \in 1 .. Len(ev) : ev[m][2] = i
    BY <2>2
  <2> QED  BY <2>2, <2>3, <1>7 DEF Bad, ev
<1>8. CASE kind = "end"
  <2>1. ev = <<<<"E", i>>>>
    BY <1>1, <1>8 DEF EventsOf, Bad
  <2> HIDE DEF ev
  <2>2. ev \in Seq(Pair) /\ Len(ev) = 1 /\ ev[1] = <<"E", i>>
    BY <2>1, <1>3
  <2>3. \A m \in 1 .. Len(ev) : ev[m][2] = i
    BY <2>2
  <2> QED  BY <2>2, <2>3, <1>8 DEF Bad, ev
<1>9. CASE kind \in {"text", "cdata"}
  <2>1. ev = <<<<"T", i>>>>
    BY <1>1, <1>9 DEF EventsOf, Bad
  <2> HIDE DEF ev
  <2>2. ev \in Seq(Pair) /\ Len(ev) = 1 /\ ev[1] = <<"T", i>>
    BY <2>1, <1>3
  <2>3. \A m \in 1 .. Len(ev) : ev[m][2] = i
    BY <2>2
  <2> QED  BY <2>2, <2>3, <1>9 DEF Bad, ev
<1>10. CASE kind \in {"comment", "pi", "decl"}
  <2>1. ev = <<<<"O", i>>>>
    BY <1>1, <1>10 DEF EventsOf, Bad
  <2> HIDE DEF ev
  <2>2. ev \in Seq(Pair) /\ Len(ev) = 1 /\ ev[1] = <<"O", i>>
    BY <2>1, <1>3
  <2>3. \A m \in 1 .. Len(ev) : ev[m][2] = i
    BY <2>2
  <2> QED  BY <2>2, <2>3, <1>10 DEF Bad, ev
<1>11. CASE kind \in Bad /\ doc[i].residue
  <2>1. ev = <<<<"F", i>>, <<"T", i>>>>
    BY <1>1, <1>11 DEF EventsOf, Bad
  <2> HIDE DEF ev
  <2>2. ev \in Seq(Pair) /\ Len(ev) = 2 /\ ev[1] = <<"F", i>> /\ ev[2] = <<"T", i>>
    BY <2>1, <1>4
  <2>3. \A m \in 1 .. Len(ev) : ev[m][2] = i
    BY <2>2
  <2> QED  BY <2>2, <2>3, <1>11 DEF Bad, ev
<1>12. CASE kind \in Bad /\ ~doc[i].residue
  <2>1. ev = <<<<"F", i>>>>
    BY <1>1, <1>12 DEF EventsOf, Bad
  <2> HIDE DEF ev
  <2>2. ev \in Seq(Pair) /\ Len(ev) = 1 /\ ev[1] = <<"F", i>>
    BY <2>1, <1>3
  <2>3. \A m \in 1 .. Len(ev) : ev[m][2] = i
    BY <2>2
  <2> QED  BY <2>2, <2>3, <1>12 DEF Bad, ev
<1>13. CASE kind \in {"doctype", "unterminated"}
  <2>1. ev = <<>>
    BY <1>1, <1>13 DEF EventsOf, Bad
  <2> HIDE DEF ev
  <2>2. ev \in Seq(Pair) /\ Len(ev) = 0
    BY <2>1, <1>5
  <2> QED  BY <2>2, <1>13 DEF Bad, ev
<1> QED  BY <1>1, <1>6, <1>7, <1>8, <1>9, <1>10, <1>11, <1>12, <1>13 DEF Kinds, Bad

\* The stream begins with StartDocument, each token appends its events, and what
\* is read so far begins the whole.
LEMMA StreamGrows ==
  ASSUME doc \in Docs
  PROVE  /\ \A n \in 0 .. Len(doc) : Stream(doc, n) \in Seq(Pair) /\ Begins(Stream(doc, n), AllEvents)
         /\ Stream(doc, 0) = <<<<"D", 0>>>>
         /\ \A n \in 1 .. Len(doc) : Stream(doc, n) = Stream(doc, n - 1) \o EventsOf(doc, n)
<1> DEFINE L == Len(doc)
           ss == [i \in 1 .. L + 1 |-> EventsOf(doc, i - 1)]
           start == <<<<"D", 0>>>>
<1>1. L \in Nat
  BY TokenOfDoc
<1>2. start \in Seq(Pair) /\ EventsOf(doc, 0) = start
  <2> DEFINE e == <<"D", 0>>
  <2>1. e \in Pair
    BY DEF Pair, Cursor!EventKinds
  <2> HIDE DEF e, Pair
  <2>2. <<e>> \in Seq(Pair)
    BY <2>1
  <2> QED  BY <2>2 DEF e, EventsOf
<1>3. ASSUME NEW i \in 0 .. L PROVE EventsOf(doc, i) \in Seq(Pair)
  <2>1. CASE i = 0
    BY <2>1, <1>2
  <2>2. CASE i # 0
    <3>1. i \in Tokens
      BY <2>2, <1>1 DEF Tokens
    <3> QED  BY <3>1, EventsOfToken
  <2> QED  BY <2>1, <2>2
<1> DEFINE V == Seq(Pair)
<1> HIDE DEF start, V
<1>4. ss \in Seq(V) /\ Len(ss) = L + 1 /\ \A i \in 1 .. L + 1 : ss[i] = EventsOf(doc, i - 1)
  <2>1. \A i \in 1 .. L + 1 : EventsOf(doc, i - 1) \in V
    <3>1. \A i \in 1 .. L + 1 : i - 1 \in 0 .. L
      BY <1>1
    <3> QED  BY <3>1, <1>3 DEF V
  <2>2. L + 1 \in Nat
    BY <1>1
  <2> HIDE DEF L
  <2>3. ss \in [1 .. L + 1 -> V]
    BY <2>1
  <2>4. ss \in Seq(V)
    BY <2>2, <2>3, SeqDef
  <2> QED  BY <2>2, <2>3, <2>4, LenProperties
<1>5. ASSUME NEW n \in 0 .. L PROVE Stream(doc, n) = Part(ss, n + 1)
  <2>1. \A i \in 1 .. n + 1 : i \in 1 .. L + 1
    BY <1>1
  <2>2. [i \in 1 .. n + 1 |-> ss[i]] = [i \in 1 .. n + 1 |-> EventsOf(doc, i - 1)]
    BY <2>1, <1>4
  <2> QED  BY <2>2 DEF Stream, Part
<1> HIDE DEF ss
<1>6. ss \in Seq(Seq(Pair))
  BY <1>4 DEF V
<1>7. /\ Part(ss, 0) = <<>> /\ Part(ss, L + 1) = FlattenSeq(ss)
      /\ \A n \in 0 .. L + 1 : Part(ss, n) \in Seq(Pair) /\ Begins(Part(ss, n), FlattenSeq(ss))
      /\ \A n \in 0 .. L : Part(ss, n + 1) = Part(ss, n) \o ss[n + 1]
  <2>1. (L + 1) - 1 = L
    BY <1>1
  <2> HIDE DEF L
  <2> QED  BY <2>1, <1>4, <1>6, PartNext, PartBegins
<1>8. AllEvents = FlattenSeq(ss)
  BY <1>1, <1>5, <1>7 DEF AllEvents
<1>9. ASSUME NEW n \in 0 .. L
      PROVE  Stream(doc, n) \in Seq(Pair) /\ Begins(Stream(doc, n), AllEvents)
  <2>1. n + 1 \in 0 .. L + 1
    BY <1>1
  <2> QED  BY <2>1, <1>5, <1>7, <1>8
<1>10. Stream(doc, 0) = start
  <2>1. 0 \in 0 .. L /\ 1 \in 1 .. L + 1 /\ 0 + 1 = 1 /\ 1 - 1 = 0
    BY <1>1
  <2>2. Stream(doc, 0) = Part(ss, 0) \o ss[1]
    BY <2>1, <1>5, <1>7
  <2>3. ss[1] = start
    BY <2>1, <1>2, <1>4
  <2> QED  BY <2>2, <2>3, <1>2, <1>7
<1>11. ASSUME NEW n \in 1 .. L PROVE Stream(doc, n) = Stream(doc, n - 1) \o EventsOf(doc, n)
  <2>1. n \in 0 .. L /\ n - 1 \in 0 .. L /\ (n - 1) + 1 = n /\ n + 1 \in 1 .. L + 1 /\ (n + 1) - 1 = n
    BY <1>1
  <2>2. Stream(doc, n) = Part(ss, n + 1) /\ Stream(doc, n - 1) = Part(ss, n)
    BY <2>1, <1>5
  <2>3. Part(ss, n + 1) = Part(ss, n) \o ss[n + 1] /\ ss[n + 1] = EventsOf(doc, n)
    BY <2>1, <1>4, <1>7
  <2> QED  BY <2>2, <2>3
<1> QED  BY <1>9, <1>10, <1>11 DEF start

\* Where the events of a token are among those of the input.
LEMMA EventsAt ==
  ASSUME doc \in Docs
  PROVE  /\ AllEvents \in Seq(Pair) /\ Len(AllEvents) \in Nat
         /\ EventsTo(0) = 1 /\ EventsTo(Len(doc)) = Len(AllEvents)
         /\ \A n \in 0 .. Len(doc) : EventsTo(n) \in Nat /\ EventsTo(n) <= Len(AllEvents)
         /\ \A i \in Tokens :
              /\ EventsTo(i) = EventsTo(i - 1) + Len(EventsOf(doc, i))
              /\ \A m \in 1 .. Len(EventsOf(doc, i)) :
                   AllEvents[EventsTo(i - 1) + m] = EventsOf(doc, i)[m]
<1>1. Len(doc) \in Nat
  BY TokenOfDoc
<1>2. AllEvents \in Seq(Pair) /\ Len(AllEvents) \in Nat
  <2>1. Len(doc) \in 0 .. Len(doc)
    BY <1>1
  <2>2. AllEvents \in Seq(Pair)
    BY <2>1, StreamGrows DEF AllEvents
  <2> QED  BY <2>2, LenProperties
<1>3. EventsTo(0) = 1 /\ EventsTo(Len(doc)) = Len(AllEvents)
  BY StreamGrows DEF EventsTo, AllEvents
<1>4. ASSUME NEW n \in 0 .. Len(doc) PROVE EventsTo(n) \in Nat /\ EventsTo(n) <= Len(AllEvents)
  <2>1. Stream(doc, n) \in Seq(Pair) /\ Begins(Stream(doc, n), AllEvents)
    BY StreamGrows
  <2> QED  BY <2>1, LenProperties DEF EventsTo, Begins
<1>5. ASSUME NEW i \in Tokens
      PROVE  /\ EventsTo(i) = EventsTo(i - 1) + Len(EventsOf(doc, i))
             /\ \A m \in 1 .. Len(EventsOf(doc, i)) :
                  AllEvents[EventsTo(i - 1) + m] = EventsOf(doc, i)[m]
  <2> DEFINE s == Stream(doc, i - 1)
             t == EventsOf(doc, i)
             r == Stream(doc, i)
  <2>1. i \in 1 .. Len(doc) /\ i \in 0 .. Len(doc) /\ i - 1 \in 0 .. Len(doc)
    BY <1>1 DEF Tokens
  <2>2. s \in Seq(Pair) /\ t \in Seq(Pair) /\ r = s \o t /\ Begins(r, AllEvents)
    BY <2>1, StreamGrows, EventsOfToken
  <2> HIDE DEF s, t, r
  <2>3. /\ Len(s) \in Nat /\ Len(t) \in Nat /\ Len(r) = Len(s) + Len(t)
        /\ \A m \in 1 .. Len(t) : r[Len(s) + m] = t[m]
    BY <2>2
  <2>4. ASSUME NEW m \in 1 .. Len(t) PROVE AllEvents[Len(s) + m] = t[m]
    <3>1. Len(s) + m \in 1 .. Len(r)
      BY <2>3
    <3> QED  BY <2>2, <2>3, <3>1 DEF Begins
  <2> QED  BY <2>3, <2>4 DEF s, t, r, EventsTo
<1> QED  BY <1>2, <1>3, <1>4, <1>5

\* Tokens without events do not move the cursor.
LEMMA SkipsUnseen ==
  ASSUME doc \in Docs, NEW p \in 1 .. Len(doc) + 1, NEW i \in p - 1 .. Len(doc),
         \A j \in p .. i : doc[j].kind \in {"doctype", "unterminated"}
  PROVE  EventsTo(i) = EventsTo(p - 1)
<1> DEFINE n == i - (p - 1)
           S == {k \in 0 .. n : EventsTo((p - 1) + k) = EventsTo(p - 1)}
<1>1. Len(doc) \in Nat /\ n \in Nat /\ (p - 1) + n = i /\ (p - 1) + 0 = p - 1
  BY TokenOfDoc
<1>2. 0 \in S
  BY <1>1
<1>3. ASSUME NEW k \in 0 .. n - 1, k \in S PROVE k + 1 \in S
  <2> DEFINE j == (p - 1) + (k + 1)
  <2>1. j \in Tokens /\ j \in p .. i /\ j - 1 = (p - 1) + k /\ k + 1 \in 0 .. n
    BY <1>1 DEF Tokens
  <2>2. EventsTo(j - 1) = EventsTo(p - 1)
    BY <1>3, <2>1
  <2> HIDE DEF j
  <2>3. doc[j].kind \in {"doctype", "unterminated"}
    BY <2>1
  <2>4. Len(EventsOf(doc, j)) = 0
    BY <2>1, <2>3, EventsOfToken DEF Bad
  <2>5. EventsTo(j) = EventsTo(j - 1) + Len(EventsOf(doc, j))
    BY <2>1, EventsAt
  <2>6. EventsTo(j - 1) \in Nat
    <3>1. j - 1 \in 0 .. Len(doc)
      BY <1>1, <2>1 DEF Tokens
    <3> QED  BY <3>1, EventsAt
  <2>7. EventsTo(j) = EventsTo(p - 1)
    BY <2>2, <2>4, <2>5, <2>6
  <2> QED  BY <2>1, <2>7 DEF j
<1>4. n \in S
  <2> HIDE DEF S, n
  <2>1. n \in 0 .. n
    BY <1>1
  <2> QED  BY <1>1, <1>2, <1>3, <2>1, CountsTo
<1> QED  BY <1>1, <1>4

\* When next() stops at token i, that token's events come right after those consumed.
LEMMA NextEvents ==
  ASSUME TypeOK, NEW i \in Tokens, StopsAt(i), ~pending, ~residue
  PROVE  /\ Consumed \in Nat /\ EventsTo(i) = Consumed + Len(EventsOf(doc, i))
         /\ EventsTo(i) <= Len(AllEvents)
         /\ \A m \in 1 .. Len(EventsOf(doc, i)) : AllEvents[Consumed + m] = EventsOf(doc, i)[m]
<1>1. doc \in Docs /\ Len(doc) \in Nat /\ pos \in 1 .. Len(doc) + 1 /\ i \in pos .. Len(doc)
  BY TokenOfDoc DEF TypeOK, StopsAt
<1>2. i - 1 \in pos - 1 .. Len(doc) /\ i - 1 \in 0 .. Len(doc) /\ i \in 0 .. Len(doc)
  BY <1>1
<1>3. EventsTo(i - 1) = EventsTo(pos - 1)
  <2>1. \A j \in pos .. i - 1 : doc[j].kind \in {"doctype", "unterminated"}
    BY DEF StopsAt
  <2> QED  BY <1>1, <1>2, <2>1, SkipsUnseen
<1>4. EventsTo(i - 1) \in Nat /\ EventsTo(i) <= Len(AllEvents)
  BY <1>1, <1>2, EventsAt
<1>5. Consumed = EventsTo(i - 1)
  BY <1>3, <1>4 DEF Consumed
<1> QED  BY <1>1, <1>4, <1>5, EventsAt

\* When it runs out of input, all events are consumed.
LEMMA NoEventsLeft ==
  ASSUME TypeOK, RunsOut, ~pending, ~residue
  PROVE  Consumed = Len(AllEvents)
<1>1. doc \in Docs /\ Len(doc) \in Nat /\ pos \in 1 .. Len(doc) + 1
  BY TokenOfDoc DEF TypeOK
<1>2. \A j \in pos .. Len(doc) : doc[j].kind \in {"doctype", "unterminated"}
  <2>1. CASE \A j \in pos .. Len(doc) : doc[j].kind = "doctype"
    BY <2>1
  <2>2. ASSUME NEW i \in Tokens, StopsAt(i), doc[i].kind = "unterminated"
        PROVE  \A j \in pos .. Len(doc) : doc[j].kind \in {"doctype", "unterminated"}
    <3>1. WellLexed(doc)
      BY <1>1, DocsAssumption
    <3>2. i = Len(doc)
      <4>1. i \notin 1 .. Len(doc) - 1
        BY <2>2, <3>1 DEF WellLexed
      <4> QED  BY <4>1, <1>1 DEF Tokens
    <3>3. \A j \in pos .. Len(doc) : j = i \/ j \in pos .. i - 1
      BY <3>2, <1>1
    <3> QED  BY <2>2, <3>3 DEF StopsAt
  <2> QED  BY <2>1, <2>2 DEF RunsOut
<1>3. Len(doc) \in pos - 1 .. Len(doc)
  BY <1>1
<1>4. EventsTo(Len(doc)) = EventsTo(pos - 1)
  BY <1>1, <1>2, <1>3, SkipsUnseen
<1>5. EventsTo(Len(doc)) = Len(AllEvents) /\ Len(AllEvents) \in Nat
  BY <1>1, EventsAt
<1> QED  BY <1>4, <1>5 DEF Consumed

-----------------------------------------------------------------------------
(***************************************************************************)
(* The reader's place among the events.  An owed EndElement and a residue  *)
(* are the second event of the token before pos_, and a StartElement just  *)
(* delivered is the first.                                                 *)
(***************************************************************************)

ReaderAt ==
  /\ ~started => pos = 1 /\ ~pending /\ ~residue /\ ~done /\ event # "StartElement"
  /\ pending => pos - 1 \in Tokens /\ doc[pos - 1].kind = "empty"
  /\ residue => pos - 1 \in Tokens /\ doc[pos - 1].kind \in Bad /\ doc[pos - 1].residue
  /\ done => pos = Len(doc) + 1 /\ ~pending /\ ~residue
  /\ event = "StartElement" /\ ret = "true" =>
       /\ pos - 1 \in Tokens /\ name = pos - 1 /\ ~residue /\ ~done
       /\ doc[pos - 1].kind = IF pending THEN "empty" ELSE "start"

\* Every outcome of next() keeps that.
LEMMA CallNextAt ==
  ASSUME TypeOK, ReaderAt, CallNext
  PROVE  ReaderAt'
<1>1. doc \in Docs /\ Len(doc) \in Nat /\ pos \in 1 .. Len(doc) + 1
      /\ \A i \in Tokens : (i + 1) - 1 = i /\ doc[i].residue \in BOOLEAN
  BY TokenOfDoc DEF TypeOK, Tokens
<1>2. CASE AlreadyDone
  BY <1>2 DEF AlreadyDone, ReaderAt, Tokens
<1>3. CASE EmitStartDocument
  BY <1>3 DEF EmitStartDocument, ReaderAt, Tokens
<1>4. CASE EmitPendingEnd
  BY <1>4 DEF EmitPendingEnd, ReaderAt, Tokens
<1>5. CASE EmitResidue
  BY <1>5 DEF EmitResidue, Scanning, ReaderAt, Tokens
<1>6. ASSUME NEW i \in Tokens, EmitStart(i) PROVE ReaderAt'
  <2>1. /\ pos' - 1 = i /\ doc' = doc /\ ~residue' /\ ~done' /\ started' /\ name' = i
        /\ Tokens' = Tokens /\ ~pending
    BY <1>1, <1>6 DEF EmitStart, After, Scanning, Tokens
  <2>2. doc[i].kind = IF pending' THEN "empty" ELSE "start"
    BY <1>6, <2>1 DEF EmitStart
  <2> QED  BY <2>1, <2>2 DEF ReaderAt
<1>7. ASSUME NEW i \in Tokens, EmitEnd(i) \/ EmitContent(i) PROVE ReaderAt'
  <2>1. ~pending' /\ ~residue' /\ ~done' /\ started' /\ event' # "StartElement"
    BY <1>7 DEF EmitEnd, EmitContent, Scanning, Visible, EventOf
  <2> QED  BY <2>1 DEF ReaderAt
<1>8. ASSUME NEW i \in Tokens, Throw(i) PROVE ReaderAt'
  <2>1. /\ pos' - 1 = i /\ doc' = doc /\ ~pending' /\ ~done' /\ started' /\ ret' = "throw"
        /\ Tokens' = Tokens /\ residue' = doc[i].residue /\ doc[i].kind \in Bad
    BY <1>1, <1>8 DEF Throw, After, Scanning, Tokens
  <2> QED  BY <2>1 DEF ReaderAt
<1>9. CASE Exhaust
  BY <1>9 DEF Exhaust, Scanning, ReaderAt
<1> QED  BY <1>2, <1>3, <1>4, <1>5, <1>6, <1>7, <1>8, <1>9 DEF CallNext

\* The cursor's event for an event of the reader.
KindOf(e) == IF e = "StartElement" THEN "S" ELSE IF e = "EndElement" THEN "E"
             ELSE IF e \in {"Text", "CData"} THEN "T" ELSE "O"

Delivers ==
  \/ EmitPendingEnd
  \/ EmitResidue
  \/ \E i \in Tokens : EmitStart(i) \/ EmitEnd(i) \/ EmitContent(i)

\* next() delivers the event after those consumed.
LEMMA DeliversNext ==
  ASSUME TypeOK, ReaderAt, Delivers
  PROVE  /\ Consumed \in Nat /\ Consumed' = Consumed + 1 /\ Consumed + 1 <= Len(AllEvents)
         /\ AllEvents[Consumed + 1][1] = KindOf(event')
         /\ event' \in {"Text", "CData"} => AllEvents[Consumed + 1][2] = text'
         /\ started /\ ~done /\ started' /\ ~done' /\ doc' = doc
<1>1. doc \in Docs /\ Len(doc) \in Nat /\ pos \in 1 .. Len(doc) + 1
      /\ pending \in BOOLEAN /\ residue \in BOOLEAN
  BY TokenOfDoc DEF TypeOK
<1>2. doc' = doc => \A n : EventsTo(n)' = EventsTo(n)
  BY DEF EventsTo
<1>3. ASSUME NEW j \in Tokens
      PROVE  /\ j - 1 \in 0 .. Len(doc) /\ EventsTo(j - 1) \in Nat
             /\ EventsTo(j) = EventsTo(j - 1) + Len(EventsOf(doc, j))
             /\ EventsTo(j) <= Len(AllEvents) /\ Len(AllEvents) \in Nat
             /\ \A m \in 1 .. Len(EventsOf(doc, j)) :
                  AllEvents[EventsTo(j - 1) + m] = EventsOf(doc, j)[m]
  <2>1. j - 1 \in 0 .. Len(doc) /\ j \in 0 .. Len(doc)
    BY <1>1 DEF Tokens
  <2> QED  BY <2>1, <1>1, EventsAt
<1>4. CASE EmitPendingEnd
  <2> DEFINE j == pos - 1
  <2>1. j \in Tokens /\ doc[j].kind = "empty" /\ ~residue /\ pending
    BY <1>4 DEF EmitPendingEnd, ReaderAt, Bad
  <2>2. pos' = pos /\ doc' = doc /\ ~pending' /\ ~residue' /\ event' = "EndElement"
        /\ started /\ ~done /\ started' /\ ~done'
    BY <1>4, <2>1 DEF EmitPendingEnd
  <2>3. Consumed = EventsTo(j) - 1 /\ Consumed' = EventsTo(j)
    <3>1. EventsTo(j) \in Nat
      BY <1>3, <2>1, EventsOfToken, <1>1
    <3> QED  BY <1>2, <2>1, <2>2, <3>1 DEF Consumed
  <2> HIDE DEF j
  <2>4. Len(EventsOf(doc, j)) = 2 /\ EventsOf(doc, j)[2][1] = "E"
    BY <1>1, <2>1, EventsOfToken
  <2>5. EventsTo(j) = EventsTo(j - 1) + 2 /\ AllEvents[EventsTo(j - 1) + 2] = EventsOf(doc, j)[2]
        /\ EventsTo(j - 1) \in Nat /\ EventsTo(j) <= Len(AllEvents)
    <3>1. 2 \in 1 .. Len(EventsOf(doc, j))
      BY <2>4
    <3> QED  BY <1>3, <2>1, <2>4, <3>1
  <2>6. Consumed \in Nat /\ Consumed' = Consumed + 1 /\ Consumed + 1 = EventsTo(j - 1) + 2
    BY <2>3, <2>5
  <2> QED  BY <2>2, <2>3, <2>4, <2>5, <2>6 DEF KindOf
<1>5. CASE EmitResidue
  <2> DEFINE j == pos - 1
  <2>1. j \in Tokens /\ doc[j].kind \in Bad /\ doc[j].residue /\ residue /\ ~pending
    BY <1>5 DEF EmitResidue, Scanning, ReaderAt
  <2>2. pos' = pos /\ doc' = doc /\ ~pending' /\ ~residue' /\ event' = "Text" /\ text' = j
        /\ started /\ ~done /\ started' /\ ~done'
    BY <1>5, <2>1 DEF EmitResidue, Scanning
  <2>3. Consumed = EventsTo(j) - 1 /\ Consumed' = EventsTo(j)
    <3>1. EventsTo(j) \in Nat
      BY <1>3, <2>1, EventsOfToken, <1>1
    <3> QED  BY <1>2, <2>1, <2>2, <3>1 DEF Consumed
  <2> HIDE DEF j
  <2>4. Len(EventsOf(doc, j)) = 2 /\ EventsOf(doc, j)[2][1] = "T" /\ EventsOf(doc, j)[2][2] = j
    BY <1>1, <2>1, EventsOfToken
  <2>5. EventsTo(j) = EventsTo(j - 1) + 2 /\ AllEvents[EventsTo(j - 1) + 2] = EventsOf(doc, j)[2]
        /\ EventsTo(j - 1) \in Nat /\ EventsTo(j) <= Len(AllEvents)
    <3>1. 2 \in 1 .. Len(EventsOf(doc, j))
      BY <2>4
    <3> QED  BY <1>3, <2>1, <2>4, <3>1
  <2>6. Consumed \in Nat /\ Consumed' = Consumed + 1 /\ Consumed + 1 = EventsTo(j - 1) + 2
    BY <2>3, <2>5
  <2> QED  BY <2>2, <2>3, <2>4, <2>5, <2>6 DEF KindOf
<1>6. ASSUME NEW i \in Tokens, EmitStart(i) \/ EmitEnd(i) \/ EmitContent(i)
      PROVE  /\ Consumed \in Nat /\ Consumed' = Consumed + 1 /\ Consumed + 1 <= Len(AllEvents)
             /\ AllEvents[Consumed + 1][1] = KindOf(event')
             /\ event' \in {"Text", "CData"} => AllEvents[Consumed + 1][2] = text'
             /\ started /\ ~done /\ started' /\ ~done' /\ doc' = doc
  <2>1. StopsAt(i) /\ ~pending /\ ~residue
    BY <1>6 DEF EmitStart, EmitEnd, EmitContent, Scanning
  <2>2. /\ doc[i].kind \in {"start", "empty", "end", "text", "cdata", "comment", "pi", "decl"}
        /\ KindOf(event') = IF doc[i].kind \in {"start", "empty"} THEN "S"
                            ELSE IF doc[i].kind = "end" THEN "E"
                            ELSE IF doc[i].kind \in {"text", "cdata"} THEN "T" ELSE "O"
        /\ event' \in {"Text", "CData"} => text' = i
    <3>1. CASE EmitStart(i)
      BY <3>1 DEF EmitStart, KindOf
    <3>2. CASE EmitEnd(i)
      BY <3>2 DEF EmitEnd, KindOf
    <3>3. CASE EmitContent(i)
      BY <3>3 DEF EmitContent, KindOf, EventOf, Visible
    <3> QED  BY <1>6, <3>1, <3>2, <3>3
  <2>3. pos' - 1 = i /\ doc' = doc /\ ~residue' /\ started /\ ~done /\ started' /\ ~done'
        /\ (pending' <=> doc[i].kind = "empty") /\ pending' \in BOOLEAN
    <3>1. (i + 1) - 1 = i
      BY <1>1 DEF Tokens
    <3>2. CASE EmitStart(i)
      BY <1>1, <2>1, <3>1, <3>2 DEF EmitStart, Scanning, After
    <3>3. CASE EmitEnd(i)
      BY <1>1, <2>1, <3>1, <3>3 DEF EmitEnd, Scanning, After
    <3>4. CASE EmitContent(i)
      BY <1>1, <2>1, <3>1, <3>4 DEF EmitContent, Scanning, After
    <3> QED  BY <1>6, <3>2, <3>3, <3>4
  <2>4. /\ Consumed \in Nat /\ EventsTo(i) = Consumed + Len(EventsOf(doc, i))
        /\ EventsTo(i) <= Len(AllEvents)
        /\ \A m \in 1 .. Len(EventsOf(doc, i)) : AllEvents[Consumed + m] = EventsOf(doc, i)[m]
    BY <2>1, NextEvents
  <2>5. Len(EventsOf(doc, i)) = (IF doc[i].kind = "empty" THEN 2 ELSE 1)
        /\ EventsOf(doc, i)[1][1] = KindOf(event') /\ EventsOf(doc, i)[1][2] = i
    <3> HIDE DEF Tokens
    <3>1. /\ Len(EventsOf(doc, i)) =
               IF doc[i].kind = "empty" \/ (doc[i].kind \in Bad /\ doc[i].residue) THEN 2
               ELSE IF doc[i].kind \in {"doctype", "unterminated"} THEN 0 ELSE 1
          /\ \A m \in 1 .. Len(EventsOf(doc, i)) : EventsOf(doc, i)[m][2] = i
          /\ doc[i].kind \in {"start", "empty"} => EventsOf(doc, i)[1][1] = "S"
          /\ doc[i].kind = "end" => EventsOf(doc, i)[1][1] = "E"
          /\ doc[i].kind \in {"text", "cdata"} => EventsOf(doc, i)[1][1] = "T"
          /\ doc[i].kind \in {"comment", "pi", "decl"} => EventsOf(doc, i)[1][1] = "O"
      BY <1>1, EventsOfToken
    <3>2. Len(EventsOf(doc, i)) = IF doc[i].kind = "empty" THEN 2 ELSE 1
      BY <2>2, <3>1 DEF Bad
    <3>3. 1 \in 1 .. Len(EventsOf(doc, i))
      BY <3>2
    <3> QED  BY <2>2, <3>1, <3>2, <3>3
  <2>6. Consumed' = EventsTo(i) - (IF pending' THEN 1 ELSE 0)
    BY <1>2, <2>3, <2>4, <2>5 DEF Consumed
  <2>7. AllEvents[Consumed + 1] = EventsOf(doc, i)[1] /\ Consumed' = Consumed + 1
    <3>1. 1 \in 1 .. Len(EventsOf(doc, i))
      BY <2>5
    <3>2. AllEvents[Consumed + 1] = EventsOf(doc, i)[1]
      BY <2>4, <3>1
    <3>3. Consumed' = Consumed + 1
      <4>1. CASE doc[i].kind = "empty"
        <5>1. EventsTo(i) = Consumed + 2
          BY <2>4, <2>5, <4>1
        <5>2. Consumed' = EventsTo(i) - 1
          BY <2>3, <2>6, <4>1
        <5> QED  BY <2>4, <5>1, <5>2
      <4>2. CASE doc[i].kind # "empty"
        <5>1. EventsTo(i) = Consumed + 1
          BY <2>4, <2>5, <4>2
        <5>2. Consumed' = EventsTo(i) - 0
          BY <2>3, <2>6, <4>2
        <5> QED  BY <2>4, <5>1, <5>2
      <4> QED  BY <4>1, <4>2
    <3> QED  BY <3>2, <3>3
  <2> QED  BY <2>2, <2>3, <2>4, <2>5, <2>7
<1> QED  BY <1>4, <1>5, <1>6 DEF Delivers

\* A refused tag is an event of its own.
LEMMA ThrowsNext ==
  ASSUME TypeOK, NEW i \in Tokens, Throw(i)
  PROVE  /\ Consumed \in Nat /\ Consumed' = Consumed + 1 /\ Consumed + 1 <= Len(AllEvents)
         /\ AllEvents[Consumed + 1][1] = "F"
         /\ started /\ ~done /\ started' /\ ~done' /\ doc' = doc
<1>1. doc \in Docs /\ Len(doc) \in Nat /\ doc[i].residue \in BOOLEAN
  BY TokenOfDoc DEF TypeOK
<1>2. StopsAt(i) /\ ~pending /\ ~residue /\ doc[i].kind \in Bad
  BY DEF Throw, Scanning
<1>3. pos' - 1 = i /\ doc' = doc /\ residue' = doc[i].residue /\ ~pending'
      /\ started /\ ~done /\ started' /\ ~done'
  BY <1>1 DEF Throw, Scanning, After, Tokens
<1>4. /\ Consumed \in Nat /\ EventsTo(i) = Consumed + Len(EventsOf(doc, i))
      /\ EventsTo(i) <= Len(AllEvents)
      /\ \A m \in 1 .. Len(EventsOf(doc, i)) : AllEvents[Consumed + m] = EventsOf(doc, i)[m]
  BY <1>2, NextEvents
<1>5. /\ Len(EventsOf(doc, i)) = IF doc[i].residue THEN 2 ELSE 1
      /\ EventsOf(doc, i)[1][1] = "F"
  BY <1>1, <1>2, EventsOfToken DEF Bad
<1>6. Consumed' = EventsTo(i) - (IF residue' THEN 1 ELSE 0)
  <2>1. EventsTo(i)' = EventsTo(i)
    BY <1>3 DEF EventsTo
  <2> QED  BY <1>3, <1>4, <1>5, <2>1 DEF Consumed
<1>7. AllEvents[Consumed + 1] = EventsOf(doc, i)[1] /\ Consumed' = Consumed + 1
  <2>1. 1 \in 1 .. Len(EventsOf(doc, i))
    BY <1>1, <1>5
  <2>2. AllEvents[Consumed + 1] = EventsOf(doc, i)[1]
    BY <1>4, <2>1
  <2>3. Consumed' = Consumed + 1
    <3>1. CASE doc[i].residue
      <4>1. EventsTo(i) = Consumed + 2
        BY <1>4, <1>5, <3>1
      <4>2. Consumed' = EventsTo(i) - 1
        BY <1>3, <1>6, <3>1
      <4> QED  BY <1>4, <4>1, <4>2
    <3>2. CASE ~doc[i].residue
      <4>1. EventsTo(i) = Consumed + 1
        BY <1>4, <1>5, <3>2
      <4>2. Consumed' = EventsTo(i) - 0
        BY <1>3, <1>6, <3>2
      <4> QED  BY <1>4, <4>1, <4>2
    <3> QED  BY <1>1, <3>1, <3>2
  <2> QED  BY <2>2, <2>3
<1>8. AllEvents[Consumed + 1][1] = "F" /\ Consumed + 1 <= Len(AllEvents)
  <2>1. Len(AllEvents) \in Nat
    BY <1>1, EventsAt
  <2> QED  BY <1>1, <1>4, <1>5, <1>7, <2>1
<1> QED  BY <1>3, <1>4, <1>7, <1>8

\* When the input is exhausted, the cursor is after the last event.
LEMMA ExhaustsAll ==
  ASSUME TypeOK, Exhaust
  PROVE  /\ Consumed = Len(AllEvents) /\ Consumed' = Len(AllEvents) /\ Len(AllEvents) \in Nat
         /\ started /\ ~done /\ started' /\ done' /\ doc' = doc
<1>1. doc \in Docs /\ Len(doc) \in Nat
  BY TokenOfDoc DEF TypeOK
<1>2. ~pending /\ ~residue /\ RunsOut /\ pos' = Len(doc) + 1 /\ doc' = doc /\ ~pending' /\ ~residue'
      /\ started /\ ~done /\ started' /\ done'
  BY DEF Exhaust, Scanning
<1>3. Consumed = Len(AllEvents)
  BY <1>2, NoEventsLeft
<1>4. EventsTo(Len(doc)) = Len(AllEvents) /\ Len(AllEvents) \in Nat
  BY <1>1, EventsAt
<1>5. EventsTo(Len(doc))' = EventsTo(Len(doc)) /\ pos' - 1 = Len(doc)
  BY <1>1, <1>2 DEF EventsTo
<1>6. Consumed' = Len(AllEvents)
  BY <1>2, <1>4, <1>5 DEF Consumed, EventsTo
<1> QED  BY <1>2, <1>3, <1>4, <1>6

-----------------------------------------------------------------------------
(***************************************************************************)
(* The helpers.  What the abstract cursor counts and collects between two  *)
(* events is what the helper's loop counts and collects event by event.    *)
(***************************************************************************)

\* The cursor's module has the library's operators under names of its own.
LEMMA SameOperators ==
  ASSUME NEW S
  PROVE  Cursor!Cardinality(S) = Cardinality(S) /\ Cursor!FlattenSeq(S) = FlattenSeq(S)
<1>1. Cursor!Cardinality(S) = Cardinality(S)
  BY DEF Cursor!Cardinality, Cardinality
<1>2. Cursor!FlattenSeq(S) = FlattenSeq(S)
  BY DEF Cursor!FlattenSeq, FlattenSeq
<1> QED  BY <1>1, <1>2

\* One event more.
LEMMA CountNext ==
  ASSUME NEW i \in Nat, NEW kind
  PROVE  /\ \A j \in Nat : Cursor!Count(kind, i, j) \in Nat
         /\ Cursor!Count(kind, i, i) = IF AllEvents[i][1] = kind THEN 1 ELSE 0
         /\ \A j \in Nat : i <= j + 1 =>
              Cursor!Count(kind, i, j + 1)
                = Cursor!Count(kind, i, j) + IF AllEvents[j + 1][1] = kind THEN 1 ELSE 0
<1> DEFINE P(j) == {k \in i .. j : AllEvents[k][1] = kind}
<1>1. ASSUME NEW j PROVE Cursor!Count(kind, i, j) = Cardinality(P(j))
  <2>1. Cursor!Count(kind, i, j) = Cursor!Cardinality(P(j))
    BY DEF Cursor!Count
  <2> HIDE DEF P
  <2> QED  BY <2>1, SameOperators
<1>2. ASSUME NEW j \in Int PROVE IsFiniteSet(P(j)) /\ Cardinality(P(j)) \in Nat
  <2>1. IsFiniteSet(i .. j)
    BY FS_Interval
  <2>2. IsFiniteSet(P(j))
    BY <2>1, FS_Subset
  <2> QED  BY <2>2, FS_CardinalityType
<1>3. ASSUME NEW j \in Int, i <= j + 1
      PROVE  Cardinality(P(j + 1)) = Cardinality(P(j)) + IF AllEvents[j + 1][1] = kind THEN 1 ELSE 0
  <2>1. i .. j + 1 = (i .. j) \cup {j + 1} /\ j + 1 \notin i .. j
    BY <1>3
  <2>2. CASE AllEvents[j + 1][1] = kind
    <3>1. P(j + 1) = P(j) \cup {j + 1} /\ j + 1 \notin P(j)
      BY <2>1, <2>2
    <3> HIDE DEF P
    <3> QED  BY <3>1, <2>2, <1>2, FS_AddElement
  <2>3. CASE AllEvents[j + 1][1] # kind
    <3>1. P(j + 1) = P(j)
      BY <2>1, <2>3
    <3> HIDE DEF P
    <3> QED  BY <3>1, <2>3, <1>2
  <2> QED  BY <2>2, <2>3
<1>4. Cardinality(P(i - 1)) = 0
  <2>1. P(i - 1) = {}
    OBVIOUS
  <2> HIDE DEF P
  <2> QED  BY <2>1, FS_EmptySet
<1> HIDE DEF P
<1>5. Cardinality(P(i)) = IF AllEvents[i][1] = kind THEN 1 ELSE 0
  <2>1. i - 1 \in Int /\ i <= (i - 1) + 1 /\ (i - 1) + 1 = i
    OBVIOUS
  <2> QED  BY <2>1, <1>3, <1>4
<1> QED  BY <1>1, <1>2, <1>3, <1>5

\* Character data directly inside the element opened at event i.
IsDirect(i, k) ==
  AllEvents[k][1] = "T" /\ Cursor!Count("S", i, k) = Cursor!Count("E", i, k) + 1

LEMMA DirectNext ==
  ASSUME doc \in Docs, NEW i \in 1 .. Len(AllEvents)
  PROVE  /\ Cursor!DirectText(i, i + 1) = <<>>
         /\ \A j \in i + 1 .. Len(AllEvents) :
              Cursor!DirectText(i, j + 1) =
                IF IsDirect(i, j) THEN Append(Cursor!DirectText(i, j), AllEvents[j][2])
                ELSE Cursor!DirectText(i, j)
<1> DEFINE L == Len(AllEvents)
           N == L - i
           piece(k) == IF IsDirect(i, k) THEN <<AllEvents[k][2]>> ELSE <<>>
           ss == [m \in 1 .. N |-> piece(i + m)]
           V == Seq(Nat)
<1>1. AllEvents \in Seq(Pair) /\ L \in Nat /\ N \in Nat
  BY EventsAt
<1>2. ASSUME NEW k \in 1 .. L PROVE AllEvents[k][2] \in Nat /\ piece(k) \in V
  <2>1. AllEvents[k] \in Pair
    BY <1>1, ElementOfSeq
  <2>2. AllEvents[k][2] \in Nat
    BY <2>1 DEF Pair
  <2> QED  BY <2>2
<1> HIDE DEF piece, V
<1>3. ss \in Seq(V) /\ Len(ss) = N /\ \A m \in 1 .. N : ss[m] = piece(i + m)
  <2>1. \A m \in 1 .. N : piece(i + m) \in V
    <3>1. \A m \in 1 .. N : i + m \in 1 .. L
      BY <1>1
    <3> QED  BY <3>1, <1>2
  <2> HIDE DEF N
  <2>2. ss \in [1 .. N -> V]
    BY <2>1
  <2>3. ss \in Seq(V)
    BY <1>1, <2>2, SeqDef
  <2> QED  BY <1>1, <2>2, <2>3, LenProperties
<1>4. ASSUME NEW j \in i + 1 .. L + 1
      PROVE  Cursor!DirectText(i, j) = Part(ss, j - i - 1)
  <2> DEFINE n == j - i - 1
  <2>1. 1 .. n \subseteq 1 .. N
    BY <1>1
  <2>2. [m \in 1 .. n |-> ss[m]] = [m \in 1 .. n |-> piece(i + m)]
    BY <2>1, <1>3
  <2>3. Cursor!DirectText(i, j) = FlattenSeq([m \in 1 .. n |-> piece(i + m)])
    <3> DEFINE pieces == [m \in 1 .. n |-> piece(i + m)]
    <3>1. Cursor!DirectText(i, j) = Cursor!FlattenSeq(pieces)
      BY DEF Cursor!DirectText, IsDirect, piece
    <3> HIDE DEF pieces
    <3>2. Cursor!FlattenSeq(pieces) = FlattenSeq(pieces)
      BY SameOperators
    <3> QED  BY <3>1, <3>2 DEF pieces
  <2> QED  BY <2>2, <2>3 DEF Part
<1> HIDE DEF ss
<1>5. ss \in Seq(Seq(Nat))
  BY <1>3 DEF V
<1>6. /\ Part(ss, 0) = <<>> /\ \A n \in 0 .. N : Part(ss, n) \in Seq(Nat)
      /\ \A n \in 0 .. N - 1 : Part(ss, n + 1) = Part(ss, n) \o ss[n + 1]
  BY <1>3, <1>5, PartNext
<1>7. Cursor!DirectText(i, i + 1) = <<>>
  <2>1. i + 1 \in i + 1 .. L + 1 /\ (i + 1) - i - 1 = 0
    BY <1>1
  <2> QED  BY <2>1, <1>4, <1>6
<1>8. ASSUME NEW j \in i + 1 .. L
      PROVE  Cursor!DirectText(i, j + 1) =
               IF IsDirect(i, j) THEN Append(Cursor!DirectText(i, j), AllEvents[j][2])
               ELSE Cursor!DirectText(i, j)
  <2> DEFINE n == j - i - 1
  <2>1. /\ n \in 0 .. N - 1 /\ n \in 0 .. N /\ (j + 1) - i - 1 = n + 1 /\ i + (n + 1) = j
        /\ n + 1 \in 1 .. N /\ j \in i + 1 .. L + 1 /\ j + 1 \in i + 1 .. L + 1 /\ j \in 1 .. L
    BY <1>1
  <2>2. Cursor!DirectText(i, j) = Part(ss, n) /\ Cursor!DirectText(i, j + 1) = Part(ss, n + 1)
    BY <2>1, <1>4
  <2> HIDE DEF n
  <2>3. Part(ss, n + 1) = Part(ss, n) \o piece(j) /\ Part(ss, n) \in Seq(Nat)
    BY <2>1, <1>3, <1>6
  <2> DEFINE s == Part(ss, n)
             x == AllEvents[j][2]
  <2>4. s \in Seq(Nat) /\ x \in Nat
    BY <2>1, <2>3, <1>2
  <2> HIDE DEF s, x
  <2>5. s \o <<x>> = Append(s, x) /\ s \o <<>> = s
    BY <2>4
  <2>6. piece(j) = IF IsDirect(i, j) THEN <<x>> ELSE <<>>
    BY DEF piece, x
  <2> QED  BY <2>2, <2>3, <2>5, <2>6 DEF s, x
<1> QED  BY <1>7, <1>8

-----------------------------------------------------------------------------
(***************************************************************************)
(* The refinement.  A helper that runs has counted, from the StartElement  *)
(* it was called on, the elements that the events consumed leave open, met *)
(* neither its own EndElement nor a refused tag, and collected the         *)
(* character data directly inside.                                         *)
(***************************************************************************)

HelperCounts ==
  mode # "app" =>
    /\ started /\ ~done /\ elem \in Tokens /\ doc[elem].kind = "start"
    /\ EventsTo(elem) <= Consumed
    /\ \A k \in EventsTo(elem) + 1 .. Consumed :
         AllEvents[k][1] # "F" /\ ~Cursor!Balanced(EventsTo(elem), k)
    /\ open = Cursor!Count("S", EventsTo(elem), Consumed) - Cursor!Count("E", EventsTo(elem), Consumed)
    /\ acc = IF mode = "text" THEN Cursor!DirectText(EventsTo(elem), Consumed + 1) ELSE <<>>

NothingRead == mode = "app" /\ event = "StartElement" /\ ret = "true" => acc = <<>>

CursorInv == ReaderAt /\ NothingRead /\ HelperCounts

\* Where the cursor is.
LEMMA CursorIs ==
  ASSUME TypeOK
  PROVE  CursorAt = IF mode # "app" THEN EventsTo(elem)
                    ELSE IF ~started THEN 0 ELSE IF done THEN Consumed + 1 ELSE Consumed
BY DEF CursorAt, TypeOK

LEMMA CursorIsNext ==
  ASSUME TypeOK'
  PROVE  CursorAt' = IF mode' # "app" THEN EventsTo(elem)'
                     ELSE IF ~started' THEN 0 ELSE IF done' THEN Consumed' + 1 ELSE Consumed'
BY DEF CursorAt, TypeOK

\* The events do not change.
LEMMA SameEvents ==
  ASSUME doc' = doc
  PROVE  AllEvents' = AllEvents /\ \A n : EventsTo(n)' = EventsTo(n)
BY DEF AllEvents, EventsTo

\* A reader before its first call is a cursor before the first event.
LEMMA InitCursor == Init => CursorInv /\ Cursor!CInit
<1> SUFFICES ASSUME Init PROVE CursorInv /\ Cursor!CInit
  OBVIOUS
<1>1. TypeOK /\ doc \in Docs
  BY InitTypeInv DEF TypeInv, Init
<1>2. CursorInv
  BY DEF Init, CursorInv, ReaderAt, NothingRead, HelperCounts
<1>3. CursorAt = 0
  BY <1>1, CursorIs DEF Init
<1>4. AllEvents \in Seq(Cursor!EventKinds \X Nat)
  BY <1>1, EventsAt DEF Pair
<1> QED  BY <1>2, <1>3, <1>4 DEF Cursor!CInit, Init

\* The application's call of next() advances the cursor.
LEMMA AppAdvances ==
  ASSUME TypeOK, TypeOK', CursorInv, AppNext
  PROVE  CursorInv' /\ Cursor!Advance
<1>1. /\ CallNext /\ mode = "app" /\ mode' = "app" /\ acc' = <<>> /\ ReaderAt
      /\ doc \in Docs /\ doc' = doc
  BY CallNextType DEF AppNext, CursorInv, TypeOK
<1>2. AllEvents' = AllEvents /\ \A n : EventsTo(n)' = EventsTo(n)
  BY <1>1, SameEvents
<1>3. CursorInv'
  BY <1>1, CallNextAt DEF CursorInv, NothingRead, HelperCounts
<1>4. /\ CursorAt = IF ~started THEN 0 ELSE IF done THEN Consumed + 1 ELSE Consumed
      /\ CursorAt' = IF ~started' THEN 0 ELSE IF done' THEN Consumed' + 1 ELSE Consumed'
  BY <1>1, CursorIs, CursorIsNext
<1>5. Len(AllEvents) \in Nat
  BY <1>1, EventsAt
<1>6. CursorAt' = IF CursorAt <= Len(AllEvents) THEN CursorAt + 1 ELSE CursorAt
  <2>1. CASE AlreadyDone
    <3>1. done /\ started /\ pos = Len(doc) + 1 /\ ~pending /\ ~residue
      BY <1>1, <2>1 DEF AlreadyDone, ReaderAt
    <3>2. Len(doc) \in Nat /\ EventsTo(Len(doc)) = Len(AllEvents)
      BY <1>1, TokenOfDoc, EventsAt
    <3>3. Consumed = Len(AllEvents)
      BY <3>1, <3>2, <1>5 DEF Consumed
    <3>4. CursorAt' = CursorAt
      <4>1. Consumed' = Consumed /\ started' = started /\ done' = done
        BY <2>1 DEF AlreadyDone, Consumed, EventsTo
      <4> QED  BY <4>1, <1>4
    <3> QED  BY <1>4, <1>5, <3>1, <3>3, <3>4
  <2>2. CASE EmitStartDocument
    <3>1. ~started /\ pos = 1 /\ ~pending /\ ~residue
      BY <1>1, <2>2 DEF EmitStartDocument, ReaderAt
    <3>2. started' /\ ~done' /\ pos' = 1 /\ ~pending' /\ ~residue'
      BY <2>2, <3>1 DEF EmitStartDocument
    <3>3. EventsTo(0) = 1 /\ pos' - 1 = 0
      BY <1>1, <3>2, EventsAt
    <3>4. Consumed' = 1
      BY <1>2, <3>2, <3>3 DEF Consumed
    <3> QED  BY <1>4, <1>5, <3>1, <3>2, <3>4
  <2>3. CASE Delivers
    <3>1. /\ Consumed \in Nat /\ Consumed' = Consumed + 1 /\ Consumed + 1 <= Len(AllEvents)
          /\ started /\ ~done /\ started' /\ ~done'
      BY <1>1, <2>3, DeliversNext
    <3> QED  BY <1>4, <1>5, <3>1
  <2>4. ASSUME NEW i \in Tokens, Throw(i)
        PROVE  CursorAt' = IF CursorAt <= Len(AllEvents) THEN CursorAt + 1 ELSE CursorAt
    <3>1. /\ Consumed \in Nat /\ Consumed' = Consumed + 1 /\ Consumed + 1 <= Len(AllEvents)
          /\ started /\ ~done /\ started' /\ ~done'
      BY <2>4, ThrowsNext
    <3> QED  BY <1>4, <1>5, <3>1
  <2>5. CASE Exhaust
    <3>1. /\ Consumed = Len(AllEvents) /\ Consumed' = Len(AllEvents)
          /\ started /\ ~done /\ started' /\ done'
      BY <2>5, ExhaustsAll
    <3> QED  BY <1>4, <1>5, <3>1
  <2> QED  BY <1>1, <2>1, <2>2, <2>3, <2>4, <2>5 DEF CallNext, Delivers
<1> QED  BY <1>1, <1>2, <1>3, <1>6 DEF Cursor!Advance

\* The StartElement just delivered is the event the cursor is on.
LEMMA AtStart ==
  ASSUME TypeOK, ReaderAt, mode = "app", event = "StartElement", ret = "true"
  PROVE  /\ name \in Tokens /\ name = pos - 1 /\ ~residue /\ ~done /\ started
         /\ CursorAt = Consumed /\ Consumed \in 1 .. Len(AllEvents)
         /\ Consumed = EventsTo(name) - (IF pending THEN 1 ELSE 0) /\ EventsTo(name) \in Nat
         /\ AllEvents[Consumed][1] = "S" /\ Len(AllEvents) \in Nat
         /\ pending => Consumed + 1 <= Len(AllEvents) /\ AllEvents[Consumed + 1][1] = "E"
         /\ ~pending => doc[name].kind = "start"
<1>1. /\ name \in Tokens /\ name = pos - 1 /\ ~residue /\ ~done /\ started
      /\ doc[name].kind = IF pending THEN "empty" ELSE "start"
  BY DEF ReaderAt
<1>2. doc \in Docs /\ Len(doc) \in Nat /\ name \in 0 .. Len(doc) /\ name - 1 \in 0 .. Len(doc)
      /\ pending \in BOOLEAN
  BY <1>1, TokenOfDoc DEF TypeOK, Tokens
<1>3. /\ EventsTo(name - 1) \in Nat /\ EventsTo(name) \in Nat /\ EventsTo(name) <= Len(AllEvents)
      /\ Len(AllEvents) \in Nat
      /\ EventsTo(name) = EventsTo(name - 1) + Len(EventsOf(doc, name))
      /\ \A m \in 1 .. Len(EventsOf(doc, name)) :
           AllEvents[EventsTo(name - 1) + m] = EventsOf(doc, name)[m]
  BY <1>1, <1>2, EventsAt
<1>4. /\ Len(EventsOf(doc, name)) = (IF pending THEN 2 ELSE 1)
      /\ EventsOf(doc, name)[1][1] = "S" /\ (pending => EventsOf(doc, name)[2][1] = "E")
  BY <1>1, <1>2, EventsOfToken DEF Bad
<1>5. Consumed = EventsTo(name) - (IF pending THEN 1 ELSE 0)
  BY <1>1, <1>3 DEF Consumed
<1>6. CursorAt = Consumed
  BY <1>1, CursorIs
<1>7. CASE pending
  <2>1. 1 \in 1 .. Len(EventsOf(doc, name)) /\ 2 \in 1 .. Len(EventsOf(doc, name))
    BY <1>4, <1>7
  <2>2. /\ AllEvents[EventsTo(name - 1) + 1][1] = "S" /\ AllEvents[EventsTo(name - 1) + 2][1] = "E"
        /\ EventsTo(name) = EventsTo(name - 1) + 2
    BY <1>3, <1>4, <1>7, <2>1
  <2>3. Consumed = EventsTo(name - 1) + 1 /\ Consumed + 1 = EventsTo(name - 1) + 2
    BY <1>3, <1>5, <1>7, <2>2
  <2> QED  BY <1>1, <1>3, <1>5, <1>6, <1>7, <2>2, <2>3
<1>8. CASE ~pending
  <2>1. 1 \in 1 .. Len(EventsOf(doc, name))
    BY <1>4, <1>8
  <2>2. AllEvents[EventsTo(name - 1) + 1][1] = "S" /\ EventsTo(name) = EventsTo(name - 1) + 1
    BY <1>3, <1>4, <1>8, <2>1
  <2>3. Consumed = EventsTo(name - 1) + 1
    BY <1>3, <1>5, <1>8, <2>2
  <2> QED  BY <1>1, <1>3, <1>5, <1>6, <1>8, <2>2, <2>3
<1> QED  BY <1>2, <1>7, <1>8

\* Where a helper ends.
LEMMA LandsAt ==
  ASSUME NEW i \in Nat, NEW j \in i + 1 .. Len(AllEvents) + 1,
         j = Len(AllEvents) + 1 \/ AllEvents[j][1] = "F" \/ Cursor!Balanced(i, j),
         \A k \in i + 1 .. j - 1 :
           k # Len(AllEvents) + 1 /\ AllEvents[k][1] # "F" /\ ~Cursor!Balanced(i, k)
  PROVE  Cursor!Landing(i, j)
BY DEF Cursor!Landing

\* A helper called on a StartElement either skips the EndElement owed, or begins
\* its loop with one element to close and nothing read.
LEMMA HelperCalled ==
  ASSUME TypeOK, TypeOK', CursorInv, Strict, NEW h \in {"skip", "text"}, CallHelper(h)
  PROVE  CursorInv' /\ (Cursor!Skip \/ UNCHANGED Cursor!cursorVars)
<1>1. /\ mode = "app" /\ event = "StartElement" /\ ret = "true" /\ ReaderAt /\ acc = <<>>
      /\ doc \in Docs /\ doc' = doc /\ pos' = pos /\ residue' = residue /\ event' = event
      /\ started' = started /\ done' = done /\ name' = name /\ acc' = <<>> /\ elem' = name
  BY DEF CallHelper, CursorInv, NothingRead, TypeOK
<1>2. /\ name \in Tokens /\ name = pos - 1 /\ ~residue /\ ~done /\ started
      /\ CursorAt = Consumed /\ Consumed \in 1 .. Len(AllEvents)
      /\ Consumed = EventsTo(name) - (IF pending THEN 1 ELSE 0) /\ EventsTo(name) \in Nat
      /\ AllEvents[Consumed][1] = "S" /\ Len(AllEvents) \in Nat
      /\ pending => Consumed + 1 <= Len(AllEvents) /\ AllEvents[Consumed + 1][1] = "E"
      /\ ~pending => doc[name].kind = "start"
  BY <1>1, AtStart
<1>3. AllEvents' = AllEvents /\ \A n : EventsTo(n)' = EventsTo(n)
  BY <1>1, SameEvents
<1>4. Consumed' = EventsTo(name) - (IF pending' THEN 1 ELSE 0)
  BY <1>1, <1>2, <1>3 DEF Consumed, EventsTo
<1>5. CursorAt' = IF mode' # "app" THEN EventsTo(elem)'
                  ELSE IF ~started' THEN 0 ELSE IF done' THEN Consumed' + 1 ELSE Consumed'
  BY CursorIsNext
<1>6. /\ Cursor!Count("S", Consumed, Consumed) = 1 /\ Cursor!Count("E", Consumed, Consumed) = 0
      /\ \A kind : Cursor!Count(kind, Consumed, Consumed + 1)
                     = Cursor!Count(kind, Consumed, Consumed)
                         + IF AllEvents[Consumed + 1][1] = kind THEN 1 ELSE 0
  <2>1. Consumed \in Nat /\ Consumed <= Consumed + 1
    BY <1>2
  <2>2. ASSUME NEW kind
        PROVE  /\ Cursor!Count(kind, Consumed, Consumed)
                    = IF AllEvents[Consumed][1] = kind THEN 1 ELSE 0
               /\ Cursor!Count(kind, Consumed, Consumed + 1)
                    = Cursor!Count(kind, Consumed, Consumed)
                        + IF AllEvents[Consumed + 1][1] = kind THEN 1 ELSE 0
    BY <2>1, CountNext
  <2> QED  BY <1>2, <2>2
<1>7. CASE pending
  <2>1. mode' = "app" /\ ~pending' /\ ret' = "helper"
    BY <1>1, <1>7 DEF CallHelper
  <2>2. CursorInv'
    BY <1>1, <1>2, <2>1 DEF CursorInv, ReaderAt, NothingRead, HelperCounts
  <2>3. CursorAt' = Consumed + 1
    BY <1>1, <1>2, <1>4, <1>5, <1>7, <2>1
  <2>4. Cursor!Balanced(Consumed, Consumed + 1)
    BY <1>2, <1>6, <1>7 DEF Cursor!Balanced
  <2>5. Cursor!Landing(Consumed, Consumed + 1)
    <3>1. /\ Consumed \in Nat /\ Consumed + 1 \in Consumed + 1 .. Len(AllEvents) + 1
          /\ Consumed + 1 .. (Consumed + 1) - 1 = {}
      BY <1>2, <1>7
    <3> QED  BY <2>4, <3>1, LandsAt
  <2> QED  BY <1>1, <1>2, <1>3, <2>1, <2>2, <2>3, <2>5 DEF Cursor!Skip
<1>8. CASE ~pending
  <2>1. mode' = h /\ mode' # "app" /\ pending' = pending /\ ret' = ret /\ open' = 1
    BY <1>1, <1>8 DEF CallHelper
  <2>2. Consumed' = Consumed /\ EventsTo(elem)' = Consumed /\ CursorAt' = CursorAt
    <3>1. EventsTo(elem)' = EventsTo(name)
      BY <1>1 DEF EventsTo
    <3> QED  BY <1>2, <1>4, <1>5, <1>8, <2>1, <3>1
  <2>3. ReaderAt' /\ NothingRead'
    BY <1>1, <2>1 DEF ReaderAt, NothingRead, Tokens
  <2>4. HelperCounts'
    <3>1. started' /\ ~done' /\ (elem \in Tokens)' /\ doc'[elem'].kind = "start"
      BY <1>1, <1>2, <1>8 DEF Tokens
    <3>2. Consumed + 1 .. Consumed = {}
      BY <1>2
    <3>3. Cursor!Count("S", Consumed, Consumed) - Cursor!Count("E", Consumed, Consumed) = 1
      BY <1>2, <1>6
    <3>4. Cursor!DirectText(Consumed, Consumed + 1) = <<>>
      BY <1>1, <1>2, DirectNext
    <3>5. /\ (\A kind, i, j : Cursor!Count(kind, i, j)' = Cursor!Count(kind, i, j))
          /\ \A i, j : Cursor!DirectText(i, j)' = Cursor!DirectText(i, j)
      BY <1>3 DEF Cursor!Count, Cursor!DirectText
    <3>6. (EventsTo(elem) <= Consumed)'
      BY <2>2, <1>2
    <3>7. (\A k \in EventsTo(elem) + 1 .. Consumed :
             AllEvents[k][1] # "F" /\ ~Cursor!Balanced(EventsTo(elem), k))'
      BY <2>2, <3>2
    <3>8. (open = Cursor!Count("S", EventsTo(elem), Consumed) - Cursor!Count("E", EventsTo(elem), Consumed))'
      BY <2>1, <2>2, <3>3, <3>5
    <3>9. (acc = IF mode = "text" THEN Cursor!DirectText(EventsTo(elem), Consumed + 1) ELSE <<>>)'
      BY <1>1, <2>2, <3>4, <3>5
    <3> QED  BY <3>1, <3>6, <3>7, <3>8, <3>9 DEF HelperCounts
  <2> QED  BY <1>1, <1>3, <2>1, <2>2, <2>3, <2>4 DEF Cursor!cursorVars, CursorInv
<1> QED  BY <1>7, <1>8

\* A helper that runs was called on the StartElement the cursor is on, and that
\* element is still open.
LEMMA HelperAt ==
  ASSUME TypeOK, HelperCounts, mode # "app"
  PROVE  /\ CursorAt = EventsTo(elem) /\ EventsTo(elem) \in 1 .. Len(AllEvents)
         /\ AllEvents[EventsTo(elem)][1] = "S" /\ Len(AllEvents) \in Nat
         /\ Consumed \in Int => open # 0
<1>1. /\ elem \in Tokens /\ doc[elem].kind = "start" /\ doc \in Docs /\ EventsTo(elem) <= Consumed
      /\ \A k \in EventsTo(elem) + 1 .. Consumed : ~Cursor!Balanced(EventsTo(elem), k)
      /\ open = Cursor!Count("S", EventsTo(elem), Consumed) - Cursor!Count("E", EventsTo(elem), Consumed)
  BY DEF HelperCounts, TypeOK
<1>2. Len(doc) \in Nat /\ elem \in 0 .. Len(doc) /\ elem - 1 \in 0 .. Len(doc)
  BY <1>1, TokenOfDoc DEF Tokens
<1>3. /\ EventsTo(elem - 1) \in Nat /\ EventsTo(elem) \in Nat /\ EventsTo(elem) <= Len(AllEvents)
      /\ EventsTo(elem) = EventsTo(elem - 1) + Len(EventsOf(doc, elem)) /\ Len(AllEvents) \in Nat
      /\ \A m \in 1 .. Len(EventsOf(doc, elem)) :
           AllEvents[EventsTo(elem - 1) + m] = EventsOf(doc, elem)[m]
  BY <1>1, <1>2, EventsAt
<1>4. Len(EventsOf(doc, elem)) = 1 /\ EventsOf(doc, elem)[1][1] = "S"
  BY <1>1, EventsOfToken DEF Bad
<1>5. EventsTo(elem) = EventsTo(elem - 1) + 1 /\ AllEvents[EventsTo(elem)][1] = "S"
  <2>1. 1 \in 1 .. Len(EventsOf(doc, elem))
    BY <1>4
  <2> QED  BY <1>3, <1>4, <2>1
<1>6. CursorAt = EventsTo(elem)
  BY CursorIs
<1>7. ASSUME Consumed \in Int PROVE open # 0
  <2> DEFINE a == EventsTo(elem)
             c == Consumed
  <2>1. a \in Nat /\ c \in Nat /\ a <= c /\ AllEvents[a][1] = "S"
    BY <1>1, <1>3, <1>5, <1>7
  <2>2. open = Cursor!Count("S", a, c) - Cursor!Count("E", a, c)
    BY <1>1
  <2>3. \A k \in a + 1 .. c : ~Cursor!Balanced(a, k)
    BY <1>1
  <2> HIDE DEF a, c
  <2>4. CASE a = c
    <3>1. Cursor!Count("S", a, a) = 1 /\ Cursor!Count("E", a, a) = 0
      BY <2>1, CountNext
    <3> QED  BY <2>2, <2>4, <3>1
  <2>5. CASE a # c
    <3>1. ~Cursor!Balanced(a, c)
      BY <2>1, <2>3, <2>5
    <3>2. Cursor!Count("S", a, c) \in Nat /\ Cursor!Count("E", a, c) \in Nat
      BY <2>1, CountNext
    <3> QED  BY <2>2, <3>1, <3>2 DEF Cursor!Balanced
  <2> QED  BY <2>4, <2>5
<1> QED  BY <1>3, <1>5, <1>6, <1>7

\* The loop's counter and result after one more event are the cursor's.
LEMMA HelperCountsOn ==
  ASSUME TypeOK, TypeOK', ReaderAt, HelperCounts, mode # "app", Delivers, open' = HelperOpen,
         acc' = IF TakesText THEN Append(acc, text') ELSE acc
  PROVE  /\ open' = Cursor!Count("S", EventsTo(elem), Consumed + 1)
                      - Cursor!Count("E", EventsTo(elem), Consumed + 1)
         /\ open' = 0 <=> Cursor!Balanced(EventsTo(elem), Consumed + 1)
         /\ open' = 0 => event' = "EndElement" /\ acc' = acc
         /\ mode = "text" => acc' = Cursor!DirectText(EventsTo(elem), Consumed + 2)
         /\ mode # "text" => acc' = <<>>
<1> DEFINE a == EventsTo(elem)
           c == Consumed
           S(j) == Cursor!Count("S", a, j)
           E(j) == Cursor!Count("E", a, j)
<1>1. /\ c \in Nat /\ c + 1 <= Len(AllEvents) /\ AllEvents[c + 1][1] = KindOf(event')
      /\ event' \in {"Text", "CData"} => AllEvents[c + 1][2] = text'
  BY DeliversNext
<1>2. a \in 1 .. Len(AllEvents) /\ AllEvents[a][1] = "S" /\ Len(AllEvents) \in Nat /\ open # 0
  BY <1>1, HelperAt
<1>3. /\ a <= c /\ open = S(c) - E(c)
      /\ acc = IF mode = "text" THEN Cursor!DirectText(a, c + 1) ELSE <<>>
  BY DEF HelperCounts
<1>4. doc \in Docs /\ open \in Nat /\ open' \in Nat
  BY DEF TypeOK
<1> HIDE DEF a, c
<1>5. /\ S(c) \in Nat /\ E(c) \in Nat /\ S(c + 1) \in Nat /\ E(c + 1) \in Nat
      /\ S(c + 1) = S(c) + IF AllEvents[c + 1][1] = "S" THEN 1 ELSE 0
      /\ E(c + 1) = E(c) + IF AllEvents[c + 1][1] = "E" THEN 1 ELSE 0
  <2>1. a \in Nat /\ c \in Nat /\ c + 1 \in Nat /\ a <= c + 1
    BY <1>1, <1>2, <1>3
  <2>2. ASSUME NEW kind
        PROVE  /\ Cursor!Count(kind, a, c) \in Nat /\ Cursor!Count(kind, a, c + 1) \in Nat
               /\ Cursor!Count(kind, a, c + 1)
                    = Cursor!Count(kind, a, c) + IF AllEvents[c + 1][1] = kind THEN 1 ELSE 0
    <3>1. Cursor!Count(kind, a, c) \in Nat /\ Cursor!Count(kind, a, c + 1) \in Nat
      BY <2>1, CountNext
    <3>2. \A j \in Nat : a <= j + 1 =>
            Cursor!Count(kind, a, j + 1)
              = Cursor!Count(kind, a, j) + IF AllEvents[j + 1][1] = kind THEN 1 ELSE 0
      BY <2>1, CountNext
    <3> QED  BY <2>1, <3>1, <3>2
  <2> QED  BY <2>2
<1> HIDE DEF S, E
<1>6. open' = S(c + 1) - E(c + 1)
  <2>1. CASE event' = "StartElement"
    <3>1. open' = open + 1 /\ AllEvents[c + 1][1] = "S"
      BY <1>1, <2>1 DEF HelperOpen, KindOf
    <3> QED  BY <1>3, <1>4, <1>5, <3>1
  <2>2. CASE event' = "EndElement"
    <3>1. open' = open - 1 /\ AllEvents[c + 1][1] = "E"
      BY <1>1, <2>2 DEF HelperOpen, KindOf
    <3> QED  BY <1>3, <1>4, <1>5, <3>1
  <2>3. CASE event' \notin {"StartElement", "EndElement"}
    <3>1. open' = open /\ AllEvents[c + 1][1] \notin {"S", "E"}
      BY <1>1, <2>3 DEF HelperOpen, KindOf
    <3> QED  BY <1>3, <1>4, <1>5, <3>1
  <2> QED  BY <2>1, <2>2, <2>3
<1>7. open' = 0 <=> Cursor!Balanced(a, c + 1)
  BY <1>5, <1>6 DEF Cursor!Balanced, S, E
<1>8. ASSUME open' = 0 PROVE event' = "EndElement" /\ acc' = acc
  <2>1. event' = "EndElement"
    BY <1>2, <1>4, <1>8 DEF HelperOpen
  <2> QED  BY <2>1 DEF TakesText
<1>9. IsDirect(a, c + 1) <=> event' \in {"Text", "CData"} /\ open = 1
  <2>1. AllEvents[c + 1][1] = "T" <=> event' \in {"Text", "CData"}
    BY <1>1 DEF KindOf
  <2>2. ASSUME AllEvents[c + 1][1] = "T" PROVE S(c + 1) = E(c + 1) + 1 <=> open = 1
    BY <1>3, <1>5, <2>2
  <2> QED  BY <2>1, <2>2 DEF IsDirect, S, E
<1>10. ASSUME mode = "text" PROVE acc' = Cursor!DirectText(a, c + 2)
  <2>1. c + 1 \in a + 1 .. Len(AllEvents) /\ (c + 1) + 1 = c + 2
    BY <1>1, <1>2, <1>3
  <2>2. Cursor!DirectText(a, c + 2) =
          IF IsDirect(a, c + 1) THEN Append(Cursor!DirectText(a, c + 1), AllEvents[c + 1][2])
          ELSE Cursor!DirectText(a, c + 1)
    BY <1>2, <1>4, <2>1, DirectNext
  <2>3. TakesText <=> IsDirect(a, c + 1)
    BY <1>9, <1>10 DEF TakesText
  <2> QED  BY <1>1, <1>3, <1>9, <1>10, <2>2, <2>3
<1>11. ASSUME mode # "text" PROVE acc' = <<>>
  BY <1>3, <1>11 DEF TakesText
<1> QED  BY <1>6, <1>7, <1>8, <1>10, <1>11 DEF a, c, S, E

\* An iteration of a helper's loop either leaves the cursor where it is, or ends
\* the call: on the EndElement of the element it was called on, on a refused tag,
\* or with the input exhausted.
LEMMA HelperIterates ==
  ASSUME TypeOK, TypeOK', CursorInv, HelperStep
  PROVE  /\ CursorInv'
         /\ Cursor!Skip \/ Cursor!ReadText \/ UNCHANGED Cursor!cursorVars
<1> DEFINE a == EventsTo(elem)
           c == Consumed
           L == Len(AllEvents)
<1>1. /\ mode \in {"skip", "text"} /\ mode # "app" /\ elem' = elem
      /\ ReaderAt /\ HelperCounts /\ CallNext
  BY HelperStepCalls DEF HelperStep, CursorInv
<1>2. ReaderAt'
  BY <1>1, CallNextAt
<1>3. /\ CursorAt = a /\ a \in 1 .. L /\ AllEvents[a][1] = "S" /\ L \in Nat
  BY <1>1, HelperAt
<1>4. /\ a <= c /\ \A k \in a + 1 .. c : AllEvents[k][1] # "F" /\ ~Cursor!Balanced(a, k)
      /\ acc = IF mode = "text" THEN Cursor!DirectText(a, c + 1) ELSE <<>>
      /\ started /\ ~done /\ elem \in Tokens /\ doc[elem].kind = "start"
  BY <1>1 DEF HelperCounts
<1>5. CursorAt' = IF mode' # "app" THEN EventsTo(elem)'
                  ELSE IF ~started' THEN 0 ELSE IF done' THEN Consumed' + 1 ELSE Consumed'
  BY CursorIsNext
<1>6. doc' = doc => AllEvents' = AllEvents /\ \A n : EventsTo(n)' = EventsTo(n)
  BY SameEvents
<1>7. CASE Exhaust /\ mode' = "app" /\ acc' = acc
  <2>1. c = L /\ Consumed' = L /\ started' /\ done' /\ doc' = doc
    BY <1>7, ExhaustsAll
  <2>2. CursorAt' = L + 1
    BY <1>3, <1>5, <1>7, <2>1
  <2>3. Cursor!Landing(a, L + 1)
    <3> HIDE DEF a, c
    <3>1. a \in Nat /\ L + 1 \in a + 1 .. L + 1
      BY <1>3
    <3>2. \A k \in a + 1 .. (L + 1) - 1 :
            k # L + 1 /\ AllEvents[k][1] # "F" /\ ~Cursor!Balanced(a, k)
      BY <1>3, <1>4, <2>1
    <3> HIDE DEF L
    <3> QED  BY <3>1, <3>2, LandsAt DEF L
  <2>4. CursorInv'
    BY <1>2, <1>7 DEF CursorInv, NothingRead, HelperCounts, Exhaust
  <2>5. CASE mode = "text"
    <3>1. acc' = Cursor!DirectText(a, L + 1) /\ ~(L + 1 <= L)
      BY <1>3, <1>4, <1>7, <2>1, <2>5
    <3>2. Cursor!ReadText
      BY <1>1, <1>3, <1>6, <1>7, <2>1, <2>2, <2>3, <3>1 DEF Cursor!ReadText
    <3> QED  BY <2>4, <3>2
  <2>6. CASE mode = "skip"
    <3>1. acc' = <<>>
      BY <1>4, <1>7, <2>6
    <3>2. Cursor!Skip
      BY <1>1, <1>3, <1>6, <1>7, <2>1, <2>2, <2>3, <3>1 DEF Cursor!Skip
    <3> QED  BY <2>4, <3>2
  <2> QED  BY <1>1, <2>5, <2>6
<1>8. ASSUME NEW i \in Tokens, Throw(i), mode' = "app", acc' = <<>>
      PROVE  CursorInv' /\ Cursor!Skip
  <2>1. /\ c \in Nat /\ Consumed' = c + 1 /\ c + 1 <= L /\ AllEvents[c + 1][1] = "F"
        /\ started' /\ ~done' /\ doc' = doc
    BY <1>8, ThrowsNext
  <2>2. CursorAt' = c + 1
    BY <1>5, <1>8, <2>1
  <2>3. Cursor!Landing(a, c + 1)
    <3> HIDE DEF a, c
    <3>1. a \in Nat /\ c + 1 \in a + 1 .. L + 1
      BY <1>3, <1>4, <2>1
    <3>2. \A k \in a + 1 .. (c + 1) - 1 :
            k # L + 1 /\ AllEvents[k][1] # "F" /\ ~Cursor!Balanced(a, k)
      BY <1>3, <1>4, <2>1
    <3> QED  BY <2>1, <3>1, <3>2, LandsAt
  <2>4. CursorInv'
    <3>1. ret' = "throw"
      BY <1>8 DEF Throw
    <3> QED  BY <1>2, <1>8, <3>1 DEF CursorInv, NothingRead, HelperCounts
  <2> QED  BY <1>1, <1>3, <1>6, <1>8, <2>1, <2>2, <2>3, <2>4 DEF Cursor!Skip
<1>9. ASSUME Delivers, open' = HelperOpen, mode' = IF HelperOpen = 0 THEN "app" ELSE mode,
             acc' = IF TakesText THEN Append(acc, text') ELSE acc
      PROVE  CursorInv' /\ (Cursor!Skip \/ Cursor!ReadText \/ UNCHANGED Cursor!cursorVars)
  <2>1. /\ c \in Nat /\ Consumed' = c + 1 /\ c + 1 <= L /\ AllEvents[c + 1][1] = KindOf(event')
        /\ started' /\ ~done' /\ doc' = doc
    BY <1>1, <1>9, DeliversNext
  <2>2. /\ open' = Cursor!Count("S", a, c + 1) - Cursor!Count("E", a, c + 1)
        /\ open' = 0 <=> Cursor!Balanced(a, c + 1)
        /\ open' = 0 => event' = "EndElement" /\ acc' = acc
        /\ mode = "text" => acc' = Cursor!DirectText(a, c + 2)
        /\ mode # "text" => acc' = <<>>
    BY <1>1, <1>9, HelperCountsOn
  <2>3. AllEvents' = AllEvents /\ EventsTo(elem)' = a
    BY <1>1, <1>6, <2>1 DEF EventsTo
  <2>4. AllEvents[c + 1][1] # "F"
    BY <2>1 DEF KindOf
  <2>5. CASE open' = 0
    <3>1. mode' = "app" /\ CursorAt' = c + 1
      BY <1>5, <1>9, <2>1, <2>5
    <3>2. Cursor!Landing(a, c + 1)
      <4> HIDE DEF a, c
      <4>1. a \in Nat /\ c + 1 \in a + 1 .. L + 1
        BY <1>3, <1>4, <2>1
      <4>2. \A k \in a + 1 .. (c + 1) - 1 :
              k # L + 1 /\ AllEvents[k][1] # "F" /\ ~Cursor!Balanced(a, k)
        BY <1>3, <1>4, <2>1
      <4> QED  BY <2>2, <2>5, <4>1, <4>2, LandsAt
    <3>3. CursorInv'
      BY <1>2, <2>2, <2>5, <3>1 DEF CursorInv, NothingRead, HelperCounts
    <3>4. CASE mode = "text"
      <4>1. acc' = Cursor!DirectText(a, c + 1)
        BY <1>4, <2>2, <2>5, <3>4
      <4>2. Cursor!ReadText
        BY <1>1, <1>3, <2>3, <2>4, <3>1, <3>2, <4>1 DEF Cursor!ReadText
      <4> QED  BY <3>3, <4>2
    <3>5. CASE mode = "skip"
      <4>1. acc' = <<>>
        BY <2>2, <3>5
      <4>2. Cursor!Skip
        BY <1>1, <1>3, <2>3, <3>1, <3>2, <4>1 DEF Cursor!Skip
      <4> QED  BY <3>3, <4>2
    <3> QED  BY <1>1, <3>4, <3>5
  <2>6. CASE open' # 0
    <3>1. mode' = mode /\ CursorAt' = CursorAt
      BY <1>1, <1>3, <1>5, <1>9, <2>3, <2>6
    <3>2. /\ (\A kind, i, j : Cursor!Count(kind, i, j)' = Cursor!Count(kind, i, j))
          /\ (\A i, j : Cursor!Balanced(i, j)' <=> Cursor!Balanced(i, j))
          /\ (\A i, j : Cursor!DirectText(i, j)' = Cursor!DirectText(i, j))
      BY <2>3 DEF Cursor!Count, Cursor!Balanced, Cursor!DirectText
    <3>3. HelperCounts'
      <4>1. started' /\ ~done' /\ (elem \in Tokens)' /\ doc'[elem'].kind = "start"
        BY <1>1, <1>4, <2>1 DEF Tokens
      <4>2. (EventsTo(elem) <= Consumed)'
        BY <1>3, <1>4, <2>1, <2>3
      <4>3. \A k \in a + 1 .. c + 1 : AllEvents[k][1] # "F" /\ ~Cursor!Balanced(a, k)
        <5> HIDE DEF a, c
        <5>1. ASSUME NEW k \in a + 1 .. c + 1 PROVE k \in a + 1 .. c \/ k = c + 1
          BY <1>3, <2>1
        <5> QED  BY <1>4, <2>2, <2>4, <2>6, <5>1
      <4>4. (\A k \in EventsTo(elem) + 1 .. Consumed :
               AllEvents[k][1] # "F" /\ ~Cursor!Balanced(EventsTo(elem), k))'
        BY <2>1, <2>3, <3>2, <4>3
      <4>5. (open = Cursor!Count("S", EventsTo(elem), Consumed)
                      - Cursor!Count("E", EventsTo(elem), Consumed))'
        BY <2>1, <2>2, <2>3, <3>2
      <4>6. (acc = IF mode = "text" THEN Cursor!DirectText(EventsTo(elem), Consumed + 1) ELSE <<>>)'
        <5>1. Consumed' + 1 = c + 2
          BY <2>1
        <5> QED  BY <2>2, <2>3, <3>1, <3>2, <5>1
      <4> QED  BY <4>1, <4>2, <4>4, <4>5, <4>6 DEF HelperCounts
    <3>4. NothingRead'
      BY <1>1, <3>1 DEF NothingRead
    <3> QED  BY <1>1, <1>2, <2>3, <3>1, <3>3, <3>4 DEF CursorInv, Cursor!cursorVars
  <2> QED  BY <2>5, <2>6
<1> QED  BY <1>7, <1>8, <1>9 DEF HelperStep, Delivers

\* Every step of the reader is a step of the cursor or leaves it alone.
LEMMA NextCursor ==
  ASSUME TypeOK, TypeOK', CursorInv, Strict, [Next]_vars
  PROVE  CursorInv' /\ [Cursor!CNext]_(Cursor!cursorVars)
<1>1. CASE AppNext
  BY <1>1, AppAdvances DEF Cursor!CNext
<1>2. ASSUME NEW h \in {"skip", "text"}, CallHelper(h)
      PROVE  CursorInv' /\ [Cursor!CNext]_(Cursor!cursorVars)
  BY <1>2, HelperCalled DEF Cursor!CNext
<1>3. CASE HelperStep
  BY <1>3, HelperIterates DEF Cursor!CNext
<1>4. CASE UNCHANGED vars
  <2>1. /\ doc' = doc /\ pos' = pos /\ residue' = residue /\ event' = event
        /\ started' = started /\ done' = done /\ pending' = pending /\ name' = name
        /\ mode' = mode /\ open' = open /\ acc' = acc /\ elem' = elem /\ ret' = ret
    BY <1>4 DEF vars, helperVars
  <2>2. CursorInv' 
    <3>1. ReaderAt' /\ NothingRead'
      BY <2>1 DEF CursorInv, ReaderAt, NothingRead, Tokens
    <3>2. HelperCounts' = HelperCounts
      BY <2>1 DEF HelperCounts, Tokens, Consumed, EventsTo, AllEvents, Cursor!Balanced,
                  Cursor!Count, Cursor!DirectText
    <3> QED  BY <3>1, <3>2 DEF CursorInv
  <2>3. UNCHANGED Cursor!cursorVars
    BY <2>1 DEF Cursor!cursorVars, AllEvents, CursorAt, Consumed, EventsTo
  <2> QED  BY <2>2, <2>3
<1> QED  BY <1>1, <1>2, <1>3, <1>4 DEF Next

\* The reader implements the cursor, provided the application hands a helper the
\* StartElement it was just given: however many iterations a call takes and
\* whatever it meets, no event is lost, repeated or reordered, skip_element() and
\* read_element_text() land on the EndElement that balances the one they were
\* called on (or on what stops them), and the text read is the direct one.
THEOREM CursorImplemented == Strict => (Spec => ImplementsCursor)
<1> SUFFICES ASSUME Strict PROVE Spec => ImplementsCursor
  OBVIOUS
<1>1. Init => CursorInv /\ Cursor!CInit
  BY InitCursor
<1>2. TypeOK /\ TypeOK' /\ CursorInv /\ [Next]_vars
        => CursorInv' /\ [Cursor!CNext]_(Cursor!cursorVars)
  BY NextCursor
<1>3. Spec => []TypeOK
  BY TypeCorrect
<1> QED  BY <1>1, <1>2, <1>3, PTL DEF Spec, ImplementsCursor, Cursor!CSpec

=============================================================================
