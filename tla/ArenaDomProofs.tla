--------------------------- MODULE ArenaDomProofs ---------------------------
(***************************************************************************)
(* Proofs about ArenaDom: on every input dom_parse keeps its types, what   *)
(* it links is a forest, also where it loses nodes, every element has the  *)
(* attributes of its own tag, and the array shows the tree of Tree that    *)
(* the same steps build.  Then proofs about DomPools.                      *)
(***************************************************************************)
EXTENDS ArenaDom, DomPools, RecursionProofs

\* A node without links.
Fresh(node) == node \in NodeType /\ \A f \in Links : node[f] = Null

\* Linking a new node keeps the links a forest, whatever link is overwritten:
\* no other link leads to a new node.
LEMMA ChainedForest ==
  ASSUME NEW n \in Nat, n >= 2, NEW array \in [0 .. n - 1 -> NodeType], Forest(array),
         NEW new, Fresh(new), NEW owner \in 0 .. n - 1, NEW first \in Links,
         NEW last \in 0 .. n - 1
  PROVE  /\ Chained(Grown(array, n, new), owner, first, last, n) \in [0 .. n -> NodeType]
         /\ Forest(Chained(Grown(array, n, new), owner, first, last, n))
<1> DEFINE g == Grown(array, n, new)
           m == Chained(g, owner, first, last, n)
           src == IF last # Null THEN last ELSE owner
           fld == IF last # Null THEN "next_sibling" ELSE first
<1>1. /\ g \in [0 .. n -> NodeType] /\ g[n] = new
      /\ \A i \in 0 .. n - 1 : g[i] = array[i]
  BY DEF Grown, Fresh
<1> HIDE DEF g
<1>2. /\ m \in [0 .. n -> NodeType]
      /\ \A i \in 0 .. n : \A f \in Links : m[i][f] = IF i = src /\ f = fld THEN n ELSE g[i][f]
  <2>1. owner \in 0 .. n /\ last \in 0 .. n
    OBVIOUS
  <2>2. CASE last # Null
    BY <1>1, <2>1, <2>2 DEF Chained, NodeType, Links, Null
  <2>3. CASE last = Null
    <3>1. m = [g EXCEPT ![owner][first] = n] /\ src = owner /\ fld = first
      BY <2>3 DEF Chained
    <3> HIDE DEF m, src, fld
    <3>2. g[owner] \in NodeType /\ n \in Nat
      BY <1>1, <2>1
    <3>3. [g[owner] EXCEPT ![first] = n] \in NodeType
      BY <3>2 DEF NodeType, Links
    <3>4. m = [g EXCEPT ![owner] = [g[owner] EXCEPT ![first] = n]]
      BY <3>1
    <3>5. m \in [0 .. n -> NodeType]
      BY <1>1, <3>3, <3>4
    <3>6. \A f \in Links : [g[owner] EXCEPT ![first] = n][f] = IF f = first THEN n ELSE g[owner][f]
      BY <3>2 DEF NodeType, Links
    <3>7. \A i \in 0 .. n : m[i] = IF i = owner THEN [g[owner] EXCEPT ![first] = n] ELSE g[i]
      BY <1>1, <3>4
    <3> QED  BY <3>1, <3>5, <3>6, <3>7
  <2> QED  BY <2>2, <2>3
<1> HIDE DEF m
<1>3. src \in 0 .. n - 1 /\ fld \in Links
  BY DEF Links
<1> HIDE DEF src, fld
<1>4. /\ \A f \in Links : m[n][f] = Null
      /\ \A i \in 0 .. n - 1 : \A f \in Links :
           m[i][f] = IF i = src /\ f = fld THEN n ELSE array[i][f]
  BY <1>1, <1>2, <1>3 DEF Fresh
<1>5. ASSUME NEW i \in 0 .. n - 1, NEW f \in Links
      PROVE  array[i][f] = Null \/ (array[i][f] > i /\ array[i][f] \in 0 .. n - 1)
  <2>1. DOMAIN array = 0 .. n - 1
    OBVIOUS
  <2> QED  BY <2>1 DEF Forest, LinksForward
<1>6. LinksForward(m)
  BY <1>2, <1>3, <1>4, <1>5 DEF LinksForward, Null
<1>7. LinkedAtMostOnce(m)
  <2> SUFFICES ASSUME NEW i \in 0 .. n, NEW j \in 0 .. n, NEW f \in Links, NEW h \in Links,
                      m[i][f] # Null, m[i][f] = m[j][h]
               PROVE  i = j /\ f = h
    BY <1>2 DEF LinkedAtMostOnce
  <2>1. i \in 0 .. n - 1 /\ j \in 0 .. n - 1
    BY <1>4
  <2>2. array[i][f] # n /\ array[j][h] # n
    BY <2>1, <1>5 DEF Null
  <2>3. CASE i = src /\ f = fld
    BY <2>1, <2>2, <2>3, <1>4
  <2>4. CASE j = src /\ h = fld
    BY <2>1, <2>2, <2>4, <1>4
  <2>5. CASE ~(i = src /\ f = fld) /\ ~(j = src /\ h = fld)
    BY <2>1, <2>5, <1>4 DEF Forest, LinkedAtMostOnce
  <2> QED  BY <2>3, <2>4, <2>5
<1> QED  BY <1>2, <1>6, <1>7 DEF Forest, m, g

\* Within a tag its element is a node of the array, and the last child.
InTagInv == InTag(doc, pos) => elem \in 2 .. count - 1 /\ last_child = elem

IInv == TypeOK /\ doc \in Docs /\ DomIsForest /\ InTagInv

\* The empty document satisfies the invariant.
LEMMA InitInv == Init => IInv
<1> SUFFICES ASSUME Init PROVE IInv
  OBVIOUS
<1>1. doc \in Seq(Token) /\ WellLexed(doc) /\ pos \in 1 .. Len(doc) + 1 /\ ~InTag(doc, pos)
  <2>1. doc \in Seq(Token) /\ WellLexed(doc) /\ pos = 1
    BY ArenaAssumption DEF Init
  <2>2. Len(doc) \in Nat
    BY <2>1, LenProperties
  <2> QED  BY <2>1, <2>2 DEF InTag
<1>2. nodes \in [{0, 1} -> NodeType] /\ \A i \in {0, 1} : \A f \in Links : nodes[i][f] = Null
  BY DEF Init, FirstNodes, NewNode, NodeType, Null, Document, Links
<1>3. count = 2 /\ 0 .. count - 1 = {0, 1}
  BY DEF Init
<1>4. DomIsForest
  BY <1>2 DEF DomIsForest, Forest, LinksForward, LinkedAtMostOnce, Null
<1>5. stack \in Seq([parent : 1 .. count - 1, last : 1 .. count - 1]) /\ Len(stack) <= MaxStack
  BY ArenaAssumption DEF Init
<1> QED  BY <1>1, <1>2, <1>3, <1>4, <1>5 DEF Init, IInv, TypeOK, InTagInv, Null, Document

\* A longer array has every stack of a shorter one.
LEMMA StackOfMore ==
  ASSUME NEW n \in Nat, NEW st, st \in Seq([parent : 1 .. n - 1, last : 1 .. n - 1])
  PROVE  st \in Seq([parent : 1 .. n, last : 1 .. n])
<1> DEFINE S == [parent : 1 .. n - 1, last : 1 .. n - 1]
           T == [parent : 1 .. n, last : 1 .. n]
<1>1. S \subseteq T
  OBVIOUS
<1> HIDE DEF S, T
<1>2. st \in [1 .. Len(st) -> S] /\ Len(st) \in Nat
  BY LenProperties DEF S
<1>3. st \in [1 .. Len(st) -> T]
  BY <1>1, <1>2
<1>4. st \in Seq(T)
  BY <1>2, <1>3, SeqDef
<1> QED  BY <1>4 DEF T

\* A node made by the parser.
LEMMA NewNodeFresh ==
  ASSUME NEW type \in {"element", "attribute", "text", "cdata", "comment", "pi"}, NEW i \in Nat
  PROVE  Fresh(NewNode(type, i, 0))
BY DEF NewNode, Fresh, NodeType, Links, Null

\* append_child keeps the array well typed and a forest.
LEMMA AppendChildInv ==
  ASSUME TypeOK, DomIsForest,
         NEW type \in {"element", "text", "cdata", "comment", "pi"}, AppendChild(type)
  PROVE  /\ nodes' \in [0 .. count' - 1 -> NodeType] /\ Forest(nodes')
         /\ count' = count + 1 /\ last_child' = count
<1> DEFINE node == NewNode(type, pos, 0)
<1>1. /\ nodes' = Chained(Grown(nodes, count, node), current, "first_child", last_child, count)
      /\ count' = count + 1 /\ last_child' = count
  BY DEF AppendChild
<1>2. Fresh(node) /\ "first_child" \in Links
  BY NewNodeFresh DEF TypeOK, Links
<1>3. /\ count \in Nat /\ count >= 2 /\ nodes \in [0 .. count - 1 -> NodeType]
      /\ current \in 0 .. count - 1 /\ last_child \in 0 .. count - 1 /\ Forest(nodes)
  BY DEF TypeOK, DomIsForest
<1> HIDE DEF node
<1>4. /\ Chained(Grown(nodes, count, node), current, "first_child", last_child, count)
           \in [0 .. count -> NodeType]
      /\ Forest(Chained(Grown(nodes, count, node), current, "first_child", last_child, count))
  BY <1>2, <1>3, ChainedForest
<1>5. count' - 1 = count
  BY <1>1, <1>3
<1> QED  BY <1>1, <1>4, <1>5

\* One step per action.
LEMMA NextInv == IInv /\ [Next]_vars => IInv'
<1> SUFFICES ASSUME IInv, [Next]_vars PROVE IInv'
  OBVIOUS
<1> USE DEF IInv
<1>1. /\ doc \in Seq(Token) /\ WellLexed(doc) /\ Len(doc) \in Nat
      /\ count \in Nat /\ count >= 2 /\ MaxStack \in Nat
  BY ArenaAssumption, LenProperties DEF TypeOK
<1>2. ASSUME NEW kind, Reading(kind)
      PROVE  /\ pos \in Nat /\ pos \in 1 .. Len(doc) /\ doc' = doc /\ flags' = flags
             /\ doc' \in Seq(Token) /\ WellLexed(doc') /\ doc' \in Docs
             /\ pos' \in 1 .. Len(doc') + 1 /\ flags' \in FlagSets
             /\ kind \in {"attr", "gt", "sgt"} <=> InTag(doc, pos)
             /\ InTag(doc', pos') <=> kind \in {"open", "attr"}
  <2>1. /\ pos \in 1 .. Len(doc) /\ doc' = doc /\ pos' = pos + 1 /\ flags' = flags
        /\ doc[pos].kind = kind
    BY <1>1, <1>2 DEF Reading, TypeOK
  <2>2. kind \in {"attr", "gt", "sgt"} <=> InTag(doc, pos)
    BY <2>1, <1>1 DEF WellLexed
  <2>3. InTag(doc, pos') <=> kind \in {"open", "attr"}
    <3>1. pos' > 1 /\ pos' - 1 = pos
      BY <2>1
    <3> QED  BY <3>1, <2>1 DEF InTag
  <2> QED  BY <2>1, <2>2, <2>3, <1>1 DEF TypeOK
<1>3. ASSUME count' = count + 1
      PROVE  /\ stack \in Seq([parent : 1 .. count' - 1, last : 1 .. count' - 1])
             /\ current \in 1 .. count' - 1 /\ last_child \in 0 .. count' - 1
             /\ elem \in 0 .. count' - 1 /\ last_attr \in 0 .. count' - 1
             /\ count \in 2 .. count' - 1 /\ count' \in Nat \ {0, 1}
  <2>1. count' - 1 = count
    BY <1>1, <1>3
  <2>2. stack \in Seq([parent : 1 .. count, last : 1 .. count])
    BY <1>1, StackOfMore DEF TypeOK
  <2>3. /\ current \in 1 .. count /\ last_child \in 0 .. count
        /\ elem \in 0 .. count /\ last_attr \in 0 .. count
    BY <1>1 DEF TypeOK
  <2>4. count \in 2 .. count /\ count' \in Nat \ {0, 1}
    BY <1>1, <1>3
  <2> QED  BY <2>1, <2>2, <2>3, <2>4
<1>4. CASE ReadContent
  <2>1. PICK kind \in {"text", "cdata", "comment", "pi"} :
          /\ Reading(kind)
          /\ IF HiddenBy(kind) \in flags THEN UNCHANGED <<nodes, count, last_child>>
                                         ELSE AppendChild(kind)
          /\ UNCHANGED <<current, stack, elem, last_attr>>
    BY <1>4 DEF ReadContent
  <2>2. ~InTag(doc', pos')
    BY <2>1, <1>2
  <2>3. CASE HiddenBy(kind) \in flags
    BY <2>1, <2>2, <2>3, <1>2 DEF TypeOK, DomIsForest, InTagInv
  <2>4. CASE HiddenBy(kind) \notin flags
    <3>1. /\ nodes' \in [0 .. count' - 1 -> NodeType] /\ Forest(nodes')
          /\ count' = count + 1 /\ last_child' = count
      BY <2>1, <2>4, AppendChildInv
    <3> QED  BY <2>1, <2>2, <3>1, <1>1, <1>2, <1>3 DEF TypeOK, DomIsForest, InTagInv
  <2> QED  BY <2>3, <2>4
<1>5. CASE ReadOther
  <2>1. Reading("skip") /\ ~InTag(doc', pos')
    BY <1>5, <1>2 DEF ReadOther
  <2> QED  BY <2>1, <1>5, <1>2 DEF ReadOther, TypeOK, DomIsForest, InTagInv
<1>6. CASE ReadOpen
  <2>1. /\ nodes' \in [0 .. count' - 1 -> NodeType] /\ Forest(nodes')
        /\ count' = count + 1 /\ last_child' = count
    BY <1>6, AppendChildInv DEF ReadOpen
  <2>2. /\ Reading("open") /\ elem' = count /\ last_attr' = Null
        /\ current' = current /\ stack' = stack
    BY <1>6 DEF ReadOpen, LastAttrAtTag
  <2> QED  BY <2>1, <2>2, <1>1, <1>2, <1>3 DEF TypeOK, DomIsForest, InTagInv, Null
<1>7. CASE ReadAttribute
  <2> DEFINE node == NewNode("attribute", pos, 0)
  <2>1. /\ Reading("attr")
        /\ nodes' = Chained(Grown(nodes, count, node), elem, "first_attr", last_attr, count)
        /\ count' = count + 1 /\ last_attr' = count
        /\ UNCHANGED <<current, last_child, stack, elem>>
    BY <1>7 DEF ReadAttribute
  <2>2. Fresh(node) /\ "first_attr" \in Links
    BY NewNodeFresh DEF TypeOK, Links
  <2>3. /\ nodes \in [0 .. count - 1 -> NodeType] /\ Forest(nodes)
        /\ elem \in 0 .. count - 1 /\ last_attr \in 0 .. count - 1
    BY DEF TypeOK, DomIsForest
  <2> HIDE DEF node
  <2>4. /\ Chained(Grown(nodes, count, node), elem, "first_attr", last_attr, count)
             \in [0 .. count -> NodeType]
        /\ Forest(Chained(Grown(nodes, count, node), elem, "first_attr", last_attr, count))
    BY <2>2, <2>3, <1>1, ChainedForest
  <2>5. nodes' \in [0 .. count' - 1 -> NodeType] /\ Forest(nodes')
    <3>1. count' - 1 = count
      BY <2>1, <1>1
    <3> QED  BY <2>1, <2>4, <3>1
  <2>6. elem \in 2 .. count' - 1 /\ last_child = elem
    BY <2>1, <1>1, <1>2 DEF InTagInv
  <2> QED  BY <2>1, <2>5, <2>6, <1>1, <1>2, <1>3 DEF TypeOK, DomIsForest, InTagInv
<1>8. CASE ReadOpenEnd
  <2>1. /\ Reading("gt") /\ stack' = Saved(stack) /\ current' = elem /\ last_child' = Null
        /\ UNCHANGED <<nodes, count, elem, last_attr>>
    BY <1>8 DEF ReadOpenEnd
  <2>2. elem \in 2 .. count - 1 /\ last_child = elem /\ ~InTag(doc', pos')
    BY <2>1, <1>2 DEF InTagInv
  <2>3. elem \in 1 .. count - 1 /\ last_child \in 1 .. count - 1
    BY <2>2, <1>1
  <2>4. /\ stack' \in Seq([parent : 1 .. count' - 1, last : 1 .. count' - 1])
        /\ Len(stack') <= MaxStack
    <3> DEFINE E == [parent : 1 .. count - 1, last : 1 .. count - 1]
               new == [parent |-> current, last |-> last_child]
    <3>1. stack \in Seq(E) /\ Len(stack) <= MaxStack /\ Len(stack) \in Nat
      BY LenProperties DEF TypeOK
    <3>2. new \in E
      BY <2>3 DEF TypeOK
    <3> HIDE DEF E, new
    <3>3. Append(stack, new) \in Seq(E) /\ Len(Append(stack, new)) = Len(stack) + 1
      BY <3>1, <3>2, AppendProperties
    <3>4. stack' \in Seq(E) /\ Len(stack') <= MaxStack
      BY <2>1, <3>1, <3>3, <1>1 DEF Saved, new
    <3> QED  BY <2>1, <3>4 DEF E
  <2> QED  BY <2>1, <2>2, <2>3, <2>4, <1>1, <1>2 DEF TypeOK, DomIsForest, InTagInv, Null
<1>9. CASE ReadSelfClosingEnd
  <2>1. Reading("sgt") /\ ~InTag(doc', pos')
    BY <1>9, <1>2 DEF ReadSelfClosingEnd
  <2> QED  BY <2>1, <1>9, <1>2 DEF ReadSelfClosingEnd, TypeOK, DomIsForest, InTagInv
<1>10. CASE ReadEndTag
  <2>1. /\ Reading("end") /\ current' = RestoredParent /\ last_child' = RestoredLastChild
        /\ stack' = IF stack = <<>> THEN stack ELSE Front(stack)
        /\ UNCHANGED <<nodes, count, elem, last_attr>>
    BY <1>10 DEF ReadEndTag
  <2>2. ~InTag(doc', pos')
    BY <2>1, <1>2
  <2>3. /\ stack' \in Seq([parent : 1 .. count' - 1, last : 1 .. count' - 1])
        /\ Len(stack') <= MaxStack
        /\ current' \in 1 .. count' - 1 /\ last_child' \in 0 .. count' - 1
    <3> DEFINE E == [parent : 1 .. count - 1, last : 1 .. count - 1]
    <3>1. /\ stack \in Seq(E) /\ Len(stack) <= MaxStack /\ Len(stack) \in Nat
          /\ stack \in [1 .. Len(stack) -> E]
      BY LenProperties DEF TypeOK
    <3>2. CASE stack = <<>>
      BY <2>1, <3>1, <3>2, <1>1 DEF RestoredParent, RestoredLastChild, Null, Document
    <3>3. CASE stack # <<>>
      <4>1. Len(stack) \in 1 .. Len(stack)
        BY <3>1, <3>3, EmptySeq
      <4>2. stack[Len(stack)] \in E
        BY <3>1, <4>1
      <4>3. current' = stack[Len(stack)].parent /\ last_child' = stack[Len(stack)].last
        BY <2>1, <3>3 DEF RestoredParent, RestoredLastChild, Last
      <4>4. current' \in 1 .. count - 1 /\ last_child' \in 0 .. count - 1
        BY <4>2, <4>3
      <4> HIDE DEF E
      <4>5. /\ SubSeq(stack, 1, Len(stack) - 1) \in Seq(E)
            /\ Len(SubSeq(stack, 1, Len(stack) - 1)) = IF 1 <= Len(stack) - 1
                                                       THEN Len(stack) - 1 - 1 + 1 ELSE 0
        BY <3>1, <4>1, SubSeqProperties
      <4>6. stack' \in Seq(E) /\ Len(stack') <= MaxStack
        BY <2>1, <3>1, <3>3, <4>1, <4>5, <1>1 DEF Front
      <4> QED  BY <2>1, <4>4, <4>6 DEF E
    <3> QED  BY <3>2, <3>3
  <2> QED  BY <2>1, <2>2, <2>3, <1>1, <1>2 DEF TypeOK, DomIsForest, InTagInv
<1>11. CASE UNCHANGED vars
  BY <1>11 DEF vars, TypeOK, DomIsForest, InTagInv
<1> QED
  BY <1>4, <1>5, <1>6, <1>7, <1>8, <1>9, <1>10, <1>11 DEF Next

-----------------------------------------------------------------------------
(* The attributes.                                                         *)

\* What an array keeps of another when a node is added at its end.
Placed(m, array, n, new, owner, first, last) ==
  /\ m \in [0 .. n -> NodeType]
  /\ m[n].type = new.type /\ m[n].at = new.at
  /\ m[n].next_sibling = Null /\ m[n].first_attr = Null
  /\ \A i \in 0 .. n - 1 :
       /\ m[i].type = array[i].type /\ m[i].at = array[i].at
       /\ m[i].next_sibling = IF last # Null /\ i = last THEN n ELSE array[i].next_sibling
       /\ m[i].first_attr = IF last = Null /\ i = owner /\ first = "first_attr"
                            THEN n ELSE array[i].first_attr

LEMMA ChainedPlaces ==
  ASSUME NEW n \in Nat, n >= 2, NEW array \in [0 .. n - 1 -> NodeType],
         NEW new, Fresh(new), NEW owner \in 0 .. n - 1,
         NEW first \in {"first_child", "first_attr"}, NEW last \in 0 .. n - 1
  PROVE  Placed(Chained(Grown(array, n, new), owner, first, last, n),
                array, n, new, owner, first, last)
<1> DEFINE g == Grown(array, n, new)
           m == Chained(g, owner, first, last, n)
<1>1. /\ g \in [0 .. n -> NodeType] /\ g[n] = new /\ new \in NodeType
      /\ \A i \in 0 .. n - 1 : g[i] = array[i] /\ i \in 0 .. n
      /\ owner \in 0 .. n /\ last \in 0 .. n /\ owner # n /\ last # n /\ n \in 0 .. n
  BY DEF Grown, Fresh
<1>2. new.next_sibling = Null /\ new.first_attr = Null
  <2>1. new["next_sibling"] = Null /\ new["first_attr"] = Null
    BY DEF Fresh, Links
  <2> QED  BY <1>1, <2>1 DEF NodeType
<1>3. g[owner] \in NodeType /\ g[last] \in NodeType
  BY <1>1
<1> HIDE DEF g
<1>4. CASE last # Null
  <2> DEFINE node == [g[last] EXCEPT !.next_sibling = n]
  <2>1. m = [g EXCEPT ![last] = node]
    BY <1>4 DEF Chained
  <2>2. /\ node \in NodeType /\ node.type = g[last].type /\ node.at = g[last].at
        /\ node.first_attr = g[last].first_attr /\ node.next_sibling = n
    BY <1>1, <1>3 DEF NodeType
  <2> HIDE DEF node, m
  <2>3. m \in [0 .. n -> NodeType] /\ \A i \in 0 .. n : m[i] = IF i = last THEN node ELSE g[i]
    BY <1>1, <2>1, <2>2
  <2> QED  BY <1>1, <1>2, <1>4, <2>2, <2>3 DEF Placed, g, m
<1>5. CASE last = Null
  <2> DEFINE node == [g[owner] EXCEPT ![first] = n]
  <2>1. m = [g EXCEPT ![owner] = node]
    BY <1>5 DEF Chained
  <2>2. /\ node \in NodeType /\ node.type = g[owner].type /\ node.at = g[owner].at
        /\ node.next_sibling = g[owner].next_sibling
        /\ node.first_attr = IF first = "first_attr" THEN n ELSE g[owner].first_attr
    BY <1>1, <1>3 DEF NodeType
  <2> HIDE DEF node, m
  <2>3. m \in [0 .. n -> NodeType] /\ \A i \in 0 .. n : m[i] = IF i = owner THEN node ELSE g[i]
    BY <1>1, <2>1, <2>2
  <2> QED  BY <1>1, <1>2, <1>5, <2>2, <2>3 DEF Placed, g, m
<1> QED  BY <1>4, <1>5

\* The m nodes behind node k.
Run(k, m) == [a \in 1 .. m |-> k + a]

\* Those are the attributes of node k, and come from the m tokens behind its own.
HasAttrs(dc, array, n, k, m) ==
  /\ k + m <= n - 1
  /\ IsChain(array, array[k].first_attr, Run(k, m))
  /\ \A a \in 1 .. m : /\ array[k + a].type = "attribute" /\ array[k + a].at = array[k].at + a
                       /\ dc[array[k].at + a].kind = "attr"
  /\ array[k].type # "element" => m = 0

\* The tag had no more of them.
Closed(dc, array, read, k, m) ==
  array[k].at + m + 1 < read /\ dc[array[k].at + m + 1].kind # "attr"

\* Within a tag its element and its attributes are the last nodes.
TagAttrs ==
  \E m \in Nat :
    /\ HasAttrs(doc, nodes, count, elem, m) /\ nodes[elem].type = "element"
    /\ elem + m = count - 1 /\ nodes[elem].at + m = pos - 1
    /\ last_attr = IF m = 0 THEN Null ELSE count - 1

AttrInv ==
  /\ \A k \in 0 .. count - 1 : \E m \in Nat :
       /\ HasAttrs(doc, nodes, count, k, m)
       /\ nodes[k].type = "element" /\ ~(InTag(doc, pos) /\ k = elem)
            => Closed(doc, nodes, pos, k, m)
  /\ InTag(doc, pos) => TagAttrs
  /\ last_child # Null => nodes[last_child].type # "attribute"
  /\ \A j \in 1 .. Len(stack) : nodes[stack[j].last].type # "attribute"

LEMMA RunIs ==
  ASSUME NEW k \in Nat, NEW m \in Nat
  PROVE  Run(k, m) \in Seq(Nat) /\ Len(Run(k, m)) = m /\ \A a \in 1 .. m : Run(k, m)[a] = k + a
BY IsASeq DEF Run

LEMMA NoRun ==
  ASSUME NEW k \in Nat
  PROVE  Run(k, 0) = <<>>
BY RunIs, EmptySeq

\* A node keeps its attributes when no link between them is written.
LEMMA RunKept ==
  ASSUME NEW dc, NEW n \in Nat, NEW array \in [0 .. n - 1 -> NodeType], NEW k \in 0 .. n - 1,
         NEW m \in Nat, HasAttrs(dc, array, n, k, m),
         NEW r \in Nat, n <= r, NEW more \in [0 .. r - 1 -> NodeType],
         \A i \in 0 .. n - 1 : more[i].type = array[i].type /\ more[i].at = array[i].at,
         more[k].first_attr = array[k].first_attr,
         \A a \in 1 .. m : more[k + a].next_sibling = array[k + a].next_sibling
  PROVE  HasAttrs(dc, more, r, k, m)
<1>1. k \in Nat /\ k + m <= n - 1 /\ k + m <= r - 1 /\ \A a \in 1 .. m : k + a \in 0 .. n - 1
  BY DEF HasAttrs
<1>2. IsChain(more, array[k].first_attr, Run(k, m))
  <2>1. Len(Run(k, m)) = m /\ \A a \in 1 .. m : Run(k, m)[a] = k + a
    BY <1>1, RunIs
  <2>2. DOMAIN array \subseteq DOMAIN more
    OBVIOUS
  <2>3. \A a \in 1 .. Len(Run(k, m)) :
          more[Run(k, m)[a]].next_sibling = array[Run(k, m)[a]].next_sibling
    BY <2>1
  <2>4. IsChain(array, array[k].first_attr, Run(k, m))
    BY DEF HasAttrs
  <2> QED  BY <2>2, <2>3, <2>4, ChainKept
<1> QED  BY <1>1, <1>2 DEF HasAttrs

\* The element at the end of the array gets one attribute more.
LEMMA RunGrown ==
  ASSUME NEW dc, NEW n \in Nat, NEW array \in [0 .. n - 1 -> NodeType], NEW k \in 0 .. n - 1,
         NEW m \in Nat, HasAttrs(dc, array, n, k, m), k + m = n - 1, array[k].type = "element",
         NEW new, new.type = "attribute", new.at = array[k].at + m + 1, dc[new.at].kind = "attr",
         NEW more, Placed(more, array, n, new, k, "first_attr", IF m = 0 THEN Null ELSE n - 1)
  PROVE  HasAttrs(dc, more, n + 1, k, m + 1)
<1> DEFINE s == Run(k, m)
<1>1. /\ k \in Nat /\ n = k + m + 1 /\ \A a \in 1 .. m : k + a \in 0 .. n - 1
      /\ array[k].at \in Nat
  <2>1. array[k] \in NodeType
    OBVIOUS
  <2>2. array[k].at \in Nat
    BY <2>1 DEF NodeType
  <2>3. k \in Nat /\ n = k + m + 1 /\ \A a \in 1 .. m : k + a \in 0 .. n - 1
    OBVIOUS
  <2> QED  BY <2>2, <2>3
<1>2. s \in Seq(Nat) /\ Len(s) = m /\ \A a \in 1 .. m : s[a] = k + a
  BY <1>1, RunIs
<1>3. Run(k, m + 1) = Append(s, n)
  <2>1. /\ Append(s, n) \in Seq(Nat) /\ Len(Append(s, n)) = m + 1 /\ Append(s, n)[m + 1] = n
        /\ \A a \in 1 .. m : Append(s, n)[a] = s[a]
    BY <1>2, AppendProperties
  <2>2. /\ Run(k, m + 1) \in Seq(Nat) /\ Len(Run(k, m + 1)) = m + 1
        /\ \A a \in 1 .. m + 1 : Run(k, m + 1)[a] = k + a
    BY <1>1, RunIs
  <2>3. \A a \in 1 .. m + 1 : Append(s, n)[a] = Run(k, m + 1)[a]
    <3> SUFFICES ASSUME NEW a \in 1 .. m + 1 PROVE Append(s, n)[a] = Run(k, m + 1)[a]
      OBVIOUS
    <3>1. CASE a \in 1 .. m
      BY <1>2, <2>1, <2>2, <3>1
    <3>2. CASE a = m + 1
      <4>1. Run(k, m + 1)[a] = k + (m + 1) /\ k + (m + 1) = n
        BY <1>1, <2>2, <3>2
      <4> QED  BY <2>1, <3>2, <4>1
    <3>3. a \in 1 .. m \/ a = m + 1
      OBVIOUS
    <3> QED  BY <3>1, <3>2, <3>3
  <2> QED  BY <2>1, <2>2, <2>3, SeqEqual
<1> HIDE DEF s
<1>4. /\ more \in [0 .. n -> NodeType]
      /\ more[n].type = "attribute" /\ more[n].at = array[k].at + m + 1
      /\ more[n].next_sibling = Null
      /\ \A i \in 0 .. n - 1 :
           /\ more[i].type = array[i].type /\ more[i].at = array[i].at
           /\ more[i].next_sibling = IF m # 0 /\ i = n - 1 THEN n ELSE array[i].next_sibling
           /\ more[i].first_attr = IF m = 0 /\ i = k THEN n ELSE array[i].first_attr
  <2> DEFINE last == IF m = 0 THEN Null ELSE n - 1
  <2>1. last # Null <=> m # 0
    BY <1>1 DEF Null
  <2>2. \A i : m # 0 => (i = last <=> i = n - 1)
    OBVIOUS
  <2>3. Placed(more, array, n, new, k, "first_attr", last)
    OBVIOUS
  <2> HIDE DEF last
  <2>4. /\ more \in [0 .. n -> NodeType]
        /\ more[n].type = new.type /\ more[n].at = new.at /\ more[n].next_sibling = Null
        /\ \A i \in 0 .. n - 1 :
             /\ more[i].type = array[i].type /\ more[i].at = array[i].at
             /\ more[i].next_sibling = IF last # Null /\ i = last THEN n ELSE array[i].next_sibling
             /\ more[i].first_attr = IF last = Null /\ i = k THEN n ELSE array[i].first_attr
    BY <2>3 DEF Placed
  <2> QED  BY <2>1, <2>2, <2>4
<1>5. IsChain(more, more[k].first_attr, Append(s, n))
  <2>1. IsChain(array, array[k].first_attr, s)
    BY DEF HasAttrs, s
  <2>2. DOMAIN array \subseteq DOMAIN more /\ n \in DOMAIN more \ {Null}
    BY <1>1, <1>4 DEF Null
  <2>3. \A a \in 1 .. Len(s) - 1 : more[s[a]].next_sibling = array[s[a]].next_sibling
    <3> SUFFICES ASSUME NEW a \in 1 .. m - 1
                 PROVE  more[s[a]].next_sibling = array[s[a]].next_sibling
      BY <1>2
    <3>1. a \in 1 .. m /\ k + a \in 0 .. n - 1 /\ k + a # n - 1
      BY <1>1
    <3> QED  BY <1>2, <1>4, <3>1
  <2>4. s = <<>> <=> m = 0
    BY <1>2, EmptySeq
  <2>5. s # <<>> => more[s[Len(s)]].next_sibling = n
    <3>1. m # 0 => m \in 1 .. m /\ k + m = n - 1 /\ n - 1 \in 0 .. n - 1
      BY <1>1
    <3> QED  BY <1>2, <1>4, <2>4, <3>1
  <2>6. more[k].first_attr = IF s = <<>> THEN n ELSE array[k].first_attr
    BY <1>4, <2>4
  <2>7. IsChain(more, IF s = <<>> THEN n ELSE array[k].first_attr, Append(s, n))
    BY <1>4, <2>1, <2>2, <2>3, <2>5, ChainAppended
  <2> QED  BY <2>6, <2>7
<1>6. ASSUME NEW a \in 1 .. m + 1
      PROVE  /\ more[k + a].type = "attribute" /\ more[k + a].at = more[k].at + a
             /\ dc[more[k].at + a].kind = "attr"
  <2>1. CASE a \in 1 .. m
    BY <1>1, <1>4, <2>1 DEF HasAttrs
  <2>2. CASE a = m + 1
    <3>1. more[k].at = array[k].at /\ array[k].at \in Nat
      BY <1>1, <1>4
    <3>2. k + a = n /\ array[k].at + a = array[k].at + m + 1
      <4> DEFINE at == array[k].at
      <4>1. at \in Nat
        BY <3>1
      <4> HIDE DEF at
      <4>2. k + a = n /\ at + a = at + m + 1
        BY <1>1, <2>2, <4>1
      <4> QED  BY <4>2 DEF at
    <3> QED  BY <1>4, <3>1, <3>2
  <2> QED  BY <2>1, <2>2
<1>7. k + (m + 1) <= (n + 1) - 1
  BY <1>1
<1> QED  BY <1>3, <1>4, <1>5, <1>6, <1>7 DEF HasAttrs

\* What reading a construct says.
LEMMA ReadingIs ==
  ASSUME IInv, NEW kind, Reading(kind)
  PROVE  /\ pos \in 1 .. Len(doc) /\ pos \in Nat /\ doc[pos].kind = kind
         /\ doc' = doc /\ pos' = pos + 1
         /\ kind \in {"attr", "gt", "sgt"} <=> InTag(doc, pos)
         /\ InTag(doc', pos') <=> kind \in {"open", "attr"}
<1>1. doc \in Seq(Token) /\ WellLexed(doc) /\ Len(doc) \in Nat
  BY LenProperties DEF IInv, TypeOK
<1>2. /\ pos \in 1 .. Len(doc) /\ pos \in Nat /\ doc[pos].kind = kind
      /\ doc' = doc /\ pos' = pos + 1
  BY <1>1 DEF Reading, IInv, TypeOK
<1>3. kind \in {"attr", "gt", "sgt"} <=> InTag(doc, pos)
  BY <1>1, <1>2 DEF WellLexed
<1>4. InTag(doc', pos') <=> kind \in {"open", "attr"}
  <2>1. pos' > 1 /\ pos' - 1 = pos
    BY <1>2
  <2> QED  BY <1>2, <2>1 DEF InTag
<1> QED  BY <1>2, <1>3, <1>4

\* What is closed stays so when more is read and data are kept.
LEMMA ClosedKept ==
  ASSUME NEW dc, NEW array, NEW more, NEW k, array[k].at \in Nat, more[k].at = array[k].at,
         NEW m \in Nat, NEW read \in Nat, Closed(dc, array, read, k, m)
  PROVE  Closed(dc, more, read + 1, k, m)
BY DEF Closed

\* A child is added outside a tag: every element keeps its attributes.
LEMMA ChildKeepsAttrs ==
  ASSUME IInv, AttrInv, ~InTag(doc, pos), doc' = doc, pos' = pos + 1,
         NEW type \in {"element", "text", "cdata", "comment", "pi"}, AppendChild(type)
  PROVE  /\ count' = count + 1 /\ last_child' = count /\ last_child' # Null
         /\ nodes' \in [0 .. count -> NodeType]
         /\ nodes'[count].type = type /\ nodes'[count].at = pos
         /\ \A k \in 0 .. count - 1 : nodes'[k].type = nodes[k].type
         /\ \A k \in 0 .. count : \E m \in Nat :
              /\ HasAttrs(doc', nodes', count', k, m)
              /\ nodes'[k].type = "element" /\ k # count => Closed(doc', nodes', pos', k, m)
              /\ k = count => m = 0
<1> DEFINE node == NewNode(type, pos, 0)
<1>1. /\ count \in Nat /\ count >= 2 /\ nodes \in [0 .. count - 1 -> NodeType]
      /\ current \in 0 .. count - 1 /\ last_child \in 0 .. count - 1 /\ pos \in Nat
      /\ Len(doc) \in Nat
  BY LenProperties DEF IInv, TypeOK
<1>2. Fresh(node) /\ node.type = type /\ node.at = pos
  BY <1>1, NewNodeFresh DEF NewNode
<1>3. /\ nodes' = Chained(Grown(nodes, count, node), current, "first_child", last_child, count)
      /\ count' = count + 1 /\ last_child' = count
  BY DEF AppendChild
<1> HIDE DEF node
<1>4. Placed(nodes', nodes, count, node, current, "first_child", last_child)
  BY <1>1, <1>2, <1>3, ChainedPlaces
<1>5. /\ nodes' \in [0 .. count -> NodeType]
      /\ nodes'[count].type = type /\ nodes'[count].at = pos
      /\ nodes'[count].first_attr = Null
      /\ \A i \in 0 .. count - 1 :
           /\ nodes'[i].type = nodes[i].type /\ nodes'[i].at = nodes[i].at
           /\ nodes'[i].next_sibling = IF last_child # Null /\ i = last_child THEN count
                                       ELSE nodes[i].next_sibling
           /\ nodes'[i].first_attr = nodes[i].first_attr
  BY <1>2, <1>4 DEF Placed
<1>6. ASSUME NEW k \in 0 .. count - 1
      PROVE  \E m \in Nat : /\ HasAttrs(doc', nodes', count', k, m)
                            /\ nodes'[k].type = "element" => Closed(doc', nodes', pos', k, m)
  <2>1. PICK m \in Nat : /\ HasAttrs(doc, nodes, count, k, m)
                         /\ nodes[k].type = "element" => Closed(doc, nodes, pos, k, m)
    BY DEF AttrInv
  <2>2. \A a \in 1 .. m : nodes'[k + a].next_sibling = nodes[k + a].next_sibling
    <3> SUFFICES ASSUME NEW a \in 1 .. m
                 PROVE  nodes'[k + a].next_sibling = nodes[k + a].next_sibling
      OBVIOUS
    <3>1. k + a \in 0 .. count - 1 /\ nodes[k + a].type = "attribute"
      <4>1. k + m <= count - 1 /\ nodes[k + a].type = "attribute"
        BY <2>1 DEF HasAttrs
      <4> QED  BY <1>1, <4>1
    <3>2. ~(last_child # Null /\ k + a = last_child)
      BY <3>1 DEF AttrInv
    <3> QED  BY <1>5, <3>1, <3>2
  <2>3. HasAttrs(doc, nodes', count + 1, k, m)
    <3>1. count + 1 \in Nat /\ count <= count + 1 /\ (count + 1) - 1 = count
      BY <1>1
    <3> QED  BY <1>1, <1>5, <2>1, <2>2, <3>1, RunKept
  <2>4. nodes[k].type = "element" => Closed(doc, nodes', pos + 1, k, m)
    <3>1. nodes[k].at \in Nat
      BY <1>1 DEF NodeType
    <3> QED  BY <1>1, <1>5, <2>1, <3>1, ClosedKept
  <2> QED  BY <1>3, <1>5, <2>3, <2>4
<1>7. HasAttrs(doc', nodes', count', count, 0)
  <2>1. IsChain(nodes', nodes'[count].first_attr, Run(count, 0))
    BY <1>1, <1>5, NoRun, NoChain
  <2> QED  BY <1>1, <1>3, <2>1 DEF HasAttrs
<1>8. \A k \in 0 .. count : k \in 0 .. count - 1 \/ k = count
  BY <1>1
<1>9. \A k \in 0 .. count - 1 : k # count
  BY <1>1
<1>10. \A k \in 0 .. count : \E m \in Nat :
         /\ HasAttrs(doc', nodes', count', k, m)
         /\ nodes'[k].type = "element" /\ k # count => Closed(doc', nodes', pos', k, m)
         /\ k = count => m = 0
  <2> SUFFICES ASSUME NEW k \in 0 .. count
               PROVE  \E m \in Nat :
                        /\ HasAttrs(doc', nodes', count', k, m)
                        /\ nodes'[k].type = "element" /\ k # count
                             => Closed(doc', nodes', pos', k, m)
                        /\ k = count => m = 0
    OBVIOUS
  <2>1. CASE k = count
    BY <1>7, <2>1
  <2>2. CASE k # count
    BY <1>6, <1>8, <2>2
  <2> QED  BY <2>1, <2>2
<1>11. count # Null
  BY <1>1 DEF Null
<1> QED  BY <1>3, <1>5, <1>10, <1>11

\* An attribute is added to the last element: to its attributes, and to no other's.
LEMMA AttributeAddsOne ==
  ASSUME IInv, AttrInv, ReadAttribute
  PROVE  /\ count' = count + 1
         /\ \A k \in 0 .. count - 1 : nodes'[k].type = nodes[k].type
         /\ \A k \in 0 .. count : \E m \in Nat :
              /\ HasAttrs(doc', nodes', count', k, m)
              /\ nodes'[k].type = "element" /\ k # elem => Closed(doc', nodes', pos', k, m)
         /\ TagAttrs'
<1> DEFINE node == NewNode("attribute", pos, 0)
<1>1. /\ nodes' = Chained(Grown(nodes, count, node), elem, "first_attr", last_attr, count)
      /\ count' = count + 1 /\ last_attr' = count /\ elem' = elem
      /\ pos \in 1 .. Len(doc) /\ pos \in Nat /\ doc[pos].kind = "attr"
      /\ doc' = doc /\ pos' = pos + 1 /\ InTag(doc, pos)
  BY ReadingIs DEF ReadAttribute
<1>2. /\ count \in Nat /\ count >= 2 /\ nodes \in [0 .. count - 1 -> NodeType]
      /\ elem \in 2 .. count - 1 /\ elem \in 0 .. count - 1 /\ last_attr \in 0 .. count - 1
      /\ elem \in Nat
  BY <1>1 DEF IInv, TypeOK, InTagInv
<1>3. Fresh(node) /\ node.type = "attribute" /\ node.at = pos
  BY <1>1, NewNodeFresh DEF NewNode
<1> HIDE DEF node
<1>4. Placed(nodes', nodes, count, node, elem, "first_attr", last_attr)
  BY <1>1, <1>2, <1>3, ChainedPlaces
<1>5. /\ nodes' \in [0 .. count -> NodeType]
      /\ nodes'[count].type = "attribute" /\ nodes'[count].at = pos
      /\ nodes'[count].first_attr = Null
      /\ \A i \in 0 .. count - 1 :
           /\ nodes'[i].type = nodes[i].type /\ nodes'[i].at = nodes[i].at
           /\ nodes'[i].next_sibling = IF last_attr # Null /\ i = last_attr THEN count
                                       ELSE nodes[i].next_sibling
           /\ nodes'[i].first_attr = IF last_attr = Null /\ i = elem THEN count
                                     ELSE nodes[i].first_attr
  BY <1>3, <1>4 DEF Placed
<1>6. PICK len \in Nat :
        /\ HasAttrs(doc, nodes, count, elem, len) /\ nodes[elem].type = "element"
        /\ elem + len = count - 1 /\ nodes[elem].at + len = pos - 1
        /\ last_attr = IF len = 0 THEN Null ELSE count - 1
  BY <1>1 DEF AttrInv, TagAttrs
<1>7. HasAttrs(doc, nodes', count + 1, elem, len + 1)
  <2>1. nodes[elem].at \in Nat
    BY <1>2 DEF NodeType
  <2>2. node.at = nodes[elem].at + len + 1 /\ doc[node.at].kind = "attr"
    BY <1>1, <1>3, <1>6, <2>1
  <2> QED  BY <1>2, <1>3, <1>4, <1>6, <2>2, RunGrown
<1>8. ASSUME NEW k \in 0 .. count - 1, k # elem
      PROVE  \E m \in Nat : /\ HasAttrs(doc', nodes', count', k, m)
                            /\ nodes'[k].type = "element" => Closed(doc', nodes', pos', k, m)
  <2>1. PICK m \in Nat : /\ HasAttrs(doc, nodes, count, k, m)
                         /\ nodes[k].type = "element" => Closed(doc, nodes, pos, k, m)
    BY <1>8 DEF AttrInv
  <2>2. \A a \in 1 .. m : nodes'[k + a].next_sibling = nodes[k + a].next_sibling
    <3> SUFFICES ASSUME NEW a \in 1 .. m
                 PROVE  nodes'[k + a].next_sibling = nodes[k + a].next_sibling
      OBVIOUS
    <3>1. k + m <= count - 1 /\ \A b \in 1 .. m : nodes[k + b].type = "attribute"
      BY <2>1 DEF HasAttrs
    <3>2. k + a \in 0 .. count - 1
      BY <1>2, <3>1
    <3>3. ~(last_attr # Null /\ k + a = last_attr)
      <4> SUFFICES ASSUME last_attr # Null, k + a = last_attr PROVE FALSE
        OBVIOUS
      <4>1. len # 0 /\ k + a = elem + len
        BY <1>6
      <4>2. CASE k < elem
        <5>1. elem - k \in 1 .. m /\ k + (elem - k) = elem
          BY <1>2, <4>1, <4>2
        <5> QED  BY <1>6, <3>1, <5>1
      <4>3. CASE k > elem
        <5>1. k - elem \in 1 .. len /\ elem + (k - elem) = k
          BY <1>2, <4>1, <4>3
        <5>2. nodes[k].type = "attribute"
          BY <1>6, <5>1 DEF HasAttrs
        <5>3. m = 0
          BY <2>1, <5>2 DEF HasAttrs
        <5> QED  BY <5>3
      <4> QED  BY <1>2, <1>8, <4>2, <4>3
    <3> QED  BY <1>5, <3>2, <3>3
  <2>3. HasAttrs(doc, nodes', count + 1, k, m)
    <3>1. count + 1 \in Nat /\ count <= count + 1 /\ (count + 1) - 1 = count
      BY <1>2
    <3>2. nodes'[k].first_attr = nodes[k].first_attr
      BY <1>5, <1>8
    <3> QED  BY <1>2, <1>5, <2>1, <2>2, <3>1, <3>2, RunKept
  <2>4. nodes[k].type = "element" => Closed(doc, nodes', pos + 1, k, m)
    <3>1. nodes[k].at \in Nat
      BY <1>2 DEF NodeType
    <3> QED  BY <1>1, <1>5, <2>1, <3>1, ClosedKept
  <2> QED  BY <1>1, <1>5, <2>3, <2>4
<1>9. HasAttrs(doc', nodes', count', count, 0)
  <2>1. IsChain(nodes', nodes'[count].first_attr, Run(count, 0))
    BY <1>2, <1>5, NoRun, NoChain
  <2> QED  BY <1>1, <1>2, <2>1 DEF HasAttrs
<1>10. \A k \in 0 .. count : \E m \in Nat :
         /\ HasAttrs(doc', nodes', count', k, m)
         /\ nodes'[k].type = "element" /\ k # elem => Closed(doc', nodes', pos', k, m)
  <2> SUFFICES ASSUME NEW k \in 0 .. count
               PROVE  \E m \in Nat :
                        /\ HasAttrs(doc', nodes', count', k, m)
                        /\ nodes'[k].type = "element" /\ k # elem
                             => Closed(doc', nodes', pos', k, m)
    OBVIOUS
  <2>1. CASE k = count
    BY <1>5, <1>9, <2>1
  <2>2. CASE k = elem
    <3>1. len + 1 \in Nat
      OBVIOUS
    <3> QED  BY <1>1, <1>7, <2>2, <3>1
  <2>3. CASE k # count /\ k # elem
    <3>1. k \in 0 .. count - 1
      BY <1>2, <2>3
    <3> QED  BY <1>8, <2>3, <3>1
  <2> QED  BY <2>1, <2>2, <2>3
<1>11. TagAttrs'
  <2> DEFINE m == len + 1
  <2>1. m \in Nat /\ m # 0
    OBVIOUS
  <2>2. HasAttrs(doc', nodes', count', elem', m)
    BY <1>1, <1>7
  <2>3. nodes'[elem'].type = "element"
    BY <1>1, <1>2, <1>5, <1>6
  <2>4. elem' + m = count' - 1 /\ nodes'[elem'].at + m = pos' - 1 /\ last_attr' = count' - 1
    <3>1. nodes[elem].at \in Nat /\ nodes'[elem].at = nodes[elem].at
      BY <1>2, <1>5 DEF NodeType
    <3>2. elem + (len + 1) = (count + 1) - 1 /\ count = (count + 1) - 1
      BY <1>2, <1>6
    <3>3. nodes[elem].at + (len + 1) = (pos + 1) - 1
      <4> DEFINE at == nodes[elem].at
      <4>1. at \in Nat /\ at + len = pos - 1 /\ pos \in Nat
        BY <1>1, <1>6, <3>1
      <4> HIDE DEF at
      <4>2. at + (len + 1) = (pos + 1) - 1
        BY <4>1
      <4> QED  BY <4>2 DEF at
    <3> QED  BY <1>1, <3>1, <3>2, <3>3
  <2> HIDE DEF m
  <2> QED  BY <2>1, <2>2, <2>3, <2>4 DEF TagAttrs
<1> QED  BY <1>1, <1>5, <1>10, <1>11

\* A construct that leaves the array alone, outside a tag or at its end.
LEMMA OtherKeepsAttrs ==
  ASSUME IInv, AttrInv, NEW kind, Reading(kind), kind \notin {"open", "attr"},
         UNCHANGED <<nodes, count, elem>>
  PROVE  \A k \in 0 .. count' - 1 : \E m \in Nat :
           /\ HasAttrs(doc', nodes', count', k, m)
           /\ nodes'[k].type = "element" => Closed(doc', nodes', pos', k, m)
<1>1. /\ pos \in 1 .. Len(doc) /\ pos \in Nat /\ doc[pos].kind = kind
      /\ doc' = doc /\ pos' = pos + 1
  BY ReadingIs
<1> SUFFICES ASSUME NEW k \in 0 .. count - 1
             PROVE  \E m \in Nat : /\ HasAttrs(doc, nodes, count, k, m)
                                   /\ nodes[k].type = "element" => Closed(doc, nodes, pos + 1, k, m)
  BY <1>1
<1>2. nodes[k].at \in Nat
  BY DEF IInv, TypeOK, NodeType
<1>3. CASE InTag(doc, pos) /\ k = elem
  <2>1. PICK m \in Nat : HasAttrs(doc, nodes, count, elem, m) /\ nodes[elem].at + m = pos - 1
    BY <1>3 DEF AttrInv, TagAttrs
  <2>2. nodes[k].at + m + 1 = pos /\ pos < pos + 1
    BY <1>1, <1>2, <1>3, <2>1
  <2>3. Closed(doc, nodes, pos + 1, k, m)
    BY <1>1, <2>2 DEF Closed
  <2> QED  BY <1>3, <2>1, <2>3
<1>4. CASE ~(InTag(doc, pos) /\ k = elem)
  <2>1. PICK m \in Nat : /\ HasAttrs(doc, nodes, count, k, m)
                         /\ nodes[k].type = "element" => Closed(doc, nodes, pos, k, m)
    BY <1>4 DEF AttrInv
  <2> QED  BY <1>1, <1>2, <2>1, ClosedKept
<1> QED  BY <1>3, <1>4

LEMMA InitAttrs == Init => AttrInv
<1> SUFFICES ASSUME Init PROVE AttrInv
  OBVIOUS
<1>1. /\ count = 2 /\ ~InTag(doc, pos) /\ last_child = Null /\ stack = <<>>
      /\ nodes = FirstNodes(0)
  BY DEF Init, InTag
<1>2. \A k \in 0 .. 1 : /\ nodes[k].first_attr = Null /\ nodes[k].type # "element"
  BY <1>1 DEF FirstNodes, NewNode, Null, Document
<1>3. \A k \in 0 .. 1 : HasAttrs(doc, nodes, count, k, 0)
  <2> SUFFICES ASSUME NEW k \in 0 .. 1 PROVE HasAttrs(doc, nodes, count, k, 0)
    OBVIOUS
  <2>1. IsChain(nodes, nodes[k].first_attr, Run(k, 0))
    BY <1>2, NoRun, NoChain
  <2> QED  BY <1>1, <2>1 DEF HasAttrs
<1>4. 0 .. count - 1 = 0 .. 1
  BY <1>1
<1> QED  BY <1>1, <1>2, <1>3, <1>4 DEF AttrInv

LEMMA NextAttrs == IInv /\ AttrInv /\ [Next]_vars => AttrInv'
<1> SUFFICES ASSUME IInv, AttrInv, [Next]_vars PROVE AttrInv'
  OBVIOUS
<1>1. /\ count \in Nat /\ count >= 2 /\ nodes \in [0 .. count - 1 -> NodeType]
      /\ stack \in Seq([parent : 1 .. count - 1, last : 1 .. count - 1]) /\ Len(stack) \in Nat
      /\ last_child \in 0 .. count - 1
  BY LenProperties DEF IInv, TypeOK
<1>2. \A j \in 1 .. Len(stack) : stack[j].last \in 0 .. count - 1
  <2> SUFFICES ASSUME NEW j \in 1 .. Len(stack) PROVE stack[j].last \in 0 .. count - 1
    OBVIOUS
  <2>1. stack[j] \in [parent : 1 .. count - 1, last : 1 .. count - 1]
    BY <1>1, ElementOfSeq
  <2> QED  BY <2>1
<1>3. CASE ReadContent
  <2>1. PICK kind \in {"text", "cdata", "comment", "pi"} :
          /\ Reading(kind)
          /\ IF HiddenBy(kind) \in flags THEN UNCHANGED <<nodes, count, last_child>>
                                         ELSE AppendChild(kind)
          /\ UNCHANGED <<current, stack, elem, last_attr>>
    BY <1>3 DEF ReadContent
  <2>2. /\ kind \notin {"open", "attr"} /\ ~InTag(doc, pos) /\ ~InTag(doc', pos')
        /\ doc' = doc /\ pos' = pos + 1
    BY <2>1, ReadingIs
  <2>3. CASE HiddenBy(kind) \in flags
    <3>1. \A k \in 0 .. count' - 1 : \E m \in Nat :
            /\ HasAttrs(doc', nodes', count', k, m)
            /\ nodes'[k].type = "element" => Closed(doc', nodes', pos', k, m)
      BY <2>1, <2>2, <2>3, OtherKeepsAttrs
    <3> QED  BY <2>1, <2>2, <2>3, <3>1 DEF AttrInv
  <2>4. CASE HiddenBy(kind) \notin flags
    <3>1. /\ count' = count + 1 /\ last_child' = count
          /\ nodes'[count].type = kind
          /\ \A k \in 0 .. count - 1 : nodes'[k].type = nodes[k].type
          /\ \A k \in 0 .. count : \E m \in Nat :
               /\ HasAttrs(doc', nodes', count', k, m)
               /\ nodes'[k].type = "element" /\ k # count => Closed(doc', nodes', pos', k, m)
      BY <2>1, <2>2, <2>4, ChildKeepsAttrs
    <3>2. count' - 1 = count
      BY <1>1, <3>1
    <3>3. \A k \in 0 .. count' - 1 : \E m \in Nat :
            /\ HasAttrs(doc', nodes', count', k, m)
            /\ nodes'[k].type = "element" => Closed(doc', nodes', pos', k, m)
      BY <3>1, <3>2
    <3>4. nodes'[last_child'].type # "attribute"
      BY <3>1
    <3>5. \A j \in 1 .. Len(stack') : nodes'[stack'[j].last].type # "attribute"
      BY <1>2, <2>1, <3>1 DEF AttrInv
    <3> QED  BY <2>2, <3>3, <3>4, <3>5 DEF AttrInv
  <2> QED  BY <2>3, <2>4
<1>4. CASE ReadOpen
  <2>1. Reading("open") /\ elem' = count /\ last_attr' = Null /\ stack' = stack
    BY <1>4 DEF ReadOpen, LastAttrAtTag
  <2>2. ~InTag(doc, pos) /\ InTag(doc', pos') /\ doc' = doc /\ pos' = pos + 1 /\ pos \in Nat
    BY <2>1, ReadingIs
  <2>3. /\ count' = count + 1 /\ last_child' = count
        /\ nodes'[count].type = "element" /\ nodes'[count].at = pos
        /\ \A k \in 0 .. count - 1 : nodes'[k].type = nodes[k].type
        /\ \A k \in 0 .. count : \E m \in Nat :
             /\ HasAttrs(doc', nodes', count', k, m)
             /\ nodes'[k].type = "element" /\ k # count => Closed(doc', nodes', pos', k, m)
             /\ k = count => m = 0
    BY <1>4, <2>2, ChildKeepsAttrs DEF ReadOpen
  <2>4. count' - 1 = count /\ count \in 0 .. count
    BY <1>1, <2>3
  <2>5. \A k \in 0 .. count' - 1 : \E m \in Nat :
          /\ HasAttrs(doc', nodes', count', k, m)
          /\ nodes'[k].type = "element" /\ ~(InTag(doc', pos') /\ k = elem')
               => Closed(doc', nodes', pos', k, m)
    BY <2>1, <2>2, <2>3, <2>4
  <2>6. TagAttrs'
    <3>1. HasAttrs(doc', nodes', count', count, 0)
      BY <2>3, <2>4
    <3>2. 0 \in Nat /\ count + 0 = count' - 1 /\ pos + 0 = pos' - 1
      BY <1>1, <2>2, <2>3
    <3> QED  BY <2>1, <2>3, <3>1, <3>2 DEF TagAttrs
  <2>7. nodes'[last_child'].type # "attribute"
    BY <2>3
  <2>8. \A j \in 1 .. Len(stack') : nodes'[stack'[j].last].type # "attribute"
    BY <1>2, <2>1, <2>3 DEF AttrInv
  <2> QED  BY <2>5, <2>6, <2>7, <2>8 DEF AttrInv
<1>5. CASE ReadAttribute
  <2>1. Reading("attr") /\ UNCHANGED <<last_child, stack, elem>>
    BY <1>5 DEF ReadAttribute
  <2>2. InTag(doc', pos')
    BY <2>1, ReadingIs
  <2>3. /\ count' = count + 1
        /\ \A k \in 0 .. count - 1 : nodes'[k].type = nodes[k].type
        /\ \A k \in 0 .. count : \E m \in Nat :
             /\ HasAttrs(doc', nodes', count', k, m)
             /\ nodes'[k].type = "element" /\ k # elem => Closed(doc', nodes', pos', k, m)
        /\ TagAttrs'
    BY <1>5, AttributeAddsOne
  <2>4. count' - 1 = count
    BY <1>1, <2>3
  <2>5. \A k \in 0 .. count' - 1 : \E m \in Nat :
          /\ HasAttrs(doc', nodes', count', k, m)
          /\ nodes'[k].type = "element" /\ ~(InTag(doc', pos') /\ k = elem')
               => Closed(doc', nodes', pos', k, m)
    BY <2>1, <2>2, <2>3, <2>4
  <2>6. last_child' # Null => nodes'[last_child'].type # "attribute"
    BY <1>1, <2>1, <2>3 DEF AttrInv
  <2>7. \A j \in 1 .. Len(stack') : nodes'[stack'[j].last].type # "attribute"
    BY <1>2, <2>1, <2>3 DEF AttrInv
  <2> QED  BY <2>3, <2>5, <2>6, <2>7 DEF AttrInv
<1>6. CASE ReadOther \/ ReadOpenEnd \/ ReadSelfClosingEnd \/ ReadEndTag
  <2>1. PICK kind \in {"skip", "gt", "sgt", "end"} : Reading(kind)
    BY <1>6 DEF ReadOther, ReadOpenEnd, ReadSelfClosingEnd, ReadEndTag
  <2>2. UNCHANGED <<nodes, count, elem>>
    BY <1>6 DEF ReadOther, ReadOpenEnd, ReadSelfClosingEnd, ReadEndTag
  <2>3. kind \notin {"open", "attr"} /\ ~InTag(doc', pos')
    BY <2>1, ReadingIs
  <2>4. \A k \in 0 .. count' - 1 : \E m \in Nat :
          /\ HasAttrs(doc', nodes', count', k, m)
          /\ nodes'[k].type = "element" => Closed(doc', nodes', pos', k, m)
    BY <2>1, <2>2, <2>3, OtherKeepsAttrs
  <2>5. /\ last_child' # Null => nodes'[last_child'].type # "attribute"
        /\ \A j \in 1 .. Len(stack') : nodes'[stack'[j].last].type # "attribute"
    <3>1. CASE ReadOther \/ ReadSelfClosingEnd
      BY <2>2, <3>1 DEF ReadOther, ReadSelfClosingEnd, AttrInv
    <3>2. CASE ReadOpenEnd
      <4>1. stack' = Saved(stack) /\ last_child' = Null /\ Reading("gt")
        BY <3>2 DEF ReadOpenEnd
      <4>2. last_child = elem /\ elem \in 2 .. count - 1
        BY <4>1, ReadingIs DEF IInv, InTagInv
      <4>3. nodes[last_child].type # "attribute"
        BY <4>2 DEF AttrInv, Null
      <4> DEFINE E == [parent : 1 .. count - 1, last : 1 .. count - 1]
                 new == [parent |-> current, last |-> last_child]
      <4>4. new \in E /\ new.last = last_child
        BY <1>1, <4>2 DEF IInv, TypeOK
      <4>5. stack \in Seq(E)
        BY <1>1
      <4> HIDE DEF E, new
      <4>6. /\ Len(Append(stack, new)) = Len(stack) + 1 /\ Append(stack, new)[Len(stack) + 1] = new
            /\ \A j \in 1 .. Len(stack) : Append(stack, new)[j] = stack[j]
        BY <4>4, <4>5, AppendProperties
      <4>7. stack' = stack \/ stack' = Append(stack, new)
        BY <4>1 DEF Saved, new
      <4>8. ASSUME NEW j \in 1 .. Len(stack')
            PROVE  nodes[stack'[j].last].type # "attribute"
        <5>1. CASE j \in 1 .. Len(stack)
          BY <4>6, <4>7, <5>1 DEF AttrInv
        <5>2. CASE j \notin 1 .. Len(stack)
          <6>1. stack' = Append(stack, new) /\ j = Len(stack) + 1
            BY <1>1, <4>6, <4>7, <5>2
          <6> QED  BY <4>3, <4>4, <4>6, <6>1
        <5> QED  BY <5>1, <5>2
      <4> QED  BY <2>2, <4>1, <4>8
    <3>3. CASE ReadEndTag
      <4>1. /\ last_child' = RestoredLastChild
            /\ stack' = IF stack = <<>> THEN stack ELSE Front(stack)
        BY <3>3 DEF ReadEndTag
      <4>2. CASE stack = <<>>
        BY <2>2, <4>1, <4>2 DEF AttrInv, RestoredLastChild
      <4>3. CASE stack # <<>>
        <5>1. Len(stack) \in 1 .. Len(stack)
          BY <1>1, <4>3, EmptySeq
        <5>2. last_child' = stack[Len(stack)].last
          BY <4>1, <4>3 DEF RestoredLastChild, Last
        <5>3. /\ Len(stack') = Len(stack) - 1
              /\ \A j \in 1 .. Len(stack) - 1 : stack'[j] = stack[j]
          <6> DEFINE E == [parent : 1 .. count - 1, last : 1 .. count - 1]
          <6>1. stack \in Seq(E) /\ stack' = SubSeq(stack, 1, Len(stack) - 1)
            BY <1>1, <4>1, <4>3 DEF Front
          <6> HIDE DEF E
          <6> QED  BY <1>1, <5>1, <6>1, FrontIs
        <5>4. \A j \in 1 .. Len(stack) - 1 : j \in 1 .. Len(stack)
          BY <1>1
        <5> QED  BY <2>2, <5>1, <5>2, <5>3, <5>4 DEF AttrInv
      <4> QED  BY <4>2, <4>3
    <3> QED  BY <1>6, <3>1, <3>2, <3>3
  <2> QED  BY <2>3, <2>4, <2>5 DEF AttrInv
<1>7. CASE UNCHANGED vars
  BY <1>7 DEF vars, AttrInv, TagAttrs
<1> QED  BY <1>3, <1>4, <1>5, <1>6, <1>7 DEF Next

-----------------------------------------------------------------------------
(* The theorems.                                                           *)

\* Throughout any parse the state has its type: every index in bounds of the
\* pool's nodes, and at most MaxStack saved pairs.
THEOREM TypeCorrect == Spec => []TypeOK
<1>1. IInv => TypeOK
  BY DEF IInv
<1> QED  BY <1>1, InitInv, NextInv, PTL DEF Spec

\* Whatever the input, the nodes dom_parse links are a forest: no cycle, and no
\* node in two places, even where a first_child is overwritten.
THEOREM ForestCorrect == Spec => []DomIsForest
<1>1. IInv => DomIsForest
  BY DEF IInv
<1> QED  BY <1>1, InitInv, NextInv, PTL DEF Spec


\* Every element has the attributes of its own tag, all of them and in order, however
\* last_attr and next_sibling served other elements in between (append_attr).
THEOREM AttrsCorrect == Spec => []AttrsStay
<1>1. IInv /\ AttrInv => AttrsStay
  <2> SUFFICES ASSUME IInv, AttrInv, NEW k \in DOMAIN nodes
               PROVE  LET attrs == AttrsOn(nodes, k)
                          next  == nodes[k].at + Len(attrs) + 1
                      IN  IF nodes[k].type # "element" THEN attrs = <<>>
                          ELSE /\ \A a \in 1 .. Len(attrs) :
                                    /\ nodes[attrs[a]].at = nodes[k].at + a
                                    /\ doc[nodes[k].at + a].kind = "attr"
                               /\ next < pos => doc[next].kind # "attr"
    BY DEF AttrsStay
  <2>1. /\ count \in Nat /\ count # 0 /\ nodes \in [0 .. count - 1 -> NodeType]
        /\ DOMAIN nodes = 0 .. count - 1 /\ pos \in Nat
    BY LenProperties DEF IInv, TypeOK
  <2>2. Forward(nodes, count)
    <3>1. ASSUME NEW i \in 0 .. count - 1
          PROVE  nodes[i].next_sibling = Null \/ nodes[i].next_sibling \in i + 1 .. count - 1
      <4>1. nodes[i]["next_sibling"] = nodes[i].next_sibling
        BY <2>1 DEF NodeType
      <4>2. \/ nodes[i].next_sibling = Null
            \/ nodes[i].next_sibling > i /\ nodes[i].next_sibling \in 0 .. count - 1
        BY <2>1, <4>1 DEF IInv, DomIsForest, Forest, LinksForward, Links
      <4> QED  BY <2>1, <4>2
    <3> QED  BY <2>1, <3>1 DEF Forward
  <2>3. PICK m \in Nat : /\ HasAttrs(doc, nodes, count, k, m)
                         /\ nodes[k].type = "element" =>
                              LET next == nodes[k].at + m + 1 IN
                              next < pos => doc[next].kind # "attr"
    <3>1. CASE InTag(doc, pos) /\ k = elem
      <4>1. PICK m \in Nat : HasAttrs(doc, nodes, count, elem, m) /\ nodes[elem].at + m = pos - 1
        BY <3>1 DEF AttrInv, TagAttrs
      <4>2. nodes[k].at \in Nat
        BY <2>1 DEF NodeType
      <4>3. ~(nodes[k].at + m + 1 < pos)
        BY <2>1, <3>1, <4>1, <4>2
      <4> QED  BY <3>1, <4>1, <4>3
    <3>2. CASE ~(InTag(doc, pos) /\ k = elem)
      BY <2>1, <3>2 DEF AttrInv, Closed
    <3> QED  BY <3>1, <3>2
  <2>4. AttrsOn(nodes, k) = Run(k, m)
    BY <2>1, <2>2, <2>3, ChainIs DEF AttrsOn, HasAttrs
  <2>5. Len(Run(k, m)) = m /\ \A a \in 1 .. m : Run(k, m)[a] = k + a
    <3>1. k \in Nat
      BY <2>1
    <3> QED  BY <3>1, RunIs
  <2>6. m = 0 => Run(k, m) = <<>>
    BY <2>1, NoRun
  <2> QED  BY <2>3, <2>4, <2>5, <2>6 DEF HasAttrs
<1> QED  BY <1>1, InitInv, NextInv, InitAttrs, NextAttrs, PTL DEF Spec

-----------------------------------------------------------------------------
(* The tree.                                                               *)

Types == {"null", "document", "element", "attribute", "text", "cdata", "comment", "pi"}

\* stack_buf has the open elements with their last children, each within the one
\* before, and current is the innermost.
StackShows ==
  /\ Len(stack) = OpenAfter(doc, pos - 1)
  /\ last_child = ListEnd(Kids(nodes, current))
  /\ stack = <<>> => current = Document
  /\ stack # <<>> => stack[1].parent = Document
  /\ \A j \in 1 .. Len(stack) :
       /\ stack[j].last = ListEnd(Kids(nodes, stack[j].parent))
       /\ stack[j].parent < current
  /\ \A i, j \in 1 .. Len(stack) : i < j => stack[i].parent < stack[j].parent

\* In a tag its element is the last node of the tree.
TagShows ==
  InTag(doc, pos) =>
    /\ elem \in TreeNodes(nodes) /\ OrdinalOf(nodes, elem) = Len(TreeItems(nodes))
    /\ current < elem /\ Kids(nodes, elem) = <<>>
    /\ last_attr = ListEnd(AttrsOn(nodes, elem))

ShownInv == Nested(doc, MaxStack) => WellLinked(nodes, count) /\ StackShows /\ TagShows

LEMMA PathIs ==
  ASSUME NEW n \in Nat, NEW array, DOMAIN array = 0 .. n - 1, NEW S, NEW st \in Seq(S),
         st # <<>>, NEW cur
  PROVE  /\ PathOf(array, st, cur) \in Seq(Nat) /\ Len(PathOf(array, st, cur)) = Len(st)
         /\ Len(st) \in Nat /\ Len(st) >= 1
         /\ \A m \in 1 .. Len(st) - 1 : PathOf(array, st, cur)[m] = OrdinalOf(array, st[m + 1].parent)
         /\ PathOf(array, st, cur)[Len(st)] = OrdinalOf(array, cur)
<1> DEFINE L == Len(st)
           a == [m \in 1 .. L - 1 |-> OrdinalOf(array, st[m + 1].parent)]
           b == <<OrdinalOf(array, cur)>>
<1>1. L \in Nat /\ L >= 1 /\ L - 1 \in Nat
  BY LenProperties, EmptySeq
<1>2. \A k : OrdinalOf(array, k) \in Nat
  BY TreeNodesType
<1> HIDE DEF L
<1>3. a \in Seq(Nat) /\ Len(a) = L - 1 /\ b \in Seq(Nat) /\ Len(b) = 1 /\ b[1] = OrdinalOf(array, cur)
  <2>1. \A m \in 1 .. L - 1 : OrdinalOf(array, st[m + 1].parent) \in Nat
    BY <1>2
  <2>2. a \in Seq(Nat) /\ Len(a) = L - 1
    BY <1>1, <2>1, IsASeq
  <2>3. OrdinalOf(array, cur) \in Nat
    BY <1>2
  <2> HIDE DEF a
  <2>4. b \in Seq(Nat) /\ Len(b) = 1 /\ b[1] = OrdinalOf(array, cur)
    BY <2>3
  <2> QED  BY <2>2, <2>4
<1>4. PathOf(array, st, cur) = a \o b
  BY DEF PathOf, L
<1>5. \A m \in 1 .. L - 1 : a[m] = OrdinalOf(array, st[m + 1].parent)
  OBVIOUS
<1> HIDE DEF a, b
<1>6. /\ a \o b \in Seq(Nat) /\ Len(a \o b) = L
      /\ \A m \in 1 .. L - 1 : (a \o b)[m] = a[m]
      /\ (a \o b)[L] = b[1]
  <2>1. /\ a \o b \in Seq(Nat) /\ Len(a \o b) = Len(a) + Len(b)
        /\ \A i \in 1 .. Len(a) + Len(b) :
             (a \o b)[i] = IF i <= Len(a) THEN a[i] ELSE b[i - Len(a)]
    BY <1>3, ConcatProperties
  <2>2. Len(a) + Len(b) = L /\ L - Len(a) = 1
    BY <1>1, <1>3
  <2>3. L \in 1 .. Len(a) + Len(b) /\ ~(L <= Len(a))
        /\ \A m \in 1 .. L - 1 : m \in 1 .. Len(a) + Len(b) /\ m <= Len(a)
    BY <1>1, <1>3
  <2> QED  BY <2>1, <2>2, <2>3
<1> QED  BY <1>1, <1>3, <1>4, <1>5, <1>6 DEF L

\* The innermost open element.
LEMMA InnermostIs ==
  ASSUME NEW n \in Nat, NEW array, DOMAIN array = 0 .. n - 1, NEW S, NEW st \in Seq(S),
         NEW cur, st = <<>> => cur = Document
  PROVE  (IF PathOf(array, st, cur) = <<>> THEN 0
          ELSE PathOf(array, st, cur)[Len(PathOf(array, st, cur))]) = OrdinalOf(array, cur)
<1>1. CASE st = <<>>
  <2>1. {j \in TreeNodes(array) : j <= Document} = {}
    BY TreeNodesType DEF Document
  <2>2. OrdinalOf(array, Document) = 0
    BY <2>1, FS_EmptySet DEF OrdinalOf
  <2> QED  BY <1>1, <2>2 DEF PathOf
<1>2. CASE st # <<>>
  <2>1. /\ PathOf(array, st, cur) \in Seq(Nat) /\ Len(PathOf(array, st, cur)) = Len(st)
        /\ Len(st) \in Nat /\ Len(st) >= 1
        /\ PathOf(array, st, cur)[Len(st)] = OrdinalOf(array, cur)
    BY <1>2, PathIs
  <2>2. PathOf(array, st, cur) # <<>>
    BY <2>1, EmptySeq
  <2> QED  BY <2>1, <2>2
<1> QED  BY <1>1, <1>2

\* A path of a stack with one entry more, of the same one in a longer array, and of
\* one with an entry less.
LEMMA PathKept ==
  ASSUME NEW n \in Nat, NEW array, DOMAIN array = 0 .. n - 1, NEW more, DOMAIN more = 0 .. n,
         \A k \in 0 .. n - 1 : OrdinalOf(more, k) = OrdinalOf(array, k),
         NEW cur \in 0 .. n - 1, NEW st \in Seq([parent : 1 .. n - 1, last : 1 .. n - 1])
  PROVE  PathOf(more, st, cur) = PathOf(array, st, cur)
<1> DEFINE S == [parent : 1 .. n - 1, last : 1 .. n - 1]
<1>1. Len(st) \in Nat /\ \A i \in 1 .. Len(st) : st[i] \in S
  <2>1. st \in Seq(S)
    OBVIOUS
  <2> HIDE DEF S
  <2> QED  BY <2>1, MembersOf, LenProperties
<1>2. \A m \in 1 .. Len(st) - 1 : st[m + 1].parent \in 0 .. n - 1
  <2>1. \A m \in 1 .. Len(st) - 1 : m + 1 \in 1 .. Len(st)
    BY <1>1
  <2> QED  BY <1>1, <2>1
<1> QED  BY <1>2 DEF PathOf

LEMMA PathPushed ==
  ASSUME NEW n \in Nat, NEW array, DOMAIN array = 0 .. n - 1, NEW S, NEW st \in Seq(S),
         NEW entry \in S, NEW new
  PROVE  PathOf(array, Append(st, entry), new)
           = Append(PathOf(array, st, entry.parent), OrdinalOf(array, new))
<1> DEFINE st2 == Append(st, entry)
           L == Len(st)
           p == PathOf(array, st, entry.parent)
           q == PathOf(array, st2, new)
           o == OrdinalOf(array, new)
<1>1. /\ st2 \in Seq(S) /\ Len(st2) = L + 1 /\ st2[L + 1] = entry /\ L \in Nat
      /\ \A i \in 1 .. L : st2[i] = st[i]
  BY AppendProperties, LenProperties
<1>2. st2 # <<>>
  BY <1>1, EmptySeq
<1>3. /\ q \in Seq(Nat) /\ Len(q) = L + 1 /\ q[L + 1] = o
      /\ \A m \in 1 .. L : q[m] = OrdinalOf(array, st2[m + 1].parent)
  <2> HIDE DEF st2
  <2>1. /\ q \in Seq(Nat) /\ Len(q) = Len(st2)
        /\ \A m \in 1 .. Len(st2) - 1 : q[m] = OrdinalOf(array, st2[m + 1].parent)
        /\ q[Len(st2)] = o
    <3>1. st2 \in Seq(S)
      BY <1>1
    <3> QED  BY <3>1, <1>2, PathIs
  <2>2. Len(st2) - 1 = L
    BY <1>1
  <2> QED  BY <1>1, <2>1, <2>2
<1>4. /\ p \in Seq(Nat) /\ Len(p) = L
      /\ \A m \in 1 .. L : p[m] = OrdinalOf(array, st2[m + 1].parent)
  <2>1. CASE st = <<>>
    <3>1. p = <<>> /\ L = 0
      BY <2>1 DEF PathOf
    <3> QED  BY <3>1
  <2>2. CASE st # <<>>
    <3>1. /\ p \in Seq(Nat) /\ Len(p) = L /\ L >= 1
          /\ \A m \in 1 .. L - 1 : p[m] = OrdinalOf(array, st[m + 1].parent)
          /\ p[L] = OrdinalOf(array, entry.parent)
      BY <2>2, PathIs
    <3>2. \A m \in 1 .. L : m = L \/ (m \in 1 .. L - 1 /\ m + 1 \in 1 .. L)
      BY <1>1
    <3> HIDE DEF p, st2, L
    <3> QED  BY <1>1, <3>1, <3>2
  <2> QED  BY <2>1, <2>2
<1>5. o \in Nat
  BY TreeNodesType
<1> HIDE DEF p, q, o, L
<1>6. /\ Append(p, o) \in Seq(Nat) /\ Len(Append(p, o)) = L + 1 /\ Append(p, o)[L + 1] = o
      /\ \A m \in 1 .. L : Append(p, o)[m] = p[m]
  BY <1>4, <1>5, AppendProperties
<1>7. \A m \in 1 .. L + 1 : q[m] = Append(p, o)[m]
  <2>1. \A m \in 1 .. L + 1 : m \in 1 .. L \/ m = L + 1
    BY <1>1
  <2> QED  BY <2>1, <1>3, <1>4, <1>6
<1> QED  BY <1>3, <1>6, <1>7, SeqEqual DEF p, q, o

LEMMA PathPopped ==
  ASSUME NEW n \in Nat, NEW array, DOMAIN array = 0 .. n - 1, NEW S, NEW st \in Seq(S),
         st # <<>>, NEW cur
  PROVE  LET p == PathOf(array, st, cur) IN
         PathOf(array, SubSeq(st, 1, Len(st) - 1), st[Len(st)].parent) = SubSeq(p, 1, Len(p) - 1)
<1> DEFINE front == SubSeq(st, 1, Len(st) - 1)
           L == Len(st)
           p == PathOf(array, st, cur)
           q == PathOf(array, front, st[L].parent)
<1>1. /\ p \in Seq(Nat) /\ Len(p) = L /\ L \in Nat /\ L >= 1
      /\ \A m \in 1 .. L - 1 : p[m] = OrdinalOf(array, st[m + 1].parent)
  BY PathIs
<1>2. /\ front \in Seq(S) /\ Len(front) = L - 1
      /\ \A m \in 1 .. L - 1 : front[m] = st[m]
  <2>1. L \in 1 .. L
    BY <1>1
  <2>2. front \in Seq(S)
    <3>1. \A i \in 1 .. L - 1 : i \in 1 .. L
      BY <1>1
    <3>2. \A i \in 1 .. L - 1 : st[i] \in S
      BY <3>1, ElementOfSeq
    <3> QED  BY <1>1, <3>2, SubSeqProperties
  <2> QED  BY <2>1, <2>2, FrontIs
<1>3. /\ SubSeq(p, 1, L - 1) \in Seq(Nat) /\ Len(SubSeq(p, 1, L - 1)) = L - 1
      /\ \A m \in 1 .. L - 1 : SubSeq(p, 1, L - 1)[m] = p[m]
  <2> HIDE DEF p, L
  <2>1. Len(p) \in 1 .. Len(p)
    BY <1>1
  <2>2. SubSeq(p, 1, L - 1) \in Seq(Nat)
    <3>1. \A i \in 1 .. L - 1 : p[i] \in Nat
      <4>1. \A i \in 1 .. L - 1 : i \in 1 .. Len(p)
        BY <1>1
      <4> QED  BY <1>1, <4>1, ElementOfSeq
    <3> QED  BY <1>1, <3>1, SubSeqProperties
  <2> QED  BY <1>1, <2>1, <2>2, FrontIs
<1>4. q \in Seq(Nat) /\ Len(q) = L - 1 /\ \A m \in 1 .. L - 1 : q[m] = p[m]
  <2>1. CASE front = <<>>
    <3>1. q = <<>> /\ L - 1 = 0
      BY <1>2, <2>1 DEF PathOf
    <3>2. Len(<<>>) = 0 /\ 1 .. 0 = {} /\ <<>> \in Seq(Nat)
      OBVIOUS
    <3> QED  BY <3>1, <3>2
  <2>2. CASE front # <<>>
    <3> HIDE DEF front, L
    <3>1. /\ q \in Seq(Nat) /\ Len(q) = Len(front) /\ Len(front) >= 1
          /\ \A m \in 1 .. Len(front) - 1 : q[m] = OrdinalOf(array, front[m + 1].parent)
          /\ q[Len(front)] = OrdinalOf(array, st[L].parent)
      <4> DEFINE e == st[L].parent
      <4> HIDE DEF e
      <4>1. front \in Seq(S)
        BY <1>2
      <4>2. /\ PathOf(array, front, e) \in Seq(Nat) /\ Len(PathOf(array, front, e)) = Len(front)
            /\ Len(front) >= 1
            /\ \A m \in 1 .. Len(front) - 1 :
                 PathOf(array, front, e)[m] = OrdinalOf(array, front[m + 1].parent)
            /\ PathOf(array, front, e)[Len(front)] = OrdinalOf(array, e)
        BY <4>1, <2>2, PathIs
      <4> QED  BY <4>2 DEF e
    <3>2. \A m \in 1 .. L - 1 : m = L - 1 \/ (m \in 1 .. (L - 1) - 1 /\ m + 1 \in 1 .. L - 1)
      BY <1>1
    <3>3. (L - 1) + 1 = L
      BY <1>1
    <3> HIDE DEF q, p
    <3>4. ASSUME NEW m \in 1 .. L - 1 PROVE q[m] = p[m]
      <4>1. p[m] = OrdinalOf(array, st[m + 1].parent)
        BY <1>1
      <4>2. CASE m = L - 1
        <5>1. m + 1 = L /\ m = Len(front)
          BY <4>2, <1>2, <3>3
        <5> QED  BY <3>1, <4>1, <5>1
      <4>3. CASE m # L - 1
        <5>1. m \in 1 .. Len(front) - 1 /\ m + 1 \in 1 .. L - 1
          BY <4>3, <1>2, <3>2
        <5>2. q[m] = OrdinalOf(array, front[m + 1].parent) /\ front[m + 1] = st[m + 1]
          BY <5>1, <3>1, <1>2
        <5> QED  BY <4>1, <5>2
      <4> QED  BY <4>2, <4>3
    <3> QED  BY <1>2, <3>1, <3>4
  <2> QED  BY <2>1, <2>2
<1> HIDE DEF p, q, front
<1>5. q = SubSeq(p, 1, L - 1)
  <2> HIDE DEF L
  <2> QED  BY <1>3, <1>4, SeqEqual
<1> QED  BY <1>1, <1>5 DEF p, q, front

\* How many elements a construct opens.
LEMMA OpenStep ==
  ASSUME NEW d, NEW n \in Nat \ {0}
  PROVE  /\ OpenAfter(d, n) = OpenAfter(d, n - 1) + (IF d[n].kind = "gt" THEN 1 ELSE 0)
                                                  - (IF d[n].kind = "end" THEN 1 ELSE 0)
         /\ OpenAfter(d, n - 1) \in Int
<1> DEFINE Of(k, m) == {i \in 1 .. m : d[i].kind = k}
<1>1. ASSUME NEW k
      PROVE  /\ Cardinality(Of(k, n)) = Cardinality(Of(k, n - 1)) + (IF d[n].kind = k THEN 1 ELSE 0)
             /\ Cardinality(Of(k, n - 1)) \in Nat
  <2>1. IsFiniteSet(Of(k, n - 1))
    <3>1. 1 \in Int /\ n - 1 \in Int
      OBVIOUS
    <3>2. IsFiniteSet(1 .. n - 1)
      BY <3>1, FS_Interval
    <3> QED  BY <3>2, FS_Subset
  <2>2. n \notin Of(k, n - 1)
    OBVIOUS
  <2>3. Of(k, n) = IF d[n].kind = k THEN Of(k, n - 1) \cup {n} ELSE Of(k, n - 1)
    OBVIOUS
  <2> HIDE DEF Of
  <2>4. Cardinality(Of(k, n - 1) \cup {n}) = Cardinality(Of(k, n - 1)) + 1
    BY <2>1, <2>2, FS_AddElement
  <2>5. Cardinality(Of(k, n - 1)) \in Nat
    BY <2>1, FS_CardinalityType
  <2> QED  BY <2>3, <2>4, <2>5
<1>2. OpenAfter(d, n) = Cardinality(Of("gt", n)) - Cardinality(Of("end", n))
      /\ OpenAfter(d, n - 1) = Cardinality(Of("gt", n - 1)) - Cardinality(Of("end", n - 1))
  BY DEF OpenAfter
<1> HIDE DEF Of
<1> QED  BY <1>1, <1>2

\* The construct that is read.
LEMMA RoleRead ==
  ASSUME IInv, NEW kind, Reading(kind)
  PROVE  /\ pos - 1 < Len(Roles) /\ pos' - 1 = (pos - 1) + 1 /\ pos' - 1 = pos
         /\ Roles' = Roles /\ Roles[pos] = RoleOf(doc[pos])
<1>1. doc \in Seq(Token) /\ Len(doc) \in Nat /\ pos \in 1 .. Len(doc) /\ pos' = pos + 1
      /\ doc' = doc /\ flags' = flags /\ DOMAIN doc = 1 .. Len(doc)
  BY LenProperties, ReadingIs DEF IInv, TypeOK, Reading
<1>2. Roles \in Seq({RoleOf(doc[k]) : k \in 1 .. Len(doc)}) /\ Len(Roles) = Len(doc)
  <2>1. \A k \in 1 .. Len(doc) : RoleOf(doc[k]) \in {RoleOf(doc[i]) : i \in 1 .. Len(doc)}
    OBVIOUS
  <2>2. Roles = [k \in 1 .. Len(doc) |-> RoleOf(doc[k])]
    BY <1>1 DEF Roles
  <2> QED  BY <1>1, <2>1, <2>2, IsASeq
<1>3. Roles' = Roles
  BY <1>1 DEF Roles, RoleOf
<1>4. Roles[pos] = RoleOf(doc[pos])
  BY <1>1 DEF Roles
<1> QED  BY <1>1, <1>2, <1>3, <1>4


\* A child under current.
LEMMA ChildAdded ==
  ASSUME IInv, WellLinked(nodes, count), StackShows,
         NEW type \in {"element", "text", "cdata", "comment", "pi"}, AppendChild(type)
  PROVE  /\ ChildShows(nodes', nodes, count, current, NewNode(type, pos, 0))
         /\ count' = count + 1 /\ last_child' = count /\ DOMAIN nodes' = 0 .. count
<1> DEFINE node == NewNode(type, pos, 0)
<1>1. /\ nodes' = Chained(Grown(nodes, count, node), current, "first_child", last_child, count)
      /\ count' = count + 1 /\ last_child' = count
  BY DEF AppendChild
<1>2. /\ node \in NodeOf(Types, {0}) /\ node.next_sibling = Null
      /\ \A f \in Firsts : node[f] = Null
      /\ node.type = type /\ type # "attribute"
  BY DEF IInv, TypeOK, NewNode, NodeOf, Types, Firsts, Null
<1>3. /\ count \in Nat /\ nodes \in [0 .. count - 1 -> NodeOf(Types, {0})]
      /\ current \in 0 .. count - 1 /\ last_child = ListEnd(Kids(nodes, current))
  <2>1. /\ count \in Nat /\ count >= 2 /\ nodes \in [0 .. count - 1 -> NodeType]
        /\ current \in 1 .. count - 1
    BY DEF IInv, TypeOK
  <2>2. NodeType = NodeOf(Types, {0})
    BY DEF NodeType, NodeOf, Types
  <2> QED  BY <2>1, <2>2 DEF StackShows
<1> HIDE DEF node
<1>4. ChildShows(nodes', nodes, count, current, node)
  BY <1>1, <1>2, <1>3, ChildShown
<1>5. DOMAIN nodes' = 0 .. count
  BY <1>3, <1>4 DEF ChildShows, WellLinked, LinksListed, Forward
<1> QED  BY <1>1, <1>4, <1>5 DEF node

\* What is under current now is last there, and the open elements are as before.
LEMMA ChildKeepsStack ==
  ASSUME IInv, WellLinked(nodes, count), StackShows,
         NEW type \in {"element", "text", "cdata", "comment", "pi"}, AppendChild(type),
         UNCHANGED <<current, stack>>
  PROVE  /\ last_child' = ListEnd(Kids(nodes', current'))
         /\ PathOf(nodes', stack', current') = PathOf(nodes, stack, current)
         /\ TreeItems(nodes') = Append(TreeItems(nodes),
              [at |-> pos, attrs |-> <<>>,
               parent |-> LET p == PathOf(nodes, stack, current)
                          IN  IF p = <<>> THEN 0 ELSE p[Len(p)]])
         /\ \A j \in 1 .. Len(stack') :
              /\ stack'[j].last = ListEnd(Kids(nodes', stack'[j].parent))
              /\ stack'[j].parent < current'
<1> DEFINE E == [parent : 1 .. count - 1, last : 1 .. count - 1]
<1>1. /\ ChildShows(nodes', nodes, count, current, NewNode(type, pos, 0))
      /\ count' = count + 1 /\ last_child' = count /\ DOMAIN nodes' = 0 .. count
  BY ChildAdded
<1>2. /\ count \in Nat /\ DOMAIN nodes = 0 .. count - 1 /\ current \in 0 .. count - 1
      /\ stack \in Seq(E) /\ (stack = <<>> => current = Document)
  BY DEF IInv, TypeOK, StackShows
<1>3. \A p \in 0 .. count - 1 :
        ListEnd(Kids(nodes', p)) = IF p = current THEN count ELSE ListEnd(Kids(nodes, p))
  BY <1>1 DEF ChildShows
<1>4. \A k \in 0 .. count - 1 : OrdinalOf(nodes', k) = OrdinalOf(nodes, k)
  BY <1>1 DEF ChildShows
<1>5. last_child' = ListEnd(Kids(nodes', current'))
  BY <1>1, <1>2, <1>3
<1>6. PathOf(nodes', stack, current) = PathOf(nodes, stack, current)
  <2>1. /\ count \in Nat /\ DOMAIN nodes = 0 .. count - 1 /\ DOMAIN nodes' = 0 .. count
        /\ current \in 0 .. count - 1
        /\ stack \in Seq([parent : 1 .. count - 1, last : 1 .. count - 1])
    BY <1>1, <1>2
  <2> QED  BY <2>1, <1>4, PathKept, ZenonT(30)
<1>7. TreeItems(nodes') = Append(TreeItems(nodes),
              [at |-> pos, attrs |-> <<>>,
               parent |-> LET p == PathOf(nodes, stack, current)
                          IN  IF p = <<>> THEN 0 ELSE p[Len(p)]])
  <2>1. OrdinalOf(nodes, current) = LET p == PathOf(nodes, stack, current)
                                    IN  IF p = <<>> THEN 0 ELSE p[Len(p)]
    <3> HIDE DEF E
    <3> QED  BY <1>2, InnermostIs
  <2>2. TreeItems(nodes') = Append(TreeItems(nodes),
          [at |-> pos, parent |-> OrdinalOf(nodes, current), attrs |-> <<>>])
    BY <1>1 DEF ChildShows, NewNode
  <2> QED  BY <2>1, <2>2
<1>8. ASSUME NEW j \in 1 .. Len(stack)
      PROVE  /\ stack[j].last = ListEnd(Kids(nodes', stack[j].parent))
             /\ stack[j].parent < current
  <2>1. stack[j] \in E
    <3> HIDE DEF E
    <3> QED  BY <1>2, MembersOf
  <2>2. /\ stack[j].last = ListEnd(Kids(nodes, stack[j].parent))
        /\ stack[j].parent < current
    BY DEF StackShows
  <2>3. stack[j].parent \in 0 .. count - 1 /\ stack[j].parent # current
    BY <1>2, <2>1, <2>2
  <2> QED  BY <1>3, <2>2, <2>3
<1> QED  BY <1>5, <1>6, <1>7, <1>8

\* What is in no tag satisfies TagShows.
LEMMA NoTag ==
  ASSUME IInv, NEW kind, Reading(kind), kind \notin {"open", "attr"}
  PROVE  TagShows'
BY ReadingIs DEF TagShows

\* At the start.
LEMMA InitShown == Init => ShownInv /\ Tree!TInit
<1> SUFFICES ASSUME Init PROVE ShownInv /\ Tree!TInit
  OBVIOUS
<1>1. /\ nodes = FirstNodes(0) /\ count = 2 /\ stack = <<>> /\ current = Document
      /\ last_child = Null /\ pos - 1 = 0
  BY DEF Init
<1>2. /\ WellLinked(nodes, count) /\ TreeItems(nodes) = <<>> /\ Kids(nodes, current) = <<>>
  <2>1. /\ LinksListed(FirstNodes(0), 2) /\ Held(FirstNodes(0)) /\ Numbered(FirstNodes(0))
        /\ TreeItems(FirstNodes(0)) = <<>>
        /\ \A p \in 0 .. 1 : \A f \in Firsts : ListOf(FirstNodes(0), p, f) = <<>>
    BY FirstListed
  <2>2. 1 \in 0 .. 1 /\ "first_child" \in Firsts
    BY DEF Firsts
  <2> QED  BY <1>1, <2>1, <2>2 DEF WellLinked, Kids, ListOf, Document
<1>3. OpenAfter(doc, 0) = 0
  <2>1. \A k : {i \in 1 .. 0 : doc[i].kind = k} = {}
    OBVIOUS
  <2> QED  BY <2>1, FS_EmptySet DEF OpenAfter
<1>4. StackShows
  <2>1. Len(stack) = 0 /\ 1 .. 0 = {}
    BY <1>1
  <2> QED  BY <1>1, <1>2, <1>3, <2>1 DEF StackShows, ListEnd
<1>5. TagShows
  BY DEF TagShows, InTag, Init
<1> QED  BY <1>1, <1>2, <1>4, <1>5 DEF ShownInv, Tree!TInit, PathOf

\* One step per action: each is one of the tree's.
LEMMA NextShown ==
  ASSUME IInv, Nested(doc, MaxStack), WellLinked(nodes, count), StackShows, TagShows, Next
  PROVE  /\ WellLinked(nodes', count') /\ StackShows' /\ TagShows'
         /\ Tree!TNext
<1> DEFINE E == [parent : 1 .. count - 1, last : 1 .. count - 1]
           open == PathOf(nodes, stack, current)
<1>1. /\ count \in Nat /\ count >= 2 /\ DOMAIN nodes = 0 .. count - 1 /\ current \in 1 .. count - 1
      /\ stack \in Seq(E) /\ Len(stack) \in Nat /\ \A j \in 1 .. Len(stack) : stack[j] \in E
      /\ doc \in Seq(Token) /\ Len(doc) \in Nat
  <2>1. /\ count \in Nat /\ count >= 2 /\ DOMAIN nodes = 0 .. count - 1
        /\ current \in 1 .. count - 1 /\ stack \in Seq(E)
        /\ doc \in Seq(Token) /\ Len(doc) \in Nat
    BY LenProperties DEF IInv, TypeOK
  <2> HIDE DEF E
  <2>2. Len(stack) \in Nat /\ \A j \in 1 .. Len(stack) : stack[j] \in E
    BY <2>1, MembersOf, LenProperties
  <2> QED  BY <2>1, <2>2
<1>2. ASSUME NEW kind, Reading(kind)
      PROVE  /\ pos - 1 < Len(Roles) /\ pos' - 1 = (pos - 1) + 1 /\ pos' - 1 = pos
             /\ Roles' = Roles /\ Roles[pos] = RoleOf(doc[pos]) /\ doc[pos].kind = kind
             /\ OpenAfter(doc', pos' - 1) = OpenAfter(doc, pos - 1)
                  + (IF kind = "gt" THEN 1 ELSE 0) - (IF kind = "end" THEN 1 ELSE 0)
             /\ OpenAfter(doc', pos' - 1) \in 0 .. MaxStack
  <2>1. pos \in 1 .. Len(doc) /\ pos \in Nat \ {0} /\ doc[pos].kind = kind /\ doc' = doc
    BY <1>2, ReadingIs
  <2>2. OpenAfter(doc, pos) = OpenAfter(doc, pos - 1)
          + (IF kind = "gt" THEN 1 ELSE 0) - (IF kind = "end" THEN 1 ELSE 0)
    BY <2>1, OpenStep
  <2>3. OpenAfter(doc, pos) \in 0 .. MaxStack
    <3>1. pos \in 0 .. Len(doc)
      BY <2>1
    <3> QED  BY <3>1 DEF Nested
  <2>4. /\ pos - 1 < Len(Roles) /\ pos' - 1 = (pos - 1) + 1 /\ pos' - 1 = pos
        /\ Roles' = Roles /\ Roles[pos] = RoleOf(doc[pos])
    BY <1>2, RoleRead
  <2> QED  BY <2>1, <2>2, <2>3, <2>4
<1>3. CASE ReadContent
  <2>1. PICK kind \in {"text", "cdata", "comment", "pi"} :
          /\ Reading(kind)
          /\ IF HiddenBy(kind) \in flags THEN UNCHANGED <<nodes, count, last_child>>
                                         ELSE AppendChild(kind)
          /\ UNCHANGED <<current, stack, elem, last_attr>>
    BY <1>3 DEF ReadContent
  <2>2. TagShows'
    BY <2>1, NoTag
  <2>3. OpenAfter(doc', pos' - 1) = OpenAfter(doc, pos - 1)
    <3>1. OpenAfter(doc, pos - 1) \in Nat
      BY <1>1 DEF StackShows
    <3> QED  BY <1>2, <2>1, <3>1
  <2>4. CASE HiddenBy(kind) \in flags
    <3>1. RoleOf(doc[pos]) = "none"
      BY <1>2, <2>1, <2>4 DEF RoleOf
    <3>2. Tree!TNext
      BY <1>2, <2>1, <2>4, <3>1 DEF Tree!TNext, Tree!Ignore
    <3>3. StackShows'
      BY <2>1, <2>3, <2>4 DEF StackShows
    <3> QED  BY <2>1, <2>2, <2>4, <3>2, <3>3
  <2>5. CASE HiddenBy(kind) \notin flags
    <3>1. RoleOf(doc[pos]) = "node"
      BY <1>2, <2>1, <2>5 DEF RoleOf
    <3>2. WellLinked(nodes', count')
      BY <2>1, <2>5, ChildAdded DEF ChildShows
    <3>3. /\ last_child' = ListEnd(Kids(nodes', current'))
          /\ PathOf(nodes', stack', current') = open
          /\ TreeItems(nodes') = Append(TreeItems(nodes),
               [at |-> pos, attrs |-> <<>>, parent |-> IF open = <<>> THEN 0 ELSE open[Len(open)]])
          /\ \A j \in 1 .. Len(stack') :
               /\ stack'[j].last = ListEnd(Kids(nodes', stack'[j].parent))
               /\ stack'[j].parent < current'
      BY <2>1, <2>5, ChildKeepsStack
    <3>4. Tree!TNext
      <4>1. Tree!AddNode
        BY <1>2, <2>1, <3>1, <3>3 DEF Tree!AddNode, Tree!Innermost
      <4> QED  BY <1>2, <2>1, <4>1 DEF Tree!TNext
    <3>5. StackShows'
      BY <2>1, <2>3, <3>3 DEF StackShows
    <3> QED  BY <2>2, <3>2, <3>4, <3>5
  <2> QED  BY <2>4, <2>5
<1>4. CASE ReadOther
  <2>1. Reading("skip") /\ UNCHANGED <<nodes, count, current, last_child, stack, elem, last_attr>>
    BY <1>4 DEF ReadOther
  <2>2. TagShows'
    BY <2>1, NoTag
  <2>3. RoleOf(doc[pos]) = "none"
    BY <1>2, <2>1 DEF RoleOf
  <2>4. Tree!TNext
    BY <1>2, <2>1, <2>3 DEF Tree!TNext, Tree!Ignore
  <2>5. StackShows'
    BY <1>1, <1>2, <2>1 DEF StackShows
  <2> QED  BY <2>1, <2>2, <2>4, <2>5
<1>5. CASE ReadOpen
  <2>1. /\ Reading("open") /\ AppendChild("element") /\ elem' = count /\ last_attr' = Null
        /\ UNCHANGED <<current, stack>>
    BY <1>5 DEF ReadOpen, LastAttrAtTag
  <2>2. RoleOf(doc[pos]) = "node"
    BY <1>2, <2>1 DEF RoleOf
  <2>3. /\ ChildShows(nodes', nodes, count, current, NewNode("element", pos, 0))
        /\ count' = count + 1
    BY <2>1, ChildAdded
  <2>4. /\ last_child' = ListEnd(Kids(nodes', current'))
        /\ PathOf(nodes', stack', current') = open
        /\ TreeItems(nodes') = Append(TreeItems(nodes),
             [at |-> pos, attrs |-> <<>>, parent |-> IF open = <<>> THEN 0 ELSE open[Len(open)]])
        /\ \A j \in 1 .. Len(stack') :
             /\ stack'[j].last = ListEnd(Kids(nodes', stack'[j].parent))
             /\ stack'[j].parent < current'
    BY <2>1, ChildKeepsStack
  <2>5. Tree!TNext
    <3>1. Tree!AddNode
      BY <1>2, <2>1, <2>2, <2>4 DEF Tree!AddNode, Tree!Innermost
    <3> QED  BY <1>2, <2>1, <3>1 DEF Tree!TNext
  <2>6. StackShows'
    <3>1. OpenAfter(doc', pos' - 1) = OpenAfter(doc, pos - 1)
      <4>1. OpenAfter(doc, pos - 1) \in Nat
        BY <1>1 DEF StackShows
      <4> QED  BY <1>2, <2>1, <4>1
    <3> QED  BY <2>1, <2>4, <3>1 DEF StackShows
  <2>7. TagShows'
    BY <1>1, <2>1, <2>3 DEF TagShows, ChildShows, ListEnd
  <2> QED  BY <2>3, <2>5, <2>6, <2>7 DEF ChildShows
<1>6. CASE ReadAttribute
  <2> DEFINE node == NewNode("attribute", pos, 0)
  <2>1. /\ Reading("attr")
        /\ nodes' = Chained(Grown(nodes, count, node), elem, "first_attr", last_attr, count)
        /\ count' = count + 1 /\ last_attr' = count
        /\ UNCHANGED <<current, last_child, stack, elem>>
    BY <1>6 DEF ReadAttribute
  <2>2. InTag(doc, pos) /\ InTag(doc', pos') /\ pos \in Nat
    BY <2>1, ReadingIs
  <2>3. /\ elem \in TreeNodes(nodes) /\ OrdinalOf(nodes, elem) = Len(TreeItems(nodes))
        /\ current < elem /\ Kids(nodes, elem) = <<>>
        /\ last_attr = ListEnd(AttrsOn(nodes, elem)) /\ elem \in 2 .. count - 1
    BY <2>2 DEF TagShows, IInv, InTagInv
  <2>4. AttrShows(nodes', nodes, count, elem, node)
    <3>1. /\ node \in NodeOf(Types, {0}) /\ node.next_sibling = Null
          /\ \A f \in Firsts : node[f] = Null
          /\ node.type = "attribute"
      BY <2>2 DEF NewNode, NodeOf, Types, Firsts, Null
    <3>2. nodes \in [0 .. count - 1 -> NodeOf(Types, {0})]
      <4>1. NodeType = NodeOf(Types, {0})
        BY DEF NodeType, NodeOf, Types
      <4> QED  BY <4>1 DEF IInv, TypeOK
    <3>3. elem \in 0 .. count - 1
      BY <2>3
    <3> HIDE DEF node
    <3> QED  BY <2>1, <2>3, <3>1, <3>2, <3>3, AttrShown
  <2>5. /\ \A k \in 0 .. count - 1 : OrdinalOf(nodes', k) = OrdinalOf(nodes, k)
        /\ \A p \in 0 .. count - 1 : Kids(nodes', p) = Kids(nodes, p)
        /\ WellLinked(nodes', count') /\ DOMAIN nodes' = 0 .. count
    <3>1. (count + 1) - 1 = count
      BY <1>1
    <3> QED  BY <2>1, <2>4, <3>1 DEF AttrShows, WellLinked, LinksListed, Forward
  <2>6. PathOf(nodes', stack', current') = open
    <3>1. /\ count \in Nat /\ DOMAIN nodes = 0 .. count - 1 /\ DOMAIN nodes' = 0 .. count
          /\ current \in 0 .. count - 1 /\ stack \in Seq(E)
      BY <1>1, <2>5
    <3>2. PathOf(nodes', stack, current) = PathOf(nodes, stack, current)
      BY <3>1, <2>5, PathKept, ZenonT(30)
    <3> QED  BY <2>1, <3>2
  <2>7. Tree!TNext
    <3>1. RoleOf(doc[pos]) = "attr"
      BY <1>2, <2>1 DEF RoleOf
    <3>2. TreeItems(nodes') = [TreeItems(nodes) EXCEPT ![Len(TreeItems(nodes))].attrs = Append(@, pos)]
      BY <2>4 DEF AttrShows, NewNode
    <3>3. Tree!AddAttr
      BY <1>2, <2>1, <2>6, <3>1, <3>2 DEF Tree!AddAttr
    <3> QED  BY <1>2, <2>1, <3>3 DEF Tree!TNext
  <2>8. StackShows'
    <3>1. \A j \in 1 .. Len(stack) : stack[j].parent \in 0 .. count - 1
      BY <1>1
    <3>2. OpenAfter(doc', pos' - 1) = OpenAfter(doc, pos - 1)
      <4>1. OpenAfter(doc, pos - 1) \in Nat
        BY <1>1 DEF StackShows
      <4> QED  BY <1>2, <2>1, <4>1
    <3>3. ASSUME NEW j \in 1 .. Len(stack)
          PROVE  stack[j].last = ListEnd(Kids(nodes', stack[j].parent)) /\ stack[j].parent < current
      BY <2>5, <3>1 DEF StackShows
    <3>4. last_child = ListEnd(Kids(nodes', current))
      <4>1. current \in 0 .. count - 1
        BY <1>1
      <4> QED  BY <2>5, <4>1 DEF StackShows
    <3> QED  BY <2>1, <3>2, <3>3, <3>4 DEF StackShows
  <2>9. TagShows'
    BY <2>1, <2>3, <2>4 DEF TagShows, AttrShows
  <2> QED  BY <2>5, <2>7, <2>8, <2>9
<1>7. CASE ReadOpenEnd
  <2> DEFINE entry == [parent |-> current, last |-> last_child]
  <2>1. /\ Reading("gt") /\ stack' = Saved(stack) /\ current' = elem /\ last_child' = Null
        /\ UNCHANGED <<nodes, count, elem, last_attr>>
    BY <1>7 DEF ReadOpenEnd
  <2>2. TagShows'
    BY <2>1, NoTag
  <2>3. InTag(doc, pos)
    BY <2>1, ReadingIs
  <2>4. /\ elem \in TreeNodes(nodes) /\ OrdinalOf(nodes, elem) = Len(TreeItems(nodes))
        /\ current < elem /\ Kids(nodes, elem) = <<>>
        /\ elem \in 2 .. count - 1 /\ last_child = elem
    BY <2>3 DEF TagShows, IInv, InTagInv
  <2>5. entry \in E
    BY <1>1, <2>4
  <2>6. /\ Len(stack) = OpenAfter(doc, pos - 1) /\ OpenAfter(doc', pos' - 1) = Len(stack) + 1
        /\ stack' = Append(stack, entry)
    <3>1. Len(stack) = OpenAfter(doc, pos - 1)
      BY DEF StackShows
    <3>2. OpenAfter(doc', pos' - 1) = Len(stack) + 1
      BY <1>1, <1>2, <2>1, <3>1
    <3>3. Len(stack) < MaxStack
      BY <1>1, <1>2, <2>1, <3>2, ArenaAssumption
    <3> QED  BY <2>1, <3>1, <3>2, <3>3 DEF Saved
  <2>7. /\ stack' \in Seq(E) /\ Len(stack') = Len(stack) + 1 /\ stack'[Len(stack) + 1] = entry
        /\ \A j \in 1 .. Len(stack) : stack'[j] = stack[j]
    <3> HIDE DEF E, entry
    <3> QED  BY <1>1, <2>5, <2>6, AppendProperties
  <2>10. entry.parent = current /\ entry.last = last_child
    OBVIOUS
  <2>8. Tree!TNext
    <3>1. PathOf(nodes, Append(stack, entry), elem) = Append(open, OrdinalOf(nodes, elem))
      <4>1. entry.parent = current
        OBVIOUS
      <4> HIDE DEF E, entry
      <4>2. count \in Nat /\ DOMAIN nodes = 0 .. count - 1 /\ stack \in Seq(E) /\ entry \in E
        BY <1>1, <2>5
      <4>3. PathOf(nodes, Append(stack, entry), elem)
              = Append(PathOf(nodes, stack, entry.parent), OrdinalOf(nodes, elem))
        BY <4>2, PathPushed
      <4> QED  BY <4>1, <4>3
    <3>2. PathOf(nodes', stack', current') = Append(open, Len(TreeItems(nodes)))
      BY <2>1, <2>4, <2>6, <3>1
    <3>3. RoleOf(doc[pos]) = "enter"
      BY <1>2, <2>1 DEF RoleOf
    <3>4. Tree!Enter
      BY <1>2, <2>1, <3>2, <3>3 DEF Tree!Enter
    <3> QED  BY <1>2, <2>1, <3>4 DEF Tree!TNext
  <2>9. StackShows'
    <3> HIDE DEF E, entry
    <3>0. /\ Len(stack) \in Nat /\ \A j \in 1 .. Len(stack) : stack[j].parent \in Nat
          /\ current \in Nat /\ elem \in Nat /\ current < elem
      BY <1>1, <2>4 DEF E
    <3>1. stack' # <<>>
      BY <1>1, <2>7, EmptySeq
    <3>2. stack'[1].parent = Document
      <4>1. CASE stack = <<>>
        <5>1. Len(stack) = 0 /\ current = Document
          BY <4>1 DEF StackShows
        <5> QED  BY <2>7, <2>10, <5>1
      <4>2. CASE stack # <<>>
        <5>1. 1 \in 1 .. Len(stack)
          BY <1>1, <4>2, EmptySeq
        <5> QED  BY <2>7, <4>2, <5>1 DEF StackShows
      <4> QED  BY <4>1, <4>2
    <3>3. ASSUME NEW j \in 1 .. Len(stack')
          PROVE  stack'[j].last = ListEnd(Kids(nodes, stack'[j].parent)) /\ stack'[j].parent < elem
      <4>1. CASE j = Len(stack) + 1
        BY <3>0, <2>10, <2>7, <4>1 DEF StackShows
      <4>2. CASE j # Len(stack) + 1
        <5>1. j \in 1 .. Len(stack)
          BY <3>0, <2>7, <4>2
        <5>2. /\ stack[j].last = ListEnd(Kids(nodes, stack[j].parent)) /\ stack[j].parent < current
              /\ stack[j].parent \in Nat
          BY <3>0, <5>1 DEF StackShows
        <5>3. stack'[j] = stack[j]
          BY <2>7, <5>1
        <5> QED  BY <3>0, <5>2, <5>3
      <4> QED  BY <4>1, <4>2
    <3>4. ASSUME NEW i \in 1 .. Len(stack'), NEW j \in 1 .. Len(stack'), i < j
          PROVE  stack'[i].parent < stack'[j].parent
      <4>1. i \in 1 .. Len(stack) /\ stack'[i] = stack[i]
        BY <3>0, <2>7, <3>4
      <4>2. CASE j = Len(stack) + 1
        BY <2>7, <2>10, <4>1, <4>2 DEF StackShows
      <4>3. CASE j # Len(stack) + 1
        <5>1. j \in 1 .. Len(stack) /\ stack'[j] = stack[j]
          BY <3>0, <2>7, <4>3
        <5> QED  BY <3>4, <4>1, <5>1 DEF StackShows
      <4> QED  BY <4>2, <4>3
    <3>5. last_child' = ListEnd(Kids(nodes', current'))
      BY <2>1, <2>4 DEF ListEnd
    <3> QED  BY <2>1, <2>6, <2>7, <3>1, <3>2, <3>3, <3>4, <3>5 DEF StackShows
  <2> QED  BY <2>1, <2>2, <2>8, <2>9
<1>8. CASE ReadSelfClosingEnd
  <2>1. Reading("sgt") /\ UNCHANGED <<nodes, count, current, last_child, stack, elem, last_attr>>
    BY <1>8 DEF ReadSelfClosingEnd
  <2>2. TagShows'
    BY <2>1, NoTag
  <2>3. RoleOf(doc[pos]) = "none"
    BY <1>2, <2>1 DEF RoleOf
  <2>4. Tree!TNext
    BY <1>2, <2>1, <2>3 DEF Tree!TNext, Tree!Ignore
  <2>5. StackShows'
    BY <1>1, <1>2, <2>1 DEF StackShows
  <2> QED  BY <2>1, <2>2, <2>4, <2>5
<1>9. CASE ReadEndTag
  <2>1. /\ Reading("end") /\ current' = RestoredParent /\ last_child' = RestoredLastChild
        /\ stack' = IF stack = <<>> THEN stack ELSE Front(stack)
        /\ UNCHANGED <<nodes, count, elem, last_attr>>
    BY <1>9 DEF ReadEndTag
  <2>2. TagShows'
    BY <2>1, NoTag
  <2>3. /\ Len(stack) = OpenAfter(doc, pos - 1) /\ OpenAfter(doc', pos' - 1) = Len(stack) - 1
        /\ Len(stack) >= 1 /\ stack # <<>>
    <3>1. Len(stack) = OpenAfter(doc, pos - 1)
      BY DEF StackShows
    <3>2. OpenAfter(doc', pos' - 1) = Len(stack) - 1
      BY <1>1, <1>2, <2>1, <3>1
    <3>3. Len(stack) >= 1
      BY <1>1, <1>2, <2>1, <3>2
    <3> QED  BY <1>1, <3>1, <3>2, <3>3, EmptySeq
  <2>4. /\ stack' = SubSeq(stack, 1, Len(stack) - 1)
        /\ current' = stack[Len(stack)].parent /\ last_child' = stack[Len(stack)].last
        /\ Len(stack) \in 1 .. Len(stack)
    BY <1>1, <2>1, <2>3 DEF RestoredParent, RestoredLastChild, Front, Last
  <2>5. Len(stack') = Len(stack) - 1 /\ \A j \in 1 .. Len(stack) - 1 : stack'[j] = stack[j]
    <3> HIDE DEF E
    <3> QED  BY <1>1, <2>4, FrontIs
  <2>6. Tree!TNext
    <3>1. PathOf(nodes', stack', current') = SubSeq(open, 1, Len(open) - 1)
      <4> HIDE DEF E
      <4>1. count \in Nat /\ DOMAIN nodes = 0 .. count - 1 /\ stack \in Seq(E) /\ stack # <<>>
        BY <1>1, <2>3
      <4>2. PathOf(nodes, SubSeq(stack, 1, Len(stack) - 1), stack[Len(stack)].parent)
              = SubSeq(open, 1, Len(open) - 1)
        BY <4>1, PathPopped
      <4> QED  BY <2>1, <2>4, <4>2
    <3>2. open # <<>>
      <4> HIDE DEF E
      <4>1. open \in Seq(Nat) /\ Len(open) = Len(stack)
        BY <1>1, <2>3, PathIs
      <4> QED  BY <2>3, <4>1, EmptySeq
    <3>3. RoleOf(doc[pos]) = "leave"
      BY <1>2, <2>1 DEF RoleOf
    <3>4. Tree!Leave
      BY <1>2, <2>1, <3>1, <3>2, <3>3 DEF Tree!Leave
    <3> QED  BY <1>2, <2>1, <3>4 DEF Tree!TNext
  <2>7. StackShows'
    <3>1. last_child' = ListEnd(Kids(nodes', current'))
      BY <2>1, <2>4 DEF StackShows
    <3>2. stack' = <<>> => current' = Document
      <4>1. stack' = <<>> => Len(stack) = 1
        BY <1>1, <2>5
      <4> QED  BY <2>3, <2>4, <4>1 DEF StackShows
    <3>3. stack' # <<>> => stack'[1].parent = Document
      <4>1. stack' # <<>> => 1 \in 1 .. Len(stack) - 1
        BY <1>1, <2>3, <2>4, <2>5, SubSeqEmpty
      <4> QED  BY <2>3, <2>5, <4>1 DEF StackShows
    <3>4. ASSUME NEW j \in 1 .. Len(stack')
          PROVE  /\ stack'[j].last = ListEnd(Kids(nodes, stack'[j].parent))
                 /\ stack'[j].parent < current'
      <4>1. j \in 1 .. Len(stack) - 1 /\ j \in 1 .. Len(stack) /\ j < Len(stack)
        BY <1>1, <2>5
      <4> QED  BY <2>4, <2>5, <4>1 DEF StackShows
    <3>5. ASSUME NEW i \in 1 .. Len(stack'), NEW j \in 1 .. Len(stack'), i < j
          PROVE  stack'[i].parent < stack'[j].parent
      <4>1. /\ i \in 1 .. Len(stack) - 1 /\ i \in 1 .. Len(stack)
            /\ j \in 1 .. Len(stack) - 1 /\ j \in 1 .. Len(stack)
        BY <1>1, <2>5
      <4> QED  BY <2>5, <3>5, <4>1 DEF StackShows
    <3> QED  BY <2>1, <2>3, <2>5, <3>1, <3>2, <3>3, <3>4, <3>5 DEF StackShows
  <2> QED  BY <2>1, <2>2, <2>6, <2>7
<1> QED  BY <1>3, <1>4, <1>5, <1>6, <1>7, <1>8, <1>9 DEF Next

\* dom_parse builds the document's tree on every document whose end tags close
\* something and that nests no deeper than stack_buf, whatever its constructs and
\* flags are (BuildsTheTree: the refinement of XmlTree).
THEOREM TreeBuilt == Spec => BuildsTheTree
<1>1. IInv /\ ShownInv /\ [Next]_vars
        => ShownInv' /\ [Nested(doc, MaxStack) => Tree!TNext]_(Tree!treeVars)
  <2> SUFFICES ASSUME IInv, ShownInv, [Next]_vars
               PROVE  ShownInv' /\ [Nested(doc, MaxStack) => Tree!TNext]_(Tree!treeVars)
    OBVIOUS
  <2>1. CASE UNCHANGED vars
    <3>1. Roles' = Roles
      BY <2>1 DEF vars, Roles, RoleOf
    <3>2. ShownInv'
      BY <2>1 DEF vars, ShownInv, StackShows, TagShows
    <3> QED  BY <2>1, <3>1, <3>2 DEF vars, Tree!treeVars
  <2>2. CASE Next
    <3>1. doc' = doc
      BY <2>2 DEF Next, ReadContent, ReadOther, ReadOpen, ReadAttribute, ReadOpenEnd,
                  ReadSelfClosingEnd, ReadEndTag, Reading
    <3>2. Nested(doc, MaxStack) =>
            /\ WellLinked(nodes', count') /\ StackShows' /\ TagShows' /\ Tree!TNext
      BY <2>2, NextShown DEF ShownInv
    <3> QED  BY <3>1, <3>2 DEF ShownInv
  <2> QED  BY <2>1, <2>2
<1> QED  BY <1>1, InitInv, NextInv, InitShown, PTL DEF Spec, BuildsTheTree

-----------------------------------------------------------------------------
(* The pools that the arena parser allocates from: whatever results are    *)
(* made, filled, reset, moved and destroyed, in any number and with pages  *)
(* of any size, nodes and strings are handed out once and stay where they  *)
(* are.                                                                    *)

\* A pool one node on.
LEMMA OneOn ==
  ASSUME NEW p \in NodePoolType, p.offset < NodesPerPage
  PROVE  LET q == [p EXCEPT !.offset = @ + 1, !.total = @ + 1] IN
         /\ q \in NodePoolType
         /\ q.pages = p.pages /\ q.page = p.page /\ q.idx = p.idx
         /\ q.offset = p.offset + 1 /\ q.total = p.total + 1
<1> DEFINE o == [p EXCEPT !.offset = p.offset + 1]
           q == [o EXCEPT !.total = o.total + 1]
<1>1. /\ o \in NodePoolType
      /\ o.pages = p.pages /\ o.page = p.page /\ o.idx = p.idx
      /\ o.offset = p.offset + 1 /\ o.total = p.total
  BY PoolsAssumption DEF NodePoolType
<1>2. q = [p EXCEPT !.offset = @ + 1, !.total = @ + 1]
  BY <1>1
<1> HIDE DEF o
<1>3. /\ q \in NodePoolType
      /\ q.pages = o.pages /\ q.page = o.page /\ q.idx = o.idx
      /\ q.offset = o.offset /\ q.total = o.total + 1
  BY <1>1 DEF NodePoolType
<1> HIDE DEF q
<1> QED  BY <1>1, <1>2, <1>3

\* A string pool n characters on.
LEMMA StringOn ==
  ASSUME NEW p \in StringPoolType, NEW n \in Nat
  PROVE  LET q == [p EXCEPT !.offset = @ + n] IN
         /\ q \in StringPoolType
         /\ q.pages = p.pages /\ q.page = p.page /\ q.offset = p.offset + n
BY DEF StringPoolType

\* A pool at the start of a page that it has.
LEMMA AtPageTyped ==
  ASSUME NEW pages \in Seq(NodePages), NEW idx \in Nat, NEW k \in DOMAIN pages, k = idx + 1,
         NEW total \in Nat
  PROVE  /\ AtPage(pages, idx, total) \in NodePoolType
         /\ AtPage(pages, idx, total).page \in NodePages
         /\ AtPage(pages, idx, total).offset = 0
<1>1. pages[idx + 1] \in NodePages
  OBVIOUS
<1> QED  BY <1>1, PoolsAssumption DEF AtPage, NodePoolType

\* Types, and room only on a page that is there.
THEOREM PoolsTyped == PoolsSpec => []PoolsTypeOK
<1> USE PoolsAssumption
<1>1. PoolsInit => PoolsTypeOK
  <2> SUFFICES ASSUME PoolsInit PROVE PoolsTypeOK
    OBVIOUS
  <2>1. NoNodes \in NodePoolType /\ NoStrings \in StringPoolType
    BY DEF NoNodes, NoStrings, NodePoolType, StringPoolType
  <2>2. capacity = <<>> /\ DOMAIN capacity = {} /\ capacity \in [DOMAIN capacity -> Nat]
    BY DEF PoolsInit
  <2>3. \A r \in Results : pools[r].offset = NodesPerPage /\ strings[r].offset = PageSize
    BY DEF PoolsInit, NoNodes, NoStrings
  <2> QED  BY <2>1, <2>2, <2>3 DEF PoolsInit, PoolsTypeOK, PageFull
<1>2. PoolsTypeOK /\ [PoolsNext]_poolsVars => PoolsTypeOK'
  <2> SUFFICES ASSUME PoolsTypeOK, [PoolsNext]_poolsVars PROVE PoolsTypeOK'
    OBVIOUS
  <2> USE DEF PoolsTypeOK
  <2>1. \A r \in Results : pools[r] \in NodePoolType /\ strings[r] \in StringPoolType
    OBVIOUS
  <2>2. ASSUME NEW r \in Results, NEW pool \in NodePoolType, NEW used, used \subseteq NodePages \X Slots,
               pool.page # None, pool.offset < NodesPerPage, HandOut(r, pool, used),
               heap' \subseteq NodePages
        PROVE  PoolsTypeOK'
    <3>1. <<pool.page, pool.offset>> \in NodePages \X Slots
      BY <2>2 DEF NodePoolType, Slots
    <3>2. [pool EXCEPT !.offset = @ + 1, !.total = @ + 1] \in NodePoolType
      BY <2>2, OneOn
    <3>3. [pool EXCEPT !.offset = @ + 1, !.total = @ + 1].page # None
      BY <2>2, OneOn
    <3> QED  BY <2>1, <2>2, <3>1, <3>2, <3>3 DEF HandOut, PageFull
  <2>3. ASSUME NEW r \in Results, Create(r) PROVE PoolsTypeOK'
    BY <2>3 DEF Create, PageFull
  <2>4. ASSUME NEW r \in Results, Allocate(r) PROVE PoolsTypeOK'
    <3>1. pools[r] \in NodePoolType /\ pools[r].offset < NodesPerPage /\ pools[r].page # None
      BY <2>1, <2>4 DEF Allocate, PageFull, NodePoolType
    <3> QED  BY <2>2, <2>4, <3>1 DEF Allocate
  <2>5. ASSUME NEW r \in Results, AllocateOnNext(r) PROVE PoolsTypeOK'
    <3>1. Advanced(pools[r]) \in NodePoolType /\ Advanced(pools[r]).page # None
          /\ Advanced(pools[r]).offset = 0
      <4>1. /\ pools[r].pages \in Seq(NodePages) /\ pools[r].idx + 1 \in Nat
            /\ pools[r].idx + 1 + 1 \in DOMAIN pools[r].pages /\ pools[r].total \in Nat
        BY <2>1, <2>5 DEF AllocateOnNext, HasNext, NodePoolType
      <4> QED  BY <4>1, AtPageTyped DEF Advanced
    <3> QED  BY <2>2, <2>5, <3>1 DEF AllocateOnNext
  <2>6. ASSUME NEW r \in Results, AllocateOnNew(r) PROVE PoolsTypeOK'
    <3> PICK page \in NodePages \ heap :
           heap' = heap \cup {page} /\ HandOut(r, Added(pools[r], page), dirty \ NodesOf(page))
      BY <2>6 DEF AllocateOnNew
    <3>1. Added(pools[r], page) \in NodePoolType /\ Added(pools[r], page).page # None
          /\ Added(pools[r], page).offset = 0
      <4> DEFINE pages == Append(pools[r].pages, page)
                 idx   == Len(pools[r].pages)
      <4>1. pages \in Seq(NodePages) /\ idx \in Nat /\ idx + 1 \in DOMAIN pages
            /\ pools[r].total \in Nat
        BY <2>1 DEF NodePoolType
      <4>2. Added(pools[r], page) = AtPage(pages, idx, pools[r].total)
        BY DEF Added
      <4> HIDE DEF pages, idx
      <4> QED  BY <4>1, <4>2, AtPageTyped
    <3> QED  BY <2>2, <3>1
  <2>7. ASSUME NEW r \in Results, Reset(r) PROVE PoolsTypeOK'
    <3>1. FromStart(pools[r]) \in NodePoolType /\ FromStart(pools[r]).page # None
      <4> DEFINE pages == pools[r].pages
      <4>1. pages \in Seq(NodePages) /\ 1 \in DOMAIN pages
        BY <2>1, <2>7 DEF Reset, NodePoolType
      <4>2. FromStart(pools[r]) = AtPage(pages, 0, 0)
        BY DEF FromStart
      <4> HIDE DEF pages
      <4>3. /\ AtPage(pages, 0, 0) \in NodePoolType /\ AtPage(pages, 0, 0).page \in NodePages
        <5>1. 0 \in Nat /\ 1 = 0 + 1
          OBVIOUS
        <5> DEFINE first == 1
                   none  == 0
        <5>2. first \in DOMAIN pages /\ none \in Nat /\ first = none + 1
          BY <4>1, <5>1
        <5> HIDE DEF first, none
        <5>3. /\ AtPage(pages, none, none) \in NodePoolType
              /\ AtPage(pages, none, none).page \in NodePages
          BY <4>1, <5>2, AtPageTyped
        <5> QED  BY <5>3 DEF none
      <4> QED  BY <4>2, <4>3
    <3> QED  BY <2>1, <2>7, <3>1 DEF Reset, Cleared, PageFull
  <2>8. ASSUME NEW r \in Results, NEW pool \in StringPoolType, NEW n \in Lengths, Keep(r, pool, n),
               pool.page # None,
               DOMAIN capacity' \subseteq StringPages, capacity' \in [DOMAIN capacity' -> Nat]
        PROVE  PoolsTypeOK'
    <3>1. [pool EXCEPT !.offset = @ + n] \in StringPoolType
          /\ [pool EXCEPT !.offset = @ + n].page # None
      BY <2>8, StringOn
    <3>2. [page |-> pool.page, from |-> pool.offset, len |-> n] \in View
      BY <2>8 DEF StringPoolType, View
    <3> QED  BY <2>1, <2>8, <3>1, <3>2 DEF Keep, PageFull
  <2>9. ASSUME NEW r \in Results, NEW n \in Lengths, Store(r, n) PROVE PoolsTypeOK'
    <3>1. strings[r].page # None
      <4>1. strings[r].offset \in Nat /\ n > 0
        BY <2>1, <2>9 DEF StringPoolType
      <4> QED  BY <2>9, <4>1 DEF Store
    <3> QED  BY <2>1, <2>8, <2>9, <3>1 DEF Store
  <2>10. ASSUME NEW r \in Results, NEW n \in Lengths, StoreOnNew(r, n) PROVE PoolsTypeOK'
    <3> PICK page \in StringPages \ DOMAIN capacity :
           /\ capacity' = [p \in DOMAIN capacity \cup {page} |->
                             IF p = page THEN SizeFor(n) ELSE capacity[p]]
           /\ Keep(r, [pages |-> strings[r].pages \cup {page}, page |-> page, offset |-> 0], n)
      BY <2>10 DEF StoreOnNew
    <3>1. [pages |-> strings[r].pages \cup {page}, page |-> page, offset |-> 0] \in StringPoolType
      BY <2>1 DEF StringPoolType
    <3>2. SizeFor(n) \in Nat
      BY DEF SizeFor
    <3> QED  BY <2>8, <3>1, <3>2
  <2>11. ASSUME NEW from \in Results, NEW to \in Results, Moved(from, to), alive' \subseteq Results,
                heap' \subseteq NodePages
         PROVE  PoolsTypeOK'
    <3>1. NoNodes \in NodePoolType /\ NoNodes.offset = NodesPerPage
      BY DEF NoNodes, NodePoolType
    <3>2. /\ LeftOfStrings(strings[from]) \in StringPoolType
          /\ LeftOfStrings(strings[from]).page = strings[from].page
          /\ LeftOfStrings(strings[from]).offset = strings[from].offset
      BY <2>1 DEF LeftOfStrings, StringPoolType
    <3>3. /\ pools' \in [Results -> NodePoolType] /\ strings' \in [Results -> StringPoolType]
          /\ \A r \in Results : /\ pools'[r] \in {pools[r], pools[from], NoNodes}
                                /\ strings'[r] \in {strings[r], strings[from], LeftOfStrings(strings[from])}
                                /\ handed'[r] \in {handed[r], handed[from], {}}
                                /\ views'[r] \in {views[r], views[from], {}}
      BY <2>1, <2>11, <3>1, <3>2 DEF Moved, Emptied
    <3>4. \A r \in Results : /\ pools'[r].page = None => pools'[r].offset >= NodesPerPage
                             /\ strings'[r].page = None => strings'[r].offset >= PageSize
      BY <2>11, <3>1, <3>2, <3>3 DEF PageFull
    <3>5. /\ handed' \in [Results -> SUBSET (NodePages \X Slots)]
          /\ views' \in [Results -> SUBSET View]
      BY <2>11 DEF Moved
    <3> QED  BY <2>11, <3>3, <3>4, <3>5 DEF Moved, PageFull
  <2>12. ASSUME NEW from \in Results, NEW to \in Results, MoveConstruct(from, to) PROVE PoolsTypeOK'
    BY <2>11, <2>12 DEF MoveConstruct
  <2>13. ASSUME NEW from \in Results, NEW to \in Results, MoveAssign(from, to) PROVE PoolsTypeOK'
    BY <2>11, <2>13 DEF MoveAssign
  <2>14. ASSUME NEW r \in Results, Destroy(r) PROVE PoolsTypeOK'
    <3>1. NoNodes \in NodePoolType /\ NoStrings \in StringPoolType
          /\ NoNodes.offset = NodesPerPage /\ NoStrings.offset = PageSize
      BY DEF NoNodes, NoStrings, NodePoolType, StringPoolType
    <3> QED  BY <2>1, <2>14, <3>1 DEF Destroy, PageFull
  <2>15. CASE UNCHANGED poolsVars
    BY <2>15 DEF poolsVars, PageFull
  <2> QED  BY <2>3, <2>4, <2>5, <2>6, <2>7, <2>9, <2>10, <2>12, <2>13, <2>14, <2>15 DEF PoolsNext
<1> QED  BY <1>1, <1>2, PTL DEF PoolsSpec

-----------------------------------------------------------------------------
(* Nodes                                                                   *)

\* The pages of a pool differ, and its cursor is on one of them.
CursorOk(p) ==
  /\ p.pages = <<>> => p.offset = NodesPerPage
  /\ p.pages # <<>> => p.idx + 1 \in DOMAIN p.pages /\ p.page = p.pages[p.idx + 1]
  /\ \A i, j \in DOMAIN p.pages : p.pages[i] = p.pages[j] => i = j

\* A node lies before the cursor, or from it on.
Behind(p, node) ==
  node[2] \in Slots /\
  \E i \in DOMAIN p.pages :
    node[1] = p.pages[i] /\ (i < p.idx + 1 \/ (i = p.idx + 1 /\ node[2] < p.offset))
InFront(p, node) ==
  node[2] \in Slots /\
  \E i \in DOMAIN p.pages :
    node[1] = p.pages[i] /\ (i > p.idx + 1 \/ (i = p.idx + 1 /\ node[2] >= p.offset))

\* The nodes h that a pool has handed out are those it counted, and lie before
\* its cursor; none of the written nodes d does not.
Counted(p, h) == IsFiniteSet(h) /\ Cardinality(h) = p.total /\ \A node \in h : Behind(p, node)
Clean(p, d)   == \A node \in d : ~InFront(p, node)
Good(p, h, d) == CursorOk(p) /\ Counted(p, h) /\ Clean(p, d)

PoolsApart ==
  \A r, q \in Results : r # q =>
    \A i \in DOMAIN pools[r].pages : \A j \in DOMAIN pools[q].pages :
      pools[r].pages[i] # pools[q].pages[j]

NodeInv ==
  /\ \A r \in Results : Good(pools[r], handed[r], dirty)
  /\ \A r \in Results : \A i \in DOMAIN pools[r].pages : pools[r].pages[i] \in heap
  /\ PoolsApart

\* Fewer written nodes.
LEMMA CleanLess ==
  ASSUME NEW p, NEW d, Clean(p, d), NEW e, e \subseteq d
  PROVE  Clean(p, e)
BY DEF Clean

\* One node on: it was not handed out before, and is the only one newly written.
LEMMA GoodOneOn ==
  ASSUME NEW p \in NodePoolType, NEW h, NEW d, Good(p, h, d),
         p.offset < NodesPerPage
  PROVE  LET node == <<p.page, p.offset>> IN
         Good([p EXCEPT !.offset = @ + 1, !.total = @ + 1], h \cup {node}, d \cup {node})
<1> DEFINE q == [p EXCEPT !.offset = @ + 1, !.total = @ + 1]
           node == <<p.page, p.offset>>
<1>1. /\ q.pages = p.pages /\ q.page = p.page /\ q.idx = p.idx
      /\ q.offset = p.offset + 1 /\ q.total = p.total + 1
  BY OneOn
<1> HIDE DEF q
<1>2. /\ p.pages \in Seq(NodePages) /\ p.idx \in Nat /\ p.offset \in Nat
  BY PoolsAssumption DEF NodePoolType
<1>3. p.pages # <<>> /\ p.idx + 1 \in DOMAIN p.pages /\ p.page = p.pages[p.idx + 1]
  BY <1>2, PoolsAssumption DEF Good, CursorOk
<1>4. CursorOk(q)
  BY <1>1, <1>3 DEF Good, CursorOk
<1>5. \A i, j \in DOMAIN p.pages : p.pages[i] = p.pages[j] => i = j
  BY DEF Good, CursorOk
<1>6. node[1] = p.page /\ node[2] = p.offset /\ node[2] \in Slots
  BY <1>2, PoolsAssumption DEF Slots
<1> HIDE DEF node
<1>7. Counted(q, h \cup {node})
  <2>1. node \notin h
    BY <1>2, <1>3, <1>5, <1>6 DEF Good, Counted, Behind
  <2>2. IsFiniteSet(h \cup {node}) /\ Cardinality(h \cup {node}) = q.total
    BY <1>1, <2>1, FS_AddElement DEF Good, Counted
  <2>3. Behind(q, node)
    BY <1>1, <1>2, <1>3, <1>6 DEF Behind
  <2>4. ASSUME NEW n \in h PROVE Behind(q, n)
    <3>1. Behind(p, n)
      BY DEF Good, Counted
    <3>0. n[2] \in Slots /\ n[2] \in Int
      BY <3>1, PoolsAssumption DEF Behind, Slots
    <3>2. PICK i \in DOMAIN p.pages :
             n[1] = p.pages[i] /\ (i < p.idx + 1 \/ (i = p.idx + 1 /\ n[2] < p.offset))
      BY <3>1 DEF Behind
    <3>3. CASE i < p.idx + 1
      BY <1>1, <3>0, <3>2, <3>3 DEF Behind
    <3>4. CASE i = p.idx + 1 /\ n[2] < p.offset
      <4>1. n[2] < p.offset + 1
        BY <1>2, <3>0, <3>4
      <4> QED  BY <1>1, <3>0, <3>2, <3>4, <4>1 DEF Behind
    <3> QED  BY <3>2, <3>3, <3>4
  <2> QED  BY <2>2, <2>3, <2>4 DEF Counted
<1>8. Clean(q, d \cup {node})
  <2>1. ASSUME NEW n \in d PROVE ~InFront(q, n)
    <3>1. ~InFront(p, n)
      BY DEF Good, Clean
    <3> SUFFICES ASSUME InFront(q, n) PROVE FALSE
      OBVIOUS
    <3>2. n[2] \in Slots /\ n[2] \in Int
      BY PoolsAssumption DEF InFront, Slots
    <3>3. PICK i \in DOMAIN p.pages :
             n[1] = p.pages[i] /\ (i > p.idx + 1 \/ (i = p.idx + 1 /\ n[2] >= p.offset + 1))
      BY <1>1 DEF InFront
    <3>4. n[2] >= p.offset + 1 => n[2] >= p.offset
      BY <1>2, <3>2
    <3> QED  BY <3>1, <3>2, <3>3, <3>4 DEF InFront
  <2>2. ~InFront(q, node)
    <3> SUFFICES ASSUME InFront(q, node) PROVE FALSE
      OBVIOUS
    <3>1. PICK i \in DOMAIN p.pages :
             p.page = p.pages[i] /\ (i > p.idx + 1 \/ (i = p.idx + 1 /\ p.offset >= p.offset + 1))
      BY <1>1, <1>6 DEF InFront
    <3>2. i = p.idx + 1
      BY <1>3, <1>5, <3>1
    <3> QED  BY <1>2, <3>1, <3>2
  <2> QED  BY <2>1, <2>2 DEF Clean
<1> QED  BY <1>4, <1>7, <1>8 DEF Good, q, node

\* Another pool's node.
LEMMA GoodOther ==
  ASSUME NEW p, NEW h, NEW d, Good(p, h, d),
         NEW page, NEW k, \A i \in DOMAIN p.pages : p.pages[i] # page
  PROVE  Good(p, h, d \cup {<<page, k>>})
<1> DEFINE node == <<page, k>>
<1>1. node[1] = page
  OBVIOUS
<1> HIDE DEF node
<1>2. ~InFront(p, node)
  BY <1>1 DEF InFront
<1> QED  BY <1>2 DEF Good, Clean, node

\* On to the next page: nothing lies between.
LEMMA GoodAdvanced ==
  ASSUME NEW p \in NodePoolType, NEW h, NEW d, Good(p, h, d),
         p.offset >= NodesPerPage, p.idx + 1 < Len(p.pages)
  PROVE  Good(Advanced(p), h, d)
<1> DEFINE q == Advanced(p)
<1>1. /\ q.pages = p.pages /\ q.page = p.pages[p.idx + 1 + 1] /\ q.idx = p.idx + 1
      /\ q.offset = 0 /\ q.total = p.total
  BY DEF Advanced, AtPage
<1> HIDE DEF q
<1>2. /\ p.pages \in Seq(NodePages) /\ p.idx \in Nat /\ p.offset = NodesPerPage
      /\ DOMAIN p.pages = 1 .. Len(p.pages) /\ Len(p.pages) \in Nat
  BY PoolsAssumption DEF NodePoolType
<1>3. CursorOk(q)
  <2>1. p.idx + 1 + 1 \in DOMAIN p.pages
    BY <1>2
  <2>2. p.pages # <<>>
    BY <1>2
  <2> QED  BY <1>1, <2>1, <2>2 DEF Good, CursorOk
<1>4. ASSUME NEW n, Behind(p, n) PROVE Behind(q, n)
  <2>1. \A i \in DOMAIN p.pages : (i < p.idx + 1 \/ i = p.idx + 1) => i < p.idx + 1 + 1
    BY <1>2
  <2> QED  BY <1>1, <1>4, <2>1 DEF Behind
<1>5. ASSUME NEW n, InFront(q, n) PROVE InFront(p, n)
  <2>1. \A i \in DOMAIN p.pages : (i > p.idx + 1 + 1 \/ i = p.idx + 1 + 1) => i > p.idx + 1
    BY <1>2
  <2> QED  BY <1>1, <1>5, <2>1 DEF InFront
<1>6. Counted(q, h)
  BY <1>1, <1>4 DEF Good, Counted
<1>7. Clean(q, d)
  BY <1>5 DEF Good, Clean
<1> QED  BY <1>3, <1>6, <1>7 DEF Good, q

\* On to a new page of zeros.
LEMMA GoodAdded ==
  ASSUME NEW p \in NodePoolType, NEW h, NEW d, d \subseteq NodePages \X Slots, Good(p, h, d),
         p.offset >= NodesPerPage, ~(p.idx + 1 < Len(p.pages)),
         NEW page \in NodePages, \A i \in DOMAIN p.pages : p.pages[i] # page
  PROVE  Good(Added(p, page), h, d \ NodesOf(page))
<1> DEFINE q == Added(p, page)
           n == Len(p.pages)
<1>1. /\ q.pages = Append(p.pages, page) /\ q.page = q.pages[n + 1] /\ q.idx = n
      /\ q.offset = 0 /\ q.total = p.total
  BY DEF Added, AtPage
<1> HIDE DEF q
<1>2. /\ p.pages \in Seq(NodePages) /\ p.idx \in Nat /\ p.offset = NodesPerPage
      /\ DOMAIN p.pages = 1 .. n /\ n \in Nat
  BY PoolsAssumption DEF NodePoolType
<1>3. /\ DOMAIN q.pages = 1 .. n + 1 /\ q.pages[n + 1] = page
      /\ \A i \in 1 .. n : q.pages[i] = p.pages[i]
  BY <1>1, <1>2
<1> HIDE DEF n
<1>4. CursorOk(q)
  <2>1. n + 1 \in DOMAIN q.pages /\ q.pages # <<>>
    BY <1>2, <1>3
  <2>2. \A i, j \in 1 .. n : p.pages[i] = p.pages[j] => i = j
    BY <1>2 DEF Good, CursorOk
  <2>3. \A i \in 1 .. n + 1 : i \in 1 .. n \/ i = n + 1
    BY <1>2
  <2>4. \A i, j \in 1 .. n + 1 : q.pages[i] = q.pages[j] => i = j
    BY <1>2, <1>3, <2>2, <2>3
  <2> QED  BY <1>1, <1>3, <2>1, <2>4 DEF CursorOk
<1>5. ASSUME NEW node, Behind(p, node) PROVE Behind(q, node)
  <2>1. \A i \in DOMAIN p.pages : i \in DOMAIN q.pages /\ i < n + 1 /\ q.pages[i] = p.pages[i]
    BY <1>2, <1>3
  <2> QED  BY <1>1, <1>5, <2>1 DEF Behind
<1>6. ASSUME NEW node \in d \ NodesOf(page) PROVE ~InFront(q, node)
  <2> SUFFICES ASSUME InFront(q, node) PROVE FALSE
    OBVIOUS
  <2>1. \A i \in DOMAIN q.pages : ~(i > n + 1)
    BY <1>2, <1>3
  <2>2. node[1] = page /\ node[2] \in Slots
    BY <1>1, <1>3, <2>1 DEF InFront
  <2>3. node = <<node[1], node[2]>>
    OBVIOUS
  <2> QED  BY <2>2, <2>3 DEF NodesOf
<1>7. Counted(q, h)
  BY <1>1, <1>5 DEF Good, Counted
<1>8. Clean(q, d \ NodesOf(page))
  BY <1>6 DEF Clean
<1> QED  BY <1>4, <1>7, <1>8 DEF Good, q

\* Back to the first page, with all pages set to zero.
LEMMA GoodFromStart ==
  ASSUME NEW p \in NodePoolType, CursorOk(p), p.pages # <<>>,
         NEW d, d \subseteq NodePages \X Slots,
         NEW e, e \subseteq d, \A i \in DOMAIN p.pages : e \cap NodesOf(p.pages[i]) = {}
  PROVE  Good(FromStart(p), {}, e)
<1> DEFINE q == FromStart(p)
<1>1. /\ q.pages = p.pages /\ q.page = p.pages[1] /\ q.idx = 0 /\ q.offset = 0 /\ q.total = 0
  BY DEF FromStart, AtPage
<1> HIDE DEF q
<1>2. 1 \in DOMAIN p.pages
  BY DEF NodePoolType
<1>3. CursorOk(q)
  BY <1>1, <1>2 DEF CursorOk
<1>4. Counted(q, {})
  BY <1>1, FS_EmptySet DEF Counted
<1>5. ASSUME NEW node \in e PROVE ~InFront(q, node)
  <2>1. node = <<node[1], node[2]>>
    OBVIOUS
  <2> QED  BY <1>1, <2>1 DEF InFront, NodesOf
<1> QED  BY <1>3, <1>4, <1>5 DEF Good, Clean, q

\* A pool without pages.
LEMMA GoodNone ==
  ASSUME NEW d
  PROVE  Good(NoNodes, {}, d) /\ DOMAIN NoNodes.pages = {}
BY FS_EmptySet DEF NoNodes, Good, CursorOk, Counted, Clean, InFront

\* NodeInv is inductive: one step per action.
LEMMA NodeInvInductive ==
  /\ PoolsInit => NodeInv
  /\ PoolsTypeOK /\ NodeInv /\ [PoolsNext]_poolsVars => NodeInv'
<1>1. PoolsInit => NodeInv
  <2> SUFFICES ASSUME PoolsInit PROVE NodeInv
    OBVIOUS
  <2>1. \A r \in Results : pools[r] = NoNodes /\ handed[r] = {}
    BY DEF PoolsInit
  <2> QED  BY <2>1, GoodNone DEF NodeInv, PoolsApart
<1>2. ASSUME PoolsTypeOK, NodeInv, [PoolsNext]_poolsVars PROVE NodeInv'
  <2>1. /\ pools \in [Results -> NodePoolType] /\ handed \in [Results -> SUBSET (NodePages \X Slots)]
        /\ dirty \subseteq NodePages \X Slots
    BY <1>2 DEF PoolsTypeOK
  <2>2. /\ \A r \in Results : Good(pools[r], handed[r], dirty)
        /\ \A r \in Results : \A i \in DOMAIN pools[r].pages : pools[r].pages[i] \in heap
        /\ \A r, q \in Results : r # q =>
             \A i \in DOMAIN pools[r].pages : \A j \in DOMAIN pools[q].pages :
               pools[r].pages[i] # pools[q].pages[j]
    BY <1>2 DEF NodeInv, PoolsApart
  <2>3. ASSUME NEW r \in Results, NEW pool \in NodePoolType, NEW used,
               HandOut(r, pool, used), pool.offset < NodesPerPage,
               Good(pool, handed[r], used),
               \A q \in Results \ {r} : Good(pools[q], handed[q], used),
               \A q \in Results \ {r} : \A i \in DOMAIN pool.pages : \A j \in DOMAIN pools[q].pages :
                 pool.pages[i] # pools[q].pages[j],
               \A i \in DOMAIN pool.pages : pool.pages[i] \in heap',
               heap \subseteq heap'
        PROVE  NodeInv'
    <3> DEFINE node == <<pool.page, pool.offset>>
               on   == [pool EXCEPT !.offset = @ + 1, !.total = @ + 1]
    <3>1. /\ pools' = [pools EXCEPT ![r] = on] /\ handed' = [handed EXCEPT ![r] = @ \cup {node}]
          /\ dirty' = used \cup {node}
      BY <2>3 DEF HandOut
    <3>2. on.pages = pool.pages
      BY <2>3, OneOn
    <3>3. Good(on, handed[r] \cup {node}, used \cup {node})
      BY <2>3, GoodOneOn
    <3>4. ASSUME NEW q \in Results, q # r PROVE Good(pools[q], handed[q], used \cup {node})
      <4>1. pool.pages # <<>> /\ pool.idx + 1 \in DOMAIN pool.pages
            /\ pool.page = pool.pages[pool.idx + 1]
        BY <2>3, PoolsAssumption DEF Good, CursorOk
      <4>2. \A j \in DOMAIN pools[q].pages : pools[q].pages[j] # pool.page
        BY <2>3, <3>4, <4>1
      <4> QED  BY <2>3, <3>4, <4>2, GoodOther
    <3> HIDE DEF node, on
    <3>5. \A q \in Results : /\ pools'[q] = IF q = r THEN on ELSE pools[q]
                             /\ handed'[q] = IF q = r THEN handed[r] \cup {node} ELSE handed[q]
      BY <2>1, <3>1
    <3>6. \A q \in Results : Good(pools'[q], handed'[q], dirty')
      BY <3>1, <3>3, <3>4, <3>5
    <3>7. \A q \in Results : \A i \in DOMAIN pools'[q].pages : pools'[q].pages[i] \in heap'
      BY <2>2, <2>3, <3>2, <3>5
    <3>8. \A q, o \in Results : q # o =>
            \A i \in DOMAIN pools'[q].pages : \A j \in DOMAIN pools'[o].pages :
              pools'[q].pages[i] # pools'[o].pages[j]
      BY <2>2, <2>3, <3>2, <3>5
    <3> QED  BY <3>6, <3>7, <3>8 DEF NodeInv, PoolsApart
  <2>4. ASSUME NEW r \in Results, Allocate(r) PROVE NodeInv'
    <3>1. pools[r].offset < NodesPerPage
      BY <2>1, <2>4, PoolsAssumption DEF Allocate, PageFull, NodePoolType
    <3> QED  BY <2>1, <2>2, <2>3, <2>4, <3>1 DEF Allocate
  <2>5. ASSUME NEW r \in Results, AllocateOnNext(r) PROVE NodeInv'
    <3>1. /\ Advanced(pools[r]) \in NodePoolType /\ Advanced(pools[r]).offset = 0
          /\ Advanced(pools[r]).pages = pools[r].pages
      <4>1. /\ pools[r].pages \in Seq(NodePages) /\ pools[r].idx + 1 \in Nat
            /\ pools[r].idx + 1 + 1 \in DOMAIN pools[r].pages /\ pools[r].total \in Nat
        BY <2>1, <2>5 DEF AllocateOnNext, HasNext, NodePoolType
      <4> QED  BY <4>1, AtPageTyped DEF Advanced, AtPage
    <3>2. Good(Advanced(pools[r]), handed[r], dirty)
      BY <2>1, <2>2, <2>5, GoodAdvanced DEF AllocateOnNext, HasNext, PageFull
    <3> QED  BY <2>2, <2>3, <2>5, <3>1, <3>2, PoolsAssumption DEF AllocateOnNext
  <2>6. ASSUME NEW r \in Results, AllocateOnNew(r) PROVE NodeInv'
    <3> PICK page \in NodePages \ heap :
           heap' = heap \cup {page} /\ HandOut(r, Added(pools[r], page), dirty \ NodesOf(page))
      BY <2>6 DEF AllocateOnNew
    <3> DEFINE pages == Append(pools[r].pages, page)
               idx   == Len(pools[r].pages)
    <3>1. /\ pages \in Seq(NodePages) /\ idx \in Nat /\ idx + 1 \in DOMAIN pages
          /\ pools[r].total \in Nat
          /\ \A i \in DOMAIN pages :
               pages[i] = page \/ (i \in DOMAIN pools[r].pages /\ pages[i] = pools[r].pages[i])
      <4>1. pools[r].pages \in Seq(NodePages) /\ pools[r].total \in Nat
        BY <2>1 DEF NodePoolType
      <4>2. /\ pages \in Seq(NodePages) /\ idx \in Nat /\ DOMAIN pages = 1 .. idx + 1
            /\ DOMAIN pools[r].pages = 1 .. idx /\ pages[idx + 1] = page
            /\ \A i \in 1 .. idx : pages[i] = pools[r].pages[i]
        BY <4>1
      <4> HIDE DEF pages, idx
      <4>3. \A i \in 1 .. idx + 1 : i \in 1 .. idx \/ i = idx + 1
        BY <4>2
      <4>4. idx + 1 \in DOMAIN pages
        BY <4>2
      <4> QED  BY <4>1, <4>2, <4>3, <4>4
    <3>2. Added(pools[r], page) = AtPage(pages, idx, pools[r].total)
      BY DEF Added
    <3> HIDE DEF pages, idx
    <3>3. /\ Added(pools[r], page) \in NodePoolType /\ Added(pools[r], page).offset = 0
          /\ Added(pools[r], page).pages = pages
      BY <3>1, <3>2, AtPageTyped DEF AtPage
    <3>4. \A q \in Results : \A j \in DOMAIN pools[q].pages : pools[q].pages[j] # page
      BY <2>2
    <3>5. Good(Added(pools[r], page), handed[r], dirty \ NodesOf(page))
      BY <2>1, <2>2, <2>6, <3>4, GoodAdded DEF AllocateOnNew, HasNext, PageFull
    <3>6. \A q \in Results : Good(pools[q], handed[q], dirty \ NodesOf(page))
      BY <2>2, CleanLess DEF Good
    <3>7. \A q \in Results \ {r} : \A i \in DOMAIN pages : \A j \in DOMAIN pools[q].pages :
            pages[i] # pools[q].pages[j]
      BY <2>2, <3>1, <3>4
    <3>8. \A i \in DOMAIN pages : pages[i] \in heap'
      BY <2>2, <3>1
    <3> DEFINE pool == Added(pools[r], page)
               used == dirty \ NodesOf(page)
    <3>9. /\ HandOut(r, pool, used) /\ pool \in NodePoolType /\ pool.offset < NodesPerPage
          /\ pool.pages = pages /\ heap \subseteq heap'
          /\ Good(pool, handed[r], used) /\ \A q \in Results : Good(pools[q], handed[q], used)
      BY <3>3, <3>5, <3>6, PoolsAssumption
    <3> HIDE DEF pool, used
    <3> QED  BY <2>3, <3>7, <3>8, <3>9
  <2>7. ASSUME NEW r \in Results, Reset(r) PROVE NodeInv'
    <3>1. FromStart(pools[r]).pages = pools[r].pages
      BY DEF FromStart, AtPage
    <3>2. /\ dirty' \subseteq dirty
          /\ \A i \in DOMAIN pools[r].pages : dirty' \cap NodesOf(pools[r].pages[i]) = {}
      BY <2>7 DEF Reset, Cleared, PagesOf
    <3>3. Good(FromStart(pools[r]), {}, dirty')
      BY <2>1, <2>2, <2>7, <3>2, GoodFromStart DEF Reset, Good
    <3>4. \A q \in Results : Good(pools[q], handed[q], dirty')
      BY <2>2, <3>2, CleanLess DEF Good
    <3>5. /\ \A q \in Results : /\ pools'[q] = IF q = r THEN FromStart(pools[r]) ELSE pools[q]
                                /\ handed'[q] = IF q = r THEN {} ELSE handed[q]
          /\ heap' = heap
      BY <2>1, <2>7 DEF Reset
    <3>6. \A q \in Results : Good(pools'[q], handed'[q], dirty')
      BY <3>3, <3>4, <3>5
    <3>7. \A q \in Results : pools'[q].pages = pools[q].pages
      BY <3>1, <3>5
    <3> QED  BY <2>2, <3>5, <3>6, <3>7 DEF NodeInv, PoolsApart
  <2>8. ASSUME NEW from \in Results, NEW to \in Results, from # to, Moved(from, to),
               \/ heap' = heap
               \/ heap' = heap \ PagesOf(to)
        PROVE  NodeInv'
    <3>1. /\ \A q \in Results :
               /\ pools'[q] = IF q = to THEN pools[from] ELSE IF q = from THEN NoNodes ELSE pools[q]
               /\ handed'[q] = IF q = to THEN handed[from] ELSE IF q = from THEN {} ELSE handed[q]
          /\ dirty' = dirty
      BY <2>1, <2>8 DEF Moved, Emptied
    <3>2. \A q \in Results : Good(pools'[q], handed'[q], dirty')
      BY <2>2, <3>1, GoodNone
    <3>3. \A q \in Results : \A i \in DOMAIN pools'[q].pages : pools'[q].pages[i] \in heap'
      <4> TAKE q \in Results
      <4>1. CASE q = from
        BY <2>8, <3>1, <4>1, GoodNone
      <4>2. CASE q = to
        BY <2>2, <2>8, <3>1, <4>2 DEF PagesOf
      <4>3. CASE q # from /\ q # to
        BY <2>2, <2>8, <3>1, <4>3 DEF PagesOf
      <4> QED  BY <4>1, <4>2, <4>3
    <3>4. PoolsApart'
      <4> SUFFICES ASSUME NEW q \in Results, NEW o \in Results, q # o,
                          NEW i \in DOMAIN pools'[q].pages, NEW j \in DOMAIN pools'[o].pages
                   PROVE  pools'[q].pages[i] # pools'[o].pages[j]
        BY DEF PoolsApart
      <4>1. q # from /\ o # from
        BY <2>8, <3>1, GoodNone
      <4> QED  BY <2>2, <2>8, <3>1, <4>1
    <3> QED  BY <3>2, <3>3, <3>4 DEF NodeInv
  <2>9. ASSUME NEW from \in Results, NEW to \in Results, MoveConstruct(from, to) PROVE NodeInv'
    BY <2>8, <2>9 DEF MoveConstruct
  <2>10. ASSUME NEW from \in Results, NEW to \in Results, MoveAssign(from, to) PROVE NodeInv'
    BY <2>8, <2>10 DEF MoveAssign
  <2>11. ASSUME NEW r \in Results, Destroy(r) PROVE NodeInv'
    <3>1. /\ \A q \in Results : /\ pools'[q] = IF q = r THEN NoNodes ELSE pools[q]
                                /\ handed'[q] = IF q = r THEN {} ELSE handed[q]
          /\ dirty' = dirty /\ heap' = heap \ PagesOf(r)
      BY <2>1, <2>11 DEF Destroy
    <3>2. \A q \in Results : Good(pools'[q], handed'[q], dirty')
      BY <2>2, <3>1, GoodNone
    <3>3. \A q \in Results : \A i \in DOMAIN pools'[q].pages : q # r /\ pools'[q] = pools[q]
      BY <3>1, GoodNone
    <3>4. ASSUME NEW q \in Results, NEW i \in DOMAIN pools'[q].pages PROVE pools'[q].pages[i] \in heap'
      <4>1. q # r /\ pools'[q] = pools[q]
        BY <3>3
      <4> QED  BY <2>2, <3>1, <4>1 DEF PagesOf
    <3>5. PoolsApart'
      BY <2>2, <3>3 DEF PoolsApart
    <3> QED  BY <3>2, <3>4, <3>5 DEF NodeInv
  <2>12. ASSUME UNCHANGED <<pools, heap, dirty, handed>> PROVE NodeInv'
    BY <2>12, <1>2 DEF NodeInv, PoolsApart
  <2>13. ASSUME NEW r \in Results, Create(r) PROVE NodeInv'
    BY <2>12, <2>13 DEF Create
  <2>14. ASSUME NEW r \in Results, NEW n \in Lengths, Store(r, n) \/ StoreOnNew(r, n) PROVE NodeInv'
    BY <2>12, <2>14 DEF Store, StoreOnNew, Keep
  <2>15. CASE UNCHANGED poolsVars
    BY <2>12, <2>15 DEF poolsVars
  <2> QED  BY <1>2, <2>4, <2>5, <2>6, <2>7, <2>9, <2>10, <2>11, <2>13, <2>14, <2>15 DEF PoolsNext
<1> QED  BY <1>1, <1>2

\* The nodes of all results are distinct and on pages nobody else has or frees.
THEOREM NodesAreHandedOnce == PoolsSpec => []NodesOnce
<1>1. NodeInv => NodesOnce
  BY DEF NodeInv, PoolsApart, Good, Counted, Behind, NodesOnce, PagesOf
<1> QED  BY <1>1, NodeInvInductive, PoolsTyped, PTL DEF PoolsSpec

\* Whatever allocate() is going to hand out on a page that is there holds zeros.
THEOREM AllocatedAreZeros == PoolsSpec => []FreeIsZeroed
<1>1. PoolsTypeOK /\ NodeInv => FreeIsZeroed
  <2> SUFFICES ASSUME PoolsTypeOK, NodeInv, NEW r \in alive, NEW node \in Ahead(r) PROVE node \notin dirty
    BY DEF FreeIsZeroed
  <2>1. pools[r] \in NodePoolType /\ Good(pools[r], handed[r], dirty)
    BY DEF PoolsTypeOK, NodeInv
  <2>2. /\ pools[r].pages \in Seq(NodePages) /\ pools[r].idx \in Nat /\ pools[r].offset \in Nat
        /\ pools[r].offset \in 0 .. NodesPerPage
    BY <2>1, PoolsAssumption DEF NodePoolType
  <2>3. InFront(pools[r], node)
    <3>1. CASE node \in {<<pools[r].page, k>> : k \in pools[r].offset .. NodesPerPage - 1}
      <4> PICK k \in pools[r].offset .. NodesPerPage - 1 : node = <<pools[r].page, k>>
        BY <3>1
      <4>1. k \in Slots /\ k >= pools[r].offset /\ pools[r].offset # NodesPerPage
        BY <2>2, PoolsAssumption DEF Slots
      <4>2. pools[r].idx + 1 \in DOMAIN pools[r].pages
            /\ pools[r].page = pools[r].pages[pools[r].idx + 1]
        BY <2>1, <4>1 DEF Good, CursorOk
      <4>3. node[1] = pools[r].page /\ node[2] = k
        OBVIOUS
      <4> QED  BY <4>1, <4>2, <4>3 DEF InFront
    <3>2. CASE node \in UNION {NodesOf(pools[r].pages[i]) : i \in pools[r].idx + 2 .. Len(pools[r].pages)}
      <4> PICK i \in pools[r].idx + 2 .. Len(pools[r].pages) : node \in NodesOf(pools[r].pages[i])
        BY <3>2
      <4>1. i \in DOMAIN pools[r].pages /\ i > pools[r].idx + 1
        BY <2>2
      <4>2. node[1] = pools[r].pages[i] /\ node[2] \in Slots
        BY DEF NodesOf
      <4> QED  BY <4>1, <4>2 DEF InFront
    <3> QED  BY <3>1, <3>2 DEF Ahead
  <2> QED  BY <2>1, <2>3 DEF Good, Clean
<1> QED  BY <1>1, NodeInvInductive, PoolsTyped, PTL DEF PoolsSpec

-----------------------------------------------------------------------------
(* Strings                                                                 *)

\* The views vs of a string pool p: each within its page, which is p's, before
\* the place on it, and apart from the others.
Within(p, vs) ==
  \A v \in vs : /\ v.page \in p.pages
                /\ v.from + v.len <= capacity[v.page]
                /\ v.page = p.page => v.from + v.len <= p.offset
Apart(vs) == \A v, w \in vs : Overlap(v, w) => v = w

StringInv ==
  /\ \A r \in Results : strings[r].pages \subseteq DOMAIN capacity
  /\ \A page \in DOMAIN capacity : capacity[page] >= PageSize
  /\ \A r, q \in Results : r # q => strings[r].pages \cap strings[q].pages = {}
  /\ \A r \in Results : Within(strings[r], views[r]) /\ Apart(views[r])

\* StringInv is inductive: one step per action.
LEMMA StringInvInductive ==
  /\ PoolsInit => StringInv
  /\ PoolsTypeOK /\ StringInv /\ [PoolsNext]_poolsVars => StringInv'
<1>1. PoolsInit => StringInv
  BY DEF PoolsInit, StringInv, NoStrings, Within, Apart
<1>2. ASSUME PoolsTypeOK, StringInv, [PoolsNext]_poolsVars PROVE StringInv'
  <2>1. /\ strings \in [Results -> StringPoolType] /\ views \in [Results -> SUBSET View]
        /\ capacity \in [DOMAIN capacity -> Nat] /\ PageSize \in Nat /\ Lengths \subseteq Nat \ {0}
        /\ \A r \in Results : strings[r].page = None => strings[r].offset >= PageSize
    BY <1>2, PoolsAssumption DEF PoolsTypeOK
  <2>2. /\ \A r \in Results : strings[r].pages \subseteq DOMAIN capacity
        /\ \A page \in DOMAIN capacity : capacity[page] >= PageSize
        /\ \A r, q \in Results : r # q => strings[r].pages \cap strings[q].pages = {}
        /\ \A r \in Results : Within(strings[r], views[r]) /\ Apart(views[r])
    BY <1>2 DEF StringInv
  <2>3. ASSUME NEW r \in Results, NEW n \in Lengths, Store(r, n) PROVE StringInv'
    <3> DEFINE p == strings[r]
               q == [p EXCEPT !.offset = @ + n]
               v == [page |-> p.page, from |-> p.offset, len |-> n]
    <3>1. /\ p \in StringPoolType /\ p.page \in p.pages /\ p.offset \in Nat /\ n \in Nat /\ n > 0
          /\ p.offset + n <= PageSize
      <4>1. p \in StringPoolType /\ p.offset \in Nat /\ n \in Nat /\ n > 0 /\ p.offset + n <= PageSize
        BY <2>1, <2>3 DEF Store, StringPoolType
      <4>2. p.page # None
        BY <2>1, <4>1
      <4> QED  BY <2>3, <4>1, <4>2 DEF Store, MovedFrom
    <3>2. /\ q.pages = p.pages /\ q.page = p.page /\ q.offset = p.offset + n
      BY <3>1, StringOn
    <3>3. /\ strings' = [strings EXCEPT ![r] = q] /\ views' = [views EXCEPT ![r] = @ \cup {v}]
          /\ capacity' = capacity
      BY <2>3 DEF Store, Keep
    <3>4. v.page = p.page /\ v.from = p.offset /\ v.len = n
      OBVIOUS
    <3> HIDE DEF p, q, v
    <3>5. \A o \in Results : /\ strings'[o] = IF o = r THEN q ELSE strings[o]
                             /\ views'[o] = IF o = r THEN views[r] \cup {v} ELSE views[o]
      BY <2>1, <3>3
    <3>6. /\ \A w \in views[r] : w.page \in p.pages /\ w.from + w.len <= capacity[w.page]
                                 /\ (w.page = p.page => w.from + w.len <= p.offset)
                                 /\ w.from \in Nat /\ w.len \in Nat
          /\ Apart(views[r])
      BY <2>1, <2>2 DEF Within, View, p
    <3>7. Within(q, views[r] \cup {v})
      <4>1. v.from + v.len <= capacity[v.page]
        <5>1. p.page \in DOMAIN capacity /\ capacity[p.page] >= PageSize /\ capacity[p.page] \in Nat
          BY <2>1, <2>2, <3>1 DEF p
        <5> QED  BY <2>1, <3>1, <3>4, <5>1
      <4>2. \A w \in views[r] : w.page = p.page => w.from + w.len <= p.offset + n
        BY <3>1, <3>6
      <4> QED  BY <3>1, <3>2, <3>4, <3>6, <4>1, <4>2 DEF Within
    <3>8. Apart(views[r] \cup {v})
      <4>1. \A w \in views[r] : ~Overlap(v, w) /\ ~Overlap(w, v)
        BY <3>1, <3>4, <3>6 DEF Overlap
      <4> QED  BY <3>6, <4>1 DEF Apart
    <3>9. \A o \in Results : (Within(strings[o], views[o]))' /\ (Apart(views[o]))'
      <4> TAKE o \in Results
      <4>1. CASE o = r
        BY <3>3, <3>5, <3>7, <3>8, <4>1 DEF Within, Apart
      <4>2. CASE o # r
        BY <2>2, <3>3, <3>5, <4>2 DEF Within, Apart
      <4> QED  BY <4>1, <4>2
    <3>10. \A o \in Results : strings'[o].pages = strings[o].pages
      BY <3>2, <3>5 DEF p
    <3> QED  BY <2>2, <3>3, <3>9, <3>10 DEF StringInv
  <2>4. ASSUME NEW r \in Results, NEW n \in Lengths, StoreOnNew(r, n) PROVE StringInv'
    <3> PICK page \in StringPages \ DOMAIN capacity :
           /\ capacity' = [o \in DOMAIN capacity \cup {page} |->
                             IF o = page THEN SizeFor(n) ELSE capacity[o]]
           /\ Keep(r, [pages |-> strings[r].pages \cup {page}, page |-> page, offset |-> 0], n)
      BY <2>4 DEF StoreOnNew
    <3> DEFINE p == [pages |-> strings[r].pages \cup {page}, page |-> page, offset |-> 0]
               q == [p EXCEPT !.offset = @ + n]
               v == [page |-> p.page, from |-> p.offset, len |-> n]
    <3>1. n \in Nat /\ n > 0
      BY <2>1
    <3>2. p \in StringPoolType /\ p.pages = strings[r].pages \cup {page} /\ p.page = page /\ p.offset = 0
      BY <2>1 DEF StringPoolType
    <3> HIDE DEF p
    <3>3. q.pages = p.pages /\ q.page = page /\ q.offset = n
      BY <3>1, <3>2, StringOn
    <3>4. v.page = page /\ v.from = 0 /\ v.len = n
      BY <3>2
    <3>5. strings' = [strings EXCEPT ![r] = q] /\ views' = [views EXCEPT ![r] = @ \cup {v}]
      BY DEF Keep, p
    <3> HIDE DEF q, v
    <3>6. \A o \in Results : /\ strings'[o] = IF o = r THEN q ELSE strings[o]
                             /\ views'[o] = IF o = r THEN views[r] \cup {v} ELSE views[o]
      BY <2>1, <3>5
    <3>7. /\ DOMAIN capacity' = DOMAIN capacity \cup {page} /\ capacity'[page] = SizeFor(n)
          /\ \A o \in DOMAIN capacity : capacity'[o] = capacity[o] /\ o # page
          /\ SizeFor(n) >= n /\ SizeFor(n) >= PageSize
      BY <2>1, <3>1, PoolsAssumption DEF SizeFor
    <3>8. \A o \in Results : page \notin strings[o].pages
      BY <2>2
    <3>9. \A o \in Results : \A w \in views[o] :
            /\ w.page \in strings[o].pages /\ w.page # page /\ capacity'[w.page] = capacity[w.page]
            /\ w.from + w.len <= capacity[w.page]
            /\ w.page = strings[o].page => w.from + w.len <= strings[o].offset
      BY <2>2, <3>7 DEF Within
    <3>10. \A o \in Results : (Within(strings[o], views[o]))'
      <4> TAKE o \in Results
      <4>1. CASE o = r
        <5>1. 0 + n <= capacity'[page] /\ 0 + n <= q.offset /\ page \in q.pages
          BY <3>1, <3>2, <3>3, <3>7
        <5>2. \A w \in views[r] : w.page \in q.pages /\ w.page # q.page
                                  /\ w.from + w.len <= capacity'[w.page]
          BY <3>2, <3>3, <3>9
        <5>3. strings'[o] = q /\ views'[o] = views[r] \cup {v}
          BY <3>6, <4>1
        <5> QED  BY <3>4, <5>1, <5>2, <5>3 DEF Within
      <4>2. CASE o # r
        BY <3>6, <3>9, <4>2 DEF Within
      <4> QED  BY <4>1, <4>2
    <3>11. \A o \in Results : (Apart(views[o]))'
      <4> TAKE o \in Results
      <4>1. CASE o = r
        <5>1. \A w \in views[r] : ~Overlap(v, w) /\ ~Overlap(w, v)
          BY <3>4, <3>9 DEF Overlap
        <5> QED  BY <2>2, <3>6, <4>1, <5>1 DEF Apart
      <4>2. CASE o # r
        BY <2>2, <3>6, <4>2 DEF Apart
      <4> QED  BY <4>1, <4>2
    <3>12. \A o \in Results : strings'[o].pages = IF o = r THEN strings[r].pages \cup {page} ELSE strings[o].pages
      BY <3>2, <3>3, <3>6
    <3>13. \A o \in Results : strings'[o].pages \subseteq DOMAIN capacity'
      BY <2>2, <3>7, <3>12
    <3>14. \A o \in DOMAIN capacity' : capacity'[o] >= PageSize
      BY <2>2, <3>7
    <3>15. \A o, a \in Results : o # a => strings'[o].pages \cap strings'[a].pages = {}
      BY <2>2, <3>8, <3>12
    <3> QED  BY <3>10, <3>11, <3>13, <3>14, <3>15 DEF StringInv
  <2>5. ASSUME NEW from \in Results, NEW to \in Results, from # to, Moved(from, to) PROVE StringInv'
    <3>1. /\ \A o \in Results :
               /\ strings'[o] = IF o = to THEN strings[from]
                                ELSE IF o = from THEN LeftOfStrings(strings[from]) ELSE strings[o]
               /\ views'[o] = IF o = to THEN views[from] ELSE IF o = from THEN {} ELSE views[o]
          /\ capacity' = capacity
      BY <2>1, <2>5 DEF Moved
    <3>2. \A o \in Results : strings'[o].pages = IF o = to THEN strings[from].pages
                                                 ELSE IF o = from THEN {} ELSE strings[o].pages
      BY <3>1 DEF LeftOfStrings
    <3>3. \A o \in Results : (Within(strings[o], views[o]))' /\ (Apart(views[o]))'
      <4> TAKE o \in Results
      <4>1. CASE o = from
        BY <2>5, <3>1, <4>1 DEF Within, Apart
      <4>2. CASE o = to
        BY <2>2, <3>1, <4>2 DEF Within, Apart
      <4>3. CASE o # from /\ o # to
        BY <2>2, <3>1, <4>3 DEF Within, Apart
      <4> QED  BY <4>1, <4>2, <4>3
    <3>4. \A o \in Results : strings'[o].pages \subseteq DOMAIN capacity'
      BY <2>2, <3>1, <3>2
    <3>5. \A o, a \in Results : o # a => strings'[o].pages \cap strings'[a].pages = {}
      BY <2>2, <3>2
    <3> QED  BY <2>2, <3>1, <3>3, <3>4, <3>5 DEF StringInv
  <2>6. ASSUME NEW from \in Results, NEW to \in Results, MoveConstruct(from, to) \/ MoveAssign(from, to)
        PROVE  StringInv'
    BY <2>5, <2>6 DEF MoveConstruct, MoveAssign
  <2>7. ASSUME NEW r \in Results, Destroy(r) PROVE StringInv'
    <3>1. /\ \A o \in Results : /\ strings'[o] = IF o = r THEN NoStrings ELSE strings[o]
                                /\ views'[o] = IF o = r THEN {} ELSE views[o]
          /\ DOMAIN capacity' = DOMAIN capacity \ strings[r].pages
          /\ \A page \in DOMAIN capacity' : capacity'[page] = capacity[page]
      BY <2>1, <2>7 DEF Destroy
    <3>2. \A o \in Results : strings'[o].pages = IF o = r THEN {} ELSE strings[o].pages
      BY <3>1 DEF NoStrings
    <3>3. \A o \in Results : strings'[o].pages \subseteq DOMAIN capacity'
      BY <2>2, <3>1, <3>2
    <3>4. \A o \in Results : (Within(strings[o], views[o]))' /\ (Apart(views[o]))'
      <4> TAKE o \in Results
      <4>1. CASE o = r
        BY <3>1, <4>1 DEF Within, Apart
      <4>2. CASE o # r
        <5>1. strings'[o] = strings[o] /\ views'[o] = views[o]
          BY <3>1, <4>2
        <5>2. \A v \in views[o] : v.page \in DOMAIN capacity'
          BY <2>2, <3>3, <5>1 DEF Within
        <5>3. \A v \in views[o] : capacity'[v.page] = capacity[v.page]
          BY <3>1, <5>2
        <5>4. Within(strings[o], views[o]) /\ Apart(views[o])
          BY <2>2
        <5>5. (Within(strings[o], views[o]))'
          BY <5>1, <5>3, <5>4 DEF Within
        <5> QED  BY <5>1, <5>4, <5>5 DEF Apart
      <4> QED  BY <4>1, <4>2
    <3>5. \A o, a \in Results : o # a => strings'[o].pages \cap strings'[a].pages = {}
      BY <2>2, <3>2
    <3> QED  BY <2>2, <3>1, <3>3, <3>4, <3>5 DEF StringInv
  <2>8. ASSUME UNCHANGED <<strings, capacity, views>> PROVE StringInv'
    BY <2>2, <2>8 DEF StringInv, Within, Apart
  <2>9. ASSUME NEW r \in Results, Create(r) \/ Allocate(r) \/ AllocateOnNext(r) \/ AllocateOnNew(r) \/ Reset(r)
        PROVE  StringInv'
    BY <2>8, <2>9 DEF Create, Allocate, AllocateOnNext, AllocateOnNew, Reset, HandOut
  <2>10. CASE UNCHANGED poolsVars
    BY <2>8, <2>10 DEF poolsVars
  <2> QED  BY <1>2, <2>3, <2>4, <2>6, <2>7, <2>9, <2>10 DEF PoolsNext
<1> QED  BY <1>1, <1>2

\* A stored string stays in its place, on a page of its result's own, apart from
\* all other strings.
THEOREM StoredStay == PoolsSpec => []ViewsKept
<1>1. PoolsTypeOK /\ StringInv => ViewsKept
  BY DEF PoolsTypeOK, StringInv, Within, Apart, ViewsKept, Overlap
<1> QED  BY <1>1, StringInvInductive, PoolsTyped, PTL DEF PoolsSpec

=============================================================================
