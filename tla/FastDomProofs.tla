--------------------------- MODULE FastDomProofs ---------------------------
(***************************************************************************)
(* Proofs about FastDomParse: on every input and with every stack size the *)
(* array that fast_dom_parse builds is one tree, and stays well typed; the *)
(* values its nodes show are the input's, wherever they are stored, and    *)
(* root() is the first element among the document's children. As long as   *)
(* the stack holds all open elements it is the document's tree (XmlTree).  *)
(* And about ParallelDom: with any number of threads, in whatever order    *)
(* they finish, no chunk is merged before all are parsed, and what is      *)
(* merged is a tree at every moment.                                       *)
(***************************************************************************)
EXTENDS FastDomParse, ParallelDom, RecursionProofs

-----------------------------------------------------------------------------
(* Adding one node to an array.                                            *)

\* A node without links.
Fresh(node) == node \in NodeType /\ \A f \in Links : node[f] = Null

\* `last` is the end of the chain that starts at nodes[owner][first].
ChainEnd(nodes, n, owner, first, last) ==
  /\ owner \in 0 .. n - 1 /\ last \in 0 .. n - 1
  /\ IF last # Null THEN nodes[last].next_sibling = Null ELSE nodes[owner][first] = Null

\* Two nodes that differ in their links at most.
SameData(a, b) == a.type = b.type /\ a.at = b.at /\ a.val = b.val

\* m is the n nodes and a new one, linked from the end of that chain.
Extends(m, nodes, n, new, owner, first, last) ==
  /\ m \in [0 .. n -> NodeType]
  /\ TreeShaped(m)
  /\ SameData(m[n], new)
  /\ \A i \in 0 .. n - 1 : SameData(m[i], nodes[i])
  /\ \A f \in Links : m[n][f] = Null
  /\ \A i \in 0 .. n - 1 : \A f \in Links :
       m[i][f] = IF \/ last # Null /\ i = last /\ f = "next_sibling"
                    \/ last = Null /\ i = owner /\ f = first
                 THEN n ELSE nodes[i][f]

\* A node chained where a chain ends keeps the array a tree.
LEMMA ChainedTree ==
  ASSUME NEW n \in Nat, n >= 2, NEW nodes \in [0 .. n - 1 -> NodeType], TreeShaped(nodes),
         NEW new, Fresh(new), NEW owner, NEW first \in Links, NEW last,
         ChainEnd(nodes, n, owner, first, last)
  PROVE  Extends(Chained(Grown(nodes, n, new), owner, first, last, n),
                 nodes, n, new, owner, first, last)
<1> USE DEF Fresh, ChainEnd
<1> DEFINE g == Grown(nodes, n, new)
           m == Chained(g, owner, first, last, n)
           src == IF last # Null THEN last ELSE owner
           fld == IF last # Null THEN "next_sibling" ELSE first
<1>1. /\ g \in [0 .. n -> NodeType]
      /\ g[n] = new
      /\ \A i \in 0 .. n - 1 : g[i] = nodes[i]
  BY DEF Grown
<1> HIDE DEF g
<1>0. owner \in 0 .. n /\ last \in 0 .. n
  OBVIOUS
<1>2. /\ m \in [0 .. n -> NodeType]
      /\ \A i \in 0 .. n : SameData(m[i], g[i])
      /\ \A i \in 0 .. n : \A f \in Links :
           m[i][f] = IF \/ last # Null /\ i = last /\ f = "next_sibling"
                        \/ last = Null /\ i = owner /\ f = first
                     THEN n ELSE g[i][f]
  <2>1. CASE last # Null
    BY <1>0, <1>1, <2>1 DEF Chained, NodeType, Links, Null, SameData
  <2>2. CASE last = Null
    BY <1>0, <1>1, <2>2 DEF Chained, NodeType, Links, Null, SameData
  <2> QED  BY <2>1, <2>2
<1> HIDE DEF m
<1>3. /\ src \in 0 .. n - 1 /\ fld \in Links /\ nodes[src][fld] = Null
  BY DEF Links
<1>4. \A i \in 0 .. n : \A f \in Links : m[i][f] = IF i = src /\ f = fld THEN n ELSE g[i][f]
  BY <1>2
<1> HIDE DEF src, fld
<1>5. /\ \A f \in Links : m[n][f] = Null
      /\ \A i \in 0 .. n - 1 : \A f \in Links :
           m[i][f] = IF i = src /\ f = fld THEN n ELSE nodes[i][f]
  BY <1>1, <1>3, <1>4
<1>6. \A i \in 0 .. n - 1 : \A f \in Links : nodes[i][f] \in 0 .. n - 1
  <2> SUFFICES ASSUME NEW i \in 0 .. n - 1, NEW f \in Links
               PROVE  nodes[i][f] \in 0 .. n - 1
    OBVIOUS
  <2>1. nodes[i] \in NodeType /\ DOMAIN nodes = 0 .. n - 1
    OBVIOUS
  <2>2. nodes[i][f] \in Nat
    BY <2>1 DEF NodeType, Links
  <2>3. nodes[i][f] = Null \/ nodes[i][f] \in 0 .. n - 1
    BY <2>1 DEF TreeShaped, LinksForward
  <2> QED  BY <2>2, <2>3 DEF Null
<1>7. LinksForward(m)
  BY <1>2, <1>3, <1>5 DEF LinksForward, TreeShaped, Null
<1>8. LinkedAtMostOnce(m)
  <2> SUFFICES ASSUME NEW i \in 0 .. n, NEW j \in 0 .. n, NEW f \in Links, NEW h \in Links,
                      m[i][f] # Null, m[i][f] = m[j][h]
               PROVE  i = j /\ f = h
    BY <1>2 DEF LinkedAtMostOnce
  <2>1. i \in 0 .. n - 1 /\ j \in 0 .. n - 1
    BY <1>5
  <2>2. CASE i = src /\ f = fld
    BY <2>1, <2>2, <1>5, <1>6
  <2>3. CASE j = src /\ h = fld
    BY <2>1, <2>3, <1>5, <1>6
  <2>4. CASE ~(i = src /\ f = fld) /\ ~(j = src /\ h = fld)
    BY <2>1, <2>4, <1>5 DEF TreeShaped, LinkedAtMostOnce
  <2> QED  BY <2>2, <2>3, <2>4
<1>9. LinkedSomewhere(m)
  <2> SUFFICES ASSUME NEW k \in 0 .. n, k # Null, k # Document
               PROVE  \E i \in 0 .. n : \E f \in Links : m[i][f] = k
    BY <1>2 DEF LinkedSomewhere
  <2>1. CASE k = n
    BY <2>1, <1>3, <1>4
  <2>2. CASE k # n
    <3>1. PICK i \in 0 .. n - 1, f \in Links : nodes[i][f] = k
      BY <2>2 DEF TreeShaped, LinkedSomewhere
    <3>2. m[i][f] = k
      BY <3>1, <1>3, <1>5
    <3> QED  BY <3>2
  <2> QED  BY <2>1, <2>2
<1>10. TreeShaped(m)
  BY <1>7, <1>8, <1>9 DEF TreeShaped
<1>11. \A i \in 0 .. n - 1 : \A f \in Links :
         m[i][f] = IF \/ last # Null /\ i = last /\ f = "next_sibling"
                      \/ last = Null /\ i = owner /\ f = first
                   THEN n ELSE nodes[i][f]
  BY <1>1, <1>2
<1> QED  BY <1>1, <1>2, <1>5, <1>10, <1>11 DEF m, g, Extends

-----------------------------------------------------------------------------
(* The inductive invariant.                                                *)

Entry == [node : Nat, last : Nat]

Typed(d) ==
  /\ d \in [nodes : [0 .. d.count - 1 -> NodeType], count : Nat \ {0, 1},
            values : Seq(Nat \X Nat), stack : Seq(Entry),
            root : Nat, elem : Nat, last_attr : Nat, flags : SUBSET Flags]
  /\ Len(d.stack) \in 1 .. MaxStack

\* Every entry of the stack is an element whose chain of children ends where
\* `last` says, and an entry lies below the last child of every outer one.
StackInv(d) ==
  /\ \A j \in 1 .. Len(d.stack) :
       /\ d.stack[j].node \in 1 .. d.count - 1
       /\ d.stack[j].last \in 0 .. d.count - 1
       /\ IF d.stack[j].last = Null
            THEN d.nodes[d.stack[j].node].first_child = Null
            ELSE /\ d.nodes[d.stack[j].last].next_sibling = Null
                 /\ d.nodes[d.stack[j].last].type # "attribute"
                 /\ d.stack[j].last > d.stack[j].node
  /\ \A j, k \in 1 .. Len(d.stack) :
       j < k => d.stack[j].last # Null /\ d.stack[j].last <= d.stack[k].node

\* The chain of the attributes being read ends where last_attr says.
AttrInv(d) ==
  /\ d.elem \in 0 .. d.count - 1 /\ d.last_attr \in 0 .. d.count - 1
  /\ IF d.last_attr = Null
       THEN d.nodes[d.elem].first_attr = Null
       ELSE /\ d.nodes[d.last_attr].next_sibling = Null
            /\ d.nodes[d.last_attr].type = "attribute"

\* Within a tag its element is the last child of the innermost open one, and
\* has no child yet.
TagInv(d) ==
  /\ d.elem # Null
  /\ Top(d).last = d.elem
  /\ d.nodes[d.elem].first_child = Null

\* What every operation must keep.
Inv(d) == Typed(d) /\ TreeShaped(d.nodes) /\ StackInv(d) /\ AttrInv(d)

IInv ==
  /\ doc \in Docs /\ pos \in 1 .. Len(doc) + 1
  /\ Inv(dom)
  /\ InTag(doc, pos) => TagInv(dom)

\* new is st but for the field `last` of its last entry.
SameButLast(st, new, x) ==
  /\ new \in Seq(Entry)
  /\ Len(new) = Len(st)
  /\ \A j \in 1 .. Len(st) : new[j].node = st[j].node
  /\ \A j \in 1 .. Len(st) - 1 : new[j] = st[j]
  /\ new[Len(st)].last = x

\* A sequence stays one when a field of its last element is written.
LEMMA LastWritten ==
  ASSUME NEW st, st \in Seq(Entry), Len(st) >= 1, NEW x, x \in Nat
  PROVE  SameButLast(st, [st EXCEPT ![Len(st)].last = x], x)
<1> DEFINE new == [st EXCEPT ![Len(st)].last = x]
<1>1. st \in [1 .. Len(st) -> Entry] /\ Len(st) \in Nat
  BY LenProperties
<1>2. new \in [1 .. Len(st) -> Entry]
  BY <1>1 DEF Entry
<1>3. new \in Seq(Entry) /\ Len(new) = Len(st)
  BY <1>1, <1>2, SeqDef, LenProperties
<1>4. /\ \A j \in 1 .. Len(st) : new[j].node = st[j].node
      /\ \A j \in 1 .. Len(st) - 1 : new[j] = st[j]
      /\ new[Len(st)].last = x
  BY <1>1 DEF Entry
<1> QED  BY <1>3, <1>4 DEF SameButLast

\* The bytes of a token are a sequence of places.
LEMMA BytesType ==
  ASSUME NEW i \in Nat, NEW n \in Nat
  PROVE  Bytes(i, n) \in Seq(Nat \X Nat)
BY IsASeq DEF Bytes

\* Lengths stay natural numbers when they saturate.
LEMMA ClampedType ==
  ASSUME NEW n \in Nat
  PROVE  Clamped(n) \in Nat
BY LenAssumption DEF Clamped

-----------------------------------------------------------------------------
(* One new child.                                                          *)

\* PutChild changes the array, its count and the top of the stack only.
LEMMA PutChildFields ==
  ASSUME NEW d, Typed(d), NEW node \in NodeType
  PROVE  LET p == PutChild(d, node) IN
         /\ p = [d EXCEPT !.nodes = p.nodes, !.count = p.count, !.stack = p.stack]
         /\ p.nodes = Chained(Grown(d.nodes, d.count, node), Top(d).node,
                              "first_child", Top(d).last, d.count)
         /\ p.count = d.count + 1
         /\ p.stack = [d.stack EXCEPT ![Len(d.stack)].last = d.count]
BY DEF PutChild, Typed

\* One new child is chained behind the last one, which the stack remembers.
ChildAdded(d, p, node) ==
  /\ Extends(p.nodes, d.nodes, d.count, node, Top(d).node, "first_child", Top(d).last)
  /\ SameButLast(d.stack, p.stack, d.count)
  /\ p = [d EXCEPT !.nodes = p.nodes, !.count = p.count, !.stack = p.stack]
  /\ p.count = d.count + 1

LEMMA PutChildAdds ==
  ASSUME NEW d, Typed(d), TreeShaped(d.nodes), StackInv(d), NEW node, Fresh(node)
  PROVE  ChildAdded(d, PutChild(d, node), node)
<1> DEFINE p == PutChild(d, node)
           n == d.count
           t == Len(d.stack)
           owner == d.stack[t].node
           last == d.stack[t].last
<1>1. /\ p = [d EXCEPT !.nodes = p.nodes, !.count = p.count, !.stack = p.stack]
      /\ p.nodes = Chained(Grown(d.nodes, n, node), owner, "first_child", last, n)
      /\ p.count = n + 1
      /\ p.stack = [d.stack EXCEPT ![t].last = n]
  BY PutChildFields DEF Top, Fresh
<1> HIDE DEF p
<1>2. /\ n \in Nat /\ n >= 2 /\ d.nodes \in [0 .. n - 1 -> NodeType]
      /\ t \in 1 .. MaxStack /\ d.stack \in Seq(Entry) /\ t \in Nat /\ t >= 1
  BY StackAssumption DEF Typed
<1>3. /\ owner \in 1 .. n - 1 /\ last \in 0 .. n - 1
      /\ IF last = Null THEN d.nodes[owner].first_child = Null
                        ELSE d.nodes[last].next_sibling = Null
  BY <1>2 DEF StackInv
<1>4. ChainEnd(d.nodes, n, owner, "first_child", last)
  <2>1. d.nodes[owner] \in NodeType
    BY <1>2, <1>3
  <2> HIDE DEF n, owner, last
  <2>2. d.nodes[owner]["first_child"] = d.nodes[owner].first_child
    BY <2>1 DEF NodeType
  <2> QED  BY <1>2, <1>3, <2>2 DEF ChainEnd
<1>5. Extends(p.nodes, d.nodes, n, node, owner, "first_child", last)
  <2>1. "first_child" \in Links
    BY DEF Links
  <2> HIDE DEF n, owner, last
  <2> QED  BY <1>1, <1>2, <1>4, <2>1, ChainedTree
<1>6. SameButLast(d.stack, p.stack, n)
  <2> HIDE DEF n, owner, last
  <2> QED  BY <1>1, <1>2, LastWritten
<1> QED  BY <1>1, <1>5, <1>6 DEF ChildAdded, Top, p

\* A new child that is no attribute keeps the array a tree and the stack right.
LEMMA PutChildInv ==
  ASSUME NEW d, Typed(d), TreeShaped(d.nodes), StackInv(d), AttrInv(d),
         NEW node, Fresh(node), node.type # "attribute"
  PROVE  LET p == PutChild(d, node) IN
         /\ Typed(p) /\ TreeShaped(p.nodes) /\ StackInv(p) /\ AttrInv(p)
         /\ Top(p).last = d.count
         /\ \A f \in Links : p.nodes[d.count][f] = Null
         /\ p.count = d.count + 1
<1> DEFINE p == PutChild(d, node)
           n == d.count
           t == Len(d.stack)
           owner == d.stack[t].node
           last == d.stack[t].last
<1>0. ChildAdded(d, p, node)
  BY PutChildAdds
<1> HIDE DEF p
<1>1. /\ p = [d EXCEPT !.nodes = p.nodes, !.count = p.count, !.stack = p.stack]
      /\ p.count = n + 1
  BY <1>0 DEF ChildAdded
<1>2. /\ n \in Nat /\ n >= 2 /\ d.nodes \in [0 .. n - 1 -> NodeType]
      /\ t \in 1 .. MaxStack /\ d.stack \in Seq(Entry) /\ t \in Nat /\ t >= 1
  BY StackAssumption DEF Typed
<1>3. /\ owner \in 1 .. n - 1 /\ last \in 0 .. n - 1
      /\ IF last = Null THEN d.nodes[owner].first_child = Null
                        ELSE d.nodes[last].next_sibling = Null
  BY <1>2 DEF StackInv
<1>5. Extends(p.nodes, d.nodes, n, node, owner, "first_child", last)
  BY <1>0 DEF ChildAdded, Top
<1>6. SameButLast(d.stack, p.stack, n)
  BY <1>0 DEF ChildAdded
<1>7. Typed(p)
  <2>1. /\ p.values = d.values /\ p.root = d.root /\ p.elem = d.elem
        /\ p.last_attr = d.last_attr /\ p.flags = d.flags
    BY <1>1 DEF Typed
  <2>2. /\ p.nodes \in [0 .. p.count - 1 -> NodeType] /\ p.count \in Nat \ {0, 1}
    <3>1. p.count - 1 = n /\ p.count \in Nat \ {0, 1}
      BY <1>1, <1>2
    <3> QED  BY <3>1, <1>5 DEF Extends
  <2>3. p.stack \in Seq(Entry) /\ Len(p.stack) \in 1 .. MaxStack
    BY <1>2, <1>6 DEF SameButLast
  <2>4. p = [nodes |-> p.nodes, count |-> p.count, values |-> p.values, stack |-> p.stack,
             root |-> p.root, elem |-> p.elem, last_attr |-> p.last_attr, flags |-> p.flags]
    BY <1>1 DEF Typed
  <2> QED  BY <2>1, <2>2, <2>3, <2>4 DEF Typed
<1> HIDE DEF n
<1>8. StackInv(p)
  <2>1. /\ Len(p.stack) = t /\ t \in Nat
        /\ \A j \in 1 .. t : /\ p.stack[j].node = d.stack[j].node
                             /\ j < t => p.stack[j].last = d.stack[j].last
        /\ p.stack[t].last = n
    <3>1. \A j \in 1 .. t : j < t => j \in 1 .. t - 1
      BY <1>2
    <3> QED  BY <1>2, <1>6, <3>1 DEF SameButLast
  <2>2. ASSUME NEW j \in 1 .. t, j < t
        PROVE  /\ d.stack[j].last \in 1 .. n - 1 /\ d.stack[j].node \in 1 .. n - 1
               /\ d.stack[j].last > d.stack[j].node
               /\ d.stack[j].last <= owner
               /\ last # Null => d.stack[j].last < last
               /\ d.nodes[d.stack[j].last].next_sibling = Null
               /\ d.nodes[d.stack[j].last].type # "attribute"
    <3>1. /\ d.stack[j].node \in 1 .. n - 1 /\ d.stack[j].last \in 0 .. n - 1
          /\ d.stack[j].last # Null /\ d.stack[j].last <= owner
      BY <1>2, <2>2 DEF StackInv, n, owner
    <3>2. /\ d.nodes[d.stack[j].last].next_sibling = Null
          /\ d.nodes[d.stack[j].last].type # "attribute"
          /\ d.stack[j].last > d.stack[j].node
      BY <3>1 DEF StackInv
    <3>3. last # Null => last > owner
      BY <1>2 DEF StackInv, owner, last
    <3> HIDE DEF owner, last, t
    <3> QED  BY <1>2, <1>3, <3>1, <3>2, <3>3 DEF Null
  <2>3. p.nodes[n].next_sibling = Null /\ p.nodes[n].type # "attribute"
    BY <1>2, <1>5 DEF Extends, SameData, Links, NodeType
  <2>4. ASSUME NEW j \in 1 .. t
        PROVE  /\ p.stack[j].node \in 1 .. p.count - 1
               /\ p.stack[j].last \in 0 .. p.count - 1
               /\ p.stack[j].last # Null
               /\ p.nodes[p.stack[j].last].next_sibling = Null
               /\ p.nodes[p.stack[j].last].type # "attribute"
               /\ p.stack[j].last > p.stack[j].node
    <3>1. CASE j < t
      <4>1. /\ p.stack[j].node = d.stack[j].node /\ p.stack[j].last = d.stack[j].last
        BY <2>1, <3>1
      <4>2. d.stack[j].last \in 0 .. n - 1 /\ (last # Null => d.stack[j].last # last)
        BY <1>2, <1>3, <2>2, <3>1
      <4>3. /\ p.nodes[d.stack[j].last].next_sibling = d.nodes[d.stack[j].last].next_sibling
            /\ p.nodes[d.stack[j].last].type = d.nodes[d.stack[j].last].type
        BY <4>2, <1>5 DEF Extends, SameData, Links
      <4>4. p.count - 1 = n
        BY <1>1, <1>2
      <4>5. /\ d.stack[j].last \in 1 .. n - 1 /\ d.stack[j].node \in 1 .. n - 1
            /\ d.stack[j].last > d.stack[j].node
            /\ d.nodes[d.stack[j].last].next_sibling = Null
            /\ d.nodes[d.stack[j].last].type # "attribute"
        BY <2>2, <3>1
      <4> HIDE DEF t
      <4> QED  BY <4>1, <4>3, <4>4, <4>5, <1>2 DEF Null
    <3>2. CASE j = t
      <4>1. p.stack[j].node = owner /\ p.stack[j].last = n
        BY <3>2, <2>1
      <4>2. p.count - 1 = n
        BY <1>1, <1>2
      <4> HIDE DEF owner, last, t
      <4> QED  BY <4>1, <4>2, <1>2, <1>3, <2>3 DEF Null
    <3> QED  BY <1>2, <3>1, <3>2
  <2>5. ASSUME NEW j \in 1 .. t, NEW k \in 1 .. t, j < k
        PROVE  p.stack[j].last # Null /\ p.stack[j].last <= p.stack[k].node
    <3>1. j < t /\ p.stack[j].last = d.stack[j].last /\ p.stack[k].node = d.stack[k].node
      BY <1>2, <2>1, <2>5
    <3> QED  BY <3>1, <1>2, <2>5 DEF StackInv
  <2> QED  BY <2>1, <2>4, <2>5 DEF StackInv
<1>9. AttrInv(p)
  <2>1. /\ p.elem = d.elem /\ p.last_attr = d.last_attr
        /\ d.elem \in 0 .. n - 1 /\ d.last_attr \in 0 .. n - 1
    BY <1>1, <1>2 DEF Typed, AttrInv, n
  <2>2. p.nodes[d.elem].first_attr = d.nodes[d.elem].first_attr
    BY <2>1, <1>5 DEF Extends, SameData, Links
  <2>3. last # Null => d.nodes[last].type # "attribute"
    BY <1>2 DEF StackInv
  <2>4. CASE d.last_attr # Null
    <3>1. d.nodes[d.last_attr].next_sibling = Null /\ d.nodes[d.last_attr].type = "attribute"
      BY <2>4 DEF AttrInv
    <3>2. p.nodes[d.last_attr].next_sibling = Null /\ p.nodes[d.last_attr].type = "attribute"
      BY <2>1, <2>3, <3>1, <1>5 DEF Extends, SameData, Links
    <3> QED  BY <3>2, <2>1, <2>4, <1>1, <1>2 DEF AttrInv
  <2>5. CASE d.last_attr = Null
    BY <2>1, <2>2, <2>5, <1>1, <1>2 DEF AttrInv
  <2> QED  BY <2>4, <2>5
<1>10. Top(p).last = n
  BY <1>6 DEF SameButLast, Top
<1>11. TreeShaped(p.nodes) /\ \A f \in Links : p.nodes[n][f] = Null
  BY <1>5 DEF Extends
<1> QED  BY <1>1, <1>7, <1>8, <1>9, <1>10, <1>11 DEF p, n


-----------------------------------------------------------------------------
(* The operations.                                                         *)

\* Text is a child without links; the values buffer only grows.
LEMMA AddTextInv ==
  ASSUME NEW d, Inv(d), NEW i \in Nat, NEW tok \in Token
  PROVE  Inv(AddText(d, i, tok))
<1> DEFINE node == NewNode("text", i, [in_values |-> TRUE, offset |-> Len(d.values),
                                       len |-> Clamped(tok.w)])
           p == PutChild(d, node)
<1>1. Fresh(node) /\ node.type # "attribute"
  <2>1. tok.w \in Nat /\ Clamped(tok.w) \in Nat
    BY ClampedType DEF Token
  <2>2. Len(d.values) \in Nat
    BY LenProperties DEF Inv, Typed
  <2> QED  BY <2>1, <2>2 DEF NewNode, Fresh, NodeType, Value, Links, Null
<1> HIDE DEF node
<1>2. Inv(p)
  BY <1>1, PutChildInv DEF Inv
<1>3. Bytes(i, tok.w) \in Seq(Nat \X Nat)
  BY BytesType DEF Token
<1> HIDE DEF p
<1>4. Inv([p EXCEPT !.values = @ \o Bytes(i, tok.w)])
  <2> DEFINE q == [p EXCEPT !.values = @ \o Bytes(i, tok.w)]
  <2>1. p.values \o Bytes(i, tok.w) \in Seq(Nat \X Nat)
    <3>1. p.values \in Seq(Nat \X Nat)
      BY <1>2 DEF Inv, Typed
    <3> QED  BY <3>1, <1>3, ConcatProperties
  <2>2. Typed(q)
    BY <1>2, <2>1 DEF Inv, Typed
  <2>3. /\ q.nodes = p.nodes /\ q.count = p.count /\ q.stack = p.stack
        /\ q.elem = p.elem /\ q.last_attr = p.last_attr
    BY <1>2 DEF Inv, Typed
  <2> HIDE DEF q
  <2>4. StackInv(q) /\ AttrInv(q)
    <3>1. StackInv(p) /\ AttrInv(p)
      BY <1>2 DEF Inv
    <3>2. StackInv(q)
      BY <2>3, <3>1 DEF StackInv
    <3>3. AttrInv(q)
      BY <2>3, <3>1 DEF AttrInv
    <3> QED  BY <3>2, <3>3
  <2>5. Inv(q)
    BY <1>2, <2>2, <2>3, <2>4 DEF Inv
  <2> QED  BY <2>5 DEF q
<1> QED  BY <1>4 DEF AddText, p, node

\* A new element is the last child of the innermost open one, and has no links:
\* what a tag needs for its attributes and its children.
LEMMA AddElementInv ==
  ASSUME NEW d, Inv(d), NEW i \in Nat
  PROVE  Inv(AddElement(d, i)) /\ TagInv(AddElement(d, i))
<1> DEFINE node == NewNode("element", i, NoValue)
           p == PutChild(d, node)
           q == AddElement(d, i)
<1>1. Fresh(node) /\ node.type # "attribute"
  BY DEF NewNode, Fresh, NodeType, NoValue, Value, Links, Null
<1> HIDE DEF node
<1>2. /\ Typed(p) /\ TreeShaped(p.nodes) /\ StackInv(p) /\ AttrInv(p)
      /\ Top(p).last = d.count
      /\ \A f \in Links : p.nodes[d.count][f] = Null
      /\ p.count = d.count + 1
  BY <1>1, PutChildInv DEF Inv
<1> HIDE DEF p
<1>3. q = [p EXCEPT !.elem = d.count, !.last_attr = Null, !.root = RootAfter(d)]
  BY DEF AddElement, p, node
<1> HIDE DEF q
<1>4. d.count \in Nat \ {0, 1} /\ RootAfter(d) \in Nat
  BY DEF Inv, Typed, RootAfter
<1>5. /\ q.nodes = p.nodes /\ q.count = p.count /\ q.stack = p.stack
      /\ q.elem = d.count /\ q.last_attr = Null
  BY <1>2, <1>3 DEF Typed
<1>6. Typed(q)
  BY <1>2, <1>3, <1>4 DEF Typed, Null
<1>7. AttrInv(q)
  BY <1>2, <1>4, <1>5 DEF AttrInv, Links, Null
<1>8. StackInv(q)
  BY <1>2, <1>5 DEF StackInv
<1>9. TagInv(q)
  BY <1>2, <1>4, <1>5 DEF TagInv, Top, Links, Null
<1> QED  BY <1>2, <1>5, <1>6, <1>7, <1>8, <1>9 DEF q, Inv

\* The node of an attribute is chained behind the last one of its element.
AttributeAdded(d, q, i, tok, val) ==
  /\ Extends(q.nodes, d.nodes, d.count, NewNode("attribute", i, val), d.elem, "first_attr", d.last_attr)
  /\ q = [d EXCEPT !.nodes = q.nodes, !.count = d.count + 1, !.last_attr = d.count,
                   !.values = q.values]
  /\ q.values = IF "NORMALIZE" \in d.flags THEN d.values \o Bytes(i, tok.w) ELSE d.values
  /\ q.values \in Seq(Nat \X Nat)

LEMMA AddAttributeAdds ==
  ASSUME NEW d, Inv(d), NEW s \in Int, NEW i \in Nat, NEW tok \in Token,
         "NO_ATTRS" \notin d.flags
  PROVE  AttributeAdded(d, AddAttribute(d, s, i, tok), i, tok, AttrValue(d, s, i, tok))
<1> DEFINE n == d.count
           node == NewNode("attribute", i, AttrValue(d, s, i, tok))
           q == AddAttribute(d, s, i, tok)
           grown == IF "NORMALIZE" \in d.flags THEN d.values \o Bytes(i, tok.w) ELSE d.values
<1>1. Fresh(node)
  <2>1. tok.w \in Nat /\ Clamped(tok.w) \in Nat
    BY ClampedType DEF Token
  <2>2. Len(d.values) \in Nat
    BY LenProperties DEF Inv, Typed
  <2>3. AttrValue(d, s, i, tok) \in Value
    BY <2>1, <2>2 DEF AttrValue, Value
  <2> QED  BY <2>3 DEF NewNode, Fresh, NodeType, Links, Null
<1> HIDE DEF node
<1>2. q = [d EXCEPT !.nodes = Chained(Grown(d.nodes, n, node), d.elem, "first_attr",
                                      d.last_attr, n),
                    !.count = n + 1, !.last_attr = n, !.values = grown]
  BY DEF AddAttribute, LastAttrAfter, node, Inv, Typed
<1>3. grown \in Seq(Nat \X Nat)
  <2>1. d.values \in Seq(Nat \X Nat)
    BY DEF Inv, Typed
  <2>2. Bytes(i, tok.w) \in Seq(Nat \X Nat)
    BY BytesType DEF Token
  <2> QED  BY <2>1, <2>2, ConcatProperties
<1> HIDE DEF q, grown
<1>4. /\ q.nodes = Chained(Grown(d.nodes, n, node), d.elem, "first_attr", d.last_attr, n)
      /\ q = [d EXCEPT !.nodes = q.nodes, !.count = n + 1, !.last_attr = n, !.values = grown]
      /\ q.values = grown
  BY <1>2 DEF Inv, Typed
<1>5. /\ n \in Nat /\ n >= 2 /\ d.nodes \in [0 .. n - 1 -> NodeType]
      /\ d.elem \in 0 .. n - 1 /\ d.last_attr \in 0 .. n - 1
  BY DEF Inv, Typed, AttrInv
<1>6. ChainEnd(d.nodes, n, d.elem, "first_attr", d.last_attr)
  <2>1. d.nodes[d.elem] \in NodeType
    BY <1>5
  <2>2. d.nodes[d.elem]["first_attr"] = d.nodes[d.elem].first_attr
    BY <2>1 DEF NodeType
  <2> HIDE DEF n
  <2> QED  BY <1>5, <2>2 DEF ChainEnd, Inv, AttrInv
<1>7. Extends(q.nodes, d.nodes, n, node, d.elem, "first_attr", d.last_attr)
  <2>1. "first_attr" \in Links
    BY DEF Links
  <2>2. TreeShaped(d.nodes)
    BY DEF Inv
  <2> HIDE DEF n
  <2> QED  BY <1>1, <1>4, <1>5, <1>6, <2>1, <2>2, ChainedTree
<1>8. q.values = IF "NORMALIZE" \in d.flags THEN d.values \o Bytes(i, tok.w) ELSE d.values
  BY <1>4 DEF grown
<1> QED  BY <1>3, <1>4, <1>7, <1>8 DEF AttributeAdded, node, q

\* No stack entry looks at the attributes.
LEMMA AddAttributeInv ==
  ASSUME NEW d, Inv(d), TagInv(d), NEW s \in Int, NEW i \in Nat, NEW tok \in Token
  PROVE  Inv(AddAttribute(d, s, i, tok)) /\ TagInv(AddAttribute(d, s, i, tok))
<1>1. CASE "NO_ATTRS" \in d.flags
  BY <1>1 DEF AddAttribute
<1>2. CASE "NO_ATTRS" \notin d.flags
  <2> DEFINE n == d.count
             node == NewNode("attribute", i, AttrValue(d, s, i, tok))
             q == AddAttribute(d, s, i, tok)
  <2>1. node.type = "attribute"
    BY DEF NewNode
  <2>2. AttributeAdded(d, q, i, tok, AttrValue(d, s, i, tok))
    BY <1>2, AddAttributeAdds
  <2>3. q.values \in Seq(Nat \X Nat)
    BY <2>2 DEF AttributeAdded
  <2> HIDE DEF q
  <2>4. /\ q.count = n + 1 /\ q.last_attr = n
        /\ q.stack = d.stack /\ q.elem = d.elem /\ q.root = d.root /\ q.flags = d.flags
    BY <2>2 DEF Inv, Typed, AttributeAdded
  <2>5. /\ n \in Nat /\ n >= 2 /\ d.nodes \in [0 .. n - 1 -> NodeType]
        /\ d.elem \in 0 .. n - 1 /\ d.last_attr \in 0 .. n - 1
    BY DEF Inv, Typed, AttrInv
  <2>7. Extends(q.nodes, d.nodes, n, node, d.elem, "first_attr", d.last_attr)
    BY <2>2 DEF AttributeAdded
  <2> HIDE DEF node
  <2>8. Typed(q)
    <3>1. q.count - 1 = n /\ q.count \in Nat \ {0, 1}
      BY <2>4, <2>5
    <3>2. q.nodes \in [0 .. q.count - 1 -> NodeType]
      BY <3>1, <2>7 DEF Extends
    <3>3. q = [nodes |-> q.nodes, count |-> q.count, values |-> q.values, stack |-> q.stack,
               root |-> q.root, elem |-> q.elem, last_attr |-> q.last_attr, flags |-> q.flags]
      BY <2>2 DEF Inv, Typed, AttributeAdded
    <3>4. /\ q.stack \in Seq(Entry) /\ Len(q.stack) \in 1 .. MaxStack /\ q.root \in Nat
          /\ q.elem \in Nat /\ q.last_attr \in Nat /\ q.flags \in SUBSET Flags
      BY <2>4, <2>5 DEF Inv, Typed
    <3> QED  BY <3>1, <3>2, <3>3, <3>4, <2>3, <2>4 DEF Typed
  <2> HIDE DEF n
  <2>9. \A k \in 0 .. n - 1 :
          /\ q.nodes[k].first_child = d.nodes[k].first_child
          /\ q.nodes[k].type = d.nodes[k].type
          /\ q.nodes[k].next_sibling # d.nodes[k].next_sibling =>
               k = d.last_attr /\ d.nodes[k].type = "attribute"
    <3> SUFFICES ASSUME NEW k \in 0 .. n - 1
                 PROVE  /\ q.nodes[k].first_child = d.nodes[k].first_child
                        /\ q.nodes[k].type = d.nodes[k].type
                        /\ q.nodes[k].next_sibling # d.nodes[k].next_sibling =>
                             k = d.last_attr /\ d.nodes[k].type = "attribute"
      OBVIOUS
    <3>1. d.last_attr # Null => d.nodes[d.last_attr].type = "attribute"
      BY DEF Inv, AttrInv
    <3> QED  BY <3>1, <2>7 DEF Extends, SameData, Links
  <2>10. StackInv(q)
    <3>1. q.count - 1 = n /\ d.count - 1 = n - 1
      BY <2>4, <2>5 DEF n
    <3>2. ASSUME NEW j \in 1 .. Len(q.stack)
          PROVE  /\ q.stack[j].node \in 1 .. q.count - 1
                 /\ q.stack[j].last \in 0 .. q.count - 1
                 /\ IF q.stack[j].last = Null
                      THEN q.nodes[q.stack[j].node].first_child = Null
                      ELSE /\ q.nodes[q.stack[j].last].next_sibling = Null
                           /\ q.nodes[q.stack[j].last].type # "attribute"
                           /\ q.stack[j].last > q.stack[j].node
      <4>1. /\ q.stack[j].node \in 1 .. n - 1
            /\ q.stack[j].last \in 0 .. n - 1
            /\ IF q.stack[j].last = Null
                 THEN d.nodes[q.stack[j].node].first_child = Null
                 ELSE /\ d.nodes[q.stack[j].last].next_sibling = Null
                      /\ d.nodes[q.stack[j].last].type # "attribute"
                      /\ q.stack[j].last > q.stack[j].node
        BY <2>4, <3>1 DEF Inv, StackInv
      <4>2. q.stack[j].node \in 0 .. n - 1
        BY <4>1, <2>5
      <4>3. q.nodes[q.stack[j].node].first_child = d.nodes[q.stack[j].node].first_child
        BY <4>2, <2>9
      <4>4. /\ q.nodes[q.stack[j].last].type = d.nodes[q.stack[j].last].type
            /\ d.nodes[q.stack[j].last].type # "attribute" =>
                 q.nodes[q.stack[j].last].next_sibling = d.nodes[q.stack[j].last].next_sibling
        BY <4>1, <2>9
      <4>5. q.stack[j].node \in 1 .. n /\ q.stack[j].last \in 0 .. n
        BY <4>1, <2>5
      <4> QED  BY <4>1, <4>3, <4>4, <4>5, <3>1
    <3>3. \A j, k \in 1 .. Len(q.stack) :
            j < k => q.stack[j].last # Null /\ q.stack[j].last <= q.stack[k].node
      BY <2>4 DEF Inv, StackInv
    <3> QED  BY <3>2, <3>3 DEF StackInv
  <2>11. AttrInv(q)
    BY <2>1, <2>4, <2>5, <2>7 DEF Extends, SameData, AttrInv, Links, n, Null
  <2>12. TagInv(q)
    BY <2>4, <2>5, <2>9 DEF TagInv, Top
  <2> QED  BY <2>7, <2>8, <2>10, <2>11, <2>12 DEF q, Inv, Extends
<1> QED  BY <1>1, <1>2

\* Another stack is as well typed.
LEMMA StackReplaced ==
  ASSUME NEW d, Typed(d), NEW st, st \in Seq(Entry), Len(st) \in 1 .. MaxStack
  PROVE  Typed([d EXCEPT !.stack = st])
BY DEF Typed

\* What a stack entry needs depends on the array only.
LEMMA Pop ==
  ASSUME NEW d, Inv(d)
  PROVE  Inv(CloseElement(d))
<1>1. CASE Len(d.stack) > 1
  <2> DEFINE st == Front(d.stack)
             q == [d EXCEPT !.stack = st]
  <2>1. d.stack \in Seq(Entry) /\ Len(d.stack) \in Nat
    BY LenProperties DEF Inv, Typed
  <2>2. /\ st \in Seq(Entry) /\ Len(st) = Len(d.stack) - 1
        /\ \A j \in 1 .. Len(st) : st[j] = d.stack[j]
    BY <1>1, <2>1, SubSeqProperties DEF Front
  <2> HIDE DEF st
  <2>3. /\ q.nodes = d.nodes /\ q.count = d.count /\ q.stack = st
        /\ q.elem = d.elem /\ q.last_attr = d.last_attr
    BY DEF Inv, Typed
  <2>4. Typed(q)
    <3>1. Len(d.stack) \in 1 .. MaxStack /\ MaxStack \in Nat
      BY StackAssumption DEF Inv, Typed
    <3>2. Len(st) \in 1 .. MaxStack
      BY <1>1, <2>1, <2>2, <3>1
    <3> QED  BY <2>2, <3>2, StackReplaced DEF Inv
  <2> HIDE DEF q
  <2>5. \A j \in 1 .. Len(q.stack) : j \in 1 .. Len(d.stack) /\ q.stack[j] = d.stack[j]
    BY <1>1, <2>1, <2>2, <2>3
  <2>6. StackInv(q)
    BY <2>3, <2>5 DEF Inv, StackInv
  <2>7. AttrInv(q)
    BY <2>3 DEF Inv, AttrInv
  <2>8. CloseElement(d) = q
    BY <1>1 DEF CloseElement, q, st
  <2> QED  BY <2>3, <2>4, <2>6, <2>7, <2>8 DEF Inv
<1>2. CASE ~(Len(d.stack) > 1)
  BY <1>2 DEF CloseElement
<1> QED  BY <1>1, <1>2

\* The element of a tag is a legal entry: it is the last child of the entry
\* below it and has no child.
LEMMA Push ==
  ASSUME NEW d, Inv(d), TagInv(d), NEW tok
  PROVE  Inv(EndOfTag(d, tok))
<1>1. CASE Opens(tok) /\ Len(d.stack) < MaxStack
  <2> DEFINE new == [node |-> d.elem, last |-> Null]
             st == Append(d.stack, new)
             q == [d EXCEPT !.stack = st]
             t == Len(d.stack)
  <2>1. d.stack \in Seq(Entry) /\ t \in Nat /\ t >= 1
    BY LenProperties, StackAssumption DEF Inv, Typed
  <2>2. d.elem \in 1 .. d.count - 1 /\ new \in Entry
    BY DEF Inv, Typed, AttrInv, TagInv, Entry, Null
  <2>3. /\ st \in Seq(Entry) /\ Len(st) = t + 1
        /\ \A j \in 1 .. t : st[j] = d.stack[j]
        /\ st[t + 1] = new
    BY <2>1, <2>2, AppendProperties
  <2> HIDE DEF st
  <2>4. /\ q.nodes = d.nodes /\ q.count = d.count /\ q.stack = st
        /\ q.elem = d.elem /\ q.last_attr = d.last_attr
    BY DEF Inv, Typed
  <2>5. Typed(q)
    <3>1. Len(st) \in 1 .. MaxStack
      BY <1>1, <2>1, <2>3, StackAssumption
    <3> QED  BY <2>3, <3>1, StackReplaced DEF Inv
  <2> HIDE DEF q
  <2>6. \A j \in 1 .. Len(q.stack) : j \in 1 .. t \/ j = t + 1
    BY <2>1, <2>3, <2>4
  <2>7. ASSUME NEW j \in 1 .. Len(q.stack)
        PROVE  /\ q.stack[j].node \in 1 .. q.count - 1
               /\ q.stack[j].last \in 0 .. q.count - 1
               /\ IF q.stack[j].last = Null
                    THEN q.nodes[q.stack[j].node].first_child = Null
                    ELSE /\ q.nodes[q.stack[j].last].next_sibling = Null
                         /\ q.nodes[q.stack[j].last].type # "attribute"
                         /\ q.stack[j].last > q.stack[j].node
    <3>1. CASE j \in 1 .. t
      <4>1. q.stack[j] = d.stack[j]
        BY <2>3, <2>4, <3>1
      <4> QED  BY <4>1, <2>4, <3>1 DEF Inv, StackInv
    <3>2. CASE j = t + 1
      <4>1. q.stack[j] = new
        BY <2>3, <2>4, <3>2
      <4>2. d.nodes[d.elem].first_child = Null
        BY DEF TagInv
      <4>3. 0 \in 0 .. d.count - 1
        BY DEF Inv, Typed
      <4> QED  BY <4>1, <4>2, <4>3, <2>2, <2>4 DEF Null
    <3> QED  BY <2>6, <3>1, <3>2
  <2>8. ASSUME NEW j \in 1 .. Len(q.stack), NEW k \in 1 .. Len(q.stack), j < k
        PROVE  q.stack[j].last # Null /\ q.stack[j].last <= q.stack[k].node
    <3>1. j \in 1 .. t /\ q.stack[j] = d.stack[j]
      BY <2>1, <2>3, <2>4, <2>6, <2>8
    <3>2. CASE k \in 1 .. t
      <4>1. q.stack[k] = d.stack[k]
        BY <2>3, <2>4, <3>2
      <4> QED  BY <3>1, <3>2, <4>1, <2>8 DEF Inv, StackInv
    <3>3. CASE k = t + 1
      <4>1. q.stack[k].node = d.elem
        BY <2>3, <2>4, <3>3
      <4>2. d.stack[t].last = d.elem
        BY DEF TagInv, Top
      <4>3. CASE j = t
        BY <3>1, <4>1, <4>2, <4>3, <2>2 DEF Null
      <4>4. CASE j < t
        <5>1. d.stack[j].last # Null /\ d.stack[j].last <= d.stack[t].node
          BY <2>1, <3>1, <4>4 DEF Inv, StackInv
        <5>2. /\ d.stack[t].last > d.stack[t].node
              /\ d.stack[t].node \in 1 .. d.count - 1
          BY <2>1, <2>2, <4>2 DEF Inv, StackInv, Null
        <5>3. d.stack[j].last \in 0 .. d.count - 1
          BY <3>1 DEF Inv, StackInv
        <5> QED  BY <5>1, <5>2, <5>3, <3>1, <4>1, <4>2, <2>2
      <4> QED  BY <3>1, <4>3, <4>4, <2>1
    <3> QED  BY <2>6, <3>2, <3>3
  <2>9. StackInv(q)
    BY <2>7, <2>8 DEF StackInv
  <2>10. AttrInv(q)
    BY <2>4 DEF Inv, AttrInv
  <2>11. EndOfTag(d, tok) = q
    BY <1>1 DEF EndOfTag, Pushed, q, st
  <2> QED  BY <2>4, <2>5, <2>9, <2>10, <2>11 DEF Inv
<1>2. CASE ~Opens(tok)
  BY <1>2 DEF EndOfTag
<1>3. CASE ~(Len(d.stack) < MaxStack)
  <2>1. [d EXCEPT !.stack = d.stack] = d
    BY DEF Inv, Typed
  <2> QED  BY <1>3, <2>1 DEF EndOfTag, Pushed
<1> QED  BY <1>1, <1>2, <1>3

-----------------------------------------------------------------------------
(* Every step.                                                             *)

\* An empty array, with the document node open.
LEMMA EmptyInv ==
  ASSUME NEW fs \in SUBSET Flags
  PROVE  Inv(EmptyDom(fs))
<1> DEFINE d == EmptyDom(fs)
<1>1. /\ d.nodes = FirstNodes(NoValue) /\ d.count = 2 /\ d.values = <<>>
      /\ d.stack = <<[node |-> Document, last |-> Null]>>
      /\ d.root = Null /\ d.elem = Null /\ d.last_attr = Null /\ d.flags = fs
  BY DEF EmptyDom
<1>2. /\ d.nodes \in [{0, 1} -> NodeType] /\ d.count = 2
      /\ \A i \in {0, 1} : \A f \in Links : d.nodes[i][f] = Null
  BY <1>1 DEF FirstNodes, NewNode, NodeType, NoValue, Value, Null, Document, Links
<1>3. 0 .. d.count - 1 = {0, 1}
  BY <1>1
<1>4. TreeShaped(d.nodes)
  BY <1>2 DEF TreeShaped, LinksForward, LinkedAtMostOnce, LinkedSomewhere, Null, Document
<1>5. /\ d.stack \in Seq(Entry) /\ Len(d.stack) = 1
      /\ d.stack[1].node = Document /\ d.stack[1].last = Null
  BY <1>1 DEF Entry, Null, Document
<1>6. Typed(d)
  <2>1. <<>> \in Seq(Nat \X Nat)
    OBVIOUS
  <2>2. Len(d.stack) \in 1 .. MaxStack
    BY <1>5, StackAssumption
  <2>3. d = [nodes |-> d.nodes, count |-> d.count, values |-> d.values, stack |-> d.stack,
             root |-> d.root, elem |-> d.elem, last_attr |-> d.last_attr, flags |-> d.flags]
    BY DEF EmptyDom
  <2> HIDE DEF d
  <2>4. /\ d.nodes \in [0 .. d.count - 1 -> NodeType] /\ d.count \in Nat \ {0, 1}
        /\ d.values \in Seq(Nat \X Nat) /\ d.root \in Nat /\ d.elem \in Nat
        /\ d.last_attr \in Nat /\ d.flags \in SUBSET Flags
    BY <1>1, <1>2, <1>3, <2>1 DEF Null
  <2> QED  BY <1>5, <2>2, <2>3, <2>4 DEF Typed
<1> HIDE DEF d
<1>7. StackInv(d)
  BY <1>1, <1>2, <1>3, <1>5 DEF StackInv, Links, Null, Document
<1>8. AttrInv(d)
  BY <1>1, <1>2, <1>3 DEF AttrInv, Links, Null
<1> QED  BY <1>4, <1>6, <1>7, <1>8 DEF Inv, d

\* The empty array satisfies the invariant.
LEMMA InitInv == Init => IInv
<1> SUFFICES ASSUME Init PROVE IInv
  OBVIOUS
<1>1. doc \in Seq(Token) /\ doc \in Docs /\ pos = 1
  BY DocsAssumption DEF Init
<1>2. pos \in 1 .. Len(doc) + 1 /\ ~InTag(doc, pos)
  BY <1>1, LenProperties DEF InTag
<1>3. PICK fs \in SUBSET Flags : dom = EmptyDom(fs)
  BY FlagsAssumption DEF Init
<1> QED  BY <1>1, <1>2, <1>3, EmptyInv DEF IInv

\* One step per action: in a tag only attributes and its end are read, so TagInv
\* holds where it is needed.
LEMMA NextInv == IInv /\ [Next]_vars => IInv'
<1> SUFFICES ASSUME IInv, [Next]_vars PROVE IInv'
  OBVIOUS
<1>1. /\ doc \in Seq(Token) /\ WellLexed(doc) /\ Len(doc) \in Nat
      /\ doc \in [1 .. Len(doc) -> Token]
  BY DocsAssumption, LenProperties DEF IInv
<1> DEFINE tok == doc[pos]
<1>2. ASSUME pos <= Len(doc)
      PROVE  /\ pos \in 1 .. Len(doc) /\ pos \in Nat /\ pos \in Int /\ tok \in Token
             /\ pos + 1 \in 1 .. Len(doc) + 1
             /\ tok.kind \in {"attr", "gt", "sgt"} <=> InTag(doc, pos)
             /\ InTag(doc, pos + 1) <=> tok.kind \in {"open", "attr"}
  <2>1. pos \in 1 .. Len(doc)
    BY <1>1, <1>2 DEF IInv
  <2>2. tok.kind \in {"attr", "gt", "sgt"} <=> InTag(doc, pos)
    BY <2>1, <1>1 DEF WellLexed
  <2>3. InTag(doc, pos + 1) <=> tok.kind \in {"open", "attr"}
    <3>1. pos + 1 > 1 /\ (pos + 1) - 1 = pos
      BY <2>1, <1>1
    <3>2. doc[(pos + 1) - 1] = doc[pos]
      BY <3>1
    <3> QED  BY <3>1, <3>2 DEF InTag
  <2> QED  BY <2>1, <2>2, <2>3, <1>1
<1>3. ASSUME pos <= Len(doc), pos' = pos + 1, doc' = doc, Inv(dom'),
             tok.kind \in {"open", "attr"} => TagInv(dom')
      PROVE  IInv'
  BY <1>2, <1>3 DEF IInv
<1>4. CASE ReadText
  <2>1. pos <= Len(doc) /\ pos' = pos + 1 /\ doc' = doc /\ dom' = AddText(dom, pos, tok)
    BY <1>4 DEF ReadText, Reading, Becomes
  <2>2. tok.kind = "text"
    BY <1>4 DEF ReadText, Reading
  <2>3. Inv(dom')
    BY <2>1, <1>2, AddTextInv DEF IInv
  <2> QED  BY <2>1, <2>2, <2>3, <1>3
<1>5. CASE ReadOpen
  <2>1. pos <= Len(doc) /\ pos' = pos + 1 /\ doc' = doc /\ dom' = AddElement(dom, pos)
    BY <1>5 DEF ReadOpen, Reading, Becomes
  <2>2. Inv(dom') /\ TagInv(dom')
    BY <2>1, <1>2, AddElementInv DEF IInv
  <2> QED  BY <2>1, <2>2, <1>3
<1>6. CASE ReadAttribute
  <2>1. pos <= Len(doc) /\ pos' = pos + 1 /\ doc' = doc /\ dom' = AddAttribute(dom, 1, pos, tok)
    BY <1>6 DEF ReadAttribute, Reading, Becomes
  <2>2. TagInv(dom)
    BY <2>1, <1>2, <1>6 DEF ReadAttribute, Reading, IInv
  <2>3. Inv(dom') /\ TagInv(dom')
    BY <2>1, <2>2, <1>2, AddAttributeInv DEF IInv
  <2> QED  BY <2>1, <2>3, <1>3
<1>7. CASE ReadEndOfTag
  <2>1. /\ pos <= Len(doc) /\ pos' = pos + 1 /\ doc' = doc /\ dom' = EndOfTag(dom, tok)
        /\ tok.kind \in {"gt", "sgt"}
    BY <1>7 DEF ReadEndOfTag, Reading, Becomes
  <2>2. TagInv(dom)
    BY <2>1, <1>2 DEF IInv
  <2>3. Inv(dom')
    BY <2>1, <2>2, Push DEF IInv
  <2> QED  BY <2>1, <2>3, <1>3
<1>8. CASE ReadEndTag
  <2>1. /\ pos <= Len(doc) /\ pos' = pos + 1 /\ doc' = doc /\ dom' = CloseElement(dom)
        /\ tok.kind = "end"
    BY <1>8 DEF ReadEndTag, Reading, Becomes
  <2>2. Inv(dom')
    BY <2>1, Pop DEF IInv
  <2> QED  BY <2>1, <2>2, <1>3
<1>9. CASE ReadOther
  <2>1. pos <= Len(doc) /\ pos' = pos + 1 /\ doc' = doc /\ dom' = dom /\ tok.kind = "skip"
    BY <1>9 DEF ReadOther, Reading, Becomes
  <2>2. Inv(dom')
    BY <2>1 DEF IInv
  <2> QED  BY <2>1, <2>2, <1>3
<1>10. CASE UNCHANGED vars
  BY <1>10 DEF vars, IInv
<1> QED  BY <1>4, <1>5, <1>6, <1>7, <1>8, <1>9, <1>10 DEF Next

-----------------------------------------------------------------------------
(* The values.                                                             *)

\* The node's value is all there: in the buffer, or in the source at its token.
Sound(dc, s, values, node) ==
  LET w == dc[node.at].w
      v == node.val
  IN  /\ node.at \in 1 .. Len(dc)
      /\ v.len = Clamped(w)
      /\ IF v.in_values
           THEN /\ v.offset \in Nat /\ v.offset + v.len <= Len(values)
                /\ \A j \in 1 .. v.len : values[v.offset + j] = <<node.at, j>>
           ELSE v.offset = node.at - s

ValuesInv(dc, s, d) ==
  \A k \in 0 .. d.count - 1 :
    IF d.nodes[k].type \in {"text", "attribute"} THEN Sound(dc, s, d.values, d.nodes[k])
    ELSE ~d.nodes[k].val.in_values

\* The buffer with the bytes of token i behind what it held.
Stored(values, i, w) ==
  LET new == values \o Bytes(i, w)
  IN  /\ new \in Seq(Nat \X Nat) /\ Len(new) = Len(values) + w
      /\ \A j \in 1 .. Len(values) : new[j] = values[j]
      /\ \A j \in 1 .. w : new[Len(values) + j] = <<i, j>>

LEMMA BytesStored ==
  ASSUME NEW values \in Seq(Nat \X Nat), NEW i \in Nat, NEW w \in Nat
  PROVE  Stored(values, i, w)
<1> DEFINE bytes == Bytes(i, w)
<1>1. bytes \in Seq(Nat \X Nat)
  BY BytesType
<1>2. Len(bytes) = w /\ \A j \in 1 .. w : bytes[j] = <<i, j>>
  BY <1>1 DEF Bytes
<1> HIDE DEF bytes
<1>3. /\ values \o bytes \in Seq(Nat \X Nat)
      /\ Len(values \o bytes) = Len(values) + Len(bytes)
      /\ \A j \in 1 .. Len(values) + Len(bytes) :
           (values \o bytes)[j] = IF j <= Len(values) THEN values[j] ELSE bytes[j - Len(values)]
  BY <1>1, ConcatProperties
<1>4. Len(values) \in Nat
  BY LenProperties
<1> QED  BY <1>2, <1>3, <1>4 DEF Stored, bytes

\* A value stays what it is when others are stored behind it.
LEMMA SoundKept ==
  ASSUME NEW dc, NEW s, NEW values \in Seq(Nat \X Nat), NEW more,
         Len(more) \in Nat, Len(values) <= Len(more),
         \A j \in 1 .. Len(values) : more[j] = values[j],
         NEW a \in NodeType, Sound(dc, s, values, a), NEW b, SameData(b, a)
  PROVE  Sound(dc, s, more, b)
<1>1. /\ b.at = a.at /\ b.val = a.val
      /\ a.val.len \in Nat /\ Len(values) \in Nat
  BY LenProperties DEF SameData, NodeType, Value
<1>2. CASE a.val.in_values
  <2>1. /\ a.val.offset \in Nat /\ a.val.offset + a.val.len <= Len(values)
        /\ \A j \in 1 .. a.val.len : values[a.val.offset + j] = <<a.at, j>>
    BY <1>2 DEF Sound
  <2>2. ASSUME NEW j \in 1 .. a.val.len
        PROVE  more[a.val.offset + j] = <<a.at, j>>
    <3> DEFINE offset == a.val.offset
               length == a.val.len
               stored == Len(values)
    <3>0. offset \in Nat /\ length \in Nat /\ stored \in Nat /\ offset + length <= stored /\ j \in 1 .. length
      BY <1>1, <2>1
    <3>1. a.val.offset + j \in 1 .. Len(values)
      <4> HIDE DEF offset, length, stored
      <4>1. offset + j \in 1 .. stored
        BY <3>0
      <4> QED  BY <4>1 DEF offset, stored
    <3> QED  BY <2>1, <3>1
  <2>3. a.val.offset + a.val.len <= Len(more)
    BY <1>1, <2>1
  <2> QED  BY <1>1, <1>2, <2>1, <2>2, <2>3 DEF Sound
<1>3. CASE ~a.val.in_values
  BY <1>1, <1>3 DEF Sound
<1> QED  BY <1>2, <1>3

\* No more bytes are kept than the value has.
LEMMA ClampedFits ==
  ASSUME NEW n \in Nat
  PROVE  Clamped(n) \in Nat /\ Clamped(n) <= n
  BY LenAssumption DEF Clamped

\* What is known of a token.
LEMMA TokenIs ==
  ASSUME NEW dc \in Seq(Token), NEW i \in 1 .. Len(dc)
  PROVE  /\ dc[i] \in Token /\ dc[i].w \in Nat /\ i \in Nat
         /\ Clamped(dc[i].w) \in Nat /\ Clamped(dc[i].w) <= dc[i].w
<1>1. dc[i] \in Token /\ Len(dc) \in Nat
  BY ElementOfSeq, LenProperties
<1>2. dc[i].w \in Nat
  BY <1>1 DEF Token
<1>3. i \in Nat
  BY <1>1
<1>4. Clamped(dc[i].w) \in Nat /\ Clamped(dc[i].w) <= dc[i].w
  BY <1>2, ClampedFits
<1> QED  BY <1>1, <1>2, <1>3, <1>4

\* One node more, sound itself, and a buffer that has grown at its end.
LEMMA ValuesGrow ==
  ASSUME NEW dc, NEW s, NEW d, Typed(d), ValuesInv(dc, s, d),
         NEW q, NEW node, NEW owner, NEW first, NEW last,
         Extends(q.nodes, d.nodes, d.count, node, owner, first, last),
         q.count = d.count + 1,
         Len(q.values) \in Nat, Len(d.values) <= Len(q.values),
         \A j \in 1 .. Len(d.values) : q.values[j] = d.values[j],
         IF node.type \in {"text", "attribute"} THEN Sound(dc, s, q.values, node) ELSE ~node.val.in_values
  PROVE  ValuesInv(dc, s, q)
<1> DEFINE Right(values, a) == IF a.type \in {"text", "attribute"} THEN Sound(dc, s, values, a)
                               ELSE ~a.val.in_values
<1> SUFFICES ASSUME NEW k \in 0 .. q.count - 1 PROVE Right(q.values, q.nodes[k])
  BY DEF ValuesInv
<1>1. d.count \in Nat /\ d.values \in Seq(Nat \X Nat) /\ d.nodes \in [0 .. d.count - 1 -> NodeType]
  BY DEF Typed
<1>2. CASE k = d.count
  <2>1. SameData(q.nodes[k], node)
    BY <1>2 DEF Extends
  <2> QED  BY <2>1 DEF SameData, Sound
<1>3. CASE k # d.count
  <2>1. k \in 0 .. d.count - 1
    BY <1>1, <1>3
  <2>2. SameData(q.nodes[k], d.nodes[k])
    BY <2>1 DEF Extends
  <2>3. Right(d.values, d.nodes[k])
    BY <2>1 DEF ValuesInv
  <2>4. d.nodes[k] \in NodeType
    BY <1>1, <2>1
  <2>5. CASE d.nodes[k].type \in {"text", "attribute"}
    <3>1. Sound(dc, s, q.values, q.nodes[k])
      BY <1>1, <2>2, <2>3, <2>4, <2>5, SoundKept
    <3> QED  BY <2>2, <2>5, <3>1 DEF SameData
  <2>6. CASE d.nodes[k].type \notin {"text", "attribute"}
    BY <2>2, <2>3, <2>6 DEF SameData
  <2> QED  BY <2>5, <2>6
<1> QED  BY <1>2, <1>3

LEMMA TextValues ==
  ASSUME NEW dc \in Seq(Token), NEW s \in Nat, NEW d, Inv(d), ValuesInv(dc, s, d), NEW i \in 1 .. Len(dc)
  PROVE  ValuesInv(dc, s, AddText(d, i, dc[i]))
<1> DEFINE tok == dc[i]
           val == [in_values |-> TRUE, offset |-> Len(d.values), len |-> Clamped(tok.w)]
           node == NewNode("text", i, val)
           p == PutChild(d, node)
           q == [p EXCEPT !.values = p.values \o Bytes(i, tok.w)]
<1>1. CASE "NO_TEXT" \in d.flags
  BY <1>1 DEF AddText
<1>2. CASE "NO_TEXT" \notin d.flags
  <2>1. tok \in Token /\ tok.w \in Nat /\ i \in Nat /\ Clamped(tok.w) \in Nat /\ Clamped(tok.w) <= tok.w
    BY TokenIs
  <2>2. d.values \in Seq(Nat \X Nat) /\ Len(d.values) \in Nat
    BY LenProperties DEF Inv, Typed
  <2>3. Fresh(node)
    BY <2>1, <2>2 DEF NewNode, Fresh, NodeType, Value, Links, Null
  <2>4. node.type = "text" /\ node.at = i /\ node.val = val
    BY DEF NewNode
  <2> HIDE DEF node
  <2>5. ChildAdded(d, p, node)
    BY <2>3, PutChildAdds DEF Inv
  <2> HIDE DEF p
  <2>6. /\ p.values = d.values
        /\ q.nodes = p.nodes /\ q.count = d.count + 1 /\ q.values = d.values \o Bytes(i, tok.w)
    BY <2>5 DEF ChildAdded, Inv, Typed
  <2>7. Stored(d.values, i, tok.w)
    BY <2>1, <2>2, BytesStored
  <2> HIDE DEF q
  <2>8. /\ Len(q.values) = Len(d.values) + tok.w
        /\ \A j \in 1 .. Len(d.values) : q.values[j] = d.values[j]
        /\ \A j \in 1 .. tok.w : q.values[Len(d.values) + j] = <<i, j>>
    BY <2>6, <2>7 DEF Stored
  <2>9. Sound(dc, s, q.values, node)
    <3>1. /\ val.len = Clamped(tok.w) /\ val.in_values /\ val.offset = Len(d.values)
          /\ node.at = i /\ node.val = val /\ dc[node.at] = tok
      BY <2>4
    <3> HIDE DEF tok, val
    <3>2. val.offset \in Nat /\ val.offset + val.len <= Len(q.values)
      BY <2>1, <2>2, <2>8, <3>1
    <3>3. \A j \in 1 .. val.len : q.values[val.offset + j] = <<i, j>>
      <4>1. \A j \in 1 .. Clamped(tok.w) : j \in 1 .. tok.w
        BY <2>1
      <4> QED  BY <2>8, <3>1, <4>1
    <3> QED  BY <3>1, <3>2, <3>3 DEF Sound
  <2>10. Extends(q.nodes, d.nodes, d.count, node, Top(d).node, "first_child", Top(d).last)
    BY <2>5, <2>6 DEF ChildAdded
  <2>11. ValuesInv(dc, s, q)
    <3>1. Len(q.values) \in Nat /\ Len(d.values) <= Len(q.values)
      BY <2>1, <2>2, <2>8
    <3>2. Typed(d)
      BY DEF Inv
    <3> HIDE DEF tok
    <3> QED  BY <2>4, <2>6, <2>8, <2>9, <2>10, <3>1, <3>2, ValuesGrow
  <2> QED  BY <1>2, <2>11 DEF AddText, q, p, node
<1> QED  BY <1>1, <1>2

LEMMA ElementValues ==
  ASSUME NEW dc \in Seq(Token), NEW s \in Nat, NEW d, Inv(d), ValuesInv(dc, s, d), NEW i \in 1 .. Len(dc)
  PROVE  ValuesInv(dc, s, AddElement(d, i))
<1> DEFINE node == NewNode("element", i, NoValue)
           p == PutChild(d, node)
           q == AddElement(d, i)
<1>1. Fresh(node) /\ node.type = "element" /\ ~node.val.in_values
  BY DEF NewNode, Fresh, NodeType, NoValue, Value, Links, Null
<1> HIDE DEF node
<1>2. ChildAdded(d, p, node)
  BY <1>1, PutChildAdds DEF Inv
<1>3. q = [p EXCEPT !.elem = d.count, !.last_attr = Null, !.root = RootAfter(d)]
  BY DEF AddElement, node
<1> HIDE DEF p, q
<1>4. q.nodes = p.nodes /\ q.count = d.count + 1 /\ q.values = d.values
  BY <1>2, <1>3 DEF ChildAdded, Inv, Typed
<1>5. Extends(q.nodes, d.nodes, d.count, node, Top(d).node, "first_child", Top(d).last)
  BY <1>2, <1>4 DEF ChildAdded
<1>6. Len(d.values) \in Nat
  BY LenProperties DEF Inv, Typed
<1>7. Typed(d)
  BY DEF Inv
<1>8. /\ Len(q.values) \in Nat /\ Len(d.values) <= Len(q.values)
      /\ \A j \in 1 .. Len(d.values) : q.values[j] = d.values[j]
  BY <1>4, <1>6
<1>9. ValuesInv(dc, s, q)
  BY <1>1, <1>4, <1>5, <1>7, <1>8, ValuesGrow
<1> QED  BY <1>9 DEF q

LEMMA AttributeValues ==
  ASSUME NEW dc \in Seq(Token), NEW s \in Nat, NEW d, Inv(d), ValuesInv(dc, s, d), NEW i \in 1 .. Len(dc)
  PROVE  ValuesInv(dc, s, AddAttribute(d, s, i, dc[i]))
<1> DEFINE tok == dc[i]
           val == AttrValue(d, s, i, tok)
           node == NewNode("attribute", i, val)
           q == AddAttribute(d, s, i, tok)
<1>1. CASE "NO_ATTRS" \in d.flags
  BY <1>1 DEF AddAttribute
<1>2. CASE "NO_ATTRS" \notin d.flags
  <2>1. tok \in Token /\ tok.w \in Nat /\ i \in Nat /\ Clamped(tok.w) \in Nat /\ Clamped(tok.w) <= tok.w
    BY TokenIs
  <2>2. d.values \in Seq(Nat \X Nat) /\ Len(d.values) \in Nat
    BY LenProperties DEF Inv, Typed
  <2>3. AttributeAdded(d, q, i, tok, val)
    BY <1>2, <2>1, AddAttributeAdds
  <2>4. node.type = "attribute" /\ node.at = i /\ node.val = val
    BY DEF NewNode
  <2> HIDE DEF q
  <2>5. q.nodes = q.nodes /\ q.count = d.count + 1
    BY <2>3 DEF AttributeAdded, Inv, Typed
  <2>6. Extends(q.nodes, d.nodes, d.count, node, d.elem, "first_attr", d.last_attr)
    BY <2>3 DEF AttributeAdded
  <2> HIDE DEF node
  <2>7. CASE "NORMALIZE" \in d.flags
    <3>1. Stored(d.values, i, tok.w) /\ q.values = d.values \o Bytes(i, tok.w)
      BY <2>1, <2>2, <2>3, <2>7, BytesStored DEF AttributeAdded
    <3>2. /\ Len(q.values) = Len(d.values) + tok.w
          /\ \A j \in 1 .. Len(d.values) : q.values[j] = d.values[j]
          /\ \A j \in 1 .. tok.w : q.values[Len(d.values) + j] = <<i, j>>
      BY <3>1 DEF Stored
    <3>3. val = [in_values |-> TRUE, offset |-> Len(d.values), len |-> Clamped(tok.w)]
      BY <2>7 DEF AttrValue
    <3>4. Sound(dc, s, q.values, node)
      <4> HIDE DEF tok, val
      <4>1. /\ val.len = Clamped(tok.w) /\ val.in_values /\ val.offset = Len(d.values)
            /\ node.at = i /\ node.val = val /\ dc[node.at] = tok
        BY <2>4, <3>3 DEF tok
      <4>2. val.offset \in Nat /\ val.offset + val.len <= Len(q.values)
        BY <2>1, <2>2, <3>2, <4>1
      <4>3. \A j \in 1 .. val.len : q.values[val.offset + j] = <<i, j>>
        <5>1. \A j \in 1 .. Clamped(tok.w) : j \in 1 .. tok.w
          BY <2>1
        <5> QED  BY <3>2, <4>1, <5>1
      <4> QED  BY <4>1, <4>2, <4>3 DEF Sound
    <3>5. Len(q.values) \in Nat /\ Len(d.values) <= Len(q.values)
      BY <2>1, <2>2, <3>2
    <3>6. Typed(d)
      BY DEF Inv
    <3> HIDE DEF tok, val
    <3>7. ValuesInv(dc, s, q)
      BY <2>4, <2>5, <2>6, <3>2, <3>4, <3>5, <3>6, ValuesGrow
    <3> QED  BY <3>7 DEF q, tok
  <2>8. CASE "NORMALIZE" \notin d.flags
    <3>1. q.values = d.values
      BY <2>3, <2>8 DEF AttributeAdded
    <3>2. val = [in_values |-> FALSE, offset |-> i - s, len |-> Clamped(tok.w)]
      BY <2>8 DEF AttrValue
    <3>3. Sound(dc, s, q.values, node)
      BY <2>1, <2>4, <3>2 DEF Sound
    <3>4. Typed(d)
      BY DEF Inv
    <3> HIDE DEF tok, val
    <3>5. /\ Len(q.values) \in Nat /\ Len(d.values) <= Len(q.values)
          /\ \A j \in 1 .. Len(d.values) : q.values[j] = d.values[j]
      BY <2>2, <3>1
    <3>6. ValuesInv(dc, s, q)
      BY <2>4, <2>5, <2>6, <3>3, <3>4, <3>5, ValuesGrow
    <3> QED  BY <3>6 DEF q, tok
  <2> QED  BY <2>7, <2>8
<1> QED  BY <1>1, <1>2

\* Only the stack is touched.
LEMMA OtherValues ==
  ASSUME NEW dc, NEW s, NEW d, Inv(d), ValuesInv(dc, s, d), NEW tok
  PROVE  ValuesInv(dc, s, EndOfTag(d, tok)) /\ ValuesInv(dc, s, CloseElement(d))
<1>1. \A st : ValuesInv(dc, s, [d EXCEPT !.stack = st])
  BY DEF ValuesInv, Inv, Typed
<1> QED  BY <1>1 DEF EndOfTag, CloseElement

\* Of the first two nodes neither has a value.
LEMMA EmptyValues ==
  ASSUME NEW dc, NEW s, NEW fs
  PROVE  ValuesInv(dc, s, EmptyDom(fs))
<1>1. /\ EmptyDom(fs).count = 2
      /\ \A k \in 0 .. 1 : /\ EmptyDom(fs).nodes[k].type \in {"null", "document"}
                           /\ ~EmptyDom(fs).nodes[k].val.in_values
  BY DEF EmptyDom, FirstNodes, NewNode, NoValue, Null, Document
<1> QED  BY <1>1 DEF ValuesInv

LEMMA InitValues == Init => ValuesInv(doc, 1, dom)
  BY EmptyValues DEF Init

LEMMA NextValues == IInv /\ ValuesInv(doc, 1, dom) /\ [Next]_vars => ValuesInv(doc, 1, dom)'
<1> SUFFICES ASSUME IInv, ValuesInv(doc, 1, dom), [Next]_vars
             PROVE  ValuesInv(doc', 1, dom')
  OBVIOUS
<1>1. doc \in Seq(Token) /\ Len(doc) \in Nat /\ Inv(dom)
  BY DocsAssumption, LenProperties DEF IInv
<1>2. CASE UNCHANGED vars
  BY <1>2 DEF vars
<1>3. ASSUME pos <= Len(doc) PROVE pos \in 1 .. Len(doc)
  BY <1>1, <1>3 DEF IInv
<1>4. CASE ReadText
  <2>1. pos <= Len(doc) /\ doc' = doc /\ dom' = AddText(dom, pos, doc[pos])
    BY <1>4 DEF ReadText, Reading, Becomes
  <2> QED  BY <1>1, <1>3, <2>1, TextValues
<1>5. CASE ReadOpen
  <2>1. pos <= Len(doc) /\ doc' = doc /\ dom' = AddElement(dom, pos)
    BY <1>5 DEF ReadOpen, Reading, Becomes
  <2> QED  BY <1>1, <1>3, <2>1, ElementValues
<1>6. CASE ReadAttribute
  <2>1. pos <= Len(doc) /\ doc' = doc /\ dom' = AddAttribute(dom, 1, pos, doc[pos])
    BY <1>6 DEF ReadAttribute, Reading, Becomes
  <2> QED  BY <1>1, <1>3, <2>1, AttributeValues
<1>7. CASE ReadEndOfTag \/ ReadEndTag
  <2>1. doc' = doc /\ (dom' = EndOfTag(dom, doc[pos]) \/ dom' = CloseElement(dom))
    BY <1>7 DEF ReadEndOfTag, ReadEndTag, Reading, Becomes
  <2> QED  BY <1>1, <2>1, OtherValues
<1>8. CASE ReadOther
  BY <1>8 DEF ReadOther, Becomes
<1> QED  BY <1>2, <1>4, <1>5, <1>6, <1>7, <1>8 DEF Next

\* The smaller of two numbers.
LEMMA MinIs ==
  ASSUME NEW a \in Nat, NEW b \in Nat
  PROVE  Min({a, b}) = IF a > b THEN b ELSE a
<1>1. CASE a > b
  BY <1>1 DEF Min
<1>2. CASE ~(a > b)
  BY <1>2 DEF Min
<1> QED BY <1>1, <1>2

\* What is read of a sound node is its token's bytes, as many as a length holds.
LEMMA SoundIsRead ==
  ASSUME NEW d, d.values \in Seq(Nat \X Nat), NEW dc \in Seq(Token),
         NEW n \in NodeType, Sound(dc, 1, d.values, n)
  PROVE  ValueOf(d, 1, n) = Bytes(n.at, Min({dc[n.at].w, MaxLen}))
<1> DEFINE v == n.val
           L == v.len
<1>1. n.at \in 1 .. Len(dc) /\ dc[n.at].w \in Nat /\ L = Clamped(dc[n.at].w) /\ n.at \in Nat
  BY TokenIs DEF Sound
<1>2. Min({dc[n.at].w, MaxLen}) = L /\ L \in Nat
  BY <1>1, MinIs, LenAssumption, ClampedFits DEF Clamped
<1>3. Bytes(n.at, L) \in Seq(Nat \X Nat) /\ Len(Bytes(n.at, L)) = L
  BY <1>1, <1>2, BytesType DEF Bytes
<1>4. CASE L = 0
  <2>1. Bytes(n.at, L) = <<>>
    BY <1>3, <1>4, EmptySeq
  <2>2. ValueOf(d, 1, n) = <<>>
    BY <1>4 DEF ValueOf
  <2> QED  BY <1>2, <2>1, <2>2
<1>5. CASE L # 0 /\ v.in_values
  <2> DEFINE r == SubSeq(d.values, v.offset + 1, v.offset + L)
  <2>1. /\ v.offset \in Nat /\ v.offset + L <= Len(d.values)
        /\ \A j \in 1 .. L : d.values[v.offset + j] = <<n.at, j>>
    BY <1>5 DEF Sound
  <2>2. Len(d.values) \in Nat
    BY LenProperties
  <2>3. \A j \in v.offset + 1 .. v.offset + L : d.values[j] \in Nat \X Nat
    <3>1. \A j \in v.offset + 1 .. v.offset + L : j \in 1 .. Len(d.values)
      BY <1>2, <2>1, <2>2
    <3> QED  BY <3>1, ElementOfSeq
  <2>4. /\ r \in Seq(Nat \X Nat)
        /\ Len(r) = IF v.offset + 1 <= v.offset + L THEN (v.offset + L) - (v.offset + 1) + 1 ELSE 0
        /\ \A j \in 1 .. (v.offset + L) - (v.offset + 1) + 1 : r[j] = d.values[v.offset + 1 + j - 1]
    <3>1. v.offset + 1 \in Int /\ v.offset + L \in Int
      BY <1>2, <2>1
    <3> HIDE DEF v, L
    <3> QED  BY <2>3, <3>1, SubSeqProperties
  <2>5. Len(r) = L
    <3> DEFINE offset == v.offset
    <3>1. offset \in Nat /\ L \in Nat /\ L # 0
      BY <1>2, <1>5, <2>1
    <3>2. Len(r) = IF offset + 1 <= offset + L THEN (offset + L) - (offset + 1) + 1 ELSE 0
      BY <2>4
    <3> HIDE DEF offset, L, r
    <3> QED  BY <3>1, <3>2
  <2>6. \A j \in 1 .. L : r[j] = Bytes(n.at, L)[j]
    <3> SUFFICES ASSUME NEW j \in 1 .. L PROVE r[j] = Bytes(n.at, L)[j]
      OBVIOUS
    <3>1. j \in 1 .. (v.offset + L) - (v.offset + 1) + 1 /\ v.offset + 1 + j - 1 = v.offset + j
      BY <1>2, <2>1
    <3>2. r[j] = d.values[v.offset + j]
      BY <2>4, <3>1
    <3> QED  BY <2>1, <3>2 DEF Bytes
  <2> HIDE DEF r
  <2>7. r = Bytes(n.at, L)
    BY <1>3, <2>4, <2>5, <2>6, SeqEqual
  <2> QED  BY <1>2, <1>5, <2>7 DEF ValueOf, r
<1>6. CASE L # 0 /\ ~v.in_values
  <2>1. v.offset = n.at - 1 /\ 1 + v.offset = n.at
    BY <1>1, <1>6 DEF Sound
  <2> QED  BY <1>2, <1>6, <2>1 DEF ValueOf
<1> QED  BY <1>4, <1>5, <1>6

-----------------------------------------------------------------------------
(* The children of the document node.                                      *)

\* root is the first of the kids that is an element, if one is.
FirstElement(nodes, kids, root) ==
  IF root = Null THEN \A i \in 1 .. Len(kids) : nodes[kids[i]].type # "element"
  ELSE \E i \in 1 .. Len(kids) :
         /\ kids[i] = root /\ nodes[kids[i]].type = "element"
         /\ \A j \in 1 .. i - 1 : nodes[kids[j]].type # "element"

\* kids lists the document's children, the last of them where the stack's first
\* entry says.
TopList(nodes, entry, root, kids) ==
  /\ entry.node = Document
  /\ IsChain(nodes, nodes[Document].first_child, kids)
  /\ entry.last = IF kids = <<>> THEN Null ELSE kids[Len(kids)]
  /\ \A i \in 1 .. Len(kids) : nodes[kids[i]].type # "attribute"
  /\ \A i \in 1 .. Len(kids) - 1 : kids[i] < kids[Len(kids)]
  /\ FirstElement(nodes, kids, root)

TopInv(d) == \E kids : TopList(d.nodes, d.stack[1], d.root, kids)

\* The document's children stay what they are when a node is linked elsewhere.
LEMMA TopKept ==
  ASSUME NEW n \in Nat, n >= 2, NEW nodes \in [0 .. n - 1 -> NodeType],
         NEW m, NEW node, NEW owner, NEW first, NEW last,
         Extends(m, nodes, n, node, owner, first, last),
         NEW entry, NEW root, NEW kids, TopList(nodes, entry, root, kids),
         m[Document].first_child = nodes[Document].first_child,
         \A i \in 1 .. Len(kids) : m[kids[i]].next_sibling = nodes[kids[i]].next_sibling
  PROVE  TopList(m, entry, root, kids)
<1>1. /\ DOMAIN nodes = 0 .. n - 1 /\ DOMAIN m = 0 .. n
      /\ \A i \in 0 .. n - 1 : m[i].type = nodes[i].type
  BY DEF Extends, SameData
<1>2. DOMAIN nodes \subseteq DOMAIN m
  BY <1>1
<1>3. kids \in Seq(DOMAIN nodes \ {Null}) /\ Len(kids) \in Nat
  BY LenProperties DEF TopList, IsChain
<1>4. \A i \in 1 .. Len(kids) : kids[i] \in DOMAIN nodes /\ m[kids[i]].type = nodes[kids[i]].type
  BY <1>1, <1>3, ElementOfSeq
<1>5. IsChain(m, m[Document].first_child, kids)
  BY <1>2, ChainKept DEF TopList
<1>6. FirstElement(m, kids, root)
  <2>1. CASE root = Null
    BY <1>4, <2>1 DEF TopList, FirstElement
  <2>2. CASE root # Null
    <3>1. PICK i \in 1 .. Len(kids) :
            /\ kids[i] = root /\ nodes[kids[i]].type = "element"
            /\ \A j \in 1 .. i - 1 : nodes[kids[j]].type # "element"
      BY <2>2 DEF TopList, FirstElement
    <3>2. \A j \in 1 .. i - 1 : j \in 1 .. Len(kids)
      BY <1>3
    <3>3. \A j \in 1 .. i - 1 : m[kids[j]].type # "element"
      BY <1>4, <3>1, <3>2
    <3> QED  BY <1>4, <2>2, <3>1, <3>3 DEF FirstElement
  <2> QED  BY <2>1, <2>2
<1> QED  BY <1>4, <1>5, <1>6 DEF TopList

\* A new child of the document becomes the last of them, and the root if it is
\* the first element.
LEMMA TopAdded ==
  ASSUME NEW n \in Nat, n >= 2, NEW nodes \in [0 .. n - 1 -> NodeType],
         NEW m, NEW node, NEW entry, NEW root \in Nat, NEW kids,
         Extends(m, nodes, n, node, entry.node, "first_child", entry.last),
         TopList(nodes, entry, root, kids), node.type # "attribute",
         NEW after, after.node = entry.node, after.last = n
  PROVE  TopList(m, after, IF root = Null /\ node.type = "element" THEN n ELSE root,
                  Append(kids, n))
<1> DEFINE all == Append(kids, n)
           L == Len(kids)
           now == IF root = Null /\ node.type = "element" THEN n ELSE root
<1>1. /\ DOMAIN nodes = 0 .. n - 1 /\ DOMAIN m = 0 .. n
      /\ \A i \in 0 .. n - 1 : m[i].type = nodes[i].type
      /\ m[n].type = node.type
      /\ m \in [0 .. n -> NodeType]
  BY DEF Extends, SameData
<1>2. kids \in Seq(0 .. n - 1) /\ L \in Nat /\ (kids = <<>> <=> L = 0)
  <2>1. kids \in Seq(DOMAIN nodes \ {Null})
    BY DEF TopList, IsChain
  <2>2. DOMAIN nodes \ {Null} \subseteq 0 .. n - 1
    BY <1>1
  <2>3. L \in Nat /\ (kids = <<>> <=> L = 0)
    BY <2>1, LenProperties, EmptySeq
  <2>4. \A i \in 1 .. L : kids[i] \in 0 .. n - 1
    BY <2>1, <2>2, ElementOfSeq
  <2> QED  BY <2>1, <2>3, <2>4, SeqDef, LenProperties
<1>3. \A i \in 1 .. L : /\ kids[i] \in 0 .. n - 1 /\ kids[i] # Null
                        /\ m[kids[i]].type = nodes[kids[i]].type
                        /\ nodes[kids[i]].type # "attribute"
  <2>1. \A i \in 1 .. L : kids[i] \in DOMAIN nodes \ {Null}
    BY ElementOfSeq DEF TopList, IsChain
  <2> QED  BY <1>1, <2>1 DEF TopList
<1>4. /\ all \in Seq(0 .. n) /\ Len(all) = L + 1 /\ all[L + 1] = n
      /\ \A i \in 1 .. L : all[i] = kids[i]
  <2>1. kids \in Seq(0 .. n)
    <3>1. \A i \in 1 .. L : kids[i] \in 0 .. n
      BY <1>3
    <3> QED  BY <1>2, <3>1, SeqDef, LenProperties
  <2> QED  BY <2>1, AppendProperties
<1>5. /\ m[n].next_sibling = Null
      /\ \A i \in 0 .. n - 1 :
           /\ m[i].next_sibling = IF entry.last # Null /\ i = entry.last THEN n
                                  ELSE nodes[i].next_sibling
           /\ m[i].first_child = IF entry.last = Null /\ i = entry.node THEN n
                                 ELSE nodes[i].first_child
  <2>1. \A i \in 0 .. n : /\ m[i]["next_sibling"] = m[i].next_sibling
                          /\ m[i]["first_child"] = m[i].first_child
    BY <1>1 DEF NodeType
  <2>2. \A i \in 0 .. n - 1 : /\ nodes[i]["next_sibling"] = nodes[i].next_sibling
                              /\ nodes[i]["first_child"] = nodes[i].first_child
    BY DEF NodeType
  <2>3. n \in 0 .. n /\ \A i \in 0 .. n - 1 : i \in 0 .. n
    OBVIOUS
  <2> QED  BY <2>1, <2>2, <2>3 DEF Extends, Links
<1> HIDE DEF all, L
<1>6. entry.last = (IF L = 0 THEN Null ELSE kids[L]) /\ (L # 0 => L \in 1 .. L)
  BY <1>2 DEF TopList, L
<1>7. IsChain(m, m[Document].first_child, all)
  <2>1. IsChain(nodes, nodes[Document].first_child, kids)
    BY DEF TopList
  <2>2. DOMAIN nodes \subseteq DOMAIN m /\ n \in DOMAIN m \ {Null}
    BY <1>1 DEF Null
  <2>3. ASSUME NEW i \in 1 .. L - 1
        PROVE  m[kids[i]].next_sibling = nodes[kids[i]].next_sibling
    <3>1. i \in 1 .. L /\ L # 0 /\ L \in 1 .. L
      BY <1>2
    <3>2. kids[i] < kids[L] /\ kids[i] \in Nat /\ kids[L] \in Nat
      BY <1>3, <3>1, <2>3 DEF TopList, L
    <3>3. kids[i] # entry.last
      BY <1>6, <3>1, <3>2
    <3> QED  BY <1>3, <1>5, <3>1, <3>3
  <2>4. kids # <<>> => m[kids[L]].next_sibling = n
    BY <1>2, <1>3, <1>5, <1>6
  <2>5. m[Document].first_child = IF kids = <<>> THEN n ELSE nodes[Document].first_child
    <3>1. Document \in 0 .. n - 1 /\ entry.node = Document
      BY DEF Document, TopList
    <3>2. entry.last = Null <=> kids = <<>>
      BY <1>2, <1>3, <1>6
    <3> QED  BY <1>5, <3>1, <3>2
  <2>6. IsChain(m, IF kids = <<>> THEN n ELSE nodes[Document].first_child, all)
    BY <1>5, <2>1, <2>2, <2>3, <2>4, ChainAppended DEF all, L
  <2> QED  BY <2>5, <2>6
<1>8. all # <<>> /\ after.last = all[Len(all)]
  BY <1>2, <1>4, EmptySeq
<1>9. ASSUME NEW i \in 1 .. Len(all)
      PROVE  m[all[i]].type # "attribute"
  <2>1. i \in 1 .. L \/ i = L + 1
    BY <1>2, <1>4
  <2> QED  BY <1>1, <1>3, <1>4, <2>1
<1>10. ASSUME NEW i \in 1 .. Len(all) - 1
       PROVE  all[i] < all[Len(all)]
  <2>1. i \in 1 .. L
    BY <1>2, <1>4
  <2> QED  BY <1>3, <1>4, <2>1
<1>11. FirstElement(m, all, now)
  <2>1. CASE root = Null
    <3>1. \A i \in 1 .. L : nodes[kids[i]].type # "element"
      BY <2>1 DEF TopList, FirstElement, L
    <3>2. \A i \in 1 .. L : m[all[i]].type # "element"
      BY <1>3, <1>4, <3>1
    <3>3. CASE node.type = "element"
      <4>1. now = n /\ n # Null /\ L + 1 \in 1 .. Len(all)
        BY <1>2, <1>4, <2>1, <3>3 DEF Null
      <4>2. \A j \in 1 .. (L + 1) - 1 : m[all[j]].type # "element"
        BY <1>2, <3>2
      <4> QED  BY <1>1, <1>4, <3>3, <4>1, <4>2 DEF FirstElement
    <3>4. CASE node.type # "element"
      <4>1. \A i \in 1 .. Len(all) : i \in 1 .. L \/ i = L + 1
        BY <1>2, <1>4
      <4> QED  BY <1>1, <1>4, <2>1, <3>2, <3>4, <4>1 DEF FirstElement
    <3> QED  BY <3>3, <3>4
  <2>2. CASE root # Null
    <3>1. PICK i \in 1 .. L :
            /\ kids[i] = root /\ nodes[kids[i]].type = "element"
            /\ \A j \in 1 .. i - 1 : nodes[kids[j]].type # "element"
      BY <2>2 DEF TopList, FirstElement, L
    <3>2. i \in 1 .. Len(all) /\ \A j \in 1 .. i - 1 : j \in 1 .. L
      BY <1>2, <1>4
    <3>3. \A j \in 1 .. i - 1 : m[all[j]].type # "element"
      BY <1>3, <1>4, <3>1, <3>2
    <3> QED  BY <1>3, <1>4, <2>2, <3>1, <3>2, <3>3 DEF FirstElement
  <2> QED  BY <2>1, <2>2
<1>12. TopList(m, after, now, all)
  BY <1>7, <1>8, <1>9, <1>10, <1>11 DEF TopList
<1> QED  BY <1>12 DEF all

\* The links of the n nodes of two arrays, field by field.
Linked(m, nodes, n, owner, first, last) ==
  \A i \in 0 .. n - 1 :
    /\ m[i].next_sibling = IF last # Null /\ i = last THEN n ELSE nodes[i].next_sibling
    /\ m[i].first_child = IF last = Null /\ i = owner /\ first = "first_child"
                          THEN n ELSE nodes[i].first_child

LEMMA ExtendsFields ==
  ASSUME NEW n \in Nat, NEW nodes \in [0 .. n - 1 -> NodeType], NEW m, NEW node, NEW owner,
         NEW first \in {"first_child", "first_attr"}, NEW last,
         Extends(m, nodes, n, node, owner, first, last)
  PROVE  Linked(m, nodes, n, owner, first, last)
<1>1. /\ m \in [0 .. n -> NodeType]
      /\ \A i \in 0 .. n - 1 : i \in 0 .. n
  BY DEF Extends
<1>2. \A i \in 0 .. n : /\ m[i]["next_sibling"] = m[i].next_sibling
                        /\ m[i]["first_child"] = m[i].first_child
  BY <1>1 DEF NodeType
<1>3. \A i \in 0 .. n - 1 : /\ nodes[i]["next_sibling"] = nodes[i].next_sibling
                            /\ nodes[i]["first_child"] = nodes[i].first_child
  BY DEF NodeType
<1> QED  BY <1>1, <1>2, <1>3 DEF Extends, Links, Linked

\* No kid lies behind the last one, and no kid is an attribute.
LEMMA KidsBefore ==
  ASSUME NEW d, Typed(d), StackInv(d), NEW kids, TopList(d.nodes, d.stack[1], d.root, kids),
         NEW i \in 1 .. Len(kids)
  PROVE  /\ kids[i] \in 0 .. d.count - 1 /\ kids[i] <= d.stack[1].last
         /\ d.nodes[kids[i]].type # "attribute"
<1>1. kids \in Seq(DOMAIN d.nodes \ {Null}) /\ Len(kids) \in Nat /\ DOMAIN d.nodes = 0 .. d.count - 1
  BY LenProperties DEF TopList, IsChain, Typed
<1>2. \A j \in 1 .. Len(kids) : kids[j] \in 0 .. d.count - 1
  BY <1>1, ElementOfSeq
<1>3. kids # <<>> /\ Len(kids) \in 1 .. Len(kids) /\ d.stack[1].last = kids[Len(kids)]
  BY <1>1, EmptySeq DEF TopList
<1>4. i = Len(kids) \/ kids[i] < kids[Len(kids)]
  BY <1>1 DEF TopList
<1>5. kids[i] \in Int /\ kids[Len(kids)] \in Int
  BY <1>2, <1>3
<1> QED  BY <1>2, <1>3, <1>4, <1>5 DEF TopList

\* A new child of the innermost open element.
LEMMA ChildTop ==
  ASSUME NEW d, Typed(d), StackInv(d), TopInv(d), NEW node, node.type # "attribute",
         NEW p, ChildAdded(d, p, node),
         NEW q, q.nodes = p.nodes, q.stack = p.stack,
         q.root = IF Len(d.stack) = 1 /\ d.root = Null /\ node.type = "element"
                  THEN d.count ELSE d.root
  PROVE  TopInv(q)
<1> DEFINE n == d.count
           t == Len(d.stack)
<1>1. /\ n \in Nat /\ n >= 2 /\ d.nodes \in [0 .. n - 1 -> NodeType]
      /\ t \in Nat /\ t >= 1 /\ d.root \in Nat /\ 1 \in 1 .. t /\ t \in 1 .. t
  BY StackAssumption DEF Typed
<1>2. PICK kids : TopList(d.nodes, d.stack[1], d.root, kids)
  BY DEF TopInv
<1>3. Extends(q.nodes, d.nodes, n, node, d.stack[t].node, "first_child", d.stack[t].last)
  BY DEF ChildAdded, Top
<1>4. CASE t = 1
  <2>1. q.stack[1].node = d.stack[1].node /\ q.stack[1].last = n
    BY <1>1, <1>4 DEF ChildAdded, SameButLast
  <2>2. TopList(q.nodes, q.stack[1], IF d.root = Null /\ node.type = "element" THEN n ELSE d.root,
                 Append(kids, n))
    <3>1. Extends(q.nodes, d.nodes, n, node, d.stack[1].node, "first_child", d.stack[1].last)
      BY <1>3, <1>4
    <3> DEFINE entry == d.stack[1]
               after == q.stack[1]
    <3>2. /\ TopList(d.nodes, entry, d.root, kids) /\ after.node = entry.node /\ after.last = n
          /\ Extends(q.nodes, d.nodes, n, node, entry.node, "first_child", entry.last)
      BY <1>2, <2>1, <3>1
    <3> HIDE DEF n, t, entry, after
    <3>3. TopList(q.nodes, after, IF d.root = Null /\ node.type = "element" THEN n ELSE d.root,
                   Append(kids, n))
      BY <1>1, <3>2, TopAdded
    <3> QED  BY <3>3 DEF after
  <2>3. q.root = IF d.root = Null /\ node.type = "element" THEN n ELSE d.root
    BY <1>4
  <2> QED  BY <2>2, <2>3 DEF TopInv
<1>5. CASE t # 1
  <2>0. 1 < t /\ 1 \in 1 .. t - 1
    <3> HIDE DEF t
    <3> QED  BY <1>1, <1>5
  <2>1. q.stack[1] = d.stack[1] /\ q.root = d.root
    BY <1>5, <2>0 DEF ChildAdded, SameButLast
  <2>2. /\ d.stack[1].last # Null /\ d.stack[1].last <= d.stack[t].node
        /\ d.stack[1].last \in 0 .. n - 1 /\ d.stack[1].last > d.stack[1].node
        /\ d.stack[1].node = Document
        /\ d.stack[t].node \in 1 .. n - 1 /\ d.stack[t].last \in 0 .. n - 1
        /\ d.stack[t].last # Null => d.stack[t].last > d.stack[t].node
    BY <1>1, <1>2, <2>0 DEF StackInv, TopList
  <2> DEFINE owner == d.stack[t].node
             last == d.stack[t].last
             end == d.stack[1].last
  <2>3. /\ end # Null /\ end <= owner /\ end \in Int /\ end > Document
        /\ owner \in Int /\ last \in Int /\ (last # Null => last > owner)
    BY <2>2 DEF Document
  <2>4. \A i \in 0 .. n - 1 :
          /\ q.nodes[i].next_sibling = IF last # Null /\ i = last THEN n ELSE d.nodes[i].next_sibling
          /\ q.nodes[i].first_child = IF last = Null /\ i = owner THEN n ELSE d.nodes[i].first_child
    <3>1. Extends(q.nodes, d.nodes, n, node, owner, "first_child", last)
      BY <1>3
    <3> HIDE DEF n, owner, last
    <3>2. Linked(q.nodes, d.nodes, n, owner, "first_child", last)
      BY <1>1, <3>1, ExtendsFields
    <3> QED  BY <3>2 DEF Linked
  <2>5. \A i \in 1 .. Len(kids) : kids[i] \in 0 .. n - 1 /\ kids[i] <= end
    BY <1>2, KidsBefore
  <2> HIDE DEF owner, last, end
  <2>6. q.nodes[Document].first_child = d.nodes[Document].first_child
    <3>1. Document \in 0 .. n - 1 /\ Document # owner
      BY <1>1, <2>3 DEF Document
    <3> QED  BY <2>4, <3>1
  <2>7. ASSUME NEW i \in 1 .. Len(kids)
        PROVE  q.nodes[kids[i]].next_sibling = d.nodes[kids[i]].next_sibling
    <3>1. kids[i] \in 0 .. n - 1 /\ kids[i] <= end
      BY <2>5
    <3>2. ~(last # Null /\ kids[i] = last)
      BY <2>3, <3>1
    <3> QED  BY <2>4, <3>1, <3>2
  <2>8. TopList(q.nodes, d.stack[1], d.root, kids)
    <3> HIDE DEF n
    <3> QED  BY <1>1, <1>2, <1>3, <2>6, <2>7, TopKept
  <2> QED  BY <2>1, <2>8 DEF TopInv
<1> QED  BY <1>4, <1>5

\* A new attribute: its chain has no kid of the document.
LEMMA AttributeTop ==
  ASSUME NEW d, Inv(d), TopInv(d), NEW q, NEW i, NEW tok, NEW val,
         AttributeAdded(d, q, i, tok, val)
  PROVE  TopInv(q)
<1> DEFINE n == d.count
           node == NewNode("attribute", i, val)
           last == d.last_attr
<1>1. /\ n \in Nat /\ n >= 2 /\ d.nodes \in [0 .. n - 1 -> NodeType]
  BY DEF Inv, Typed
<1>2. PICK kids : TopList(d.nodes, d.stack[1], d.root, kids)
  BY DEF TopInv
<1>3. Extends(q.nodes, d.nodes, n, node, d.elem, "first_attr", last)
  BY DEF AttributeAdded
<1>4. q.stack = d.stack /\ q.root = d.root
  BY DEF AttributeAdded, Inv, Typed
<1>5. last # Null => d.nodes[last].type = "attribute"
  BY DEF Inv, AttrInv
<1> HIDE DEF node, last, n
<1>6. \A k \in 0 .. n - 1 :
        /\ q.nodes[k].next_sibling = IF last # Null /\ k = last THEN n ELSE d.nodes[k].next_sibling
        /\ q.nodes[k].first_child = d.nodes[k].first_child
  <2>1. Linked(q.nodes, d.nodes, n, d.elem, "first_attr", last)
    BY <1>1, <1>3, ExtendsFields
  <2> QED  BY <2>1 DEF Linked
<1>7. q.nodes[Document].first_child = d.nodes[Document].first_child
  BY <1>1, <1>6 DEF Document
<1>8. \A k \in 1 .. Len(kids) : q.nodes[kids[k]].next_sibling = d.nodes[kids[k]].next_sibling
  BY <1>2, <1>5, <1>6, KidsBefore DEF Inv, n
<1>9. TopList(q.nodes, d.stack[1], d.root, kids)
  BY <1>1, <1>2, <1>3, <1>7, <1>8, TopKept
<1> QED  BY <1>4, <1>9 DEF TopInv

LEMMA TextTop ==
  ASSUME NEW d, Inv(d), TopInv(d), NEW i \in Nat, NEW tok \in Token
  PROVE  TopInv(AddText(d, i, tok))
<1> DEFINE node == NewNode("text", i, [in_values |-> TRUE, offset |-> Len(d.values),
                                       len |-> Clamped(tok.w)])
           p == PutChild(d, node)
           q == [p EXCEPT !.values = @ \o Bytes(i, tok.w)]
<1>1. Fresh(node) /\ node.type = "text"
  <2>1. tok.w \in Nat /\ Clamped(tok.w) \in Nat
    BY ClampedType DEF Token
  <2>2. Len(d.values) \in Nat
    BY LenProperties DEF Inv, Typed
  <2> QED  BY <2>1, <2>2 DEF NewNode, Fresh, NodeType, Value, Links, Null
<1> HIDE DEF node
<1>2. ChildAdded(d, p, node)
  BY <1>1, PutChildAdds DEF Inv
<1> HIDE DEF p
<1>3. q.nodes = p.nodes /\ q.stack = p.stack /\ q.root = d.root
  BY <1>2 DEF ChildAdded, Inv, Typed
<1> HIDE DEF q
<1>4. TopInv(q)
  BY <1>1, <1>2, <1>3, ChildTop DEF Inv
<1> QED  BY <1>4 DEF AddText, q, p, node

LEMMA ElementTop ==
  ASSUME NEW d, Inv(d), TopInv(d), NEW i \in Nat
  PROVE  TopInv(AddElement(d, i))
<1> DEFINE node == NewNode("element", i, NoValue)
           p == PutChild(d, node)
           q == [p EXCEPT !.elem = d.count, !.last_attr = Null, !.root = RootAfter(d)]
<1>1. Fresh(node) /\ node.type = "element"
  BY DEF NewNode, Fresh, NodeType, NoValue, Value, Links, Null
<1> HIDE DEF node
<1>2. ChildAdded(d, p, node)
  BY <1>1, PutChildAdds DEF Inv
<1> HIDE DEF p
<1>3. q.nodes = p.nodes /\ q.stack = p.stack /\ q.root = RootAfter(d)
  BY <1>2 DEF ChildAdded, Inv, Typed
<1> HIDE DEF q
<1>4. TopInv(q)
  BY <1>1, <1>2, <1>3, ChildTop DEF Inv, RootAfter
<1> QED  BY <1>4 DEF AddElement, q, p, node

LEMMA StackTop ==
  ASSUME NEW d, Inv(d), TopInv(d), NEW tok
  PROVE  TopInv(EndOfTag(d, tok)) /\ TopInv(CloseElement(d))
<1>1. \A st : st[1] = d.stack[1] => TopInv([d EXCEPT !.stack = st])
  BY DEF TopInv, Inv, Typed
<1>2. d.stack \in Seq(Entry) /\ Len(d.stack) \in Nat /\ Len(d.stack) >= 1
  BY LenProperties, StackAssumption DEF Inv, Typed
<1>3. Pushed(d.stack, d.elem)[1] = d.stack[1]
  <2>1. [node |-> d.elem, last |-> Null] \in Entry
    BY DEF Inv, Typed, Entry, Null
  <2>2. Append(d.stack, [node |-> d.elem, last |-> Null])[1] = d.stack[1]
    BY <1>2, <2>1, AppendProperties
  <2> QED  BY <2>2 DEF Pushed
<1>4. Len(d.stack) > 1 => Front(d.stack)[1] = d.stack[1]
  BY <1>2, SubSeqProperties DEF Front
<1> QED  BY <1>1, <1>3, <1>4 DEF EndOfTag, CloseElement

LEMMA InitTop == Init => TopInv(dom)
<1> SUFFICES ASSUME NEW fs PROVE TopInv(EmptyDom(fs))
  BY DEF Init
<1> DEFINE d == EmptyDom(fs)
<1>1. /\ d.nodes = FirstNodes(NoValue) /\ d.root = Null
      /\ d.stack = <<[node |-> Document, last |-> Null]>>
  BY DEF EmptyDom
<1>2. d.nodes[Document].first_child = Null
  BY <1>1 DEF FirstNodes, NewNode, Null, Document
<1>3. d.stack[1].node = Document /\ d.stack[1].last = Null
  BY <1>1
<1> HIDE DEF d
<1>4. TopList(d.nodes, d.stack[1], d.root, <<>>)
  BY <1>1, <1>2, <1>3 DEF TopList, IsChain, FirstElement
<1> QED  BY <1>4 DEF TopInv, d

LEMMA NextTop == IInv /\ TopInv(dom) /\ [Next]_vars => TopInv(dom)'
<1> SUFFICES ASSUME IInv, TopInv(dom), [Next]_vars
             PROVE  TopInv(dom')
  OBVIOUS
<1>1. doc \in Seq(Token) /\ Len(doc) \in Nat /\ Inv(dom)
  BY DocsAssumption, LenProperties DEF IInv
<1>2. CASE UNCHANGED vars
  BY <1>2 DEF vars
<1>3. ASSUME pos <= Len(doc) PROVE doc[pos] \in Token /\ pos \in Nat
  BY <1>1, <1>3, TokenIs DEF IInv
<1>4. CASE ReadText
  <2>1. pos <= Len(doc) /\ dom' = AddText(dom, pos, doc[pos])
    BY <1>4 DEF ReadText, Reading, Becomes
  <2> QED  BY <1>1, <1>3, <2>1, TextTop
<1>5. CASE ReadOpen
  <2>1. pos <= Len(doc) /\ dom' = AddElement(dom, pos)
    BY <1>5 DEF ReadOpen, Reading, Becomes
  <2> QED  BY <1>1, <1>3, <2>1, ElementTop
<1>6. CASE ReadAttribute
  <2>1. pos <= Len(doc) /\ dom' = AddAttribute(dom, 1, pos, doc[pos])
    BY <1>6 DEF ReadAttribute, Reading, Becomes
  <2>2. CASE "NO_ATTRS" \in dom.flags
    BY <2>1, <2>2 DEF AddAttribute
  <2>3. CASE "NO_ATTRS" \notin dom.flags
    <3>1. doc[pos].w \in Nat /\ pos \in Nat
      BY <1>3, <2>1 DEF Token
    <3>2. AttributeAdded(dom, dom', pos, doc[pos], AttrValue(dom, 1, pos, doc[pos]))
      BY <1>1, <1>3, <2>1, <2>3, <3>1, AddAttributeAdds
    <3> QED  BY <1>1, <3>2, AttributeTop
  <2> QED  BY <2>2, <2>3
<1>7. CASE ReadEndOfTag \/ ReadEndTag
  <2>1. dom' = EndOfTag(dom, doc[pos]) \/ dom' = CloseElement(dom)
    BY <1>7 DEF ReadEndOfTag, ReadEndTag, Reading, Becomes
  <2> QED  BY <1>1, <2>1, StackTop
<1>8. CASE ReadOther
  BY <1>8 DEF ReadOther, Becomes
<1> QED  BY <1>2, <1>4, <1>5, <1>6, <1>7, <1>8 DEF Next

-----------------------------------------------------------------------------
(* The theorems.                                                           *)

\* Throughout any parse the state has its type: indices in bounds of a growing
\* array, at least the document on the stack, at most MaxStack entries.
THEOREM TypeCorrect == Spec => []TypeOK
<1>1. IInv => TypeOK
  BY DocsAssumption DEF IInv, Inv, Typed, TypeOK, Entry
<1> QED  BY <1>1, InitInv, NextInv, PTL DEF Spec

\* Whatever tokens come, the array that fast_dom_parse links is one tree: every
\* link leads forward and in bounds, and each node is linked exactly once.
THEOREM TreeCorrect == Spec => []DomIsTree
<1>1. IInv => DomIsTree
  BY DEF IInv, Inv, DomIsTree
<1> QED  BY <1>1, InitInv, NextInv, PTL DEF Spec

\* value() of every text and attribute node is what the input has at its token, cut to
\* what value_len holds, in whichever of the two storages it lies (dom_fast.hpp).
THEOREM ValuesCorrect == Spec => []ValuesAreTheInputs
<1>1. IInv /\ ValuesInv(doc, 1, dom) => ValuesAreTheInputs
  <2> SUFFICES ASSUME IInv, ValuesInv(doc, 1, dom), NEW k \in DOMAIN dom.nodes,
                      dom.nodes[k].type \in {"text", "attribute"}
               PROVE  ValueOf(dom, 1, dom.nodes[k])
                        = Bytes(dom.nodes[k].at, Min({doc[dom.nodes[k].at].w, MaxLen}))
    BY DEF ValuesAreTheInputs
  <2>1. /\ doc \in Seq(Token) /\ dom.values \in Seq(Nat \X Nat)
        /\ dom.nodes[k] \in NodeType /\ k \in 0 .. dom.count - 1
    BY DocsAssumption DEF IInv, Inv, Typed
  <2>2. Sound(doc, 1, dom.values, dom.nodes[k])
    BY <2>1 DEF ValuesInv
  <2> QED  BY <2>1, <2>2, SoundIsRead
<1> QED  BY <1>1, InitInv, NextInv, InitValues, NextValues, PTL DEF Spec

\* root() is the first element of the document, or none: whatever comes before and
\* after it, and however deep the stack (root_idx of fast_dom_parse).
THEOREM RootCorrect == Spec => []RootIsFirst
<1>1. IInv /\ TopInv(dom) => RootIsFirst
  <2> SUFFICES ASSUME IInv, TopInv(dom) PROVE RootIsFirst
    OBVIOUS
  <2>1. PICK kids : TopList(dom.nodes, dom.stack[1], dom.root, kids)
    BY DEF TopInv
  <2>2. /\ dom.count \in Nat /\ dom.count # 0
        /\ DOMAIN dom.nodes = 0 .. dom.count - 1 /\ dom.nodes \in [0 .. dom.count - 1 -> NodeType]
    BY DEF IInv, Inv, Typed
  <2>3. Forward(dom.nodes, dom.count)
    <3>1. ASSUME NEW i \in 0 .. dom.count - 1
          PROVE  \/ dom.nodes[i].next_sibling = Null
                 \/ dom.nodes[i].next_sibling \in i + 1 .. dom.count - 1
      <4>1. dom.nodes[i]["next_sibling"] = dom.nodes[i].next_sibling
        BY <2>2 DEF NodeType
      <4>2. \/ dom.nodes[i].next_sibling = Null
            \/ dom.nodes[i].next_sibling > i /\ dom.nodes[i].next_sibling \in 0 .. dom.count - 1
        BY <2>2, <4>1 DEF IInv, Inv, TreeShaped, LinksForward, Links
      <4> QED  BY <2>2, <4>2
    <3> QED  BY <2>2, <3>1 DEF Forward
  <2>4. Kids(dom.nodes, Document) = kids
    BY <2>1, <2>2, <2>3, ChainIs DEF Kids, TopList
  <2> QED  BY <2>1, <2>4 DEF RootIsFirst, TopList, FirstElement
<1> QED  BY <1>1, InitInv, NextInv, InitTop, NextTop, PTL DEF Spec

-----------------------------------------------------------------------------
(* The parse of a part of the input.                                       *)

RootInv(d) == d.root = Null \/ d.root \in 2 .. d.count - 1

Doms == [nodes : UNION {[0 .. n - 1 -> NodeType] : n \in Nat}, count : Nat,
         values : Seq(Nat \X Nat), stack : Seq(Entry),
         root : Nat, elem : Nat, last_attr : Nat, flags : SUBSET Flags]

LEMMA TypedDoms ==
  ASSUME NEW d, Typed(d)
  PROVE  d \in Doms
<1>1. d.count \in Nat /\ d.nodes \in [0 .. d.count - 1 -> NodeType]
  BY DEF Typed
<1>2. d.nodes \in UNION {[0 .. n - 1 -> NodeType] : n \in Nat}
  BY <1>1
<1> QED  BY <1>1, <1>2 DEF Typed, Doms

\* The count and the root after a new node.
LEMMA PutChildRoot ==
  ASSUME NEW d, Inv(d), NEW node, Fresh(node), node.type # "attribute"
  PROVE  PutChild(d, node).count = d.count + 1 /\ PutChild(d, node).root = d.root
<1>1. ChildAdded(d, PutChild(d, node), node)
  BY PutChildAdds DEF Inv
<1> DEFINE p == PutChild(d, node)
<1> HIDE DEF p
<1>2. p = [d EXCEPT !.nodes = p.nodes, !.count = p.count, !.stack = p.stack] /\ p.count = d.count + 1
  BY <1>1 DEF ChildAdded, p
<1>3. p.root = d.root
  BY <1>2 DEF Inv, Typed
<1> QED  BY <1>2, <1>3 DEF p

\* What a text, an element and an attribute do to them.
LEMMA NodeRoot ==
  ASSUME NEW d, Inv(d), RootInv(d), NEW s \in Int, NEW i \in Nat, NEW tok \in Token
  PROVE  /\ RootInv(AddText(d, i, tok)) /\ RootInv(AddElement(d, i))
         /\ TagInv(d) => RootInv(AddAttribute(d, s, i, tok))
<1>1. d.count \in Nat \ {0, 1}
  BY DEF Inv, Typed
<1>2. RootInv(AddText(d, i, tok))
  <2>1. CASE "NO_TEXT" \in d.flags
    BY <2>1 DEF AddText
  <2>2. CASE "NO_TEXT" \notin d.flags
    <3> DEFINE node == NewNode("text", i, [in_values |-> TRUE, offset |-> Len(d.values),
                                           len |-> Clamped(tok.w)])
               p == PutChild(d, node)
    <3>1. Fresh(node) /\ node.type # "attribute"
      <4>1. tok.w \in Nat /\ Clamped(tok.w) \in Nat
        BY ClampedType DEF Token
      <4>2. Len(d.values) \in Nat
        BY LenProperties DEF Inv, Typed
      <4> QED  BY <4>1, <4>2 DEF NewNode, Fresh, NodeType, Value, Links, Null
    <3> HIDE DEF node
    <3>2. p.count = d.count + 1 /\ p.root = d.root
      BY <3>1, PutChildRoot
    <3>3. Typed(p)
      BY <3>1, PutChildInv DEF Inv
    <3>4. AddText(d, i, tok) = [p EXCEPT !.values = @ \o Bytes(i, tok.w)]
      BY <2>2 DEF AddText, node
    <3> HIDE DEF p
    <3>5. AddText(d, i, tok).count = p.count /\ AddText(d, i, tok).root = p.root
      BY <3>3, <3>4 DEF Typed
    <3> QED  BY <1>1, <3>2, <3>5 DEF RootInv
  <2> QED  BY <2>1, <2>2
<1>3. RootInv(AddElement(d, i))
  <2> DEFINE node == NewNode("element", i, NoValue)
             p == PutChild(d, node)
  <2>1. Fresh(node) /\ node.type # "attribute"
    BY DEF NewNode, Fresh, NodeType, NoValue, Value, Links, Null
  <2> HIDE DEF node
  <2>2. p.count = d.count + 1 /\ p.root = d.root
    BY <2>1, PutChildRoot
  <2>3. Typed(p)
    BY <2>1, PutChildInv DEF Inv
  <2>4. AddElement(d, i) = [p EXCEPT !.elem = d.count, !.last_attr = Null, !.root = RootAfter(d)]
    BY DEF AddElement, node
  <2> HIDE DEF p
  <2>5. AddElement(d, i).count = p.count /\ AddElement(d, i).root = RootAfter(d)
    BY <2>3, <2>4 DEF Typed
  <2> QED  BY <1>1, <2>2, <2>5 DEF RootInv, RootAfter
<1>4. ASSUME TagInv(d) PROVE RootInv(AddAttribute(d, s, i, tok))
  <2>1. CASE "NO_ATTRS" \in d.flags
    BY <2>1 DEF AddAttribute
  <2>2. CASE "NO_ATTRS" \notin d.flags
    <3> DEFINE q == AddAttribute(d, s, i, tok)
    <3>1. q.count = d.count + 1 /\ q.root = d.root
      BY <2>2 DEF AddAttribute, Inv, Typed
    <3> HIDE DEF q
    <3>2. RootInv(q)
      BY <1>1, <3>1 DEF RootInv
    <3> QED  BY <3>2 DEF q
  <2> QED  BY <2>1, <2>2
<1> QED  BY <1>2, <1>3, <1>4

\* One token more, at any place of the input.
LEMMA TokenParsed ==
  ASSUME NEW d, Inv(d), RootInv(d), NEW s \in Int, NEW i \in Nat, NEW tok \in Token,
         tok.kind \in {"attr", "gt", "sgt"} => TagInv(d)
  PROVE  LET q == ParseToken(d, s, i, tok) IN
         Inv(q) /\ RootInv(q) /\ (tok.kind \in {"open", "attr"} => TagInv(q))
<1> DEFINE q == ParseToken(d, s, i, tok)
<1>1. tok.kind \in {"open", "attr", "gt", "sgt", "end", "text", "skip"}
  BY DEF Token
<1>2. CASE tok.kind = "text"
  <2>1. q = AddText(d, i, tok)
    BY <1>2 DEF ParseToken
  <2> QED  BY <1>2, <2>1, AddTextInv, NodeRoot
<1>3. CASE tok.kind = "open"
  <2>1. q = AddElement(d, i)
    BY <1>3 DEF ParseToken
  <2> QED  BY <1>3, <2>1, AddElementInv, NodeRoot
<1>4. CASE tok.kind = "attr"
  <2>1. q = AddAttribute(d, s, i, tok)
    BY <1>4 DEF ParseToken
  <2> QED  BY <1>4, <2>1, AddAttributeInv, NodeRoot
<1>5. CASE tok.kind \in {"gt", "sgt"}
  <2>1. q = EndOfTag(d, tok)
    BY <1>5 DEF ParseToken
  <2>2. Inv(q)
    BY <1>5, <2>1, Push
  <2>3. q.root = d.root /\ q.count = d.count
    BY <2>1 DEF EndOfTag, Inv, Typed
  <2> HIDE DEF q
  <2>4. RootInv(q)
    BY <2>3 DEF RootInv
  <2> QED  BY <1>5, <2>2, <2>4 DEF q
<1>6. CASE tok.kind = "end"
  <2>1. q = CloseElement(d)
    BY <1>6 DEF ParseToken
  <2>2. Inv(q)
    BY <2>1, Pop
  <2>3. q.root = d.root /\ q.count = d.count
    BY <2>1 DEF CloseElement, Inv, Typed
  <2> HIDE DEF q
  <2>4. RootInv(q)
    BY <2>3 DEF RootInv
  <2> QED  BY <1>6, <2>2, <2>4 DEF q
<1>7. CASE tok.kind = "skip"
  <2>1. q = d
    BY <1>7 DEF ParseToken
  <2> QED  BY <1>7, <2>1
<1> HIDE DEF q
<1> QED  BY <1>1, <1>2, <1>3, <1>4, <1>5, <1>6, <1>7 DEF q

LEMMA TokenValues ==
  ASSUME NEW dc \in Seq(Token), NEW s \in Nat, NEW d, Inv(d), ValuesInv(dc, s, d), NEW i \in 1 .. Len(dc)
  PROVE  ValuesInv(dc, s, ParseToken(d, s, i, dc[i]))
<1>1. dc[i].kind \in {"open", "attr", "gt", "sgt", "end", "text", "skip"}
  BY TokenIs DEF Token
<1>2. CASE dc[i].kind = "text"
  BY <1>2, TextValues DEF ParseToken
<1>3. CASE dc[i].kind = "open"
  BY <1>3, ElementValues DEF ParseToken
<1>4. CASE dc[i].kind = "attr"
  BY <1>4, AttributeValues DEF ParseToken
<1>5. CASE dc[i].kind \in {"gt", "sgt"}
  BY <1>5, OtherValues DEF ParseToken
<1>6. CASE dc[i].kind = "end"
  BY <1>6, OtherValues DEF ParseToken
<1>7. CASE dc[i].kind = "skip"
  BY <1>7 DEF ParseToken
<1> QED  BY <1>1, <1>2, <1>3, <1>4, <1>5, <1>6, <1>7

\* The tokens s .. e of d, with no tag cut.
IsPart(d, s, e) ==
  /\ d \in Seq(Token) /\ WellLexed(d)
  /\ s \in 1 .. Len(d) + 1 /\ e \in s - 1 .. Len(d)
  /\ ~InTag(d, s)

\* A well-formed result of a parse.
IsTree(p) == p.count \in Nat \ {0, 1} /\ Typed(p) /\ TreeShaped(p.nodes) /\ RootInv(p)

\* f goes through the states of the parse of a part, token by token.
GoesThrough(f, fs, d, s, n) ==
  /\ f[0] = EmptyDom(fs) /\ DOMAIN f = 0 .. n
  /\ \A k \in 0 .. n : /\ Inv(f[k]) /\ RootInv(f[k]) /\ ValuesInv(d, s, f[k])
                       /\ InTag(d, s + k) => TagInv(f[k])
  /\ \A k \in 1 .. n : f[k] = ParseToken(f[k - 1], s, s + k - 1, d[s + k - 1])

LEMMA ParsedSteps ==
  ASSUME NEW fs \in SUBSET Flags, NEW d, NEW s, NEW e, IsPart(d, s, e)
  PROVE  \E f : GoesThrough(f, fs, d, s, e - s + 1) /\ Parsed(fs, d, s, e) = f[e - s + 1]
<1> DEFINE n == e - s + 1
           V == {a \in Doms : Inv(a) /\ RootInv(a) /\ ValuesInv(d, s, a)}
           v == EmptyDom(fs)
           After(a, k) == ParseToken(a, s, s + k - 1, d[s + k - 1])
           g == [x \in (1 .. n) \X V |-> IF After(x[2], x[1]) \in V THEN After(x[2], x[1]) ELSE v]
           Described(f) == f = [k \in 0 .. e - s + 1 |->
              IF k = 0 THEN EmptyDom(fs) ELSE ParseToken(f[k - 1], s, s + k - 1, d[s + k - 1])]
           doms == CHOOSE f : Described(f)
<1>1. /\ Len(d) \in Nat /\ s \in Nat \ {0} /\ e \in Int /\ n \in Nat
      /\ d \in [1 .. Len(d) -> Token]
      /\ \A k \in 1 .. n : s + k - 1 \in 1 .. Len(d) /\ s + k - 1 \in Nat
  <2>1. Len(d) \in Nat /\ d \in [1 .. Len(d) -> Token]
    BY LenProperties DEF IsPart
  <2> QED  BY <2>1 DEF IsPart
<1>2. v \in V
  <2>1. Inv(v)
    BY EmptyInv
  <2>2. RootInv(v)
    BY DEF RootInv, EmptyDom
  <2>3. ValuesInv(d, s, v)
    BY EmptyValues
  <2> HIDE DEF v
  <2> QED  BY <2>1, <2>2, <2>3, TypedDoms DEF Inv
<1> HIDE DEF v
<1>3. ASSUME NEW a, Inv(a), RootInv(a), ValuesInv(d, s, a), NEW k \in 1 .. n,
             InTag(d, s + k - 1) => TagInv(a)
      PROVE  After(a, k) \in V /\ (InTag(d, s + k) => TagInv(After(a, k)))
  <2> DEFINE i == s + k - 1
             tok == d[i]
             q == ParseToken(a, s, i, tok)
  <2>1. i \in 1 .. Len(d) /\ i \in Nat /\ tok \in Token /\ s \in Int
    BY <1>1
  <2>2. tok.kind \in {"attr", "gt", "sgt"} <=> InTag(d, i)
    BY <2>1 DEF IsPart, WellLexed
  <2>3. s + k > 1 /\ (s + k) - 1 = i
    BY <1>1
  <2>4. InTag(d, s + k) => tok.kind \in {"open", "attr"}
    BY <2>3 DEF InTag
  <2> HIDE DEF i, tok
  <2>5. Inv(q) /\ RootInv(q) /\ (tok.kind \in {"open", "attr"} => TagInv(q))
    BY <2>1, <2>2, <1>3, TokenParsed DEF i
  <2>6. q \in Doms
    BY <2>5, TypedDoms DEF Inv
  <2>7. ValuesInv(d, s, q)
    BY <1>1, <1>3, <2>1, TokenValues DEF IsPart, i, tok
  <2> HIDE DEF q
  <2>8. q \in V /\ (InTag(d, s + k) => TagInv(q))
    BY <2>4, <2>5, <2>6, <2>7
  <2> QED  BY <2>8 DEF q, i, tok
<1> HIDE DEF After
<1>4. /\ g \in [(1 .. n) \X V -> V]
      /\ \A k \in 1 .. n : \A a \in V : g[<<k, a>>] = IF After(a, k) \in V THEN After(a, k) ELSE v
  <2> HIDE DEF V, n
  <2> QED  BY <1>2
<1> HIDE DEF g
<1>5. PICK f \in [0 .. n -> V] : f[0] = v /\ \A k \in 1 .. n : f[k] = g[<<k, f[k - 1]>>]
  <2> HIDE DEF V, n
  <2>1. \E f \in [0 .. n -> V] : GoesBy(f, n, v, g)
    BY <1>1, <1>2, <1>4, StepByStep
  <2> QED  BY <2>1 DEF GoesBy
<1> DEFINE S == {k \in 0 .. n : /\ k # 0 => f[k] = After(f[k - 1], k)
                                /\ InTag(d, s + k) => TagInv(f[k])}
<1>6. 0 \in S
  <2>1. 0 \in 0 .. n /\ s + 0 = s
    BY <1>1
  <2> QED  BY <2>1 DEF IsPart
<1>7. ASSUME NEW k \in 0 .. n - 1, k \in S PROVE k + 1 \in S
  <2>1. k + 1 \in 1 .. n /\ k + 1 \in 0 .. n /\ (k + 1) - 1 = k /\ k \in 0 .. n /\ s + (k + 1) - 1 = s + k
    BY <1>1
  <2>2. f[k] \in V
    BY <1>5, <2>1
  <2>3. /\ Inv(f[k]) /\ RootInv(f[k]) /\ ValuesInv(d, s, f[k])
        /\ InTag(d, s + (k + 1) - 1) => TagInv(f[k])
    BY <1>7, <2>1, <2>2
  <2> DEFINE k1 == k + 1
  <2> HIDE DEF V
  <2>4. After(f[k], k + 1) \in V /\ (InTag(d, s + (k + 1)) => TagInv(After(f[k], k + 1)))
    BY <1>3, <2>1, <2>3
  <2>5. f[k + 1] = After(f[k], k + 1)
    BY <1>4, <1>5, <2>1, <2>2, <2>4
  <2> QED  BY <2>1, <2>4, <2>5
<1>8. \A k \in 0 .. n : k \in S
  <2> HIDE DEF S
  <2> QED  BY <1>1, <1>6, <1>7, CountsTo
<1>9. f = [k \in 0 .. n |-> IF k = 0 THEN v ELSE After(f[k - 1], k)]
  <2>1. \A k \in 0 .. n : f[k] = IF k = 0 THEN v ELSE After(f[k - 1], k)
    BY <1>5, <1>8
  <2> HIDE DEF V
  <2>2. f = [k \in 0 .. n |-> f[k]]
    BY <1>5
  <2> QED  BY <2>1, <2>2
<1>10. \A h : Described(h) <=> h = [k \in 0 .. n |-> IF k = 0 THEN v ELSE After(h[k - 1], k)]
  BY DEF v, After
<1>11. Parsed(fs, d, s, e) = doms[n]
  BY DEF Parsed
<1> HIDE DEF Described, S, V
<1>12. doms = [k \in 0 .. n |-> IF k = 0 THEN v ELSE After(doms[k - 1], k)]
  BY <1>9, <1>10
<1> HIDE DEF doms
<1> DEFINE T == {k \in 0 .. n : doms[k] = f[k]}
<1>13. 0 \in T
  <2>1. 0 \in 0 .. n
    BY <1>1
  <2> QED  BY <2>1, <1>5, <1>12
<1>14. ASSUME NEW k \in 0 .. n - 1, k \in T PROVE k + 1 \in T
  <2>1. k + 1 \in 0 .. n /\ k + 1 # 0 /\ (k + 1) - 1 = k
    BY <1>1
  <2>2. doms[k + 1] = After(doms[k], k + 1) /\ f[k + 1] = After(f[k], k + 1)
    BY <1>9, <1>12, <2>1
  <2> QED  BY <1>14, <2>1, <2>2
<1>15. n \in T
  <2> HIDE DEF T
  <2>1. \A k \in 0 .. n : k \in T
    BY <1>1, <1>13, <1>14, CountsTo
  <2>2. n \in 0 .. n
    BY <1>1
  <2> QED  BY <2>1, <2>2
<1>16. Parsed(fs, d, s, e) = f[n]
  BY <1>11, <1>15 DEF T
<1>17. GoesThrough(f, fs, d, s, n)
  <2>1. f[0] = EmptyDom(fs) /\ DOMAIN f = 0 .. n
    BY <1>5 DEF v
  <2>2. ASSUME NEW k \in 0 .. n
        PROVE  /\ Inv(f[k]) /\ RootInv(f[k]) /\ ValuesInv(d, s, f[k])
               /\ InTag(d, s + k) => TagInv(f[k])
    <3>1. f[k] \in V /\ k \in S
      BY <1>5, <1>8
    <3> QED  BY <3>1 DEF S, V
  <2>3. ASSUME NEW k \in 1 .. n
        PROVE  f[k] = ParseToken(f[k - 1], s, s + k - 1, d[s + k - 1])
    <3>1. k \in 0 .. n /\ k # 0
      BY <1>1
    <3>2. f[k] = After(f[k - 1], k)
      BY <1>9, <3>1
    <3> QED  BY <3>2 DEF After
  <2> HIDE DEF n
  <2> QED  BY <2>1, <2>2, <2>3 DEF GoesThrough
<1> HIDE DEF T, Described
<1> QED  BY <1>16, <1>17 DEF n

\* The parse of a part is a tree, with the values of that part.
LEMMA ParsedTree ==
  ASSUME NEW fs \in SUBSET Flags, NEW d, NEW s, NEW e, IsPart(d, s, e)
  PROVE  IsTree(Parsed(fs, d, s, e)) /\ ValuesInv(d, s, Parsed(fs, d, s, e))
<1> DEFINE n == e - s + 1
<1>1. PICK f : GoesThrough(f, fs, d, s, n) /\ Parsed(fs, d, s, e) = f[n]
  BY ParsedSteps
<1>2. n \in 0 .. n
  <2>1. Len(d) \in Nat
    BY LenProperties DEF IsPart
  <2> QED  BY <2>1 DEF IsPart
<1> HIDE DEF n
<1>3. Inv(f[n]) /\ RootInv(f[n]) /\ ValuesInv(d, s, f[n])
  BY <1>1, <1>2 DEF GoesThrough
<1> QED  BY <1>1, <1>3 DEF IsTree, Inv, Typed

-----------------------------------------------------------------------------
(* The split points.                                                       *)

ScanState == [depth : Int, in_tag : BOOLEAN, next_target : Int, points : Seq(Nat)]

\* Ends of tags among the first n tokens, in ascending order.
Cuts(d, ps, n) ==
  /\ ps \in Seq(Nat)
  /\ \A k \in 1 .. Len(ps) : ps[k] \in 1 .. n /\ d[ps[k]].kind = "end"
  /\ \A j, k \in 1 .. Len(ps) : j < k => ps[j] < ps[k]

\* One field of the pre-scan's state is changed.
LEMMA ScanField ==
  ASSUME NEW scan \in ScanState
  PROVE  /\ \A k \in Int : /\ [scan EXCEPT !.depth = k] \in ScanState
                           /\ [scan EXCEPT !.depth = k].points = scan.points
         /\ \A k \in Int : /\ [scan EXCEPT !.next_target = k] \in ScanState
                           /\ [scan EXCEPT !.next_target = k].points = scan.points
         /\ \A t \in BOOLEAN : /\ [scan EXCEPT !.in_tag = t] \in ScanState
                               /\ [scan EXCEPT !.in_tag = t].points = scan.points
         /\ \A ps \in Seq(Nat) : /\ [scan EXCEPT !.points = ps] \in ScanState
                                 /\ [scan EXCEPT !.points = ps].points = ps
         /\ scan.depth \in Int /\ scan.next_target \in Int /\ scan.points \in Seq(Nat)
<1>1. ASSUME NEW k \in Int
      PROVE  /\ [scan EXCEPT !.depth = k] \in ScanState
             /\ [scan EXCEPT !.depth = k].points = scan.points
  BY DEF ScanState
<1>2. ASSUME NEW k \in Int
      PROVE  /\ [scan EXCEPT !.next_target = k] \in ScanState
             /\ [scan EXCEPT !.next_target = k].points = scan.points
  BY DEF ScanState
<1>3. ASSUME NEW t \in BOOLEAN
      PROVE  /\ [scan EXCEPT !.in_tag = t] \in ScanState
             /\ [scan EXCEPT !.in_tag = t].points = scan.points
  BY DEF ScanState
<1>4. ASSUME NEW ps \in Seq(Nat)
      PROVE  /\ [scan EXCEPT !.points = ps] \in ScanState
             /\ [scan EXCEPT !.points = ps].points = ps
  BY DEF ScanState
<1>5. scan.depth \in Int /\ scan.next_target \in Int /\ scan.points \in Seq(Nat)
  BY DEF ScanState
<1> QED  BY <1>1, <1>2, <1>3, <1>4, <1>5

\* What looks like the end of a tag adds no point.
LEMMA EndOfTagScanned ==
  ASSUME NEW scan \in ScanState, NEW as
  PROVE  EndsTag(scan, as) \in ScanState /\ EndsTag(scan, as).points = scan.points
<1> DEFINE outside == [scan EXCEPT !.in_tag = FALSE]
<1>1. outside \in ScanState /\ outside.points = scan.points
  BY ScanField
<1>2. /\ scan.depth \in Int /\ scan.depth - 1 \in Int
      /\ outside.depth = scan.depth
  BY ScanField DEF ScanState
<1>3. \/ EndsTag(scan, as) = scan
      \/ EndsTag(scan, as) = [outside EXCEPT !.depth = scan.depth - 1]
      \/ EndsTag(scan, as) = [outside EXCEPT !.depth = scan.depth]
  BY <1>2 DEF EndsTag
<1> HIDE DEF outside
<1>4. \A k \in Int : /\ [outside EXCEPT !.depth = k] \in ScanState
                     /\ [outside EXCEPT !.depth = k].points = scan.points
  BY <1>1, ScanField
<1>5. CASE EndsTag(scan, as) = scan
  BY <1>5
<1>6. CASE EndsTag(scan, as) = [outside EXCEPT !.depth = scan.depth - 1]
  BY <1>2, <1>4, <1>6
<1>7. CASE EndsTag(scan, as) = [outside EXCEPT !.depth = scan.depth]
  BY <1>2, <1>4, <1>7
<1> QED  BY <1>3, <1>5, <1>6, <1>7

\* A token changes the points only if it is an end tag, and then adds itself.
LEMMA TokenScanned ==
  ASSUME NEW scan \in ScanState, NEW i \in Nat, NEW tok \in SourceToken, NEW target \in Int
  PROVE  /\ Scanned(scan, i, tok, target) \in ScanState
         /\ \/ Scanned(scan, i, tok, target).points = scan.points
            \/ tok.kind = "end" /\ Scanned(scan, i, tok, target).points = Append(scan.points, i)
<1> DEFINE new == Scanned(scan, i, tok, target)
<1>1. /\ scan.depth + 1 \in Int /\ scan.depth - 1 \in Int /\ 0 \in Int
      /\ scan.next_target \in Int /\ scan.next_target + target \in Int
      /\ scan.points \in Seq(Nat)
  BY ScanField
<1>2. Append(scan.points, i) \in Seq(Nat)
  BY <1>1
<1>3. tok.kind \in {"open", "attr", "gt", "sgt", "end", "text", "skip", "bang", "close", "nameless"}
  BY DEF SourceToken
<1>4. CASE tok.kind = "open"
  <2> DEFINE deeper == [scan EXCEPT !.depth = scan.depth + 1]
  <2>1. new = [deeper EXCEPT !.in_tag = TRUE]
    BY <1>4 DEF Scanned
  <2>2. deeper \in ScanState /\ deeper.points = scan.points
    BY <1>1, ScanField
  <2> HIDE DEF new, deeper
  <2>3. new \in ScanState /\ new.points = deeper.points
    BY <2>1, <2>2, ScanField
  <2> QED  BY <2>2, <2>3 DEF new
<1>5. CASE tok.kind = "attr"
  <2>1. new = scan \/ new = EndsTag(scan, tok.hides)
    BY <1>5 DEF Scanned
  <2> HIDE DEF new
  <2> QED  BY <2>1, EndOfTagScanned DEF new
<1>6. CASE tok.kind \in {"gt", "sgt"}
  <2>1. new = EndsTag(scan, tok.kind)
    BY <1>6 DEF Scanned
  <2> HIDE DEF new
  <2> QED  BY <2>1, EndOfTagScanned DEF new
<1>7. CASE tok.kind = "end"
  <2>1. CASE CutAfter(scan, i)
    <3> DEFINE top   == [scan EXCEPT !.depth = 0]
               later == [top EXCEPT !.next_target = scan.next_target + target]
    <3>1. top \in ScanState /\ top.points = scan.points /\ top.next_target = scan.next_target
      BY <1>1, ScanField DEF ScanState
    <3>2. new = [later EXCEPT !.points = Append(scan.points, i)]
      <4>1. later.points = scan.points
        BY <1>1, <3>1, ScanField
      <4> QED  BY <1>7, <2>1, <3>1, <4>1 DEF Scanned
    <3> HIDE DEF top
    <3>3. later \in ScanState
      BY <1>1, <3>1, ScanField
    <3> HIDE DEF later, new
    <3>4. new \in ScanState /\ new.points = Append(scan.points, i)
      BY <1>2, <3>2, <3>3, ScanField
    <3> QED  BY <1>7, <3>4 DEF new
  <2>2. CASE ~CutAfter(scan, i)
    <3>1. new = [scan EXCEPT !.depth = scan.depth - 1]
      BY <1>7, <2>2 DEF Scanned
    <3> HIDE DEF new
    <3>2. new \in ScanState /\ new.points = scan.points
      BY <1>1, <3>1, ScanField
    <3> QED  BY <3>2 DEF new
  <2> QED  BY <2>1, <2>2
<1>8. CASE tok.kind \in {"text", "skip", "bang", "close"}
  BY <1>8 DEF Scanned
<1>9. CASE tok.kind = "nameless"
  <2>1. new = [scan EXCEPT !.depth = scan.depth + 1]
    BY <1>9 DEF Scanned
  <2> HIDE DEF new
  <2>2. new \in ScanState /\ new.points = scan.points
    BY <1>1, <2>1, ScanField
  <2> QED  BY <2>2 DEF new
<1> HIDE DEF new
<1> QED  BY <1>3, <1>4, <1>5, <1>6, <1>7, <1>8, <1>9 DEF new

\* The split points are ends of tags, in order, whatever the pre-scan takes for one.
LEMMA SplitsAre ==
  ASSUME NEW d \in Seq(SourceToken), NEW n \in Nat \ {0}
  PROVE  Cuts(d, SplitPoints(d, n), Len(d))
<1> DEFINE L == Len(d)
           target == L \div n
           v == [depth |-> 0, in_tag |-> FALSE, next_target |-> target, points |-> <<>>]
           V == ScanState
           g == [x \in (1 .. L) \X V |-> Scanned(x[2], x[1], d[x[1]], target)]
           Described(f) == f = [i \in 0 .. Len(d) |->
              IF i = 0 THEN [depth |-> 0, in_tag |-> FALSE, next_target |-> Len(d) \div n, points |-> <<>>]
              ELSE Scanned(f[i - 1], i, d[i], Len(d) \div n)]
           scan == CHOOSE f : Described(f)
<1>1. L \in Nat /\ d \in [1 .. L -> SourceToken] /\ target \in Int
  BY LenProperties
<1>2. v \in V
  BY <1>1 DEF ScanState
<1>3. \A k \in 1 .. L : k \in Nat /\ d[k] \in SourceToken
  BY <1>1
<1> HIDE DEF target
<1>4. g \in [(1 .. L) \X V -> V] /\ \A k \in 1 .. L : \A a \in V : g[<<k, a>>] = Scanned(a, k, d[k], target)
  <2>1. \A k \in 1 .. L : \A a \in V : Scanned(a, k, d[k], target) \in V
    BY <1>1, <1>3, TokenScanned
  <2> HIDE DEF L, V
  <2> QED  BY <2>1
<1>5. PICK f \in [0 .. L -> V] : f[0] = v /\ \A k \in 1 .. L : f[k] = g[<<k, f[k - 1]>>]
  <2> HIDE DEF L, V, v, g
  <2>1. \E f \in [0 .. L -> V] : GoesBy(f, L, v, g)
    BY <1>1, <1>2, <1>4, StepByStep
  <2> QED  BY <2>1 DEF GoesBy
<1> HIDE DEF g, V
<1>6. \A k \in 1 .. L : k - 1 \in 0 .. L /\ k # 0 /\ k \in 0 .. L /\ f[k] = Scanned(f[k - 1], k, d[k], target)
  <2>1. \A k \in 1 .. L : k - 1 \in 0 .. L /\ k # 0 /\ k \in 0 .. L
    BY <1>1
  <2> HIDE DEF L
  <2>2. \A k \in 1 .. L : f[k - 1] \in V
    BY <1>5, <2>1
  <2> QED  BY <1>4, <1>5, <2>1, <2>2
<1>7. \A h : Described(h) <=> h = [k \in 0 .. L |-> IF k = 0 THEN v ELSE Scanned(h[k - 1], k, d[k], target)]
  BY DEF target
<1>8. SplitPoints(d, n) = scan[L].points
  BY DEF SplitPoints
<1> HIDE DEF Described, v, L
<1>9. f = [k \in 0 .. L |-> IF k = 0 THEN v ELSE Scanned(f[k - 1], k, d[k], target)]
  <2>1. \A k \in 0 .. L : k # 0 => k \in 1 .. L
    BY <1>1
  <2>2. \A k \in 0 .. L : f[k] = IF k = 0 THEN v ELSE Scanned(f[k - 1], k, d[k], target)
    BY <1>5, <1>6, <2>1
  <2>3. f = [k \in 0 .. L |-> f[k]]
    BY <1>5
  <2> QED  BY <2>2, <2>3
<1>10. scan = [k \in 0 .. L |-> IF k = 0 THEN v ELSE Scanned(scan[k - 1], k, d[k], target)]
  BY <1>7, <1>9
<1> HIDE DEF scan
<1> DEFINE S == {k \in 0 .. L : scan[k] \in V /\ Cuts(d, scan[k].points, k)}
<1>11. 0 \in S
  <2>1. 0 \in 0 .. L /\ scan[0] = v
    BY <1>1, <1>10
  <2>2. v.points = <<>>
    BY DEF v
  <2>3. Cuts(d, <<>>, 0)
    BY DEF Cuts
  <2> QED  BY <1>2, <2>1, <2>2, <2>3
<1>12. ASSUME NEW k \in 0 .. L - 1, k \in S PROVE k + 1 \in S
  <2> DEFINE a == scan[k]
             b == scan[k + 1]
             i == k + 1
  <2>1. i \in 1 .. L /\ i \in 0 .. L /\ i # 0 /\ i - 1 = k /\ k \in 0 .. L /\ k \in Nat /\ i \in Nat
    BY <1>1
  <2>2. a \in V /\ Cuts(d, a.points, k)
    BY <1>12
  <2>3. b = Scanned(a, i, d[i], target)
    BY <1>10, <2>1
  <2> HIDE DEF a, b
  <2>4. /\ b \in V
        /\ \/ b.points = a.points
           \/ d[i].kind = "end" /\ b.points = Append(a.points, i)
    BY <1>1, <1>3, <2>1, <2>2, <2>3, TokenScanned DEF V
  <2> DEFINE ps == a.points
             M == Len(ps)
  <2>5. ps \in Seq(Nat) /\ M \in Nat
    BY <2>2 DEF Cuts
  <2> HIDE DEF ps
  <2>6. Cuts(d, ps, i)
    BY <2>1, <2>2 DEF Cuts, ps
  <2>7. ASSUME d[i].kind = "end" PROVE Cuts(d, Append(ps, i), i)
    <3> DEFINE qs == Append(ps, i)
    <3>1. /\ qs \in Seq(Nat) /\ Len(qs) = M + 1 /\ qs[M + 1] = i
          /\ \A j \in 1 .. M : qs[j] = ps[j]
      BY <2>1, <2>5
    <3> HIDE DEF qs, M
    <3>2. \A j \in 1 .. M + 1 : j \in 1 .. M \/ j = M + 1
      BY <2>5
    <3>3. \A j \in 1 .. M : ps[j] \in 1 .. k /\ d[ps[j]].kind = "end"
      BY <2>2 DEF Cuts, ps, M
    <3>4. \A j \in 1 .. M + 1 : qs[j] \in 1 .. i /\ d[qs[j]].kind = "end"
      <4>1. \A j \in 1 .. M : qs[j] \in 1 .. i /\ d[qs[j]].kind = "end"
        BY <2>1, <3>1, <3>3
      <4>2. i \in 1 .. i
        BY <2>1
      <4> QED  BY <2>7, <3>1, <3>2, <4>1, <4>2
    <3>5. ASSUME NEW j \in 1 .. M + 1, NEW m \in 1 .. M + 1, j < m PROVE qs[j] < qs[m]
      <4>1. j \in 1 .. M
        BY <2>5, <3>5
      <4>2. CASE m \in 1 .. M
        <5>1. ps[j] < ps[m]
          BY <2>2, <3>5, <4>1, <4>2 DEF Cuts, ps, M
        <5> QED  BY <3>1, <4>1, <4>2, <5>1
      <4>3. CASE m = M + 1
        <5>1. qs[j] \in 1 .. k
          BY <3>1, <3>3, <4>1
        <5> QED  BY <2>1, <3>1, <4>3, <5>1
      <4> QED  BY <3>2, <4>2, <4>3
    <3> QED  BY <3>1, <3>4, <3>5 DEF Cuts, qs, M
  <2>8. Cuts(d, b.points, i)
    BY <2>4, <2>6, <2>7 DEF ps
  <2> QED  BY <2>1, <2>4, <2>8 DEF b
<1>13. L \in S
  <2> HIDE DEF S
  <2>1. \A k \in 0 .. L : k \in S
    BY <1>1, <1>11, <1>12, CountsTo
  <2>2. L \in 0 .. L
    BY <1>1
  <2> QED  BY <2>1, <2>2
<1> QED  BY <1>8, <1>13 DEF L

-----------------------------------------------------------------------------
(* The tokens as a parser sees them that begins at one of them.            *)

\* A tag is hidden whole or not at all.
LEMMA TagHidden ==
  ASSUME NEW d, NEW s \in Int, NEW i \in Int, d[i - 1].kind \in {"open", "attr"}
  PROVE  Hidden(d, s, i) <=> Hidden(d, s, i - 1)
<1>1. ASSUME Hidden(d, s, i) PROVE Hidden(d, s, i - 1)
  <2>1. PICK b \in s .. i - 1 : d[b].kind = "bang" /\ \A j \in b + 1 .. i - 1 : d[j].kind # "close"
    BY <1>1 DEF Hidden
  <2>2. b # i - 1
    BY <2>1
  <2>3. b \in s .. (i - 1) - 1 /\ \A j \in b + 1 .. (i - 1) - 1 : j \in b + 1 .. i - 1
    BY <2>2
  <2> QED  BY <2>1, <2>3 DEF Hidden
<1>2. ASSUME Hidden(d, s, i - 1) PROVE Hidden(d, s, i)
  <2>1. PICK b \in s .. (i - 1) - 1 :
           d[b].kind = "bang" /\ \A j \in b + 1 .. (i - 1) - 1 : d[j].kind # "close"
    BY <1>2 DEF Hidden
  <2>2. b \in s .. i - 1 /\ \A j \in b + 1 .. i - 1 : j \in b + 1 .. (i - 1) - 1 \/ j = i - 1
    OBVIOUS
  <2>3. \A j \in b + 1 .. i - 1 : d[j].kind # "close"
    BY <2>1, <2>2
  <2> QED  BY <2>1, <2>2, <2>3 DEF Hidden
<1> QED  BY <1>1, <1>2

\* It sees tokens of the same lengths, with no tag cut and no end tag taken for the
\* beginning of a tag.
LEMMA SeenIs ==
  ASSUME NEW d \in Seq(SourceToken), WellLexed(d), WellDivided(d), NEW s \in Int
  PROVE  /\ Seen(d, s) \in Seq(Token) /\ Len(Seen(d, s)) = Len(d) /\ WellLexed(Seen(d, s))
         /\ \A i \in 1 .. Len(d) : /\ Seen(d, s)[i].w = d[i].w
                                   /\ d[i].kind = "end" => Seen(d, s)[i].kind \in {"end", "skip"}
<1> DEFINE L == Len(d)
           S == Seen(d, s)
           h(i) == Hidden(d, s, i)
<1>1. L \in Nat /\ DOMAIN d = 1 .. L /\ d \in [1 .. L -> SourceToken]
  BY LenProperties
<1>2. ASSUME NEW i \in 1 .. L
      PROVE  /\ S[i] = [d[i] EXCEPT !.kind = SeenAs(d, s, i)] /\ d[i] \in SourceToken
             /\ S[i].kind = SeenAs(d, s, i) /\ S[i].w = d[i].w
  BY <1>1 DEF Seen, SourceToken
<1>3. ASSUME NEW i \in 1 .. L
      PROVE  SeenAs(d, s, i) = IF h(i) \/ d[i].kind \in {"bang", "nameless"} THEN "skip"
                               ELSE IF d[i].kind = "close" THEN "text" ELSE d[i].kind
  <2> HIDE DEF h
  <2>1. SeenAs(d, s, i) = CASE h(i) \/ d[i].kind \in {"bang", "nameless"} -> "skip"
                            [] ~h(i) /\ d[i].kind = "close"               -> "text"
                            [] OTHER                                      -> d[i].kind
    BY DEF SeenAs, h
  <2> QED  BY <2>1
<1> HIDE DEF h
<1>4. ASSUME NEW i \in 1 .. L PROVE S[i] \in Token
  <2>1. SeenAs(d, s, i) \in {"open", "attr", "gt", "sgt", "end", "text", "skip"}
    BY <1>2, <1>3 DEF SourceToken
  <2> HIDE DEF S
  <2> QED  BY <1>2, <2>1 DEF SourceToken, Token
<1>5. DOMAIN S = 1 .. L /\ S = [i \in 1 .. L |-> S[i]]
  BY <1>1 DEF Seen
<1> HIDE DEF S
<1>6. S \in Seq(Token) /\ Len(S) = L
  <2>1. S \in [1 .. L -> Token]
    BY <1>4, <1>5
  <2> QED  BY <1>1, <1>5, <2>1, LenProperties
<1> HIDE DEF L
<1>7. ASSUME NEW i \in 1 .. L PROVE S[i].kind \in {"attr", "gt", "sgt"} <=> InTag(S, i)
  <2>1. d[i].kind \in {"attr", "gt", "sgt"} <=> InTag(d, i)
    BY DEF WellLexed, L
  <2>2. S[i].kind \in {"attr", "gt", "sgt"} <=> ~h(i) /\ d[i].kind \in {"attr", "gt", "sgt"}
    BY <1>2, <1>3
  <2>3. CASE i = 1
    BY <2>1, <2>2, <2>3 DEF InTag
  <2>4. CASE i # 1
    <3>1. i - 1 \in 1 .. L /\ i > 1 /\ i \in Int
      BY <1>1, <2>4
    <3>2. S[i - 1].kind \in {"open", "attr"} <=> ~h(i - 1) /\ d[i - 1].kind \in {"open", "attr"}
      BY <1>2, <1>3, <3>1
    <3>3. d[i - 1].kind \in {"open", "attr"} => (h(i) <=> h(i - 1))
      BY <3>1, TagHidden DEF h
    <3> QED  BY <2>1, <2>2, <3>1, <3>2, <3>3 DEF InTag
  <2> QED  BY <2>3, <2>4
<1>8. ASSUME NEW i \in 1 .. L, S[i].kind = "text", i > 1 PROVE S[i - 1].kind # "text"
  <2>1. i - 1 \in 1 .. L /\ (i - 1) + 1 = i /\ i - 1 < L
    BY <1>1, <1>8
  <2>2. \A k \in 1 .. L : S[k].kind = "text" => d[k].kind \in {"text", "close"}
    BY <1>2, <1>3
  <2>3. d[i].kind = "text" => d[i - 1].kind # "text"
    BY <1>8 DEF WellLexed, L
  <2>4. d[i].kind = "close" => d[i - 1].kind \notin {"text", "close"}
    BY <1>8 DEF WellDivided, TextKinds, L
  <2>5. d[i - 1].kind = "close" => d[i].kind \notin {"text", "close"}
    BY <2>1 DEF WellDivided, TextKinds, L
  <2> QED  BY <1>8, <2>1, <2>2, <2>3, <2>4, <2>5
<1>9. WellLexed(S)
  BY <1>6, <1>7, <1>8 DEF WellLexed
<1>10. \A i \in 1 .. L : d[i].kind = "end" => S[i].kind \in {"end", "skip"}
  BY <1>2, <1>3
<1> QED  BY <1>2, <1>6, <1>9, <1>10 DEF S, L

\* The values of a parse are judged by the lengths of the tokens only.
LEMMA SoundBySize ==
  ASSUME NEW a, NEW b, Len(a) = Len(b), \A i \in 1 .. Len(a) : a[i].w = b[i].w,
         NEW s, NEW p, ValuesInv(a, s, p)
  PROVE  ValuesInv(b, s, p)
<1>1. ASSUME NEW vs, NEW n, Sound(a, s, vs, n) PROVE Sound(b, s, vs, n)
  BY <1>1 DEF Sound
<1> QED  BY <1>1 DEF ValuesInv

-----------------------------------------------------------------------------
(* The walk through an array.                                              *)

\* The links from members of V lead to members of V, to each from one place only.
Closed(nodes, V) ==
  /\ V \subseteq DOMAIN nodes /\ Document \in V /\ Null \notin V
  /\ \A i \in V : \A f \in Links : nodes[i][f] \in V \cup {Null}
  /\ \A i, j \in V : \A f, g \in Links :
       nodes[i][f] # Null /\ nodes[i][f] = nodes[j][g] => i = j /\ f = g

IsArray(nodes, n) == n \in Nat \ {0, 1} /\ nodes \in [0 .. n - 1 -> NodeType] /\ LinksForward(nodes)

LEMMA LinksLead ==
  ASSUME NEW nodes, NEW n, IsArray(nodes, n), NEW i \in 0 .. n - 1
  PROVE  /\ \A f \in Links : nodes[i][f] \in 0 .. n - 1 /\ (nodes[i][f] = Null \/ nodes[i][f] > i)
         /\ nodes[i].first_attr = nodes[i]["first_attr"] /\ nodes[i].first_child = nodes[i]["first_child"]
         /\ nodes[i].next_sibling = nodes[i]["next_sibling"]
         /\ DOMAIN nodes = 0 .. n - 1
<1>1. nodes[i] \in NodeType /\ DOMAIN nodes = 0 .. n - 1 /\ 0 \in 0 .. n - 1
  BY DEF IsArray
<1>2. \A f \in Links : nodes[i][f] = Null \/ (nodes[i][f] \in 0 .. n - 1 /\ nodes[i][f] > i)
  BY <1>1 DEF IsArray, LinksForward
<1> QED  BY <1>1, <1>2 DEF Null

\* What the walk finds from node i on, if w is what it finds from others.
From(nodes, w, i) ==
  <<i>> \o w[nodes[i].first_attr] \o w[nodes[i].first_child] \o w[nodes[i].next_sibling]

Walks(nodes, n, w) == w[Null] = <<>> /\ \A i \in 1 .. n - 1 : w[i] = From(nodes, w, i)

LEMMA WalkDef ==
  ASSUME NEW nodes, NEW n, IsArray(nodes, n)
  PROVE  \E w \in [0 .. n - 1 -> Seq(0 .. n - 1)] : Walks(nodes, n, w) /\ Walk(nodes) = w[Document]
<1> DEFINE I == 0 .. n - 1
           V == Seq(I)
           ValueAt(h, i) == IF i = Null THEN <<>> ELSE From(nodes, h, i)
           Described(f) == f = [i \in DOMAIN nodes \cup {Null} |->
             IF i = Null THEN <<>>
             ELSE <<i>> \o f[nodes[i].first_attr] \o f[nodes[i].first_child] \o f[nodes[i].next_sibling]]
           from == CHOOSE f : Described(f)
           g == [x \in I \X [I -> V] |-> ValueAt(x[2], x[1])]
           rank == [i \in I |-> IF i = Null THEN 0 ELSE n - i]
           F(h) == [i \in I |-> ValueAt(h, i)]
<1>1. n \in Nat /\ 0 \in I /\ 1 \in I /\ DOMAIN nodes = I /\ DOMAIN nodes \cup {Null} = I
  BY DEF IsArray, Null
<1>2. ASSUME NEW i \in I, i # Null
      PROVE  \A j \in {nodes[i].first_attr, nodes[i].first_child, nodes[i].next_sibling} :
               j \in I /\ rank[j] < rank[i]
  <2> SUFFICES ASSUME NEW f \in Links PROVE nodes[i][f] \in I /\ rank[nodes[i][f]] < rank[i]
    BY LinksLead DEF Links
  <2> DEFINE j == nodes[i][f]
  <2>1. j \in I /\ (j = Null \/ j > i)
    BY LinksLead
  <2> HIDE DEF j
  <2>2. rank[i] = n - i /\ rank[j] = (IF j = Null THEN 0 ELSE n - j) /\ n - i > 0
    BY <1>1, <1>2, <2>1
  <2>3. rank[j] < rank[i]
    BY <1>1, <2>1, <2>2
  <2> QED  BY <2>1, <2>3 DEF j
<1>3. \A h : Described(h) <=> h = F(h)
  BY <1>1 DEF From
<1>4. Walk(nodes) = from[Document]
  BY DEF Walk
<1> HIDE DEF Described
<1>5. ASSUME NEW h \in [I -> V], NEW i \in I PROVE ValueAt(h, i) \in V
  <2>1. CASE i = Null
    BY <2>1
  <2>2. CASE i # Null
    <3>0. <<i>> \in V
      OBVIOUS
    <3> HIDE DEF I, V, rank
    <3>1. /\ h[nodes[i].first_attr] \in V /\ h[nodes[i].first_child] \in V
          /\ h[nodes[i].next_sibling] \in V /\ <<i>> \in V
      BY <1>2, <2>2, <3>0
    <3> USE DEF V
    <3> QED  BY <2>2, <3>1 DEF From
  <2> QED  BY <2>1, <2>2
<1>6. ASSUME NEW h \in [I -> V], NEW e \in [I -> V], NEW i \in I,
             \A j \in I : rank[j] < rank[i] => h[j] = e[j]
      PROVE  ValueAt(h, i) = ValueAt(e, i)
  <2> HIDE DEF I, V, rank
  <2> QED  BY <1>2, <1>6 DEF From
<1> HIDE DEF ValueAt
<1>7. Rule(I, V, n, rank, g)
  <2>1. rank \in [I -> 0 .. n]
    BY <1>1
  <2>2. g \in [I \X [I -> V] -> V] /\ \A i \in I : \A h \in [I -> V] : g[<<i, h>>] = ValueAt(h, i)
    <3> HIDE DEF I, V
    <3> QED  BY <1>5
  <2>3. \A i \in I : \A h, k \in [I -> V] :
          (\A j \in I : rank[j] < rank[i] => h[j] = k[j]) => g[<<i, h>>] = g[<<i, k>>]
    <3> HIDE DEF I, V, g, rank
    <3> QED  BY <1>6, <2>2
  <2>4. V # {}
    <3>1. <<>> \in V
      OBVIOUS
    <3> QED  BY <3>1
  <2> HIDE DEF I, V, g, rank
  <2> QED  BY <1>1, <2>1, <2>2, <2>3, <2>4 DEF Rule
<1>8. PICK f \in [I -> V] : \A i \in I : f[i] = g[<<i, f>>]
  <2> HIDE DEF I, V, g, rank
  <2> QED  BY <1>7, Recursion
<1>9. f = F(f)
  <2>1. \A i \in I : f[i] = ValueAt(f, i)
    <3> HIDE DEF I, V
    <3> QED  BY <1>8
  <2> HIDE DEF I, V
  <2>2. f = [i \in I |-> f[i]]
    BY <1>8
  <2> QED  BY <2>1, <2>2
<1>10. from = F(from)
  <2>1. Described(f)
    BY <1>3, <1>9
  <2>2. Described(from)
    BY <2>1
  <2> HIDE DEF F, from
  <2> QED  BY <1>3, <2>2
<1> HIDE DEF from
<1> DEFINE S == {i \in I : from[i] = f[i]}
<1>11. ASSUME NEW i \in I, \A j \in I : rank[j] < rank[i] => j \in S PROVE i \in S
  <2>1. from[i] = ValueAt(from, i) /\ f[i] = ValueAt(f, i)
    BY <1>9, <1>10
  <2>2. ValueAt(from, i) = ValueAt(f, i)
    <3> HIDE DEF I, V, rank
    <3> QED  BY <1>2, <1>11 DEF ValueAt, From
  <2> QED  BY <2>1, <2>2
<1>12. \A i \in I : i \in S
  <2>1. rank \in [I -> 0 .. n]
    BY <1>1
  <2> HIDE DEF I, S, rank
  <2> QED  BY <1>1, <1>11, <2>1, ByRank DEF Inductive
<1>13. Walks(nodes, n, f)
  <2>1. \A i \in 1 .. n - 1 : i \in I /\ i # Null
    BY <1>1 DEF Null
  <2>2. f[Null] = <<>>
    BY <1>1, <1>9 DEF ValueAt, Null
  <2>3. \A i \in 1 .. n - 1 : f[i] = From(nodes, f, i)
    <3> HIDE DEF I
    <3> QED  BY <1>9, <2>1 DEF ValueAt
  <2> QED  BY <2>2, <2>3 DEF Walks
<1>14. from[Document] = f[Document]
  BY <1>1, <1>12 DEF Document
<1> QED  BY <1>4, <1>8, <1>13, <1>14

\* Two lists without repetition and without a common member, one after the other.
LEMMA InjectiveConcat ==
  ASSUME NEW S, NEW s \in Seq(S), NEW t \in Seq(S), IsInjective(s), IsInjective(t),
         Range(s) \cap Range(t) = {}
  PROVE  IsInjective(s \o t)
<1> DEFINE L == Len(s)
           M == Len(t)
           u == s \o t
<1>1. /\ L \in Nat /\ M \in Nat /\ DOMAIN s = 1 .. L /\ DOMAIN t = 1 .. M
      /\ DOMAIN u = 1 .. L + M
      /\ \A k \in 1 .. L + M : u[k] = IF k <= L THEN s[k] ELSE t[k - L]
  BY ConcatProperties, LenProperties
<1> HIDE DEF L, M, u
<1>2. \A a \in 1 .. L : s[a] \in Range(s)
  BY <1>1 DEF Range
<1>3. \A b \in 1 .. M : t[b] \in Range(t)
  BY <1>1 DEF Range
<1>4. ASSUME NEW a \in 1 .. L + M, NEW b \in 1 .. L + M, u[a] = u[b] PROVE a = b
  <2>1. CASE a <= L /\ b <= L
    <3>1. a \in 1 .. L /\ b \in 1 .. L /\ s[a] = s[b]
      BY <1>1, <1>4, <2>1
    <3> QED  BY <1>1, <3>1 DEF IsInjective
  <2>2. CASE ~(a <= L) /\ ~(b <= L)
    <3>1. a - L \in 1 .. M /\ b - L \in 1 .. M /\ t[a - L] = t[b - L]
      BY <1>1, <1>4, <2>2
    <3>2. a - L = b - L
      BY <1>1, <3>1 DEF IsInjective
    <3> QED  BY <1>1, <3>2
  <2>3. CASE a <= L /\ ~(b <= L)
    <3>1. a \in 1 .. L /\ b - L \in 1 .. M /\ s[a] = t[b - L]
      BY <1>1, <1>4, <2>3
    <3> QED  BY <1>2, <1>3, <3>1
  <2>4. CASE ~(a <= L) /\ b <= L
    <3>1. b \in 1 .. L /\ a - L \in 1 .. M /\ s[b] = t[a - L]
      BY <1>1, <1>4, <2>4
    <3> QED  BY <1>2, <1>3, <3>1
  <2> QED  BY <2>1, <2>2, <2>3, <2>4
<1> QED  BY <1>1, <1>4 DEF IsInjective, u

\* R holds node i and nodes behind it, each linked from another one of them.
Tree(nodes, V, i, R) ==
  /\ R \subseteq V /\ i \in R
  /\ \A x \in R : x >= i /\ (x = i \/ \E p \in R : \E f \in Links : nodes[p][f] = x)

\* s is what a walk finds behind a link to a, and all different.
Found(nodes, V, a, s) ==
  /\ s \in Seq(V) /\ IsInjective(s)
  /\ IF a = Null THEN s = <<>> ELSE Tree(nodes, V, a, Range(s))

\* Different links of a node lead to different nodes.
LEMMA Apart ==
  ASSUME NEW nodes, NEW n, IsArray(nodes, n), NEW V, Closed(nodes, V), NEW i \in V,
         NEW f \in Links, NEW g \in Links, f # g,
         NEW R, NEW Q, nodes[i][f] # Null, nodes[i][g] # Null,
         Tree(nodes, V, nodes[i][f], R), Tree(nodes, V, nodes[i][g], Q)
  PROVE  R \cap Q = {}
<1> DEFINE C == R \cap Q
           a == nodes[i][f]
           b == nodes[i][g]
           m == Min(C)
<1>0. V \subseteq 0 .. n - 1 /\ n \in Nat
  BY DEF Closed, IsArray
<1>1. \A p \in V : p \in Int /\ p \in 0 .. n - 1 /\ \A h \in Links : nodes[p][h] = Null \/ nodes[p][h] > p
  BY <1>0, LinksLead
<1>2. a > i /\ b > i /\ a # b /\ a \in V /\ b \in V
  BY <1>1 DEF Closed
<1> SUFFICES ASSUME C # {} PROVE FALSE
  OBVIOUS
<1>3. m \in C /\ \A y \in C : m <= y
  <2>1. C \subseteq Nat
    BY <1>0 DEF Tree
  <2> HIDE DEF C
  <2> QED  BY <2>1, MinExists
<1>4. /\ R \subseteq V /\ \A x \in R : x >= a /\ (x = a \/ \E p \in R : \E h \in Links : nodes[p][h] = x)
      /\ Q \subseteq V /\ \A x \in Q : x >= b /\ (x = b \/ \E p \in Q : \E h \in Links : nodes[p][h] = x)
  BY DEF Tree
<1>5. m \in V /\ m # Null
  BY <1>3, <1>4 DEF Closed
<1>6. ~(i \in R) /\ ~(i \in Q)
  BY <1>1, <1>2, <1>4
<1> HIDE DEF a, b, m, C
<1>7. CASE m = a
  <2>1. PICK q \in Q, h \in Links : nodes[q][h] = m
    BY <1>2, <1>3, <1>4, <1>7 DEF C
  <2>2. q = i
    BY <1>4, <1>5, <1>7, <2>1 DEF Closed, a
  <2> QED  BY <1>6, <2>2
<1>8. CASE m = b
  <2>1. PICK p \in R, h \in Links : nodes[p][h] = m
    BY <1>2, <1>3, <1>4, <1>8 DEF C
  <2>2. p = i
    BY <1>4, <1>5, <1>8, <2>1 DEF Closed, b
  <2> QED  BY <1>6, <2>2
<1>9. CASE m # a /\ m # b
  <2>1. PICK p \in R, h \in Links : nodes[p][h] = m
    BY <1>3, <1>4, <1>9 DEF C
  <2>2. PICK q \in Q, k \in Links : nodes[q][k] = m
    BY <1>3, <1>4, <1>9 DEF C
  <2>3. p = q
    BY <1>4, <1>5, <2>1, <2>2 DEF Closed
  <2>4. m > p /\ p \in Int /\ m \in Int
    BY <1>1, <1>4, <1>5, <2>1
  <2>5. m <= p
    BY <1>3, <2>1, <2>2, <2>3 DEF C
  <2> QED  BY <2>4, <2>5
<1> QED  BY <1>7, <1>8, <1>9

\* What is found from a node on is that node and what its links lead to.
LEMMA FromFound ==
  ASSUME NEW nodes, NEW n, IsArray(nodes, n), NEW V, Closed(nodes, V), NEW i \in V,
         NEW s, Found(nodes, V, nodes[i]["first_attr"], s),
         NEW t, Found(nodes, V, nodes[i]["first_child"], t),
         NEW u, Found(nodes, V, nodes[i]["next_sibling"], u)
  PROVE  Found(nodes, V, i, <<i>> \o s \o t \o u)
<1> DEFINE a == nodes[i]["first_attr"]
           b == nodes[i]["first_child"]
           c == nodes[i]["next_sibling"]
           r == <<i>>
           w == r \o s \o t \o u
<1>0. V \subseteq 0 .. n - 1 /\ n \in Nat /\ i \in 0 .. n - 1 /\ i # Null
  BY DEF Closed, IsArray
<1>1. "first_attr" \in Links /\ "first_child" \in Links /\ "next_sibling" \in Links
  BY DEF Links
<1>2. \A f \in Links : nodes[i][f] = Null \/ nodes[i][f] > i
  BY <1>0, LinksLead
<1>3. Range(<<>>) = {}
  BY DEF Range
<1>4. /\ Range(r) = {i} /\ IsInjective(r) /\ r \in Seq(V)
  BY DEF Range, IsInjective
<1>5. ASSUME NEW f \in Links, NEW x, Found(nodes, V, nodes[i][f], x)
      PROVE  /\ x \in Seq(V) /\ IsInjective(x) /\ Range(x) \subseteq V /\ i \notin Range(x)
             /\ \A y \in Range(x) : y > i /\ \/ y = nodes[i][f]
                                             \/ \E p \in Range(x) : \E h \in Links : nodes[p][h] = y
  <2>1. x \in Seq(V) /\ IsInjective(x)
    BY <1>5 DEF Found
  <2>2. CASE nodes[i][f] = Null
    <3>1. Range(x) = {}
      BY <1>3, <1>5, <2>2 DEF Found
    <3> QED  BY <2>1, <3>1
  <2>3. CASE nodes[i][f] # Null
    <3>1. Tree(nodes, V, nodes[i][f], Range(x)) /\ nodes[i][f] > i
      BY <1>2, <1>5, <2>3 DEF Found
    <3> DEFINE k == nodes[i][f]
               R == Range(x)
    <3>2. R \subseteq V /\ k \in V /\ \A y \in R : y >= k
      BY <3>1 DEF Tree
    <3> HIDE DEF R, k
    <3>3. k \in Int /\ \A y \in R : y \in Int
      <4>1. \A y \in V : y \in Int
        BY <1>0
      <4> QED  BY <3>2, <4>1
    <3>4. k > i /\ i \in Int
      BY <1>0, <3>1 DEF k
    <3>5. \A y \in R : y > i
      BY <3>2, <3>3, <3>4
    <3> QED  BY <1>0, <2>1, <3>1, <3>2, <3>5 DEF Tree, R, k
  <2> QED  BY <2>2, <2>3
<1>6. ASSUME NEW f \in Links, NEW g \in Links, f # g, NEW x, NEW y,
             Found(nodes, V, nodes[i][f], x), Found(nodes, V, nodes[i][g], y)
      PROVE  Range(x) \cap Range(y) = {}
  <2>1. CASE nodes[i][f] = Null \/ nodes[i][g] = Null
    BY <1>3, <1>6, <2>1 DEF Found
  <2>2. CASE nodes[i][f] # Null /\ nodes[i][g] # Null
    <3>1. Tree(nodes, V, nodes[i][f], Range(x)) /\ Tree(nodes, V, nodes[i][g], Range(y))
      BY <1>6, <2>2 DEF Found
    <3> QED  BY <1>6, <2>2, <3>1, Apart
  <2> QED  BY <2>1, <2>2
<1>7. /\ Found(nodes, V, a, s) /\ Found(nodes, V, b, t) /\ Found(nodes, V, c, u)
      /\ Range(s) \cap Range(t) = {} /\ Range(s) \cap Range(u) = {} /\ Range(t) \cap Range(u) = {}
  BY <1>1, <1>6
<1> HIDE DEF r
<1>8. /\ s \in Seq(V) /\ t \in Seq(V) /\ u \in Seq(V)
      /\ IsInjective(s) /\ IsInjective(t) /\ IsInjective(u)
      /\ i \notin Range(s) /\ i \notin Range(t) /\ i \notin Range(u)
  BY <1>1, <1>5, <1>7
<1>9. /\ r \o s \in Seq(V) /\ Range(r \o s) = {i} \cup Range(s) /\ IsInjective(r \o s)
  BY <1>4, <1>8, RangeConcatenation, InjectiveConcat, ConcatProperties
<1> DEFINE v == r \o s
<1> HIDE DEF v
<1>10. /\ v \o t \in Seq(V) /\ Range(v \o t) = {i} \cup Range(s) \cup Range(t) /\ IsInjective(v \o t)
  <2>1. v \in Seq(V) /\ Range(v) = {i} \cup Range(s) /\ IsInjective(v)
    BY <1>9 DEF v
  <2>2. Range(v) \cap Range(t) = {}
    BY <1>7, <1>8, <2>1
  <2> QED  BY <1>8, <2>1, <2>2, RangeConcatenation, InjectiveConcat, ConcatProperties
<1> DEFINE x == v \o t
<1> HIDE DEF x
<1>11. /\ x \o u \in Seq(V) /\ IsInjective(x \o u)
       /\ Range(x \o u) = {i} \cup Range(s) \cup Range(t) \cup Range(u)
  <2>1. x \in Seq(V) /\ Range(x) = {i} \cup Range(s) \cup Range(t) /\ IsInjective(x)
    BY <1>10 DEF x
  <2>2. Range(x) \cap Range(u) = {}
    BY <1>7, <1>8, <2>1
  <2> QED  BY <1>8, <2>1, <2>2, RangeConcatenation, InjectiveConcat, ConcatProperties
<1>12. w = x \o u
  BY DEF x, v
<1> HIDE DEF w
<1>13. Tree(nodes, V, i, Range(w))
  <2>1. Range(w) = {i} \cup Range(s) \cup Range(t) \cup Range(u)
    BY <1>11, <1>12
  <2>2. Range(w) \subseteq V
    BY <1>1, <1>5, <1>7, <2>1
  <2>3. ASSUME NEW y \in Range(w)
        PROVE  y >= i /\ (y = i \/ \E p \in Range(w) : \E f \in Links : nodes[p][f] = y)
    <3>1. CASE y = i
      BY <1>0, <3>1
    <3>2. CASE y # i
      <4>1. PICK f \in Links, z \in {s, t, u} :
              Found(nodes, V, nodes[i][f], z) /\ y \in Range(z) /\ Range(z) \subseteq Range(w)
        BY <1>1, <1>7, <2>1, <3>2
      <4>2. y > i /\ (y = nodes[i][f] \/ \E p \in Range(z) : \E h \in Links : nodes[p][h] = y)
        BY <1>5, <4>1
      <4>3. i \in Range(w)
        BY <2>1
      <4>4. \E p \in Range(w) : \E h \in Links : nodes[p][h] = y
        BY <4>1, <4>2, <4>3
      <4>5. y \in Int /\ i \in Int
        BY <1>0, <2>2
      <4> QED  BY <4>2, <4>4, <4>5
    <3> QED  BY <3>1, <3>2
  <2> QED  BY <2>1, <2>2, <2>3 DEF Tree
<1> QED  BY <1>0, <1>11, <1>12, <1>13 DEF Found, w, r

\* A walk through links that lead forward, to each node from one place, meets no node
\* twice.
LEMMA WalkInjective ==
  ASSUME NEW nodes, NEW n, IsArray(nodes, n), NEW V, Closed(nodes, V)
  PROVE  IsInjective(Walk(nodes))
<1>1. PICK w \in [0 .. n - 1 -> Seq(0 .. n - 1)] : Walks(nodes, n, w) /\ Walk(nodes) = w[Document]
  BY WalkDef
<1>2. V \subseteq 1 .. n - 1 /\ n \in Nat /\ V \subseteq 0 .. n - 1 /\ Document \in V
  BY DEF Closed, IsArray, Null
<1> DEFINE S == {i \in V : Found(nodes, V, i, w[i])}
           rank == [i \in V |-> n - i]
<1>3. ASSUME NEW i \in V, \A j \in V : rank[j] < rank[i] => j \in S PROVE i \in S
  <2>1. i \in 0 .. n - 1 /\ i \in 1 .. n - 1 /\ i # Null
    BY <1>2 DEF Null
  <2>2. ASSUME NEW f \in Links PROVE Found(nodes, V, nodes[i][f], w[nodes[i][f]])
    <3> DEFINE j == nodes[i][f]
    <3>1. j \in V \cup {Null} /\ (j = Null \/ j > i)
      BY <2>1, LinksLead DEF Closed
    <3> HIDE DEF j
    <3>2. CASE j = Null
      <4>1. w[j] = <<>>
        BY <1>1, <3>2 DEF Walks
      <4>2. IsInjective(<<>>)
        BY DEF IsInjective
      <4> QED  BY <3>2, <4>1, <4>2 DEF Found, j
    <3>3. CASE j # Null
      <4>1. j \in V /\ j > i /\ j \in Int /\ i \in Int
        BY <1>2, <2>1, <3>1, <3>3
      <4>2. rank[j] < rank[i]
        BY <1>2, <4>1
      <4>3. j \in S
        <5> HIDE DEF S, rank
        <5> QED  BY <1>3, <4>1, <4>2
      <4> QED  BY <4>3 DEF j
    <3> QED  BY <3>2, <3>3
  <2>3. w[i] = <<i>> \o w[nodes[i].first_attr] \o w[nodes[i].first_child] \o w[nodes[i].next_sibling]
    BY <1>1, <2>1 DEF Walks, From
  <2>4. /\ nodes[i].first_attr = nodes[i]["first_attr"] /\ nodes[i].first_child = nodes[i]["first_child"]
        /\ nodes[i].next_sibling = nodes[i]["next_sibling"]
    BY <2>1, LinksLead
  <2>5. /\ Found(nodes, V, nodes[i]["first_attr"], w[nodes[i].first_attr])
        /\ Found(nodes, V, nodes[i]["first_child"], w[nodes[i].first_child])
        /\ Found(nodes, V, nodes[i]["next_sibling"], w[nodes[i].next_sibling])
    BY <2>2, <2>4 DEF Links
  <2>6. Found(nodes, V, i, w[i])
    BY <2>3, <2>5, FromFound
  <2> QED  BY <2>6
<1>4. \A i \in V : i \in S
  <2>1. rank \in [V -> 0 .. n]
    BY <1>2
  <2> HIDE DEF S, rank
  <2>2. Inductive(V, n, rank, S)
    BY <1>2, <1>3, <2>1 DEF Inductive
  <2> QED  BY <2>2, ByRank
<1>5. Found(nodes, V, Document, w[Document])
  BY <1>2, <1>4
<1> QED  BY <1>1, <1>5 DEF Found

-----------------------------------------------------------------------------
(* The merge.                                                              *)

\* r is chained behind the node `last`, or to the document.
LEMMA ChainedLinks ==
  ASSUME NEW n \in Nat \ {0, 1}, NEW nodes \in [0 .. n - 1 -> NodeType], NEW r \in Nat,
         NEW last \in 0 .. n - 1
  PROVE  LET m == Chained(nodes, Document, "first_child", last, r) IN
         /\ m \in [0 .. n - 1 -> NodeType]
         /\ \A i \in 0 .. n - 1 : \A f \in Links :
              m[i][f] = IF \/ last # Null /\ i = last /\ f = "next_sibling"
                           \/ last = Null /\ i = Document /\ f = "first_child"
                        THEN r ELSE nodes[i][f]
<1> DEFINE m == Chained(nodes, Document, "first_child", last, r)
<1>1. CASE last # Null
  BY <1>1 DEF Chained, NodeType, Links
<1>2. CASE last = Null
  <2>1. Document \in 0 .. n - 1
    BY DEF Document
  <2> QED  BY <1>2, <2>1 DEF Chained, NodeType, Links
<1> QED  BY <1>1, <1>2

\* The links of a copied node.
LEMMA CopiedNode ==
  ASSUME NEW node \in NodeType, NEW base \in Nat, NEW voff \in Nat
  PROVE  /\ Copied(node, base, voff) \in NodeType
         /\ \A f \in Links : Copied(node, base, voff)[f] = Moved(node[f], base)
<1>1. \A k \in Nat : Moved(k, base) \in Nat
  BY DEF Moved, Null
<1>2. ValueMoved(node.val, voff) \in Value
  <2>1. node.val \in Value /\ node.val.offset + voff \in Int
    BY DEF NodeType, Value
  <2> QED  BY <2>1 DEF ValueMoved, Value
<1> DEFINE v  == ValueMoved(node.val, voff)
           fc == Moved(node.first_child, base)
           ns == Moved(node.next_sibling, base)
           fa == Moved(node.first_attr, base)
<1>3. v \in Value /\ fc \in Nat /\ ns \in Nat /\ fa \in Nat
  BY <1>1, <1>2 DEF NodeType
<1>4. Copied(node, base, voff)
        = [node EXCEPT !.first_child = fc, !.next_sibling = ns, !.first_attr = fa, !.val = v]
  BY DEF Copied, NodeType
<1> HIDE DEF v, fc, ns, fa
<1>5. Copied(node, base, voff) = [type |-> node.type, at |-> node.at, val |-> v,
                                  first_child |-> fc, next_sibling |-> ns, first_attr |-> fa]
  BY <1>4 DEF NodeType
<1>6. Copied(node, base, voff) \in NodeType
  BY <1>3, <1>5 DEF NodeType
<1>7. /\ Copied(node, base, voff)["first_child"] = fc /\ Copied(node, base, voff)["next_sibling"] = ns
      /\ Copied(node, base, voff)["first_attr"] = fa
  BY <1>5
<1>8. fc = Moved(node["first_child"], base) /\ ns = Moved(node["next_sibling"], base)
      /\ fa = Moved(node["first_attr"], base)
  BY DEF fc, ns, fa, NodeType
<1> QED  BY <1>6, <1>7, <1>8 DEF Links

\* A result, complete or not, with an array as long as it says.
Flat(m) == m \in Doms /\ m.nodes \in [0 .. m.count - 1 -> NodeType]

\* q is m and behind it the nodes of p.
Copies(q, m, p) ==
  /\ Flat(q) /\ q.count = m.count + p.count
  /\ \A i \in 0 .. m.count - 1 : q.nodes[i] = m.nodes[i]
  /\ \A i \in m.count .. q.count - 1 : \A f \in Links :
       q.nodes[i][f] = Moved(p.nodes[i - m.count][f], m.count)

LEMMA FlatFields ==
  ASSUME NEW m, Flat(m)
  PROVE  /\ m.count \in Nat /\ m.values \in Seq(Nat \X Nat) /\ m.root \in Nat
         /\ m.nodes \in [0 .. m.count - 1 -> NodeType] /\ m \in Doms
<1> DEFINE A == UNION {[0 .. n - 1 -> NodeType] : n \in Nat}
<1>1. m \in [nodes : A, count : Nat, values : Seq(Nat \X Nat), stack : Seq(Entry),
             root : Nat, elem : Nat, last_attr : Nat, flags : SUBSET Flags]
  BY DEF Flat, Doms
<1> HIDE DEF A
<1>2. m.count \in Nat /\ m.values \in Seq(Nat \X Nat) /\ m.root \in Nat
  BY <1>1
<1> QED  BY <1>2 DEF Flat

LEMMA TreeFields ==
  ASSUME NEW p, IsTree(p)
  PROVE  /\ p.count \in Nat /\ p.count >= 2 /\ p.count \in Nat \ {0, 1}
         /\ p.values \in Seq(Nat \X Nat) /\ p.nodes \in [0 .. p.count - 1 -> NodeType]
<1>1. p.values \in Seq(Nat \X Nat) /\ p.nodes \in [0 .. p.count - 1 -> NodeType]
  BY DEF IsTree, Typed
<1>2. p.count \in Nat \ {0, 1}
  BY DEF IsTree
<1> QED  BY <1>1, <1>2

\* One of the first three fields is changed.
LEMMA DomsField ==
  ASSUME NEW m \in Doms
  PROVE  /\ \A n \in Nat : \A ns \in [0 .. n - 1 -> NodeType] :
              /\ [m EXCEPT !.nodes = ns] \in Doms /\ [m EXCEPT !.nodes = ns].nodes = ns
              /\ [m EXCEPT !.nodes = ns].count = m.count /\ [m EXCEPT !.nodes = ns].root = m.root
         /\ \A k \in Nat :
              /\ [m EXCEPT !.count = k] \in Doms /\ [m EXCEPT !.count = k].nodes = m.nodes
              /\ [m EXCEPT !.count = k].count = k /\ [m EXCEPT !.count = k].root = m.root
         /\ \A vs \in Seq(Nat \X Nat) :
              /\ [m EXCEPT !.values = vs] \in Doms /\ [m EXCEPT !.values = vs].nodes = m.nodes
              /\ [m EXCEPT !.values = vs].count = m.count /\ [m EXCEPT !.values = vs].root = m.root
         /\ \A r \in Nat :
              /\ [m EXCEPT !.root = r] \in Doms /\ [m EXCEPT !.root = r].nodes = m.nodes
              /\ [m EXCEPT !.root = r].count = m.count /\ [m EXCEPT !.root = r].root = r
<1> DEFINE A == UNION {[0 .. n - 1 -> NodeType] : n \in Nat}
           D == [nodes : A, count : Nat, values : Seq(Nat \X Nat), stack : Seq(Entry),
                 root : Nat, elem : Nat, last_attr : Nat, flags : SUBSET Flags]
<1>1. Doms = D /\ m \in D
  BY DEF Doms
<1>2. \A n \in Nat : \A ns \in [0 .. n - 1 -> NodeType] : ns \in A
  OBVIOUS
<1> HIDE DEF A
<1>3. ASSUME NEW ns \in A
      PROVE  /\ [m EXCEPT !.nodes = ns] \in D /\ [m EXCEPT !.nodes = ns].nodes = ns
             /\ [m EXCEPT !.nodes = ns].count = m.count /\ [m EXCEPT !.nodes = ns].root = m.root
  BY <1>1
<1>4. ASSUME NEW k \in Nat
      PROVE  /\ [m EXCEPT !.count = k] \in D /\ [m EXCEPT !.count = k].nodes = m.nodes
             /\ [m EXCEPT !.count = k].count = k /\ [m EXCEPT !.count = k].root = m.root
  BY <1>1
<1>5. ASSUME NEW vs \in Seq(Nat \X Nat)
      PROVE  /\ [m EXCEPT !.values = vs] \in D /\ [m EXCEPT !.values = vs].nodes = m.nodes
             /\ [m EXCEPT !.values = vs].count = m.count /\ [m EXCEPT !.values = vs].root = m.root
  BY <1>1
<1>6. ASSUME NEW r \in Nat
      PROVE  /\ [m EXCEPT !.root = r] \in D /\ [m EXCEPT !.root = r].nodes = m.nodes
             /\ [m EXCEPT !.root = r].count = m.count /\ [m EXCEPT !.root = r].root = r
  BY <1>1
<1> HIDE DEF D
<1>7. ASSUME NEW n \in Nat, NEW ns \in [0 .. n - 1 -> NodeType]
      PROVE  /\ [m EXCEPT !.nodes = ns] \in Doms /\ [m EXCEPT !.nodes = ns].nodes = ns
             /\ [m EXCEPT !.nodes = ns].count = m.count /\ [m EXCEPT !.nodes = ns].root = m.root
  BY <1>1, <1>2, <1>3
<1> QED  BY <1>1, <1>4, <1>5, <1>6, <1>7

LEMMA CopiesAre ==
  ASSUME Flat(merged), NEW p, IsTree(p)
  PROVE  Copies(WithCopies(p), merged, p) /\ WithCopies(p).root = merged.root
<1> DEFINE base == merged.count
           voff == Len(merged.values)
           n == p.count
           ns == [i \in 0 .. base + n - 1 |->
                   IF i < base THEN merged.nodes[i] ELSE Copied(p.nodes[i - base], base, voff)]
           vs == merged.values \o p.values
           q == WithCopies(p)
<1>1. /\ base \in Nat /\ n \in Nat /\ n >= 2
      /\ merged.values \in Seq(Nat \X Nat) /\ p.values \in Seq(Nat \X Nat)
      /\ p.nodes \in [0 .. n - 1 -> NodeType] /\ merged.nodes \in [0 .. base - 1 -> NodeType]
  BY FlatFields, TreeFields
<1>2. voff \in Nat /\ vs \in Seq(Nat \X Nat)
  BY <1>1, LenProperties, ConcatProperties
<1>3. q = [merged EXCEPT !.nodes = ns, !.count = base + n, !.values = vs]
  BY DEF WithCopies, Flat, Doms
<1> HIDE DEF base, voff, n, vs
<1>4. \A i \in base .. base + n - 1 :
        /\ i - base \in 0 .. n - 1 /\ i \in 0 .. base + n - 1 /\ ~(i < base)
  BY <1>1
<1>5. \A i \in 0 .. base - 1 : i \in 0 .. base + n - 1 /\ i < base
  BY <1>1
<1>6. \A i \in 0 .. base + n - 1 : i \in 0 .. base - 1 \/ i \in base .. base + n - 1
  BY <1>1
<1>7. \A i \in base .. base + n - 1 :
        /\ ns[i] = Copied(p.nodes[i - base], base, voff)
        /\ ns[i] \in NodeType
        /\ \A f \in Links : ns[i][f] = Moved(p.nodes[i - base][f], base)
  <2> SUFFICES ASSUME NEW i \in base .. base + n - 1
               PROVE  /\ ns[i] = Copied(p.nodes[i - base], base, voff)
                      /\ ns[i] \in NodeType
                      /\ \A f \in Links : ns[i][f] = Moved(p.nodes[i - base][f], base)
    OBVIOUS
  <2>1. ns[i] = Copied(p.nodes[i - base], base, voff)
    BY <1>4
  <2>2. p.nodes[i - base] \in NodeType
    BY <1>1, <1>4
  <2> DEFINE a == p.nodes[i - base]
             c == Copied(a, base, voff)
  <2>3. a \in NodeType /\ ns[i] = c /\ base \in Nat
    BY <1>1, <2>1, <2>2
  <2> HIDE DEF a, ns
  <2>4. c \in NodeType /\ \A f \in Links : c[f] = Moved(a[f], base)
    BY <1>2, <2>3, CopiedNode
  <2> HIDE DEF c
  <2>5. ns[i] \in NodeType /\ \A f \in Links : ns[i][f] = Moved(a[f], base)
    BY <2>3, <2>4
  <2> QED  BY <2>1, <2>5 DEF a
<1>8. \A i \in 0 .. base - 1 : ns[i] = merged.nodes[i] /\ ns[i] \in NodeType
  BY <1>1, <1>5
<1>9. ns \in [0 .. base + n - 1 -> NodeType]
  <2>1. \A i \in 0 .. base + n - 1 : ns[i] \in NodeType
    BY <1>6, <1>7, <1>8
  <2>2. ns = [i \in 0 .. base + n - 1 |-> ns[i]]
    OBVIOUS
  <2> HIDE DEF ns
  <2> QED  BY <2>1, <2>2
<1> HIDE DEF ns, q
<1>10. base + n \in Nat
  BY <1>1
<1>11. merged \in Doms
  BY DEF Flat
<1> DEFINE k == base + n
           q1 == [merged EXCEPT !.nodes = ns]
           q2 == [q1 EXCEPT !.count = k]
<1> HIDE DEF k
<1>12. k \in Nat /\ ns \in [0 .. k - 1 -> NodeType]
  <2>1. base + n \in Nat /\ (base + n) - 1 = base + n - 1
    BY <1>1
  <2> QED  BY <1>9, <2>1 DEF k
<1>13. q1 \in Doms /\ q1.nodes = ns /\ q1.root = merged.root
  BY <1>11, <1>12, DomsField
<1>14. q = [q2 EXCEPT !.values = vs]
  BY <1>3 DEF k
<1> HIDE DEF q1
<1>15. q2 \in Doms /\ q2.nodes = ns /\ q2.root = merged.root /\ q2.count = k
  BY <1>12, <1>13, DomsField
<1> HIDE DEF q2
<1>16. q \in Doms /\ q.nodes = ns /\ q.root = merged.root /\ q.count = k
  BY <1>2, <1>14, <1>15, DomsField
<1>17. Flat(q)
  BY <1>12, <1>16 DEF Flat
<1>18. q.count = merged.count + p.count
  BY <1>16 DEF k, base, n
<1>19. \A i \in 0 .. merged.count - 1 : q.nodes[i] = merged.nodes[i]
  BY <1>8, <1>16 DEF base
<1>20. \A i \in merged.count .. q.count - 1 : \A f \in Links :
         q.nodes[i][f] = Moved(p.nodes[i - merged.count][f], merged.count)
  <2>1. q.count - 1 = base + n - 1
    BY <1>1, <1>16 DEF k
  <2>2. \A i \in base .. q.count - 1 : \A f \in Links : q.nodes[i][f] = Moved(p.nodes[i - base][f], base)
    BY <1>7, <1>16, <2>1
  <2> QED  BY <2>2 DEF base
<1>21. Copies(q, merged, p)
  BY <1>17, <1>18, <1>19, <1>20 DEF Copies
<1> QED  BY <1>16, <1>21 DEF q

LEMMA MovedLink ==
  ASSUME NEW k \in Nat, NEW l \in Nat, NEW base \in Nat
  PROVE  /\ Moved(k, base) = Null <=> k = Null
         /\ k # Null => Moved(k, base) = k + base
         /\ Moved(k, base) = Moved(l, base) => k = l
BY DEF Moved, Null

\* The links of a tree lead forward, to each node from one place.
LEMMA TreeLinks ==
  ASSUME NEW p, IsTree(p)
  PROVE  /\ IsArray(p.nodes, p.count)
         /\ \A i, j \in 0 .. p.count - 1 : \A f, g \in Links :
              p.nodes[i][f] # Null /\ p.nodes[i][f] = p.nodes[j][g] => i = j /\ f = g
<1>1. p.nodes \in [0 .. p.count - 1 -> NodeType] /\ p.count \in Nat \ {0, 1}
  BY TreeFields
<1>2. LinksForward(p.nodes) /\ LinkedAtMostOnce(p.nodes)
  BY DEF IsTree, TreeShaped
<1> QED  BY <1>1, <1>2 DEF IsArray, LinkedAtMostOnce

\* A copied node's links.
LEMMA CopiedLinks ==
  ASSUME NEW q, NEW m, NEW p, Copies(q, m, p), Flat(m), IsTree(p)
  PROVE  /\ m.count \in Nat /\ p.count \in Nat /\ p.count >= 2 /\ q.count = m.count + p.count
         /\ \A i \in m.count .. q.count - 1 : \A f \in Links :
              /\ q.nodes[i][f] = Null \/ q.nodes[i][f] \in i + 1 .. q.count - 1
              /\ \A j \in m.count .. q.count - 1 : \A g \in Links :
                   q.nodes[i][f] # Null /\ q.nodes[i][f] = q.nodes[j][g] => i = j /\ f = g
<1> DEFINE base == m.count
           n == p.count
<1>1. base \in Nat /\ n \in Nat /\ n >= 2 /\ q.count = base + n /\ IsArray(p.nodes, n)
  BY TreeLinks, TreeFields, FlatFields DEF Copies
<1> HIDE DEF base, n
<1>2. \A i \in base .. base + n - 1 : i - base \in 0 .. n - 1
  BY <1>1
<1>3. ASSUME NEW i \in 0 .. n - 1, NEW f \in Links
      PROVE  p.nodes[i][f] \in Nat /\ (p.nodes[i][f] = Null \/ p.nodes[i][f] \in (i + 1) .. (n - 1))
  <2>1. p.nodes[i][f] \in 0 .. n - 1 /\ (p.nodes[i][f] = Null \/ p.nodes[i][f] > i)
    BY <1>1, LinksLead
  <2> QED  BY <1>1, <2>1
<1>4. \A i \in base .. base + n - 1 : \A f \in Links : q.nodes[i][f] = Moved(p.nodes[i - base][f], base)
  BY <1>1 DEF Copies, base
<1>5. ASSUME NEW i \in base .. base + n - 1, NEW f \in Links
      PROVE  q.nodes[i][f] = Null \/ q.nodes[i][f] \in i + 1 .. base + n - 1
  <2> DEFINE k == p.nodes[i - base][f]
  <2>1. k \in Nat /\ (k = Null \/ k \in (i - base) + 1 .. n - 1) /\ q.nodes[i][f] = Moved(k, base)
    BY <1>2, <1>3, <1>4
  <2> HIDE DEF k
  <2>2. q.nodes[i][f] = Null \/ (q.nodes[i][f] = k + base /\ k # Null)
    BY <1>1, <2>1, MovedLink
  <2> QED  BY <1>1, <2>1, <2>2
<1>6. ASSUME NEW i \in base .. base + n - 1, NEW f \in Links,
             NEW j \in base .. base + n - 1, NEW g \in Links,
             q.nodes[i][f] # Null, q.nodes[i][f] = q.nodes[j][g]
      PROVE  i = j /\ f = g
  <2> DEFINE k == p.nodes[i - base][f]
             l == p.nodes[j - base][g]
  <2>1. k \in Nat /\ l \in Nat /\ q.nodes[i][f] = Moved(k, base) /\ q.nodes[j][g] = Moved(l, base)
    BY <1>2, <1>3, <1>4
  <2>2. i - base \in 0 .. n - 1 /\ j - base \in 0 .. n - 1
    BY <1>2
  <2> HIDE DEF k, l
  <2>3. Moved(k, base) # Null /\ Moved(k, base) = Moved(l, base) /\ base \in Nat
    BY <1>1, <1>6, <2>1
  <2>4. k # Null /\ k = l
    BY <2>1, <2>3, SMT DEF Moved, Null
  <2>5. i - base = j - base /\ f = g
    BY <2>2, <2>4, TreeLinks DEF k, l, n
  <2> QED  BY <1>1, <2>5
<1> QED  BY <1>1, <1>5, <1>6 DEF base, n

\* Copies behind an array make a longer one.
LEMMA CopiesArray ==
  ASSUME NEW q, NEW m, NEW p, Copies(q, m, p), Flat(m), IsTree(p),
         m.count # 0 => IsArray(m.nodes, m.count)
  PROVE  IsArray(q.nodes, q.count)
<1> DEFINE base == m.count
           n == q.count
<1>1. base \in Nat /\ p.count \in Nat /\ p.count >= 2 /\ n = base + p.count
  BY CopiedLinks
<1>2. n \in Nat \ {0, 1} /\ q.nodes \in [0 .. n - 1 -> NodeType]
  BY <1>1 DEF Copies, Flat
<1>3. ASSUME NEW i \in 0 .. n - 1, NEW f \in Links
      PROVE  q.nodes[i][f] = Null \/ (q.nodes[i][f] > i /\ q.nodes[i][f] \in 0 .. n - 1)
  <2>1. CASE i < base
    <3>1. i \in 0 .. base - 1 /\ base # 0
      BY <1>1, <2>1
    <3>2. q.nodes[i] = m.nodes[i]
      BY <3>1 DEF Copies
    <3>3. m.nodes[i][f] \in 0 .. base - 1 /\ (m.nodes[i][f] = Null \/ m.nodes[i][f] > i)
      BY <3>1, LinksLead
    <3> HIDE DEF base, n
    <3> QED  BY <1>1, <3>2, <3>3
  <2>2. CASE ~(i < base)
    <3>1. i \in base .. n - 1
      BY <1>1, <2>2
    <3>2. q.nodes[i][f] = Null \/ q.nodes[i][f] \in i + 1 .. n - 1
      BY <3>1, CopiedLinks
    <3> HIDE DEF base, n
    <3> QED  BY <1>1, <3>1, <3>2
  <2> QED  BY <2>1, <2>2
<1>4. LinksForward(q.nodes)
  BY <1>2, <1>3 DEF LinksForward
<1> QED  BY <1>2, <1>4 DEF IsArray

\* The members of a chain are nodes of the array.
LEMMA ChainType ==
  ASSUME NEW nodes, NEW n, IsArray(nodes, n), NEW i \in 0 .. n - 1
  PROVE  Chain(nodes, i) \in Seq(1 .. n - 1)
<1> DEFINE I == 0 .. n - 1
           S == {j \in I : Chain(nodes, j) \in Seq(1 .. n - 1)}
           rank == [j \in I |-> IF j = Null THEN 0 ELSE n - j]
<1>1. n \in Nat /\ DOMAIN nodes = I
  BY DEF IsArray
<1>2. ASSUME NEW j \in I
      PROVE  nodes[j].next_sibling \in I /\ (nodes[j].next_sibling = Null \/ nodes[j].next_sibling > j)
  <2>1. "next_sibling" \in Links
    BY DEF Links
  <2> QED  BY <2>1, LinksLead
<1>3. Forward(nodes, n)
  <2>1. ASSUME NEW j \in 0 .. n - 1
        PROVE  nodes[j].next_sibling = Null \/ nodes[j].next_sibling \in j + 1 .. n - 1
    BY <1>1, <1>2
  <2> QED  BY <1>1, <2>1 DEF Forward
<1>4. ASSUME NEW j \in I, \A k \in I : rank[k] < rank[j] => k \in S PROVE j \in S
  <2>1. CASE j = Null
    <3>1. Chain(nodes, j) = <<>>
      BY <1>1, <1>3, <2>1, ChainDef
    <3> QED  BY <3>1
  <2>2. CASE j # Null
    <3> DEFINE k == nodes[j].next_sibling
    <3>1. k \in I /\ (k = Null \/ k > j)
      BY <1>2
    <3>2. Chain(nodes, j) = <<j>> \o Chain(nodes, k)
      BY <1>1, <1>3, <2>2, ChainDef
    <3> HIDE DEF k
    <3>3. rank[k] < rank[j]
      BY <1>1, <2>2, <3>1 DEF Null
    <3>4. k \in S
      <4> HIDE DEF S, rank
      <4> QED  BY <1>4, <3>1, <3>3
    <3>5. j \in 1 .. n - 1
      BY <2>2, <1>1 DEF Null
    <3>6. <<j>> \in Seq(1 .. n - 1) /\ Chain(nodes, k) \in Seq(1 .. n - 1)
      BY <3>4, <3>5
    <3>7. Chain(nodes, j) \in Seq(1 .. n - 1)
      <4> DEFINE V == 1 .. n - 1
      <4> HIDE DEF V
      <4>1. <<j>> \o Chain(nodes, k) \in Seq(V)
        BY <3>6, ConcatProperties DEF V
      <4> QED  BY <3>2, <4>1 DEF V
    <3> QED  BY <3>7
  <2> QED  BY <2>1, <2>2
<1>5. \A j \in I : j \in S
  <2>1. rank \in [I -> 0 .. n]
    BY <1>1 DEF Null
  <2> HIDE DEF I, S, rank
  <2>2. Inductive(I, n, rank, S)
    BY <1>1, <1>4, <2>1 DEF Inductive
  <2> QED  BY <2>2, ByRank
<1> QED  BY <1>5

\* The last child of the document is a node, or there is none.
LEMMA LastKidIs ==
  ASSUME NEW nodes, NEW n, IsArray(nodes, n)
  PROVE  LastKid(nodes) \in 0 .. n - 1
<1> DEFINE kids == Kids(nodes, Document)
           V == 1 .. n - 1
<1>1. n \in Nat /\ Document \in 0 .. n - 1 /\ Null \in 0 .. n - 1
  BY DEF IsArray, Document, Null
<1>2. nodes[Document].first_child \in 0 .. n - 1
  <2>1. "first_child" \in Links
    BY DEF Links
  <2> QED  BY <1>1, <2>1, LinksLead
<1>3. kids \in Seq(V)
  BY <1>2, ChainType DEF Kids
<1>4. \A k \in V : k \in 0 .. n - 1
  BY <1>1
<1> HIDE DEF V, kids
<1>5. kids # <<>> => Last(kids) \in V
  <2>1. kids # <<>> => Len(kids) \in 1 .. Len(kids)
    BY <1>3, EmptySeq, LenProperties
  <2> QED  BY <1>3, <2>1, ElementOfSeq DEF Last
<1> QED  BY <1>1, <1>4, <1>5 DEF LastKid, kids

\* Whatever the walk from the document meets is linked from one place; `last` is a node
\* it may meet, or none.
Tidy(m, last) ==
  /\ IsArray(m.nodes, m.count)
  /\ \E V : Closed(m.nodes, V) /\ last \in V \cup {Null}

\* The first chunk's nodes.
LEMMA FirstTidy ==
  ASSUME NEW q, NEW m, NEW p, Copies(q, m, p), Flat(m), m.count = 0, IsTree(p),
         NEW last \in 0 .. q.count - 1
  PROVE  Tidy(q, last)
<1> DEFINE n == q.count
           V == 1 .. n - 1
<1>1. IsArray(q.nodes, n)
  BY CopiesArray
<1>2. n \in Nat /\ n >= 2 /\ DOMAIN q.nodes = 0 .. n - 1
  BY <1>1 DEF IsArray
<1>3. ASSUME NEW i \in 0 .. n - 1, NEW f \in Links
      PROVE  /\ q.nodes[i][f] = Null \/ q.nodes[i][f] \in i + 1 .. n - 1
             /\ \A j \in 0 .. n - 1 : \A g \in Links :
                  q.nodes[i][f] # Null /\ q.nodes[i][f] = q.nodes[j][g] => i = j /\ f = g
  BY CopiedLinks
<1> HIDE DEF n
<1>4. /\ V \subseteq 0 .. n - 1 /\ Document \in V /\ Null \notin V
      /\ \A i \in V : \A k \in i + 1 .. n - 1 : k \in V
  BY <1>2 DEF Document, Null
<1> HIDE DEF V
<1>5. Closed(q.nodes, V)
  BY <1>2, <1>3, <1>4 DEF Closed
<1>6. last \in V \cup {Null}
  BY <1>2 DEF V, Null, n
<1> QED  BY <1>1, <1>5, <1>6 DEF Tidy, n

\* The nodes of a chunk that is not linked.
LEMMA UnlinkedTidy ==
  ASSUME NEW q, NEW m, NEW p, Copies(q, m, p), Flat(m), IsTree(p), NEW last, Tidy(m, last)
  PROVE  Tidy(q, last)
<1>1. PICK V : Closed(m.nodes, V) /\ last \in V \cup {Null}
  BY DEF Tidy
<1>2. IsArray(q.nodes, q.count)
  BY CopiesArray DEF Tidy
<1>3. V \subseteq 0 .. m.count - 1
  BY <1>1 DEF Closed, Tidy, IsArray
<1>4. \A i \in V : q.nodes[i] = m.nodes[i]
  BY <1>3 DEF Copies
<1>5. V \subseteq DOMAIN q.nodes
  <2>1. m.count \in Nat /\ p.count \in Nat /\ q.count = m.count + p.count
    BY CopiedLinks
  <2>2. 0 .. m.count - 1 \subseteq 0 .. q.count - 1
    BY <2>1
  <2> QED  BY <1>2, <1>3, <2>2 DEF IsArray
<1>6. Closed(q.nodes, V)
  BY <1>1, <1>4, <1>5 DEF Closed
<1> QED  BY <1>1, <1>2, <1>6 DEF Tidy

\* The nodes of a later chunk, whose root r becomes the document's last child.
LEMMA LinkedTidy ==
  ASSUME NEW q, NEW m, NEW p, Copies(q, m, p), Flat(m), IsTree(p), NEW last, Tidy(m, last),
         NEW r \in m.count .. q.count - 1, NEW c, c.count = q.count,
         c.nodes = Chained(q.nodes, Document, "first_child", last, r)
  PROVE  Tidy(c, r) /\ c.nodes \in [0 .. q.count - 1 -> NodeType]
<1> DEFINE b == m.count
           n == q.count
           o == IF last # Null THEN last ELSE Document
           h == IF last # Null THEN "next_sibling" ELSE "first_child"
<1>1. PICK V : Closed(m.nodes, V) /\ last \in V \cup {Null}
  BY DEF Tidy
<1>2. b \in Nat /\ b >= 2 /\ n \in Nat /\ n >= b
  BY CopiedLinks DEF Tidy, IsArray
<1>3. IsArray(q.nodes, n) /\ n \in Nat \ {0, 1} /\ q.nodes \in [0 .. n - 1 -> NodeType]
  BY CopiesArray DEF Tidy, IsArray
<1>4. V \subseteq 0 .. b - 1
  BY <1>1 DEF Closed, Tidy, IsArray
<1>5. \A i \in V : q.nodes[i] = m.nodes[i]
  BY <1>4 DEF Copies
<1>6. \A i \in b .. n - 1 : \A f \in Links :
        /\ q.nodes[i][f] = Null \/ q.nodes[i][f] \in i + 1 .. n - 1
        /\ \A j \in b .. n - 1 : \A g \in Links :
             q.nodes[i][f] # Null /\ q.nodes[i][f] = q.nodes[j][g] => i = j /\ f = g
  BY CopiedLinks
<1>7. r \in b .. n - 1
  OBVIOUS
<1> HIDE DEF b, n
<1>8. o \in V /\ h \in Links /\ last \in 0 .. n - 1 /\ r \in Nat /\ r # Null
  <2>1. Null \in 0 .. n - 1 /\ \A i \in 0 .. b - 1 : i \in 0 .. n - 1
    BY <1>2 DEF Null
  <2>2. r \in Nat /\ r # Null
    BY <1>2, <1>7 DEF Null
  <2> QED  BY <1>1, <1>4, <2>1, <2>2 DEF Links, Closed
<1>9. /\ c.nodes \in [0 .. n - 1 -> NodeType]
      /\ \A i \in 0 .. n - 1 : \A f \in Links :
           c.nodes[i][f] = IF i = o /\ f = h THEN r ELSE q.nodes[i][f]
  <2>1. /\ c.nodes \in [0 .. n - 1 -> NodeType]
        /\ \A i \in 0 .. n - 1 : \A f \in Links :
             c.nodes[i][f] = IF \/ last # Null /\ i = last /\ f = "next_sibling"
                                \/ last = Null /\ i = Document /\ f = "first_child"
                             THEN r ELSE q.nodes[i][f]
    BY <1>3, <1>8, ChainedLinks
  <2> QED  BY <2>1
<1> HIDE DEF o, h
<1> DEFINE N == r .. n - 1
           W == V \cup N
<1>10. /\ \A i \in V : i \in 0 .. n - 1 /\ i \in 0 .. b - 1 /\ i < r /\ i \notin N
       /\ \A i \in N : i \in b .. n - 1 /\ i \in 0 .. n - 1 /\ i >= r /\ i # Null
       /\ \A i \in N : \A k \in i + 1 .. n - 1 : k \in N /\ k # r
       /\ r \in N /\ r \in 0 .. n - 1
  BY <1>2, <1>4, <1>7 DEF Null
<1> HIDE DEF N
<1>11. LinksForward(c.nodes)
  <2>1. DOMAIN c.nodes = 0 .. n - 1
    BY <1>9
  <2>2. ASSUME NEW i \in 0 .. n - 1, NEW f \in Links
        PROVE  c.nodes[i][f] = Null \/ (c.nodes[i][f] > i /\ c.nodes[i][f] \in 0 .. n - 1)
    <3>1. CASE i = o /\ f = h
      <4>1. c.nodes[i][f] = r /\ i < r
        BY <1>8, <1>9, <1>10, <3>1
      <4>2. i \in Int /\ r \in Int
        BY <1>8
      <4> QED  BY <1>10, <4>1, <4>2
    <3>2. CASE ~(i = o /\ f = h)
      <4>1. c.nodes[i][f] = q.nodes[i][f]
        BY <1>9, <3>2
      <4>2. q.nodes[i][f] \in 0 .. n - 1 /\ (q.nodes[i][f] = Null \/ q.nodes[i][f] > i)
        BY <1>3, LinksLead
      <4> QED  BY <4>1, <4>2
    <3> QED  BY <3>1, <3>2
  <2> QED  BY <2>1, <2>2 DEF LinksForward
<1>12. ASSUME NEW i \in V, NEW f \in Links
       PROVE  (i = o /\ f = h) \/ c.nodes[i][f] = m.nodes[i][f]
  BY <1>5, <1>9, <1>10
<1>13. ASSUME NEW i \in N, NEW f \in Links
       PROVE  /\ c.nodes[i][f] = q.nodes[i][f]
              /\ c.nodes[i][f] = Null \/ (c.nodes[i][f] \in N /\ c.nodes[i][f] # r)
  <2>1. i # o /\ i \in 0 .. n - 1 /\ i \in b .. n - 1
    BY <1>8, <1>10
  <2>2. c.nodes[i][f] = q.nodes[i][f]
    BY <1>9, <2>1
  <2>3. q.nodes[i][f] = Null \/ q.nodes[i][f] \in i + 1 .. n - 1
    BY <1>6, <2>1
  <2> QED  BY <1>10, <2>2, <2>3
<1>14. ASSUME NEW i \in V, NEW f \in Links PROVE m.nodes[i][f] \in V \cup {Null}
  BY <1>1 DEF Closed
<1>15. c.nodes[o][h] = r
  BY <1>8, <1>9, <1>10
<1>16. Closed(c.nodes, W)
  <2>1. W \subseteq DOMAIN c.nodes /\ Document \in W /\ Null \notin W
    BY <1>1, <1>9, <1>10 DEF Closed
  <2>2. \A i \in W : \A f \in Links : c.nodes[i][f] \in W \cup {Null}
    BY <1>10, <1>12, <1>13, <1>14, <1>15
  <2>3. ASSUME NEW i \in W, NEW j \in W, NEW f \in Links, NEW g \in Links,
               c.nodes[i][f] # Null, c.nodes[i][f] = c.nodes[j][g]
        PROVE  i = j /\ f = g
    <3>1. CASE i \in V /\ j \in V
      <4>1. \A k \in V : \A e \in Links : m.nodes[k][e] # r
        BY <1>8, <1>10, <1>14
      <4>2. CASE i = o /\ f = h
        <5>1. c.nodes[j][g] = r
          BY <1>15, <2>3, <4>2
        <5> QED  BY <1>12, <3>1, <4>1, <4>2, <5>1
      <4>3. CASE j = o /\ g = h
        <5>1. c.nodes[i][f] = r
          BY <1>15, <2>3, <4>3
        <5> QED  BY <1>12, <3>1, <4>1, <4>3, <5>1
      <4>4. CASE ~(i = o /\ f = h) /\ ~(j = o /\ g = h)
        <5>1. c.nodes[i][f] = m.nodes[i][f] /\ c.nodes[j][g] = m.nodes[j][g]
          BY <1>12, <3>1, <4>4
        <5> QED  BY <1>1, <2>3, <3>1, <5>1 DEF Closed
      <4> QED  BY <4>2, <4>3, <4>4
    <3>2. CASE i \in N /\ j \in N
      <4>1. i \in b .. n - 1 /\ j \in b .. n - 1 /\ q.nodes[i][f] # Null /\ q.nodes[i][f] = q.nodes[j][g]
        BY <1>10, <1>13, <2>3, <3>2
      <4> QED  BY <1>6, <4>1
    <3>3. ASSUME NEW k \in V, NEW e \in Links, NEW l \in N, NEW d \in Links,
                 c.nodes[k][e] = c.nodes[l][d], c.nodes[k][e] # Null
          PROVE  FALSE
      <4>1. c.nodes[l][d] \in N /\ c.nodes[l][d] # r
        BY <1>13, <3>3
      <4>2. c.nodes[k][e] = r \/ c.nodes[k][e] \in V
        BY <1>12, <1>14, <1>15, <3>3
      <4> QED  BY <1>10, <3>3, <4>1, <4>2
    <3> QED  BY <2>3, <3>1, <3>2, <3>3
  <2> HIDE DEF W
  <2> QED  BY <2>1, <2>2, <2>3 DEF Closed
<1>17. IsArray(c.nodes, c.count)
  BY <1>3, <1>9, <1>11 DEF IsArray, n
<1>18. r \in W
  BY <1>10
<1> HIDE DEF W
<1> QED  BY <1>9, <1>16, <1>17, <1>18 DEF Tidy, n

-----------------------------------------------------------------------------
(* A parallel parse, step by step.                                         *)

Arguments ==
  /\ input \in Seq(SourceToken) /\ WellLexed(input) /\ WellDivided(input)
  /\ flags \in SUBSET Flags /\ num_threads \in Nat \ {0}

\* Chunk c has its final result.
Finished(c) == partials[c] = ParsedChunk(c)

\* The input is cut into chunks, with a partial result each.
Chunked ==
  /\ Cuts(input, points, Len(input))
  /\ DOMAIN partials = 1 .. NumChunks

\* A chunk whose thread is still parsing has been given to a thread.
Launching ==
  /\ loop \in 1 .. NumChunks + 1 /\ merged = NoDom
  /\ threads \in Seq(Nat)
  /\ \A c \in 1 .. loop - 1 : Finished(c) \/ c \in parsing
  /\ \A c \in parsing : c \in 1 .. NumChunks /\ \E k \in 1 .. Len(threads) : threads[k] = c

\* The threads that were joined have ended.
Joining ==
  /\ loop \in 1 .. Len(threads) + 1 /\ merged = NoDom
  /\ threads \in Seq(Nat)
  /\ \A c \in 1 .. NumChunks : Finished(c) \/ c \in parsing
  /\ \A c \in parsing : c \in 1 .. NumChunks /\ \E k \in loop .. Len(threads) : threads[k] = c

\* Every chunk is parsed before any is merged.
AllParsed == parsing = {} /\ \A c \in 1 .. NumChunks : Finished(c)

Merging ==
  /\ loop \in 1 .. NumChunks + 1
  /\ AllParsed
  /\ merged.count = 0 <=> loop = 1

ParInv ==
  /\ Arguments
  /\ pc \in {"scan", "launch", "join", "merge", "done"}
  /\ Flat(merged) /\ (merged.count # 0 => Tidy(merged, doc_last))
  /\ pc = "scan" => merged = NoDom /\ doc_last = Null /\ threads = <<>> /\ parsing = {} /\ loop = 1
  /\ pc \in {"launch", "join", "merge"} => Chunked
  /\ pc = "launch" => Launching
  /\ pc = "join" => Joining
  /\ pc = "merge" => Merging

\* A default-constructed result.
LEMMA NoDomFlat ==
  ASSUME flags \in SUBSET Flags
  PROVE  Flat(NoDom) /\ NoDom.count = 0
<1> DEFINE e == EmptyDom(flags)
           e1 == [e EXCEPT !.nodes = <<>>]
<1>1. Typed(e)
  BY EmptyInv DEF Inv
<1>2. e \in Doms
  BY <1>1, TypedDoms
<1> HIDE DEF e
<1>3. <<>> \in [0 .. 0 - 1 -> NodeType]
  OBVIOUS
<1> DEFINE none == <<>>
           zero == 0
<1>4. none \in [0 .. zero - 1 -> NodeType] /\ zero \in Nat
  BY <1>3
<1> HIDE DEF none, zero
<1>5. [e EXCEPT !.nodes = none] \in Doms /\ [e EXCEPT !.nodes = none].nodes = none
  BY <1>2, <1>4, DomsField
<1>6. e1 \in Doms /\ e1.nodes = <<>>
  BY <1>5 DEF none
<1> HIDE DEF e1
<1> DEFINE e2 == [e1 EXCEPT !.count = 0]
<1>7. e2 \in Doms /\ e2.nodes = <<>> /\ e2.count = 0
  BY <1>6, DomsField
<1>8. NoDom = e2
  BY <1>2 DEF NoDom, e1, e, Doms
<1> HIDE DEF e2
<1>9. Flat(e2)
  BY <1>3, <1>7 DEF Flat
<1> QED  BY <1>7, <1>8, <1>9

\* A chunk is a part of what its parser sees, and cuts no tag.
LEMMA ChunkIsPart ==
  ASSUME Arguments, Chunked, NEW c \in 1 .. NumChunks
  PROVE  First(c) \in Int /\ IsPart(Seen(input, First(c)), First(c), Final(c))
<1> DEFINE L == Len(input)
           M == Len(points)
<1>1. L \in Nat /\ M \in Nat /\ NumChunks = M + 1 /\ c \in 1 .. M + 1
  BY LenProperties DEF Arguments, Chunked, Cuts, NumChunks
<1>2. \A k \in 1 .. M : points[k] \in 1 .. L /\ input[points[k]].kind = "end"
  BY DEF Chunked, Cuts
<1>3. \A j, k \in 1 .. M : j < k => points[j] < points[k]
  BY DEF Chunked, Cuts
<1>4. /\ First(c) = IF c = 1 THEN 1 ELSE points[c - 1] + 1
      /\ Final(c) = IF c = M + 1 THEN L ELSE points[c]
  BY <1>1 DEF First, Final
<1> HIDE DEF L, M
<1>5. c # 1 => c - 1 \in 1 .. M
  BY <1>1
<1>6. c # M + 1 => c \in 1 .. M
  BY <1>1
<1>7. First(c) \in 1 .. L + 1
  BY <1>1, <1>2, <1>4, <1>5
<1>8. Final(c) \in First(c) - 1 .. L
  <2>1. CASE c = M + 1
    BY <1>1, <1>4, <1>7, <2>1
  <2>2. CASE c # M + 1
    <3>1. c # 1 => points[c - 1] < points[c]
      BY <1>1, <1>3, <1>5, <1>6, <2>2
    <3>2. points[c] \in 1 .. L
      BY <1>2, <1>6, <2>2
    <3>3. c # 1 => points[c - 1] \in 1 .. L
      BY <1>2, <1>5
    <3> QED  BY <1>1, <1>4, <2>2, <3>1, <3>2, <3>3
  <2> QED  BY <2>1, <2>2
<1> DEFINE S == Seen(input, First(c))
<1>9. /\ First(c) \in Int /\ S \in Seq(Token) /\ Len(S) = L /\ WellLexed(S)
      /\ \A i \in 1 .. L : input[i].kind = "end" => S[i].kind \in {"end", "skip"}
  <2>1. First(c) \in Int
    BY <1>1, <1>7
  <2> QED  BY <2>1, SeenIs DEF Arguments, L
<1> HIDE DEF S
<1>10. ~InTag(S, First(c))
  <2>1. CASE c = 1
    BY <1>4, <2>1 DEF InTag
  <2>2. CASE c # 1
    <3>1. First(c) = points[c - 1] + 1 /\ points[c - 1] \in Int /\ S[points[c - 1]].kind \in {"end", "skip"}
      BY <1>2, <1>4, <1>5, <1>9, <2>2
    <3>2. First(c) - 1 = points[c - 1]
      BY <3>1
    <3> QED  BY <3>1, <3>2 DEF InTag
  <2> QED  BY <2>1, <2>2
<1>11. IsPart(S, First(c), Final(c))
  BY <1>7, <1>8, <1>9, <1>10 DEF IsPart
<1> QED  BY <1>9, <1>11 DEF S

LEMMA ChunkIsTree ==
  ASSUME Arguments, Chunked, NEW c \in 1 .. NumChunks
  PROVE  IsTree(ParsedChunk(c)) /\ ValuesInv(Seen(input, 1), First(c), ParsedChunk(c))
<1> DEFINE S == Seen(input, First(c))
           W == Seen(input, 1)
<1>1. flags \in SUBSET Flags /\ First(c) \in Int /\ IsPart(S, First(c), Final(c))
  BY ChunkIsPart DEF Arguments
<1>2. Len(S) = Len(W) /\ \A i \in 1 .. Len(S) : S[i].w = W[i].w
  BY <1>1, SeenIs DEF Arguments
<1> HIDE DEF S, W
<1>3. IsTree(ParsedChunk(c)) /\ ValuesInv(S, First(c), ParsedChunk(c))
  BY <1>1, ParsedTree DEF ParsedChunk, S
<1> QED  BY <1>2, <1>3, SoundBySize DEF W

\* The whole input, parsed serially.
LEMMA WholeIsTree ==
  ASSUME Arguments
  PROVE  /\ IsPart(Seen(input, 1), 1, Len(input))
         /\ IsTree(Serial) /\ ValuesInv(Seen(input, 1), 1, Serial)
<1> DEFINE S == Seen(input, 1)
<1>1. S \in Seq(Token) /\ Len(S) = Len(input) /\ WellLexed(S) /\ Len(input) \in Nat
  BY SeenIs, LenProperties DEF Arguments
<1> HIDE DEF S
<1>2. 1 \in 1 .. Len(S) + 1 /\ Len(S) \in 1 - 1 .. Len(S)
  BY <1>1
<1>3. IsPart(S, 1, Len(input))
  BY <1>1, <1>2 DEF IsPart, InTag
<1>4. IsTree(Serial) /\ ValuesInv(S, 1, Serial)
  BY <1>3, ParsedTree DEF Arguments, Serial, S
<1> QED  BY <1>3, <1>4 DEF S

LEMMA WholeTidy ==
  ASSUME Arguments
  PROVE  Flat(Serial) /\ Tidy(Serial, Null)
<1> DEFINE p == Serial
<1>2. IsTree(p)
  BY WholeIsTree
<1> HIDE DEF p
<1>3. Flat(p)
  <2>1. Typed(p)
    BY <1>2 DEF IsTree
  <2> QED  BY <1>2, <2>1, TypedDoms, TreeFields DEF Flat
<1> DEFINE n == p.count
           V == 1 .. n - 1
<1>4. /\ IsArray(p.nodes, n)
      /\ \A i, j \in 0 .. n - 1 : \A f, g \in Links :
           p.nodes[i][f] # Null /\ p.nodes[i][f] = p.nodes[j][g] => i = j /\ f = g
  BY <1>2, TreeLinks
<1>5. n \in Nat /\ n >= 2 /\ DOMAIN p.nodes = 0 .. n - 1
  BY <1>2, <1>4, TreeFields
<1> HIDE DEF n
<1>6. \A i \in 0 .. n - 1 : \A f \in Links :
        p.nodes[i][f] \in 0 .. n - 1
  BY <1>4, LinksLead
<1>7. /\ V \subseteq 0 .. n - 1 /\ Document \in V /\ Null \notin V
      /\ \A k \in 0 .. n - 1 : k \in V \/ k = Null
  BY <1>5 DEF Document, Null
<1> HIDE DEF V
<1>8. Closed(p.nodes, V)
  BY <1>4, <1>5, <1>6, <1>7 DEF Closed
<1>9. Tidy(p, Null)
  <2>1. Null \in V \cup {Null}
    OBVIOUS
  <2>2. IsArray(p.nodes, p.count)
    BY <1>4 DEF n
  <2> QED  BY <1>8, <2>1, <2>2, Zenon DEF Tidy
<1> QED  BY <1>3, <1>9 DEF p

LEMMA InitPar == ParInit => ParInv
<1> SUFFICES ASSUME ParInit PROVE ParInv
  OBVIOUS
<1>1. Arguments
  BY ParallelAssumption DEF ParInit, Arguments
<1>2. Flat(NoDom) /\ NoDom.count = 0
  BY <1>1, NoDomFlat DEF Arguments
<1> QED  BY <1>1, <1>2 DEF ParInit, ParInv

\* Cutting the input into chunks.
LEMMA SplitStep ==
  ASSUME ParInv, Split
  PROVE  ParInv'
<1>1. /\ input' = input /\ flags' = flags /\ num_threads' = num_threads /\ pc' = "launch"
      /\ points' = SplitPoints(input, num_threads)
      /\ partials' = [c \in 1 .. Len(points') + 1 |-> NoDom]
      /\ threads' = threads /\ parsing' = parsing /\ loop' = loop /\ merged' = merged /\ doc_last' = doc_last
  BY DEF Split, Args
<1>2. /\ Arguments /\ Flat(merged) /\ merged = NoDom /\ threads = <<>> /\ parsing = {} /\ loop = 1
      /\ merged.count # 0 => Tidy(merged, doc_last)
  BY DEF ParInv, Split
<1>3. Arguments'
  BY <1>1, <1>2 DEF Arguments
<1>4. Cuts(input', points', Len(input'))
  <2>1. input \in Seq(SourceToken) /\ num_threads \in Nat \ {0}
    BY <1>2 DEF Arguments
  <2>2. Cuts(input, SplitPoints(input, num_threads), Len(input))
    BY <2>1, SplitsAre
  <2> QED  BY <1>1, <2>2
<1>5. NumChunks' \in Nat /\ NumChunks' >= 1 /\ NumChunks' = Len(points') + 1
  BY <1>4, LenProperties DEF Cuts, NumChunks
<1>6. Chunked'
  BY <1>1, <1>4, <1>5 DEF Chunked
<1>7. NoDom' = NoDom
  BY <1>1 DEF NoDom
<1>8. Launching'
  <2>1. loop' \in 1 .. NumChunks' + 1 /\ threads' \in Seq(Nat)
    BY <1>1, <1>2, <1>5
  <2>2. \A c \in 1 .. loop' - 1 : FALSE
    BY <1>1, <1>2
  <2> QED  BY <1>1, <1>2, <1>7, <2>1, <2>2 DEF Launching
<1> QED  BY <1>1, <1>2, <1>3, <1>6, <1>8 DEF ParInv

\* The arguments and the cut stay as they are.
Fixed == UNCHANGED <<input, flags, num_threads, points>>

LEMMA FixedKeeps ==
  ASSUME ParInv, Fixed
  PROVE  /\ Arguments' /\ NumChunks' = NumChunks /\ NoDom' = NoDom
         /\ \A c : ParsedChunk(c)' = ParsedChunk(c)
         /\ Chunked /\ DOMAIN partials' = DOMAIN partials => Chunked'
<1>1. Arguments'
  BY DEF ParInv, Fixed, Arguments
<1>2. NumChunks' = NumChunks
  BY DEF Fixed, NumChunks
<1>3. NoDom' = NoDom
  BY DEF Fixed, NoDom
<1>4. \A c : First(c)' = First(c) /\ Final(c)' = Final(c)
  BY <1>2 DEF Fixed, First, Final
<1>5. \A c : ParsedChunk(c)' = ParsedChunk(c)
  BY <1>4 DEF Fixed, ParsedChunk
<1>6. Chunked /\ DOMAIN partials' = DOMAIN partials => Chunked'
  BY <1>2 DEF Fixed, Chunked
<1> QED  BY <1>1, <1>2, <1>3, <1>5, <1>6

LEMMA ChunksAre ==
  ASSUME Chunked
  PROVE  NumChunks \in Nat /\ NumChunks >= 1
BY LenProperties DEF Chunked, Cuts, NumChunks

\* A chunk is given to a thread.
LEMMA LaunchStep ==
  ASSUME ParInv, Launch
  PROVE  ParInv'
<1>1. /\ Fixed /\ pc = "launch" /\ pc' = "launch" /\ loop < ActiveThreads
      /\ threads' = Append(threads, loop) /\ parsing' = parsing \cup {loop}
      /\ loop' = loop + 1 /\ partials' = partials /\ merged' = merged /\ doc_last' = doc_last
  BY DEF Launch, Args, Fixed
<1>2. /\ Flat(merged) /\ (merged.count # 0 => Tidy(merged, doc_last)) /\ Chunked /\ Launching
  BY <1>1 DEF ParInv
<1>3. /\ Arguments' /\ NumChunks' = NumChunks /\ NoDom' = NoDom /\ Chunked'
      /\ \A c : ParsedChunk(c)' = ParsedChunk(c)
  BY <1>1, <1>2, FixedKeeps
<1>4. NumChunks \in Nat /\ loop \in Nat /\ loop >= 1 /\ loop <= NumChunks
  <2>1. NumChunks \in Nat /\ loop \in 1 .. NumChunks + 1
    BY <1>2, ChunksAre DEF Launching
  <2>2. num_threads \in Nat
    BY DEF ParInv, Arguments
  <2>3. ActiveThreads \in {NumChunks, num_threads} /\ ActiveThreads <= NumChunks
    <3> DEFINE S == {NumChunks, num_threads}
    <3>1. S \subseteq Nat /\ S # {} /\ NumChunks \in S
      BY <2>1, <2>2
    <3> HIDE DEF S
    <3>2. Min(S) \in S /\ \A y \in S : Min(S) <= y
      BY <3>1, MinExists
    <3> QED  BY <3>1, <3>2 DEF ActiveThreads, S
  <2> QED  BY <1>1, <2>1, <2>2, <2>3
<1>5. Launching'
  <2> DEFINE L == Len(threads)
  <2>1. threads \in Seq(Nat) /\ L \in Nat
    BY <1>2, LenProperties DEF Launching
  <2>2. /\ threads' \in Seq(Nat) /\ Len(threads') = L + 1 /\ threads'[L + 1] = loop
        /\ \A k \in 1 .. L : threads'[k] = threads[k]
    BY <1>1, <1>4, <2>1, AppendProperties
  <2> HIDE DEF L
  <2>3. L + 1 \in 1 .. L + 1 /\ \A k \in 1 .. L : k \in 1 .. L + 1
    BY <2>1
  <2>4. ASSUME NEW c \in 1 .. loop' - 1 PROVE Finished(c)' \/ c \in parsing'
    <3>1. c = loop \/ c \in 1 .. loop - 1
      BY <1>1, <1>4
    <3>2. c \in 1 .. loop - 1 => Finished(c) \/ c \in parsing
      BY <1>2 DEF Launching
    <3> QED  BY <1>1, <1>3, <3>1, <3>2 DEF Finished
  <2>5. ASSUME NEW c \in parsing'
        PROVE  c \in 1 .. NumChunks' /\ \E k \in 1 .. Len(threads') : threads'[k] = c
    <3>1. CASE c = loop
      BY <1>3, <1>4, <2>2, <2>3, <3>1
    <3>2. CASE c # loop
      <4>1. c \in parsing
        BY <1>1, <3>2
      <4>2. c \in 1 .. NumChunks /\ \E k \in 1 .. L : threads[k] = c
        BY <1>2, <4>1 DEF Launching, L
      <4> QED  BY <1>3, <2>2, <2>3, <4>2
    <3> QED  BY <3>1, <3>2
  <2>6. loop' \in 1 .. NumChunks' + 1 /\ merged' = NoDom'
    BY <1>1, <1>2, <1>3, <1>4 DEF Launching
  <2> QED  BY <2>2, <2>4, <2>5, <2>6 DEF Launching
<1> QED  BY <1>1, <1>2, <1>3, <1>5 DEF ParInv

\* A chunk's partial result is replaced by its final one.
LEMMA ChunkParsed ==
  ASSUME ParInv, Chunked, Fixed, NEW c \in 1 .. NumChunks,
         partials' = [partials EXCEPT ![c] = ParsedChunk(c)]
  PROVE  /\ Chunked' /\ Finished(c)'
         /\ \A d \in 1 .. NumChunks : Finished(d) => Finished(d)'
<1>1. DOMAIN partials = 1 .. NumChunks
  BY DEF Chunked
<1>2. /\ DOMAIN partials' = DOMAIN partials /\ partials'[c] = ParsedChunk(c)
      /\ \A d \in 1 .. NumChunks : d # c => partials'[d] = partials[d]
  BY <1>1
<1>3. Chunked' /\ \A d : ParsedChunk(d)' = ParsedChunk(d)
  BY <1>2, FixedKeeps
<1>4. Finished(c)'
  BY <1>2, <1>3 DEF Finished
<1>5. ASSUME NEW d \in 1 .. NumChunks, Finished(d) PROVE Finished(d)'
  BY <1>2, <1>3, <1>5 DEF Finished
<1> QED  BY <1>3, <1>4, <1>5

LEMMA InlineStep ==
  ASSUME ParInv, ParseInline
  PROVE  ParInv'
<1>1. /\ Fixed /\ pc = "launch" /\ pc' = "launch" /\ loop <= NumChunks
      /\ partials' = [partials EXCEPT ![loop] = ParsedChunk(loop)]
      /\ threads' = threads /\ parsing' = parsing
      /\ loop' = loop + 1 /\ merged' = merged /\ doc_last' = doc_last
  BY DEF ParseInline, Args, Fixed
<1>2. /\ Flat(merged) /\ (merged.count # 0 => Tidy(merged, doc_last)) /\ Chunked /\ Launching
  BY <1>1 DEF ParInv
<1>3. Arguments' /\ NumChunks' = NumChunks /\ NoDom' = NoDom
  BY <1>1, FixedKeeps
<1>4. NumChunks \in Nat /\ loop \in Nat /\ loop \in 1 .. NumChunks
  BY <1>1, <1>2, ChunksAre DEF Launching
<1> PICK one \in 1 .. NumChunks : one = loop
  BY <1>4
<1>5. Chunked' /\ Finished(one)' /\ \A d \in 1 .. NumChunks : Finished(d) => Finished(d)'
  BY <1>1, <1>2, ChunkParsed
<1>6. Launching'
  <2>1. loop' \in 1 .. NumChunks' + 1 /\ merged' = NoDom' /\ threads' \in Seq(Nat)
    BY <1>1, <1>2, <1>3, <1>4 DEF Launching
  <2>2. ASSUME NEW c \in 1 .. loop' - 1 PROVE Finished(c)' \/ c \in parsing'
    <3>1. c = one \/ (c \in 1 .. loop - 1 /\ c \in 1 .. NumChunks)
      BY <1>1, <1>4
    <3>2. c \in 1 .. loop - 1 => Finished(c) \/ c \in parsing
      BY <1>2 DEF Launching
    <3> QED  BY <1>1, <1>5, <3>1, <3>2
  <2>3. ASSUME NEW c \in parsing'
        PROVE  c \in 1 .. NumChunks' /\ \E k \in 1 .. Len(threads') : threads'[k] = c
    BY <1>1, <1>2, <1>3 DEF Launching
  <2> QED  BY <2>1, <2>2, <2>3 DEF Launching
<1> QED  BY <1>1, <1>2, <1>3, <1>5, <1>6 DEF ParInv

LEMMA LaunchedStep ==
  ASSUME ParInv, Launched
  PROVE  ParInv'
<1>1. /\ Fixed /\ pc = "launch" /\ pc' = "join" /\ loop > NumChunks /\ loop' = 1
      /\ UNCHANGED <<partials, threads, parsing, merged, doc_last>>
  BY DEF Launched, Args, Fixed
<1>2. /\ Flat(merged) /\ (merged.count # 0 => Tidy(merged, doc_last)) /\ Chunked /\ Launching
  BY <1>1 DEF ParInv
<1>3. /\ Arguments' /\ NumChunks' = NumChunks /\ NoDom' = NoDom /\ Chunked'
      /\ \A c : ParsedChunk(c)' = ParsedChunk(c)
  BY <1>1, <1>2, FixedKeeps
<1>4. NumChunks \in Nat /\ loop = NumChunks + 1 /\ threads \in Seq(Nat) /\ Len(threads) \in Nat
  BY <1>1, <1>2, ChunksAre, LenProperties DEF Launching
<1>5. Joining'
  <2>1. loop' \in 1 .. Len(threads') + 1 /\ merged' = NoDom' /\ threads' \in Seq(Nat)
    BY <1>1, <1>2, <1>3, <1>4 DEF Launching
  <2>2. ASSUME NEW c \in 1 .. NumChunks' PROVE Finished(c)' \/ c \in parsing'
    <3>1. c \in 1 .. loop - 1
      BY <1>3, <1>4
    <3>2. Finished(c) \/ c \in parsing
      BY <1>2, <3>1 DEF Launching
    <3> QED  BY <1>1, <1>3, <3>2 DEF Finished
  <2>3. ASSUME NEW c \in parsing'
        PROVE  c \in 1 .. NumChunks' /\ \E k \in loop' .. Len(threads') : threads'[k] = c
    BY <1>1, <1>2, <1>3 DEF Launching
  <2> QED  BY <2>1, <2>2, <2>3 DEF Joining
<1> QED  BY <1>1, <1>2, <1>3, <1>5 DEF ParInv

LEMMA ThreadStep ==
  ASSUME ParInv, NEW c \in parsing, ThreadParses(c)
  PROVE  ParInv'
<1>1. /\ Fixed /\ pc' = pc
      /\ partials' = [partials EXCEPT ![c] = ParsedChunk(c)]
      /\ parsing' = parsing \ {c}
      /\ threads' = threads /\ loop' = loop /\ merged' = merged /\ doc_last' = doc_last
  BY DEF ThreadParses, Args, Fixed
<1>2. /\ Flat(merged) /\ (merged.count # 0 => Tidy(merged, doc_last))
      /\ pc \in {"launch", "join", "done"}
  BY DEF ParInv, Merging, AllParsed
<1>3. Arguments' /\ NumChunks' = NumChunks /\ NoDom' = NoDom
  BY <1>1, FixedKeeps
<1>4. CASE pc = "launch"
  <2>1. Chunked /\ Launching
    BY <1>4 DEF ParInv
  <2>2. c \in 1 .. NumChunks
    BY <2>1 DEF Launching
  <2>3. Chunked' /\ Finished(c)' /\ \A d \in 1 .. NumChunks : Finished(d) => Finished(d)'
    BY <1>1, <2>1, <2>2, ChunkParsed
  <2>4. Launching'
    <3>1. loop' \in 1 .. NumChunks' + 1 /\ merged' = NoDom' /\ threads' \in Seq(Nat)
      BY <1>1, <1>3, <2>1 DEF Launching
    <3>2. ASSUME NEW d \in 1 .. loop' - 1 PROVE Finished(d)' \/ d \in parsing'
      <4>1. d \in 1 .. NumChunks /\ d \in 1 .. loop - 1
        BY <1>1, <2>1, ChunksAre DEF Launching
      <4>2. Finished(d) \/ d \in parsing
        BY <2>1, <4>1 DEF Launching
      <4> QED  BY <1>1, <2>3, <4>1, <4>2
    <3>3. ASSUME NEW d \in parsing'
          PROVE  d \in 1 .. NumChunks' /\ \E k \in 1 .. Len(threads') : threads'[k] = d
      <4>1. d \in parsing
        BY <1>1
      <4> QED  BY <1>1, <1>3, <2>1, <4>1 DEF Launching
    <3> QED  BY <3>1, <3>2, <3>3 DEF Launching
  <2> QED  BY <1>1, <1>2, <1>3, <1>4, <2>3, <2>4 DEF ParInv
<1>5. CASE pc = "join"
  <2>1. Chunked /\ Joining
    BY <1>5 DEF ParInv
  <2>2. c \in 1 .. NumChunks
    BY <2>1 DEF Joining
  <2>3. Chunked' /\ Finished(c)' /\ \A d \in 1 .. NumChunks : Finished(d) => Finished(d)'
    BY <1>1, <2>1, <2>2, ChunkParsed
  <2>4. Joining'
    <3>1. loop' \in 1 .. Len(threads') + 1 /\ merged' = NoDom' /\ threads' \in Seq(Nat)
      BY <1>1, <1>3, <2>1 DEF Joining
    <3>2. ASSUME NEW d \in 1 .. NumChunks' PROVE Finished(d)' \/ d \in parsing'
      <4>1. Finished(d) \/ d \in parsing
        BY <1>3, <2>1 DEF Joining
      <4> QED  BY <1>1, <1>3, <2>3, <4>1
    <3>3. ASSUME NEW d \in parsing'
          PROVE  d \in 1 .. NumChunks' /\ \E k \in loop' .. Len(threads') : threads'[k] = d
      <4>1. d \in parsing
        BY <1>1
      <4> QED  BY <1>1, <1>3, <2>1, <4>1 DEF Joining
    <3> QED  BY <3>1, <3>2, <3>3 DEF Joining
  <2> QED  BY <1>1, <1>2, <1>3, <1>5, <2>3, <2>4 DEF ParInv
<1>6. CASE pc = "done"
  BY <1>1, <1>2, <1>3, <1>6 DEF ParInv
<1> QED  BY <1>2, <1>4, <1>5, <1>6

\* A thread that has ended is joined.
LEMMA JoinStep ==
  ASSUME ParInv, Join
  PROVE  ParInv'
<1>1. /\ Fixed /\ pc = "join" /\ pc' = "join" /\ loop <= Len(threads) /\ threads[loop] \notin parsing
      /\ loop' = loop + 1
      /\ UNCHANGED <<partials, threads, parsing, merged, doc_last>>
  BY DEF Join, Args, Fixed
<1>2. /\ Flat(merged) /\ (merged.count # 0 => Tidy(merged, doc_last)) /\ Chunked /\ Joining
  BY <1>1 DEF ParInv
<1>3. /\ Arguments' /\ NumChunks' = NumChunks /\ NoDom' = NoDom /\ Chunked'
      /\ \A c : ParsedChunk(c)' = ParsedChunk(c)
  BY <1>1, <1>2, FixedKeeps
<1>4. Len(threads) \in Nat /\ loop \in 1 .. Len(threads)
  BY <1>1, <1>2, LenProperties DEF Joining
<1>5. Joining'
  <2>1. loop' \in 1 .. Len(threads') + 1 /\ merged' = NoDom' /\ threads' \in Seq(Nat)
    BY <1>1, <1>2, <1>3, <1>4 DEF Joining
  <2>2. ASSUME NEW c \in 1 .. NumChunks' PROVE Finished(c)' \/ c \in parsing'
    <3>1. Finished(c) \/ c \in parsing
      BY <1>2, <1>3 DEF Joining
    <3> QED  BY <1>1, <1>3, <3>1 DEF Finished
  <2>3. ASSUME NEW c \in parsing'
        PROVE  c \in 1 .. NumChunks' /\ \E k \in loop' .. Len(threads') : threads'[k] = c
    <3>1. c \in parsing
      BY <1>1
    <3>2. PICK k \in loop .. Len(threads) : threads[k] = c
      BY <1>2, <3>1 DEF Joining
    <3>3. k # loop
      BY <1>1, <3>1, <3>2
    <3>4. k \in loop + 1 .. Len(threads)
      BY <1>4, <3>3
    <3>5. c \in 1 .. NumChunks
      BY <1>2, <3>1 DEF Joining
    <3> QED  BY <1>1, <1>3, <3>2, <3>4, <3>5
  <2> QED  BY <2>1, <2>2, <2>3 DEF Joining
<1> QED  BY <1>1, <1>2, <1>3, <1>5 DEF ParInv

LEMMA JoinedStep ==
  ASSUME ParInv, Joined
  PROVE  ParInv'
<1>1. /\ Fixed /\ pc = "join" /\ pc' = "merge" /\ loop > Len(threads) /\ loop' = 1
      /\ UNCHANGED <<partials, threads, parsing, merged, doc_last>>
  BY DEF Joined, Args, Fixed
<1>2. /\ Flat(merged) /\ (merged.count # 0 => Tidy(merged, doc_last)) /\ Chunked /\ Joining
  BY <1>1 DEF ParInv
<1>3. /\ Arguments' /\ NumChunks' = NumChunks /\ NoDom' = NoDom /\ Chunked'
      /\ \A c : ParsedChunk(c)' = ParsedChunk(c)
  BY <1>1, <1>2, FixedKeeps
<1>4. parsing = {}
  <2>1. Len(threads) \in Nat /\ loop \in 1 .. Len(threads) + 1
    BY <1>2, LenProperties DEF Joining
  <2>2. \A k \in loop .. Len(threads) : FALSE
    BY <1>1, <2>1
  <2> QED  BY <1>2, <2>2 DEF Joining
<1>5. Merging'
  <2>1. loop' \in 1 .. NumChunks' + 1
    BY <1>1, <1>2, <1>3, ChunksAre
  <2>2. AllParsed'
    <3>1. ASSUME NEW c \in 1 .. NumChunks' PROVE Finished(c)'
      <4>1. Finished(c)
        BY <1>2, <1>3, <1>4 DEF Joining
      <4> QED  BY <1>1, <1>3, <4>1 DEF Finished
    <3> QED  BY <1>1, <1>4, <3>1 DEF AllParsed
  <2>3. merged'.count = 0
    <3>1. merged = NoDom /\ NoDom.count = 0
      BY <1>2, NoDomFlat DEF Joining, ParInv, Arguments
    <3> QED  BY <1>1, <3>1
  <2> QED  BY <1>1, <2>1, <2>2, <2>3 DEF Merging
<1> QED  BY <1>1, <1>2, <1>3, <1>5 DEF ParInv

\* A chunk is merged.
LEMMA MergeStep ==
  ASSUME ParInv, MergeChunk
  PROVE  ParInv'
<1> DEFINE p == partials[loop]
           q == WithCopies(p)
           r == ChunkRoot(p)
           c == [q EXCEPT !.nodes = Chained(@, Document, "first_child", doc_last, r)]
<1>1. /\ Fixed /\ pc = "merge" /\ pc' = "merge" /\ loop <= NumChunks /\ loop' = loop + 1
      /\ UNCHANGED <<partials, threads, parsing>>
  BY DEF MergeChunk, Args, Fixed
<1>2. /\ Flat(merged) /\ (merged.count # 0 => Tidy(merged, doc_last)) /\ Chunked /\ Merging /\ Arguments
  BY <1>1 DEF ParInv
<1>3. /\ Arguments' /\ NumChunks' = NumChunks /\ NoDom' = NoDom /\ Chunked'
      /\ \A d : ParsedChunk(d)' = ParsedChunk(d)
  BY <1>1, <1>2, FixedKeeps
<1>4. NumChunks \in Nat /\ loop \in 1 .. NumChunks
  BY <1>1, <1>2, ChunksAre DEF Merging
<1>5. IsTree(p)
  <2>1. Finished(loop)
    BY <1>2, <1>4 DEF Merging, AllParsed
  <2>2. IsTree(ParsedChunk(loop))
    BY <1>2, <1>4, ChunkIsTree
  <2> QED  BY <2>1, <2>2 DEF Finished
<1>6. p.count \in Nat /\ p.count >= 2 /\ p.count # 0 /\ RootInv(p)
  BY <1>5, TreeFields DEF IsTree
<1>7. \/ loop = 1 /\ merged' = [q EXCEPT !.root = p.root] /\ doc_last' = LastKid(q.nodes)
      \/ loop # 1 /\ p.root = Null /\ merged' = q /\ doc_last' = doc_last
      \/ loop # 1 /\ p.root # Null /\ merged' = c /\ doc_last' = r
  BY <1>6 DEF MergeChunk
<1> HIDE DEF p
<1>8. Copies(q, merged, p)
  BY <1>2, <1>5, CopiesAre
<1>9. Flat(q) /\ q.count = merged.count + p.count /\ merged.count \in Nat /\ q.count \in Nat /\ q.count # 0
  <2>1. merged.count \in Nat
    BY <1>2, FlatFields
  <2>2. Flat(q) /\ q.count = merged.count + p.count
    BY <1>8 DEF Copies
  <2> QED  BY <1>6, <2>1, <2>2
<1>10. Flat(merged') /\ merged'.count # 0 /\ Tidy(merged', doc_last')
  <2>1. CASE loop = 1
    <3>1. merged' = [q EXCEPT !.root = p.root] /\ doc_last' = LastKid(q.nodes)
      BY <1>7, <2>1
    <3>2. merged.count = 0
      BY <1>2, <2>1 DEF Merging
    <3>3. IsArray(q.nodes, q.count)
      BY <1>2, <1>5, <1>8, <3>2, CopiesArray
    <3>4. LastKid(q.nodes) \in 0 .. q.count - 1
      BY <3>3, LastKidIs
    <3>5. Tidy(q, LastKid(q.nodes))
      BY <1>2, <1>5, <1>8, <3>2, <3>4, FirstTidy
    <3>6. p.root \in Nat /\ q \in Doms
      BY <1>6, <1>9 DEF RootInv, Null, Flat
    <3> HIDE DEF q
    <3>7. merged' \in Doms /\ merged'.nodes = q.nodes /\ merged'.count = q.count
      BY <3>1, <3>6, DomsField
    <3> QED  BY <1>9, <3>1, <3>5, <3>7 DEF Flat, Tidy
  <2>2. CASE loop # 1 /\ p.root = Null
    <3>1. merged' = q /\ doc_last' = doc_last
      BY <1>7, <2>2
    <3>2. Tidy(merged, doc_last)
      BY <1>2, <2>2 DEF Merging
    <3>3. Tidy(q, doc_last)
      BY <1>2, <1>5, <1>8, <3>2, UnlinkedTidy
    <3> QED  BY <1>9, <3>1, <3>3
  <2>3. CASE loop # 1 /\ p.root # Null
    <3>1. merged' = c /\ doc_last' = r
      BY <1>7, <2>3
    <3>2. Tidy(merged, doc_last)
      BY <1>2, <2>3 DEF Merging
    <3>3. r \in merged.count .. q.count - 1
      <4>1. p.root \in 2 .. p.count - 1
        BY <1>6, <2>3 DEF RootInv
      <4> QED  BY <1>6, <1>9, <4>1 DEF ChunkRoot
    <3> DEFINE ns == Chained(q.nodes, Document, "first_child", doc_last, r)
    <3>4. c = [q EXCEPT !.nodes = ns] /\ q \in Doms
      BY <1>9 DEF Flat, Doms
    <3> HIDE DEF q, r, c
    <3>5. ns \in [0 .. q.count - 1 -> NodeType]
      <4> DEFINE e == [count |-> q.count, nodes |-> ns]
      <4>1. e.count = q.count /\ e.nodes = ns
        OBVIOUS
      <4> HIDE DEF e
      <4>2. e.nodes \in [0 .. q.count - 1 -> NodeType]
        BY <1>2, <1>5, <1>8, <3>2, <3>3, <4>1, LinkedTidy
      <4> QED  BY <4>1, <4>2
    <3> HIDE DEF ns
    <3>6. c \in Doms /\ c.nodes = ns /\ c.count = q.count
      BY <1>9, <3>4, <3>5, DomsField
    <3>7. Tidy(c, r)
      BY <1>2, <1>5, <1>8, <3>2, <3>3, <3>6, LinkedTidy DEF ns
    <3> QED  BY <1>9, <3>1, <3>5, <3>6, <3>7 DEF Flat
  <2> QED  BY <2>1, <2>2, <2>3
<1>11. Merging'
  <2>1. loop' \in 1 .. NumChunks' + 1 /\ loop' # 1
    BY <1>1, <1>3, <1>4
  <2>2. AllParsed'
    <3>1. ASSUME NEW d \in 1 .. NumChunks' PROVE Finished(d)'
      <4>1. Finished(d)
        BY <1>2, <1>3 DEF Merging, AllParsed
      <4> QED  BY <1>1, <1>3, <4>1 DEF Finished
    <3> QED  BY <1>1, <1>2, <3>1 DEF Merging, AllParsed
  <2> QED  BY <1>10, <2>1, <2>2 DEF Merging
<1> QED  BY <1>1, <1>3, <1>10, <1>11 DEF ParInv

LEMMA NextPar == ParInv /\ [ParNext]_parVars => ParInv'
<1> SUFFICES ASSUME ParInv, [ParNext]_parVars PROVE ParInv'
  OBVIOUS
<1>1. CASE Serially
  <2>1. /\ Fixed /\ pc = "scan" /\ pc' = "done" /\ doc_last' = doc_last
        /\ merged' = Serial
    BY <1>1 DEF Serially, Args, Fixed, Serial
  <2>2. Arguments /\ doc_last = Null
    BY <2>1 DEF ParInv
  <2>3. Flat(merged') /\ Tidy(merged', Null)
    BY <2>1, <2>2, WholeTidy
  <2>4. Arguments'
    BY <2>1, FixedKeeps
  <2> QED  BY <2>1, <2>2, <2>3, <2>4 DEF ParInv
<1>2. CASE Merged
  <2>1. Fixed /\ pc' = "done" /\ merged' = merged /\ doc_last' = doc_last
    BY <1>2 DEF Merged, Args, Fixed
  <2>2. Flat(merged) /\ (merged.count # 0 => Tidy(merged, doc_last))
    BY DEF ParInv
  <2>3. Arguments'
    BY <2>1, FixedKeeps
  <2> QED  BY <2>1, <2>2, <2>3 DEF ParInv
<1>3. CASE UNCHANGED parVars
  <2>1. Fixed /\ UNCHANGED <<pc, partials, threads, parsing, loop, merged, doc_last>>
    BY <1>3 DEF parVars, Fixed
  <2>2. /\ Arguments' /\ NumChunks' = NumChunks /\ NoDom' = NoDom /\ (Chunked => Chunked')
        /\ \A c : ParsedChunk(c)' = ParsedChunk(c)
    BY <2>1, FixedKeeps
  <2>3. \A c : Finished(c)' <=> Finished(c)
    BY <2>1, <2>2 DEF Finished
  <2>4. Launching => Launching'
    BY <2>1, <2>2, <2>3 DEF Launching
  <2>5. Joining => Joining'
    BY <2>1, <2>2, <2>3 DEF Joining
  <2>6. Merging => Merging'
    BY <2>1, <2>2, <2>3 DEF Merging, AllParsed
  <2> QED  BY <2>1, <2>2, <2>4, <2>5, <2>6 DEF ParInv
<1>4. CASE Split \/ Launch \/ ParseInline \/ Launched
  BY <1>4, SplitStep, LaunchStep, InlineStep, LaunchedStep
<1>5. CASE Join \/ Joined \/ MergeChunk
  BY <1>5, JoinStep, JoinedStep, MergeStep
<1>6. CASE \E c \in parsing : ThreadParses(c)
  BY <1>6, ThreadStep
<1> QED  BY <1>1, <1>2, <1>3, <1>4, <1>5, <1>6 DEF ParNext, Main, Returned

\* However the input is cut and in whatever order the threads finish, at every moment of
\* the merge links lead forward and a walk meets no node twice (the merge loop of
\* parallel_fast_dom_parse, which copies the later chunks' document nodes with their links).
THEOREM MergeCorrect == ParSpec => []MergedIsTree
<1>1. ParInv => MergedIsTree
  <2> SUFFICES ASSUME ParInv, merged.count # 0
               PROVE  LinksForward(merged.nodes) /\ IsInjective(Walk(merged.nodes))
    BY DEF MergedIsTree
  <2>1. Tidy(merged, doc_last)
    BY DEF ParInv
  <2>2. PICK V : Closed(merged.nodes, V)
    BY <2>1 DEF Tidy
  <2>3. IsArray(merged.nodes, merged.count)
    BY <2>1 DEF Tidy
  <2> QED  BY <2>2, <2>3, WalkInjective DEF IsArray
<1> QED  BY <1>1, InitPar, NextPar, PTL DEF ParSpec

\* No chunk is merged before every one is parsed, by a thread or inline: the threads that
\* are joined are all that were launched (parallel_fast_dom_parse).
ChunksBeforeMerge ==
  pc = "merge" => parsing = {} /\ \A c \in 1 .. NumChunks : partials[c] = ParsedChunk(c)

THEOREM JoinCorrect == ParSpec => []ChunksBeforeMerge
<1>1. ParInv => ChunksBeforeMerge
  BY DEF ParInv, Merging, AllParsed, Finished, ChunksBeforeMerge
<1> QED  BY <1>1, InitPar, NextPar, PTL DEF ParSpec

-----------------------------------------------------------------------------
(* The values of a merged result.                                          *)

\* What is read of a node whose value is in the buffer is its token's, all there.
InBuffer(dc, values, node) ==
  LET v == node.val IN
  /\ node.at \in 1 .. Len(dc) /\ v.len = Clamped(dc[node.at].w)
  /\ v.offset \in Nat /\ v.offset + v.len <= Len(values)
  /\ \A j \in 1 .. v.len : values[v.offset + j] = <<node.at, j>>

Buffered(dc, m) ==
  \A k \in 0 .. m.count - 1 :
    m.nodes[k].val.in_values => InBuffer(dc, m.values, m.nodes[k])

\* A chunk's nodes and values, copied behind the others'.
LEMMA CopiesData ==
  ASSUME Flat(merged), NEW p, IsTree(p)
  PROVE  LET q == WithCopies(p) IN
         /\ q.count = merged.count + p.count
         /\ q.values = merged.values \o p.values
         /\ \A i \in 0 .. merged.count - 1 : q.nodes[i] = merged.nodes[i]
         /\ \A i \in merged.count .. q.count - 1 :
              LET a == p.nodes[i - merged.count] IN
              /\ q.nodes[i].at = a.at
              /\ q.nodes[i].val = ValueMoved(a.val, Len(merged.values))
<1> DEFINE base == merged.count
           voff == Len(merged.values)
           n == p.count
           ns == [i \in 0 .. base + n - 1 |->
                   IF i < base THEN merged.nodes[i] ELSE Copied(p.nodes[i - base], base, voff)]
           vs == merged.values \o p.values
           q == WithCopies(p)
<1>1. /\ base \in Nat /\ n \in Nat /\ p.nodes \in [0 .. n - 1 -> NodeType]
  BY FlatFields, TreeFields
<1>2. q.nodes = ns /\ q.count = base + n /\ q.values = vs
  <2> HIDE DEF ns, base, n, vs
  <2>1. q = [merged EXCEPT !.nodes = ns, !.count = base + n, !.values = vs]
    BY DEF WithCopies, Flat, Doms, ns, base, n, vs
  <2> QED  BY <2>1 DEF Flat, Doms
<1> HIDE DEF q
<1>3. \A i \in 0 .. base - 1 : i \in 0 .. base + n - 1 /\ i < base
  BY <1>1
<1>4. ASSUME NEW i \in base .. base + n - 1
      PROVE  LET a == p.nodes[i - base] IN
             q.nodes[i].at = a.at /\ q.nodes[i].val = ValueMoved(a.val, voff)
  <2> DEFINE a == p.nodes[i - base]
  <2>1. i - base \in 0 .. n - 1 /\ i \in 0 .. base + n - 1 /\ ~(i < base)
    BY <1>1
  <2>2. a \in NodeType
    BY <1>1, <2>1
  <2>3. q.nodes[i] = Copied(a, base, voff)
    BY <1>2, <2>1
  <2> HIDE DEF a
  <2>4. Copied(a, base, voff).at = a.at /\ Copied(a, base, voff).val = ValueMoved(a.val, voff)
    BY <2>2 DEF Copied, NodeType
  <2> QED  BY <2>3, <2>4 DEF a
<1>5. \A i \in 0 .. base - 1 : q.nodes[i] = merged.nodes[i]
  BY <1>2, <1>3
<1>6. q.values = merged.values \o p.values /\ q.count = merged.count + p.count
  BY <1>2
<1>7. ASSUME NEW i \in merged.count .. q.count - 1
      PROVE  LET a == p.nodes[i - merged.count] IN
             q.nodes[i].at = a.at /\ q.nodes[i].val = ValueMoved(a.val, Len(merged.values))
  <2>1. q.count = base + n
    BY <1>2
  <2> HIDE DEF n
  <2>2. i \in base .. base + n - 1
    BY <1>1, <2>1
  <2> QED  BY <1>4, <2>2
<1> HIDE DEF ns, vs
<1> QED  BY <1>5, <1>6, <1>7 DEF q

\* The values of the earlier chunks stay where they were, and the offsets of the new
\* chunk's are counted from their end.
LEMMA CopiesBuffered ==
  ASSUME Flat(merged), NEW dc, Buffered(dc, merged), NEW p, IsTree(p), NEW s, ValuesInv(dc, s, p)
  PROVE  Buffered(dc, WithCopies(p))
<1> DEFINE q == WithCopies(p)
           voff == Len(merged.values)
           base == merged.count
           n == p.count
           L == Len(p.values)
<1>1. /\ q.count = base + n /\ q.values = merged.values \o p.values
      /\ \A i \in 0 .. base - 1 : q.nodes[i] = merged.nodes[i]
      /\ \A i \in base .. q.count - 1 :
           LET a == p.nodes[i - base] IN
           q.nodes[i].at = a.at /\ q.nodes[i].val = ValueMoved(a.val, voff)
  BY CopiesData
<1>2. /\ base \in Nat /\ n \in Nat /\ merged.values \in Seq(Nat \X Nat) /\ p.values \in Seq(Nat \X Nat)
      /\ p.nodes \in [0 .. n - 1 -> NodeType] /\ merged.nodes \in [0 .. base - 1 -> NodeType]
  BY FlatFields, TreeFields
<1>3. voff \in Nat /\ L \in Nat
  BY <1>2, LenProperties
<1>4. /\ Len(q.values) = voff + L
      /\ \A j \in 1 .. voff + L : q.values[j] = IF j <= voff THEN merged.values[j] ELSE p.values[j - voff]
  <2> DEFINE a == merged.values
             b == p.values
  <2>1. a \in Seq(Nat \X Nat) /\ b \in Seq(Nat \X Nat) /\ q.values = a \o b
    BY <1>1, <1>2
  <2> HIDE DEF a, b, q
  <2>2. /\ Len(a \o b) = Len(a) + Len(b)
        /\ \A j \in 1 .. Len(a) + Len(b) :
             (a \o b)[j] = IF j <= Len(a) THEN a[j] ELSE b[j - Len(a)]
    BY <2>1, ConcatProperties
  <2> QED  BY <2>1, <2>2 DEF a, b
<1> HIDE DEF q, voff, L, base, n
<1> SUFFICES ASSUME NEW i \in 0 .. q.count - 1, q.nodes[i].val.in_values
             PROVE  InBuffer(dc, q.values, q.nodes[i])
  BY DEF Buffered, q
<1>5. CASE i < base
  <2>1. i \in 0 .. base - 1
    BY <1>2, <1>5
  <2> DEFINE a == merged.nodes[i]
             o == a.val.offset
             l == a.val.len
  <2>2. q.nodes[i] = a /\ a \in NodeType
    BY <1>1, <1>2, <2>1
  <2>3. InBuffer(dc, merged.values, a)
    BY <2>1, <2>2 DEF Buffered, base
  <2>4. /\ a.at \in 1 .. Len(dc) /\ l = Clamped(dc[a.at].w)
        /\ o \in Nat /\ o + l <= voff /\ l \in Nat
        /\ \A j \in 1 .. l : merged.values[o + j] = <<a.at, j>>
    BY <2>2, <2>3 DEF InBuffer, NodeType, Value, voff
  <2> HIDE DEF o, l
  <2>5. \A j \in 1 .. l : o + j \in 1 .. voff + L /\ o + j <= voff
    BY <1>3, <2>4
  <2>6. \A j \in 1 .. l : q.values[o + j] = <<a.at, j>>
    BY <1>4, <2>4, <2>5
  <2>7. o + l <= Len(q.values)
    BY <1>3, <1>4, <2>4
  <2> HIDE DEF a
  <2> QED  BY <2>2, <2>4, <2>6, <2>7 DEF InBuffer, o, l
<1>6. CASE ~(i < base)
  <2>1. i \in base .. q.count - 1 /\ i - base \in 0 .. n - 1
    BY <1>1, <1>2, <1>6
  <2> DEFINE a == p.nodes[i - base]
             o == a.val.offset
             l == a.val.len
  <2>2. /\ q.nodes[i].at = a.at /\ q.nodes[i].val = ValueMoved(a.val, voff) /\ a \in NodeType
    BY <1>1, <1>2, <2>1
  <2>3. a.val.in_values /\ a.val \in Value
    <3>1. a.val \in Value
      BY <2>2 DEF NodeType
    <3> QED  BY <2>2, <3>1 DEF ValueMoved
  <2>4. Sound(dc, s, p.values, a)
    BY <2>1, <2>3 DEF ValuesInv, n
  <2>5. /\ a.at \in 1 .. Len(dc) /\ l = Clamped(dc[a.at].w)
        /\ o \in Nat /\ o + l <= L /\ l \in Nat
        /\ \A j \in 1 .. l : p.values[o + j] = <<a.at, j>>
    BY <2>3, <2>4 DEF Sound, Value, L
  <2>6. q.nodes[i].val.offset = o + voff /\ q.nodes[i].val.len = l
    BY <2>2, <2>3 DEF ValueMoved, Value
  <2> HIDE DEF o, l
  <2>7. ASSUME NEW j \in 1 .. l PROVE q.values[(o + voff) + j] = <<a.at, j>>
    <3>1. (o + voff) + j \in 1 .. voff + L /\ ~((o + voff) + j <= voff) /\ ((o + voff) + j) - voff = o + j
      BY <1>3, <2>5
    <3> QED  BY <1>4, <2>5, <3>1
  <2>8. o + voff \in Nat /\ (o + voff) + l <= Len(q.values)
    BY <1>3, <1>4, <2>5
  <2> HIDE DEF a
  <2> QED  BY <2>2, <2>5, <2>6, <2>7, <2>8 DEF InBuffer
<1> QED  BY <1>5, <1>6

\* A new link is no new value.
LEMMA ChainedBuffered ==
  ASSUME NEW dc, NEW m, Flat(m), Buffered(dc, m), NEW last, NEW r, NEW c,
         c.count = m.count, c.values = m.values,
         c.nodes = Chained(m.nodes, Document, "first_child", last, r)
  PROVE  Buffered(dc, c)
<1>1. ASSUME NEW k \in 0 .. m.count - 1
      PROVE  c.nodes[k].val = m.nodes[k].val /\ c.nodes[k].at = m.nodes[k].at
  <2>1. m.nodes \in [0 .. m.count - 1 -> NodeType]
    BY DEF Flat
  <2> QED  BY <2>1 DEF Chained, NodeType
<1>2. ASSUME NEW k \in 0 .. c.count - 1, c.nodes[k].val.in_values
      PROVE  InBuffer(dc, c.values, c.nodes[k])
  <2>1. InBuffer(dc, m.values, m.nodes[k])
    BY <1>1, <1>2 DEF Buffered
  <2> QED  BY <1>1, <1>2, <2>1 DEF InBuffer
<1> QED  BY <1>2 DEF Buffered

\* The values so far are the input's.
ValuesMerged == Buffered(Seen(input, 1), merged)

LEMMA InitBuffered == ParInit => ValuesMerged
<1> SUFFICES ASSUME ParInit PROVE Buffered(Seen(input, 1), merged)
  BY DEF ValuesMerged
<1>1. flags \in SUBSET Flags /\ merged = NoDom
  BY ParallelAssumption DEF ParInit
<1>2. merged.count = 0
  BY <1>1, NoDomFlat
<1> QED  BY <1>2 DEF Buffered

\* Only the last two of these steps change the result.
LEMMA NextBuffered == ParInv /\ ValuesMerged /\ [ParNext]_parVars => ValuesMerged'
<1> DEFINE S == Seen(input, 1)
<1> SUFFICES ASSUME ParInv, Buffered(S, merged), [ParNext]_parVars
             PROVE  Buffered(S', merged')
  BY DEF ValuesMerged
<1>1. CASE input' = input /\ merged' = merged
  <2>1. S' = S
    BY <1>1
  <2> QED  BY <1>1, <2>1
<1>2. CASE Serially
  <2>1. S' = S /\ merged' = Serial /\ Arguments
    BY <1>2 DEF Serially, Args, Serial, ParInv
  <2>2. ValuesInv(S, 1, Serial)
    BY <2>1, WholeIsTree
  <2> HIDE DEF S
  <2> DEFINE p == Serial
  <2> HIDE DEF p
  <2>3. ASSUME NEW k \in 0 .. p.count - 1, p.nodes[k].val.in_values
        PROVE  InBuffer(S, p.values, p.nodes[k])
    <3>1. Sound(S, 1, p.values, p.nodes[k])
      BY <2>2, <2>3 DEF ValuesInv, p
    <3> QED  BY <2>3, <3>1 DEF Sound, InBuffer
  <2> QED  BY <2>1, <2>3 DEF Buffered, p
<1>3. CASE MergeChunk
  <2> DEFINE p == partials[loop]
             q == WithCopies(p)
             r == ChunkRoot(p)
             s == First(loop)
  <2>1. S' = S /\ pc = "merge" /\ loop <= NumChunks
    BY <1>3 DEF MergeChunk, Args
  <2>2. Flat(merged) /\ Chunked /\ Merging /\ Arguments
    BY <2>1 DEF ParInv
  <2>3. loop \in 1 .. NumChunks
    BY <2>1, <2>2, ChunksAre DEF Merging
  <2>4. IsTree(p) /\ ValuesInv(S, s, p)
    <3>1. Finished(loop)
      BY <2>2, <2>3 DEF Merging, AllParsed
    <3>2. IsTree(ParsedChunk(loop)) /\ ValuesInv(S, First(loop), ParsedChunk(loop))
      BY <2>2, <2>3, ChunkIsTree
    <3> QED  BY <3>1, <3>2 DEF Finished
  <2>5. p.count # 0
    BY <2>4, TreeFields
  <2>6. \/ merged' = [q EXCEPT !.root = p.root]
        \/ merged' = q
        \/ merged' = [q EXCEPT !.nodes = Chained(@, Document, "first_child", doc_last, r)]
    BY <1>3, <2>5 DEF MergeChunk
  <2>7. Flat(q)
    BY <2>2, <2>4, CopiesAre DEF Copies
  <2>8. Buffered(S, q)
    <3> HIDE DEF p, s
    <3> QED  BY <2>2, <2>4, CopiesBuffered
  <2> HIDE DEF q, p, r, S
  <2>9. q \in Doms
    BY <2>7 DEF Flat
  <2>10. CASE merged' = [q EXCEPT !.root = p.root]
    <3>1. merged'.nodes = q.nodes /\ merged'.count = q.count /\ merged'.values = q.values
      BY <2>9, <2>10 DEF Doms
    <3> QED  BY <2>1, <2>8, <3>1 DEF Buffered
  <2>11. CASE merged' = [q EXCEPT !.nodes = Chained(@, Document, "first_child", doc_last, r)]
    <3>1. /\ merged'.nodes = Chained(q.nodes, Document, "first_child", doc_last, r)
          /\ merged'.count = q.count /\ merged'.values = q.values
      BY <2>9, <2>11 DEF Doms
    <3>2. Buffered(S, merged')
      BY <2>7, <2>8, <3>1, ChainedBuffered
    <3> QED  BY <2>1, <3>2
  <2> QED  BY <2>1, <2>6, <2>8, <2>10, <2>11
<1>4. \/ Split \/ Launch \/ ParseInline \/ Launched \/ Join \/ Joined \/ Merged
      \/ (\E c \in parsing : ThreadParses(c)) \/ UNCHANGED parVars
      => input' = input /\ merged' = merged
  BY DEF Split, Launch, ParseInline, Launched, Join, Joined, Merged, ThreadParses, parVars, Args
<1> QED  BY <1>1, <1>2, <1>3, <1>4 DEF ParNext, Main, Returned

\* However the input is cut, at every moment of the merge value() of every node whose
\* value lies in the buffer is the input's: the buffers of the chunks are put behind each
\* other, and the offsets of a chunk's nodes are moved with theirs (the merge loop of
\* parallel_fast_dom_parse).
THEOREM MergeKeepsValues == ParSpec => []BufferedValuesKept
<1>1. ParInv /\ ValuesMerged => BufferedValuesKept
  <2> DEFINE S == Seen(input, 1)
  <2> SUFFICES ASSUME ParInv, Buffered(S, merged), NEW k \in DOMAIN merged.nodes,
                      merged.nodes[k].val.in_values
               PROVE  ValueOf(merged, 1, merged.nodes[k])
                        = Bytes(merged.nodes[k].at, Min({input[merged.nodes[k].at].w, MaxLen}))
    BY DEF BufferedValuesKept, ValuesMerged
  <2>1. /\ S \in Seq(Token) /\ Len(S) = Len(input) /\ \A i \in 1 .. Len(input) : S[i].w = input[i].w
        /\ Flat(merged)
    BY SeenIs DEF ParInv, Arguments
  <2> HIDE DEF S
  <2>2. /\ merged.values \in Seq(Nat \X Nat)
        /\ merged.nodes[k] \in NodeType /\ k \in 0 .. merged.count - 1
    BY <2>1, FlatFields
  <2>3. InBuffer(S, merged.values, merged.nodes[k])
    BY <2>2 DEF Buffered
  <2>4. Sound(S, 1, merged.values, merged.nodes[k])
    BY <2>3 DEF InBuffer, Sound
  <2>5. merged.nodes[k].at \in 1 .. Len(input)
    BY <2>1, <2>3 DEF InBuffer
  <2>6. ValueOf(merged, 1, merged.nodes[k])
          = Bytes(merged.nodes[k].at, Min({S[merged.nodes[k].at].w, MaxLen}))
    BY <2>1, <2>2, <2>4, SoundIsRead
  <2> QED  BY <2>1, <2>5, <2>6
<1> QED  BY <1>1, InitPar, NextPar, InitBuffered, NextBuffered, PTL DEF ParSpec

-----------------------------------------------------------------------------
(* The document's tree.                                                    *)

Types == {"null", "document", "element", "text", "attribute"}

\* The stack has the open elements with their last children, each within the one
\* before.
StackShows(d) ==
  /\ d.stack[1].node = Document
  /\ \A j \in 1 .. Len(d.stack) : d.stack[j].last = ListEnd(Kids(d.nodes, d.stack[j].node))
  /\ \A i, j \in 1 .. Len(d.stack) : i < j => d.stack[i].node < d.stack[j].node

\* In a tag its element is the last node of the tree.
TagShows(d) ==
  /\ d.elem \in TreeNodes(d.nodes) /\ OrdinalOf(d.nodes, d.elem) = Len(TreeItems(d.nodes))
  /\ Top(d).node < d.elem /\ Kids(d.nodes, d.elem) = <<>>
  /\ d.last_attr = ListEnd(AttrsOn(d.nodes, d.elem))

TreeShown(d) == WellLinked(d.nodes, d.count) /\ StackShows(d)

ShownInv ==
  Fits(doc) => /\ TreeShown(dom) /\ Len(dom.stack) = OpenAfter(doc, pos - 1) + 1
               /\ InTag(doc, pos) => TagShows(dom)

LEMMA PathIs ==
  ASSUME NEW n \in Nat, NEW array, DOMAIN array = 0 .. n - 1, NEW st \in Seq(Entry), Len(st) >= 1
  PROVE  /\ PathOf(array, st) \in Seq(Nat) /\ Len(PathOf(array, st)) = Len(st) - 1
         /\ \A m \in 1 .. Len(st) - 1 : PathOf(array, st)[m] = OrdinalOf(array, st[m + 1].node)
         /\ Len(st) \in Nat
<1>1. Len(st) \in Nat /\ Len(st) - 1 \in Nat
  BY LenProperties
<1>2. \A m \in 1 .. Len(st) - 1 : OrdinalOf(array, st[m + 1].node) \in Nat
  BY TreeNodesType
<1>3. PathOf(array, st) = [m \in 1 .. Len(st) - 1 |-> OrdinalOf(array, st[m + 1].node)]
  BY DEF PathOf
<1> QED  BY <1>1, <1>2, <1>3, IsASeq

\* The innermost open element.
LEMMA InnermostIs ==
  ASSUME NEW n \in Nat, NEW array, DOMAIN array = 0 .. n - 1, NEW st \in Seq(Entry), Len(st) >= 1,
         st[1].node = Document
  PROVE  (IF PathOf(array, st) = <<>> THEN 0 ELSE PathOf(array, st)[Len(PathOf(array, st))])
           = OrdinalOf(array, st[Len(st)].node)
<1>1. /\ PathOf(array, st) \in Seq(Nat) /\ Len(PathOf(array, st)) = Len(st) - 1
      /\ \A m \in 1 .. Len(st) - 1 : PathOf(array, st)[m] = OrdinalOf(array, st[m + 1].node)
      /\ Len(st) \in Nat
  BY PathIs
<1>2. CASE Len(st) = 1
  <2>1. {j \in TreeNodes(array) : j <= Document} = {}
    BY TreeNodesType DEF Document
  <2>2. OrdinalOf(array, Document) = 0
    BY <2>1, FS_EmptySet DEF OrdinalOf
  <2>3. PathOf(array, st) = <<>>
    BY <1>1, <1>2, EmptySeq
  <2> QED  BY <1>2, <2>2, <2>3
<1>3. CASE Len(st) # 1
  <2>1. PathOf(array, st) # <<>>
    BY <1>1, <1>3, EmptySeq
  <2>2. Len(st) - 1 \in 1 .. Len(st) - 1 /\ (Len(st) - 1) + 1 = Len(st)
    BY <1>1, <1>3
  <2>3. PathOf(array, st)[Len(st) - 1] = OrdinalOf(array, st[(Len(st) - 1) + 1].node)
    BY <1>1, <2>2
  <2> QED  BY <1>1, <2>1, <2>2, <2>3
<1> QED  BY <1>2, <1>3

\* The same elements with the same numbers are the same path.
LEMMA PathKept ==
  ASSUME NEW array, NEW more, NEW st, NEW st2, Len(st) \in Nat, Len(st2) = Len(st),
         \A j \in 1 .. Len(st) : OrdinalOf(more, st2[j].node) = OrdinalOf(array, st[j].node)
  PROVE  PathOf(more, st2) = PathOf(array, st)
<1>1. \A m \in 1 .. Len(st) - 1 : m + 1 \in 1 .. Len(st)
  OBVIOUS
<1> QED  BY <1>1 DEF PathOf

\* What holds of the stack of every state.
LEMMA StackIs ==
  ASSUME NEW d, Inv(d)
  PROVE  /\ d.count \in Nat /\ d.count >= 2 /\ DOMAIN d.nodes = 0 .. d.count - 1
         /\ d.nodes \in [0 .. d.count - 1 -> NodeOf(Types, Value)]
         /\ d.stack \in Seq(Entry) /\ Len(d.stack) \in Nat /\ Len(d.stack) >= 1
         /\ Len(d.stack) \in 1 .. Len(d.stack) /\ Len(d.stack) <= MaxStack
         /\ \A j \in 1 .. Len(d.stack) : d.stack[j].node \in 1 .. d.count - 1
                                         /\ d.stack[j].node \in 0 .. d.count - 1
<1>1. /\ d.count \in Nat /\ d.count >= 2 /\ d.nodes \in [0 .. d.count - 1 -> NodeType]
      /\ d.stack \in Seq(Entry) /\ Len(d.stack) \in 1 .. MaxStack /\ Len(d.stack) \in Nat
  BY LenProperties DEF Inv, Typed
<1>2. NodeType = NodeOf(Types, Value)
  BY DEF NodeType, NodeOf, Types
<1>3. Len(d.stack) >= 1 /\ Len(d.stack) <= MaxStack /\ Len(d.stack) \in 1 .. Len(d.stack)
  BY <1>1, StackAssumption
<1>4. \A j \in 1 .. Len(d.stack) : d.stack[j].node \in 1 .. d.count - 1
  BY DEF Inv, StackInv
<1> QED  BY <1>1, <1>2, <1>3, <1>4

\* A child under the innermost open element.
PutShows(d, p, node) ==
  /\ TreeShown(p) /\ Len(p.stack) = Len(d.stack) /\ Top(p).node = Top(d).node
  /\ ChildShows(p.nodes, d.nodes, d.count, Top(d).node, node)
  /\ PathOf(p.nodes, p.stack) = PathOf(d.nodes, d.stack)
  /\ TreeItems(p.nodes) = Append(TreeItems(d.nodes),
       [at |-> node.at, attrs |-> <<>>,
        parent |-> LET path == PathOf(d.nodes, d.stack)
                   IN  IF path = <<>> THEN 0 ELSE path[Len(path)]])

LEMMA PutChildShows ==
  ASSUME NEW d, Inv(d), TreeShown(d), NEW node, Fresh(node), node.type # "attribute"
  PROVE  PutShows(d, PutChild(d, node), node)
<1> DEFINE p == PutChild(d, node)
           n == d.count
           t == Len(d.stack)
           owner == d.stack[t].node
           last == d.stack[t].last
<1>1. /\ n \in Nat /\ n >= 2 /\ DOMAIN d.nodes = 0 .. n - 1
      /\ d.nodes \in [0 .. n - 1 -> NodeOf(Types, Value)]
      /\ d.stack \in Seq(Entry) /\ t \in Nat /\ t >= 1 /\ t \in 1 .. t
      /\ \A j \in 1 .. t : d.stack[j].node \in 0 .. n - 1
      /\ owner \in 0 .. n - 1
  BY StackIs
<1>2. /\ p.nodes = Chained(Grown(d.nodes, n, node), owner, "first_child", last, n)
      /\ p.count = n + 1 /\ SameButLast(d.stack, p.stack, n)
  <2>1. Typed(d) /\ TreeShaped(d.nodes) /\ StackInv(d) /\ node \in NodeType
    BY DEF Inv, Fresh
  <2>2. ChildAdded(d, p, node)
    BY <2>1, PutChildAdds
  <2>3. p.nodes = Chained(Grown(d.nodes, n, node), Top(d).node, "first_child", Top(d).last, n)
    BY <2>1, PutChildFields
  <2> QED  BY <2>2, <2>3 DEF ChildAdded, Top
<1>3. /\ node \in NodeOf(Types, Value) /\ node.next_sibling = Null
      /\ \A f \in Firsts : node[f] = Null
  <2>1. NodeType = NodeOf(Types, Value)
    BY DEF NodeType, NodeOf, Types
  <2>2. node \in NodeOf(Types, Value) /\ node["next_sibling"] = Null /\ \A f \in Firsts : node[f] = Null
    BY <2>1 DEF Fresh, Links, Firsts
  <2>3. node.next_sibling = node["next_sibling"]
    BY <2>2 DEF NodeOf
  <2> QED  BY <2>2, <2>3
<1>4. /\ d.stack[1].node = Document
      /\ \A j \in 1 .. t : d.stack[j].last = ListEnd(Kids(d.nodes, d.stack[j].node))
      /\ \A i, j \in 1 .. t : i < j => d.stack[i].node < d.stack[j].node
      /\ WellLinked(d.nodes, n)
  BY DEF TreeShown, StackShows
<1> HIDE DEF p, n, t
<1>5. ChildShows(p.nodes, d.nodes, n, owner, node)
  <2>1. last = ListEnd(Kids(d.nodes, owner))
    BY <1>1, <1>4
  <2> HIDE DEF owner, last
  <2> QED  BY <1>1, <1>2, <1>3, <1>4, <2>1, ChildShown
<1>6. /\ WellLinked(p.nodes, n + 1)
      /\ \A k \in 0 .. n - 1 : OrdinalOf(p.nodes, k) = OrdinalOf(d.nodes, k)
      /\ \A q \in 0 .. n - 1 : ListEnd(Kids(p.nodes, q)) = IF q = owner THEN n ELSE ListEnd(Kids(d.nodes, q))
      /\ TreeItems(p.nodes) = Append(TreeItems(d.nodes),
           [at |-> node.at, parent |-> OrdinalOf(d.nodes, owner), attrs |-> <<>>])
  BY <1>5 DEF ChildShows
<1>7. /\ Len(p.stack) = t /\ \A j \in 1 .. t : p.stack[j].node = d.stack[j].node
      /\ \A j \in 1 .. t - 1 : p.stack[j] = d.stack[j]
      /\ p.stack[t].last = n
  BY <1>2 DEF SameButLast, t
<1>8. TreeShown(p)
  <2>1. 1 \in 1 .. t
    BY <1>1
  <2>2. ASSUME NEW j \in 1 .. t
        PROVE  p.stack[j].last = ListEnd(Kids(p.nodes, p.stack[j].node))
    <3>1. CASE j = t
      BY <3>1, <1>1, <1>6, <1>7
    <3>2. CASE j # t
      <4>1. j \in 1 .. t - 1 /\ j < t
        BY <1>1, <3>2
      <4>2. d.stack[j].node # owner
        BY <1>1, <1>4, <4>1
      <4> QED  BY <1>1, <1>4, <1>6, <1>7, <4>1, <4>2
    <3> QED  BY <3>1, <3>2
  <2>3. \A i, j \in 1 .. t : i < j => p.stack[i].node < p.stack[j].node
    BY <1>4, <1>7
  <2> QED  BY <1>2, <1>4, <1>6, <1>7, <2>1, <2>2, <2>3 DEF TreeShown, StackShows
<1>9. PathOf(p.nodes, p.stack) = PathOf(d.nodes, d.stack)
  <2>1. Len(p.stack) = Len(d.stack) /\ Len(d.stack) \in Nat
    BY <1>1, <1>7 DEF t
  <2>2. \A j \in 1 .. Len(d.stack) :
          OrdinalOf(p.nodes, p.stack[j].node) = OrdinalOf(d.nodes, d.stack[j].node)
    <3>1. \A j \in 1 .. Len(d.stack) : d.stack[j].node \in 0 .. n - 1
      BY <1>1 DEF t
    <3>2. \A j \in 1 .. Len(d.stack) : p.stack[j].node = d.stack[j].node
      BY <1>7 DEF t
    <3> QED  BY <1>6, <3>1, <3>2
  <2> QED  BY <2>1, <2>2, PathKept
<1>10. OrdinalOf(d.nodes, owner) = LET path == PathOf(d.nodes, d.stack)
                                   IN  IF path = <<>> THEN 0 ELSE path[Len(path)]
  BY <1>1, <1>4, InnermostIs DEF t
<1>11. Top(p).node = Top(d).node /\ Top(d).node = owner
  BY <1>1, <1>7 DEF Top, t
<1> QED  BY <1>5, <1>6, <1>7, <1>8, <1>9, <1>10, <1>11 DEF PutShows, p, n, t

\* What is shown depends on the array and the stack only.
LEMMA ShownKept ==
  ASSUME NEW d, NEW q, q.nodes = d.nodes, q.count = d.count, q.stack = d.stack, TreeShown(d)
  PROVE  TreeShown(q)
BY DEF TreeShown, StackShows

\* One node more in the tree, and the same elements are open.
NodeAdded(d, q, i) ==
  /\ TreeShown(q) /\ Len(q.stack) = Len(d.stack) /\ q.flags = d.flags
  /\ PathOf(q.nodes, q.stack) = PathOf(d.nodes, d.stack)
  /\ TreeItems(q.nodes) = Append(TreeItems(d.nodes),
       [at |-> i, attrs |-> <<>>,
        parent |-> LET path == PathOf(d.nodes, d.stack)
                   IN  IF path = <<>> THEN 0 ELSE path[Len(path)]])

LEMMA TextShows ==
  ASSUME NEW d, Inv(d), TreeShown(d), NEW i \in Nat, NEW tok \in Token, "NO_TEXT" \notin d.flags
  PROVE  NodeAdded(d, AddText(d, i, tok), i)
<1> DEFINE val == [in_values |-> TRUE, offset |-> Len(d.values), len |-> Clamped(tok.w)]
           node == NewNode("text", i, val)
           p == PutChild(d, node)
           q == AddText(d, i, tok)
<1>1. Fresh(node) /\ node.type # "attribute" /\ node.at = i
  <2>1. Clamped(tok.w) \in Nat
    BY ClampedType DEF Token
  <2>2. Len(d.values) \in Nat
    BY LenProperties DEF Inv, Typed
  <2>3. val \in Value
    BY <2>1, <2>2 DEF Value
  <2> HIDE DEF val
  <2> QED  BY <2>3 DEF NewNode, Fresh, NodeType, Links, Null
<1>2. q = [p EXCEPT !.values = @ \o Bytes(i, tok.w)]
  BY DEF AddText
<1>3. Typed(d) /\ node \in NodeType
  BY <1>1 DEF Inv, Fresh
<1> HIDE DEF node, q
<1>4. PutShows(d, p, node)
  BY <1>1, PutChildShows
<1>5. p = [d EXCEPT !.nodes = p.nodes, !.count = p.count, !.stack = p.stack]
  BY <1>3, PutChildFields
<1> HIDE DEF p
<1>6. q.nodes = p.nodes /\ q.count = p.count /\ q.stack = p.stack /\ q.flags = d.flags
  BY <1>2, <1>3, <1>5 DEF Typed
<1>7. TreeShown(q)
  BY <1>4, <1>6, ShownKept DEF PutShows
<1> QED  BY <1>1, <1>4, <1>5, <1>6, <1>7 DEF PutShows, NodeAdded, q

LEMMA ElementShows ==
  ASSUME NEW d, Inv(d), TreeShown(d), NEW i \in Nat
  PROVE  NodeAdded(d, AddElement(d, i), i) /\ TagShows(AddElement(d, i))
<1> DEFINE node == NewNode("element", i, NoValue)
           p == PutChild(d, node)
           q == AddElement(d, i)
           n == d.count
<1>1. Fresh(node) /\ node.type # "attribute" /\ node.at = i
  BY DEF NewNode, Fresh, NodeType, Links, Null, NoValue, Value
<1>2. q = [p EXCEPT !.elem = n, !.last_attr = Null, !.root = RootAfter(d)]
  BY DEF AddElement
<1>3. Typed(d) /\ node \in NodeType /\ n \in Nat /\ Top(d).node < n
  <2>1. Typed(d) /\ node \in NodeType /\ n \in Nat
    BY <1>1 DEF Inv, Typed, Fresh
  <2>2. d.stack[Len(d.stack)].node \in 1 .. n - 1
    BY StackIs
  <2> QED  BY <2>1, <2>2 DEF Top
<1> HIDE DEF node, q
<1>4. PutShows(d, p, node)
  BY <1>1, PutChildShows
<1>5. p = [d EXCEPT !.nodes = p.nodes, !.count = p.count, !.stack = p.stack]
  BY <1>3, PutChildFields
<1> HIDE DEF p
<1>6. /\ q.nodes = p.nodes /\ q.count = p.count /\ q.stack = p.stack /\ q.flags = d.flags
      /\ q.elem = n /\ q.last_attr = Null
  BY <1>2, <1>3, <1>5 DEF Typed
<1>7. TreeShown(q)
  BY <1>4, <1>6, ShownKept DEF PutShows
<1>8. NodeAdded(d, q, i)
  BY <1>1, <1>4, <1>5, <1>6, <1>7 DEF PutShows, NodeAdded
<1>9. TagShows(q)
  <2>1. /\ n \in TreeNodes(p.nodes) /\ OrdinalOf(p.nodes, n) = Len(TreeItems(p.nodes))
        /\ Kids(p.nodes, n) = <<>> /\ AttrsOn(p.nodes, n) = <<>> /\ Top(p).node = Top(d).node
    BY <1>4 DEF PutShows, ChildShows
  <2>2. Top(q) = Top(p)
    BY <1>6 DEF Top
  <2> QED  BY <1>3, <1>6, <2>1, <2>2 DEF TagShows, ListEnd
<1> QED  BY <1>8, <1>9 DEF q

\* One attribute more on the last node, and the same elements are open.
AttributeShown(d, q, i) ==
  /\ TreeShown(q) /\ TagShows(q) /\ Len(q.stack) = Len(d.stack) /\ q.flags = d.flags
  /\ PathOf(q.nodes, q.stack) = PathOf(d.nodes, d.stack)
  /\ TreeItems(q.nodes) = [TreeItems(d.nodes) EXCEPT ![Len(TreeItems(d.nodes))].attrs = Append(@, i)]

LEMMA AttributeShows ==
  ASSUME NEW d, Inv(d), TreeShown(d), TagShows(d), NEW s \in Int, NEW i \in Nat, NEW tok \in Token,
         "NO_ATTRS" \notin d.flags
  PROVE  AttributeShown(d, AddAttribute(d, s, i, tok), i)
<1> DEFINE val == AttrValue(d, s, i, tok)
           node == NewNode("attribute", i, val)
           q == AddAttribute(d, s, i, tok)
           n == d.count
           elem == d.elem
<1>1. /\ node \in NodeOf(Types, Value) /\ node.next_sibling = Null
      /\ \A f \in Firsts : node[f] = Null
      /\ node.type = "attribute" /\ node.at = i
  <2>1. tok.w \in Nat /\ Clamped(tok.w) \in Nat
    BY ClampedType DEF Token
  <2>2. Len(d.values) \in Nat
    BY LenProperties DEF Inv, Typed
  <2>3. val \in Value
    BY <2>1, <2>2 DEF AttrValue, Value
  <2> HIDE DEF val
  <2> QED  BY <2>3 DEF NewNode, NodeOf, Types, Firsts, Null
<1>2. /\ q.nodes = Chained(Grown(d.nodes, n, node), elem, "first_attr", d.last_attr, n)
      /\ q.count = n + 1 /\ q.last_attr = n /\ q.stack = d.stack /\ q.elem = elem
      /\ q.flags = d.flags
  BY DEF AddAttribute, LastAttrAfter, Inv, Typed
<1>3. /\ n \in Nat /\ d.nodes \in [0 .. n - 1 -> NodeOf(Types, Value)]
      /\ Len(d.stack) \in Nat /\ Len(d.stack) \in 1 .. Len(d.stack)
      /\ \A j \in 1 .. Len(d.stack) : d.stack[j].node \in 0 .. n - 1
  BY StackIs
<1>4. /\ elem \in 0 .. n - 1 /\ elem \in TreeNodes(d.nodes)
      /\ OrdinalOf(d.nodes, elem) = Len(TreeItems(d.nodes)) /\ Kids(d.nodes, elem) = <<>>
      /\ Top(d).node < elem /\ d.last_attr = ListEnd(AttrsOn(d.nodes, elem)) /\ WellLinked(d.nodes, n)
  BY DEF TagShows, Inv, AttrInv, TreeShown
<1> HIDE DEF node, q, n, elem
<1>5. AttrShows(q.nodes, d.nodes, n, elem, node)
  BY <1>1, <1>2, <1>3, <1>4, AttrShown
<1>6. /\ WellLinked(q.nodes, n + 1) /\ \A k \in 0 .. n - 1 : OrdinalOf(q.nodes, k) = OrdinalOf(d.nodes, k)
      /\ \A p \in 0 .. n - 1 : Kids(q.nodes, p) = Kids(d.nodes, p)
  BY <1>5 DEF AttrShows
<1>7. TreeShown(q)
  <2>1. \A j \in 1 .. Len(d.stack) : d.stack[j].last = ListEnd(Kids(q.nodes, d.stack[j].node))
    BY <1>3, <1>6 DEF TreeShown, StackShows
  <2> QED  BY <1>2, <1>6, <2>1 DEF TreeShown, StackShows
<1>8. TagShows(q)
  <2>1. Top(q).node = Top(d).node
    BY <1>2 DEF Top
  <2> QED  BY <1>2, <1>4, <1>5, <1>6, <2>1 DEF TagShows, AttrShows
<1>9. PathOf(q.nodes, q.stack) = PathOf(d.nodes, d.stack)
  <2>1. \A j \in 1 .. Len(d.stack) :
          OrdinalOf(q.nodes, q.stack[j].node) = OrdinalOf(d.nodes, d.stack[j].node)
    BY <1>2, <1>3, <1>6
  <2> QED  BY <1>2, <1>3, <2>1, PathKept
<1> QED  BY <1>1, <1>2, <1>5, <1>7, <1>8, <1>9 DEF AttributeShown, AttrShows, q

\* The end of a start tag opens its element, where the stack has an entry left.
LEMMA TagEndShows ==
  ASSUME NEW d, Inv(d), TreeShown(d), TagShows(d), NEW tok, Opens(tok), Len(d.stack) < MaxStack
  PROVE  LET q == EndOfTag(d, tok) IN
         /\ TreeShown(q) /\ Len(q.stack) = Len(d.stack) + 1
         /\ q.nodes = d.nodes /\ q.flags = d.flags
         /\ PathOf(q.nodes, q.stack) = Append(PathOf(d.nodes, d.stack), Len(TreeItems(d.nodes)))
<1> DEFINE new == [node |-> d.elem, last |-> Null]
           st == d.stack
           st2 == Append(st, new)
           q == EndOfTag(d, tok)
           L == Len(st)
<1>1. q.nodes = d.nodes /\ q.count = d.count /\ q.flags = d.flags /\ q.stack = st2
  BY DEF EndOfTag, Pushed, Inv, Typed
<1>2. /\ d.count \in Nat /\ DOMAIN d.nodes = 0 .. d.count - 1 /\ st \in Seq(Entry)
      /\ L \in Nat /\ L >= 1 /\ L \in 1 .. L
      /\ \A j \in 1 .. L : st[j].node \in 1 .. d.count - 1
  BY StackIs
<1>3. d.elem \in 0 .. d.count - 1 /\ new \in Entry /\ new.node = d.elem /\ new.last = Null
  BY <1>2 DEF Inv, AttrInv, Entry, Null
<1>4. /\ st2 \in Seq(Entry) /\ Len(st2) = L + 1 /\ st2[L + 1] = new
      /\ \A j \in 1 .. L : st2[j] = st[j]
  <2> HIDE DEF new, st
  <2> QED  BY <1>2, <1>3, AppendProperties
<1>5. /\ st[1].node = Document
      /\ \A j \in 1 .. L : st[j].last = ListEnd(Kids(d.nodes, st[j].node))
      /\ \A i, j \in 1 .. L : i < j => st[i].node < st[j].node
      /\ st[L].node < d.elem /\ ListEnd(Kids(d.nodes, d.elem)) = Null
      /\ OrdinalOf(d.nodes, d.elem) = Len(TreeItems(d.nodes)) /\ WellLinked(d.nodes, d.count)
  BY DEF TreeShown, StackShows, TagShows, Top, ListEnd
<1> HIDE DEF new, st, st2, L, q
<1>6. TreeShown(q)
  <2>1. \A j \in 1 .. L + 1 : j \in 1 .. L \/ j = L + 1
    BY <1>2
  <2>2. 1 \in 1 .. L
    BY <1>2
  <2>3. ASSUME NEW j \in 1 .. L + 1
        PROVE  st2[j].last = ListEnd(Kids(d.nodes, st2[j].node))
    BY <1>3, <1>4, <1>5, <2>1
  <2>4. ASSUME NEW i \in 1 .. L + 1, NEW j \in 1 .. L + 1, i < j
        PROVE  st2[i].node < st2[j].node
    <3>1. i \in 1 .. L /\ st2[i] = st[i]
      BY <1>2, <1>4, <2>4
    <3>2. CASE j = L + 1
      <4>1. st[i].node <= st[L].node
        <5>1. CASE i = L
          BY <1>2, <5>1
        <5>2. CASE i # L
          <6>1. i < L
            BY <1>2, <3>1, <5>2
          <6>2. st[i].node < st[L].node
            BY <1>2, <1>5, <3>1, <6>1
          <6> QED  BY <1>2, <3>1, <6>2
        <5> QED  BY <5>1, <5>2
      <4> QED  BY <1>2, <1>3, <1>4, <1>5, <3>1, <3>2, <4>1
    <3>3. CASE j # L + 1
      <4>1. j \in 1 .. L /\ st2[j] = st[j]
        BY <1>4, <2>1, <3>3
      <4> QED  BY <1>5, <2>4, <3>1, <4>1
    <3> QED  BY <3>2, <3>3
  <2> QED  BY <1>1, <1>4, <1>5, <2>2, <2>3, <2>4 DEF TreeShown, StackShows
<1>7. PathOf(d.nodes, st2) = Append(PathOf(d.nodes, st), OrdinalOf(d.nodes, d.elem))
  <2> DEFINE p == PathOf(d.nodes, st)
             o == OrdinalOf(d.nodes, d.elem)
             r == PathOf(d.nodes, st2)
  <2>1. p \in Seq(Nat) /\ Len(p) = L - 1 /\ \A m \in 1 .. L - 1 : p[m] = OrdinalOf(d.nodes, st[m + 1].node)
    <3>1. Len(st) >= 1
      BY <1>2 DEF L
    <3> QED  BY <1>2, <3>1, PathIs DEF L
  <2>2. r \in Seq(Nat) /\ Len(r) = L /\ \A m \in 1 .. L : r[m] = OrdinalOf(d.nodes, st2[m + 1].node)
    <3>1. Len(st2) >= 1 /\ Len(st2) - 1 = L
      BY <1>2, <1>4
    <3>2. /\ PathOf(d.nodes, st2) \in Seq(Nat) /\ Len(PathOf(d.nodes, st2)) = Len(st2) - 1
          /\ \A m \in 1 .. Len(st2) - 1 : PathOf(d.nodes, st2)[m] = OrdinalOf(d.nodes, st2[m + 1].node)
      BY <1>2, <1>4, <3>1, PathIs
    <3> QED  BY <3>1, <3>2
  <2>3. o \in Nat
    BY <1>2, TreeNodesType
  <2> HIDE DEF p, o, r
  <2>4. /\ Append(p, o) \in Seq(Nat) /\ Len(Append(p, o)) = L /\ Append(p, o)[L] = o
        /\ \A m \in 1 .. L - 1 : Append(p, o)[m] = p[m]
    <3>1. (L - 1) + 1 = L
      BY <1>2
    <3> QED  BY <2>1, <2>3, <3>1, AppendProperties
  <2>5. ASSUME NEW m \in 1 .. L PROVE r[m] = Append(p, o)[m]
    <3>1. r[m] = OrdinalOf(d.nodes, st2[m + 1].node)
      BY <2>2
    <3>2. CASE m = L
      BY <1>3, <1>4, <2>4, <3>1, <3>2 DEF o
    <3>3. CASE m # L
      <4>1. m \in 1 .. L - 1 /\ m + 1 \in 1 .. L
        BY <1>2, <3>3
      <4> QED  BY <1>4, <2>1, <2>4, <3>1, <4>1
    <3> QED  BY <3>2, <3>3
  <2> QED  BY <2>2, <2>4, <2>5, SeqEqual DEF p, o, r
<1> QED  BY <1>1, <1>4, <1>5, <1>6, <1>7 DEF q, st, L

\* An end tag closes the innermost element, if one is open.
LEMMA EndShows ==
  ASSUME NEW d, Inv(d), TreeShown(d)
  PROVE  LET q == CloseElement(d)
             path == PathOf(d.nodes, d.stack)
         IN  /\ TreeShown(q) /\ Len(q.stack) = IF Len(d.stack) > 1 THEN Len(d.stack) - 1 ELSE 1
             /\ q.nodes = d.nodes /\ q.flags = d.flags
             /\ PathOf(q.nodes, q.stack) = IF path = <<>> THEN path ELSE SubSeq(path, 1, Len(path) - 1)
<1> DEFINE q == CloseElement(d)
           st == d.stack
           L == Len(st)
           path == PathOf(d.nodes, st)
           front == Front(st)
<1>1. /\ d.count \in Nat /\ DOMAIN d.nodes = 0 .. d.count - 1 /\ st \in Seq(Entry)
      /\ L \in Nat /\ L >= 1
      /\ \A j \in 1 .. L : st[j].node \in 1 .. d.count - 1
  BY StackIs
<1>2. path \in Seq(Nat) /\ Len(path) = L - 1
      /\ \A m \in 1 .. L - 1 : path[m] = OrdinalOf(d.nodes, st[m + 1].node)
  BY <1>1, PathIs
<1>3. CASE L = 1
  <2>1. q = d
    BY <1>3 DEF CloseElement
  <2>2. path = <<>>
    <3> HIDE DEF path
    <3> QED  BY <1>2, <1>3, EmptySeq
  <2> QED  BY <1>3, <2>1, <2>2
<1>4. CASE L # 1
  <2>1. q.nodes = d.nodes /\ q.count = d.count /\ q.flags = d.flags /\ q.stack = front /\ L > 1
    <3>1. L > 1
      <4>1. L \in Nat /\ L >= 1 /\ L # 1
        BY <1>1, <1>4
      <4> HIDE DEF L
      <4> QED  BY <4>1
    <3>2. q = [d EXCEPT !.stack = front]
      BY <3>1 DEF CloseElement
    <3> HIDE DEF q, front
    <3> QED  BY <3>1, <3>2 DEF Inv, Typed
  <2>2. /\ front \in Seq(Entry) /\ Len(front) = L - 1 /\ \A j \in 1 .. L - 1 : front[j] = st[j]
    <3> HIDE DEF st
    <3> QED  BY <1>1, <2>1, SubSeqProperties DEF Front
  <2>3. /\ st[1].node = Document
        /\ \A j \in 1 .. L : st[j].last = ListEnd(Kids(d.nodes, st[j].node))
        /\ \A i, j \in 1 .. L : i < j => st[i].node < st[j].node
        /\ WellLinked(d.nodes, d.count)
    BY DEF TreeShown, StackShows
  <2> HIDE DEF q, st, L, path, front
  <2>4. TreeShown(q)
    <3>1. 1 \in 1 .. L - 1 /\ \A j \in 1 .. L - 1 : j \in 1 .. L
      BY <1>1, <2>1
    <3> QED  BY <2>1, <2>2, <2>3, <3>1 DEF TreeShown, StackShows
  <2>5. PathOf(d.nodes, front) = SubSeq(path, 1, L - 2)
    <3> DEFINE r == PathOf(d.nodes, front)
               sub == SubSeq(path, 1, L - 2)
    <3>1. r \in Seq(Nat) /\ Len(r) = L - 2 /\ \A m \in 1 .. L - 2 : r[m] = OrdinalOf(d.nodes, front[m + 1].node)
      <4>1. Len(front) >= 1 /\ Len(front) - 1 = L - 2
        BY <1>1, <2>1, <2>2
      <4>2. /\ PathOf(d.nodes, front) \in Seq(Nat) /\ Len(PathOf(d.nodes, front)) = Len(front) - 1
            /\ \A m \in 1 .. Len(front) - 1 : PathOf(d.nodes, front)[m] = OrdinalOf(d.nodes, front[m + 1].node)
        BY <1>1, <2>2, <4>1, PathIs
      <4> QED  BY <4>1, <4>2
    <3>2. sub \in Seq(Nat) /\ Len(sub) = L - 2 /\ \A m \in 1 .. L - 2 : sub[m] = path[m]
      <4>1. Len(path) \in 1 .. Len(path) /\ Len(path) - 1 = L - 2 /\ L - 2 \in Nat
        BY <1>1, <1>2, <2>1
      <4>2. \A i \in 1 .. L - 2 : i \in 1 .. Len(path)
        BY <4>1
      <4>3. \A i \in 1 .. L - 2 : path[i] \in Nat
        BY <1>2, <4>2, ElementOfSeq
      <4> QED  BY <1>2, <4>1, <4>3, SubSeqProperties
    <3> HIDE DEF r, sub
    <3>3. ASSUME NEW m \in 1 .. L - 2 PROVE r[m] = sub[m]
      <4>1. m \in 1 .. L - 1 /\ m + 1 \in 1 .. L - 1
        BY <1>1, <2>1
      <4> QED  BY <1>2, <2>2, <3>1, <3>2, <4>1
    <3> QED  BY <3>1, <3>2, <3>3, SeqEqual DEF r, sub
  <2>6. path # <<>> /\ Len(path) - 1 = L - 2
    BY <1>1, <1>2, <2>1, EmptySeq
  <2> QED  BY <2>1, <2>2, <2>4, <2>5, <2>6 DEF q, st, L, path
<1> QED  BY <1>3, <1>4

-----------------------------------------------------------------------------
(* Each token.                                                             *)

Counted(open, kind) ==
  CASE kind = "gt" -> open + 1
    [] kind = "end" /\ open > 0 -> open - 1
    [] OTHER -> open

\* How many elements a token opens or closes.
LEMMA OpenStep ==
  ASSUME NEW d, Len(d) \in Nat
  PROVE  /\ OpenAfter(d, 0) = 0
         /\ \A n \in 0 .. Len(d) : OpenAfter(d, n) \in Nat
         /\ \A n \in 1 .. Len(d) : OpenAfter(d, n) = Counted(OpenAfter(d, n - 1), d[n].kind)
<1> DEFINE L == Len(d)
           Is(f) == f = [k \in 0 .. Len(d) |->
              IF k = 0 THEN 0
              ELSE CASE d[k].kind = "gt" -> f[k - 1] + 1
                     [] d[k].kind = "end" /\ f[k - 1] > 0 -> f[k - 1] - 1
                     [] OTHER -> f[k - 1]]
           open == CHOOSE f : Is(f)
           g == [x \in (1 .. L) \X Nat |-> Counted(x[2], d[x[1]].kind)]
<1>1. \A k \in 1 .. L : \A a \in Nat : g[<<k, a>>] = Counted(a, d[k].kind)
  OBVIOUS
<1>2. g \in [(1 .. L) \X Nat -> Nat]
  <2>1. \A a \in Nat : \A kind : Counted(a, kind) \in Nat
    BY DEF Counted
  <2> QED  BY <2>1
<1> HIDE DEF g
<1>3. PICK f \in [0 .. L -> Nat] : GoesBy(f, L, 0, g)
  BY <1>2, StepByStep
<1>4. f[0] = 0 /\ \A k \in 1 .. L : f[k] = Counted(f[k - 1], d[k].kind)
  <2>1. \A k \in 1 .. L : k - 1 \in 0 .. L
    OBVIOUS
  <2> QED  BY <1>1, <1>3, <2>1 DEF GoesBy
<1>5. Is(f)
  <2>1. \A k \in 0 .. L : k # 0 => k \in 1 .. L
    OBVIOUS
  <2>2. ASSUME NEW k \in 0 .. L
        PROVE  f[k] = IF k = 0 THEN 0
                      ELSE CASE d[k].kind = "gt" -> f[k - 1] + 1
                             [] d[k].kind = "end" /\ f[k - 1] > 0 -> f[k - 1] - 1
                             [] OTHER -> f[k - 1]
    BY <1>4, <2>1 DEF Counted
  <2> QED  BY <2>2
<1>6. Is(open)
  BY <1>5
<1>7. \A n \in 0 .. L : OpenAfter(d, n) = open[n]
  BY DEF OpenAfter
<1> HIDE DEF open
<1>8. open[0] = 0 /\ \A k \in 1 .. L : open[k] = Counted(open[k - 1], d[k].kind)
  <2>1. 0 \in 0 .. L /\ \A k \in 1 .. L : k \in 0 .. L /\ k # 0
    OBVIOUS
  <2>2. ASSUME NEW k \in 0 .. L
        PROVE  open[k] = IF k = 0 THEN 0
                         ELSE CASE d[k].kind = "gt" -> open[k - 1] + 1
                                [] d[k].kind = "end" /\ open[k - 1] > 0 -> open[k - 1] - 1
                                [] OTHER -> open[k - 1]
    BY <1>6
  <2> QED  BY <2>1, <2>2 DEF Counted
<1>9. \A k \in 0 .. L : open[k] \in Nat
  <2> DEFINE S == {k \in 0 .. L : open[k] \in Nat}
  <2>1. 0 \in S
    BY <1>8
  <2>2. ASSUME NEW k \in 0 .. L - 1, k \in S PROVE k + 1 \in S
    <3>1. k + 1 \in 1 .. L /\ k + 1 \in 0 .. L /\ (k + 1) - 1 = k
      OBVIOUS
    <3>2. open[k + 1] = Counted(open[k], d[k + 1].kind)
      BY <1>8, <3>1
    <3>3. open[k + 1] \in Nat
      BY <2>2, <3>2 DEF Counted
    <3> QED  BY <3>1, <3>3
  <2>3. \A k \in 0 .. L : k \in S
    <3> HIDE DEF S
    <3> QED  BY <2>1, <2>2, CountsTo
  <2> QED  BY <2>3
<1>10. 0 \in 0 .. L /\ \A n \in 1 .. L : n \in 0 .. L /\ n - 1 \in 0 .. L
  OBVIOUS
<1> QED  BY <1>7, <1>8, <1>9, <1>10

\* The token that is read.
LEMMA RoleRead ==
  ASSUME IInv, NEW kind, Reading(kind), Becomes(dom'), dom'.flags = dom.flags
  PROVE  /\ pos - 1 < Len(Roles) /\ pos' - 1 = (pos - 1) + 1 /\ pos' - 1 = pos
         /\ Roles' = Roles /\ Roles[pos] = RoleOf(doc[pos]) /\ doc[pos].kind = kind
         /\ pos \in 1 .. Len(doc) /\ doc' = doc /\ pos' = pos + 1
<1>1. /\ doc \in Seq(Token) /\ Len(doc) \in Nat /\ pos \in 1 .. Len(doc) /\ pos' = pos + 1
      /\ doc' = doc /\ DOMAIN doc = 1 .. Len(doc) /\ doc[pos].kind = kind
  <2>1. doc \in Seq(Token)
    BY DocsAssumption DEF IInv
  <2>2. Len(doc) \in Nat /\ DOMAIN doc = 1 .. Len(doc)
    BY <2>1, LenProperties
  <2> QED  BY <2>1, <2>2 DEF IInv, Reading, Becomes
<1>2. Len(Roles) = Len(doc)
  <2>1. \A k \in 1 .. Len(doc) : RoleOf(doc[k]) \in {RoleOf(doc[i]) : i \in 1 .. Len(doc)}
    OBVIOUS
  <2>2. Roles = [k \in 1 .. Len(doc) |-> RoleOf(doc[k])]
    BY <1>1 DEF Roles
  <2> QED  BY <1>1, <2>1, <2>2, IsASeq
<1>3. Roles' = Roles
  BY <1>1 DEF Roles, RoleOf
<1>4. Roles[pos] = RoleOf(doc[pos])
  BY <1>1 DEF Roles
<1> QED  BY <1>1, <1>2, <1>3, <1>4

\* At the start.
LEMMA InitShown == Init => ShownInv /\ Built!TInit
<1> SUFFICES ASSUME Init PROVE ShownInv /\ Built!TInit
  OBVIOUS
<1>1. PICK fs \in SUBSET Flags : dom = EmptyDom(fs)
  BY FlagsAssumption DEF Init
<1>2. /\ dom.nodes = FirstNodes(NoValue) /\ dom.count = 2
      /\ dom.stack = <<[node |-> Document, last |-> Null]>> /\ pos - 1 = 0
  BY <1>1 DEF EmptyDom, Init
<1>3. /\ Len(dom.stack) = 1 /\ dom.stack[1].node = Document /\ dom.stack[1].last = Null
      /\ 1 .. 1 = {1} /\ 1 .. (1 - 1) = {}
  BY <1>2
<1>4. /\ WellLinked(dom.nodes, dom.count) /\ TreeItems(dom.nodes) = <<>>
      /\ Kids(dom.nodes, Document) = <<>>
  <2>1. /\ LinksListed(FirstNodes(NoValue), 2) /\ Held(FirstNodes(NoValue)) /\ Numbered(FirstNodes(NoValue))
        /\ TreeItems(FirstNodes(NoValue)) = <<>>
        /\ \A p \in 0 .. 1 : \A f \in Firsts : ListOf(FirstNodes(NoValue), p, f) = <<>>
    BY FirstListed
  <2>2. 1 \in 0 .. 1 /\ "first_child" \in Firsts
    BY DEF Firsts
  <2> QED  BY <1>2, <2>1, <2>2 DEF WellLinked, Kids, ListOf, Document
<1>5. TreeShown(dom)
  BY <1>3, <1>4 DEF TreeShown, StackShows, ListEnd
<1>6. OpenAfter(doc, pos - 1) = 0 /\ ~InTag(doc, pos)
  <2>1. doc \in Seq(Token)
    BY DocsAssumption DEF Init
  <2>2. Len(doc) \in Nat
    BY <2>1, LenProperties
  <2> QED  BY <1>2, <2>2, OpenStep DEF Init, InTag
<1>7. PathOf(dom.nodes, dom.stack) = <<>>
  BY <1>3 DEF PathOf
<1> QED  BY <1>2, <1>3, <1>4, <1>5, <1>6, <1>7 DEF ShownInv, Built!TInit

\* What a step must do: one of the tree's, and the invariant again.
Follows ==
  /\ TreeShown(dom') /\ Len(dom'.stack) = OpenAfter(doc, pos) + 1
  /\ doc[pos].kind \in {"open", "attr"} => TagShows(dom')
  /\ Built!TNext

\* One step per action: each is one of the tree's.
LEMMA NextFollows ==
  ASSUME IInv, Fits(doc), TreeShown(dom), Len(dom.stack) = OpenAfter(doc, pos - 1) + 1,
         InTag(doc, pos) => TagShows(dom), Next
  PROVE  Follows
<1> DEFINE open == PathOf(dom.nodes, dom.stack)
           tok == doc[pos]
<1>1. /\ doc \in Seq(Token) /\ Len(doc) \in Nat /\ WellLexed(doc) /\ Inv(dom)
  BY DocsAssumption, LenProperties DEF IInv
<1>2. ASSUME NEW kind, Reading(kind)
      PROVE  /\ pos \in 1 .. Len(doc) /\ pos \in Nat /\ tok \in Token /\ tok.kind = kind
             /\ OpenAfter(doc, pos - 1) \in Nat /\ OpenAfter(doc, pos) < MaxStack
             /\ OpenAfter(doc, pos) = Counted(OpenAfter(doc, pos - 1), kind)
             /\ kind \in {"attr", "gt", "sgt"} => TagShows(dom)
  <2>1. pos \in 1 .. Len(doc) /\ tok.kind = kind
    BY <1>1, <1>2 DEF Reading, IInv
  <2>2. tok \in Token /\ pos \in Nat /\ pos \in 0 .. Len(doc) /\ pos - 1 \in 0 .. Len(doc)
    BY <1>1, <2>1, ElementOfSeq
  <2>3. /\ OpenAfter(doc, pos - 1) \in Nat
        /\ OpenAfter(doc, pos) = Counted(OpenAfter(doc, pos - 1), kind)
    BY <1>1, <2>1, <2>2, OpenStep
  <2>4. OpenAfter(doc, pos) < MaxStack
    BY <2>2 DEF Fits
  <2>5. kind \in {"attr", "gt", "sgt"} => InTag(doc, pos)
    BY <1>1, <2>1 DEF WellLexed
  <2> QED  BY <2>1, <2>2, <2>3, <2>4, <2>5
<1>3. /\ \A n : Counted(n, "text") = n /\ Counted(n, "open") = n /\ Counted(n, "attr") = n
                /\ Counted(n, "sgt") = n /\ Counted(n, "skip") = n
      /\ \A n : Counted(n, "gt") = n + 1
      /\ \A n : Counted(n, "end") = IF n > 0 THEN n - 1 ELSE n
  BY DEF Counted
<1>4. ASSUME NEW kind, Reading(kind), Becomes(dom), kind \in {"text", "attr", "sgt", "skip"},
             RoleOf(tok) = "none", dom' = dom
      PROVE  Follows
  <2>1. /\ pos - 1 < Len(Roles) /\ pos' - 1 = (pos - 1) + 1 /\ pos' - 1 = pos
        /\ Roles' = Roles /\ Roles[pos] = RoleOf(tok) /\ tok.kind = kind
    BY <1>4, RoleRead
  <2>2. Built!TNext
    BY <1>4, <2>1 DEF Built!TNext, Built!Ignore
  <2>3. OpenAfter(doc, pos) = OpenAfter(doc, pos - 1) /\ (kind = "attr" => TagShows(dom))
    BY <1>2, <1>3, <1>4
  <2> QED  BY <1>4, <2>1, <2>2, <2>3 DEF Follows
<1>5. ASSUME NEW kind, Reading(kind), Becomes(dom'), kind \in {"text", "open"},
             RoleOf(tok) = "node", NodeAdded(dom, dom', pos), kind = "open" => TagShows(dom')
      PROVE  Follows
  <2>1. /\ pos - 1 < Len(Roles) /\ pos' - 1 = (pos - 1) + 1 /\ pos' - 1 = pos
        /\ Roles' = Roles /\ Roles[pos] = RoleOf(tok) /\ tok.kind = kind
    BY <1>5, RoleRead DEF NodeAdded
  <2>2. /\ TreeShown(dom') /\ Len(dom'.stack) = Len(dom.stack)
        /\ PathOf(dom'.nodes, dom'.stack) = open
        /\ TreeItems(dom'.nodes) = Append(TreeItems(dom.nodes),
             [at |-> pos, attrs |-> <<>>, parent |-> IF open = <<>> THEN 0 ELSE open[Len(open)]])
    BY <1>5 DEF NodeAdded
  <2>3. Built!AddNode
    BY <1>5, <2>1, <2>2 DEF Built!AddNode, Built!Innermost
  <2>4. Built!TNext
    BY <2>1, <2>3 DEF Built!TNext
  <2>5. OpenAfter(doc, pos) = OpenAfter(doc, pos - 1)
    BY <1>2, <1>3, <1>5
  <2> QED  BY <1>5, <2>1, <2>2, <2>4, <2>5 DEF Follows
<1>6. CASE ReadText
  <2>1. Reading("text") /\ Becomes(dom') /\ dom' = AddText(dom, pos, tok)
    BY <1>6 DEF ReadText, Becomes
  <2>2. CASE "NO_TEXT" \in dom.flags
    <3>1. dom' = dom /\ Becomes(dom)
      BY <2>1, <2>2 DEF AddText, Becomes
    <3>2. RoleOf(tok) = "none"
      BY <2>1, <2>2 DEF RoleOf, Reading
    <3> QED  BY <1>4, <2>1, <3>1, <3>2
  <2>3. CASE "NO_TEXT" \notin dom.flags
    <3>1. NodeAdded(dom, dom', pos)
      BY <1>1, <1>2, <2>1, <2>3, TextShows
    <3>2. RoleOf(tok) = "node"
      BY <2>1, <2>3 DEF RoleOf, Reading
    <3> QED  BY <1>5, <2>1, <3>1, <3>2
  <2> QED  BY <2>2, <2>3
<1>7. CASE ReadOpen
  <2>1. Reading("open") /\ Becomes(dom') /\ dom' = AddElement(dom, pos)
    BY <1>7 DEF ReadOpen, Becomes
  <2>2. NodeAdded(dom, dom', pos) /\ TagShows(dom')
    BY <1>1, <1>2, <2>1, ElementShows
  <2>3. RoleOf(tok) = "node"
    BY <2>1 DEF RoleOf, Reading
  <2> QED  BY <1>5, <2>1, <2>2, <2>3
<1>8. CASE ReadAttribute
  <2>1. Reading("attr") /\ Becomes(dom') /\ dom' = AddAttribute(dom, 1, pos, tok)
    BY <1>8 DEF ReadAttribute, Becomes
  <2>2. TagShows(dom) /\ pos \in Nat /\ tok \in Token /\ tok.kind = "attr"
    BY <1>2, <2>1
  <2>3. CASE "NO_ATTRS" \in dom.flags
    <3>1. dom' = dom /\ Becomes(dom)
      BY <2>1, <2>3 DEF AddAttribute, Becomes
    <3>2. RoleOf(tok) = "none"
      BY <2>2, <2>3 DEF RoleOf
    <3> QED  BY <1>4, <2>1, <3>1, <3>2
  <2>4. CASE "NO_ATTRS" \notin dom.flags
    <3>1. AttributeShown(dom, dom', pos)
      BY <1>1, <2>1, <2>2, <2>4, AttributeShows
    <3>2. /\ pos - 1 < Len(Roles) /\ pos' - 1 = (pos - 1) + 1 /\ pos' - 1 = pos
          /\ Roles' = Roles /\ Roles[pos] = RoleOf(tok)
      BY <2>1, <3>1, RoleRead DEF AttributeShown
    <3>3. RoleOf(tok) = "attr"
      BY <2>2, <2>4 DEF RoleOf
    <3>4. Built!AddAttr
      BY <3>1, <3>2, <3>3 DEF Built!AddAttr, AttributeShown
    <3>5. Built!TNext
      BY <3>2, <3>4 DEF Built!TNext
    <3>6. OpenAfter(doc, pos) = OpenAfter(doc, pos - 1)
      BY <1>2, <1>3, <2>1
    <3> QED  BY <3>1, <3>5, <3>6 DEF Follows, AttributeShown
  <2> QED  BY <2>3, <2>4
<1>9. CASE ReadEndOfTag
  <2>1. Becomes(dom') /\ dom' = EndOfTag(dom, tok)
    BY <1>9 DEF ReadEndOfTag, Becomes
  <2>2. CASE Reading("sgt")
    <3>1. tok.kind = "sgt"
      BY <1>2, <2>2
    <3>2. dom' = dom /\ Becomes(dom)
      BY <2>1, <3>1 DEF EndOfTag, Opens, Becomes
    <3>3. RoleOf(tok) = "none"
      BY <3>1 DEF RoleOf
    <3> QED  BY <1>4, <2>2, <3>2, <3>3
  <2>3. CASE Reading("gt")
    <3>1. /\ tok.kind = "gt" /\ TagShows(dom) /\ OpenAfter(doc, pos - 1) \in Nat
          /\ OpenAfter(doc, pos) = OpenAfter(doc, pos - 1) + 1 /\ OpenAfter(doc, pos) < MaxStack
      BY <1>2, <1>3, <2>3
    <3>2. Opens(tok) /\ Len(dom.stack) < MaxStack
      BY <3>1 DEF Opens
    <3>3. /\ TreeShown(dom') /\ Len(dom'.stack) = Len(dom.stack) + 1
          /\ dom'.nodes = dom.nodes /\ dom'.flags = dom.flags
          /\ PathOf(dom'.nodes, dom'.stack) = Append(open, Len(TreeItems(dom.nodes)))
      BY <1>1, <2>1, <3>1, <3>2, TagEndShows
    <3>4. /\ pos - 1 < Len(Roles) /\ pos' - 1 = (pos - 1) + 1 /\ pos' - 1 = pos
          /\ Roles' = Roles /\ Roles[pos] = RoleOf(tok)
      BY <2>1, <2>3, <3>3, RoleRead
    <3>5. RoleOf(tok) = "enter"
      BY <3>1 DEF RoleOf
    <3>6. Built!Enter
      BY <3>3, <3>4, <3>5 DEF Built!Enter
    <3>7. Built!TNext
      BY <3>4, <3>6 DEF Built!TNext
    <3> QED  BY <3>1, <3>3, <3>7 DEF Follows
  <2> QED  BY <1>9, <2>2, <2>3 DEF ReadEndOfTag
<1>10. CASE ReadEndTag
  <2>1. Reading("end") /\ Becomes(dom') /\ dom' = CloseElement(dom)
    BY <1>10 DEF ReadEndTag, Becomes
  <2>2. /\ TreeShown(dom') /\ Len(dom'.stack) = IF Len(dom.stack) > 1 THEN Len(dom.stack) - 1 ELSE 1
        /\ dom'.nodes = dom.nodes /\ dom'.flags = dom.flags
        /\ PathOf(dom'.nodes, dom'.stack) = IF open = <<>> THEN open ELSE SubSeq(open, 1, Len(open) - 1)
    BY <1>1, <2>1, EndShows
  <2>3. /\ pos - 1 < Len(Roles) /\ pos' - 1 = (pos - 1) + 1 /\ pos' - 1 = pos
        /\ Roles' = Roles /\ Roles[pos] = RoleOf(tok) /\ tok.kind = "end"
    BY <2>1, <2>2, RoleRead
  <2>4. RoleOf(tok) = "leave"
    BY <2>3 DEF RoleOf
  <2>5. Built!Leave
    BY <2>2, <2>3, <2>4 DEF Built!Leave
  <2>6. Built!TNext
    BY <2>3, <2>5 DEF Built!TNext
  <2>7. Len(dom'.stack) = OpenAfter(doc, pos) + 1
    <3>1. /\ OpenAfter(doc, pos - 1) \in Nat
          /\ OpenAfter(doc, pos) = IF OpenAfter(doc, pos - 1) > 0 THEN OpenAfter(doc, pos - 1) - 1
                                                                 ELSE OpenAfter(doc, pos - 1)
      BY <1>2, <1>3, <2>1
    <3> QED  BY <2>2, <3>1
  <2> QED  BY <2>2, <2>3, <2>6, <2>7 DEF Follows
<1>11. CASE ReadOther
  <2>1. Reading("skip") /\ Becomes(dom) /\ dom' = dom
    BY <1>11 DEF ReadOther, Becomes
  <2>2. RoleOf(tok) = "none"
    BY <1>2, <2>1 DEF RoleOf
  <2> QED  BY <1>4, <2>1, <2>2
<1> QED  BY <1>6, <1>7, <1>8, <1>9, <1>10, <1>11 DEF Next

\* fast_dom_parse builds the document's tree on every input that never has more
\* elements open than stack[] holds, stray end tags included, with every set of flags
\* (BuildsTheTree: the refinement of XmlTree).
THEOREM TreeBuilt == Spec => BuildsTheTree
<1>1. IInv /\ ShownInv /\ [Next]_vars => ShownInv' /\ [Fits(doc) => Built!TNext]_(Built!treeVars)
  <2> SUFFICES ASSUME IInv, ShownInv, [Next]_vars
               PROVE  ShownInv' /\ [Fits(doc) => Built!TNext]_(Built!treeVars)
    OBVIOUS
  <2>1. CASE UNCHANGED vars
    <3>1. Roles' = Roles
      BY <2>1 DEF vars, Roles, RoleOf
    <3>2. ShownInv'
      BY <2>1 DEF vars, ShownInv
    <3> QED  BY <2>1, <3>1, <3>2 DEF vars, Built!treeVars
  <2>2. CASE Next
    <3>1. doc' = doc /\ pos' = pos + 1
      BY <2>2 DEF Next, ReadText, ReadOpen, ReadAttribute, ReadEndOfTag, ReadEndTag, ReadOther, Becomes
    <3>2. Fits(doc) => Follows
      BY <2>2, NextFollows DEF ShownInv
    <3>3. pos' - 1 = pos /\ (InTag(doc', pos') => doc[pos].kind \in {"open", "attr"})
      BY <3>1 DEF IInv, InTag
    <3> QED  BY <3>1, <3>2, <3>3 DEF ShownInv, Follows
  <2> QED  BY <2>1, <2>2
<1> QED  BY <1>1, InitInv, NextInv, InitShown, PTL DEF Spec, BuildsTheTree

=============================================================================
