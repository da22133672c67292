----------------------------- MODULE NodeLinks -----------------------------
(***************************************************************************)
(* The linked node arrays of the two DOM builders: fast_dom_parse (indices *)
(* into FastDom::nodes, dom_fast.hpp) and dom_parse (pointers into the     *)
(* NodePool, dom_parser_impl.hpp).  A node is an index; 0 is the null link *)
(* and 1 the document node.                                                *)
(*   at    the token the node was made from                                *)
(*   val   whatever the builder stores as the node's value                 *)
(***************************************************************************)
EXTENDS Integers, Sequences, FiniteSets

Null     == 0
Document == 1

Links == {"first_child", "next_sibling", "first_attr"}

\* A node as it is allocated: value-initialised, then typed.
NewNode(type, at, val) ==
  [type |-> type, at |-> at, val |-> val,
   first_child |-> Null, next_sibling |-> Null, first_attr |-> Null]

\* The array before parsing starts.
FirstNodes(val) ==
  [i \in {Null, Document} |-> NewNode(IF i = Null THEN "null" ELSE "document", 0, val)]

\* The array of n nodes with one more.
Grown(nodes, n, new) == [i \in 0 .. n |-> IF i = n THEN new ELSE nodes[i]]

\* The chain that starts at nodes[owner][first] and ends with `last` gets one
\* more member.
Chained(nodes, owner, first, last, idx) ==
  IF last # Null THEN [nodes EXCEPT ![last].next_sibling = idx]
                 ELSE [nodes EXCEPT ![owner][first] = idx]

-----------------------------------------------------------------------------
(* What it means for the array to be a tree.                               *)

\* Links only lead to later nodes of the array, so that following them ends.
LinksForward(nodes) ==
  \A i \in DOMAIN nodes : \A f \in Links :
    nodes[i][f] = Null \/ (nodes[i][f] > i /\ nodes[i][f] \in DOMAIN nodes)

\* No node is linked from two places.
LinkedAtMostOnce(nodes) ==
  \A i, j \in DOMAIN nodes : \A f, g \in Links :
    nodes[i][f] # Null /\ nodes[i][f] = nodes[j][g] => i = j /\ f = g

\* No node is lost.
LinkedSomewhere(nodes) ==
  \A k \in DOMAIN nodes \ {Null, Document} :
    \E i \in DOMAIN nodes : \E f \in Links : nodes[i][f] = k

TreeShaped(nodes) ==
  LinksForward(nodes) /\ LinkedAtMostOnce(nodes) /\ LinkedSomewhere(nodes)

\* The nodes from `first` on along next_sibling.
Chain(nodes, first) ==
  LET from[i \in DOMAIN nodes] ==
        IF i = Null THEN <<>> ELSE <<i>> \o from[nodes[i].next_sibling]
  IN  from[first]

Kids(nodes, i)  == Chain(nodes, nodes[i].first_child)
AttrsOn(nodes, i) == Chain(nodes, nodes[i].first_attr)

-----------------------------------------------------------------------------
(* The tree the array stands for, in the terms of XmlTree.                 *)

\* The nodes that are no attributes: they come in document order.
TreeNodes(nodes) == {k \in DOMAIN nodes \ {Null, Document} : nodes[k].type # "attribute"}

\* The number of a node in that order; Document's is 0.
OrdinalOf(nodes, k)  == Cardinality({j \in TreeNodes(nodes) : j <= k})
NthNode(nodes, m) == CHOOSE k \in TreeNodes(nodes) : OrdinalOf(nodes, k) = m

\* The nodes among whose children k is, and one of them.  A lost node is its own
\* parent: in no tree.
HoldersOf(nodes, k) ==
  {p \in DOMAIN nodes : \E i \in DOMAIN Kids(nodes, p) : Kids(nodes, p)[i] = k}
TreeParent(nodes, k) ==
  IF HoldersOf(nodes, k) = {} THEN k ELSE CHOOSE p \in HoldersOf(nodes, k) : TRUE

TreeItem(nodes, k) ==
  LET attrs == AttrsOn(nodes, k)
  IN  [at     |-> nodes[k].at,
       parent |-> OrdinalOf(nodes, TreeParent(nodes, k)),
       attrs  |-> [a \in DOMAIN attrs |-> nodes[attrs[a]].at]]

TreeItems(nodes) ==
  [m \in 1 .. Cardinality(TreeNodes(nodes)) |-> TreeItem(nodes, NthNode(nodes, m))]

=============================================================================
