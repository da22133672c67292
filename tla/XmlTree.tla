------------------------------ MODULE XmlTree ------------------------------
(***************************************************************************)
(* What a DOM builder promises: the nodes of the tree are the document's   *)
(* visible constructs in document order, each a child of the element that  *)
(* is open where it stands, and each element has its tag's attributes.     *)
(*                                                                         *)
(* The role of a construct: it adds a node, gives an attribute to the last *)
(* node, opens the last node, closes the innermost open element, or is not *)
(* shown.                                                                  *)
(***************************************************************************)
EXTENDS Naturals, Sequences

VARIABLES
  input,   \* the roles of the constructs
  read,    \* how many were read
  items,   \* the nodes: [at: construct, parent: index or 0, attrs: constructs]
  path     \* the open elements, innermost last, as indices of items

treeVars == <<input, read, items, path>>

TInit == read = 0 /\ items = <<>> /\ path = <<>>

Innermost == IF path = <<>> THEN 0 ELSE path[Len(path)]

AddNode ==
  /\ input[read'] = "node"
  /\ items' = Append(items, [at |-> read', parent |-> Innermost, attrs |-> <<>>])
  /\ UNCHANGED path

AddAttr ==
  /\ input[read'] = "attr"
  /\ items' = [items EXCEPT ![Len(items)].attrs = Append(@, read')]
  /\ UNCHANGED path

Enter ==
  /\ input[read'] = "enter"
  /\ path' = Append(path, Len(items))
  /\ UNCHANGED items

\* A stray end tag leaves nothing.
Leave ==
  /\ input[read'] = "leave"
  /\ path' = IF path = <<>> THEN path ELSE SubSeq(path, 1, Len(path) - 1)
  /\ UNCHANGED items

Ignore ==
  /\ input[read'] = "none"
  /\ UNCHANGED <<items, path>>

TNext ==
  /\ read < Len(input) /\ read' = read + 1
  /\ UNCHANGED input
  /\ AddNode \/ AddAttr \/ Enter \/ Leave \/ Ignore

TSpec == TInit /\ [][TNext]_treeVars

=============================================================================
