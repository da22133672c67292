------------------------------ MODULE ArenaDom ------------------------------
(***************************************************************************)
(* One call of dom_parse (include/parshred/dom_parser_impl.hpp), construct *)
(* by construct: nodes from the pool are linked under `current`, whose     *)
(* last child is `last_child`; a fixed array of saved pairs remembers the  *)
(* outer ones.  Nodes are numbered as the pool hands them out.             *)
(***************************************************************************)
EXTENDS NodeLinks, XmlTokens, SequencesExt

CONSTANTS
  MaxStack,   \* entries of stack_buf[]: 64
  Docs,       \* the inputs
  FlagSets    \* the flags dom_parse is instantiated with

Token == [kind : {"open", "attr", "gt", "sgt", "end",
                  "text", "cdata", "comment", "pi", "skip"}]
Flags == {"NO_TEXT_NODES", "NO_COMMENTS", "NO_PIS"}

ASSUME ArenaAssumption ==
  /\ MaxStack \in Nat \ {0}
  /\ Docs \subseteq {d \in Seq(Token) : WellLexed(d)}
  /\ FlagSets \subseteq SUBSET Flags

VARIABLES
  doc, pos, flags,      \* the input, the next construct of it, the flags
  nodes, count,         \* the pool's nodes and their number
  current, last_child,  \* the open node and its last child
  stack,                \* stack_buf[0 .. stack_depth - 1]
  elem, last_attr       \* the element of the last tag and its last attribute

vars == <<doc, pos, flags, nodes, count, current, last_child, stack, elem, last_attr>>

Init ==
  /\ doc \in Docs /\ pos = 1 /\ flags \in FlagSets
  /\ nodes = FirstNodes(0) /\ count = 2
  /\ current = Document /\ last_child = Null /\ stack = <<>>
  /\ elem = Null /\ last_attr = Null

-----------------------------------------------------------------------------

Reading(kind) ==
  /\ pos <= Len(doc) /\ doc[pos].kind = kind
  /\ pos' = pos + 1 /\ UNCHANGED <<doc, flags>>

\* Mutant: the last child is linked, and the first child always overwritten.
AppendBoth(type) ==
  LET grown == Grown(nodes, count, NewNode(type, pos, 0)) IN
  /\ nodes' = Chained(IF last_child = Null THEN grown
                      ELSE [grown EXCEPT ![current].first_child = count],
                      current, "first_child", last_child, count)
  /\ count' = count + 1 /\ last_child' = count

\* NodePool::allocate and append_child
AppendChild(type) ==
  /\ nodes' = Chained(Grown(nodes, count, NewNode(type, pos, 0)),
                      current, "first_child", last_child, count)
  /\ count' = count + 1 /\ last_child' = count

\* The flag that keeps a construct out of the tree.
HiddenBy(kind) ==
  CASE kind \in {"text", "cdata"} -> "NO_TEXT_NODES"
    [] kind = "comment"           -> "NO_COMMENTS"
    [] kind = "pi"                -> "NO_PIS"

\* Text, a CDATA section, a comment, a PI or the XML declaration.
ReadContent ==
  \E kind \in {"text", "cdata", "comment", "pi"} :
    /\ Reading(kind)
    /\ IF HiddenBy(kind) \in flags THEN UNCHANGED <<nodes, count, last_child>>
                                   ELSE AppendChild(kind)
    /\ UNCHANGED <<current, stack, elem, last_attr>>

\* A DOCTYPE, a tag without a name, an unterminated construct: no node.
ReadOther ==
  /\ Reading("skip")
  /\ UNCHANGED <<nodes, count, current, last_child, stack, elem, last_attr>>

\* Mutant: last_attr is not reset.
LastAttrKept == last_attr

LastAttrAtTag == Null

ReadOpen ==
  /\ Reading("open")
  /\ AppendChild("element")
  /\ elem' = count /\ last_attr' = LastAttrAtTag
  /\ UNCHANGED <<current, stack>>

\* append_attr
ReadAttribute ==
  /\ Reading("attr")
  /\ nodes' = Chained(Grown(nodes, count, NewNode("attribute", pos, 0)),
                      elem, "first_attr", last_attr, count)
  /\ count' = count + 1 /\ last_attr' = count
  /\ UNCHANGED <<current, last_child, stack, elem>>

\* stack_buf when an element opens: a full one stays as it is.
Saved(saved) == IF Len(saved) < MaxStack
                THEN Append(saved, [parent |-> current, last |-> last_child]) ELSE saved

ReadOpenEnd ==
  /\ Reading("gt")
  /\ stack' = Saved(stack)
  /\ current' = elem /\ last_child' = Null
  /\ UNCHANGED <<nodes, count, elem, last_attr>>

ReadSelfClosingEnd ==
  /\ Reading("sgt")
  /\ UNCHANGED <<nodes, count, current, last_child, stack, elem, last_attr>>

\* Mutant: the last child is not restored.
LastChildForgotten == Null

\* What an end tag goes back to; with nothing saved, the document without a
\* last child.
RestoredParent    == IF stack = <<>> THEN Document ELSE Last(stack).parent
RestoredLastChild == IF stack = <<>> THEN Null     ELSE Last(stack).last

ReadEndTag ==
  /\ Reading("end")
  /\ current' = RestoredParent /\ last_child' = RestoredLastChild
  /\ stack' = IF stack = <<>> THEN stack ELSE Front(stack)
  /\ UNCHANGED <<nodes, count, elem, last_attr>>

Next ==
  \/ ReadContent \/ ReadOther \/ ReadOpen \/ ReadAttribute
  \/ ReadOpenEnd \/ ReadSelfClosingEnd \/ ReadEndTag

Spec == Init /\ [][Next]_vars

-----------------------------------------------------------------------------

NodeType == [type : {"null", "document", "element", "attribute",
                     "text", "cdata", "comment", "pi"},
             at : Nat, val : {0}, first_child : Nat, next_sibling : Nat, first_attr : Nat]

\* Types; current, last_child and last_attr are nodes the pool has handed out, and
\* stack_buf never overflows.
TypeOK ==
  /\ doc \in Seq(Token) /\ WellLexed(doc) /\ pos \in 1 .. Len(doc) + 1 /\ flags \in FlagSets
  /\ count \in Nat \ {0, 1} /\ nodes \in [0 .. count - 1 -> NodeType]
  /\ current \in 1 .. count - 1 /\ last_child \in 0 .. count - 1
  /\ stack \in Seq([parent : 1 .. count - 1, last : 1 .. count - 1]) /\ Len(stack) <= MaxStack
  /\ elem \in 0 .. count - 1 /\ last_attr \in 0 .. count - 1

Forest(array) == LinksForward(array) /\ LinkedAtMostOnce(array)
\* Whatever the input, following links ends and meets no node twice, even where
\* end tags without a start tag or too deep nesting made dom_parse overwrite a
\* first_child and lose nodes.
DomIsForest == Forest(nodes)

\* The attributes of every element are those of its own tag, in order, all that
\* were read, wherever in the tree the element ended up.
AttrsStay ==
  \A k \in DOMAIN nodes :
    LET attrs == AttrsOn(nodes, k)
        next  == nodes[k].at + Len(attrs) + 1
    IN  IF nodes[k].type # "element" THEN attrs = <<>>
        ELSE /\ \A a \in 1 .. Len(attrs) :
                  /\ nodes[attrs[a]].at = nodes[k].at + a
                  /\ doc[nodes[k].at + a].kind = "attr"
             /\ next < pos => doc[next].kind # "attr"

\* How many elements are open after the first n constructs; negative once an end
\* tag closed nothing.
OpenAfter(d, n) ==
  Cardinality({i \in 1 .. n : d[i].kind = "gt"}) - Cardinality({i \in 1 .. n : d[i].kind = "end"})

\* A document whose end tags all close something and that nests at most depth deep.
Nested(d, depth) == \A n \in 0 .. Len(d) : OpenAfter(d, n) \in 0 .. depth

-----------------------------------------------------------------------------
(* The refinement of XmlTree.                                              *)

\* What a construct does to the tree.
RoleOf(tok) ==
  CASE tok.kind = "open" -> "node"
    [] tok.kind \in {"text", "cdata", "comment", "pi"} ->
         IF HiddenBy(tok.kind) \in flags THEN "none" ELSE "node"
    [] tok.kind = "attr" -> "attr"
    [] tok.kind = "gt"   -> "enter"
    [] tok.kind = "end"  -> "leave"
    [] OTHER -> "none"

Roles == [k \in DOMAIN doc |-> RoleOf(doc[k])]

\* The open elements by their numbers.
PathOf(array, saved, cur) ==
  IF saved = <<>> THEN <<>>
  ELSE [m \in 1 .. Len(saved) - 1 |-> OrdinalOf(array, saved[m + 1].parent)]
         \o <<OrdinalOf(array, cur)>>

Tree == INSTANCE XmlTree WITH
          input <- Roles,
          read  <- pos - 1,
          items <- TreeItems(nodes),
          path  <- PathOf(nodes, stack, current)

\* On every document whose end tags close something and that nests no deeper
\* than stack_buf, dom_parse builds the document's tree.
BuildsTheTree == Tree!TInit /\ [][Nested(doc, MaxStack) => Tree!TNext]_(Tree!treeVars)

=============================================================================
