---------------------------- MODULE FastDomParse ----------------------------
(***************************************************************************)
(* One call of fast_dom_parse (include/parshred/dom_fast.hpp), token by    *)
(* token, on every input of Docs.                                          *)
(***************************************************************************)
EXTENDS FastDom

CONSTANTS
  Docs,      \* the inputs: a set of token sequences
  FlagSets   \* the flags it is called with

ASSUME DocsAssumption  == Docs \subseteq {d \in Seq(Token) : WellLexed(d)}
ASSUME FlagsAssumption == FlagSets \subseteq SUBSET Flags

VARIABLES
  doc,   \* the input
  pos,   \* the next token
  dom    \* the state of the parse

vars == <<doc, pos, dom>>

Init ==
  /\ doc \in Docs /\ pos = 1
  /\ \E flags \in FlagSets : Possible(doc, flags) /\ dom = EmptyDom(flags)

Reading(kind) == pos <= Len(doc) /\ doc[pos].kind = kind

Becomes(parsed) == dom' = parsed /\ pos' = pos + 1 /\ UNCHANGED doc

ReadText      == Reading("text") /\ Becomes(AddText(dom, pos, doc[pos]))
ReadOpen      == Reading("open") /\ Becomes(AddElement(dom, pos))
ReadAttribute == Reading("attr") /\ Becomes(AddAttribute(dom, 1, pos, doc[pos]))
ReadEndOfTag  == (Reading("gt") \/ Reading("sgt")) /\ Becomes(EndOfTag(dom, doc[pos]))
ReadEndTag    == Reading("end")  /\ Becomes(CloseElement(dom))
ReadOther     == Reading("skip") /\ Becomes(dom)

Next == ReadText \/ ReadOpen \/ ReadAttribute \/ ReadEndOfTag \/ ReadEndTag \/ ReadOther

Spec == Init /\ [][Next]_vars

-----------------------------------------------------------------------------

NodeType == [type : {"null", "document", "element", "text", "attribute"},
             at : Nat, val : Value, first_child : Nat, next_sibling : Nat, first_attr : Nat]

\* Types; the stack keeps the document and never overflows.
TypeOK ==
  /\ doc \in Seq(Token) /\ WellLexed(doc) /\ pos \in 1 .. Len(doc) + 1
  /\ dom \in [nodes : [0 .. dom.count - 1 -> NodeType], count : Nat \ {0, 1},
              values : Seq(Nat \X Nat), stack : Seq([node : Nat, last : Nat]),
              root : Nat, elem : Nat, last_attr : Nat, flags : SUBSET Flags]
  /\ Len(dom.stack) \in 1 .. MaxStack

\* Whatever the input, stray end tags and nesting beyond the stack included, the
\* array is one tree: links lead forward and in bounds, and every node is linked
\* from exactly one place (fast_dom_parse's sibling and attribute chains).
DomIsTree == TreeShaped(dom.nodes)

\* value() of every text and attribute node is what the input has there, cut to
\* MaxLen bytes, whichever of the two storages it lives in.
ValuesAreTheInputs ==
  \A k \in DOMAIN dom.nodes :
    LET n == dom.nodes[k] IN
    n.type \in {"text", "attribute"} =>
      ValueOf(dom, 1, n) = Bytes(n.at, Min({doc[n.at].w, MaxLen}))

\* root() is the first element among the document node's children.
RootIsFirst ==
  LET kids == Kids(dom.nodes, Document)
      IsElement(i) == dom.nodes[kids[i]].type = "element"
  IN  IF dom.root = Null THEN \A i \in 1 .. Len(kids) : ~IsElement(i)
      ELSE \E i \in 1 .. Len(kids) :
             kids[i] = dom.root /\ IsElement(i) /\ \A j \in 1 .. i - 1 : ~IsElement(j)

-----------------------------------------------------------------------------
(* The refinement of XmlTree.                                              *)

\* What a token does to the tree.
RoleOf(tok) ==
  CASE tok.kind = "open" -> "node"
    [] tok.kind = "text" /\ "NO_TEXT" \notin dom.flags -> "node"
    [] tok.kind = "attr" /\ "NO_ATTRS" \notin dom.flags -> "attr"
    [] tok.kind = "gt"   -> "enter"
    [] tok.kind = "end"  -> "leave"
    [] OTHER -> "none"

Roles == [k \in DOMAIN doc |-> RoleOf(doc[k])]

\* The open elements by their numbers: the first entry of the stack is the document.
PathOf(array, stack) == [m \in 1 .. Len(stack) - 1 |-> OrdinalOf(array, stack[m + 1].node)]

Built == INSTANCE XmlTree WITH
           input <- Roles,
           read  <- pos - 1,
           items <- TreeItems(dom.nodes),
           path  <- PathOf(dom.nodes, dom.stack)

\* How many elements are open after the first n tokens; a stray end tag closes none.
OpenAfter(d, n) ==
  LET open[k \in 0 .. Len(d)] ==
        IF k = 0 THEN 0
        ELSE CASE d[k].kind = "gt" -> open[k - 1] + 1
               [] d[k].kind = "end" /\ open[k - 1] > 0 -> open[k - 1] - 1
               [] OTHER -> open[k - 1]
  IN  open[n]

\* The parser's stack holds them all.
Fits(d) == \A n \in 0 .. Len(d) : OpenAfter(d, n) < MaxStack

\* As long as no more elements are open than the stack has entries, the array is
\* the document's tree: order, parents and attributes.
BuildsTheTree == Built!TInit /\ [][Fits(doc) => Built!TNext]_(Built!treeVars)

=============================================================================
