------------------------------ MODULE FastDom ------------------------------
(***************************************************************************)
(* fast_dom_parse of include/parshred/dom_fast.hpp as an operation on its  *)
(* local state: the node array, the buffer of text values, the stack of    *)
(* open elements, the root, and the element whose attributes are read.     *)
(*                                                                         *)
(* The input is a sequence of tokens:                                      *)
(*   open, attr, gt, sgt   <name, one attribute with its value, >, />      *)
(*   end, text             </name>; a run of character data                *)
(*   skip                  a comment, CDATA section, PI, DOCTYPE, or a tag *)
(*                         without a name: no node is made                 *)
(* w is the length of the text or value, after entity expansion and        *)
(* normalisation where the flags ask for it; hides is what a value holds   *)
(* that the pre-scan of the parallel parser takes for the end of the tag.  *)
(* A place in the source is the number of the token there.                 *)
(***************************************************************************)
EXTENDS NodeLinks, XmlTokens, SequencesExt

CONSTANTS
  MaxStack,    \* entries of stack[]: 256
  MaxLen       \* the largest value_len: 65535

ASSUME StackAssumption == MaxStack \in Nat \ {0}
ASSUME LenAssumption   == MaxLen \in Nat

Token == [kind  : {"open", "attr", "gt", "sgt", "end", "text", "skip"},
          w     : Nat,
          hides : {"nothing", "gt", "sgt"}]

\* A value is in the values buffer, or in the source at an offset from data_ptr.
Value   == [in_values : BOOLEAN, offset : Int, len : Nat]
NoValue == [in_values |-> FALSE, offset |-> 0, len |-> 0]

\* The parse flags that have an effect (no comment node is made with or without
\* FDOM_NO_COMMENT).
Flags == {"NO_TEXT", "NO_ATTRS", "NORMALIZE"}

\* Only the expansion of references can leave a run of character data empty.
Possible(d, flags) ==
  \A i \in 1 .. Len(d) : d[i].kind = "text" /\ d[i].w = 0 => "NORMALIZE" \in flags

\* The state of a parse: nodes and count, values, stack, root_idx; elem_idx and
\* last_attr_idx_local; and its flags.
EmptyDom(flags) ==
  [nodes |-> FirstNodes(NoValue), count |-> 2, values |-> <<>>,
   stack |-> <<[node |-> Document, last |-> Null]>>, root |-> Null,
   elem |-> Null, last_attr |-> Null, flags |-> flags]

Top(dom) == dom.stack[Len(dom.stack)]

\* Mutant: lengths wrap to the width of value_len.
Wrapped(n) == n % (MaxLen + 1)

\* value_len saturates.
Clamped(n) == IF n > MaxLen THEN MaxLen ELSE n

\* The n bytes of the text or value of token i.
Bytes(i, n) == [k \in 1 .. n |-> <<i, k>>]

\* The new node becomes the last child of the innermost open element.
PutChild(dom, node) ==
  [dom EXCEPT !.nodes = Chained(Grown(@, dom.count, node),
                                Top(dom).node, "first_child", Top(dom).last, dom.count),
              !.count = @ + 1,
              !.stack[Len(dom.stack)].last = dom.count]

AddText(dom, i, tok) ==
  IF "NO_TEXT" \in dom.flags THEN dom
  ELSE [PutChild(dom, NewNode("text", i, [in_values |-> TRUE, offset |-> Len(dom.values),
                                          len |-> Clamped(tok.w)]))
        EXCEPT !.values = @ \o Bytes(i, tok.w)]

\* Mutant: the root is the last element at document level.
RootIsLast(dom) == IF Len(dom.stack) = 1 THEN dom.count ELSE dom.root

\* dom.root_idx: the first element met at document level.
RootAfter(dom) == IF Len(dom.stack) = 1 /\ dom.root = Null THEN dom.count ELSE dom.root

AddElement(dom, i) ==
  [PutChild(dom, NewNode("element", i, NoValue))
   EXCEPT !.elem = dom.count, !.last_attr = Null, !.root = RootAfter(dom)]

\* Mutant: the first attribute node stays the last one.
FirstAttrLasts(dom) == IF dom.last_attr = Null THEN dom.count ELSE dom.last_attr

LastAttrAfter(dom) == dom.count

\* The value's place in the input that starts with token s: in the values buffer
\* when it is normalised, otherwise in the source.
AttrValue(dom, s, i, tok) ==
  IF "NORMALIZE" \in dom.flags
  THEN [in_values |-> TRUE,  offset |-> Len(dom.values), len |-> Clamped(tok.w)]
  ELSE [in_values |-> FALSE, offset |-> i - s,           len |-> Clamped(tok.w)]

AddAttribute(dom, s, i, tok) ==
  IF "NO_ATTRS" \in dom.flags THEN dom
  ELSE [dom EXCEPT
          !.nodes = Chained(Grown(@, dom.count, NewNode("attribute", i, AttrValue(dom, s, i, tok))),
                            dom.elem, "first_attr", dom.last_attr, dom.count),
          !.count = @ + 1,
          !.last_attr = LastAttrAfter(dom),
          !.values = IF "NORMALIZE" \in dom.flags THEN @ \o Bytes(i, tok.w) ELSE @]

\* Beyond the last entry of stack[] an open element is not pushed.
Pushed(stack, node) ==
  IF Len(stack) < MaxStack THEN Append(stack, [node |-> node, last |-> Null]) ELSE stack

\* Mutant: a self-closing element becomes a parent too.
OpensAlways(tok) == TRUE

Opens(tok) == tok.kind = "gt"

EndOfTag(dom, tok) == IF Opens(tok) THEN [dom EXCEPT !.stack = Pushed(@, dom.elem)] ELSE dom

\* An end tag closes the innermost open element, whatever its name.
CloseElement(dom) == IF Len(dom.stack) > 1 THEN [dom EXCEPT !.stack = Front(@)] ELSE dom

\* What the loop does with token i of an input that starts with token s.
ParseToken(dom, s, i, tok) ==
  CASE tok.kind = "text"           -> AddText(dom, i, tok)
    [] tok.kind = "open"           -> AddElement(dom, i)
    [] tok.kind = "attr"           -> AddAttribute(dom, s, i, tok)
    [] tok.kind \in {"gt", "sgt"}  -> EndOfTag(dom, tok)
    [] tok.kind = "end"            -> CloseElement(dom)
    [] tok.kind = "skip"           -> dom

\* The whole of fast_dom_parse on the tokens s .. e of d.
Parsed(flags, d, s, e) ==
  LET dom[k \in 0 .. e - s + 1] ==
        IF k = 0 THEN EmptyDom(flags) ELSE ParseToken(dom[k - 1], s, s + k - 1, d[s + k - 1])
  IN  dom[e - s + 1]

-----------------------------------------------------------------------------
(* The accessors.                                                          *)

\* FastDom::value; `base` is the token data_ptr points to.
ValueOf(dom, base, node) ==
  LET v == node.val IN
  IF v.len = 0 THEN <<>>
  ELSE IF v.in_values THEN SubSeq(dom.values, v.offset + 1, v.offset + v.len)
  ELSE Bytes(base + v.offset, v.len)

\* FastDom::element_count
ElementCount(dom) == Cardinality({k \in DOMAIN dom.nodes : dom.nodes[k].type = "element"})

=============================================================================
