-------------------------------- MODULE Dtd --------------------------------
(***************************************************************************)
(* parse_dtd, validate and check_wellformedness (include/parshred/dtd.hpp).*)
(* The internal subset is a sequence of declarations:                      *)
(*   entity  [name, value, param]      value <<>>: no quoted value follows *)
(*   element [name]                    with a content model, never checked *)
(*   attlist [name, attrs]             attrs: [name, type, default, values] *)
(*   other                             comments, NOTATION, ...             *)
(* default is "required", "implied", "fixed" or "value"; values is the set *)
(* of an enumeration.                                                      *)
(***************************************************************************)
EXTENDS XmlTokens, SequencesExt

EmptyDtd == [elements |-> {}, entities |-> <<>>, attlists |-> <<>>]

\* The types that the parser has no case for, as names.
Name(local) == [prefix |-> <<>>, local |-> local]
Unread == [ENTITY |-> Name(<<21>>), ENTITIES |-> Name(<<21, 25>>), NOTATION |-> Name(<<30>>)]

\* What is read of one definition of an ATTLIST: a type there is no case for is
\* taken for the name of another attribute, the default for that one's, and the
\* names of a NOTATION for an enumeration.
AttrDecls(attr) ==
  IF attr.type \notin DOMAIN Unread THEN <<attr>>
  ELSE << [attr EXCEPT !.type = "CDATA", !.default = "implied", !.values = {}],
          [attr EXCEPT !.name = Unread[attr.type],
                       !.type = IF attr.type = "NOTATION" THEN "enumeration" ELSE "CDATA"] >>

\* Mutant: a later ATTLIST of the element replaces the earlier one.
Replaced(old, attrs) == attrs

\* All ATTLISTs of an element together.
Extended(old, attrs) == old \o attrs

AttList(dtd, name) == IF name \in DOMAIN dtd.attlists THEN dtd.attlists[name] ELSE <<>>

ReadDeclaration(dtd, decl) ==
  CASE decl.kind = "entity" /\ decl.value # <<>> ->
         [dtd EXCEPT !.entities =
            decl.name :> [value |-> decl.value, param |-> decl.param] @@ @]
    [] decl.kind = "element" -> [dtd EXCEPT !.elements = @ \cup {decl.name}]
    [] decl.kind = "attlist" ->
         [dtd EXCEPT !.attlists =
            decl.name :> Extended(AttList(dtd, decl.name),
                                  FlattenSeq([k \in DOMAIN decl.attrs |-> AttrDecls(decl.attrs[k])]))
            @@ @]
    [] OTHER -> dtd

ParseDtd(decls) == FoldLeft(ReadDeclaration, EmptyDtd, decls)

-----------------------------------------------------------------------------
(* validate, on elements [name, attrs] with attrs [name, val].             *)

Fault(kind, element, attr) == [kind |-> kind, element |-> element, attr |-> attr]

NotDeclared(dtd, elem) ==
  IF dtd.elements # {} /\ elem.name \notin dtd.elements
  THEN <<Fault("element", elem.name, Name(<<>>))>> ELSE <<>>

Missing(decls, elem) ==
  LET absent == SelectSeq(decls, LAMBDA decl : /\ decl.default = "required"
                                               /\ \A a \in DOMAIN elem.attrs :
                                                    elem.attrs[a].name # decl.name)
  IN  [k \in DOMAIN absent |-> Fault("missing", elem.name, absent[k].name)]

Strange(decls, elem) ==
  LET unknown == SelectSeq(elem.attrs, LAMBDA attr : \A d \in DOMAIN decls : decls[d].name # attr.name)
  IN  [k \in DOMAIN unknown |-> Fault("attribute", elem.name, unknown[k].name)]

\* One error for every declaration that the value is not among.
Outside(decls, attr) ==
  SelectSeq(decls, LAMBDA decl : /\ decl.name = attr.name /\ decl.type = "enumeration"
                                 /\ attr.val \notin decl.values)

BadValues(decls, elem) ==
  FlattenSeq([a \in DOMAIN elem.attrs |->
    [k \in DOMAIN Outside(decls, elem.attrs[a]) |->
       Fault("value", elem.name, elem.attrs[a].name)]])

ValidateElement(dtd, elem) ==
  NotDeclared(dtd, elem) \o
  (IF elem.name \notin DOMAIN dtd.attlists THEN <<>>
   ELSE LET decls == dtd.attlists[elem.name] IN
        Missing(decls, elem) \o Strange(decls, elem) \o BadValues(decls, elem))

Validate(dtd, elements) ==
  FlattenSeq([k \in DOMAIN elements |-> ValidateElement(dtd, elements[k])])

-----------------------------------------------------------------------------
(* check_wellformedness: a scan for tags of its own, with a stack of       *)
(* names, on the constructs of XmlTokens:                                  *)
(*   open [name], attr [holds], gt, sgt, end [name], text, skip            *)
(* holds is what the scan meets first in an attribute's value: "gt" for a  *)
(* '>', "slash" for a '/', "nothing" for neither.                          *)

\* tag_stack, issues, and the name of the start tag the scan is in, if any.
\* (Names are in sequences of length one: <<>> is no tag.)
NoScan == [stack |-> <<>>, issues |-> <<>>, tag |-> <<>>]

\* The tag counts as self-closing at the first '/' after its name.
Slash(tok) == tok.kind = "sgt" \/ (tok.kind = "attr" /\ tok.holds = "slash")

EndsScan(tok) == tok.kind \in {"gt", "sgt"} \/ (tok.kind = "attr" /\ tok.holds # "nothing")

InStartTag(scan, tok) ==
  CASE EndsScan(tok) /\ Slash(tok)  -> [scan EXCEPT !.tag = <<>>]
    [] EndsScan(tok) /\ ~Slash(tok) -> [scan EXCEPT !.stack = @ \o scan.tag, !.tag = <<>>]
    [] ~EndsScan(tok)               -> scan

\* Mutant: a mismatched tag stays open.
Stays(stack) == stack

\* A mismatched end tag closes the element it meets.
AfterMismatch(stack) == Front(stack)

EndTag(scan, name) ==
  CASE scan.stack = <<>> ->
         [scan EXCEPT !.issues = Append(@, [kind |-> "unopened", name |-> name])]
    [] scan.stack # <<>> /\ Last(scan.stack) # name ->
         [scan EXCEPT !.issues = Append(@, [kind |-> "mismatch", name |-> name]),
                      !.stack = AfterMismatch(@)]
    [] scan.stack # <<>> /\ Last(scan.stack) = name ->
         [scan EXCEPT !.stack = Front(@)]

Scan(scan, tok) ==
  CASE tok.kind = "open" -> [scan EXCEPT !.tag = <<tok.name>>]
    [] tok.kind \in {"attr", "gt", "sgt"} /\ scan.tag # <<>> -> InStartTag(scan, tok)
    [] tok.kind = "end"  -> EndTag(scan, tok.name)
    [] OTHER -> scan

\* The tags left open, innermost first.
Unclosed(scan) ==
  scan.issues \o [k \in DOMAIN scan.stack |->
                    [kind |-> "unclosed", name |-> Reverse(scan.stack)[k]]]

-----------------------------------------------------------------------------
(* The reference                                                           *)

\* How deep elements are nested after the first n constructs of d.
DepthAfter(d, n) ==
  Cardinality({k \in 1 .. n : d[k].kind = "gt"}) - Cardinality({k \in 1 .. n : d[k].kind = "end"})

\* The name of the start tag that ends at k.
TagName(d, k) ==
  d[CHOOSE i \in 1 .. k : d[i].kind = "open" /\ \A j \in i + 1 .. k : d[j].kind # "open"].name

\* The start tag that an end tag at depth >= 0 closes ends at k.
ClosedBy(d, e) ==
  CHOOSE k \in 1 .. e - 1 : /\ d[k].kind = "gt" /\ DepthAfter(d, k - 1) = DepthAfter(d, e)
                            /\ \A j \in k .. e - 1 : DepthAfter(d, j) > DepthAfter(d, e)

\* Every element is closed, by an end tag with its name.
Balanced(d) ==
  /\ \A n \in 1 .. Len(d) : DepthAfter(d, n) >= 0
  /\ DepthAfter(d, Len(d)) = 0
  /\ \A e \in 1 .. Len(d) : d[e].kind = "end" => d[e].name = TagName(d, ClosedBy(d, e))

=============================================================================
