--------------------------- MODULE DocumentChecks ---------------------------
(***************************************************************************)
(* A document that one application reads with all that works on whole      *)
(* documents: fast_dom_parse, a namespace context driven by start and end  *)
(* tags, check_wellformedness; and then validates against a DTD and a      *)
(* schema, and queries with XPath.                                         *)
(***************************************************************************)
EXTENDS Xsd, Dtd, NsContext

CONSTANTS
  Docs,       \* the documents: sequences of tokens [kind, w, hides, name, val, holds]
  Dtds,       \* one after the other: internal subsets, sequences of declarations (Dtd)
  Schemas,    \* sequences of calls of an XsdSchema: [call, element, attr, type, required]
  Queries,    \* [src, means]: the tokens of XPath expressions, and what they ask for
  Xmlns       \* the name xmlns

VARIABLES
  doc, pos,   \* the document, and the next of its tokens
  dom,        \* the state of fast_dom_parse
  scan,       \* the state of check_wellformedness
  result      \* what the last call after the parse returned

docVars == <<doc, pos, dom, scan, result, ns, scopes>>

NoResult == [call |-> "none"]

CheckInit ==
  /\ doc \in Docs /\ pos = 1
  /\ dom = EmptyDom({}) /\ scan = NoScan /\ result = NoResult
  /\ NsInit

AtEnd == pos > Len(doc)
Tree  == [doc |-> doc, dom |-> dom]

\* The attributes of the start tag that ends at token k.
TagAttrs(d, k) ==
  LET open == CHOOSE i \in 1 .. k - 1 : d[i].kind = "open" /\ \A j \in i + 1 .. k - 1 : d[j].kind # "open"
  IN  SubSeq(d, open + 1, k - 1)

\* What process_element_ns declares for attributes.
Declarations(attrs) ==
  LET decls == SelectSeq(attrs, LAMBDA a : a.name.prefix = Xmlns \/ a.name = [prefix |-> NoPrefix, local |-> Xmlns])
  IN  [k \in DOMAIN decls |->
         [prefix |-> IF decls[k].name.prefix = Xmlns THEN decls[k].name.local ELSE NoPrefix,
          uri    |-> decls[k].val]]

\* A handler hears of a start tag at its end; of an empty element, of its end, too.
ReadTagEnd ==
  LET declared == Declarations(TagAttrs(doc, pos)) IN
  IF doc[pos].kind = "gt" THEN StartElement(declared)
  ELSE ns' = ScopePopped(WithBindings(ScopePushed(ns), declared)) /\ UNCHANGED scopes

ReadToken ==
  /\ ~AtEnd
  /\ dom' = ParseToken(dom, 1, pos, doc[pos])
  /\ scan' = Scan(scan, doc[pos])
  /\ CASE doc[pos].kind \in {"gt", "sgt"} -> ReadTagEnd
       [] doc[pos].kind = "end"           -> EndElement
       [] OTHER                           -> UNCHANGED nsVars
  /\ pos' = pos + 1
  /\ UNCHANGED <<doc, result>>

Returned(value) ==
  /\ AtEnd /\ result = NoResult /\ result' = value
  /\ UNCHANGED <<doc, pos, dom, scan>>

Returns(value) == Returned(value) /\ UNCHANGED nsVars

\* The application binds one more prefix, or resets the context.
Bind  == Returned([call |-> "declare"]) /\ \E binding \in Binding : Declare(binding)
Reuse == Returned([call |-> "reset"]) /\ Reset

CheckWellFormedness == Returns([call |-> "wellformedness", issues |-> Unclosed(scan)])

\* The elements of the tree in document order with their attributes.
ElementsOf(t) ==
  LET elements == SelectSeq([k \in 1 .. t.dom.count - 1 |-> k], LAMBDA k : Node(t, k).type = "element")
      attrs(i) == AttrsOn(t.dom.nodes, i)
  IN  [k \in DOMAIN elements |->
         [name  |-> NameOf(t, elements[k]),
          attrs |-> [a \in DOMAIN attrs(elements[k]) |->
                       [name |-> NameOf(t, attrs(elements[k])[a]), val |-> ValueAt(t, attrs(elements[k])[a])]]]]

ValidateDtd ==
  \E k \in DOMAIN Dtds :
    Returns([call |-> "dtd", of |-> k, errors |-> Validate(ParseDtd(Dtds[k]), ElementsOf(Tree))])

\* The calls of add_element and add_attribute, in their order.
SchemaOf(calls) ==
  FoldLeft(LAMBDA schema, c :
             IF c.call = "element" THEN WithElement(schema, c.element, c.type)
             ELSE WithAttribute(schema, c.element, c.attr, c.type.base, c.required),
           EmptySchema, calls)

ValidateSchema ==
  \E k \in DOMAIN Schemas :
    Returns([call |-> "schema", of |-> k, errors |-> ValidateDocument(Tree, SchemaOf(Schemas[k]))])

Query ==
  \E k \in DOMAIN Queries :
    Returns([call |-> "query", of |-> k, nodes |-> Evaluate(Tree, Queries[k].src)])

CheckNext ==
  ReadToken \/ Bind \/ Reuse \/ CheckWellFormedness \/ ValidateDtd \/ ValidateSchema \/ Query

CheckSpec == CheckInit /\ [][CheckNext]_docVars

-----------------------------------------------------------------------------
(* What the document says: its constructs are known by their tokens, the   *)
(* document itself is 0.                                                   *)

\* The open elements after the first n tokens.
OpenAfter(d) ==
  LET open[n \in 0 .. Len(d)] ==
        IF n = 0 THEN <<>>
        ELSE CASE d[n].kind = "gt"  -> Append(open[n - 1], CHOOSE i \in 1 .. n :
                                         d[i].kind = "open" /\ \A j \in i + 1 .. n : d[j].kind # "open")
               [] d[n].kind = "end" /\ open[n - 1] # <<>> -> Front(open[n - 1])
               [] OTHER -> open[n - 1]
  IN  open

ParentOf(d, k) ==
  IF d[k].kind = "attr"
  THEN CHOOSE i \in 1 .. k : d[i].kind = "open" /\ \A j \in i + 1 .. k : d[j].kind # "open"
  ELSE LET open == OpenAfter(d)[k] IN IF open = <<>> THEN 0 ELSE Last(open)

Constructs(d) == {k \in DOMAIN d : d[k].kind \in {"open", "text", "attr"}}
ContentOf(d)  == {k \in DOMAIN d : d[k].kind \in {"open", "text"}}

\* The elements around construct k.
Around(d, k) ==
  IF k = 0 THEN {} ELSE {0} \cup (IF d[k].kind = "attr" THEN {ParentOf(d, k)} ELSE {})
                            \cup ToSet(OpenAfter(d)[k])

StringOf(d, k) ==
  IF k # 0 /\ d[k].kind # "open" THEN d[k].val
  ELSE LET texts == SetToSortSeq({j \in DOMAIN d : d[j].kind = "text" /\ k \in Around(d, j)}, <)
       IN  FlattenSeq([j \in DOMAIN texts |-> d[texts[j]].val])

AttrValuesOf(d, k, name) ==
  {d[a].val : a \in {j \in DOMAIN d : d[j].kind = "attr" /\ ParentOf(d, j) = k /\ d[j].name = name}}

RootOf(d) == {k \in DOMAIN d : d[k].kind = "open" /\ Around(d, k) = {0}
                               /\ \A j \in 1 .. k - 1 : d[j].kind = "open" => Around(d, j) # {0}}

-----------------------------------------------------------------------------
(* What a query means: [absolute, steps], steps of [axis, test, name, who]. *)

Reached(d, axis, k) ==
  CASE axis = "child"      -> {j \in ContentOf(d) : ParentOf(d, j) = k}
    [] axis = "attribute"  -> {j \in Constructs(d) \ ContentOf(d) : ParentOf(d, j) = k}
    [] axis = "self"       -> {k}
    [] axis = "parent"     -> IF k = 0 THEN {} ELSE {ParentOf(d, k)}
    [] axis = "following-sibling" -> {j \in ContentOf(d) : k # 0 /\ j > k /\ ParentOf(d, j) = ParentOf(d, k)}
    [] axis = "within"     -> {k} \cup {j \in ContentOf(d) : k \in Around(d, j)}

IsA(d, step, k) ==
  \/ step.test = "node"
  \/ step.test = "any"  /\ k # 0 /\ d[k].kind # "text"
  \/ step.test = "name" /\ k # 0 /\ d[k].kind # "text" /\ d[k].name = step.name
  \/ step.test = "text" /\ k # 0 /\ d[k].kind = "text"

\* The conditions: who is asked for, of the n-th of m.
Meets(d, who, k, n, m) ==
  CASE who.is = "at"       -> n = who.v
    [] who.is = "last"     -> n = m
    [] who.is = "before"   -> n < who.v
    [] who.is = "anyone"   -> TRUE
    [] who.is = "with"     -> AttrValuesOf(d, k, who.v) # {}
    [] who.is = "without"  -> AttrValuesOf(d, k, who.v) = {}
    [] who.is = "attr"     -> who.val \in AttrValuesOf(d, k, who.v)
    [] who.is = "saying"   -> StringOf(d, k) = who.v
    [] who.is = "holding"  -> \E j \in ContentOf(d) : ParentOf(d, j) = k /\ d[j].kind = "open" /\ d[j].name = who.v
    [] who.is = "longer"   -> Len(StringOf(d, k)) > who.v
    [] who.is = "numbered" -> StringOf(d, k) # <<>> /\ AllDigits(StringOf(d, k)) /\ NumberOf(StringOf(d, k)) > who.v

Chosen(d, nodes, who) ==
  {k \in nodes : Meets(d, who, k, Cardinality({j \in nodes : j <= k}), Cardinality(nodes))}

Asked(d, nodes, step) ==
  UNION {FoldLeft(LAMBDA chosen, who : Chosen(d, chosen, who),
                  {j \in Reached(d, step.axis, k) : IsA(d, step, j)}, step.who) : k \in nodes}

Meant(d, means) ==
  UNION {FoldLeft(LAMBDA nodes, step : Asked(d, nodes, step),
                  IF means[p].absolute THEN {0} ELSE RootOf(d), means[p].steps) : p \in DOMAIN means}

-----------------------------------------------------------------------------

\* No value holds a '/', nor one with a '>' stands in a self-closing tag.
TagsAreRead(d) ==
  \A k \in DOMAIN d : d[k].kind = "attr" =>
    \/ d[k].holds = "nothing"
    \/ d[k].holds = "gt" /\ \E j \in k + 1 .. Len(d) :
                              d[j].kind = "gt" /\ \A i \in k + 1 .. j - 1 : d[i].kind = "attr"

\* check_wellformedness, with a scanner of its own, and the parser agree on which
\* elements are open after every construct, whatever was mismatched before, and
\* it finds no issue exactly in the documents whose tags balance.
IssuesAreMismatches ==
  TagsAreRead(doc) =>
    /\ AtEnd \/ doc[pos].kind \notin {"attr", "gt", "sgt"} =>
         scan.stack = [k \in 1 .. Len(dom.stack) - 1 |-> NameOf(Tree, dom.stack[k + 1].node)]
    /\ result.call = "wellformedness" => (result.issues = <<>> <=> Balanced(doc))

\* The faults of element e, by the declarations as they are written.
ElementFaults(d, decls, e) ==
  LET of(kind)  == {decls[k] : k \in {j \in DOMAIN decls : decls[j].kind = kind}}
      lists     == {decl \in of("attlist") : decl.name = d[e].name}
      attrs     == UNION {ToSet(decl.attrs) : decl \in lists}
      present   == {a \in DOMAIN d : d[a].kind = "attr" /\ ParentOf(d, a) = e}
  IN  (IF of("element") # {} /\ \A decl \in of("element") : decl.name # d[e].name
       THEN {Fault("element", d[e].name, NoName)} ELSE {})
      \cup {Fault("missing", d[e].name, attr.name) :
              attr \in {b \in attrs : b.default = "required" /\ \A a \in present : d[a].name # b.name}}
      \cup {Fault("attribute", d[e].name, d[a].name) :
              a \in {b \in present : lists # {} /\ \A attr \in attrs : attr.name # d[b].name}}
      \cup {Fault("value", d[e].name, d[a].name) :
              a \in {b \in present : \E attr \in attrs : attr.name = d[b].name
                       /\ attr.type = "enumeration" /\ d[b].val \notin attr.values}}

\* An attribute is declared once for an element, with a type the parser reads.
OneDeclaration(decls) ==
  \A j, k \in DOMAIN decls : decls[j].kind = "attlist" /\ decls[k].kind = "attlist" =>
    \A a \in DOMAIN decls[j].attrs : \A b \in DOMAIN decls[k].attrs :
      /\ decls[j].attrs[a].type \notin DOMAIN Unread
      /\ decls[j].name = decls[k].name /\ decls[j].attrs[a].name = decls[k].attrs[b].name
           => j = k /\ a = b

\* The validation errors are, one for one, the faults of the elements against all
\* declarations of the subset, in whatever order and however many ATTLISTs an
\* element has (parse_dtd, validate).
DtdErrorsExact ==
  result.call = "dtd" /\ OneDeclaration(Dtds[result.of]) =>
    LET elements == {k \in DOMAIN doc : doc[k].kind = "open"}
        faults   == UNION {ElementFaults(doc, Dtds[result.of], e) : e \in elements}
    IN  \A f \in faults \cup ToSet(result.errors) :
          Cardinality({k \in DOMAIN result.errors : result.errors[k] = f})
            = Cardinality({e \in elements : f \in ElementFaults(doc, Dtds[result.of], e)})

-----------------------------------------------------------------------------
(* What a schema says of values.                                           *)

\* The numbers that two's complement, and plain binary, have in so many bits.
TwosComplement(bits) == {n \in -(2 ^ bits) .. 2 ^ bits : -(2 ^ (bits - 1)) <= n /\ n < 2 ^ (bits - 1)}
PlainBinary(bits)    == {n \in 0 .. 2 ^ bits : n < 2 ^ bits}

ValueSpace(type) ==
  CASE type = "Integer"            -> Int
    [] type = "NonNegativeInteger" -> Nat
    [] type = "PositiveInteger"    -> Nat \ {0}
    [] type = "NonPositiveInteger" -> Int \ (Nat \ {0})
    [] type = "NegativeInteger"    -> Int \ Nat
    [] type = "Long"               -> TwosComplement(LongBits)
    [] type = "Int"                -> TwosComplement(IntBits)
    [] type = "Short"              -> TwosComplement(ShortBits)
    [] type = "Byte"               -> TwosComplement(ByteBits)
    [] type = "UnsignedLong"       -> PlainBinary(LongBits)
    [] type = "UnsignedInt"        -> PlainBinary(IntBits)
    [] type = "UnsignedShort"      -> PlainBinary(ShortBits)
    [] type = "UnsignedByte"       -> PlainBinary(ByteBits)

IsNumeral(s) == AllDigits(Unsigned(s))

\* The value is one of the type, its bounds and its enumeration.
Valid(simple, value) ==
  LET s == IF simple.base \in {"String", "Token"} THEN value ELSE Trimmed(value)
      w == ApplyWhitespace(value, simple.facets.whitespace)
      bound(f) == simple.facets[f] # <<>>
      limit(f) == Signed(simple.facets[f][1])
  IN  /\ simple.facets.enumeration # <<>> => \E k \in DOMAIN simple.facets.enumeration :
                                               simple.facets.enumeration[k] = w
      /\ bound("max_length") => Len(w) <= simple.facets.max_length[1]
      /\ CASE simple.base = "String"  -> TRUE
           [] simple.base = "Token"   -> Collapsed(w) = w
           [] simple.base = "Boolean" -> s \in {True, False, <<0>>, <<1>>}
           [] OTHER ->
                /\ IsNumeral(s) /\ Signed(s) \in ValueSpace(simple.base)
                /\ bound("min_inclusive") => Signed(s) >= limit("min_inclusive")
                /\ bound("max_inclusive") => Signed(s) <= limit("max_inclusive")
                /\ bound("min_exclusive") => Signed(s) > limit("min_exclusive")
                /\ bound("max_exclusive") => Signed(s) < limit("max_exclusive")

\* Numerals in their shortest form, and for a long long, or in an attribute of an
\* unsigned type for an unsigned one.
Canonical(simple, value, call) ==
  simple.base \in IntegerTypes =>
    /\ IsNumeral(value) /\ Shown(Signed(value)) = value
    /\ Signed(value) \in TwosComplement(LongBits)
         \cup (IF call = "attr" /\ simple.base = "UnsignedLong" THEN PlainBinary(LongBits) ELSE {})

\* No invalid value goes unreported; no valid one in canonical form is reported.
Judged(reported, decl, value) ==
  /\ ~Valid(decl.type, value) => reported
  /\ reported => ~(Valid(decl.type, value) /\ Canonical(decl.type, value, decl.call))

\* The last declaration of a name counts.
LastCall(calls, Is(_)) ==
  LET those == {k \in DOMAIN calls : Is(calls[k])} IN
  IF those = {} THEN <<>> ELSE <<calls[Max(those)]>>

\* A schema's errors are about elements of the root's tree, each once; no invalid
\* element content or attribute and no missing required attribute is passed over,
\* and nothing that is valid and written in canonical form is reported
\* (validate_document, validate_value, the widths of the integer types).
SchemaErrorsExact ==
  result.call = "schema" =>
    LET inside == {k \in DOMAIN doc : doc[k].kind = "open" /\ RootOf(doc) \subseteq Around(doc, k) \cup {k}}
        error(kind, k, attr) ==
          \E j \in DOMAIN result.errors :
            /\ result.errors[j].kind = kind /\ result.errors[j].attr = attr
            /\ Node(Tree, result.errors[j].node).at = k
        element(k) == LastCall(Schemas[result.of], LAMBDA c : c.call = "element" /\ c.element = doc[k].name)
        named(k)   == {c.attr : c \in {d \in ToSet(Schemas[result.of]) : d.call = "attr" /\ d.element = doc[k].name}}
        decl(k, a) == LastCall(Schemas[result.of], LAMBDA c : c.call = "attr" /\ c.element = doc[k].name /\ c.attr = a)[1]
    IN  IF RootOf(doc) = {} THEN Len(result.errors) = 1
        ELSE
        /\ \A k \in inside :
             /\ IF element(k) = <<>> THEN ~error("element", k, NoName)
                ELSE Judged(error("element", k, NoName), element(k)[1], StringOf(doc, k))
             /\ \A a \in named(k) :
                  LET values == AttrValuesOf(doc, k, a) IN
                  /\ error("missing", k, a) <=> values = {} /\ decl(k, a).required
                  /\ values = {} => ~error("attribute", k, a)
                  /\ \A v \in values : Cardinality(values) = 1 =>
                       Judged(error("attribute", k, a), decl(k, a), v)
        /\ \A j, l \in DOMAIN result.errors :
             /\ result.errors[j] = result.errors[l] => j = l
             /\ Node(Tree, result.errors[j].node).at \in inside
             /\ result.errors[j].attr \in {NoName} \cup named(Node(Tree, result.errors[j].node).at)

-----------------------------------------------------------------------------

\* The steps lead from one level of the tree to the next.
Downward(src) == \A k \in DOMAIN src : src[k].t \notin {"//", ".."}

\* An axis by its name; all others are written by their abbreviations.
NamesAnAxis(src) == \E k \in DOMAIN src : src[k].t = "axis"

\* The nodes that the last query selected are those that it means.
MeantAreSelected ==
  {Node(Tree, i).at : i \in ToSet(result.nodes)} = Meant(doc, Queries[result.of].means)

\* A query without the name of an axis selects the nodes that it means, in whatever
\* way it is written, with predicates, precedences and functions; a union, and a
\* path that only leads downwards, has them in document order and each once
\* (parse_xpath, eval_step, eval_pred_expr, eval_xpath_internal).
SelectsTheNodes ==
  result.call = "query" /\ ~NamesAnAxis(Queries[result.of].src) =>
    /\ MeantAreSelected
    /\ Len(Queries[result.of].means) > 1 \/ Downward(Queries[result.of].src) =>
         \A j, k \in DOMAIN result.nodes : j < k => result.nodes[j] < result.nodes[k]

\* A query that names the axis following-sibling:: selects the siblings that follow
\* (docs/conformance.md: the axis is supported; parse_xpath's read_name).
AxesAreFollowed ==
  result.call = "query" /\ NamesAnAxis(Queries[result.of].src) => MeantAreSelected

=============================================================================
