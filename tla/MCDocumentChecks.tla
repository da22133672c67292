-------------------------- MODULE MCDocumentChecks --------------------------
(***************************************************************************)
(* Small documents of five kinds: all trees of up to MaxElements elements; *)
(* a root with attributes, texts and leaves; all token sequences of up to  *)
(* MaxTokens tokens, which need not balance; nested declarations of        *)
(* namespaces; and values at the limits of the integer types.              *)
(***************************************************************************)
EXTENDS DocumentChecks

CONSTANTS MaxElements, MaxTokens

Word(k) == <<Letter(k)>>
A == Name(Word(1))   B == Name(Word(2))   X == Name(Word(24))   Y == Name(Word(25))
P == Word(16)
MCXmlns == Word(13)
PB == [prefix |-> P, local |-> Word(2)]

One == <<1>>  Seven == <<7>>  Forty == <<4, 0>>  Negative == <<Minus, 1>>  Five == <<Blank, 5>>

Tok(kind, name, val, holds) ==
  [kind |-> kind, w |-> Len(val), hides |-> "nothing", name |-> name, val |-> val, holds |-> holds]
OpenTag(name)   == Tok("open", name, <<>>, "nothing")
Attr(name, val) == Tok("attr", name, val, "nothing")
Gt  == Tok("gt", NoName, <<>>, "nothing")
Sgt == Tok("sgt", NoName, <<>>, "nothing")
EndTagOf(name)  == Tok("end", name, <<>>, "nothing")
Text(val)       == Tok("text", NoName, val, "nothing")
Other           == Tok("skip", NoName, <<>>, "nothing")

Element(name, attrs, content) ==
  <<OpenTag(name)>> \o attrs \o (IF content = <<>> THEN <<Sgt>> ELSE <<Gt>> \o content \o <<EndTagOf(name)>>)

RECURSIVE Trees(_), Forests(_)
Trees(n) == {Element(name, <<>>, content) : name \in {A, B}, content \in Forests(n - 1)}
Forests(n) ==
  IF n = 0 THEN {<<>>}
  ELSE UNION {{tree \o rest : tree \in Trees(k), rest \in Forests(n - k)} : k \in 1 .. n}

Leaves ==
  {Element(B, attrs, content) :
     attrs   \in {<<>>, <<Attr(X, One)>>, <<Attr(X, Forty)>>, <<Attr(Y, One), Attr(X, Five)>>},
     content \in {<<>>} \cup {<<Text(v)>> : v \in {Seven, Forty, Negative, Five}}}

Items == Leaves \cup {<<Text(Seven)>>, <<Other>>, Element(A, <<>>, <<>>)}

Flat ==
  {Element(A, attrs, first \o second) :
     attrs \in {<<>>, <<Attr(X, Forty)>>}, first \in Items, second \in {<<>>} \cup Leaves \cup {<<Text(One)>>}}

Alphabet == {OpenTag(A), OpenTag(B), Gt, Sgt, EndTagOf(A), EndTagOf(B), Text(One)}
Unbalanced == {d \in BoundedSeq(Alphabet, MaxTokens) : WellLexed(d)}

Quoted(v, holds) == <<Tok("attr", X, v, holds)>>
Holding == {<<>>, Quoted(<<14>>, "gt"), Quoted(<<-1>>, "slash")}
Misleading ==
  {Element(A, outer, Element(B, inner, content) \o Element(A, <<>>, <<>>)) \o more :
     outer \in Holding, inner \in Holding, content \in {<<>>, <<Text(One)>>}, more \in {<<>>, <<EndTagOf(A)>>}}

Declaring == {<<>>, <<Attr([prefix |-> MCXmlns, local |-> P], One)>>,
              <<Attr([prefix |-> MCXmlns, local |-> P], Seven), Attr(Name(MCXmlns), One)>>,
              <<Attr(Name(MCXmlns), Seven)>>}
Scoped ==
  {more \o Element(A, outer, Element(PB, middle, Element(B, inner, <<>>))) \o <<EndTagOf(A)>> :
     outer \in Declaring, middle \in Declaring, inner \in Declaring, more \in {<<>>, <<EndTagOf(B)>>}}

\* The limits of the widths, one beyond each, with leading zeros and with signs.
Limits == {Shown(n) : n \in {-33, -32, -17, -16, -9, -8, -5, -4, -1, 0, 1, 3, 4, 7, 8, 15, 16, 31, 32, 63, 64}}
          \cup {<<0, 7>>, <<Plus, 5>>, <<0, 0, 8>>, <<Plus, 6, 4>>, <<Minus, 0>>, <<Minus, 0, 9>>}

Typed == <<"Integer", "NonNegativeInteger", "PositiveInteger", "NonPositiveInteger", "NegativeInteger",
           "Long", "Int", "Short", "Byte", "UnsignedLong", "UnsignedInt", "UnsignedShort", "UnsignedByte">>
OfType(k) == Name(Word(20) \o Word(k))

\* An element of each type, with the value as its attribute and as its text.
Measured == {Element(OfType(k), <<Attr(X, v)>>, <<Text(v)>>) : k \in DOMAIN Typed, v \in Limits}

MCDocs == Measured \cup UNION {Trees(n) : n \in 1 .. MaxElements} \cup Flat \cup Unbalanced \cup Misleading \cup Scoped

MCPrefixes == {<<>>, P, Word(3)}
MCUris     == {<<>>, One, Seven, Forty}
NoWord     == <<>>
MCXml      == Word(3)

-----------------------------------------------------------------------------
(* Declarations and schemas                                                *)

Elem(name) == [kind |-> "element", name |-> name]
Ent(name, value, param) == [kind |-> "entity", name |-> name, value |-> value, param |-> param]
List(name, attrs) == [kind |-> "attlist", name |-> name, attrs |-> attrs]
Def(name, type, default, values) == [name |-> name, type |-> type, default |-> default, values |-> values]

MCDtds == <<
  <<Elem(A), List(A, <<Def(X, "enumeration", "implied", {One})>>)>>,
  <<Ent(A, One, TRUE), Elem(A), Elem(B), List(B, <<Def(X, "CDATA", "required", {})>>),
    [kind |-> "other"], List(B, <<Def(Y, "CDATA", "fixed", {})>>), Ent(A, <<>>, FALSE)>>,
  <<List(B, <<Def(X, "enumeration", "required", {One, Forty}), Def(Y, "NMTOKEN", "value", {})>>)>>,
  <<Elem(B), List(B, <<Def(X, "ENTITY", "required", {}), Def(Y, "NOTATION", "implied", {One})>>)>> >>

ElementCall(name, simple) ==
  [call |-> "element", element |-> name, attr |-> NoName, type |-> simple, required |-> FALSE]
AttrCall(name, attr, type, required) ==
  [call |-> "attr", element |-> name, attr |-> attr, type |-> Plain(type), required |-> required]
With(type, facet, value) == [base |-> type, facets |-> [NoFacets EXCEPT ![facet] = value]]

MCSchemas == <<
  <<ElementCall(B, Plain("Integer")), AttrCall(B, X, "Long", TRUE)>>,
  <<ElementCall(B, With("Byte", "min_inclusive", <<One>>)), AttrCall(B, X, "UnsignedByte", FALSE),
    AttrCall(B, Y, "Boolean", TRUE)>>,
  <<ElementCall(B, With("Token", "enumeration", <<Seven, Five>>)), ElementCall(A, With("String", "max_length", <<2>>)),
    AttrCall(A, X, "Boolean", FALSE)>>,
  <<ElementCall(B, Plain("Boolean")), AttrCall(B, X, "NegativeInteger", FALSE),
    ElementCall(B, With("UnsignedLong", "max_exclusive", <<Seven>>)), AttrCall(B, X, "PositiveInteger", TRUE)>>,
  <<ElementCall(B, With("NonNegativeInteger", "whitespace", "collapse")), AttrCall(A, X, "UnsignedLong", TRUE)>>,
  [k \in DOMAIN Typed |-> ElementCall(OfType(k), Plain(Typed[k]))]
    \o [k \in DOMAIN Typed |-> AttrCall(OfType(k), X, Typed[k], TRUE)],
  <<ElementCall(OfType(1), With("Integer", "max_inclusive", <<<<7>>>>)),
    ElementCall(OfType(2), With("Int", "min_exclusive", <<<<Minus, 9>>>>)),
    ElementCall(OfType(3), With("UnsignedShort", "min_inclusive", <<<<8>>>>)),
    ElementCall(OfType(4), With("NonPositiveInteger", "max_exclusive", <<<<Minus, 4>>>>)),
    ElementCall(OfType(5), With("UnsignedLong", "max_inclusive", <<<<3, 1>>>>))>> >>

-----------------------------------------------------------------------------
(* Queries                                                                 *)

T(t) == <<[t |-> t, v |-> <<>>]>>
N(name) == <<[t |-> "name", v |-> name]>>
F(fn) == <<[t |-> "func", v |-> fn]>>
S(s) == <<[t |-> "str", v |-> s]>>
I(n) == <<[t |-> "num", v |-> n]>>
Pred(body) == T("[") \o body \o T("]")
AttrIs(v) == T("@") \o N(X) \o T("=") \o S(v)

Go(axis, test, name, who) == [axis |-> axis, test |-> test, name |-> name, who |-> who]
Child(name, who) == Go("child", "name", name, who)
Within == Go("within", "node", NoName, <<>>)
Is(what, v) == <<[is |-> what, v |-> v]>>
From(steps) == <<[absolute |-> TRUE, steps |-> steps]>>
Of(steps)   == <<[absolute |-> FALSE, steps |-> steps]>>

\* All b, with a predicate, and what it asks for.
AllB(body, who) ==
  [src |-> T("//") \o N(B) \o Pred(body), means |-> From(<<Within, Child(B, who)>>)]

Paths == <<
  [src |-> T("/") \o N(A), means |-> From(<<Child(A, <<>>)>>)],
  [src |-> N(A) \o T("/") \o N(B), means |-> Of(<<Child(A, <<>>), Child(B, <<>>)>>)],
  [src |-> T("//") \o N(A) \o T("//") \o N(B) \o T("/") \o T(".."),
   means |-> From(<<Within, Child(A, <<>>), Within, Child(B, <<>>), Go("parent", "node", NoName, <<>>)>>)],
  [src |-> T("/") \o N(A) \o T("//") \o N(B) \o Pred(I(1)),
   means |-> From(<<Child(A, <<>>), Within, Child(B, Is("at", 1))>>)],
  [src |-> T("//") \o T("*") \o T("/") \o T("text()"),
   means |-> From(<<Within, Go("child", "any", NoName, <<>>), Go("child", "text", NoName, <<>>)>>)],
  [src |-> T("//") \o T("@") \o N(X), means |-> From(<<Within, Go("attribute", "name", X, <<>>)>>)],
  [src |-> T("*") \o T("/") \o T("@") \o T("*"),
   means |-> Of(<<Go("child", "any", NoName, <<>>), Go("attribute", "node", NoName, <<>>)>>)],
  [src |-> N(B) \o T("|") \o T("/") \o N(A) \o T("/") \o T("node()") \o T("|") \o T("@") \o N(X),
   means |-> Of(<<Child(B, <<>>)>>) \o From(<<Child(A, <<>>), Go("child", "node", NoName, <<>>)>>)
             \o Of(<<Go("attribute", "name", X, <<>>)>>)],
  [src |-> T("/") \o T("*") \o T("/") \o T(".") \o Pred(N(B) \o T("/") \o T("@") \o N(X) \o T("or") \o N(B)),
   means |-> From(<<Go("child", "any", NoName, <<>>), Go("self", "node", NoName, Is("holding", B))>>)],
  \* An expression that is no path selects nothing.
  [src |-> F("count") \o T("//") \o N(B) \o T(")"), means |-> <<>>],
  [src |-> T("//") \o N(B) \o T("/") \o T("axis") \o N(B),
   means |-> From(<<Within, Child(B, <<>>), Go("following-sibling", "name", B, <<>>)>>)] >>

Positions == <<
  AllB(I(2), Is("at", 2)),
  AllB(F("last") \o T(")"), Is("last", 0)),
  AllB(F("position") \o T(")") \o T("<") \o I(2), Is("before", 2)),
  AllB(T("@") \o N(X), Is("with", X)),
  AllB(F("not") \o T("@") \o N(X) \o T(")"), Is("without", X)),
  [src |-> T("//") \o N(B) \o Pred(AttrIs(Forty)) \o Pred(I(1)),
   means |-> From(<<Within, Child(B, <<[is |-> "attr", v |-> X, val |-> Forty], [is |-> "at", v |-> 1]>>)>>)],
  [src |-> T("//") \o N(A) \o Pred(F("count") \o N(B) \o T(")") \o T(">") \o I(0)),
   means |-> From(<<Within, Child(A, Is("holding", B))>>)] >>

Dotted(fn, s) == F(fn) \o T(".") \o T(",") \o S(s) \o T(")")

Functions == <<
  AllB(F("concat") \o Dotted("substring-before", <<0>>) \o T(",") \o S(<<0>>) \o T(",")
         \o Dotted("substring-after", <<0>>) \o T(")") \o T("=") \o T("."), Is("saying", Forty)),
  AllB(F("translate") \o T(".") \o T(",") \o S(<<4>>) \o T(",") \o S(<<9>>) \o T(")") \o T("=") \o S(<<9, 0>>),
       Is("saying", Forty)),
  AllB(F("normalize-space") \o T(")") \o T("=") \o S(<<5>>), Is("saying", Five)),
  AllB(F("sum") \o T(".") \o T(")") \o T("=") \o T("-") \o I(1), Is("saying", Negative)),
  AllB(F("string-length") \o T(".") \o T(")") \o T(">=") \o I(2), Is("longer", 1)),
  AllB(T(".") \o T(">") \o I(6), Is("numbered", 6)),
  AllB(F("substring") \o T(".") \o T(",") \o I(2) \o T(")") \o T("=") \o S(<<0>>), Is("saying", Forty)),
  AllB(Dotted("contains", <<4>>) \o T("and") \o Dotted("starts-with", <<4>>)
         \o T("and") \o Dotted("ends-with", <<0>>), Is("saying", Forty)),
  AllB(T("text()") \o T("=") \o S(Seven) , Is("saying", Seven)),
  AllB(F("abs") \o T(".") \o T(")") \o T("+") \o F("number") \o T(".") \o T(")") \o T("=") \o I(0),
       Is("saying", Negative)) >>

Operators == <<
  AllB(I(1) \o T("+") \o I(2) \o T("*") \o I(3) \o T("=") \o I(7), Is("anyone", 0)),
  AllB(I(7) \o T("-") \o I(2) \o T("-") \o T("(") \o I(2) \o T("-") \o I(1) \o T(")") \o T("=") \o I(9) \o T("mod") \o I(5),
       Is("anyone", 0)),
  AllB(F("true") \o T(")") \o T("or") \o T("@") \o N(X) \o T("and") \o F("false") \o T(")"), Is("anyone", 0)),
  AllB(F("boolean") \o T("//") \o N(B) \o Pred(I(1)) \o T("/") \o T("..") \o T(")"), Is("anyone", 0)),
  AllB(F("local-name") \o T(")") \o T("=") \o F("name") \o T(".") \o T(")"), Is("anyone", 0)) >>

MCQueries == Paths \o Positions \o Functions \o Operators

=============================================================================
