-------------------------------- MODULE Xsd --------------------------------
(***************************************************************************)
(* include/parshred/xsd.hpp: the built-in types (without Float, Double,    *)
(* dates, times and durations, which are regular expressions), the facets  *)
(* (without pattern and the bounds of Decimal), and the declarations of an *)
(* XsdSchema.  What validate_value tells of a value is whether it is       *)
(* accepted.                                                               *)
(***************************************************************************)
EXTENDS XPath

CONSTANTS ByteBits, ShortBits, IntBits, LongBits   \* the widths: 8, 16, 32, 64

ASSUME BitsAssumption ==
  /\ {ByteBits, ShortBits, IntBits, LongBits} \subseteq Nat
  /\ 1 < ByteBits /\ ByteBits < ShortBits /\ ShortBits < IntBits /\ IntBits < LongBits

\* Mutant: the number of values as the greatest of them.
SignedTooFar(bits) == -(2 ^ (bits - 1)) .. 2 ^ (bits - 1)

SignedOf(bits)   == -(2 ^ (bits - 1)) .. 2 ^ (bits - 1) - 1
UnsignedOf(bits) == 0 .. 2 ^ bits - 1

IsInteger(s) == AllDigits(Unsigned(s))

\* from_chars to long long; it knows no plus sign.
FromChars(s, bits) ==
  IF s[1] # Plus /\ Signed(s) \in SignedOf(bits) THEN <<Signed(s)>> ELSE <<>>

ParseLl(s) == IF IsInteger(s) THEN FromChars(s, LongBits) ELSE <<>>

\* To unsigned long long: no sign at all.
ParseUll(s) == IF AllDigits(s) /\ Signed(s) \in UnsignedOf(LongBits) THEN <<Signed(s)>> ELSE <<>>

Fits(value, range) == value # <<>> /\ value[1] \in range

IntegerTypes == {"Integer", "NonNegativeInteger", "PositiveInteger", "NonPositiveInteger",
                 "NegativeInteger", "Long", "Int", "Short", "Byte", "UnsignedLong",
                 "UnsignedInt", "UnsignedShort", "UnsignedByte"}

IsIntegerOf(type, s) ==
  CASE type = "Integer"            -> IsInteger(s)
    [] type = "NonNegativeInteger" -> IsInteger(s) /\ s[1] # Minus
    [] type = "PositiveInteger"    -> Fits(ParseLl(s), Nat \ {0}) /\ Unsigned(s)[1] # 0
    [] type = "NonPositiveInteger" -> Fits(ParseLl(s), {-n : n \in UnsignedOf(LongBits)})
    [] type = "NegativeInteger"    -> Fits(ParseLl(s), {-n : n \in UnsignedOf(LongBits) \ {0}})
    [] type = "Long"               -> ParseLl(s) # <<>>
    [] type = "Int"                -> Fits(ParseLl(s), SignedOf(IntBits))
    [] type = "Short"              -> Fits(ParseLl(s), SignedOf(ShortBits))
    [] type = "Byte"               -> Fits(ParseLl(s), SignedOf(ByteBits))
    [] type = "UnsignedLong"       -> ParseUll(s) # <<>>
    [] type = "UnsignedInt"        -> Fits(ParseUll(s), UnsignedOf(IntBits))
    [] type = "UnsignedShort"      -> Fits(ParseUll(s), UnsignedOf(ShortBits))
    [] type = "UnsignedByte"       -> Fits(ParseUll(s), UnsignedOf(ByteBits))

\* [+-]?(\d+(\.\d*)?|\.\d+)
IsDecimal(s) ==
  LET n   == Unsigned(s)
      dot == {k \in DOMAIN n : n[k] = Dot}
  IN  /\ Cardinality(dot) <= 1
      /\ AllDigits(SelectSeq(n, LAMBDA c : c # Dot))

\* Bytes above 127 count as letters in names; they are left out.
Letters    == {Letter(k) : k \in 1 .. 26} \cup {Letter(k) - 32 : k \in 1 .. 26}
NameStarts == Letters \cup {47, Colon}
NameChars  == NameStarts \cup Digits \cup {Minus, Dot}

IsNcName(s) == s # <<>> /\ s[1] \in NameStarts \ {Colon} /\ \A k \in DOMAIN s : s[k] \in NameChars \ {Colon}

IsQName(s) ==
  \/ IsNcName(s)
  \/ \E k \in DOMAIN s : /\ s[k] = Colon /\ IsNcName(SubSeq(s, 1, k - 1))
                         /\ IsNcName(SubSeq(s, k + 1, Len(s)))

IsNameOf(type, s) ==
  CASE type \in {"NCName", "ID", "IDREF"} -> IsNcName(s)
    [] type = "QName"   -> IsQName(s)
    [] type = "Name"    -> s # <<>> /\ s[1] \in NameStarts /\ \A k \in DOMAIN s : s[k] \in NameChars
    [] type = "NMTOKEN" -> s # <<>> /\ \A k \in DOMAIN s : s[k] \in NameChars
    [] type = "AnyURI"  -> s # <<>>

Hex    == Digits \cup {Letter(k) : k \in 1 .. 6} \cup {Letter(k) - 32 : k \in 1 .. 6}
Equals == 13
Base64 == Letters \cup Digits \cup {Plus, -1, Equals}

IsBinaryOf(type, s) ==
  LET padding == {k \in DOMAIN s : s[k] = Equals} IN
  CASE type = "HexBinary"    -> Len(s) % 2 = 0 /\ \A k \in DOMAIN s : s[k] \in Hex
    [] type = "Base64Binary" -> /\ \A k \in DOMAIN s : s[k] \in Base64
                                /\ Cardinality(padding) <= 2 /\ Len(s) % 4 = 0
                                /\ \A k \in padding : k > Len(s) - Cardinality(padding)

\* String, NormalizedString and Token are about the value with its white space.
IsStringOf(type, value) ==
  CASE type = "String"           -> TRUE
    [] type = "NormalizedString" -> \A k \in DOMAIN value : value[k] \notin Spaces \ {Blank}
    [] type = "Token"            -> Collapsed(value) = value

\* validate_value(value, XsdType)
Accepts(type, value) ==
  LET s == Trimmed(value) IN
  CASE type \in {"String", "NormalizedString", "Token"} -> IsStringOf(type, value)
    [] type \in IntegerTypes                            -> IsIntegerOf(type, s)
    [] type \in {"NCName", "ID", "IDREF", "QName", "Name", "NMTOKEN", "AnyURI"} -> IsNameOf(type, s)
    [] type \in {"HexBinary", "Base64Binary"}           -> IsBinaryOf(type, s)
    [] type = "Decimal"                                 -> IsDecimal(s)
    [] type = "Boolean"                                 -> s \in {True, False, <<0>>, <<1>>}

-----------------------------------------------------------------------------
(* Facets: each is <<>> or <<x>>, but for the enumeration, a sequence of   *)
(* values, and the handling of white space.                                *)

NoFacets == [min_length |-> <<>>, max_length |-> <<>>, enumeration |-> <<>>,
             min_inclusive |-> <<>>, max_inclusive |-> <<>>,
             min_exclusive |-> <<>>, max_exclusive |-> <<>>,
             total_digits |-> <<>>, fraction_digits |-> <<>>, whitespace |-> "preserve"]

ApplyWhitespace(value, handling) ==
  CASE handling = "preserve" -> value
    [] handling = "replace"  -> [k \in DOMAIN value |-> IF value[k] \in Spaces THEN Blank ELSE value[k]]
    [] handling = "collapse" -> Collapsed(value)

LengthFits(s, facets) ==
  /\ facets.min_length # <<>> => Len(s) >= facets.min_length[1]
  /\ facets.max_length # <<>> => Len(s) <= facets.max_length[1]

InEnumeration(s, facets) ==
  facets.enumeration = <<>> \/ s \in ToSet(facets.enumeration)

\* A bound that is no number is not looked at.
Limit(bound) == IF bound = <<>> THEN {} ELSE ToSet(ParseLl(bound[1]))

\* check_numeric_range, for the integers: of the value as it stands, which for
\* every one of these types has to be a long long.
InRange(s, facets) ==
  LET v == ParseLl(s) IN
  /\ v # <<>>
  /\ \A b \in Limit(facets.min_inclusive) : v[1] >= b
  /\ \A b \in Limit(facets.max_inclusive) : v[1] <= b
  /\ \A b \in Limit(facets.min_exclusive) : v[1] > b
  /\ \A b \in Limit(facets.max_exclusive) : v[1] < b

DigitsFit(s, facets) ==
  LET dot == {k \in DOMAIN s : s[k] = Dot} IN
  /\ facets.total_digits # <<>> =>
       Cardinality({k \in DOMAIN s : s[k] \in Digits}) <= facets.total_digits[1]
  /\ facets.fraction_digits # <<>> /\ dot # {} => Len(s) - Min(dot) <= facets.fraction_digits[1]

DigitTypes == {"Decimal", "Integer", "NonNegativeInteger", "PositiveInteger",
               "NonPositiveInteger", "NegativeInteger"}

\* validate_value(value, XsdSimpleType)
AcceptsWith(simple, value) ==
  LET s == ApplyWhitespace(value, simple.facets.whitespace) IN
  /\ LengthFits(s, simple.facets) /\ InEnumeration(s, simple.facets)
  /\ Accepts(simple.base, s)
  /\ simple.base \in IntegerTypes => InRange(s, simple.facets)
  /\ simple.base \in DigitTypes   => DigitsFit(s, simple.facets)

-----------------------------------------------------------------------------
(* XsdSchema: elements_ and attributes_.                                   *)

EmptySchema == [elements |-> <<>>, attributes |-> <<>>]

WithElement(schema, name, simple) == [schema EXCEPT !.elements = name :> simple @@ @]

Plain(type) == [base |-> type, facets |-> NoFacets]

WithAttribute(schema, element, attr, type, required) ==
  LET declared == IF element \in DOMAIN schema.attributes THEN schema.attributes[element] ELSE <<>> IN
  [schema EXCEPT !.attributes =
     element :> (attr :> [type |-> type, required |-> required] @@ declared) @@ @]

-----------------------------------------------------------------------------
(* validate_document: a schema over the FastDom t = [doc, dom] of a        *)
(* document.  An error's message names the element and the attribute;      *)
(* here it has the element's node.                                         *)

SchemaError(kind, node, attr) == [kind |-> kind, node |-> node, attr |-> attr]

ElementErrors(t, schema, i) ==
  LET name == NameOf(t, i) IN
  IF name \in DOMAIN schema.elements /\ ~AcceptsWith(schema.elements[name], TextContent(t, i))
  THEN <<SchemaError("element", i, NoName)>> ELSE <<>>

AttributeErrors(t, i, attr, decl) ==
  LET found == AttrsNamed(t, i, attr) IN
  CASE found = <<>> /\ decl.required  -> <<SchemaError("missing", i, attr)>>
    [] found = <<>> /\ ~decl.required -> <<>>
    [] found # <<>> -> IF Accepts(decl.type, ValueAt(t, found[1])) THEN <<>>
                       ELSE <<SchemaError("attribute", i, attr)>>

\* In the order of a std::map of names.
DeclaredAttrs(schema, name) ==
  IF name \in DOMAIN schema.attributes
  THEN SetToSortSeq(DOMAIN schema.attributes[name], LAMBDA a, b : Before(Spelled(a), Spelled(b)))
  ELSE <<>>

\* One element, without its children.
NodeErrors(t, schema, i) ==
  LET name  == NameOf(t, i)
      attrs == DeclaredAttrs(schema, name)
  IN  IF Node(t, i).type # "element" THEN <<>>
      ELSE ElementErrors(t, schema, i) \o
           FlattenSeq([k \in DOMAIN attrs |->
             AttributeErrors(t, i, attrs[k], schema.attributes[name][attrs[k]])])

\* validate_document, validate_node: the root and all below it in document order.
ValidateDocument(t, schema) ==
  IF t.dom.root = Null THEN <<SchemaError("empty", Null, NoName)>>
  ELSE LET nodes == Subtree(t, t.dom.root) IN
       FlattenSeq([k \in DOMAIN nodes |-> NodeErrors(t, schema, nodes[k])])

=============================================================================
