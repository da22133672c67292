----------------------------- MODULE XmlWriter -----------------------------
(***************************************************************************)
(* XmlWriter::serialize of include/parshred/writer.hpp on the documents a  *)
(* DomBuilder builds and remove_child and remove_attribute modify, and how *)
(* fast_dom_parse (module FastDom) reads its output back.                  *)
(*                                                                         *)
(* The output is a sequence of tokens as in FastDom, with their names and, *)
(* as text, the characters they hold.  An entity reference is the two      *)
(* characters "&" and, for instance, "lt;".                                *)
(***************************************************************************)
EXTENDS DomBuilder

CONSTANTS
  Options,    \* the WriteOptions: sets of "pretty" and "self_close_empty"
  MaxStack    \* of fast_dom_parse: 256

Parser == INSTANCE FastDom

ASSUME WriterAssumption == Options \subseteq SUBSET {"pretty", "self_close_empty"}

Tok(kind, name, text) == [kind |-> kind, name |-> name, text |-> text]

\* Mutant: the ampersand is written as it is.
AmpersandKept(text, special) ==
  FlattenSeq([k \in DOMAIN text |-> IF text[k] \in DOMAIN special \ {"&"}
                                    THEN <<"&", special[text[k]]>> ELSE <<text[k]>>])

Escaped(text, special) ==
  FlattenSeq([k \in DOMAIN text |-> IF text[k] \in DOMAIN special
                                    THEN <<"&", special[text[k]]>> ELSE <<text[k]>>])

EscapeText(text) == Escaped(text, ("&" :> "amp;") @@ ("<" :> "lt;") @@ (">" :> "gt;"))
EscapeAttr(text) == Escaped(text, ("&" :> "amp;") @@ ("<" :> "lt;") @@ ("\"" :> "quot;")
                                  @@ ("'" :> "apos;"))

Indent(opts, depth) ==
  IF "pretty" \in opts THEN <<Tok("text", <<>>, [k \in 1 .. depth |-> " "])>> ELSE <<>>
NewLine(opts) == IF "pretty" \in opts THEN <<Tok("text", <<>>, <<"newline">>)>> ELSE <<>>

TextOf(i) == <<Tok("text", <<>>, EscapeText(ValueOf(i)))>>

AttributesOf(i) ==
  LET attrs == AttrsOn(nodes, i)
  IN  [k \in DOMAIN attrs |-> Tok("attr", NameOf(attrs[k]), EscapeAttr(ValueOf(attrs[k])))]

EndOf(i) == <<Tok("end", NameOf(i), <<>>)>>

\* serialize_node and serialize_element.  Children are written as what they are
\* only if there is an element among them, otherwise all of them as text.
Serialized(opts, idx) ==
  LET node[i \in DOMAIN nodes, depth \in Nat] ==
        LET kids   == Kids(nodes, i)
            nested == \E k \in Range(kids) : nodes[k].type = "element"
            inner  == FlattenSeq([k \in DOMAIN kids |->
                        IF nested THEN node[kids[k], depth + 1] ELSE TextOf(kids[k])])
            start  == Indent(opts, depth) \o <<Tok("open", NameOf(i), <<>>)>> \o AttributesOf(i)
            empty  == IF "self_close_empty" \in opts THEN <<Tok("sgt", <<>>, <<>>)>>
                      ELSE <<Tok("gt", <<>>, <<>>)>> \o EndOf(i)
        IN CASE nodes[i].type = "text"    -> TextOf(i)
             [] nodes[i].type = "comment" ->
                  Indent(opts, depth) \o <<Tok("skip", <<>>, ValueOf(i))>> \o NewLine(opts)
             [] nodes[i].type = "element" /\ kids = <<>> -> start \o empty \o NewLine(opts)
             [] OTHER ->
                  start \o <<Tok("gt", <<>>, <<>>)>>
                  \o (IF nested THEN NewLine(opts) \o inner \o Indent(opts, depth) ELSE inner)
                  \o EndOf(i) \o NewLine(opts)
  IN  node[idx, 0]

\* serialize(): the XML declaration and the root with all that is below it.
Serialize(opts) ==
  <<Tok("skip", <<>>, <<>>)>> \o NewLine(opts)
  \o (IF root # Null THEN Serialized(opts, root) ELSE <<>>)

-----------------------------------------------------------------------------
(* Reading back with FDOM_NORMALIZE.                                       *)

\* As the scanner sees it: neighbouring texts are one, empty ones none.
Lexed(tokens) ==
  FoldLeft(LAMBDA out, t :
             CASE t.kind = "text" /\ t.text = <<>> -> out
               [] t.kind = "text" /\ out # <<>> /\ Last(out).kind = "text" ->
                    [out EXCEPT ![Len(out)].text = @ \o t.text]
               [] OTHER -> Append(out, t),
           <<>>, tokens)

Entity == ("amp;" :> "&") @@ ("lt;" :> "<") @@ ("gt;" :> ">") @@ ("quot;" :> "\"")
          @@ ("apos;" :> "'")

\* expand_entities_inline
Expanded(text) ==
  LET from[k \in 1 .. Len(text) + 1] ==
        CASE k > Len(text) -> <<>>
          [] k < Len(text) /\ text[k] = "&" /\ text[k + 1] \in DOMAIN Entity ->
               <<Entity[text[k + 1]]>> \o from[k + 2]
          [] OTHER -> <<text[k]>> \o from[k + 1]
  IN  from[1]

\* normalize_attr_value
Normalized(text) ==
  Expanded([k \in DOMAIN text |-> IF text[k] = "newline" THEN " " ELSE text[k]])

ReadText(t) == IF t.kind = "attr" THEN Normalized(t.text) ELSE Expanded(t.text)

\* The document that fast_dom_parse makes of the tokens.
Reread(tokens) ==
  Parser!Parsed({"NORMALIZE"},
                [k \in DOMAIN tokens |-> [kind |-> tokens[k].kind, w |-> Len(ReadText(tokens[k])),
                                          hides |-> "nothing"]],
                1, Len(tokens))

-----------------------------------------------------------------------------

\* What a reader of a document sees of node idx and below: tags, attributes and
\* the characters of the texts.  Name and Value look up what belongs to a node.
Seen(array, idx, Name(_), Value(_)) ==
  LET node[i \in DOMAIN array] ==
        LET attrs == AttrsOn(array, i)
            kids  == Kids(array, i)
        IN CASE array[i].type = "text" -> [k \in DOMAIN Value(i) |-> <<"character", <<Value(i)[k]>>>>]
             [] array[i].type = "comment" -> <<>>
             [] OTHER -> <<<<"start", Name(i)>>>>
                  \o [k \in DOMAIN attrs |-> <<"attribute", Name(attrs[k]), Value(attrs[k])>>]
                  \o FlattenSeq([k \in DOMAIN kids |-> node[kids[k]]])
                  \o <<<<"end", Name(i)>>>>
  IN  IF idx = Null THEN <<>> ELSE node[idx]

Unindented(seen, opts) ==
  IF "pretty" \in opts
  THEN SelectSeq(seen, LAMBDA e : e[1] = "character" => e[2][1] \notin {" ", "newline"})
  ELSE seen

SeenBefore ==
  Seen(nodes, root, NameOf,
       LAMBDA i : IF nodes[i].type # "attribute" THEN ValueOf(i)
                  ELSE [k \in DOMAIN ValueOf(i) |->
                          IF ValueOf(i)[k] = "newline" THEN " " ELSE ValueOf(i)[k]])

SeenAfter(tokens) ==
  LET dom   == Reread(tokens)
      At(i) == tokens[dom.nodes[i].at]
  IN  Seen(dom.nodes, dom.root, LAMBDA i : At(i).name,
           LAMBDA i : SubSeq(ReadText(At(i)), 1, dom.nodes[i].val.len))

\* No element has comments and no child element: its comments become text.
CommentsStay ==
  \A i \in Owners :
    LET types == {nodes[k].type : k \in Range(Kids(nodes, i))}
    IN  "comment" \in types => "element" \in types

\* What serialize writes is well-formed where it quotes (no "<" or quote stands
\* for itself in a text or value), and fast_dom_parse reads it back as the same
\* document: elements, attributes with their values, and texts, in order.  A line
\* break in an attribute value comes back as a blank; indentation adds blanks.
RoundTrip ==
  phase = "built" /\ AllNamed /\ CommentsStay =>
    \A opts \in Options :
      LET tokens == Lexed(Serialize(opts)) IN
      (\A k \in DOMAIN tokens : Len(ReadText(tokens[k])) <= MaxLen) =>
        /\ \A k \in DOMAIN tokens : tokens[k].kind = "text" => "<" \notin Range(tokens[k].text)
        /\ \A k \in DOMAIN tokens :
             tokens[k].kind = "attr" => {"<", "\""} \cap Range(tokens[k].text) = {}
        /\ Unindented(SeenAfter(tokens), opts) = Unindented(SeenBefore, opts)

=============================================================================
