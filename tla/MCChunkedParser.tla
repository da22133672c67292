-------------------------- MODULE MCChunkedParser --------------------------
(***************************************************************************)
(* TLC instance of ChunkedParser.                                          *)
(***************************************************************************)
EXTENDS ChunkedParser

CONSTANTS Mixed, Nested   \* bounds on the number of constructs of a document

C(kind, units) == [kind |-> kind, units |-> units]

Start    == C("start", <<"<", "a", ">">>)
StartPQ  == C("start", <<"<", "a", "p", "q", ">">>)
StartPQR == C("start", <<"<", "a", "q", "p", "r", ">">>)
Empty    == C("empty", <<"<", "b", "r", "/", ">">>)
End      == C("end", <<"<", "/", "a", ">">>)
Words     == C("text", <<"x", "x">>)
Refs     == C("text", <<"&", ";", "&", ";">>)
Ref      == C("text", <<"&", ";">>)
Comment  == C("comment", <<"<", "!--", "x", "-->">>)
Hidden   == C("comment", <<"<", "!--", "<", "a", ">", "-->">>)
CData    == C("cdata", <<"<", "![CDATA[", "<", "/", "]]>">>)
PI       == C("pi", <<"<", "?", "x", "?>">>)
Doctype1 == C("doctype", <<"<", "!DOCTYPE", "x", ">">>)
Doctype2 == C("doctype", <<"<", "!DOCTYPE", "[", "<", "!ELEMENT", ">", "]", ">">>)

All  == {Start, StartPQ, StartPQR, Empty, End, Words, Refs, Ref, Comment, Hidden, CData, PI,
         Doctype1, Doctype2}
Some == {Start, End, Ref, Empty}

Upto(n, S) == {d \in UNION {[1 .. k -> S] : k \in 0 .. n} :
                 \A i \in 2 .. Len(d) : d[i].kind = "text" => d[i - 1].kind # "text"}

AsInput(d) == [doc |-> d, data |-> FlattenSeq([i \in DOMAIN d |-> d[i].units])]

MCInputs      == {AsInput(d) : d \in Upto(Mixed, All) \cup Upto(Nested, Some)}
MCLaterInputs == {AsInput(<<Start, Ref, End>>)}

=============================================================================
