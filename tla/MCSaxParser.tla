---------------------------- MODULE MCSaxParser ----------------------------
(***************************************************************************)
(* TLC instance of SaxParser.                                              *)
(***************************************************************************)
EXTENDS SaxParser

CONSTANTS Mixed, Nested   \* bounds on the number of constructs of a document

C(kind, units, body) == [kind |-> kind, units |-> units, body |-> body]

\* Attributes with what they say.
P   == [units |-> <<"p", "=", "dq", "x", "dq">>, body |-> <<"@", "p", "is", "x">>]
Q   == [units |-> <<"q", "=", "sq", ">", "<", "sq">>, body |-> <<"@", "q", "is", ">", "<">>]
Its == [units |-> <<"p", "=", "dq", "sq", "dq">>, body |-> <<"@", "p", "is", "sq">>]
R   == [units |-> <<"q">>, body |-> <<"@", "q">>]

Units(as) == FlattenSeq([i \in DOMAIN as |-> as[i].units])
Said(as)  == FlattenSeq([i \in DOMAIN as |-> as[i].body])

Start(as) == C("start", <<"<", "a">> \o Units(as) \o <<">">>, <<"a">> \o Said(as))
Empty(as) == C("empty", <<"<", "b">> \o Units(as) \o <<"/", ">">>, <<"b">> \o Said(as))
End       == C("end", <<"<", "/", "a", ">">>, <<"a">>)
Section(kind, open, inner, close) == C(kind, <<"<", open>> \o inner \o <<close>>, inner)

All == {Start(<<>>), Start(<<P, Q>>), Start(<<R, P, Q>>), Start(<<P, Q, R>>), Start(<<Its>>), Empty(<<Q>>), Empty(<<P, Q, P>>),
        End, C("text", <<"x", "&", "gt", ";">>, <<"x", "ref", ">">>), C("text", <<"&", "#60", ";", "x", "&", "a", ";">>, <<"ref", "<", "x", "ref", "&", "a", ";">>),
        C("text", <<"&", "#x110000", ";", "x">>, <<"ref", "x">>),
        C("text", <<"sq", "x", "sq">>, <<"sq", "x", "sq">>),
        C("text", <<"sq">>, <<"sq">>), C("bad", <<"x", "&", "x">>, <<>>),
        Section("comment", "!--", <<"<", "a", ">">>, "-->"), Section("cdata", "![CDATA[", <<"x", "dq">>, "]]>"),
        Section("pi", "?", <<"x">>, "?>"), Section("pi", "?", <<>>, "?>"),
        Section("doctype", "!DOCTYPE", <<"[", "<", "x", ">", "]">>, ">"),
        C("decl", <<"<", "?", "xml", "?>">>, <<"xml">>),
        C("bad", <<"<", "!--">>, <<>>), C("bad", <<"<", "a", "p", "=", "dq">>, <<>>), C("bad", <<"<", ">">>, <<>>)}
Some == {Start(<<P>>), Start(<<>>), End, C("text", <<"&", "lt", ";">>, <<"ref", "<">>), Empty(<<Q>>)}

Upto(n, S) == {d \in UNION {[1 .. k -> S] : k \in 0 .. n} :
                 \A i \in 2 .. Len(d) : d[i].kind = "text" => d[i - 1].kind # "text"}

AsInput(d) == [doc |-> d, data |-> FlattenSeq([i \in DOMAIN d |-> d[i].units])]

MCInputs      == {AsInput(d) : d \in Upto(Mixed, All) \cup Upto(Nested, Some)}
MCLaterInputs == {AsInput(<<Start(<<>>), C("text", <<"&", "lt", ";">>, <<"ref", "<">>), End>>)}

MCCpus == {{}, {"sse42"}, {"sse42", "avx2", "avx512f"}, Features}
MCBlockSize == [b \in Backends \ {"scalar"} |-> CASE b = "sse42" -> 3 [] b = "avx2" -> 4 [] b = "avx512" -> 8]

=============================================================================
