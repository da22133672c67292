---------------------------- MODULE MCXmlWriter ----------------------------
(***************************************************************************)
(* TLC instance of DomBuilder and XmlWriter.                               *)
(***************************************************************************)
EXTENDS XmlWriter

CONSTANTS DeepCalls, WideCalls   \* bounds on the number of calls of a script

C(op, name, text) == [op |-> op, name |-> name, text |-> text]

\* Nesting, in long scripts; contents, in short ones within one element.
Core == {C("start", <<"a">>, <<>>), C("end", <<>>, <<>>), C("add", <<"b", "c">>, <<>>),
         C("text", <<>>, <<"x">>), C("attr", <<"d">>, <<"x">>)}
Wide == {C("start", <<"b">>, <<>>), C("add", <<>>, <<>>), C("end", <<>>, <<>>),
         C("attr", <<"d">>, <<"newline", "'">>), C("attr", <<"e", "f">>, <<"\"", "<">>),
         C("text", <<>>, <<"&", "lt;">>), C("text", <<>>, <<"x", "<", ">", "x", "y">>),
         C("text", <<>>, <<>>), C("comment", <<>>, <<"!">>)}

Upto(n, S) == UNION {[1 .. k -> S] : k \in 0 .. n}

MCScripts == Upto(DeepCalls, Core) \cup
             {<<C("start", <<"a">>, <<>>)>> \o s : s \in Upto(WideCalls, Wide)}

MCOptions == SUBSET {"pretty", "self_close_empty"}

=============================================================================
