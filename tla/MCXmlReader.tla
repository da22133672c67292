---------------------------- MODULE MCXmlReader ----------------------------
(***************************************************************************)
(* TLC instance of XmlReader.                                              *)
(***************************************************************************)
EXTENDS XmlReader

CONSTANTS LongLen, ShortLen   \* bounds on the length of the inputs

Tok(k, n, r) == [kind |-> k, n |-> n, residue |-> r]

\* What element nesting needs, in long inputs; everything, in short ones.
Core  == {Tok("start", 0, FALSE), Tok("empty", 0, FALSE), Tok("end", 0, FALSE),
          Tok("text", 0, FALSE)}
Every == Core \cup
         {Tok("start", 2, FALSE), Tok("start", 3, FALSE), Tok("empty", 1, FALSE),
          Tok("cdata", 0, FALSE), Tok("comment", 0, FALSE), Tok("pi", 0, FALSE),
          Tok("doctype", 0, FALSE), Tok("unterminated", 0, FALSE),
          Tok("badstart", 2, FALSE), Tok("badstart", 0, TRUE), Tok("badtag", 0, TRUE),
          Tok("badtag", 0, FALSE)}

MCDocs == {d \in (UNION {[1 .. n -> Core]  : n \in 0 .. LongLen}) \cup
                 (UNION {[1 .. n -> Every] : n \in 0 .. ShortLen}) : WellLexed(d)}

=============================================================================
