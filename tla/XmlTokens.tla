----------------------------- MODULE XmlTokens -----------------------------
(***************************************************************************)
(* The constructs that the scanning loops of fast_dom_parse and dom_parse  *)
(* tell apart, each a record with a field kind:                            *)
(*   open, attr, gt, sgt   <name, one attribute with its value, >, />      *)
(*   end, text             </name>; a run of character data                *)
(*   others                comments, CDATA sections, PIs, ...              *)
(***************************************************************************)
EXTENDS Integers, Sequences

\* Construct i of d stands within a tag.
InTag(d, i) == i > 1 /\ d[i - 1].kind \in {"open", "attr"}

\* What scanning can yield: attributes and tag ends within a tag only, nothing
\* else there, and no two adjacent runs of character data.
WellLexed(d) ==
  \A i \in 1 .. Len(d) :
    /\ d[i].kind \in {"attr", "gt", "sgt"} <=> InTag(d, i)
    /\ d[i].kind = "text" /\ i > 1 => d[i - 1].kind # "text"

=============================================================================
