----------------------------- MODULE MCFastDom -----------------------------
(***************************************************************************)
(* TLC instance of FastDomParse and ParallelDom: a program calls one of    *)
(* the two functions, on an input of its own.                              *)
(***************************************************************************)
EXTENDS FastDomParse, ParallelDom

CONSTANTS
  DeepLen, WideLen,                          \* bounds on the pieces of an input
  PlainPieces, MisledPieces, DividedPieces   \* the same, for the parallel parser

Tok(kind, w) == [kind |-> kind, w |-> w, hides |-> "nothing"]
Tag(attrs, close) ==
  <<Tok("open", 0)>> \o [k \in DOMAIN attrs |-> Tok("attr", attrs[k])] \o <<Tok(close, 0)>>
End   == <<Tok("end", 0)>>
Empty == Tag(<<>>, "gt") \o End

Upto(n, S)  == UNION {[1 .. k -> S] : k \in 0 .. n}
Texts(n, S) == {FlattenSeq(s) : s \in Upto(n, S)}

\* Nesting, in long inputs; attributes and values, in short ones.
Core == {Tag(<<>>, "gt"), Tag(<<>>, "sgt"), End, <<Tok("text", 1)>>}
Wide == {Tag(<<1>>, "gt"), Tag(<<3, 1, 2>>, "gt"), Tag(<<0, 2>>, "sgt"),
         End, <<Tok("text", 0)>>, <<Tok("text", 3)>>, <<Tok("skip", 0)>>}

MCDocs == {d \in Texts(DeepLen, Core) \cup Texts(WideLen, Wide) : WellLexed(d)}

MCFlagSets == SUBSET Flags

\* To be split: elements with their content, attributes whose values look like the
\* end of the tag, and tags in comments.
Hiding(h, close) == <<Tok("open", 0), [Tok("attr", 1) EXCEPT !.hides = h], Tok(close, 0)>>
PlainSet   == {Empty, Tag(<<1>>, "sgt"), <<Tok("text", 1)>>, Tag(<<1>>, "gt"), End}
MisledSet  == {Empty, End} \cup {Hiding(h, close) : h \in {"gt", "sgt"}, close \in {"gt", "sgt"}}
DividedSet == {Empty, End, <<Tok("bang", 0)>>, <<Tok("close", 1)>>, <<Tok("nameless", 0)>>}

MCInputs ==
  {d \in Texts(PlainPieces, PlainSet) \cup Texts(MisledPieces, MisledSet)
           \cup Texts(DividedPieces, DividedSet) : WellLexed(d) /\ WellDivided(d)}

\* Well-formed documents: comments with an element in them, and empty elements, in
\* the root.
Comment    == <<Tok("bang", 0)>> \o End \o <<Tok("close", 1)>>
MCComments == {Tag(<<>>, "gt") \o d \o End : d \in Texts(DividedPieces, {Empty, Comment})}

MCOptions == {{}, {"NORMALIZE"}, {"NO_TEXT", "NO_ATTRS"}}

-----------------------------------------------------------------------------

\* The variables of the function that is not called: as after a call with nothing.
NotParsing    == doc = <<>> /\ pos = 1 /\ dom = EmptyDom({})
NotInParallel ==
  /\ input = <<>> /\ flags = {} /\ num_threads = 1 /\ pc = "done"
  /\ points = <<>> /\ partials = <<>> /\ threads = <<>> /\ parsing = {} /\ loop = 1
  /\ merged = Serial /\ doc_last = Null

MCInit ==
  \/ Init /\ NotInParallel
  \/ ParInit /\ NotParsing

MCNext ==
  \/ Next /\ UNCHANGED parVars
  \/ ParNext /\ UNCHANGED vars

MCSpec == MCInit /\ [][MCNext]_<<vars, parVars>>

=============================================================================
