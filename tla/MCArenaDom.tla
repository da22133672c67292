---------------------------- MODULE MCArenaDom ----------------------------
(***************************************************************************)
(* TLC instance of ArenaDom and of DomPools, where the nodes come from: a  *)
(* document is parsed while no result has been made, and results are made  *)
(* and used with nothing to parse.                                         *)
(***************************************************************************)
EXTENDS ArenaDom, DomPools, TLC

CONSTANTS
  DeepLen, WideLen    \* bounds on the number of constructs of an input

Tok(kind) == [kind |-> kind]
Tag(attrs, close) == <<Tok("open")>> \o [k \in 1 .. attrs |-> Tok("attr")] \o <<Tok(close)>>

\* Nesting, in long inputs; everything, in short ones.
Core == {Tag(0, "gt"), Tag(0, "sgt"), <<Tok("end")>>, <<Tok("comment")>>}
Wide == {Tag(1, "gt"), Tag(3, "gt"), Tag(2, "sgt"), <<Tok("end")>>, <<Tok("text")>>,
         <<Tok("cdata")>>, <<Tok("pi")>>, <<Tok("skip")>>}

Upto(n, S) == UNION {[1 .. k -> S] : k \in 0 .. n}

MCDocs == {d \in {FlattenSeq(s) : s \in Upto(DeepLen, Core) \cup Upto(WideLen, Wide)} :
             WellLexed(d)}

MCFlagSets == {{}, {"NO_TEXT_NODES"}, {"NO_COMMENTS", "NO_PIS"}}

\* Results and pages are interchangeable.
Symmetry == Permutations(Results) \cup Permutations(NodePages) \cup Permutations(StringPages)

MCInit == Init /\ PoolsInit

MCNext ==
  \/ Next /\ UNCHANGED poolsVars
  \/ doc = <<>> /\ flags = {} /\ PoolsNext /\ UNCHANGED vars

MCSpec == MCInit /\ [][MCNext]_<<vars, poolsVars>>

=============================================================================
