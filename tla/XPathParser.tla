----------------------------- MODULE XPathParser -----------------------------
(***************************************************************************)
(* parse_xpath and PredParser (include/parshred/xpath.hpp), on a sequence  *)
(* of lexical tokens [t, v]; t is one of                                   *)
(*   /  //  .  ..  @  *  text()  node()  comment()  |  [  ]  (  )  ,       *)
(*   name, axis (with its ::), func (with its parenthesis), str, num,      *)
(*   or  and  =  !=  <  <=  >  >=  +  -  mod                               *)
(* A blank stands only between two tokens that would be one without it; a  *)
(* func is every word before a parenthesis where an operand is read.       *)
(***************************************************************************)
EXTENDS Integers, Sequences, FiniteSets

NoName == [prefix |-> <<>>, local |-> <<>>]

At(src, at) == IF at \in DOMAIN src THEN src[at].t ELSE "end"

Step(axis, test, name) == [axis |-> axis, test |-> test, name |-> name, preds |-> <<>>]
AnyBelow == Step("descendant-or-self", "node()", NoName)
Expr(op, v, args) == [op |-> op, v |-> v, args |-> args]

\* The bracket that closes the one at `at`.
CloseOf(src, at) ==
  LET open(k) == Cardinality({j \in at .. k : src[j].t = "["})
                 - Cardinality({j \in at .. k : src[j].t = "]"})
  IN  CHOOSE k \in at .. Len(src) : open(k) = 0 /\ \A j \in at .. k - 1 : open(j) > 0

\* read_name takes numbers, operators and the names of functions, too.
Words == {"name", "axis", "func", "num", "or", "and", "mod", "-"}
Tests == {"text()", "node()", "comment()"}

\* The last token of the word at `at`: the colons of an axis, and what follows
\* them, are part of the name.
WordEnd(src, at) ==
  IF At(src, at) = "axis" /\ At(src, at + 1) \in Words \cup Tests THEN at + 1 ELSE at

\* No element has the name of a function, an axis or a number.
NameAt(src, at) == IF At(src, at) = "name" THEN src[at].v ELSE NoName

\* What follows a name, if there is one; the parenthesis of a function ends the path.
AfterName(src, at) ==
  LET last == WordEnd(src, at) IN
  CASE At(src, last) \in {"func"} \cup Tests -> Len(src) + 1
    [] At(src, last) \in Words \ {"func"}    -> last + 1
    [] OTHER                                 -> at

\* A step without its predicates.  A point that ends no step is a name.
ReadStep(src, at) ==
  LET here == At(src, at)  next == At(src, at + 1) IN
  CASE here = ".." -> [step |-> Step("parent", "node()", NoName), at |-> at + 1]
    [] here = "."  -> [step |-> IF next \in {"/", "//", "[", "end"} THEN Step("self", "node()", NoName)
                                ELSE Step("child", "name", NoName),
                       at |-> at + 1]
    [] here = "@" /\ next = "*" -> [step |-> Step("attribute", "*", NoName), at |-> at + 2]
    [] here = "@" /\ next # "*" -> [step |-> Step("attribute", "name", NameAt(src, at + 1)),
                                    at |-> AfterName(src, at + 1)]
    [] here \in {"*"} \cup Tests -> [step |-> Step("child", here, NoName), at |-> at + 1]
    [] here \in Words -> [step |-> Step("child", "name", NameAt(src, at)), at |-> AfterName(src, at)]
    [] OTHER          -> [step |-> AnyBelow, at |-> at]

\* Where the node test of a path within a predicate begins, and where it ends:
\* a function's parentheses are taken along only if nothing stands in them.
TestAt(src, at) == IF At(src, at) = "@" THEN at + 1 ELSE at

AfterTest(src, at) ==
  LET test == TestAt(src, at)  last == WordEnd(src, test) IN
  CASE At(src, last) = "func" -> IF At(src, last + 1) = ")" THEN last + 2 ELSE last + 1
    [] At(src, last) \in (Words \ {"func"}) \cup Tests \cup {"*"} -> last + 1
    [] OTHER -> test

\* Where a path within a predicate ends: the one that begins with a slash has
\* one predicate at most in a step.
RECURSIVE RelativeEnd(_, _), AbsoluteEnd(_, _)
RelativeEnd(src, at) ==
  CASE At(src, at) \in {"/", "//"} -> RelativeEnd(src, AfterTest(src, at + 1))
    [] At(src, at) = "["           -> RelativeEnd(src, CloseOf(src, at) + 1)
    [] OTHER                       -> at
AbsoluteEnd(src, at) ==
  LET test == AfterTest(src, at)
      end  == IF At(src, test) = "[" THEN CloseOf(src, test) + 1 ELSE test
  IN  CASE test = TestAt(src, at)           -> test
        [] At(src, end) \in {"/", "//"} /\ test # TestAt(src, at) -> AbsoluteEnd(src, end + 1)
        [] OTHER                            -> end

\* The operators, loosest first.  Comparisons do not chain.
Ops == << {"or"}, {"and"}, {"=", "!=", "<", "<=", ">", ">="}, {"+", "-"}, {"*", "mod"} >>

IsOp(n, op) == op \in Ops[n]

RECURSIVE ParseLevel(_, _, _), ParseMore(_, _, _), ParseArgs(_, _), MoreArgs(_, _)

\* Past the parenthesis that closes what was read, if there is one.
Closed(src, inner) == [inner EXCEPT !.at = IF At(src, @) = ")" THEN @ + 1 ELSE @]

\* What the pieces that were read make together.
Called(fn, args)   == [e |-> Expr("call", fn, args.args), at |-> args.at]
Negated(inner)     == [inner EXCEPT !.e = Expr("neg", <<>>, <<@>>)]
Both(op, left, right) == [right EXCEPT !.e = Expr(op, <<>>, <<left.e, @>>)]

ParsePrimary(src, at) ==
  LET here == At(src, at)
      last == WordEnd(src, at)
      fn   == IF last = at /\ here = "func" THEN src[at].v ELSE IF last = at THEN here ELSE "unknown"
      path(end) == [e |-> Expr("path", SubSeq(src, at, end - 1), <<>>), at |-> end]
  IN
  CASE here = "end" -> [e |-> Expr("num", 0, <<>>), at |-> at]
    [] here = "("   -> Closed(src, ParseLevel(src, 1, at + 1))
    [] here \in {"str", "num"} -> [e |-> Expr(here, src[at].v, <<>>), at |-> at + 1]
    [] here = "@" -> LET name == WordEnd(src, at + 1) IN
                     [e |-> IF At(src, name) = "*" THEN Expr("any attr", NoName, <<>>)
                                                  ELSE Expr("attr", NameAt(src, at + 1), <<>>),
                      at |-> IF At(src, name) \in (Words \ {"func"}) \cup {"*"} THEN name + 1 ELSE at + 1]
    [] here \in {"/", "//"} -> path(AbsoluteEnd(src, at + 1))
    [] At(src, last) = "func"   -> Called(fn, ParseArgs(src, last + 1))
    [] At(src, last) \in Tests  -> [e |-> Expr("call", fn, <<>>), at |-> last + 1]
    [] here \in {"name", "axis", "or", "and", "mod"} /\ At(src, last) \in Words \ {"func"} ->
         path(RelativeEnd(src, AfterTest(src, at)))
    [] here \in {".", ".."} -> path(at + 1)
    [] OTHER -> [e |-> Expr("str", <<>>, <<>>), at |-> at]

ParseUnary(src, at) ==
  IF At(src, at) = "-" THEN Negated(ParsePrimary(src, at + 1)) ELSE ParsePrimary(src, at)

\* The loop of each level, with what is to the left of the operator.
ParseMore(src, n, left) ==
  LET op == At(src, left.at) IN
  IF ~IsOp(n, op) \/ (op = "-" /\ At(src, left.at + 1) \in {"-", "end"}) THEN left
  ELSE LET both == Both(op, left, ParseLevel(src, n + 1, left.at + 1)) IN
       IF n = 3 THEN both ELSE ParseMore(src, n, both)

ParseLevel(src, n, at) ==
  IF n > Len(Ops) THEN ParseUnary(src, at)
  ELSE ParseMore(src, n, ParseLevel(src, n + 1, at))

\* An argument before others.
Preceded(first, rest) == [rest EXCEPT !.args = <<first.e>> \o @]

\* What follows the first argument.
MoreArgs(src, first) ==
  IF At(src, first.at) = "," THEN Preceded(first, MoreArgs(src, ParseLevel(src, 1, first.at + 1)))
  ELSE [args |-> <<first.e>>, at |-> Closed(src, first).at]

ParseArgs(src, at) ==
  IF At(src, at) = ")" THEN [args |-> <<>>, at |-> at + 1]
  ELSE MoreArgs(src, ParseLevel(src, 1, at))

RECURSIVE ReadPredicates(_, _), ReadSteps(_, _)
\* A predicate before others.
Filtering(pred, rest) == [rest EXCEPT !.preds = <<pred.e>> \o @]

ReadPredicates(src, at) ==
  IF At(src, at) # "[" THEN [preds |-> <<>>, at |-> at]
  ELSE LET close == CloseOf(src, at) IN
       Filtering(ParseLevel(SubSeq(src, at + 1, close - 1), 1, 1), ReadPredicates(src, close + 1))

\* The step with its predicates, and those that follow it.
MoreSteps(src, bare, read) ==
  LET step == [bare EXCEPT !.preds = read.preds] IN
  CASE At(src, read.at) = "/"  -> <<step>> \o ReadSteps(src, read.at + 1)
    [] At(src, read.at) = "//" -> <<step, AnyBelow>> \o ReadSteps(src, read.at + 1)
    [] OTHER                   -> <<step>>

ReadSteps(src, at) ==
  LET read == ReadStep(src, at) IN
  IF read.at = at THEN <<>> ELSE MoreSteps(src, read.step, ReadPredicates(src, read.at))

ParsePath(src) ==
  CASE At(src, 1) = "/"  -> [is_absolute |-> TRUE, steps |-> ReadSteps(src, 2)]
    [] At(src, 1) = "//" -> [is_absolute |-> TRUE, steps |-> <<AnyBelow>> \o ReadSteps(src, 2)]
    [] OTHER             -> [is_absolute |-> FALSE, steps |-> ReadSteps(src, 1)]

=============================================================================
