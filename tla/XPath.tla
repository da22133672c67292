------------------------------- MODULE XPath -------------------------------
(***************************************************************************)
(* The evaluation of XPath expressions (include/parshred/xpath.hpp) over   *)
(* the FastDom of a document.  t is [doc, dom]: the tokens of the document *)
(* hold names [prefix, local] and values (sequences of characters), the    *)
(* DOM the nodes made from them.                                           *)
(*                                                                         *)
(* A value is [type, v]: a nodeset is a sequence of nodes, a number is <<n>>*)
(* or, if it is NaN, <<>>.  Fractions, division, infinity and number()     *)
(* without an argument, which may throw, are left out.                     *)
(***************************************************************************)
EXTENDS FastDom, CharStrings, XPathParser

Spelled(name) ==
  IF name.prefix = <<>> THEN name.local ELSE name.prefix \o <<Colon>> \o name.local

Node(t, i) == t.dom.nodes[i]

\* FastDom::name and value
NameOf(t, i) ==
  IF Node(t, i).type \in {"element", "attribute"} THEN t.doc[Node(t, i).at].name ELSE NoName

ValueAt(t, i) ==
  IF Node(t, i).type \in {"text", "attribute"}
  THEN SubSeq(t.doc[Node(t, i).at].val, 1, Node(t, i).val.len) ELSE <<>>

\* get_text_content
TextContent(t, i) ==
  LET text[k \in DOMAIN t.dom.nodes] ==
        IF Node(t, k).type = "text" THEN ValueAt(t, k)
        ELSE LET kids == Kids(t.dom.nodes, k) IN FlattenSeq([j \in DOMAIN kids |-> text[kids[j]]])
  IN  text[i]

StringValue(t, i) ==
  IF Node(t, i).type \in {"text", "attribute"} THEN ValueAt(t, i) ELSE TextContent(t, i)

\* FastDom::attr finds the first attribute of the name.
AttrsNamed(t, i, name) ==
  SelectSeq(AttrsOn(t.dom.nodes, i), LAMBDA a : NameOf(t, a) = name)

-----------------------------------------------------------------------------
(* XPathValue                                                              *)

Nodeset(nodes) == [type |-> "nodeset", v |-> nodes]
Number(n)      == [type |-> "number", v |-> n]
String(s)      == [type |-> "string", v |-> s]
Boolean(b)     == [type |-> "boolean", v |-> b]

NaN   == <<Letter(14) - 32, Letter(1), Letter(14) - 32>>

AsString(t, val) ==
  CASE val.type = "string"  -> val.v
    [] val.type = "number"  -> IF val.v = <<>> THEN NaN ELSE Shown(val.v[1])
    [] val.type = "boolean" -> IF val.v THEN True ELSE False
    [] val.type = "nodeset" -> IF val.v = <<>> THEN <<>> ELSE StringValue(t, val.v[1])

AsNumber(t, val) ==
  CASE val.type = "number"  -> val.v
    [] val.type = "boolean" -> <<IF val.v THEN 1 ELSE 0>>
    [] OTHER                -> Stod(AsString(t, val))

AsBoolean(val) ==
  CASE val.type = "boolean" -> val.v
    [] val.type = "number"  -> val.v \notin {<<>>, <<0>>}
    [] OTHER                -> val.v # <<>>

-----------------------------------------------------------------------------
(* Operators                                                               *)

Arithmetic(op, a, b) ==
  IF a = <<>> \/ b = <<>> THEN <<>>
  ELSE CASE op = "+" -> <<a[1] + b[1]>>
         [] op = "-" -> <<a[1] - b[1]>>
         [] op = "*" -> <<a[1] * b[1]>>
         [] op = "mod" /\ b[1] = 0 -> <<>>
         [] op = "mod" /\ b[1] # 0 ->
              LET size(n) == IF n < 0 THEN -n ELSE n
                  rest    == size(a[1]) % size(b[1])
              IN  <<IF a[1] < 0 THEN -rest ELSE rest>>

Ordered(op, less, equal) ==
  CASE op = "="  -> equal
    [] op = "!=" -> ~equal
    [] op = "<"  -> less
    [] op = "<=" -> less \/ equal
    [] op = ">"  -> ~less /\ ~equal
    [] op = ">=" -> ~less

\* Two values that begin with a number are compared as numbers, others as
\* strings.  Nothing but != holds of NaN.
Compare(t, op, l, r) ==
  LET number(val) == IF val.type = "number" THEN val.v ELSE Stod(AsString(t, val))
      numeric(val) == val.type = "number" \/ number(val) # <<>>
      a == number(l)  b == number(r)
      ls == AsString(t, l)  rs == AsString(t, r)
  IN  IF ~(numeric(l) /\ numeric(r)) THEN Ordered(op, Before(ls, rs), ls = rs)
      ELSE IF <<>> \in {a, b} THEN op = "!="
      ELSE Ordered(op, a[1] < b[1], a[1] = b[1])

\* A node-set stands for each of its nodes' values.
Each(t, val) ==
  IF val.type = "nodeset" THEN {String(StringValue(t, i)) : i \in ToSet(val.v)} ELSE {val}

Binary(t, op, l, r) ==
  CASE op = "and" -> Boolean(AsBoolean(l) /\ AsBoolean(r))
    [] op = "or"  -> Boolean(AsBoolean(l) \/ AsBoolean(r))
    [] op \in {"+", "-", "*", "mod"} -> Number(Arithmetic(op, AsNumber(t, l), AsNumber(t, r)))
    [] OTHER -> Boolean(\E a \in Each(t, l), b \in Each(t, r) : Compare(t, op, a, b))

-----------------------------------------------------------------------------
(* Functions                                                               *)

\* substring: from the place in the second argument on, or from the first
\* character if that is before it.  (A place that is NaN, whose conversion to an
\* integer is undefined, is left out.)
Substring(s, args) ==
  LET from == IF args[1][1] < 1 THEN 1 ELSE args[1][1]
      n    == IF Len(args) < 2 THEN Len(s) ELSE IF args[2] = <<>> THEN 0 ELSE args[2][1]
  IN  SubSeq(s, from, Min({from + n - 1, Len(s)}))

SubstringBefore(s, t) == IF Places(s, t) = {} THEN <<>> ELSE SubSeq(s, 1, Min(Places(s, t)) - 1)
SubstringAfter(s, t)  == IF Places(s, t) = {} THEN <<>> ELSE SubSeq(s, Min(Places(s, t)) + Len(t), Len(s))

Translate(s, from, to) ==
  FlattenSeq([k \in DOMAIN s |->
    LET p == {j \in DOMAIN from : from[j] = s[k]} IN
    CASE p = {}                          -> <<s[k]>>
      [] p # {} /\ Min(p) \in DOMAIN to  -> <<to[Min(p)]>>
      [] OTHER                           -> <<>>])

Sum(t, nodes) ==
  FoldLeft(LAMBDA sum, i : sum + (IF Stod(TextContent(t, i)) = <<>> THEN 0 ELSE Stod(TextContent(t, i))[1]),
           0, nodes)

\* What is missing of the arguments is an empty string; many functions are about
\* the node itself without one.
Call(t, fn, args, i, position, last) ==
  LET arg(k)   == IF k \in DOMAIN args THEN args[k] ELSE String(<<>>)
      str(k)   == AsString(t, arg(k))
      num(k)   == AsNumber(t, arg(k))
      nodes    == IF arg(1).type = "nodeset" THEN arg(1).v ELSE <<>>
      itself   == IF args = <<>> THEN TextContent(t, i) ELSE str(1)
      named    == IF args = <<>> THEN NameOf(t, i) ELSE IF nodes = <<>> THEN NoName ELSE NameOf(t, nodes[1])
  IN
  CASE fn = "true"             -> Boolean(TRUE)
    [] fn = "false"            -> Boolean(FALSE)
    [] fn = "not"              -> Boolean(~AsBoolean(arg(1)))
    [] fn = "boolean"          -> Boolean(AsBoolean(arg(1)))
    [] fn = "position"         -> Number(<<position>>)
    [] fn = "last"             -> Number(<<last>>)
    [] fn = "count"            -> Number(<<Len(nodes)>>)
    [] fn = "name"             -> String(Spelled(named))
    [] fn = "local-name"       -> String(named.local)
    [] fn = "string"           -> String(itself)
    [] fn = "contains"         -> Boolean(Places(str(1), str(2)) # {})
    [] fn = "starts-with"      -> Boolean(StartsWith(str(1), str(2)))
    [] fn = "ends-with"        -> Boolean(EndsWith(str(1), str(2)))
    [] fn = "string-length"    -> Number(<<Len(itself)>>)
    [] fn = "substring"        -> String(Substring(str(1), [k \in 1 .. Len(args) - 1 |-> num(k + 1)]))
    [] fn = "substring-before" -> String(SubstringBefore(str(1), str(2)))
    [] fn = "substring-after"  -> String(SubstringAfter(str(1), str(2)))
    [] fn = "concat"           -> String(FlattenSeq([k \in DOMAIN args |-> str(k)]))
    [] fn = "normalize-space"  -> String(Collapsed(itself))
    [] fn = "translate"        -> String(Translate(str(1), str(2), str(3)))
    [] fn = "number"           -> Number(num(1))
    [] fn = "sum"              -> Number(<<Sum(t, nodes)>>)
    [] fn \in {"floor", "ceiling", "round"} -> Number(num(1))
    [] fn = "abs"              -> Number([k \in DOMAIN num(1) |-> IF num(1)[k] < 0 THEN -num(1)[k] ELSE num(1)[k]])
    [] fn = "text()"           -> String(TextContent(t, i))
    [] OTHER                   -> String(<<>>)

-----------------------------------------------------------------------------
(* Steps                                                                   *)

\* The node whose children i is among, searched from the first node on.
HolderOf(t, i) ==
  LET holders == {p \in DOMAIN t.dom.nodes : /\ Node(t, p).type \in {"document", "element"}
                                             /\ i \in ToSet(Kids(t.dom.nodes, p))}
  IN  IF holders = {} THEN <<>> ELSE <<Min(holders)>>

Ancestors(t, i) ==
  LET up[k \in DOMAIN t.dom.nodes] ==
        LET holder == HolderOf(t, k) IN
        IF k <= Document \/ holder = <<>> THEN <<>> ELSE holder \o up[holder[1]]
  IN  up[i]

\* A node and what is below it, in document order.
Subtree(t, i) ==
  LET tree[k \in DOMAIN t.dom.nodes] ==
        LET kids == Kids(t.dom.nodes, k) IN <<k>> \o FlattenSeq([j \in DOMAIN kids |-> tree[kids[j]]])
  IN  tree[i]

\* The children's subtrees are taken from a stack: the last child's comes first.
Descendants(t, i) ==
  LET kids == Reverse(Kids(t.dom.nodes, i)) IN
  FlattenSeq([j \in DOMAIN kids |-> Subtree(t, kids[j])])

\* The siblings before i, first to last.
Preceding(t, i) ==
  LET holder == HolderOf(t, i)
      kids   == IF holder = <<>> THEN <<>> ELSE Kids(t.dom.nodes, holder[1])
  IN  SelectSeq(kids, LAMBDA k : k < i)

Along(t, axis, i) ==
  CASE axis = "child"              -> Kids(t.dom.nodes, i)
    [] axis = "attribute"          -> AttrsOn(t.dom.nodes, i)
    [] axis = "self"               -> <<i>>
    [] axis = "parent"             -> HolderOf(t, i)
    [] axis = "descendant"         -> Descendants(t, i)
    [] axis = "descendant-or-self" -> <<i>> \o Descendants(t, i)
    [] axis = "following-sibling"  -> Chain(t.dom.nodes, Node(t, i).next_sibling)
    [] axis = "preceding-sibling"  -> Preceding(t, i)
    [] axis = "ancestor"           -> Ancestors(t, i)
    [] axis = "ancestor-or-self"   -> <<i>> \o Ancestors(t, i)

\* No node is a comment (FastDom drops them); the parent is taken whatever the test.
Matches(t, step, i) ==
  CASE step.axis = "attribute" -> step.test = "*" \/ (step.test = "name" /\ NameOf(t, i) = step.name)
    [] step.axis = "parent"    -> TRUE
    [] OTHER ->
         \/ step.test = "node()"
         \/ step.test = "*"      /\ Node(t, i).type = "element"
         \/ step.test = "name"   /\ Node(t, i).type = "element" /\ NameOf(t, i) = step.name
         \/ step.test = "text()" /\ Node(t, i).type = "text"
                                 /\ step.axis \in {"child", "descendant", "descendant-or-self"}

\* A number is a position.
Kept(val, position) == IF val.type = "number" THEN val.v = <<position>> ELSE AsBoolean(val)

RECURSIVE EvalExpr(_, _, _, _, _), EvalSteps(_, _, _)

Filtered(t, matches, pred) ==
  LET kept == SelectSeq([k \in DOMAIN matches |-> k],
                        LAMBDA k : Kept(EvalExpr(t, pred, matches[k], k, Len(matches)), k))
  IN  [j \in DOMAIN kept |-> matches[kept[j]]]

\* eval_step: what the step selects from each node of the context, one after the
\* other; a node that is reached twice comes twice.
EvalStep(t, context, step) ==
  FlattenSeq([k \in DOMAIN context |->
    FoldLeft(LAMBDA matches, pred : Filtered(t, matches, pred),
             SelectSeq(Along(t, step.axis, context[k]), LAMBDA i : Matches(t, step, i)),
             step.preds)])

EvalSteps(t, context, steps) ==
  IF steps = <<>> THEN context
  ELSE EvalSteps(t, EvalStep(t, context, Head(steps)), Tail(steps))

\* The parts between the bars outside of brackets.
Parts(src) ==
  LET inside(k) == Cardinality({j \in 1 .. k : src[j].t = "["}) # Cardinality({j \in 1 .. k : src[j].t = "]"})
      bars == SelectSeq([k \in DOMAIN src |-> k], LAMBDA k : src[k].t = "|" /\ ~inside(k))
      ends == <<0>> \o bars \o <<Len(src) + 1>>
  IN  [p \in 1 .. Len(ends) - 1 |-> SubSeq(src, ends[p] + 1, ends[p + 1] - 1)]

EvalPath(t, context, path) ==
  EvalSteps(t, IF path.is_absolute THEN <<Document>> ELSE context, path.steps)

\* Mutant: the parts of a union one after the other.
Joined(results) == FlattenSeq(results)

\* The nodes of a union once, in document order.
Merged(results) == SetToSortSeq(UNION {ToSet(results[p]) : p \in DOMAIN results}, <)

Selected(results, union) == IF union THEN Merged(results) ELSE results[1]

\* eval_xpath_internal; an empty part of a union is left out.
EvalXPath(t, context, src) ==
  LET union == Len(Parts(src)) > 1
      parts == SelectSeq(Parts(src), LAMBDA part : union => part # <<>>)
  IN  Selected([p \in DOMAIN parts |-> EvalPath(t, context, ParsePath(parts[p]))], union)

\* eval_pred_expr
EvalExpr(t, e, i, position, last) ==
  LET value(k) == EvalExpr(t, e.args[k], i, position, last) IN
  CASE e.op = "num"      -> Number(<<e.v>>)
    [] e.op = "str"      -> String(e.v)
    [] e.op = "any attr" -> Boolean(AttrsOn(t.dom.nodes, i) # <<>>)
    [] e.op = "attr"     -> LET found == AttrsNamed(t, i, e.v) IN
                            String(IF found = <<>> THEN <<>> ELSE ValueAt(t, found[1]))
    [] e.op = "neg"      -> Number(LET n == AsNumber(t, value(1)) IN [k \in DOMAIN n |-> -n[k]])
    [] e.op = "path"     -> Nodeset(EvalXPath(t, <<i>>, e.v))
    [] e.op = "call"     -> Call(t, e.v, [k \in DOMAIN e.args |-> value(k)], i, position, last)
    [] OTHER             -> Binary(t, e.op, value(1), value(2))

-----------------------------------------------------------------------------

\* evaluate: relative to the root element.
Evaluate(t, src) == EvalXPath(t, <<t.dom.root>>, src)

\* evaluate_strings, evaluate_string and evaluate_count
EvaluateStrings(t, src) ==
  LET nodes == Evaluate(t, src) IN [k \in DOMAIN nodes |-> StringValue(t, nodes[k])]
EvaluateString(t, src) == LET all == EvaluateStrings(t, src) IN IF all = <<>> THEN <<>> ELSE all[1]
EvaluateCount(t, src)  == Len(Evaluate(t, src))

=============================================================================
