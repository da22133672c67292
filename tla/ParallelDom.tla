---------------------------- MODULE ParallelDom ----------------------------
(***************************************************************************)
(* One call of parallel_fast_dom_parse (include/parshred/dom_fast.hpp):    *)
(* the pre-scan for split points, a thread or an inline call per chunk,    *)
(* the join, and the merge of the partial arrays chunk by chunk.           *)
(*                                                                         *)
(* Threads share the input, which nobody writes, and each writes its own   *)
(* partial result, so that parsing a chunk is one step of its thread.      *)
(* Positions and lengths of the source are counted in tokens.              *)
(*                                                                         *)
(* The pre-scan leaves a comment, CDATA section or DOCTYPE at its first    *)
(* ">", the parser at its end.  Of one with more ">" than that of its end, *)
(* bang stands for the part up to the first ">", close for the rest with   *)
(* the end; between them stand the tags that the pre-scan meets in it.     *)
(* nameless is a tag without a name, which only the pre-scan counts.       *)
(***************************************************************************)
EXTENDS FastDom

CONSTANTS
  Inputs,     \* the inputs
  Options,    \* the flags
  Threads,    \* the values of num_threads
  MinLen      \* inputs shorter than this (1 MiB) are parsed serially

SourceToken == [kind  : {"open", "attr", "gt", "sgt", "end", "text", "skip",
                         "bang", "close", "nameless"},
                w     : Nat,
                hides : {"nothing", "gt", "sgt"}]

\* What is character data for the parser, or may be: it reads the end of a comment
\* so when it begins inside.  Two runs of it are never adjacent.
TextKinds == {"text", "close"}

WellDivided(d) ==
  \A i \in 1 .. Len(d) :
    d[i].kind = "close" => d[i].w > 0 /\ (i > 1 => d[i - 1].kind \notin TextKinds)
                                      /\ (i < Len(d) => d[i + 1].kind \notin TextKinds)

ASSUME ParallelAssumption ==
  /\ Inputs \subseteq {d \in Seq(SourceToken) : WellLexed(d) /\ WellDivided(d)}
  /\ Options \subseteq SUBSET Flags
  /\ Threads \subseteq Nat \ {0} /\ MinLen \in Nat

VARIABLES
  input, flags, num_threads,   \* the arguments
  pc,          \* where the calling thread is: scan, launch, join, merge or done
  points,      \* split_points
  partials,    \* the chunks' results
  threads,     \* the chunks given to a thread each, in the order of launching
  parsing,     \* the chunks whose thread is still parsing
  loop,        \* the counter of the loop at pc
  merged,      \* the result so far: nodes, values, root
  doc_last     \* doc_last_child

parVars == <<input, flags, num_threads, pc, points, partials, threads, parsing, loop, merged, doc_last>>

-----------------------------------------------------------------------------
(* find_split_points.                                                      *)

\* The first thing in a tag that looks like its end, an attribute value that
\* holds ">" or "/>" included, ends it for the pre-scan.
EndsTag(scan, as) == IF scan.in_tag
                     THEN [scan EXCEPT !.in_tag = FALSE,
                                       !.depth  = IF as = "sgt" THEN @ - 1 ELSE @]
                     ELSE scan

\* Mutant: any end tag beyond the target is a split point.
CutAnywhere(scan, i) == i >= scan.next_target

\* A split point: an end tag at depth zero beyond the next target.
CutAfter(scan, i) == scan.depth <= 1 /\ i >= scan.next_target

Scanned(scan, i, tok, target) ==
  CASE tok.kind = "open" -> [scan EXCEPT !.depth = @ + 1, !.in_tag = TRUE]
    [] tok.kind = "attr" -> IF tok.hides = "nothing" THEN scan ELSE EndsTag(scan, tok.hides)
    [] tok.kind \in {"gt", "sgt"} -> EndsTag(scan, tok.kind)
    [] tok.kind = "nameless" -> [scan EXCEPT !.depth = @ + 1]
    [] tok.kind = "end" ->
         IF CutAfter(scan, i)
         THEN [scan EXCEPT !.depth = 0, !.next_target = @ + target, !.points = Append(@, i)]
         ELSE [scan EXCEPT !.depth = @ - 1]
    [] OTHER -> scan

SplitPoints(d, n) ==
  LET target == Len(d) \div n
      first  == [depth |-> 0, in_tag |-> FALSE, next_target |-> target, points |-> <<>>]
      scan[i \in 0 .. Len(d)] ==
        IF i = 0 THEN first ELSE Scanned(scan[i - 1], i, d[i], target)
  IN  scan[Len(d)].points

-----------------------------------------------------------------------------

\* For a parser that begins at token s, token i stands in a comment, CDATA section
\* or DOCTYPE.
Hidden(d, s, i) ==
  \E b \in s .. i - 1 : d[b].kind = "bang" /\ \A j \in b + 1 .. i - 1 : d[j].kind # "close"

SeenAs(d, s, i) ==
  CASE Hidden(d, s, i) \/ d[i].kind \in {"bang", "nameless"} -> "skip"
    [] ~Hidden(d, s, i) /\ d[i].kind = "close"               -> "text"
    [] OTHER                                                 -> d[i].kind

\* What fast_dom_parse takes the tokens for when it begins at token s.
Seen(d, s) == [i \in DOMAIN d |-> [d[i] EXCEPT !.kind = SeenAs(d, s, i)]]

NumChunks == Len(points) + 1
First(c)  == IF c = 1 THEN 1 ELSE points[c - 1] + 1
Final(c)  == IF c = NumChunks THEN Len(input) ELSE points[c]

\* A default-constructed FastDom.
NoDom == [EmptyDom(flags) EXCEPT !.nodes = <<>>, !.count = 0]

ParInit ==
  /\ input \in Inputs /\ num_threads \in Threads
  /\ flags \in Options /\ Possible(input, flags)
  /\ pc = "scan" /\ points = <<>> /\ partials = <<>>
  /\ threads = <<>> /\ parsing = {} /\ loop = 1
  /\ merged = NoDom /\ doc_last = Null

Args == <<input, flags, num_threads>>

\* Small inputs, one thread, or fewer than two split points.
Serially ==
  /\ pc = "scan"
  /\ \/ Len(input) < MinLen \/ num_threads <= 1
     \/ Len(SplitPoints(input, num_threads)) < 2
  /\ merged' = Parsed(flags, Seen(input, 1), 1, Len(input))
  /\ pc' = "done"
  /\ UNCHANGED <<Args, points, partials, threads, parsing, loop, doc_last>>

Split ==
  /\ pc = "scan" /\ Len(input) >= MinLen /\ num_threads > 1
  /\ points' = SplitPoints(input, num_threads) /\ Len(points') >= 2
  /\ partials' = [c \in 1 .. Len(points') + 1 |-> NoDom]
  /\ pc' = "launch"
  /\ UNCHANGED <<Args, threads, parsing, loop, merged, doc_last>>

ActiveThreads == Min({NumChunks, num_threads})

\* The loop over the chunks has a thread parse chunk `loop`.
Launch ==
  /\ pc = "launch" /\ loop < ActiveThreads
  /\ threads' = Append(threads, loop) /\ parsing' = parsing \cup {loop}
  /\ loop' = loop + 1
  /\ UNCHANGED <<Args, pc, points, partials, merged, doc_last>>

ParsedChunk(c) == Parsed(flags, Seen(input, First(c)), First(c), Final(c))

\* The loop over the chunks parses chunk `loop` itself.
ParseInline ==
  /\ pc = "launch" /\ ActiveThreads <= loop /\ loop <= NumChunks
  /\ partials' = [partials EXCEPT ![loop] = ParsedChunk(loop)]
  /\ loop' = loop + 1
  /\ UNCHANGED <<Args, pc, points, threads, parsing, merged, doc_last>>

Launched ==
  /\ pc = "launch" /\ loop > NumChunks
  /\ pc' = "join" /\ loop' = 1
  /\ UNCHANGED <<Args, points, partials, threads, parsing, merged, doc_last>>

\* A thread parses its chunk and ends.
ThreadParses(c) ==
  /\ c \in parsing
  /\ partials' = [partials EXCEPT ![c] = ParsedChunk(c)]
  /\ parsing' = parsing \ {c}
  /\ UNCHANGED <<Args, pc, points, threads, loop, merged, doc_last>>

\* t.join() returns when thread t has ended.
Join ==
  /\ pc = "join" /\ loop <= Len(threads)
  /\ threads[loop] \notin parsing
  /\ loop' = loop + 1
  /\ UNCHANGED <<Args, pc, points, partials, threads, parsing, merged, doc_last>>

Joined ==
  /\ pc = "join" /\ loop > Len(threads)
  /\ pc' = "merge" /\ loop' = 1
  /\ UNCHANGED <<Args, points, partials, threads, parsing, merged, doc_last>>

-----------------------------------------------------------------------------
(* The merge.                                                              *)

Moved(link, base) == IF link = Null THEN Null ELSE link + base

ValueMoved(val, voff) == IF val.in_values THEN [val EXCEPT !.offset = @ + voff] ELSE val

\* A node of a partial result, copied behind `base` nodes and `voff` values.
Copied(node, base, voff) ==
  [node EXCEPT !.first_child  = Moved(@, base),
               !.next_sibling = Moved(@, base),
               !.first_attr   = Moved(@, base),
               !.val          = ValueMoved(@, voff)]

\* The merged result with the nodes and values of partial result p.
WithCopies(p) ==
  LET base == merged.count
      voff == Len(merged.values)
  IN  [merged EXCEPT
         !.nodes  = [i \in 0 .. base + p.count - 1 |->
                       IF i < base THEN merged.nodes[i] ELSE Copied(p.nodes[i - base], base, voff)],
         !.count  = base + p.count,
         !.values = @ \o p.values]

LastKid(nodes) == LET kids == Kids(nodes, Document) IN IF kids = <<>> THEN Null ELSE Last(kids)

\* Mutant: a chunk's root is looked up in the chunk, not behind the earlier ones.
RootNotMoved(p) == p.root

ChunkRoot(p) == p.root + merged.count

\* The first chunk brings the document node; of a later one its first element
\* becomes the document's next child.
MergeChunk ==
  /\ pc = "merge" /\ loop <= NumChunks
  /\ LET p      == partials[loop]
         copied == WithCopies(p)
     IN  CASE p.count = 0 -> UNCHANGED <<merged, doc_last>>
           [] p.count # 0 /\ loop = 1 ->
                /\ merged'   = [copied EXCEPT !.root = p.root]
                /\ doc_last' = LastKid(copied.nodes)
           [] p.count # 0 /\ loop # 1 /\ p.root = Null ->
                merged' = copied /\ UNCHANGED doc_last
           [] OTHER ->
                /\ merged'   = [copied EXCEPT !.nodes =
                                  Chained(@, Document, "first_child", doc_last, ChunkRoot(p))]
                /\ doc_last' = ChunkRoot(p)
  /\ loop' = loop + 1
  /\ UNCHANGED <<Args, pc, points, partials, threads, parsing>>

Merged ==
  /\ pc = "merge" /\ loop > NumChunks
  /\ pc' = "done"
  /\ UNCHANGED <<Args, points, partials, threads, parsing, loop, merged, doc_last>>

Main == Serially \/ Split \/ Launch \/ ParseInline \/ Launched \/ Join \/ Joined
          \/ MergeChunk \/ Merged

\* The call has returned.
Returned == pc = "done" /\ UNCHANGED parVars

ParNext == Main \/ (\E c \in parsing : ThreadParses(c)) \/ Returned

ParSpec == ParInit /\ [][ParNext]_parVars

-----------------------------------------------------------------------------

Serial == Parsed(flags, Seen(input, 1), 1, Len(input))

\* What a node stands for.
ConstructOf(node) ==
  IF node.type \in {"null", "document"} THEN <<>> ELSE <<[type |-> node.type, at |-> node.at]>>

\* The constructs that have a node, in the order of the array.
Made(dom) == FlattenSeq([i \in 1 .. dom.count |-> ConstructOf(dom.nodes[i - 1])])

\* The nodes met from the document node on, following every link.
Walk(nodes) ==
  LET from[i \in DOMAIN nodes \cup {Null}] ==
        IF i = Null THEN <<>>
        ELSE <<i>> \o from[nodes[i].first_attr] \o from[nodes[i].first_child]
                   \o from[nodes[i].next_sibling]
  IN  from[Document]

\* At any moment of the merge links lead forward and stay in the array, and a
\* walk through the result meets no node twice, although the document nodes of
\* the later chunks are copied too and keep their links.
MergedIsTree ==
  merged.count # 0 => LinksForward(merged.nodes) /\ IsInjective(Walk(merged.nodes))

\* value() of every node whose value lives in the values buffer is the input's.
BufferedValuesKept ==
  \A k \in DOMAIN merged.nodes :
    LET n == merged.nodes[k] IN
    n.val.in_values => ValueOf(merged, 1, n) = Bytes(n.at, Min({input[n.at].w, MaxLen}))

Ats(nodes, chain) == [i \in DOMAIN chain |-> nodes[chain[i]].at]

\* The elements of an array with the constructs that are their children and
\* attributes.
Elements(nodes) ==
  {[at |-> nodes[k].at, kids |-> Ats(nodes, Kids(nodes, k)), attrs |-> Ats(nodes, AttrsOn(nodes, k))]
     : k \in {i \in DOMAIN nodes : nodes[i].type = "element"}}

TopLevel(nodes) == Ats(nodes, Kids(nodes, Document))

\* No chunk begins in a comment, CDATA section or DOCTYPE.
CutsOutside == \A k \in DOMAIN points : ~Hidden(input, 1, points[k])

\* The pre-scan is not misled, and every end tag closes something.
Honest(d) ==
  /\ \A i \in DOMAIN d : d[i].hides = "nothing" /\ d[i].kind \notin {"bang", "nameless"}
  /\ \A n \in DOMAIN d : Cardinality({i \in 1 .. n : d[i].kind = "end"})
                           <= Cardinality({i \in 1 .. n : d[i].kind = "gt"})

\* Of a chunk but the first one, the merge keeps its first element, what follows
\* it in the last chunk, and nothing else at document level.
KeptByMerge(c) ==
  LET p    == partials[c]
      kids == Kids(p.nodes, Document)
  IN  \/ c = 1 \/ kids = <<>>
      \/ kids[1] = p.root /\ (Len(kids) = 1 \/ c = NumChunks)

\* Whatever the splits, and in whatever order threads finish, the result holds the
\* values of its nodes, and as long as no chunk begins in a comment, CDATA section
\* or DOCTYPE a node for every construct once, in document order, as the serial one
\* does.  It is the serial one, too, where the pre-scan is not misled: the root and
\* everything below document level always, the document's children where the chunks
\* are as the merge expects them.
MergedIsSerial ==
  pc = "done" =>
    /\ BufferedValuesKept
    /\ CutsOutside => Made(merged) = Made(Serial)
    /\ Honest(input) =>
         /\ Elements(merged.nodes) = Elements(Serial.nodes)
         /\ merged.root # Null => Serial.root # Null /\ merged.nodes[merged.root].at
                                                       = Serial.nodes[Serial.root].at
         /\ (points = <<>> \/ \A c \in 1 .. NumChunks : KeptByMerge(c)) =>
              TopLevel(merged.nodes) = TopLevel(Serial.nodes)

\* The comment at find_split_points says that every chunk can be parsed independently,
\* as comments and CDATA sections are skipped: the constructs that have a node are
\* those of the serial result, whatever the splits.
SplitsAreSafe == pc = "done" => Made(merged) = Made(Serial)

\* The comment at FastDom::value says that an offset which is not into the values
\* buffer is relative to data_ptr: value() of such a node is the input's.
SourceValuesKept ==
  \A k \in DOMAIN merged.nodes :
    LET n == merged.nodes[k] IN
    n.type = "attribute" /\ ~n.val.in_values =>
      ValueOf(merged, 1, n) = Bytes(n.at, Min({input[n.at].w, MaxLen}))

=============================================================================
