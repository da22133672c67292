--------------------------- MODULE ChunkedParser ---------------------------
(***************************************************************************)
(* ChunkedParser::parse (include/parshred/pipeline_impl.hpp): a document   *)
(* is given to one FastSaxParser in chunks, cut before a "<" where one is  *)
(* near, what is cut off being carried over to the next chunk.  The loop   *)
(* of ParallelParser::parse is the same.  A parser object is used for      *)
(* several documents, one call of parse each.                              *)
(***************************************************************************)
EXTENDS FastSax

CONSTANTS
  Inputs,       \* what the first call of parse may be given
  LaterInputs,  \* and what later calls may
  MaxCalls,     \* bound on the calls of one parser object
  ChunkSizes,   \* the values of config_.chunk_size
  Lookback      \* how far a "<" is looked for: 256

\* What documents consist of.  No two texts are neighbours.
Construct == [kind : {"start", "empty", "end", "text", "comment", "cdata", "pi", "doctype"},
              units : Seq(Unit)]

\* An input: what it consists of, and as the parser sees it.
IsInput(in) ==
  /\ in.doc \in Seq(Construct) /\ in.data \in Seq(Unit)
  /\ in.data = FlattenSeq([i \in DOMAIN in.doc |-> in.doc[i].units])

ASSUME ChunkAssumption ==
  /\ \A in \in Inputs \cup LaterInputs : IsInput(in)
  /\ MaxCalls \in Nat
  /\ ChunkSizes \subseteq Nat \ {0} /\ Lookback \in Nat \ {0}

VARIABLES
  doc, data,           \* the input: its constructs, and as parse is given it
  chunk_size,          \* config_.chunk_size
  calls,               \* how often parse was called
  pc,                  \* idle, loop (its condition) or chunk (in the parser)
  pos, safe_end, boundary_buf, first_chunk, bytes_processed,
  fed                  \* all that was given to the parser (history variable)

chunkVars == <<doc, data, chunk_size, calls, pc, pos, safe_end, boundary_buf, first_chunk,
               bytes_processed, fed>>
vars == <<saxVars, chunkVars>>

Slice(from, to) == SubSeq(data, from + 1, to)

Init ==
  /\ mode \in {"Normal", "Turbo"} /\ chunk_size \in ChunkSizes
  /\ buf = <<>> /\ at = 1 /\ depth = 0 /\ entity_count = 0
  /\ attrs_buf = [i \in 1 .. BufSize |-> NoAttr] /\ attrs_overflow = <<>>
  /\ events = <<>> /\ error = "none"
  /\ doc = <<>> /\ data = <<>> /\ calls = 0 /\ pc = "idle"
  /\ pos = 0 /\ safe_end = 0 /\ boundary_buf = <<>> /\ first_chunk = TRUE
  /\ bytes_processed = 0 /\ fed = <<>>

\* Mutant: parse leaves boundary_buf_ as the last call did.
NotCleared == boundary_buf

Cleared == <<>>

\* parse is called: the FastSaxParser is a new one.
Call ==
  /\ pc = "idle" /\ calls < MaxCalls
  /\ \E in \in IF calls = 0 THEN Inputs ELSE LaterInputs : doc' = in.doc /\ data' = in.data
  /\ calls' = calls + 1
  /\ buf' = <<>> /\ at' = 1 /\ depth' = 0 /\ entity_count' = 0
  /\ attrs_buf' = [i \in 1 .. BufSize |-> NoAttr] /\ attrs_overflow' = <<>>
  /\ events' = <<>> /\ error' = "none"
  /\ pos' = 0 /\ safe_end' = 0 /\ boundary_buf' = Cleared /\ first_chunk' = TRUE
  /\ bytes_processed' = 0 /\ fed' = <<>>
  /\ pc' = "loop"
  /\ UNCHANGED <<mode, chunk_size>>

-----------------------------------------------------------------------------

ChunkEnd == Min({pos + chunk_size, Len(data)})

SearchStart(start, end) == IF end > start + Lookback THEN end - Lookback ELSE start

\* Mutant: the chunk is cut after the "<".
CutBehindLt(start, end) ==
  Max({i \in SearchStart(start, end) + 1 .. end : data[i] = "<"} \cup {0})

\* find_safe_boundary: before the last "<" near, and at the end if there is none.
SafeBoundary(start, end) ==
  LET lts == {i \in SearchStart(start, end) + 1 .. end : data[i] = "<"}
  IN  IF lts = {} THEN end ELSE Max(lts) - 1

SafeEnd == IF ChunkEnd < Len(data) THEN SafeBoundary(pos, ChunkEnd) ELSE ChunkEnd

\* Mutant: every chunk is parsed by parse, which resets the counters.
ResetAlways == TRUE

Resets == first_chunk

\* The buffer is the piece carried over with this chunk, or the chunk in place.
Chunk ==
  /\ pc = "loop" /\ pos < Len(data)
  /\ safe_end' = SafeEnd
  /\ buf' = boundary_buf \o Slice(pos, SafeEnd) /\ at' = 1
  /\ fed' = fed \o buf'
  /\ depth' = IF Resets THEN 0 ELSE depth
  /\ entity_count' = IF Resets THEN 0 ELSE entity_count
  /\ first_chunk' = FALSE /\ pc' = "chunk"
  /\ boundary_buf' = IF boundary_buf = <<>> THEN <<>> ELSE buf'
  /\ UNCHANGED <<mode, attrs_buf, attrs_overflow, events, error,
                 doc, data, chunk_size, calls, pos, bytes_processed>>

Carried == Slice(safe_end, ChunkEnd)

\* The parser has returned.
EndChunk ==
  /\ pc = "chunk" /\ error = "none" /\ at > Len(buf)
  /\ bytes_processed' = bytes_processed + (safe_end - pos)
  /\ boundary_buf' = IF safe_end < ChunkEnd THEN Carried ELSE <<>>
  /\ pos' = ChunkEnd /\ pc' = "loop"
  /\ UNCHANGED <<saxVars, doc, data, chunk_size, calls, safe_end, first_chunk, fed>>

\* The parser has thrown: the exception leaves parse.
Rethrow ==
  /\ pc = "chunk" /\ error # "none"
  /\ pc' = "idle"
  /\ UNCHANGED <<saxVars, doc, data, chunk_size, calls, pos, safe_end, boundary_buf, first_chunk,
                 bytes_processed, fed>>

\* The last chunk ends with the input and carries nothing over, so that the code
\* after the loop that parses a remaining boundary_buf_ is never reached: with one,
\* there would be no step here, a deadlock.
Return ==
  /\ pc = "loop" /\ pos >= Len(data) /\ boundary_buf = <<>>
  /\ pc' = "idle"
  /\ UNCHANGED <<saxVars, doc, data, chunk_size, calls, pos, safe_end, boundary_buf, first_chunk,
                 bytes_processed, fed>>

Done == pc = "idle" /\ calls = MaxCalls /\ UNCHANGED vars

ParseChunk == pc = "chunk" /\ SaxStep /\ UNCHANGED chunkVars

\* parse runs on its caller's thread to its end.
Running == Chunk \/ ParseChunk \/ EndChunk \/ Rethrow \/ Return

Next == Call \/ Running \/ Done

Spec == Init /\ [][Next]_vars /\ WF_vars(Running)

-----------------------------------------------------------------------------
(* What the document says.                                                 *)

Markup(c) == c.kind # "text"

\* The events a construct stands for: its units without the marks around them.
EventsOf(c) ==
  LET us == c.units
      n  == Len(us)
      Ev(kind, from, to) == [kind |-> kind, body |-> SubSeq(us, from, to)]
  IN  CASE c.kind = "start"   -> <<Ev("start", 2, n - 1)>>
        [] c.kind = "empty"   -> <<Ev("start", 2, n - 2), Ev("end", 2, 2)>>
        [] c.kind = "end"     -> <<Ev("end", 3, 3)>>
        [] c.kind = "text"    -> <<[kind |-> "text", body |-> IF mode = "Normal" THEN Expanded(us) ELSE us]>>
        [] c.kind = "doctype" -> <<>>
        [] OTHER              -> <<Ev(c.kind, 3, n - 1)>>

OfKind(kind, k) == Cardinality({i \in 1 .. k : doc[i].kind = kind})
ReferencesUpTo(k) ==
  FoldLeft(LAMBDA n, c : IF c.kind = "text" THEN n + Cardinality(References(c.units)) ELSE n,
           0, SubSeq(doc, 1, k))
AttrsOf(c) == {i \in DOMAIN c.units : c.units[i] \in Attrs}

\* What Normal mode finds wrong with construct k of the document.
Wrong(k) ==
  LET c == doc[k]
      open == OfKind("start", k) - OfKind("end", k)
  IN  CASE c.kind \in {"start", "empty"} /\ Cardinality(AttrsOf(c)) > MaxAttrs -> "SecurityError"
        [] c.kind = "start" /\ open > MaxDepth -> "SecurityError"
        [] c.kind = "end" /\ open < 0 -> "ParseError"
        [] c.kind = "text" /\ ReferencesUpTo(k) > MaxEntities -> "SecurityError"
        [] OTHER -> "none"

\* The first construct that is wrong, or the end of the document.
Stop == IF mode = "Turbo" THEN Len(doc) + 1
        ELSE Min({k \in DOMAIN doc : Wrong(k) # "none"} \cup {Len(doc) + 1})

ExpectedError  == IF Stop <= Len(doc) THEN Wrong(Stop) ELSE "none"
ExpectedEvents == FlattenSeq([i \in 1 .. Stop - 1 |-> EventsOf(doc[i])])

\* Events as an application reads them that appends texts in a row to one another.
Joined(evs) ==
  FoldLeft(LAMBDA js, e : IF e.kind = "text" /\ js # <<>> /\ Last(js).kind = "text"
                          THEN [js EXCEPT ![Len(js)].body = @ \o e.body]
                          ELSE Append(js, e),
           <<>>, evs)

\* Without the text they end with.
Trimmed(evs) == IF evs # <<>> /\ Last(evs).kind = "text" THEN Front(evs) ELSE evs

Reach == Min({Lookback, chunk_size})

\* Markup that can never be cut, and references that cannot: no longer than what is
\* looked back over (from the preceding "<"), and without a "<" inside.
Fits(k) ==
  LET c == doc[k]
  IN  IF Markup(c)
      THEN Len(c.units) <= Reach /\ \A i \in DOMAIN c.units : c.units[i] = "<" => i = 1
      ELSE References(c.units) # {} => k > 1 /\ Len(doc[k - 1].units) + Len(c.units) <= Reach

Returned == pc = "idle" /\ calls > 0

-----------------------------------------------------------------------------

\* Every unit of the document is given to the parser once and in order, wherever the
\* cuts fall: what was given so far and what is carried over are the input up to pos.
FedInOrder ==
  /\ pc = "loop" => fed \o boundary_buf = Slice(0, pos)
  /\ pc = "chunk" => fed = Slice(0, safe_end)
  /\ Returned /\ error = "none" => fed = data

\* "Constant memory overhead" (pipeline.hpp): what is carried over begins with "<"
\* and is no longer than the look-back, whatever the document.
CarryBounded ==
  pc = "loop" /\ boundary_buf # <<>> => Head(boundary_buf) = "<" /\ Len(boundary_buf) <= Lookback

\* Where no markup can be cut, chunking is invisible: the callbacks are the document's,
\* in order, with the attributes of the tag itself, and a document is refused for the
\* error that the whole document has.  (Of a text that exceeds the limit of references
\* a part may have been passed before.)
EventsAreTheDocuments ==
  Returned /\ (\A k \in DOMAIN doc : Fits(k)) =>
    /\ error = ExpectedError
    /\ \/ Joined(events) = Joined(ExpectedEvents)
       \/ /\ error = "SecurityError" /\ doc[Stop].kind = "text"
          /\ Trimmed(Joined(events)) = Joined(ExpectedEvents)

Times(kind) == Cardinality({i \in DOMAIN events : events[i].kind = kind})
ReferencesIn(body) == {j \in DOMAIN body : body[j] = "ref"}
RefsPassed == Cardinality(UNION {{i} \X ReferencesIn(events[i].body) : i \in DOMAIN events})

\* The limits of Normal mode are those of the document, not of a chunk: they bound what
\* the application was told over all chunks, even where markup was cut.
LimitsOverAllChunks ==
  mode = "Normal" =>
    /\ Times("start") - Times("end") \in 0 .. MaxDepth
    /\ RefsPassed <= MaxEntities

\* Every call of parse returns or throws.
ParseReturns == (pc # "idle") ~> (pc = "idle")

=============================================================================
