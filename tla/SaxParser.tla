----------------------------- MODULE SaxParser -----------------------------
(***************************************************************************)
(* SaxParser::do_parse (src/sax_parser.cpp): an input is scanned, then     *)
(* made into tokens, then the callbacks are made, one step for a token (a  *)
(* tag with its attributes).  One parser object parses several documents.  *)
(* Every callback is registered.  Left out: the statistics.                *)
(***************************************************************************)
EXTENDS Tokenizer

CONSTANTS
  Inputs,        \* what the first call of parse may be given
  LaterInputs,   \* and what later calls may
  MaxCalls,      \* bound on the calls of one parser object
  MaxDepth, MaxEntities, MaxAttrs   \* the limits

\* What documents consist of: the units, and what they say (body).  There, "ref" is
\* before what a reference stands for, "@" before an attribute's name, "is" before its
\* value.
Construct == [kind : {"start", "empty", "end", "text", "comment", "cdata", "pi", "decl",
                      "doctype", "bad"},
              units : Seq(Unit), body : Seq(Unit \cup {"ref", "@", "is"})]

Tags == {"start", "empty", "end"}

IsInput(in) ==
  /\ in.doc \in Seq(Construct)
  /\ \A k \in DOMAIN in.doc : in.doc[k].kind \in Tags =>
       LET us == in.doc[k].units IN Len(us) > 1 /\ us[1] = "<" /\ us[Len(us)] = ">"
  /\ in.data = FlattenSeq([i \in DOMAIN in.doc |-> in.doc[i].units])

ASSUME SaxAssumption ==
  /\ \A in \in Inputs \cup LaterInputs : IsInput(in)
  /\ {"ref", "@", "is"} \cap Unit = {}
  /\ MaxCalls \in Nat /\ MaxDepth \in Nat /\ MaxEntities \in Nat /\ MaxAttrs \in Nat

VARIABLES
  doc,          \* what data consists of
  calls,        \* how often parse was called
  pc,           \* idle, scan, tokenize or emit
  ti,           \* the next token
  depth, entity_count,
  events,       \* the callbacks made for this input
  error         \* what this call has thrown

parserVars == <<doc, calls, pc, ti, depth, entity_count, events, error>>
vars == <<scanVars, tokenVars, parserVars>>

Init ==
  /\ data = <<>> /\ (\E cpu \in Cpus : backend = BestScanner(cpu))
  /\ scanned = 0 /\ dq_state = FALSE /\ sq_state = FALSE
  /\ index = <<>> /\ si = 1 /\ text_start = 1 /\ tokens = <<>> /\ syntax = "ok"
  /\ doc = <<>> /\ calls = 0 /\ pc = "idle" /\ ti = 1
  /\ depth = 0 /\ entity_count = 0 /\ events = <<>> /\ error = "none"

Zeroed(count) == 0

\* The tokenizer is a new one.
Parse ==
  /\ pc = "idle" /\ calls < MaxCalls
  /\ \E in \in IF calls = 0 THEN Inputs ELSE LaterInputs : doc' = in.doc /\ ScanInit(in.data)
  /\ TokenInit
  /\ depth' = Zeroed(depth) /\ entity_count' = Zeroed(entity_count)
  /\ calls' = calls + 1 /\ pc' = "scan" /\ ti' = 1 /\ events' = <<>> /\ error' = "none"
  /\ UNCHANGED backend

Scanning ==
  /\ pc = "scan"
  /\ \/ (ScanSse42 \/ ScanAvx2 \/ ScanAvx512) /\ UNCHANGED pc
     \/ ScanTail /\ pc' = "tokenize"
  /\ UNCHANGED <<tokenVars, doc, calls, ti, depth, entity_count, events, error>>

Tokenizing ==
  /\ pc = "tokenize"
  /\ \/ TokenStep /\ UNCHANGED <<pc, error>> /\ syntax' = "ok"
     \/ TokenStep /\ syntax' # "ok" /\ pc' = "idle" /\ error' = syntax'
     \/ LastText /\ pc' = "emit" /\ UNCHANGED error
  /\ UNCHANGED <<scanVars, doc, calls, ti, depth, entity_count, events>>

-----------------------------------------------------------------------------
(* The loop over the tokens.                                               *)

Tok == tokens[ti]
Reading(types) == pc = "emit" /\ ti <= Len(tokens) /\ Tok.type \in types

TextOf(t) == SubSeq(data, t.from, t.to)
Event(kind, body) == [kind |-> kind, body |-> body]
Emit(kind, body)  == events' = Append(events, Event(kind, body))

Go(next) ==
  /\ ti' = next
  /\ UNCHANGED <<scanVars, tokenVars, doc, calls, pc, error>>

Throw(e) ==
  /\ error' = e /\ pc' = "idle"
  /\ UNCHANGED <<scanVars, tokenVars, doc, calls, ti, events>>

\* The tokens of the attributes that follow a tag's.
AttrsEnd == Min({j \in ti + 1 .. Len(tokens) :
                   tokens[j].type \notin {"AttributeName", "AttributeValue"}} \cup {Len(tokens) + 1})
AttrTokens == SubSeq(tokens, ti + 1, AttrsEnd - 1)

\* A name begins an attribute; its value, if it has one, is the next token.
Body ==
  TextOf(Tok) \o FlattenSeq([j \in DOMAIN AttrTokens |->
    <<IF AttrTokens[j].type = "AttributeName" THEN "@" ELSE "is">> \o TextOf(AttrTokens[j])])

\* Mutant: the limit is one too high.
LimitOffByOne(j) == Cardinality({i \in 1 .. j : AttrTokens[i].type = "AttributeName"}) - 1

\* How many attributes there are up to token j of the tag.
Counted(j) == Cardinality({i \in 1 .. j : AttrTokens[i].type = "AttributeName"})

\* Only an attribute with a value is refused.
TooManyAttrs ==
  \E j \in DOMAIN AttrTokens : AttrTokens[j].type = "AttributeValue" /\ Counted(j) > MaxAttrs

TooDeep == depth + 1 > MaxDepth

StartTag ==
  /\ Reading({"StartTag"}) /\ ~TooDeep /\ ~TooManyAttrs
  /\ depth' = depth + 1 /\ Emit("start", Body)
  /\ Go(AttrsEnd) /\ UNCHANGED entity_count

StartTagOverLimit ==
  /\ Reading({"StartTag"}) /\ (TooDeep \/ TooManyAttrs)
  /\ depth' = depth + 1 /\ Throw("SecurityError") /\ UNCHANGED entity_count

\* A self-closing tag does not count for the depth.
SelfClosingTag ==
  /\ Reading({"SelfClosingTag"}) /\ ~TooManyAttrs
  /\ events' = events \o <<Event("start", Body), Event("end", TextOf(Tok))>>
  /\ Go(AttrsEnd) /\ UNCHANGED <<depth, entity_count>>

SelfClosingTagOverLimit ==
  /\ Reading({"SelfClosingTag"}) /\ TooManyAttrs
  /\ Throw("SecurityError") /\ UNCHANGED <<depth, entity_count>>

MayEnd == depth > 0

EndTag ==
  /\ Reading({"EndTag"}) /\ MayEnd
  /\ depth' = depth - 1 /\ Emit("end", TextOf(Tok))
  /\ Go(ti + 1) /\ UNCHANGED entity_count

UnexpectedEndTag ==
  /\ Reading({"EndTag"}) /\ ~MayEnd
  /\ Throw("ParseError") /\ UNCHANGED <<depth, entity_count>>

Predefined == [lt |-> "<", gt |-> ">", amp |-> "&", apos |-> "sq", quot |-> "dq"]

\* expand_entities.  "#60" and "#x110000" stand for a character's number and for one
\* beyond the last; a name that is not known stays as it is.
Expanded(t) ==
  LET entity == SubSeq(data, t.from + 1, t.to - 1) IN
  CASE Len(entity) = 1 /\ Head(entity) \in DOMAIN Predefined -> <<Predefined[Head(entity)]>>
    [] entity = <<"#60">> -> <<"<">>
    [] entity = <<"#x110000">> -> <<>>
    [] OTHER -> TextOf(t)

EntityRef ==
  /\ Reading({"EntityRef"}) /\ entity_count < MaxEntities
  /\ entity_count' = entity_count + 1 /\ Emit("text", <<"ref">> \o Expanded(Tok))
  /\ Go(ti + 1) /\ UNCHANGED depth

TooManyReferences ==
  /\ Reading({"EntityRef"}) /\ entity_count >= MaxEntities
  /\ entity_count' = entity_count + 1 /\ Throw("SecurityError") /\ UNCHANGED depth

EventKind == [Text |-> "text", Comment |-> "comment", CData |-> "cdata", PI |-> "pi",
              XmlDeclaration |-> "decl"]

\* A processing instruction without content is passed over, as is a DOCTYPE.
Shown(t) == t.type \in DOMAIN EventKind /\ (t.type = "PI" => TextOf(t) # <<>>)

Content ==
  /\ Reading(TokenTypes \ {"StartTag", "SelfClosingTag", "EndTag", "EntityRef"})
  /\ IF Shown(Tok) THEN Emit(EventKind[Tok.type], TextOf(Tok)) ELSE UNCHANGED events
  /\ Go(ti + 1) /\ UNCHANGED <<depth, entity_count>>

Return ==
  /\ pc = "emit" /\ ti > Len(tokens)
  /\ pc' = "idle"
  /\ UNCHANGED <<scanVars, tokenVars, doc, calls, ti, depth, entity_count, events, error>>

Emitting ==
  \/ StartTag \/ StartTagOverLimit \/ SelfClosingTag \/ SelfClosingTagOverLimit
  \/ EndTag \/ UnexpectedEndTag \/ EntityRef \/ TooManyReferences \/ Content \/ Return

Done == pc = "idle" /\ calls = MaxCalls /\ UNCHANGED vars

Next == Parse \/ Scanning \/ Tokenizing \/ Emitting \/ Done

Spec == Init /\ [][Next]_vars

-----------------------------------------------------------------------------
(* What the document says.                                                 *)

OfKind(kind, k) == Cardinality({i \in 1 .. k : doc[i].kind = kind})
References(cs) ==
  LET said == FlattenSeq([i \in DOMAIN cs |-> cs[i].body])
  IN  Cardinality({j \in DOMAIN said : said[j] = "ref"})

\* The attributes of a tag up to the last one that has a value.
AttrsOf(c) == Cardinality({i \in DOMAIN c.body :
                c.body[i] = "@" /\ \E j \in i + 1 .. Len(c.body) : c.body[j] = "is"})

\* What is wrong with construct k of the document.
Wrong(k) ==
  LET c == doc[k]
      open == OfKind("start", k) - OfKind("end", k)
  IN  CASE c.kind \in {"start", "empty"} /\ AttrsOf(c) > MaxAttrs -> "SecurityError"
        [] c.kind = "start" /\ open > MaxDepth -> "SecurityError"
        [] c.kind = "end" /\ open < 0 -> "ParseError"
        [] c.kind = "text" /\ References(SubSeq(doc, 1, k)) > MaxEntities -> "SecurityError"
        [] OTHER -> "none"

\* The first construct that is wrong, or the end of the document.
Stop == Min({k \in DOMAIN doc : Wrong(k) # "none"} \cup {Len(doc) + 1})

EventsOf(c) ==
  CASE c.kind = "empty" -> <<Event("start", c.body), Event("end", <<c.body[1]>>)>>
    [] c.kind = "doctype" \/ (c.kind = "pi" /\ c.body = <<>>) -> <<>>
    [] OTHER -> <<Event(c.kind, c.body)>>

ExpectedError  == IF Stop <= Len(doc) THEN Wrong(Stop) ELSE "none"

\* What is passed of text k: all before the reference that is one too many.
PartOf(k) ==
  LET c == doc[k]
      n == CHOOSE n \in 0 .. Len(c.body) - 1 :
             /\ c.body[n + 1] = "ref"
             /\ References(SubSeq(doc, 1, k - 1)) + References(<<Event("text", SubSeq(c.body, 1, n))>>)
                = MaxEntities
  IN  IF n = 0 THEN <<>> ELSE <<Event("text", SubSeq(c.body, 1, n))>>

ExpectedEvents ==
  FlattenSeq([i \in 1 .. Stop - 1 |-> EventsOf(doc[i])])
  \o IF Stop <= Len(doc) /\ doc[Stop].kind = "text" THEN PartOf(Stop) ELSE <<>>

\* Events as an application reads them that appends texts in a row to one another.
Joined(evs) ==
  FoldLeft(LAMBDA js, e : IF e.kind = "text" /\ js # <<>> /\ Last(js).kind = "text"
                          THEN [js EXCEPT ![Len(js)].body = @ \o e.body]
                          ELSE Append(js, e),
           <<>>, evs)

\* Quotes that the scanner follows: where each one that opens is closed by the next.
\* The scalar scanner also takes the other kind of quote in between.
Quoted(c) ==
  LET quote[i \in 0 .. Len(c.units)] ==
        IF i = 0 THEN "none"
        ELSE IF c.units[i] \notin Quotes THEN quote[i - 1]
        ELSE IF quote[i - 1] = "none" THEN c.units[i]
        ELSE IF quote[i - 1] = c.units[i] THEN "none" ELSE quote[i - 1]
  IN  /\ quote[Len(c.units)] = "none"
      /\ backend = "scalar" \/ \A i \in DOMAIN c.units :
           c.units[i] \in Quotes => quote[i - 1] \in {"none", c.units[i]}

WellQuoted == \A k \in DOMAIN doc : Quoted(doc[k])
WellFormed == \A k \in DOMAIN doc : doc[k].kind # "bad"

\* Where construct k starts in data.
StartOf(k) == 1 + Len(FlattenSeq([i \in 1 .. k - 1 |-> doc[i].units]))

\* The brackets of tags: the "<" and the ">" that encloses no attribute value.
TagMarks ==
  UNION {{StartOf(k), StartOf(k) + Len(doc[k].units) - 1} :
           k \in {k \in DOMAIN doc : doc[k].kind \in Tags}}

Scanned == pc \in {"tokenize", "emit"}

-----------------------------------------------------------------------------

\* The index holds the brackets of all tags, wherever the blocks of a vector scanner
\* begin, as long as each construct's quotes are closed within it (for the vectors, by
\* the next quote of either kind behind the opening one).
TagsAreIndexed == Scanned /\ WellQuoted => TagMarks \subseteq ToSet(index)

\* Then the callbacks are the document's, in order, with the attributes of the tag
\* itself, and a document is refused for the error it has, at the place where it has
\* it, whatever was parsed before.
EventsAreTheDocuments ==
  pc = "idle" /\ calls > 0 /\ WellQuoted /\ WellFormed =>
    error = ExpectedError /\ Joined(events) = Joined(ExpectedEvents)

Times(kind) == Cardinality({i \in DOMAIN events : events[i].kind = kind})

\* On every input, malformed and badly quoted ones included, the application is told
\* of no more open elements, references and attributes (but for
\* those without a value that end a tag) than the limits allow.
LimitsHold ==
  /\ Times("start") - Times("end") \in 0 .. MaxDepth
  /\ References(events) <= MaxEntities
  /\ \A i \in DOMAIN events : events[i].kind = "start" => AttrsOf(events[i]) <= MaxAttrs

\* The index holds "all un-quoted structural chars" (simd_scanner.hpp): a tag's brackets
\* that stand in no attribute value are found, quotes in texts or not.
UnquotedAreIndexed == Scanned /\ WellFormed => TagMarks \subseteq ToSet(index)

=============================================================================
