------------------------------ MODULE FastSax ------------------------------
(***************************************************************************)
(* FastSaxParser::parse_chunk (include/parshred/fast_sax_impl.hpp) on one  *)
(* buffer: one step for a run of text or for a construct that starts with  *)
(* "<", up to its callback or to the exception it throws.                  *)
(*                                                                         *)
(* Input is a sequence of units, the pieces of XML the parser looks at: a  *)
(* unit is a character ("<", "&") or what the parser takes in one go (a    *)
(* name, an attribute with its value, "!--").  A buffer ends between any   *)
(* two of them.  Whitespace is left out, and so are the statistics.        *)
(***************************************************************************)
EXTENDS Integers, SequencesExt, FiniteSetsExt

CONSTANTS
  Names, Attrs, Chars,   \* element names, attributes, and other characters
  MaxDepth, MaxEntities, MaxAttrs,   \* the limits of Normal mode
  BufSize                \* the room of attrs_buf_: 64

Marks == {"<", "/", ">", "!--", "-->", "![CDATA[", "]]>", "?", "?>",
          "!DOCTYPE", "!ELEMENT", "[", "]", "&", ";"}
Unit  == Marks \cup Names \cup Attrs \cup Chars

ASSUME SaxAssumption ==
  /\ MaxDepth \in Nat /\ MaxEntities \in Nat /\ MaxAttrs \in Nat
  /\ BufSize \in Nat \ {0}
  /\ Marks \cap (Names \cup Attrs \cup Chars) = {} /\ Names \cap Attrs = {}
  /\ "ref" \notin Names \cup Attrs \cup Chars

VARIABLES
  mode,            \* the template parameter: Normal or Turbo
  buf, at,         \* data of this call, and pos + 1
  depth, entity_count, attrs_buf, attrs_overflow,   \* the parser's state
  events,          \* the callbacks made so far
  error            \* the exception thrown: none, ParseError or SecurityError

saxVars == <<mode, buf, at, depth, entity_count, attrs_buf, attrs_overflow, events, error>>

NoAttr == "none"

\* A callback with what it passes; an expanded reference is a unit "ref".
Event == [kind : {"start", "end", "text", "comment", "cdata", "pi"}, body : Seq(Unit \cup {"ref", NoAttr})]

-----------------------------------------------------------------------------

Parsing  == error = "none" /\ at <= Len(buf)
Ahead(k) == IF at + k <= Len(buf) THEN buf[at + k] ELSE "end of buffer"
AtLt     == Parsing /\ Ahead(0) = "<"

\* The first place from i on where P holds, or the end of the buffer.
FirstFrom(i, P(_)) == Min({j \in i .. Len(buf) : P(buf[j])} \cup {Len(buf) + 1})

Emit(kind, body) == events' = Append(events, [kind |-> kind, body |-> body])

Throw(e) == /\ error' = e
            /\ UNCHANGED <<mode, buf, events>>

-----------------------------------------------------------------------------
(* Text.                                                                   *)

TextEnd == FirstFrom(at, LAMBDA u : u = "<")
Run     == SubSeq(buf, at, TextEnd - 1)

\* Where a reference starts that ends in the same run.
References(run) == {i \in 1 .. Len(run) - 1 : run[i] = "&" /\ run[i + 1] = ";"}

Expanded(run) ==
  FlattenSeq([i \in DOMAIN run |-> IF i \in References(run) THEN <<"ref">>
                                   ELSE IF i - 1 \in References(run) THEN <<>> ELSE <<run[i]>>])

InText == Parsing /\ Ahead(0) # "<"

Text ==
  /\ InText /\ (mode = "Turbo" \/ References(Run) = {})
  /\ Emit("text", Run) /\ at' = TextEnd
  /\ UNCHANGED <<mode, buf, depth, entity_count, attrs_buf, attrs_overflow, error>>

EntityCount == entity_count + Cardinality(References(Run))

TextWithReferences ==
  /\ InText /\ mode = "Normal" /\ References(Run) # {}
  /\ EntityCount <= MaxEntities
  /\ Emit("text", Expanded(Run)) /\ entity_count' = EntityCount /\ at' = TextEnd
  /\ UNCHANGED <<mode, buf, depth, attrs_buf, attrs_overflow, error>>

TooManyReferences ==
  /\ InText /\ mode = "Normal" /\ EntityCount > MaxEntities
  /\ References(Run) # {}
  /\ Throw("SecurityError") /\ entity_count' = MaxEntities + 1
  /\ UNCHANGED <<at, depth, attrs_buf, attrs_overflow>>

-----------------------------------------------------------------------------
(* End tags.                                                               *)

EndTagEnds == Ahead(2) \in Names /\ Ahead(3) = ">"

EndTag ==
  /\ AtLt /\ Ahead(1) = "/" /\ EndTagEnds
  /\ mode = "Normal" => depth > 0
  /\ depth' = IF mode = "Normal" THEN depth - 1 ELSE depth
  /\ Emit("end", <<Ahead(2)>>) /\ at' = at + 4
  /\ UNCHANGED <<mode, buf, entity_count, attrs_buf, attrs_overflow, error>>

BadEndTag ==
  /\ AtLt /\ Ahead(1) = "/"
  /\ \/ ~EndTagEnds
     \/ mode = "Normal" /\ depth = 0
  /\ Throw("ParseError")
  /\ UNCHANGED <<at, depth, entity_count, attrs_buf, attrs_overflow>>

-----------------------------------------------------------------------------
(* Comments, CDATA sections and processing instructions run to the unit    *)
(* that closes them; a document type declaration to a ">" outside [ ].     *)

Closing == [u \in {"!--", "![CDATA[", "?"} |->
              CASE u = "!--" -> "-->" [] u = "![CDATA[" -> "]]>" [] u = "?" -> "?>"]
KindOf  == [u \in DOMAIN Closing |->
              CASE u = "!--" -> "comment" [] u = "![CDATA[" -> "cdata" [] u = "?" -> "pi"]

Close == FirstFrom(at + 2, LAMBDA u : u = Closing[Ahead(1)])

Section ==
  /\ AtLt /\ Ahead(1) \in DOMAIN Closing
  /\ Close <= Len(buf)
  /\ Emit(KindOf[Ahead(1)], SubSeq(buf, at + 2, Close - 1))
  /\ at' = Close + 1
  /\ UNCHANGED <<mode, buf, depth, entity_count, attrs_buf, attrs_overflow, error>>

\* Mutant: the position is left where it was.
NotDropped == at

\* The position after what is not closed in this buffer.
Dropped == Len(buf) + 1

\* Not closed in this buffer: the rest of the buffer is dropped in silence.
UnclosedSection ==
  /\ AtLt /\ Ahead(1) \in DOMAIN Closing
  /\ Close > Len(buf)
  /\ at' = Dropped
  /\ UNCHANGED <<mode, buf, depth, entity_count, attrs_buf, attrs_overflow, events, error>>

Brackets(i) ==
  FoldLeft(LAMBDA n, u : IF u = "[" THEN n + 1 ELSE IF u = "]" /\ n > 0 THEN n - 1 ELSE n,
           0, SubSeq(buf, at + 2, i))

Doctype ==
  /\ AtLt /\ Ahead(1) = "!DOCTYPE"
  /\ at' = Min({i \in at + 2 .. Len(buf) : buf[i] = ">" /\ Brackets(i) = 0} \cup {Len(buf)}) + 1
  /\ UNCHANGED <<mode, buf, depth, entity_count, attrs_buf, attrs_overflow, events, error>>

-----------------------------------------------------------------------------
(* Start tags.                                                             *)

StartsTag == AtLt /\ Ahead(1) \in Names
AttrsEnd  == FirstFrom(at + 2, LAMBDA u : u \notin Attrs)
TagAttrs  == SubSeq(buf, at + 2, AttrsEnd - 1)
SelfClosing == AttrsEnd <= Len(buf) /\ buf[AttrsEnd] = "/"
TagEnd    == IF SelfClosing THEN AttrsEnd + 1 ELSE AttrsEnd
TagEnds   == TagEnd <= Len(buf) /\ buf[TagEnd] = ">"

InBuf(as) == [i \in 1 .. BufSize |-> IF i <= Len(as) THEN as[i] ELSE attrs_buf[i]]

\* The first attribute that has no room makes attrs_overflow_ a copy of attrs_buf_.
Spilled(as) ==
  IF Len(as) <= BufSize THEN attrs_overflow
  ELSE InBuf(as) \o SubSeq(as, BufSize + 1, Len(as))

Store(as) == attrs_buf' = InBuf(as) /\ attrs_overflow' = Spilled(as)

\* What the callback's pointer and count denote.
Passed(as) == IF Len(as) <= BufSize THEN SubSeq(InBuf(as), 1, Len(as))
              ELSE SubSeq(Spilled(as), 1, Len(as))

TooManyAttrs == mode = "Normal" /\ Len(TagAttrs) > MaxAttrs
TooDeep      == mode = "Normal" /\ ~SelfClosing /\ depth >= MaxDepth

StartTag ==
  /\ StartsTag /\ ~TooManyAttrs /\ TagEnds /\ ~TooDeep /\ ~SelfClosing
  /\ Store(TagAttrs)
  /\ depth' = IF mode = "Normal" THEN depth + 1 ELSE depth
  /\ Emit("start", <<Ahead(1)>> \o Passed(TagAttrs)) /\ at' = TagEnd + 1
  /\ UNCHANGED <<mode, buf, entity_count, error>>

EmptyTag ==
  /\ StartsTag /\ ~TooManyAttrs /\ TagEnds /\ SelfClosing
  /\ Store(TagAttrs)
  /\ events' = events \o <<[kind |-> "start", body |-> <<Ahead(1)>> \o Passed(TagAttrs)],
                           [kind |-> "end", body |-> <<Ahead(1)>>]>>
  /\ at' = TagEnd + 1
  /\ UNCHANGED <<mode, buf, depth, entity_count, error>>

StartTagOverLimit ==
  /\ StartsTag
  /\ \/ /\ TooManyAttrs /\ Store(SubSeq(TagAttrs, 1, MaxAttrs))
        /\ UNCHANGED depth
     \/ /\ ~TooManyAttrs /\ TagEnds /\ TooDeep /\ Store(TagAttrs)
        /\ depth' = depth + 1
  /\ Throw("SecurityError")
  /\ UNCHANGED <<at, entity_count>>

BadStartTag ==
  /\ StartsTag /\ ~TooManyAttrs /\ ~TagEnds
  /\ Store(TagAttrs) /\ Throw("ParseError")
  /\ UNCHANGED <<at, depth, entity_count>>

\* "<" at the end of the buffer, or before what is no name.
NoTag ==
  /\ AtLt /\ Ahead(1) \notin Names \cup DOMAIN Closing \cup {"/", "!DOCTYPE"}
  /\ Throw("ParseError")
  /\ UNCHANGED <<at, depth, entity_count, attrs_buf, attrs_overflow>>

SaxStep ==
  \/ Text \/ TextWithReferences \/ TooManyReferences \/ EndTag \/ BadEndTag
  \/ Section \/ UnclosedSection \/ Doctype
  \/ StartTag \/ EmptyTag \/ StartTagOverLimit \/ BadStartTag \/ NoTag

=============================================================================
