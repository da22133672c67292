----------------------------- MODULE XmlReader -----------------------------
(***************************************************************************)
(* The StAX pull parser of include/parshred/pull_parser.hpp: next(), the   *)
(* composite helpers read_element_text() and skip_element(), and the       *)
(* ParseError that can leave either of them half way through the input.    *)
(*                                                                         *)
(* The input is a sequence of lexical tokens, the pieces parse_next_event  *)
(* tells apart.  A string_view into the input is the index of the token it *)
(* points into (0 is the empty view), an attribute is <<token, ordinal>>:  *)
(* the properties only need to know WHERE a view points.                   *)
(*   start, empty, end   <a>, <a/>, </a>, with n attributes                *)
(*   text, cdata, comment, pi, decl    one user-visible event each         *)
(*   doctype             consumed without an event                         *)
(*   unterminated        a comment, CDATA section, PI or DOCTYPE that is   *)
(*                       never closed: it swallows the rest of the input   *)
(*   badstart            a start tag with n attributes and no '>'          *)
(*   badtag              a tag refused before the reader is changed: no    *)
(*                       name, or an end tag without '>'                   *)
(* A refused tag may leave unread bytes behind (residue), which the next   *)
(* call reads as character data.                                           *)
(***************************************************************************)
EXTENDS Integers, SequencesExt

CONSTANTS
  Docs,         \* the inputs: a set of token sequences
  InlineAttrs,  \* kInlineAttrs, the attribute slots kept inside the reader
  Strict        \* TRUE: the application passes a StartElement to a helper
                \* only right after next() delivered it; FALSE: whenever the
                \* documented precondition event_type() == StartElement holds

Kinds == {"start", "empty", "end", "text", "cdata", "comment", "pi", "decl",
          "doctype", "unterminated", "badstart", "badtag"}

Token == [kind : Kinds, n : Nat, residue : BOOLEAN]

\* What scanning can yield: only an end of input leaves a construct unterminated,
\* and character data extends to the next '<', so no two runs of it are adjacent.
WellLexed(d) ==
  /\ \A i \in 1 .. Len(d) - 1 :
       /\ d[i].kind # "unterminated"
       /\ d[i].kind \in {"text", "badstart", "badtag"} => d[i + 1].kind # "text"
  /\ \A i \in 1 .. Len(d) :
       /\ d[i].n # 0 => d[i].kind \in {"start", "empty", "badstart"}
       /\ d[i].residue => d[i].kind \in {"badstart", "badtag"}

ASSUME DocsAssumption   == Docs \subseteq {d \in Seq(Token) : WellLexed(d)}
ASSUME InlineAssumption == InlineAttrs \in Nat
ASSUME StrictAssumption == Strict \in BOOLEAN

VARIABLES
  doc,       \* data_, len_
  pos,       \* pos_: the next token
  residue,   \* pos_ stands inside the refused token pos - 1
  event,     \* event_
  eventAt,   \* event_line_, event_col_: the token they locate
  started,   \* started_
  done,      \* done_
  pending,   \* pending_self_close_
  scName,    \* pending_sc_name_
  name,      \* name_
  text,      \* text_
  piData,    \* pi_data_
  nattrs,    \* nattrs_
  inline,    \* attrs_inline_
  spill,     \* attrs_spill_
  depth,     \* depth_
  mode,      \* which loop is running: the application's or a helper's
  open,      \* the helpers' local counter
  acc,       \* read_element_text's result: the tokens concatenated
  ret,       \* how the last call ended
  path,      \* history: the elements whose StartElement was consumed and
             \* whose EndElement was not
  elem       \* history: the StartElement the running helper was called on

attrVars   == <<nattrs, inline, spill>>
helperVars == <<mode, open, acc, elem>>
vars == <<doc, pos, residue, event, eventAt, started, done, pending, scName,
          name, text, piData, attrVars, depth, helperVars, ret, path>>

Events == {"StartDocument", "EndDocument", "StartElement", "EndElement", "Text",
           "CData", "Comment", "ProcessingInstruction", "XmlDeclaration"}

\* The event a visible token produces.
EventOf == [start   |-> "StartElement",  empty |-> "StartElement",
            end     |-> "EndElement",    text  |-> "Text",
            cdata   |-> "CData",         pi    |-> "ProcessingInstruction",
            comment |-> "Comment",       decl  |-> "XmlDeclaration"]

Visible == DOMAIN EventOf
Bad     == {"badstart", "badtag"}
Tokens  == 1 .. Len(doc)

\* The while loop of next() over parse_next_event stops at token i: everything
\* from pos to i - 1 was consumed without producing an event.
StopsAt(i) ==
  /\ i \in pos .. Len(doc)
  /\ \A j \in pos .. i - 1 : doc[j].kind = "doctype"
  /\ doc[i].kind # "doctype"

\* It runs out of input instead.
RunsOut ==
  \/ \A j \in pos .. Len(doc) : doc[j].kind = "doctype"
  \/ \E i \in Tokens : StopsAt(i) /\ doc[i].kind = "unterminated"

Init ==
  /\ doc \in Docs
  /\ pos = 1 /\ residue = FALSE
  /\ event = "StartDocument" /\ eventAt = 0
  /\ started = FALSE /\ done = FALSE
  /\ pending = FALSE /\ scName = 0
  /\ name = 0 /\ text = 0 /\ piData = 0
  /\ nattrs = 0 /\ inline = [k \in 1 .. InlineAttrs |-> <<0, 0>>] /\ spill = <<>>
  /\ depth = 0
  /\ mode = "app" /\ open = 0 /\ acc = <<>> /\ elem = 0
  /\ ret = "none" /\ path = <<>>

-----------------------------------------------------------------------------
(* Attribute storage.                                                      *)

\* attr_at
AttrAt(k) == IF k <= InlineAttrs THEN inline[k] ELSE spill[k - InlineAttrs]

\* clear_attrs: the inline slots keep their stale contents.
ClearAttrs ==
  /\ nattrs' = 0
  /\ spill' = <<>>
  /\ UNCHANGED inline

\* Mutant: push_attr on top of the spilled attributes of an earlier tag.
LoadAttrsNoClear(i) ==
  /\ nattrs' = doc[i].n
  /\ inline' = [k \in 1 .. InlineAttrs |-> IF k <= doc[i].n THEN <<i, k>> ELSE inline[k]]
  /\ spill'  = spill \o [k \in 1 .. doc[i].n - InlineAttrs |-> <<i, k + InlineAttrs>>]

\* clear_attrs, then one push_attr for each of the n attributes of token i.
LoadAttrs(i) ==
  /\ nattrs' = doc[i].n
  /\ inline' = [k \in 1 .. InlineAttrs |-> IF k <= doc[i].n THEN <<i, k>> ELSE inline[k]]
  /\ spill'  = [k \in 1 .. doc[i].n - InlineAttrs |-> <<i, k + InlineAttrs>>]

-----------------------------------------------------------------------------
(* The outcomes of one call of next().  `ret` says what the call returned. *)

\* Mutant: the scan forgets to step over the token it has read.
StayAt(i) == i

\* Where the scan of token i leaves pos_.
After(i) == i + 1

\* Mutant: a self-closing tag counts as an open element.
DepthAlwaysUp(i) == depth + 1

\* parse_start_tag: a self-closing tag does not change depth_.
DepthAfterStart(i) == IF doc[i].kind = "empty" THEN depth ELSE depth + 1

\* parse_end_tag
DepthAfterEnd == IF depth > 0 THEN depth - 1 ELSE depth

\* Mutant: the name of the previous event stays.
ContentNameKept(i) == IF doc[i].kind \in {"pi", "decl"} THEN i ELSE name

\* name_ after a content event: cleared, or the PI target / declared version.
ContentName(i) == IF doc[i].kind \in {"pi", "decl"} THEN i ELSE 0

Leave(p) == IF p = <<>> THEN p ELSE SubSeq(p, 1, Len(p) - 1)

\* done_ is set: nothing happens any more.
AlreadyDone ==
  /\ done
  /\ ret' = "false"
  /\ UNCHANGED <<doc, pos, residue, event, eventAt, started, done, pending, scName,
                 name, text, piData, attrVars, depth, path>>

\* The first call delivers the synthetic StartDocument.
EmitStartDocument ==
  /\ ~done /\ ~started
  /\ started' = TRUE
  /\ event' = "StartDocument" /\ eventAt' = 0
  /\ name' = 0 /\ text' = 0 /\ piData' = 0
  /\ ClearAttrs
  /\ ret' = "true"
  /\ UNCHANGED <<doc, pos, residue, done, pending, scName, depth, path>>

\* The EndElement owed for a self-closing tag.  depth_ and the event's position
\* are left as the StartElement set them.
EmitPendingEnd ==
  /\ ~done /\ started /\ pending
  /\ pending' = FALSE
  /\ event' = "EndElement" /\ name' = scName /\ text' = 0
  /\ ClearAttrs
  /\ path' = Leave(path)
  /\ ret' = "true"
  /\ UNCHANGED <<doc, pos, residue, eventAt, started, done, scName, piData, depth>>

\* next() gets as far as its scanning loop.
Scanning == ~done /\ started /\ ~pending

\* What is left of a refused tag is read by parse_text.
EmitResidue ==
  /\ Scanning /\ residue
  /\ residue' = FALSE
  /\ event' = "Text" /\ eventAt' = pos - 1 /\ text' = pos - 1 /\ name' = 0
  /\ ClearAttrs
  /\ ret' = "true"
  /\ UNCHANGED <<doc, pos, started, done, pending, scName, piData, depth, path>>

\* parse_start_tag: a self-closing tag does not change depth_ and owes an end.
EmitStart(i) ==
  /\ Scanning /\ ~residue
  /\ StopsAt(i) /\ doc[i].kind \in {"start", "empty"}
  /\ pos' = After(i)
  /\ event' = "StartElement" /\ eventAt' = i /\ name' = i /\ text' = 0
  /\ LoadAttrs(i)
  /\ depth' = DepthAfterStart(i)
  /\ IF doc[i].kind = "empty" THEN pending' = TRUE /\ scName' = i
                              ELSE UNCHANGED <<pending, scName>>
  /\ path' = Append(path, i)
  /\ ret' = "true"
  /\ UNCHANGED <<doc, residue, started, done, piData>>

\* parse_end_tag: names are not compared and a stray end tag is delivered too.
EmitEnd(i) ==
  /\ Scanning /\ ~residue
  /\ StopsAt(i) /\ doc[i].kind = "end"
  /\ pos' = After(i)
  /\ event' = "EndElement" /\ eventAt' = i /\ name' = i /\ text' = 0
  /\ ClearAttrs
  /\ depth' = DepthAfterEnd
  /\ path' = Leave(path)
  /\ ret' = "true"
  /\ UNCHANGED <<doc, residue, started, done, pending, scName, piData>>

\* parse_text, parse_comment, parse_cdata and parse_pi.
EmitContent(i) ==
  /\ Scanning /\ ~residue
  /\ StopsAt(i) /\ doc[i].kind \in Visible \ {"start", "empty", "end"}
  /\ pos' = After(i)
  /\ event' = EventOf[doc[i].kind] /\ eventAt' = i /\ text' = i
  /\ name' = ContentName(i)
  /\ piData' = IF doc[i].kind \in {"pi", "decl"} THEN i ELSE piData
  /\ ClearAttrs
  /\ ret' = "true"
  /\ UNCHANGED <<doc, residue, started, done, pending, scName, depth, path>>

\* ParseError.  The event and its names stay those of the previous event, while
\* the position is already the refused tag's and, when parse_start_tag got that
\* far, so are the attributes.
Throw(i) ==
  /\ Scanning /\ ~residue
  /\ StopsAt(i) /\ doc[i].kind \in Bad
  /\ pos' = After(i) /\ residue' = doc[i].residue /\ eventAt' = i
  /\ IF doc[i].kind = "badstart" THEN LoadAttrs(i) ELSE UNCHANGED attrVars
  /\ ret' = "throw"
  /\ UNCHANGED <<doc, event, started, done, pending, scName, name, text, piData,
                 depth, path>>

\* The input is exhausted: the payload of the last event is not cleared.
Exhaust ==
  /\ Scanning /\ ~residue /\ RunsOut
  /\ pos' = Len(doc) + 1
  /\ done' = TRUE /\ event' = "EndDocument"
  /\ eventAt' = IF pos > Len(doc) THEN eventAt ELSE Len(doc)
  /\ ret' = "false"
  /\ UNCHANGED <<doc, residue, started, pending, scName, name, text, piData,
                 attrVars, depth, path>>

CallNext ==
  \/ AlreadyDone
  \/ EmitStartDocument
  \/ EmitPendingEnd
  \/ EmitResidue
  \/ \E i \in Tokens : EmitStart(i)
  \/ \E i \in Tokens : EmitEnd(i)
  \/ \E i \in Tokens : EmitContent(i)
  \/ \E i \in Tokens : Throw(i)
  \/ Exhaust

-----------------------------------------------------------------------------
(* The application and the helpers.                                        *)

\* The application calls next() (and is done with what a helper returned).
AppNext ==
  /\ mode = "app"
  /\ CallNext
  /\ acc' = <<>>
  /\ UNCHANGED <<mode, open, elem>>

\* skip_element() ("skip") and read_element_text() ("text") on a StartElement.
\* For a self-closing element they drop the owed EndElement and return at once.
CallHelper(h) ==
  /\ mode = "app"
  /\ event = "StartElement"
  /\ Strict => ret = "true"
  /\ acc' = <<>> /\ elem' = name
  /\ IF pending
       THEN /\ pending' = FALSE /\ ret' = "helper" /\ path' = Leave(path)
            /\ UNCHANGED <<mode, open>>
       ELSE /\ mode' = h /\ open' = 1
            /\ UNCHANGED <<pending, ret, path>>
  /\ UNCHANGED <<doc, pos, residue, event, eventAt, started, done, scName, name,
                 text, piData, attrVars, depth>>

\* Mutant: only end tags are counted.
HelperOpenEndsOnly == IF event' = "EndElement" THEN open - 1 ELSE open

\* The loop body of a helper, after a call of next() that returned true.
HelperOpen ==
  CASE event' = "StartElement" -> open + 1
    [] event' = "EndElement"   -> open - 1
    [] OTHER                   -> open

\* Mutant: the text of nested elements is taken too.
TakesAnyText == mode = "text" /\ event' \in {"Text", "CData"}

\* read_element_text takes character data of the element itself only.
TakesText == mode = "text" /\ event' \in {"Text", "CData"} /\ open = 1

\* One iteration of a helper's loop.  (The reader has started, and is not done,
\* when a helper runs.)
HelperStep ==
  /\ mode \in {"skip", "text"}
  /\ UNCHANGED elem
  /\ \/ /\ Exhaust                       \* next() returned false
        /\ mode' = "app" /\ open' = 0
        /\ UNCHANGED acc
     \/ /\ \E i \in Tokens : Throw(i)    \* the exception leaves the helper
        /\ mode' = "app" /\ open' = 0 /\ acc' = <<>>
     \/ /\ \/ EmitPendingEnd
           \/ EmitResidue
           \/ \E i \in Tokens : EmitStart(i) \/ EmitEnd(i) \/ EmitContent(i)
        /\ open' = HelperOpen
        /\ mode' = IF HelperOpen = 0 THEN "app" ELSE mode
        /\ acc' = IF TakesText THEN Append(acc, text') ELSE acc

Next ==
  \/ AppNext
  \/ \E h \in {"skip", "text"} : CallHelper(h)
  \/ HelperStep

Spec == Init /\ [][Next]_vars

\* A helper runs without yielding, and the application's loop keeps calling
\* next() or a helper until next() returns false.
Fairness == WF_vars(HelperStep) /\ WF_vars(AppNext)

FairSpec == Spec /\ Fairness

-----------------------------------------------------------------------------
(* Correctness.                                                            *)

Index == 0 .. Len(doc)

\* Types; views and attributes point into the input, no counter falls below zero.
TypeOK ==
  /\ doc \in Docs
  /\ pos \in 1 .. Len(doc) + 1
  /\ residue \in BOOLEAN /\ started \in BOOLEAN /\ done \in BOOLEAN
  /\ pending \in BOOLEAN
  /\ event \in Events
  /\ eventAt \in Index /\ scName \in Index
  /\ name \in Index /\ text \in Index /\ piData \in Index
  /\ nattrs \in Nat
  /\ inline \in [1 .. InlineAttrs -> Index \X Nat]
  /\ spill \in Seq(Index \X Nat)
  /\ depth \in Nat
  /\ mode \in {"app", "skip", "text"} /\ open \in Nat /\ acc \in Seq(Index)
  /\ ret \in {"none", "true", "false", "throw", "helper"}
  /\ path \in Seq(Index) /\ elem \in Index

\* depth() counts the open elements, except the self-closing element whose
\* synthetic EndElement is still owed: the three places that pair a start with
\* an end (parse_end_tag, the pending end of next(), the shortcut of the
\* helpers) never leave depth_ one off, and stray end tags never wrap it.
DepthIsOpenElements ==
  depth = Len(path) - (IF pending THEN 1 ELSE 0)

\* What name(), text(), value(), line() and column() report all comes from the
\* event the last successful call delivered: nothing is left over from an
\* earlier event.  (A refused tag moves the position and the attributes only.)
PayloadIsCurrent ==
  ret \notin {"throw", "none"} /\ event \notin {"StartDocument", "EndDocument"} =>
    /\ name \in {0, eventAt} /\ text \in {0, eventAt}
    /\ event \in {"StartElement", "EndElement"} => name = eventAt /\ text = 0
    /\ event = "ProcessingInstruction" => piData = eventAt /\ name = eventAt
    /\ event \in {"Text", "CData", "Comment"} => text = eventAt /\ name = 0

\* The attributes in reach all belong to one tag and come in its order, also
\* those beyond the inline slots and also after a ParseError; on a StartElement
\* just delivered that tag is the event's and none is missing.
AttrsFromOneTag ==
  /\ \E i \in Index : \A k \in 1 .. nattrs : AttrAt(k) = <<i, k>>
  /\ event = "StartElement" /\ ret \in {"true", "helper"} =>
       /\ nattrs = doc[eventAt].n
       /\ \A k \in 1 .. nattrs : AttrAt(k) = <<name, k>>

\* A helper stays inside the element it was called on: the element is still
\* open, `open` levels up, as long as the helper runs.  (When `open` reaches 0
\* the helper returns, so it never consumes an end tag of an enclosing element.)
HelperStaysInside ==
  mode # "app" =>
    /\ open \in 1 .. Len(path)
    /\ path[Len(path) - open + 1] = elem

\* An application that keeps calling gets to the end of every input, also past
\* refused tags and through the helpers' loops.
Drained == <>done

-----------------------------------------------------------------------------
(* The reader as a cursor in the events its input stands for.              *)

\* The events of token i.  Token 0 is the beginning of the input.
EventsOf(d, i) ==
  IF i = 0 THEN <<<<"D", 0>>>>
  ELSE CASE d[i].kind = "start" -> <<<<"S", i>>>>
         [] d[i].kind = "empty" -> <<<<"S", i>>, <<"E", i>>>>
         [] d[i].kind = "end"   -> <<<<"E", i>>>>
         [] d[i].kind \in {"text", "cdata"} -> <<<<"T", i>>>>
         [] d[i].kind \in {"comment", "pi", "decl"} -> <<<<"O", i>>>>
         [] d[i].kind \in Bad -> IF d[i].residue THEN <<<<"F", i>>, <<"T", i>>>> ELSE <<<<"F", i>>>>
         [] OTHER -> <<>>     \* doctype, unterminated

\* The events of the first n tokens, after StartDocument.
Stream(d, n) == FlattenSeq([i \in 1 .. n + 1 |-> EventsOf(d, i - 1)])

AllEvents   == Stream(doc, Len(doc))
EventsTo(n) == Len(Stream(doc, n))

\* How many events the reader has consumed.
Consumed == EventsTo(pos - 1) - (IF pending THEN 1 ELSE 0) - (IF residue THEN 1 ELSE 0)

\* A helper that runs has not moved the cursor from the StartElement it was called on.
CursorAt == CASE mode # "app" -> EventsTo(elem)
              [] mode = "app" /\ ~started -> 0
              [] mode = "app" /\ started /\ done  -> Consumed + 1
              [] mode = "app" /\ started /\ ~done -> Consumed

Cursor == INSTANCE XmlEventCursor WITH
            evs <- AllEvents,
            at  <- CursorAt,
            got <- IF mode = "app" THEN acc ELSE <<>>   \* nothing returned yet

\* Every call of next(), skip_element() and read_element_text(), however many
\* iterations it takes, is one step of the cursor: no event is lost, repeated or
\* reordered, a helper lands exactly on the matching EndElement (or on what
\* stops it), and read_element_text() returns the direct character data.
ImplementsCursor == Cursor!CSpec

=============================================================================
