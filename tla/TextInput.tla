----------------------------- MODULE TextInput -----------------------------
(***************************************************************************)
(* The way of a text into a parser: a reader loads bytes, detect_encoding  *)
(* and transcode_to_utf8 make UTF-8 of them, which is validated and, if    *)
(* the client wants to, normalised; a LineTracker goes through it, and     *)
(* errors are reported where it stands (ErrorCollector::add_error with     *)
(* extract_context).                                                       *)
(*                                                                         *)
(* Bounds: a text is loaded while no other reader exists and the files are *)
(* empty, and at its MaxErrors-th error the parse ends.                    *)
(***************************************************************************)
EXTENDS FileInput, LineTracker, TextEncoding

CONSTANTS
  Texts,         \* what readers load for a parse: sequences of bytes
  CallLengths,   \* how many characters a bulk call gets
  ContextSize,   \* extract_context's default: 40
  MaxErrors

ASSUME TextsAssumption ==
  /\ Texts \subseteq Seq(0 .. 255) \ {<<>>} /\ 0 .. 255 \subseteq Chars
  /\ CallLengths \subseteq Nat \ {0} /\ ContextSize \in Nat /\ MaxErrors \in Nat

VARIABLES
  text,     \* the text on its way
  errors    \* errors_

vars == <<disk, changes, alive, readers, mem, call, expect, place, feed, fed, split, text, errors>>

NoText == [at |-> "none", source |-> <<>>, enc |-> "Unknown", bytes |-> <<>>,
           invalid |-> -1, original |-> <<>>]

Init == FilesInit /\ TrackInit /\ text = NoText /\ errors = <<>>

At(phase) == text.at = phase /\ UNCHANGED fileVars

Becomes(new) == text' = new /\ UNCHANGED <<trackVars, errors>>

LoadFiles ==
  /\ text.at = "none" /\ FilesNext
  /\ UNCHANGED <<trackVars, text, errors>>

LoadText(r) ==
  /\ text.at = "none" /\ alive = {r} /\ ~readers[r].is_open
  /\ changes = 0 /\ \A f \in Files : disk[f] = <<>>
  /\ \E bytes \in Texts : LoadBuffer(r, bytes)
  /\ UNCHANGED <<trackVars, text, errors>>

\* transcode_to_utf8(data, len, detect_encoding(data, len))
Transcode(r) ==
  /\ At("none") /\ call = NoOpen /\ alive = {r}
  /\ readers[r].is_open /\ ~readers[r].is_mmap /\ expect[r].known
  /\ LET source == Span(r)
         enc    == DetectEncoding(source)
         bytes  == TranscodeToUtf8(source, enc)
     IN  Becomes(IF Transcodable(enc)
                 THEN [NoText EXCEPT !.at = "utf8", !.source = source, !.enc = enc,
                                     !.bytes = bytes, !.original = bytes]
                 ELSE [NoText EXCEPT !.at = "refused", !.source = source, !.enc = enc])

Validate ==
  /\ At("utf8")
  /\ Becomes([text EXCEPT !.at = "validated", !.invalid = ValidateUtf8(text.bytes)])

Normalise ==
  /\ At("validated") /\ fed = <<>> /\ Between /\ errors = <<>>
  /\ Becomes([text EXCEPT !.at = "normalised",
                          !.bytes = NormalizeLineEndings(text.bytes, LF, CR)])

Ahead == SubSeq(text.bytes, Len(fed) + 1, Len(text.bytes))
Parsing == text.at \in {"validated", "normalised"} /\ Len(errors) < MaxErrors
Tracking == Parsing /\ UNCHANGED <<fileVars, text, errors>>

TrackOne  == Tracking /\ Ahead # <<>> /\ AdvanceOne(Ahead[1])
TrackMany == Tracking /\ \E n \in CallLengths : n <= Len(Ahead) /\ Begin(SubSeq(Ahead, 1, n))
TrackLoop == Tracking /\ (TakeBlock \/ TakeOne)

-----------------------------------------------------------------------------
(* Errors                                                                  *)

\* Mutant: half of the bytes after the site, even if there are fewer before it.
HalfEach(len, offset, size) ==
  LET half   == size \div 2
      before == IF offset >= half THEN half ELSE offset
      after  == IF offset + half <= len THEN half ELSE len - offset
  IN  [from |-> offset - before, to |-> offset + after]

\* extract_context: up to `size` bytes, half of them before the site where there
\* are as many; what is missing before it is taken after it.
Window(len, offset, size) ==
  LET half   == size \div 2
      before == IF offset >= half THEN half ELSE offset
      after  == IF offset + size - before <= len THEN size - before ELSE len - offset
  IN  [from |-> offset - before, to |-> offset + after]

\* format_error: the caret under the snippet, counted from 0.
Caret(snippet) == IF Len(snippet) > 1 THEN Len(snippet) \div 2 ELSE 0

\* add_error
Report ==
  /\ Parsing /\ Between
  /\ LET w == Window(Len(text.bytes), place.offset, ContextSize) IN
     errors' = Append(errors, [line |-> place.line, col |-> place.col, offset |-> place.offset,
                               snippet |-> SubSeq(text.bytes, w.from + 1, w.to)])
  /\ UNCHANGED <<fileVars, trackVars, text>>

\* The parse is over: a new tracker and collector for the next one.
Finish ==
  /\ At("refused") \/ At("normalised") \/ At("validated")
  /\ Reset /\ text' = NoText /\ errors' = <<>>

Next ==
  \/ LoadFiles
  \/ \E r \in Readers : LoadText(r) \/ Transcode(r)
  \/ Validate \/ Normalise
  \/ TrackOne \/ TrackMany \/ TrackLoop
  \/ Report \/ Finish

Spec == Init /\ [][Next]_vars

-----------------------------------------------------------------------------

\* The bytes of no line end.
Other(s) == FlattenSeq([k \in DOMAIN s |-> IF s[k] \in {LF, CR} THEN <<>> ELSE <<s[k]>>])

SourceUnits ==
  LET body == AfterBom(text.source) IN
  [k \in 1 .. Len(body) \div 2 |-> Unit(body, k, text.enc = "UTF16_BE")]

\* What a text from Latin-1 or UTF-16 becomes is well-formed UTF-8 whatever bytes
\* it has, cut within a character or a surrogate pair included, and the same
\* characters when it is well-formed itself; a UTF-16 mark decides the encoding
\* whatever the declaration names (transcode_to_utf8, detect_encoding).  Normalised,
\* it has no CR, as many lines and every other byte in its order
\* (normalize_line_endings).
TextIsTheSources ==
  text.at # "none" =>
    /\ text.enc = "ISO_8859_1" => Points(text.original) = text.source
    /\ text.enc \in {"UTF16_LE", "UTF16_BE"} =>
         /\ FirstIllFormed(text.original) = -1
         /\ Len(AfterBom(text.source)) % 2 = 0 /\ PairsOnly(SourceUnits) =>
              UnitsOf(Points(text.original)) = SourceUnits
    /\ text.enc \in {"UTF8", "ASCII"} => text.original \in {text.source, AfterBom(text.source)}
    /\ \A mark \in {"UTF16_LE", "UTF16_BE"} : Mark(text.source).enc = mark => text.enc = mark
    /\ text.at = "normalised" =>
         /\ CR \notin ToSet(text.bytes)
         /\ PlaceIn(text.bytes).line = PlaceIn(text.original).line
         /\ Other(text.bytes) = Other(text.original)

\* validate_utf8 accepts exactly Unicode's well-formed sequences, and otherwise
\* names the byte where the first other one begins.
ValidationIsExact ==
  text.at \in {"validated", "normalised"} => text.invalid = FirstIllFormed(text.original)

\* An error shows ContextSize bytes from half as many before its site on, as far
\* as there are, and the caret stands under the site unless the text begins or ends
\* too near to it (extract_context and format_error's heuristic).
ErrorsShowTheirSite ==
  \A k \in DOMAIN errors :
    LET e     == errors[k]
        start == Max({0, e.offset - ContextSize \div 2})
        end   == Min({Len(text.bytes), start + ContextSize})
    IN  /\ e.snippet = SubSeq(text.bytes, start + 1, end)
        /\ start > 0 /\ start + ContextSize = end => start + Caret(e.snippet) = e.offset

=============================================================================
