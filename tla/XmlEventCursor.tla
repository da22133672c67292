--------------------------- MODULE XmlEventCursor ---------------------------
(***************************************************************************)
(* What the pull parser promises its application: a document is a fixed    *)
(* sequence of events and the reader is a cursor in it.  next() moves the  *)
(* cursor by one event, skip_element() and read_element_text() move it     *)
(* from a StartElement to the EndElement that balances it, and a refused   *)
(* tag (a "F" event) stops whichever of them meets it.                     *)
(*                                                                         *)
(* An event is a pair <<kind, token>>, the kind being "D" StartDocument,   *)
(* "S" StartElement, "E" EndElement, "T" Text or CData, "O" any other      *)
(* content, "F" a ParseError.                                              *)
(***************************************************************************)
EXTENDS Integers, FiniteSets, SequencesExt

VARIABLES
  evs,    \* the input's events
  at,     \* the last event delivered; Len(evs) + 1 once next() returned false
  got     \* what read_element_text() returned, if it was the last call

cursorVars == <<evs, at, got>>

Count(kind, i, j) == Cardinality({k \in i .. j : evs[k][1] = kind})

\* The element opened at i is closed again within i .. j.
Balanced(i, j) == Count("S", i, j) = Count("E", i, j)

\* Where a helper called at event i ends.
Landing(i, j) ==
  LET stops(k) == \/ k = Len(evs) + 1
                  \/ evs[k][1] = "F"
                  \/ Balanced(i, k)
  IN  /\ j \in i + 1 .. Len(evs) + 1
      /\ stops(j)
      /\ \A k \in i + 1 .. j - 1 : ~stops(k)

\* The character data directly inside the element opened at i, up to event j.
DirectText(i, j) ==
  LET isDirect(k) == evs[k][1] = "T" /\ Count("S", i, k) = Count("E", i, k) + 1
  IN  FlattenSeq([m \in 1 .. j - i - 1 |-> IF isDirect(i + m) THEN <<evs[i + m][2]>> ELSE <<>>])

EventKinds == {"D", "S", "E", "T", "O", "F"}

CInit == evs \in Seq(EventKinds \X Nat) /\ at = 0 /\ got = <<>>

Advance ==
  /\ at' = IF at <= Len(evs) THEN at + 1 ELSE at
  /\ got' = <<>>
  /\ UNCHANGED evs

Skip ==
  /\ at \in 1 .. Len(evs) /\ evs[at][1] = "S"
  /\ Landing(at, at')
  /\ got' = <<>>
  /\ UNCHANGED evs

ReadText ==
  /\ at \in 1 .. Len(evs) /\ evs[at][1] = "S"
  /\ Landing(at, at')
  /\ got' = IF at' <= Len(evs) /\ evs[at'][1] = "F" THEN <<>> ELSE DirectText(at, at')
  /\ UNCHANGED evs

CNext == Advance \/ Skip \/ ReadText

CSpec == CInit /\ [][CNext]_cursorVars

=============================================================================
