---------------------------- MODULE LineTracker ----------------------------
(***************************************************************************)
(* LineTracker (include/parshred/error.hpp): the line, column and offset   *)
(* of the next character, advanced by one character or by a call that      *)
(* takes many, in blocks of 16 (Block) as long as it meets no CR.          *)
(*                                                                         *)
(* One step is one iteration of a loop.  The counters are unbounded here;  *)
(* line and column have 32 bits in the code.                               *)
(***************************************************************************)
EXTENDS Integers, Sequences, FiniteSets

CONSTANTS
  Block,    \* characters in a vector: 16
  Chars,    \* the characters of texts
  LF, CR,   \* two of them
  Calls     \* what is given to one bulk call

ASSUME BlockAssumption == Block \in Nat \ {0} /\ LF # CR
ASSUME CallsAssumption == {LF, CR} \subseteq Chars /\ Calls \subseteq Seq(Chars)

VARIABLES
  place,    \* line_, col_, offset_, last_was_cr_
  feed,     \* the bulk call: the characters left, and whether blocks are still tried
  fed,      \* all characters since the start or the last reset()
  split     \* a block without a CR began a call between a CR and its LF

trackVars == <<place, feed, fed, split>>

AtStart == [line |-> 1, col |-> 1, offset |-> 0, last_was_cr |-> FALSE]
NotFed  == [left |-> <<>>, blocks |-> FALSE]

TrackInit == place = AtStart /\ feed = NotFed /\ fed = <<>> /\ split = FALSE

\* A CR ends a line, and so does an LF unless it is the second of a pair.
EndsLine(p, c) == c = CR \/ (c = LF /\ ~p.last_was_cr)

\* advance(c)
After(p, c) ==
  [line |-> IF EndsLine(p, c) THEN p.line + 1 ELSE p.line,
   col |-> IF c \in {LF, CR} THEN 1 ELSE p.col + 1,
   offset |-> p.offset + 1,
   last_was_cr |-> c = CR]

NewLines(s) == {i \in DOMAIN s : s[i] = LF}

\* The last of a nonempty set of numbers.
LastOf(S) == CHOOSE i \in S : \A j \in S : j <= i

\* Mutant: the bytes of the block after its first LF.
FromFirst(s) == Len(s) - (CHOOSE i \in NewLines(s) : \A j \in NewLines(s) : i <= j)

Trailing(s) == Len(s) - LastOf(NewLines(s))

\* What one block without a CR does.
AfterBlock(p, s) ==
  [line |-> p.line + Cardinality(NewLines(s)),
   col |-> IF NewLines(s) # {} THEN 1 + Trailing(s) ELSE p.col + Len(s),
   offset |-> p.offset + Len(s),
   last_was_cr |-> FALSE]

-----------------------------------------------------------------------------

Between == feed.left = <<>>

AdvanceOne(c) ==
  /\ Between
  /\ place' = After(place, c) /\ fed' = Append(fed, c)
  /\ UNCHANGED <<feed, split>>

Pending == fed # <<>> /\ fed[Len(fed)] = CR    \* an LF now would be a pair's

\* advance(data, len); an empty call returns at once.
Begin(data) ==
  /\ Between /\ data # <<>>
  /\ feed' = [left |-> data, blocks |-> TRUE]
  /\ split' = (split \/ (Pending /\ data[1] = LF /\ Len(data) >= Block
                         /\ \A i \in 1 .. Block : data[i] # CR))
  /\ UNCHANGED <<place, fed>>

FirstBlock == SubSeq(feed.left, 1, Block)
HasBlock   == feed.blocks /\ Len(feed.left) >= Block
NoReturn   == \A i \in DOMAIN FirstBlock : FirstBlock[i] # CR

Rest(n) == SubSeq(feed.left, n + 1, Len(feed.left))

TakeBlock ==
  /\ ~Between /\ HasBlock /\ NoReturn
  /\ place' = AfterBlock(place, FirstBlock)
  /\ fed' = fed \o FirstBlock
  /\ feed' = [feed EXCEPT !.left = Rest(Block)]
  /\ UNCHANGED split

\* The scalar tail: from the first block with a CR on, and what fills no block.
TakeOne ==
  /\ ~Between /\ ~(HasBlock /\ NoReturn)
  /\ place' = After(place, feed.left[1])
  /\ fed' = Append(fed, feed.left[1])
  /\ feed' = [left |-> Rest(1), blocks |-> FALSE]
  /\ UNCHANGED split

Reset ==
  /\ Between /\ place' = AtStart /\ fed' = <<>> /\ split' = FALSE
  /\ UNCHANGED feed

TrackNext ==
  \/ \E c \in Chars : AdvanceOne(c)
  \/ \E data \in Calls : Begin(data)
  \/ TakeBlock \/ TakeOne \/ Reset

TrackSpec == TrackInit /\ [][TrackNext]_trackVars

-----------------------------------------------------------------------------
(* The reference                                                           *)

\* Where a line terminator begins: at a CR, and at an LF that follows none.
Terminators(s) == {i \in DOMAIN s : s[i] = CR \/ (s[i] = LF /\ (i > 1 => s[i - 1] # CR))}

\* The bytes that belong to terminators.
Breaks(s) == {i \in DOMAIN s : s[i] \in {LF, CR}}

PlaceIn(s) ==
  [line |-> 1 + Cardinality(Terminators(s)),
   col |-> 1 + Len(s) - (IF Breaks(s) = {} THEN 0 ELSE LastOf(Breaks(s))),
   offset |-> Len(s),
   last_was_cr |-> s # <<>> /\ s[Len(s)] = CR]

\* However the characters are divided into calls and blocks, the tracker stands
\* where counting the line terminators of all of them puts it, unless a call was
\* split in the middle of a CR LF (LineTracker's bulk advance).
PlaceIsTheReference == ~split => place = PlaceIn(fed)

=============================================================================
