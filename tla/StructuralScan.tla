--------------------------- MODULE StructuralScan ---------------------------
(***************************************************************************)
(* simd_scan (src/simd_scanner.cpp, src/simd/): the positions of the       *)
(* structural characters of an input, without those in quotes.  The vector *)
(* scanners take a block at a time and the rest character by character;    *)
(* the scalar one takes all that way.                                      *)
(*                                                                         *)
(* An input is a sequence of units: characters, and names and the longer   *)
(* marks of XML as one unit each ("!--", "-->").                           *)
(***************************************************************************)
EXTENDS Integers, SequencesExt, FiniteSetsExt

CONSTANTS
  Names, Chars,   \* names, and characters without a meaning
  Cpus,           \* the features that the processors have
  BlockSize       \* how much the vectors of a scanner hold: 16, 32 and 64

Features == {"sse42", "avx2", "avx512f", "avx512bw"}
Backends == {"scalar", "sse42", "avx2", "avx512"}

Quotes == {"dq", "sq"}    \* the double and the single quote
Marks  == {"<", ">", "/", "=", "&", ";", "#60", "#x110000", "!--", "-->", "![CDATA[", "]]>", "?", "?>", "xml",
           "!DOCTYPE", "[", "]"}
Unit   == Marks \cup Quotes \cup Names \cup Chars

ASSUME ScanAssumption ==
  /\ Cpus \subseteq SUBSET Features /\ BlockSize \in [Backends \ {"scalar"} -> Nat \ {0}]
  /\ (Marks \cup Quotes) \cap (Names \cup Chars) = {}

VARIABLES
  data,                 \* the input
  backend,              \* the scanner chosen when the library was loaded
  scanned,              \* how much was scanned
  dq_state, sq_state,   \* prev_dq_state and prev_sq_state: inside of quotes?
  index                 \* the positions found

scanVars == <<data, backend, scanned, dq_state, sq_state, index>>

\* The marks that end with ">" have it as their structural character.
IsGt(u)         == u \in {">", "-->", "]]>", "?>"}
IsStructural(u) == IsGt(u) \/ u \in {"<", "/", "=", "&"}

\* select_best_scanner
BestScanner(cpu) ==
  IF {"avx512f", "avx512bw"} \subseteq cpu THEN "avx512"
  ELSE IF "avx2" \in cpu THEN "avx2"
  ELSE IF "sse42" \in cpu THEN "sse42" ELSE "scalar"

ScanInit(input) == data' = input /\ scanned' = 0 /\ dq_state' = FALSE /\ sq_state' = FALSE /\ index' = <<>>

Block == BlockSize[backend]

\* prefix_xor: is the number of q up to k in the block odd?
Odd(q, k) == Cardinality({j \in scanned + 1 .. k : data[j] = q}) % 2 = 1

Within(q, state, k) == Odd(q, k) # state

\* Mutant: each block starts outside of quotes.
StateLost(q, state) == FALSE

StateAfter(q, state) == Within(q, state, scanned + Block)

\* Both kinds of quotes are counted independently, and all of them are listed.
Listed(k) ==
  \/ data[k] \in Quotes
  \/ IsStructural(data[k]) /\ ~Within("dq", dq_state, k) /\ ~Within("sq", sq_state, k)

ScanBlock ==
  /\ scanned + Block <= Len(data)
  /\ index' = index \o FlattenSeq([k \in 1 .. Block |-> IF Listed(scanned + k) THEN <<scanned + k>> ELSE <<>>])
  /\ dq_state' = StateAfter("dq", dq_state) /\ sq_state' = StateAfter("sq", sq_state)
  /\ scanned' = scanned + Block
  /\ UNCHANGED <<data, backend>>

\* The loops of the three vector scanners.
ScanSse42  == backend = "sse42" /\ ScanBlock
ScanAvx2   == backend = "avx2" /\ ScanBlock
ScanAvx512 == backend = "avx512" /\ ScanBlock

\* Character by character, with the quote it is in, if any.
ScanOne(at, k) ==
  CASE at.quote # "none" /\ data[k] = at.quote  -> [quote |-> "none", index |-> Append(at.index, k)]
    [] at.quote # "none" /\ data[k] # at.quote  -> at
    [] at.quote = "none" /\ data[k] \in Quotes  -> [quote |-> data[k], index |-> Append(at.index, k)]
    [] at.quote = "none" /\ IsStructural(data[k]) -> [at EXCEPT !.index = Append(@, k)]
    [] OTHER -> at

\* The rest of the input, with the state that the blocks left.
ScanRest ==
  LET at[k \in 0 .. Len(data) - scanned] ==
        IF k = 0 THEN [quote |-> IF dq_state THEN "dq" ELSE IF sq_state THEN "sq" ELSE "none",
                       index |-> index]
        ELSE ScanOne(at[k - 1], scanned + k)
  IN  at[Len(data) - scanned]

ScanTail ==
  /\ backend # "scalar" => scanned + Block > Len(data)
  /\ scanned' = Len(data)
  /\ index' = ScanRest.index
  /\ UNCHANGED <<data, backend, dq_state, sq_state>>

=============================================================================
