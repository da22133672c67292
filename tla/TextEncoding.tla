---------------------------- MODULE TextEncoding ----------------------------
(***************************************************************************)
(* include/parshred/encoding.hpp: which encoding a text has, its           *)
(* conversion to UTF-8, the validation of UTF-8 and the normalisation of   *)
(* line ends, as operators on sequences of bytes.                          *)
(*                                                                         *)
(* An XML declaration is abbreviated to two bytes: '<' and a letter for    *)
(* the encoding it names.                                                  *)
(***************************************************************************)
EXTENDS Integers, Sequences, SequencesExt

\* The lead of a text is exactly s.
Leads(s, bytes) == Len(bytes) >= Len(s) /\ SubSeq(bytes, 1, Len(s)) = s

\* detect_from_bom and skip_bom agree: the longer marks first.
Marks == << [bom |-> <<255, 254, 0, 0>>, enc |-> "UTF32_LE"],
            [bom |-> <<0, 0, 254, 255>>, enc |-> "UTF32_BE"],
            [bom |-> <<239, 187, 191>>,  enc |-> "UTF8"],
            [bom |-> <<255, 254>>,       enc |-> "UTF16_LE"],
            [bom |-> <<254, 255>>,       enc |-> "UTF16_BE"] >>

Mark(bytes) ==
  LET found == {k \in DOMAIN Marks : Leads(Marks[k].bom, bytes)}
  IN  IF found = {} THEN [bom |-> <<>>, enc |-> "Unknown"] ELSE Marks[Min(found)]

BomLen(bytes)     == Len(Mark(bytes).bom)
AfterBom(bytes)   == SubSeq(bytes, BomLen(bytes) + 1, Len(bytes))

\* encoding_from_name: "utf-16" and "utf-32" alone are big endian.
Named == [u |-> "UTF8", a |-> "ASCII", l |-> "ISO_8859_1", w |-> "UTF16_BE", v |-> "UTF16_LE",
          x |-> "UTF32_BE"]
Letter == [u |-> 117, a |-> 97, l |-> 108, w |-> 119, v |-> 118, x |-> 120]

\* detect_from_xml_declaration: Unknown without one, or with an unknown name.
Declared(bytes) ==
  LET named == {k \in DOMAIN Letter : Leads(<<60, Letter[k]>>, bytes)}
  IN  IF named = {} THEN "Unknown" ELSE Named[CHOOSE k \in named : TRUE]

\* Mutant: the declaration is believed even after a UTF-16 mark.
DeclarationFirst(bytes) ==
  CASE Declared(AfterBom(bytes)) # "Unknown" -> Declared(AfterBom(bytes))
    [] Mark(bytes).enc # "Unknown"           -> Mark(bytes).enc
    [] OTHER -> "UTF8"

\* detect_encoding; nothing is known of an empty text.
DetectEncoding(bytes) ==
  LET marked   == Mark(bytes).enc
      declared == Declared(AfterBom(bytes))
  IN  CASE bytes = <<>> -> "Unknown"
        [] bytes # <<>> /\ marked \notin {"UTF8", "Unknown"} -> marked
        [] bytes # <<>> /\ marked \in {"UTF8", "Unknown"} ->
             IF declared = "Unknown" THEN "UTF8" ELSE declared

-----------------------------------------------------------------------------
(* Conversion                                                              *)

Replacement == 65533   \* U+FFFD

Tail6(cp, shift) == 128 + ((cp \div shift) % 64)

\* encode_utf8
EncodeUtf8(cp) ==
  CASE cp <= 127                     -> <<cp>>
    [] cp > 127 /\ cp <= 2047        -> <<192 + cp \div 64, Tail6(cp, 1)>>
    [] cp > 2047 /\ cp <= 65535      -> <<224 + cp \div 4096, Tail6(cp, 64), Tail6(cp, 1)>>
    [] cp > 65535 /\ cp <= 1114111   -> <<240 + cp \div 262144, Tail6(cp, 4096), Tail6(cp, 64), Tail6(cp, 1)>>
    [] cp > 1114111                  -> <<239, 191, 189>>

HighSurrogates == 55296 .. 56319
LowSurrogates  == 56320 .. 57343

Paired(high, low) == 65536 + (high - 55296) * 1024 + (low - 56320)

\* Code unit k of the text in either byte order.
Unit(bytes, k, big) ==
  LET first == bytes[2 * k - 1] second == bytes[2 * k]
  IN  IF big THEN first * 256 + second ELSE second * 256 + first

\* What stands for a high surrogate that no low one follows.
Broken(unit) == Replacement

\* The code points that utf16le_to_utf8 and utf16be_to_utf8 encode.  A unit that
\* follows a high surrogate is consumed with it, whatever it is; an odd byte at
\* the end stands for one more character.
Utf16Points(bytes, big) ==
  LET n   == Len(bytes) \div 2
      odd == IF Len(bytes) % 2 = 1 THEN <<Replacement>> ELSE <<>>
      unit(k) == Unit(bytes, k, big)
      from[k \in 1 .. n + 2] ==
        IF k > n THEN odd
        ELSE IF unit(k) \notin HighSurrogates THEN
               <<IF unit(k) \in LowSurrogates THEN Replacement ELSE unit(k)>> \o from[k + 1]
        ELSE IF k = n THEN <<Broken(unit(k))>> \o odd
        ELSE <<IF unit(k + 1) \in LowSurrogates THEN Paired(unit(k), unit(k + 1)) ELSE Replacement>>
               \o from[k + 2]
  IN  from[1]

Encoded(points) == FlattenSeq([k \in DOMAIN points |-> EncodeUtf8(points[k])])

\* transcode_to_utf8 throws for UTF-32.
Transcodable(enc) == enc \notin {"UTF32_LE", "UTF32_BE"}

\* A mark is not skipped in a text whose declaration names ISO-8859-1.
TranscodeToUtf8(bytes, enc) ==
  CASE enc \in {"UTF8", "ASCII"} -> AfterBom(bytes)
    [] enc = "UTF16_LE"          -> Encoded(Utf16Points(AfterBom(bytes), FALSE))
    [] enc = "UTF16_BE"          -> Encoded(Utf16Points(AfterBom(bytes), TRUE))
    [] enc = "ISO_8859_1"        -> Encoded(bytes)
    [] enc = "Unknown"           -> bytes

-----------------------------------------------------------------------------
(* validate_utf8                                                           *)

\* What a leading byte announces; no length for a byte that cannot lead.
Announced(b) ==
  CASE b \in 0 .. 127   -> [len |-> 1, bits |-> b,       min |-> 0]
    [] b \in 192 .. 223 -> [len |-> 2, bits |-> b - 192, min |-> 128]
    [] b \in 224 .. 239 -> [len |-> 3, bits |-> b - 224, min |-> 2048]
    [] b \in 240 .. 247 -> [len |-> 4, bits |-> b - 240, min |-> 65536]
    [] OTHER            -> [len |-> 0, bits |-> 0,       min |-> 0]

\* Mutant: surrogates are characters.
NoSurrogateCheck(cp, min) == cp < min \/ cp > 1114111

\* Overlong, a surrogate, or beyond Unicode.
NoCharacter(cp, min) == cp < min \/ cp \in HighSurrogates \cup LowSurrogates \/ cp > 1114111

\* The code point of the bytes that are announced at i.
CodePoint(s, i) ==
  LET a == Announced(s[i])
      cp[j \in i .. i + a.len - 1] ==
        IF j = i THEN a.bits ELSE cp[j - 1] * 64 + (s[j] % 64)
  IN  cp[i + a.len - 1]

InvalidAt(s, i) ==
  LET a == Announced(s[i]) IN
  \/ a.len = 0
  \/ i + a.len > Len(s) + 1
  \/ \E j \in i + 1 .. i + a.len - 1 : s[j] \notin 128 .. 191
  \/ NoCharacter(CodePoint(s, i), a.min)

\* The offset of the first invalid sequence, or -1.
ValidateUtf8(s) ==
  LET scan[i \in 1 .. Len(s) + 1] ==
        IF i > Len(s) THEN -1
        ELSE IF InvalidAt(s, i) THEN i - 1
        ELSE scan[i + Announced(s[i]).len]
  IN  scan[1]

-----------------------------------------------------------------------------
(* normalize_line_endings                                                  *)

\* CR LF and a CR alone become LF.
NormalizeLineEndings(s, lf, cr) ==
  LET from[i \in 1 .. Len(s) + 2] ==
        IF i > Len(s) THEN <<>>
        ELSE IF s[i] # cr THEN <<s[i]>> \o from[i + 1]
        ELSE <<lf>> \o from[IF i < Len(s) /\ s[i + 1] = lf THEN i + 2 ELSE i + 1]
  IN  from[1]

-----------------------------------------------------------------------------
(* The reference: Unicode's table of well-formed byte sequences.           *)

Continues == 128 .. 191

WellFormed(q) ==
  CASE Len(q) = 1 -> q[1] \in 0 .. 127
    [] Len(q) = 2 -> q[1] \in 194 .. 223 /\ q[2] \in Continues
    [] Len(q) = 3 -> /\ \/ q[1] = 224 /\ q[2] \in 160 .. 191
                        \/ q[1] \in 225 .. 236 \cup {238, 239} /\ q[2] \in Continues
                        \/ q[1] = 237 /\ q[2] \in 128 .. 159
                     /\ q[3] \in Continues
    [] Len(q) = 4 -> /\ \/ q[1] = 240 /\ q[2] \in 144 .. 191
                        \/ q[1] \in 241 .. 243 /\ q[2] \in Continues
                        \/ q[1] = 244 /\ q[2] \in 128 .. 143
                     /\ q[3] \in Continues /\ q[4] \in Continues

\* The offsets up to which s consists of whole characters.
CharacterEnds(s) ==
  LET ends[i \in 0 .. Len(s)] ==
        \/ i = 0
        \/ \E n \in 1 .. 4 : n <= i /\ WellFormed(SubSeq(s, i - n + 1, i)) /\ ends[i - n]
  IN  {i \in 0 .. Len(s) : ends[i]}

\* Where the first ill-formed character begins, or -1.
FirstIllFormed(s) ==
  LET last == CHOOSE i \in CharacterEnds(s) : \A j \in CharacterEnds(s) : j <= i
  IN  IF last = Len(s) THEN -1 ELSE last

\* The code point of a well-formed sequence, and the code points of a text.
PointOf(q) ==
  CASE Len(q) = 1 -> q[1]
    [] Len(q) = 2 -> (q[1] - 192) * 64 + q[2] - 128
    [] Len(q) = 3 -> (q[1] - 224) * 4096 + (q[2] - 128) * 64 + q[3] - 128
    [] Len(q) = 4 -> (q[1] - 240) * 262144 + (q[2] - 128) * 4096 + (q[3] - 128) * 64 + q[4] - 128

\* How many bytes the character has that ends at i, where whole characters end.
LastLength(s, i) ==
  CHOOSE n \in 1 .. 4 : i - n \in CharacterEnds(s) /\ WellFormed(SubSeq(s, i - n + 1, i))

Points(s) ==
  LET points[i \in 0 .. Len(s)] ==
        IF i = 0 \/ i \notin CharacterEnds(s) THEN <<>>
        ELSE points[i - LastLength(s, i)] \o <<PointOf(SubSeq(s, i - LastLength(s, i) + 1, i))>>
  IN  points[Len(s)]

\* The code units of code points in UTF-16.
High(p)    == 55296 + (p - 65536) \div 1024
Low(p)     == 56320 + ((p - 65536) % 1024)
InUnits(p) == IF p < 65536 THEN <<p>> ELSE <<High(p), Low(p)>>

UnitsOf(points) == FlattenSeq([k \in DOMAIN points |-> InUnits(points[k])])

\* Every surrogate is one of a pair.
PairsOnly(units) ==
  \A k \in DOMAIN units :
    /\ units[k] \in HighSurrogates => k < Len(units) /\ units[k + 1] \in LowSurrogates
    /\ units[k] \in LowSurrogates  => k > 1 /\ units[k - 1] \in HighSurrogates

=============================================================================
