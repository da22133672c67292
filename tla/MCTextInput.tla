---------------------------- MODULE MCTextInput ----------------------------
(***************************************************************************)
(* TLC instance of TextInput: small files for the readers, and texts at    *)
(* the edges of the encodings and of line ends.                            *)
(***************************************************************************)
EXTENDS TextInput, TLC

CONSTANT LineLen   \* bound on the texts of line ends

Bytes == 0 .. 255
Upto(n, S) == UNION {[1 .. k -> S] : k \in 0 .. n}

MCContents == {<<>>, <<97>>, <<97, 98>>, <<98, 97, 99, 97>>}
MCBuffers  == {<<>>, <<100>>}
MCLF == 10
MCCR == 13

\* All short texts of line ends and other characters.
Lines == Upto(LineLen, {MCLF, MCCR, 120})

\* The bytes at the edges of Unicode's table, in sequences of up to four.
Edges2 == {128, 159, 160, 191}
Utf8Edges ==
  {<<b>> : b \in {127, 128, 191, 192, 193, 194, 223, 224, 237, 240, 244, 245, 247, 248, 255}}
  \cup {<<b, c>> : b \in {193, 194, 223, 224}, c \in {127, 128, 191, 192}}
  \cup {<<b, c, d>> : b \in {224, 225, 236, 237, 238, 239}, c \in Edges2, d \in {127, 128, 191}}
  \cup {<<b, c, 128, d>> : b \in {240, 241, 243, 244, 245}, c \in {143, 144} \cup Edges2, d \in {120, 191}}
Utf8Texts == Utf8Edges \cup {<<120>> \o s : s \in Utf8Edges} \cup {<<195, 169>> \o s \o <<120>> : s \in Utf8Edges}

\* UTF-16 with its mark: units at the edges of the surrogates, and an odd byte.
Units == { <<0, 10>>, <<0, 255>>, <<7, 255>>, <<8, 0>>, <<215, 255>>, <<216, 0>>, <<219, 255>>,
           <<220, 0>>, <<223, 255>>, <<224, 0>>, <<255, 255>> }
Swapped(u) == <<u[2], u[1]>>
Pairs == {<<u>> : u \in Units} \cup (Units \X Units) \cup {<<u, v, <<0, 120>>>> : u \in Units, v \in Units}
Utf16Texts ==
  UNION { LET big == FlattenSeq([k \in DOMAIN p |-> p[k]])
              little == FlattenSeq([k \in DOMAIN p |-> Swapped(p[k])])
          IN  { <<254, 255>> \o big, <<255, 254>> \o little, <<254, 255>> \o big \o <<216>> }
        : p \in Pairs }

\* Declarations, after no mark or one, and marks that do not agree with them.
Declarations ==
  {m.bom \o <<60, k>> \o s : m \in ToSet(Marks) \cup {[bom |-> <<>>]},
                             k \in {117, 97, 108, 119, 118, 120, 63},
                             s \in {<<>>, <<0>>, <<233, 13, 10>>}}

MCTexts == (Lines \cup Utf8Texts \cup Utf16Texts \cup Declarations) \ {<<>>}

Symmetry == Permutations(Readers) \cup Permutations(Regions)

=============================================================================
