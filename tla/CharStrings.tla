---------------------------- MODULE CharStrings ----------------------------
(***************************************************************************)
(* The std::string operations that xpath.hpp and xsd.hpp are made of, on   *)
(* sequences of characters.  A character is its code counted from that of  *)
(* '0', so that digits are their values and the order is that of the code. *)
(* What may be missing is a sequence of length at most one.                *)
(***************************************************************************)
EXTENDS Integers, SequencesExt

Digits  == 0 .. 9
Blank   == -16
Spaces  == {-39, -38, -35, Blank}   \* tab, line feed, carriage return, blank
Plus    == -5
Minus   == -3
Dot     == -2
Colon   == 10
Letter(k) == 48 + k                 \* Letter(1) is a, Letter(26) is z

True  == <<Letter(20), Letter(18), Letter(21), Letter(5)>>
False == <<Letter(6), Letter(1), Letter(12), Letter(19), Letter(5)>>

Solid(s) == {k \in DOMAIN s : s[k] \notin Spaces}

\* Without the white space around it.
Trimmed(s) == IF Solid(s) = {} THEN <<>> ELSE SubSeq(s, Min(Solid(s)), Max(Solid(s)))

\* Trimmed, and with one blank for each run of white space.
Collapsed(s) ==
  LET t == Trimmed(s) IN
  FlattenSeq([k \in DOMAIN t |->
    CASE k \in Solid(t)                         -> <<t[k]>>
      [] k \notin Solid(t) /\ k + 1 \in Solid(t) -> <<Blank>>
      [] OTHER                                  -> <<>>])

AllDigits(s) == s # <<>> /\ \A k \in DOMAIN s : s[k] \in Digits

Signs(s)    == IF s # <<>> /\ s[1] \in {Plus, Minus} THEN 1 ELSE 0
Unsigned(s) == SubSeq(s, Signs(s) + 1, Len(s))

NumberOf(digits) == FoldLeft(LAMBDA n, c : 10 * n + c, 0, digits)

Signed(s) == IF Signs(s) = 1 /\ s[1] = Minus THEN -NumberOf(Unsigned(s)) ELSE NumberOf(Unsigned(s))

\* The longest prefix of digits.
DigitsOf(s) ==
  SubSeq(s, 1, CHOOSE n \in 0 .. Len(s) :
                 /\ \A k \in 1 .. n : s[k] \in Digits
                 /\ n = Len(s) \/ s[n + 1] \notin Digits)

\* std::stod: white space, a sign, and the number that a prefix is; the rest is
\* ignored.  (Fractions, exponents, inf and nan are left out.)
Stod(s) ==
  LET t == IF Solid(s) = {} THEN <<>> ELSE SubSeq(s, Min(Solid(s)), Len(s))
      n == DigitsOf(Unsigned(t))
  IN  IF n = <<>> THEN <<>> ELSE <<Signed(SubSeq(t, 1, Signs(t)) \o n)>>

\* std::to_string of an integer.
Shown(n) ==
  LET abs == IF n < 0 THEN -n ELSE n
      up  == CHOOSE d \in 1 .. 10 : abs < 10 ^ d /\ (d = 1 \/ abs >= 10 ^ (d - 1))
  IN  (IF n < 0 THEN <<Minus>> ELSE <<>>) \o [k \in 1 .. up |-> (abs \div 10 ^ (up - k)) % 10]

StartsWith(s, t) == Len(t) <= Len(s) /\ SubSeq(s, 1, Len(t)) = t
EndsWith(s, t)   == Len(t) <= Len(s) /\ SubSeq(s, Len(s) - Len(t) + 1, Len(s)) = t

\* std::string::find: the places where t begins in s; find returns the first.
Places(s, t) == {k \in 1 .. Len(s) - Len(t) + 1 : SubSeq(s, k, k + Len(t) - 1) = t}

\* operator<
Before(s, t) ==
  \/ Len(s) < Len(t) /\ StartsWith(t, s)
  \/ \E k \in 1 .. Len(s) : /\ k <= Len(t) /\ s[k] < t[k]
                            /\ SubSeq(s, 1, k - 1) = SubSeq(t, 1, k - 1)

=============================================================================
