----------------------------- MODULE Tokenizer -----------------------------
(***************************************************************************)
(* Tokenizer::tokenize (src/tokenizer.cpp): a walk along the structural    *)
(* index that makes tokens, one step for each entry it looks at.           *)
(***************************************************************************)
EXTENDS StructuralScan

VARIABLES
  si,           \* the next entry of the index
  text_start,   \* where the text before the next tag starts
  tokens,
  syntax        \* "ok" or "ParseError"

tokenVars == <<si, text_start, tokens, syntax>>

TokenTypes == {"StartTag", "SelfClosingTag", "EndTag", "AttributeName", "AttributeValue", "Text",
               "EntityRef", "Comment", "CData", "PI", "XmlDeclaration", "DocType"}

\* A token denotes data[from .. to].
Token(type, from, to) == <<[type |-> type, from |-> from, to |-> to]>>

TokenInit == si' = 1 /\ text_start' = 1 /\ tokens' = <<>> /\ syntax' = "ok"

ASSUME TokenizerAssumption == "end of input" \notin Unit

UnitAt(k) == IF k <= Len(data) THEN data[k] ELSE "end of input"

\* std::search
FirstFrom(k, u) == Min({j \in k .. Len(data) : data[j] = u} \cup {Len(data) + 1})

TextToken(from, to) == IF from <= to THEN Token("Text", from, to) ELSE <<>>

\* process_text, at position k with the text from `begin` on not yet made a token.
\* A "&" without ";" ends a token, but the next one starts where that one did.
TextTokens(from, to) ==
  LET rest[at \in (from .. to + 1) \X (from .. to + 1)] ==
        LET k     == at[1]
            begin == at[2]
            semi  == Min({j \in k + 1 .. to : data[j] = ";"} \cup {to + 1})
        IN  CASE k > to -> TextToken(begin, to)
              [] k <= to /\ data[k] # "&" -> rest[<<k + 1, begin>>]
              [] OTHER -> TextToken(begin, k - 1)
                          \o IF semi <= to THEN Token("EntityRef", k, semi) \o rest[<<semi + 1, semi + 1>>]
                             ELSE rest[<<k + 1, begin>>]
  IN  rest[<<from, from>>]

\* The attributes of a tag that ends with data[end], from position k on.
AttributeTokens(from, end) ==
  LET value(k) == FirstFrom(k + 1, data[k]) \* the closing quote
      rest[k \in 1 .. Len(data) + 1] ==
        IF k >= end \/ UnitAt(k) \notin Names THEN <<>>
        ELSE Token("AttributeName", k, k)
             \o CASE k + 2 < end /\ data[k + 1] = "=" /\ data[k + 2] \in Quotes ->
                       Token("AttributeValue", k + 3, value(k + 2) - 1)
                       \o rest[Min({value(k + 2), Len(data)}) + 1]
                  [] k + 1 < end /\ data[k + 1] = "=" /\ UnitAt(k + 2) \notin Quotes -> rest[k + 2]
                  [] OTHER -> rest[k + 1]
  IN  rest[from]

\* process_tag on data[start] = "<" and data[end] = ">".
TagTokens(start, end) ==
  IF UnitAt(start + 1) = "/" THEN Token("EndTag", start + 2, start + 2)
  ELSE Token(IF data[end - 1] = "/" THEN "SelfClosingTag" ELSE "StartTag", start + 1, start + 1)
       \o AttributeTokens(start + 2, end)

HasName(start) ==
  UnitAt(IF UnitAt(start + 1) = "/" THEN start + 2 ELSE start + 1) \in Names

-----------------------------------------------------------------------------

Here == index[si]
AtTag == syntax = "ok" /\ si <= Len(index) /\ data[Here] = "<"

TextBefore == IF Here > text_start THEN TextTokens(text_start, Here - 1) ELSE <<>>

\* Mutant: the entries within the construct are looked at, too.
OnlyNext(position) == si + 1

\* The first entry of the index from a position on.
EntryFrom(position) == Min({s \in si + 1 .. Len(index) : index[s] >= position} \cup {Len(index) + 1})

\* The construct at Here ends before `next`.
Ended(made, next) ==
  /\ tokens' = tokens \o TextBefore \o made
  /\ text_start' = next /\ si' = EntryFrom(next)
  /\ UNCHANGED syntax

\* Comments, CDATA sections and processing instructions are searched for their end
\* in the input itself; one without an end takes the rest.
Closing == [u \in {"!--", "![CDATA[", "?"} |->
              CASE u = "!--" -> "-->" [] u = "![CDATA[" -> "]]>" [] u = "?" -> "?>"]

SectionType(k) ==
  CASE UnitAt(k + 1) = "!--"      -> "Comment"
    [] UnitAt(k + 1) = "![CDATA[" -> "CData"
    [] UnitAt(k + 1) = "?" /\ UnitAt(k + 2) = "xml" -> "XmlDeclaration"
    [] OTHER -> "PI"

SectionToken ==
  /\ AtTag /\ UnitAt(Here + 1) \in DOMAIN Closing
  /\ LET close == FirstFrom(Here + 2, Closing[UnitAt(Here + 1)])
     IN  Ended(Token(SectionType(Here), Here + 2, close - 1), Min({close, Len(data)}) + 1)

Brackets(from, k) ==
  FoldLeft(LAMBDA n, u : IF u = "[" THEN n + 1 ELSE IF u = "]" /\ n > 0 THEN n - 1 ELSE n,
           0, SubSeq(data, from, k))

DoctypeToken ==
  /\ AtTag /\ UnitAt(Here + 1) = "!DOCTYPE"
  /\ LET end == Min({k \in Here + 2 .. Len(data) : IsGt(data[k]) /\ Brackets(Here + 2, k) = 0}
                    \cup {Len(data)})
     IN  Ended(Token("DocType", Here, end), end + 1)

\* The tag ends with the next ">" of the index.
TagEnd == Min({s \in si + 1 .. Len(index) : IsGt(data[index[s]])} \cup {Len(index) + 1})

AtPlainTag == AtTag /\ UnitAt(Here + 1) \notin DOMAIN Closing \cup {"!DOCTYPE"}

TagToken ==
  /\ AtPlainTag /\ TagEnd <= Len(index) /\ HasName(Here)
  /\ tokens' = tokens \o TextBefore \o TagTokens(Here, index[TagEnd])
  /\ text_start' = index[TagEnd] + 1 /\ si' = TagEnd + 1
  /\ UNCHANGED syntax

\* "Unclosed tag", "Expected tag name"
BadTag ==
  /\ AtPlainTag /\ (TagEnd > Len(index) \/ ~HasName(Here))
  /\ syntax' = "ParseError" /\ tokens' = tokens \o TextBefore
  /\ UNCHANGED <<si, text_start>>

OtherEntry ==
  /\ syntax = "ok" /\ si <= Len(index) /\ data[Here] # "<"
  /\ si' = si + 1
  /\ UNCHANGED <<text_start, tokens, syntax>>

TokenStep == SectionToken \/ DoctypeToken \/ TagToken \/ BadTag \/ OtherEntry

LastText ==
  /\ syntax = "ok" /\ si > Len(index)
  /\ tokens' = tokens \o TextTokens(text_start, Len(data))
  /\ UNCHANGED <<si, text_start, syntax>>

=============================================================================
