------------------------------ MODULE TxtSplit ------------------------------
(***************************************************************************)
(* splitTXTRecord of dns/server.go: the answer to a prompt, or the content *)
(* of a TXT record, cut into the strings of one TXT record.                *)
(*                                                                         *)
(* A text is a sequence of bytes.  A byte is told by the width of the UTF-8 *)
(* character that it begins, 0 if it continues one.                        *)
(***************************************************************************)
EXTENDS Naturals, Sequences, SequencesExt

CONSTANTS
    MaxLength,   \* of a string, 255 in the code
    MaxWidth,    \* of a character, 4 in UTF-8
    MaxText      \* bound: bytes of a text

ASSUME TxtAssumption ==
    /\ MaxLength \in Nat /\ MaxWidth \in 1 .. MaxLength
    /\ MaxText \in Nat

Bytes == 0 .. MaxWidth
Texts == BoundedSeq(Bytes, MaxText)

\* The characters of width n that text has after its first i bytes.
CharAt(text, i, n) ==
    /\ i + n <= Len(text)
    /\ text[i + 1] = n
    /\ \A j \in 2 .. n : text[i + j] = 0

\* utf8.ValidString of the first i bytes.
ValidPrefix(text, i) ==
    LET valid[j \in 0 .. i] ==
            j = 0 \/ \E n \in 1 .. MaxWidth :
                        n <= j /\ CharAt(text, j - n, n) /\ valid[j - n]
    IN  valid[i]

ValidString(text) == ValidPrefix(text, Len(text))

\* utf8.DecodeRuneInString: an invalid byte counts as a character of one.
Width(text) ==
    IF \E n \in 1 .. MaxWidth : CharAt(text, 0, n) THEN text[1] ELSE 1

\* Mutant: the text is cut at the limit.
CutAnywhere(text) == MaxLength

\* The longest valid prefix that fits, or a character if there is none.
CutPoint(text) ==
    LET cuts == {i \in 1 .. MaxLength : ValidPrefix(text, i)}
    IN  IF cuts = {} THEN Width(text) ELSE CHOOSE i \in cuts : \A j \in cuts : j <= i

splitTXTRecord[text \in Texts] ==
    IF text = <<>> THEN <<>>
    ELSE IF Len(text) <= MaxLength THEN <<text>>
    ELSE LET cut == CutPoint(text)
         IN  <<SubSeq(text, 1, cut)>> \o splitTXTRecord[SubSeq(text, cut + 1, Len(text))]

\* What is right for the strings of a text: nothing is lost, no string is empty or
\* too long for a TXT record, and a valid text has no character cut in two.
Kept(text, strings) ==
    /\ strings \in Seq(Seq(Bytes))
    /\ FlattenSeq(strings) = text
    /\ \A i \in DOMAIN strings :
          /\ Len(strings[i]) \in 1 .. MaxLength
          /\ ValidString(text) => ValidString(strings[i])

\* splitTXTRecord does right by every text, whatever its bytes (server.go 454-467,
\* where the search for the boundary gives up at 0).
SplitKeepsTexts == \A text \in Texts : Kept(text, splitTXTRecord[text])
=============================================================================
