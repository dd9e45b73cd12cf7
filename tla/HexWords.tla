------------------------------ MODULE HexWords ------------------------------
(***************************************************************************)
(* staterecon/internal/models/normalize.go: the words of an eth_getProof   *)
(* answer in one form, whatever form a node gives them.                    *)
(*                                                                         *)
(* A text is the sequence of its hex digits, without blanks and the prefix *)
(* 0x; upper and lower case are one digit.  "null" reads as the empty text.*)
(***************************************************************************)
EXTENDS Integers, Sequences, SequencesExt

CONSTANT WordLength   \* 64

ASSUME HexWordsAssumption == WordLength \in Nat \ {0}

HexDigit == 0..15

ZeroHash == [i \in 1..WordLength |-> 0]

\* No word: what a hash without digits is normalised to.
NoHash == <<>>

\* Mutated form: a short word is left as it is.
Padded_Not(text) == text

Padded(text) == SubSeq(ZeroHash, 1, WordLength - Len(text)) \o text

\* A word that is too long loses its first digits, after an odd number of
\* digits has got a zero in front.
LastDigits(text) == SubSeq(text, Len(text) - WordLength + 1, Len(text))

FullWord(text) == IF Len(text) > WordLength THEN LastDigits(text) ELSE Padded(text)

NormalizeWord32(text) == IF text = <<>> THEN ZeroHash ELSE FullWord(text)

NormalizeCodeHash(text) == IF text = <<>> THEN NoHash ELSE FullWord(text)
=============================================================================
