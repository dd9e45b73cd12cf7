---------------------------- MODULE TokenSupply ----------------------------
(***************************************************************************)
(* staterecon/internal/tokensync/supply.go: the legacy explorer gives a    *)
(* total supply as a decimal number of tokens, Blockscout stores it as an  *)
(* integer in the smallest unit.  The code works on digits and never on    *)
(* numbers, so that no supply is too large.                                *)
(***************************************************************************)
EXTENDS Integers, Sequences, SequencesExt

CONSTANTS
  Supplies,          \* texts that the explorer may give as a supply
  MaxTokenDecimals   \* 255

ASSUME SupplyAssumption == Supplies \subseteq Seq(Nat) /\ MaxTokenDecimals \in Nat

\* A text, without the blanks around it, is a sequence of characters: digits
\* are numbers below 10, the other characters the code asks for have a name.
Digit == 0..9
Dot == 10
Plus == 11
Minus == 12
Exponent == 13

Without(text, n) == SubSeq(text, n + 1, Len(text))

Zeros(n) == [i \in 1..n |-> 0]

Failure == [ok |-> FALSE, digits |-> <<>>]

\* A leading plus sign is dropped.
NormalizeTotalSupplyInput(text) ==
  IF text # <<>> /\ Head(text) = Plus THEN Tail(text) ELSE text

Dots(text) == {i \in DOMAIN text : text[i] = Dot}

\* What is before the first dot, and what is after it.
Whole(text) ==
  IF Dots(text) = {} THEN text
  ELSE LET first == CHOOSE i \in Dots(text) : \A j \in Dots(text) : i <= j
       IN  SubSeq(text, 1, first - 1)

Fractional(text) == Without(text, Len(Whole(text)) + 1)

IsDecimalDigits(text) == ToSet(text) \subseteq Digit

TrimZerosLeft(digits) ==
  LET significant == {i \in DOMAIN digits : digits[i] # 0}
  IN  IF significant = {} THEN <<0>>
      ELSE Without(digits, (CHOOSE i \in significant : \A j \in significant : i <= j) - 1)

\* Mutated form: surplus digits are cut off, whatever they are.
ScalesTo_Truncating(fraction, decimals) == TRUE

\* Digits beyond the decimals must all be zero.
ScalesTo(fraction, decimals) == ToSet(Without(fraction, decimals)) \subseteq {0}

ScaleFractional(fraction, decimals) ==
  IF Len(fraction) > decimals THEN SubSeq(fraction, 1, decimals)
  ELSE fraction \o Zeros(decimals - Len(fraction))

\* The code's checks in its order; an empty supply is zero.
ConvertTotalSupply(text, decimals) ==
  LET trimmed == NormalizeTotalSupplyInput(text)
      whole == Whole(trimmed)
      fraction == Fractional(trimmed)
  IN  IF decimals \notin 0..MaxTokenDecimals THEN Failure
      ELSE IF text # <<>> /\ Head(text) = Minus THEN Failure
      ELSE IF Exponent \in ToSet(text) THEN Failure
      ELSE IF trimmed = <<>> THEN [ok |-> TRUE, digits |-> <<0>>]
      ELSE IF Dots(fraction) # {} \/ (whole = <<>> /\ fraction = <<>>) THEN Failure
      ELSE IF ~IsDecimalDigits(whole) \/ ~IsDecimalDigits(fraction) THEN Failure
      ELSE IF ~ScalesTo(fraction, decimals) THEN Failure
      ELSE [ok |-> TRUE, digits |-> TrimZerosLeft(whole \o ScaleFractional(fraction, decimals))]

-----------------------------------------------------------------------------
(* What the conversion is for, in numbers *)

\* A digit multiplies what is before it by ten; other characters do not count.
Read(n, char) == IF char \in Digit THEN 10 * n + char ELSE n

\* The number that the digits of a text make.
Number(text) ==
  LET read[i \in 0..Len(text)] == IF i = 0 THEN 0 ELSE Read(read[i - 1], text[i])
  IN  read[Len(text)]

TenTo(n) ==
  LET power[i \in 0..n] == IF i = 0 THEN 1 ELSE 10 * power[i - 1]
  IN  power[n]

Unsigned(text) == IF text # <<>> /\ Head(text) = Plus THEN Tail(text) ELSE text

\* A sign is part of a number only in front, and a dot only once, with a digit
\* before or behind it.
IsNumeral(unsigned) ==
  /\ \A i, j \in Dots(unsigned) : i = j
  /\ \A i \in DOMAIN unsigned : unsigned[i] \in Digit \cup {Dot}
  /\ Dots(unsigned) = DOMAIN unsigned => unsigned = <<>>

DigitsBehindDot(text) ==
  IF Dots(text) = {} THEN 0 ELSE Len(text) - (CHOOSE i \in Dots(text) : TRUE)

\* A conversion is right if it gives the exact number of smallest units in its
\* shortest form, and fails when there is no such number.
ExactFor(text, decimals) ==
  LET c == ConvertTotalSupply(text, decimals)
      unsigned == Unsigned(text)
      units == Number(unsigned) * TenTo(decimals)
      unit == TenTo(DigitsBehindDot(unsigned))
  IN  IF decimals \in 0..MaxTokenDecimals /\ IsNumeral(unsigned) /\ units % unit = 0
      THEN /\ c.ok
           /\ Number(c.digits) * unit = units
           /\ Len(c.digits) > 1 => Head(c.digits) # 0
      ELSE ~c.ok

\* Decimals below, within and above the range that is allowed.
AllExact == \A text \in Supplies, decimals \in -1..MaxTokenDecimals + 1 : ExactFor(text, decimals)
=============================================================================
