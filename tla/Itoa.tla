-------------------------------- MODULE Itoa --------------------------------
(***************************************************************************)
(* itoa.c: a whole number as text, in base 10 as every caller asks for.    *)
(* The code writes the text backwards, from the suffix to the prefix, and  *)
(* turns it round at the end; a text is a sequence of characters.          *)
(* RightText is what the text of a value in tenths should be.              *)
(***************************************************************************)
EXTENDS Integers, Sequences, SequencesExt

Char(d) == <<"0", "1", "2", "3", "4", "5", "6", "7", "8", "9">>[d + 1]
Magnitude(v) == IF v < 0 THEN -v ELSE v

\* The digits of n, the last one first: the loop of lines 47 to 57.
Digits[n \in Nat] ==
  IF n < 10 THEN <<Char(n)>> ELSE <<Char(n % 10)>> \o Digits[n \div 10]

\* The point follows the first decimals digits, if there are that many.
Pointed(digits, decimals) ==
  IF decimals \in 1 .. Len(digits)
    THEN SubSeq(digits, 1, decimals) \o <<".">> \o SubSeq(digits, decimals + 1, Len(digits))
    ELSE digits

\* Mutant: no zero before the point.
X_ZeroAhead(v, decimals) == <<>>

\* Lines 59 to 62: the zero before the point of a value of one digit, and of
\* every negative value, for sign holds the value itself.
ZeroAhead(v, decimals) == IF v < 10 /\ decimals = 1 THEN <<"0">> ELSE <<>>

Minus(v) == IF v < 0 THEN <<"-">> ELSE <<>>

Padding(length, char) == IF length > 0 THEN [i \in 1 .. length |-> char] ELSE <<>>

\* itoa(value, buffer, 10, decimals, expectedLength, padding_char, prefix, suffix).
\* Padding fills the text up to expectedLength and never cuts it.
Text(value, decimals, expectedLength, padding_char, prefix, suffix) ==
  LET body == suffix \o Pointed(Digits[Magnitude(value)], decimals)
                \o ZeroAhead(value, decimals) \o Minus(value)
      missing == expectedLength - Len(body) - Len(prefix)
  IN  Reverse(body \o Padding(missing, padding_char) \o prefix)

----------------------------------------------------------------------------
\* The value v in tenths in the usual notation, right-aligned in a field: sign,
\* whole part with no zero too many, point, one decimal.
RightText(v, field) ==
  LET m == Magnitude(v)
      number == Minus(v) \o Reverse(Digits[m \div 10]) \o <<".", Char(m % 10)>>
  IN  Padding(field - Len(number), " ") \o number
=============================================================================
