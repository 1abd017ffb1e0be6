------------------------------- MODULE Money -------------------------------
(***************************************************************************)
(* From the text of a spot price to base units of a token, without a       *)
(* float: the digits of a decimal are shifted as text, cut at a scale and  *)
(* multiplied as integers.  A decimal is its sign, its digits before and   *)
(* after the point and its exponent.  A result that may fail is a set of   *)
(* at most one value.                                                      *)
(***************************************************************************)
EXTENDS Integers, Sequences, SequencesExt

CONSTANTS
    PRICE_SCALE,       \* digits kept of a price
    KWH_MILLI_SCALE    \* a volume counts thousandths of a kWh

ASSUME MoneyAssumption == PRICE_SCALE \in Nat /\ KWH_MILLI_SCALE \in Nat

\* pow10
Pow10(n) == 10 ^ n

Zeros(n) == [i \in 1 .. n |-> 0]

\* plainDecimal: the exponent is spent by moving the point through the digits.
PlainDecimal(d) ==
    LET all == d.whole \o d.frac
        at  == Len(d.whole) + d.exp
    IN IF ~ d.sci \/ d.whole = <<>> THEN d
       ELSE [d EXCEPT !.sci = FALSE,
                !.whole = IF at <= 0 THEN <<0>> ELSE SubSeq(all \o Zeros(at), 1, at),
                !.frac = IF at <= 0 THEN Zeros(-at) \o all ELSE SubSeq(all, at + 1, Len(all))]

\* BigInt of a string of digits
ToInt(digits) == FoldLeft(LAMBDA n, d : 10 * n + d, 0, digits)

\* parseDecimalToScaled: extra digits are cut, missing ones are zeros; an exponent that is
\* still there and a decimal without digits do not parse.
ParseDecimalToScaled(d, scale) ==
    LET frac == SubSeq(d.frac \o Zeros(scale), 1, scale)
        magnitude == ToInt(d.whole) * Pow10(scale) + ToInt(frac)
    IN IF d.sci \/ (d.whole = <<>> /\ d.frac = <<>>) THEN {}
       ELSE {IF d.neg THEN -magnitude ELSE magnitude}

\* sekPerKwhToScaled
SekPerKwhToScaled(d) == ParseDecimalToScaled(PlainDecimal(d), PRICE_SCALE)

\* amountBaseUnits: one token is one krona; rounds down.
AmountBaseUnits(kwhMilli, price, decimals) ==
    (kwhMilli * price * Pow10(decimals)) \div (Pow10(KWH_MILLI_SCALE) * Pow10(PRICE_SCALE))

\* amountBaseUnitsUsd: both rates are per euro, so their scale cancels.
AmountBaseUnitsUsd(kwhMilli, price, rate, decimals) ==
    (kwhMilli * price * rate.usd * Pow10(decimals))
        \div (Pow10(KWH_MILLI_SCALE) * Pow10(PRICE_SCALE) * rate.sek)

\* The value of a decimal as a fraction of integers, by definition.
Fraction(d) ==
    LET n == ToInt(d.whole \o d.frac)
        e == (IF d.sci THEN d.exp ELSE 0) - Len(d.frac)
    IN [num |-> IF e >= 0 THEN n * Pow10(e) ELSE n, den |-> IF e >= 0 THEN 1 ELSE Pow10(-e)]

=============================================================================
