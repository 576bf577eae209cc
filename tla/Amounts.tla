------------------------------ MODULE Amounts ------------------------------
(***************************************************************************)
(* Amounts in major units, as a gateway writes them, and in minor units,   *)
(* as the event table holds them (toMinorUnits of crp/decimals-registry.ts)*)
(* Both are texts and are compared as texts: a text is modelled by its     *)
(* sign and its digits.  A malformed amount is not an amount here.         *)
(***************************************************************************)
EXTENDS Integers, Sequences

\* -?\d+(\.\d+)?, where `frac` is empty without a point.
IsAmount(a) ==
  /\ a.negative \in BOOLEAN
  /\ a.int \in Seq(0..9) /\ a.int # <<>> /\ a.frac \in Seq(0..9)

Zeros(n) == [i \in 1..n |-> 0]

\* Mutation: no digit stays of zero.
StripAllZeros(digits) ==
  SelectSeq([i \in DOMAIN digits |->
               IF \A j \in 1..i : digits[j] = 0 THEN -1 ELSE digits[i]],
            LAMBDA digit : digit >= 0)

\* Leading zeros are stripped; one digit stays.
StripZeros(digits) ==
  LET significant == {i \in DOMAIN digits : digits[i] # 0} IN
  IF significant = {}
    THEN <<0>>
    ELSE LET first == CHOOSE i \in significant : \A j \in significant : i <= j
         IN  SubSeq(digits, first, Len(digits))

\* toMinorUnits throws on an amount with more places than the token has.
HasMinorUnits(a, decimals) == Len(a.frac) <= decimals

\* Mutation: the leading zeros stay.
ToPaddedUnits(a, decimals) ==
  [negative |-> a.negative, digits |-> a.int \o a.frac \o Zeros(decimals - Len(a.frac))]

ToMinorUnits(a, decimals) ==
  LET digits == StripZeros(a.int \o a.frac \o Zeros(decimals - Len(a.frac)))
  IN  [negative |-> a.negative /\ digits # <<0>>, digits |-> digits]

\* amount_raw::text of a NUMERIC.
RawText(raw) ==
  LET digits[n \in Nat] == IF n < 10 THEN <<n>> ELSE Append(digits[n \div 10], n % 10)
  IN  [negative |-> FALSE, digits |-> digits[raw]]

\* The number that the digits write.
Number(digits) ==
  LET value[i \in 0..Len(digits)] ==
        IF i = 0 THEN 0 ELSE 10 * value[i - 1] + digits[i]
  IN  value[Len(digits)]

\* A one and n zeros.
TenTo(n) == Number(<<1>> \o Zeros(n))

\* Reference: raw minor units are worth the amount, in numbers.
IsWorth(raw, a, decimals) ==
  LET number == Number(a.int \o a.frac)
  IN  raw * TenTo(Len(a.frac)) = (IF a.negative THEN -number ELSE number) * TenTo(decimals)
=============================================================================
