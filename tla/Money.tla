-------------------------------- MODULE Money --------------------------------
(***************************************************************************)
(* Exact arithmetic on tiyin, internal/platform/money, for the amounts and *)
(* rates that are never negative. The code computes on big.Rat; reducing a *)
(* fraction changes neither its quotient nor which half it falls in.       *)
(***************************************************************************)
EXTENDS Integers

\* Slip: the fraction is cut off.
truncated(numerator, denominator) == numerator \div denominator

roundHalfUp(numerator, denominator) ==
    LET quotient == numerator \div denominator
        remainder == numerator % denominator
    IN  IF 2 * remainder >= denominator THEN quotient + 1 ELSE quotient

ApplyBasisPoints(amount, bps) == roundHalfUp(amount * bps, 10000)
=============================================================================
