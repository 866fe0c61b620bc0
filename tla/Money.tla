-------------------------------- MODULE Money ---------------------------------
(***************************************************************************)
(* What is computed with money before it reaches the ledger.  An amount is *)
(* a whole number of cents; a percentage comes in hundredths of a percent; *)
(* the shares of a fee split come in hundredths of a cent, because that is *)
(* what calculateFee of common/utils/money.util.ts rounds them to.         *)
(***************************************************************************)
EXTENDS Integers

(* Math.round(x / d): the nearest integer, and the higher one of two. *)
Rounded(x, d) == (2 * x + d) \div (2 * d)

(* `platformFeePercent || 5`: none given, or 0, is five percent. *)
FeePercent(asked) == IF asked = 0 THEN 500 ELSE asked

(* calculateFee: the fee is rounded and the seller gets the remainder. *)
CalculateFee(amount, percent) ==
    LET fee == Rounded(amount * percent, 100) IN
    [fee |-> fee, sellerAmount |-> 100 * amount - fee]

(* The calculateFee of common/money.ts, which only its tests call, rounds to *)
(* whole cents.                                                            *)
MinorFee(amount, percent) == Rounded(amount * percent, 10000)

(* assertMinorUnits, and the Int columns of Payout, take whole cents only. *)
IsInteger(hundredths) == hundredths % 100 = 0
IsMinorUnits(hundredths) == IsInteger(hundredths) /\ hundredths >= 0
===============================================================================
