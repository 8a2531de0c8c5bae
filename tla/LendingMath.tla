----------------------------- MODULE LendingMath -----------------------------
(***************************************************************************)
(* The pure formulas of the lending contracts: interest, loan-to-value and *)
(* the two liquidation computations.  `//` of the source is \div: every    *)
(* division rounds down, and P2PLendingVaultedBaseProofs is about          *)
(* what that rounding may not break.                                       *)
(*                                                                         *)
(* A rate [num, den] is the oracle's UInt256Rational with the token        *)
(* decimals folded in: num = numerator * payment_token_decimals and        *)
(* den = denominator * collateral_token_decimals, the only two products in *)
(* which the source ever uses it.  num / den is the value of one unit of   *)
(* collateral in units of the payment token.                               *)
(***************************************************************************)
EXTENDS Integers

CONSTANTS BPS,         \* 10000 in the source: the unit of every ratio
          YEAR,        \* YEAR_TO_SECONDS
          MaxUint256   \* max_value(uint256)

ASSUME MathAssumption ==
    /\ BPS \in Nat \ {0}
    /\ YEAR \in Nat \ {0}
    /\ MaxUint256 \in Nat

Rates == [num: Nat \ {0}, den: Nat \ {0}]

MinOf(a, b) == IF a <= b THEN a ELSE b
MaxOf(a, b) == IF a >= b THEN a ELSE b

-----------------------------------------------------------------------------
Interest(amount, apr, seconds) == (amount * apr * seconds) \div (BPS * YEAR)

\* A fee of fee_bps on an amount.
Fee(fee_bps, amount) == (fee_bps * amount) \div BPS

\* Value of an amount of collateral in payment tokens, and back.
ValueOf(collateral, rate) == (collateral * rate.num) \div rate.den
CollateralFor(value, rate) == (value * rate.den) \div rate.num

Ltv(collateral, amount, rate) == (amount * BPS * rate.den) \div (collateral * rate.num)

-----------------------------------------------------------------------------
(* _compute_partial_liquidation: the debt to write off so that what is     *)
(* left has the initial ltv, the collateral it buys and the fee on top.    *)

Unhealable(initial_ltv, fee) == (BPS + fee) * initial_ltv >= BPS * BPS

WriteOff(collateral, debt, initial_ltv, fee, rate) ==
    IF Unhealable(initial_ltv, fee) THEN MaxUint256
    ELSE ((debt * BPS - ValueOf(collateral, rate) * initial_ltv) * BPS)
            \div (BPS * BPS - (BPS + fee) * initial_ltv)

PartialLiquidation(collateral, debt, initial_ltv, fee, rate) ==
    LET written_off == WriteOff(collateral, debt, initial_ltv, fee, rate)
        claimed == CollateralFor(written_off, rate)
    IN  IF Unhealable(initial_ltv, fee)
        THEN [written_off |-> MaxUint256, claimed |-> MaxUint256, fee |-> MaxUint256]
        ELSE [written_off |-> written_off, claimed |-> claimed, fee |-> Fee(fee, claimed)]

-----------------------------------------------------------------------------
(* The split of the collateral in a full liquidation.                      *)

FullLiquidation(collateral, debt, interest, full_fee, settlement_fee, rate) ==
    LET fee == MinOf(collateral, (debt * full_fee * rate.den) \div (BPS * rate.num))
        remaining == collateral - fee
        value == ValueOf(remaining, rate)
    IN  [fee |-> fee,
         for_debt |-> CollateralFor(debt, rate),
         remaining |-> remaining,
         remaining_value |-> value,
         protocol_fee |-> MinOf(Fee(settlement_fee, interest), value),
         covered |-> value >= debt]
=============================================================================
