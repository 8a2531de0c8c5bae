--------------------- MODULE P2PLendingVaultedBaseProofs ---------------------
(***************************************************************************)
(* What the formulas and the shared steps of the lending contracts return  *)
(* and preserve, for every amount, rate, fee and refused transfer.         *)
(*                                                                         *)
(* The rounding of LendingMath breaks nothing: no checked subtraction of a *)
(* liquidation can fail, and a partial liquidation always leaves some      *)
(* collateral.  A payment changes what the contract holds beyond what it   *)
(* owes by its amount, whether the transfer works or not.                  *)
(***************************************************************************)
EXTENDS LendingAdministration, P2PLendingVaultProofs

-----------------------------------------------------------------------------
(* Division rounds down.                                                   *)

LEMMA DivBounds ==
  ASSUME NEW a \in Nat, NEW b \in Nat \ {0}
  PROVE  /\ a \div b \in Nat
         /\ b * (a \div b) <= a
         /\ a < b * (a \div b) + b
  OBVIOUS

LEMMA MulNat ==
  ASSUME NEW a \in Nat, NEW b \in Nat
  PROVE  a * b \in Nat /\ (a # 0 /\ b # 0 => a * b # 0)
  OBVIOUS

LEMMA MulMono ==
  ASSUME NEW a \in Nat, NEW b \in Nat, NEW c \in Nat, a <= b
  PROVE  a * c <= b * c
  OBVIOUS

LEMMA MulStrict ==
  ASSUME NEW a \in Nat, NEW b \in Nat, NEW c \in Nat \ {0}
  PROVE  a < b <=> a * c < b * c
  OBVIOUS

LEMMA DivLt ==
  ASSUME NEW a \in Nat, NEW b \in Nat \ {0}, NEW c \in Nat
  PROVE  a \div b < c <=> a < b * c
  <1> DEFINE q == a \div b
  <1>1. q \in Nat /\ b * q <= a /\ a < b * q + b
    BY DivBounds
  <1> HIDE DEF q
  <1>2. ASSUME q < c PROVE a < b * c
    <2>1. q + 1 <= c /\ (q + 1) * b <= c * b
      BY <1>1, <1>2, MulMono
    <2> QED BY <1>1, <2>1
  <1>3. ASSUME c <= q PROVE b * c <= a
    <2>1. c * b <= q * b
      BY <1>1, <1>3, MulMono
    <2> QED BY <1>1, <2>1
  <1>4. b * c \in Nat
    OBVIOUS
  <1>5. q < c <=> a < b * c
    BY <1>1, <1>2, <1>3, <1>4
  <1> QED BY <1>5 DEF q

LEMMA DivLe ==
  ASSUME NEW a \in Nat, NEW b \in Nat \ {0}, NEW c \in Nat, a <= b * c
  PROVE  a \div b <= c
  <1>1. a < b * (c + 1)
    OBVIOUS
  <1>2. a \div b < c + 1
    BY <1>1, DivLt
  <1> QED BY <1>2, DivBounds

LEMMA DivGe ==
  ASSUME NEW a \in Nat, NEW b \in Nat \ {0}, NEW c \in Nat, c <= a \div b
  PROVE  b * c <= a
  <1>1. ~(a < b * c)
    BY DivLt, DivBounds
  <1> QED BY <1>1

-----------------------------------------------------------------------------
(* The formulas return amounts.                                            *)

LEMMA InterestNat ==
  ASSUME NEW amount \in Nat, NEW apr \in Nat, NEW seconds \in Nat
  PROVE  Interest(amount, apr, seconds) \in Nat
  <1>1. amount * apr * seconds \in Nat /\ BPS * YEAR \in Nat \ {0}
    BY MathAssumption, MulNat
  <1> QED BY <1>1, DivBounds DEF Interest

\* A fee of at most BPS is at most the amount it is taken from.
LEMMA FeeBound ==
  ASSUME NEW fee_bps \in 0..BPS, NEW amount \in Nat
  PROVE  Fee(fee_bps, amount) \in Nat /\ Fee(fee_bps, amount) <= amount
  <1>1. fee_bps * amount \in Nat /\ fee_bps * amount <= BPS * amount
    BY MathAssumption, MulMono, MulNat
  <1> QED BY <1>1, DivBounds, DivLe, MathAssumption DEF Fee

LEMMA FeeNat ==
  ASSUME NEW fee_bps \in Nat, NEW amount \in Nat
  PROVE  Fee(fee_bps, amount) \in Nat
  BY MulNat, DivBounds, MathAssumption DEF Fee

LEMMA LtvNat ==
  ASSUME NEW collateral \in Nat \ {0}, NEW amount \in Nat, NEW quote \in Rates
  PROVE  Ltv(collateral, amount, quote) \in Nat
  <1>1. /\ amount * BPS * quote.den \in Nat
        /\ collateral * quote.num \in Nat \ {0}
    BY MathAssumption, MulNat DEF Rates
  <1> QED BY <1>1, DivBounds DEF Ltv

-----------------------------------------------------------------------------
(* Partial liquidation.                                                    *)

\* A write-off below the debt is paid with part of the collateral: what it
\* costs, and the liquidator's fee on top, leave some.  n / d is the rate, v
\* the value of the collateral c, debt the debt and w < debt the write-off.
LEMMA CollateralLeft ==
  ASSUME NEW b \in Nat \ {0}, NEW n \in Nat \ {0}, NEW d \in Nat \ {0},
         NEW c \in Nat, NEW v \in Nat, NEW debt \in Nat, NEW w \in Nat, NEW f \in Nat,
         NEW claimed \in Nat, NEW fee \in Nat,
         v * d <= c * n,
         w <= debt,
         (b + f) * debt < v * b,
         claimed * n <= w * d,
         fee * b <= f * claimed
  PROVE  claimed + fee < c
  <1>1. (claimed + fee) * b <= (b + f) * claimed
    OBVIOUS
  <1>2. ((claimed + fee) * b) * n <= ((b + f) * claimed) * n
    BY <1>1, MulMono, MulNat
  <1>3. (claimed * n) * (b + f) <= (w * d) * (b + f)
    BY MulMono, MulNat
  <1>4. (w * (b + f)) * d <= (debt * (b + f)) * d
    BY MulMono, MulNat
  <1>5. ((b + f) * debt) * d < (v * b) * d
    BY MulStrict, MulNat
  <1>6. (v * d) * b <= (c * n) * b
    BY MulMono, MulNat
  <1>7. ((claimed + fee) * b) * n < (c * b) * n
    <2>1. ((b + f) * claimed) * n = (claimed * n) * (b + f)
      OBVIOUS
    <2>2. (w * d) * (b + f) = (w * (b + f)) * d
      OBVIOUS
    <2>3. (debt * (b + f)) * d = ((b + f) * debt) * d
      OBVIOUS
    <2>4. (v * b) * d = (v * d) * b
      OBVIOUS
    <2>5. (c * n) * b = (c * b) * n
      OBVIOUS
    <2> QED BY <1>2, <1>3, <1>4, <1>5, <1>6, <2>1, <2>2, <2>3, <2>4, <2>5, MulNat
  <1>8. (claimed + fee) * b < c * b
    BY <1>7, MulStrict, MulNat
  <1> QED BY <1>8, MulStrict

\* A ltv above the initial one means more debt than the initial ltv of the
\* collateral's value: the source's outstanding_debt * BPS - collateral_value *
\* initial_ltv does not underflow.
LEMMA DebtAboveInitialLtv ==
  ASSUME NEW collateral \in Nat \ {0}, NEW debt \in Nat, NEW initial_ltv \in Nat,
         NEW quote \in Rates, initial_ltv < Ltv(collateral, debt, quote)
  PROVE  /\ ValueOf(collateral, quote) \in Nat
         /\ ValueOf(collateral, quote) * quote.den <= collateral * quote.num
         /\ ValueOf(collateral, quote) * initial_ltv < debt * BPS
  <1> DEFINE n == quote.num
             d == quote.den
             cn == collateral * n
             v == ValueOf(collateral, quote)
  <1>1. n \in Nat \ {0} /\ d \in Nat \ {0} /\ BPS \in Nat \ {0}
    BY MathAssumption DEF Rates
  <1>2. cn \in Nat \ {0} /\ debt * BPS \in Nat /\ (debt * BPS) * d \in Nat
    BY <1>1, MulNat
  <1>3. v \in Nat /\ v * d <= cn
    BY <1>1, <1>2, DivBounds DEF ValueOf
  <1>4. cn * (initial_ltv + 1) <= (debt * BPS) * d
    <2>1. initial_ltv + 1 <= ((debt * BPS) * d) \div cn
      BY LtvNat DEF Ltv
    <2> HIDE DEF cn
    <2> DEFINE a == (debt * BPS) * d
               c == initial_ltv + 1
    <2>2. a \in Nat /\ c \in Nat /\ cn \in Nat \ {0} /\ c <= a \div cn
      BY <1>2, <2>1
    <2> HIDE DEF a, c
    <2>3. cn * c <= a
      BY <2>2, DivGe
    <2> QED BY <2>3 DEF a, c
  <1> HIDE DEF cn, v
  <1>5. (v * d) * initial_ltv <= cn * initial_ltv
    BY <1>1, <1>2, <1>3, MulMono, MulNat
  <1>6. cn * initial_ltv < (debt * BPS) * d
    <2>1. cn * (initial_ltv + 1) = cn * initial_ltv + cn
      BY <1>2
    <2> QED BY <1>2, <1>4, <2>1, MulNat
  <1>7. (v * initial_ltv) * d < (debt * BPS) * d
    <2>1. (v * d) * initial_ltv = (v * initial_ltv) * d
      BY <1>1, <1>3
    <2> QED BY <1>1, <1>2, <1>3, <1>5, <1>6, <2>1, MulNat
  <1>8. v * initial_ltv < debt * BPS
    BY <1>1, <1>2, <1>3, <1>7, MulStrict, MulNat
  <1> QED BY <1>3, <1>8 DEF v, cn

(* A partial liquidation that writes off less than the debt takes less     *)
(* than the collateral: _compute_partial_liquidation returns amounts, the  *)
(* loan keeps a debt and a collateral, and no subtraction underflows.      *)
THEOREM PartialLiquidationSafe ==
  ASSUME NEW collateral \in Nat \ {0}, NEW debt \in Nat, NEW initial_ltv \in Nat,
         NEW fee \in Nat, NEW quote \in Rates,
         initial_ltv < Ltv(collateral, debt, quote),
         ~Unhealable(initial_ltv, fee),
         WriteOff(collateral, debt, initial_ltv, fee, quote) < debt
  PROVE  LET p == PartialLiquidation(collateral, debt, initial_ltv, fee, quote)
         IN  /\ p.written_off \in Nat /\ p.claimed \in Nat /\ p.fee \in Nat
             /\ p.written_off < debt
             /\ p.claimed + p.fee < collateral
  <1> DEFINE v == ValueOf(collateral, quote)
             factor == (BPS + fee) * initial_ltv
             numerator == (debt * BPS - v * initial_ltv) * BPS
             denominator == BPS * BPS - factor
             w == WriteOff(collateral, debt, initial_ltv, fee, quote)
             claimed == CollateralFor(w, quote)
  <1>1. /\ quote.num \in Nat \ {0} /\ quote.den \in Nat \ {0} /\ BPS \in Nat \ {0}
        /\ BPS + fee \in Nat \ {0}
    BY MathAssumption DEF Rates
  <1>2. v \in Nat /\ v * quote.den <= collateral * quote.num /\ v * initial_ltv < debt * BPS
    BY DebtAboveInitialLtv
  <1> HIDE DEF v
  <1>3. denominator \in Nat \ {0}
    BY <1>1, MulNat DEF Unhealable
  <1>4. numerator \in Nat
    <2>1. debt * BPS - v * initial_ltv \in Nat
      BY <1>1, <1>2, MulNat
    <2> QED BY <1>1, <2>1, MulNat
  <1>5. w = numerator \div denominator
    BY DEF WriteOff, v
  <1> HIDE DEF w
  <1>6. w \in Nat /\ w < debt
    BY <1>3, <1>4, <1>5, DivBounds DEF w
  <1>7. numerator < denominator * debt
    BY <1>3, <1>4, <1>5, <1>6, DivLt
  <1>8. initial_ltv * ((BPS + fee) * debt) < initial_ltv * (v * BPS)
    <2>1. numerator = (debt * BPS) * BPS - initial_ltv * (v * BPS)
      BY <1>1, <1>2
    <2>2. denominator * debt = (debt * BPS) * BPS - initial_ltv * ((BPS + fee) * debt)
      BY <1>1
    <2>3. /\ (debt * BPS) * BPS \in Nat /\ initial_ltv * (v * BPS) \in Nat
          /\ initial_ltv * ((BPS + fee) * debt) \in Nat
      BY <1>1, <1>2, MulNat
    <2> HIDE DEF numerator, denominator
    <2> QED BY <1>7, <2>1, <2>2, <2>3
  <1>9. (BPS + fee) * debt < v * BPS
    <2>1. (BPS + fee) * debt \in Nat /\ v * BPS \in Nat
      BY <1>1, <1>2, MulNat
    <2>2. initial_ltv # 0
      BY <1>8, <2>1
    <2> QED BY <1>8, <2>1, <2>2, MulStrict
  <1>10. claimed \in Nat /\ claimed * quote.num <= w * quote.den
    <2>1. w * quote.den \in Nat
      BY <1>1, <1>6, MulNat
    <2> QED BY <1>1, <2>1, DivBounds DEF CollateralFor
  <1> HIDE DEF claimed
  <1>11. Fee(fee, claimed) \in Nat /\ Fee(fee, claimed) * BPS <= fee * claimed
    <2>1. fee * claimed \in Nat
      BY <1>10, MulNat
    <2> QED BY <1>1, <2>1, DivBounds DEF Fee
  <1>12. claimed + Fee(fee, claimed) < collateral
    BY <1>1, <1>2, <1>6, <1>9, <1>10, <1>11, CollateralLeft
  <1> QED BY <1>6, <1>10, <1>11, <1>12 DEF PartialLiquidation, w, claimed

-----------------------------------------------------------------------------
(* Full liquidation.                                                       *)

(* The collateral is enough for the split of a full liquidation: the       *)
(* liquidator's fee is at most the collateral, a covered debt costs at     *)
(* most what remains of it, and the protocol's fee is at most what the     *)
(* liquidator pays.                                                        *)
THEOREM FullLiquidationSafe ==
  ASSUME NEW collateral \in Nat, NEW debt \in Nat, NEW interest \in Nat,
         NEW full_fee \in Nat, NEW settlement_fee \in 0..BPS, NEW quote \in Rates,
         interest <= debt
  PROVE  LET p == FullLiquidation(collateral, debt, interest, full_fee, settlement_fee, quote)
         IN  /\ p.fee \in Nat /\ p.remaining \in Nat /\ p.fee + p.remaining = collateral
             /\ p.for_debt \in Nat /\ p.remaining_value \in Nat /\ p.protocol_fee \in Nat
             /\ p.protocol_fee <= p.remaining_value
             /\ p.protocol_fee <= debt
             /\ p.covered => p.for_debt <= p.remaining
  <1> DEFINE uncapped == (debt * full_fee * quote.den) \div (BPS * quote.num)
             fee == MinOf(collateral, uncapped)
             remaining == collateral - fee
             value == ValueOf(remaining, quote)
             for_debt == CollateralFor(debt, quote)
             settlement == Fee(settlement_fee, interest)
  <1>1. quote.num \in Nat \ {0} /\ quote.den \in Nat \ {0} /\ BPS \in Nat \ {0}
    BY MathAssumption DEF Rates
  <1>2. uncapped \in Nat
    BY <1>1, MulNat, DivBounds
  <1> HIDE DEF uncapped
  <1>3. fee \in Nat /\ fee <= collateral /\ remaining \in Nat /\ fee + remaining = collateral
    BY <1>2 DEF MinOf
  <1> HIDE DEF fee, remaining
  <1>4. remaining * quote.num \in Nat /\ debt * quote.den \in Nat
    BY <1>1, <1>3, MulNat
  <1>5. value \in Nat /\ for_debt \in Nat
    BY <1>1, <1>4, DivBounds DEF ValueOf, CollateralFor
  <1>6. settlement \in Nat /\ settlement <= interest
    BY FeeBound
  <1>7. ASSUME value >= debt PROVE for_debt <= remaining
    <2>1. quote.den * debt <= remaining * quote.num
      BY <1>1, <1>4, <1>7, DivGe DEF ValueOf
    <2>2. debt * quote.den <= quote.num * remaining
      BY <1>1, <1>3, <2>1
    <2> QED BY <1>1, <1>3, <1>4, <2>2, DivLe DEF CollateralFor
  <1>8. /\ MinOf(settlement, value) \in Nat
        /\ MinOf(settlement, value) <= value /\ MinOf(settlement, value) <= debt
    <2> HIDE DEF settlement, value
    <2> QED BY <1>5, <1>6 DEF MinOf
  <1> HIDE DEF value, for_debt, settlement
  <1>9. FullLiquidation(collateral, debt, interest, full_fee, settlement_fee, quote)
          = [fee |-> fee, for_debt |-> for_debt, remaining |-> remaining,
             remaining_value |-> value, protocol_fee |-> MinOf(settlement, value),
             covered |-> value >= debt]
    BY DEF FullLiquidation, uncapped, fee, remaining, value, for_debt, settlement
  <1> DEFINE p == FullLiquidation(collateral, debt, interest, full_fee, settlement_fee, quote)
  <1>10. /\ p.fee = fee /\ p.for_debt = for_debt /\ p.remaining = remaining
         /\ p.remaining_value = value /\ p.protocol_fee = MinOf(settlement, value)
         /\ p.covered = (value >= debt)
    BY <1>9
  <1> HIDE DEF p
  <1>11. /\ p.fee \in Nat /\ p.remaining \in Nat /\ p.fee + p.remaining = collateral
         /\ p.for_debt \in Nat /\ p.remaining_value \in Nat
    BY <1>3, <1>5, <1>10
  <1>12. /\ p.protocol_fee \in Nat /\ p.protocol_fee <= p.remaining_value
         /\ p.protocol_fee <= debt
    BY <1>8, <1>10
  <1>13. p.covered => p.for_debt <= p.remaining
    BY <1>7, <1>10
  <1> QED BY <1>11, <1>12, <1>13 DEF p

-----------------------------------------------------------------------------
(* The bounds of the constants.                                            *)

LEMMA OfferTyped ==
  ASSUME NEW id \in OfferIds
  PROVE  /\ Offer[id] \in OfferRecord
         /\ LiquidityKey(Offer[id].lender, Offer[id].tracing_id) \in LiquidityKeys
  BY BaseAssumption DEF LiquidityKeys, LiquidityKey

LEMMA RateTyped ==
  ASSUME rate \in OracleRates, OracleAnswers
  PROVE  rate \in Rates
  BY BaseAssumption DEF OracleAnswers, Rates

LEMMA ActorTyped ==
  ASSUME NEW tx \in Txs
  PROVE  Actor(tx) \in Wallets
  BY BaseAssumption DEF Actor

-----------------------------------------------------------------------------
(* Payment tokens.                                                         *)

Funds == [cash: Nat, pending: [Wallets -> Nat]]

\* What the contract holds beyond what it owes to wallets.
Unowed(f) == f.cash - SumFunction(f.pending)

LEMMA UnowedInt ==
  ASSUME NEW f \in Funds
  PROVE  f.cash \in Int /\ SumFunction(f.pending) \in Int /\ Unowed(f) \in Int
  BY SumFunctionNat, WalletsAssumption DEF Funds, Unowed

LEMMA ReceivedTyped ==
  ASSUME NEW f \in Funds, NEW amount \in Nat
  PROVE  /\ Received(f, amount) \in Funds
         /\ Unowed(Received(f, amount)) = Unowed(f) + amount
  <1>1. Received(f, amount) \in Funds
    BY DEF Funds, Received
  <1>2. /\ Received(f, amount).cash = f.cash + amount
        /\ Received(f, amount).pending = f.pending
    BY DEF Funds, Received
  <1> QED BY <1>1, <1>2, UnowedInt DEF Unowed

\* A transfer that works leaves the balance natural: it fails otherwise, and
\* is then owed.
LEMMA SentTyped ==
  ASSUME NEW f \in Funds, NEW amount \in Nat, NEW to \in Wallets, NEW refused
  PROVE  /\ Sent(f, to, amount, refused) \in Funds
         /\ Unowed(Sent(f, to, amount, refused)) = Unowed(f) - amount
  <1> DEFINE r == Sent(f, to, amount, refused)
             n == f.pending[to] + amount
  <1>1. /\ f.pending \in [Wallets -> Int] /\ f.pending[to] \in Int /\ f.cash \in Int
        /\ n \in Nat
    BY DEF Funds
  <1>2. CASE <<"payment", to>> \in refused \/ f.cash < amount
    <2>1. r = [f EXCEPT !.pending = [f.pending EXCEPT ![to] = n]]
      BY <1>2 DEF Sent, Funds
    <2> HIDE DEF n
    <2>2. r \in Funds /\ r.cash = f.cash /\ r.pending = [f.pending EXCEPT ![to] = n]
      BY <1>1, <2>1 DEF Funds
    <2>3. SumFunction(r.pending) = SumFunction(f.pending) - f.pending[to] + n
      BY <1>1, <2>2, SumUpdated, WalletsAssumption
    <2>4. SumFunction(r.pending) = SumFunction(f.pending) + amount
      BY <1>1, <2>3, UnowedInt DEF n
    <2> QED BY <2>2, <2>4, UnowedInt DEF Unowed
  <1>3. CASE ~(<<"payment", to>> \in refused \/ f.cash < amount)
    <2>1. f.cash - amount \in Nat
      BY <1>3 DEF Funds
    <2>2. r \in Funds /\ r.cash = f.cash - amount /\ r.pending = f.pending
      BY <1>3, <2>1 DEF Funds, Sent
    <2> QED BY <2>2, UnowedInt DEF Unowed
  <1> QED BY <1>2, <1>3

LEMMA SettledTyped ==
  ASSUME NEW f \in Funds, NEW delta \in Int, NEW to \in Wallets, NEW refused
  PROVE  /\ Settled(f, to, delta, refused) \in Funds
         /\ Unowed(Settled(f, to, delta, refused)) = Unowed(f) - delta
  <1>1. CASE delta < 0
    <2>1. -delta \in Nat /\ Unowed(f) + (-delta) = Unowed(f) - delta
      BY <1>1, UnowedInt
    <2> QED BY <1>1, <2>1, ReceivedTyped DEF Settled
  <1>2. CASE ~(delta < 0)
    BY <1>2, SentTyped DEF Settled
  <1> QED BY <1>1, <1>2

\* claim_pending_transfers pays what is owed, and it is owed no more.
LEMMA ClaimedTyped ==
  ASSUME funds \in Funds, NEW wallet \in Wallets, ClaimPendingTransfers(wallet)
  PROVE  funds' \in Funds /\ Unowed(funds') = Unowed(funds)
  <1> DEFINE paid == funds.pending[wallet]
             left == funds.cash - paid
             none == [funds.pending EXCEPT ![wallet] = 0]
  <1>1. /\ paid \in Int /\ funds.cash \in Int /\ left \in Nat /\ none \in [Wallets -> Nat]
        /\ funds.pending \in [Wallets -> Int]
    BY DEF ClaimPendingTransfers, Funds
  <1>2. funds' = [funds EXCEPT !.cash = left, !.pending = none]
    BY DEF ClaimPendingTransfers, Funds
  <1>3. SumFunction(none) = SumFunction(funds.pending) - paid + 0
    <2>1. 0 \in Int
      OBVIOUS
    <2> HIDE DEF paid
    <2>2. SumFunction(none) = SumFunction(funds.pending) - funds.pending[wallet] + 0
      BY <1>1, <2>1, SumUpdated, WalletsAssumption
    <2> QED BY <2>2 DEF paid
  <1> HIDE DEF none
  <1>4. funds' \in Funds /\ funds'.cash = left /\ funds'.pending = none
    <2> HIDE DEF left
    <2> QED BY <1>1, <1>2 DEF Funds
  <1> HIDE DEF paid
  <1> QED BY <1>1, <1>3, <1>4, UnowedInt DEF Unowed

-----------------------------------------------------------------------------
(* Liquidity.                                                              *)

LEMMA ReducedTyped ==
  ASSUME NEW q \in [LiquidityKeys -> Nat], NEW amount \in Nat, NEW loan,
         LiquidityKey(loan.lender, loan.offer_tracing_id) \in LiquidityKeys
  PROVE  Reduced(q, loan, amount) \in [LiquidityKeys -> Nat]
  <1> DEFINE k == LiquidityKey(loan.lender, loan.offer_tracing_id)
             left == IF amount > q[k] THEN 0 ELSE q[k] - amount
  <1>1. k \in LiquidityKeys /\ q[k] \in Nat
    OBVIOUS
  <1>2. Reduced(q, loan, amount) = [q EXCEPT ![k] = left]
    BY DEF Reduced
  <1> HIDE DEF k
  <1>3. left \in Nat
    BY <1>1
  <1> HIDE DEF left
  <1> QED BY <1>2, <1>3

LEMMA CommittedTyped ==
  ASSUME NEW q \in [LiquidityKeys -> Nat], NEW amount \in Nat, NEW id \in OfferIds
  PROVE  Committed(q, id, amount) \in [LiquidityKeys -> Nat]
  <1> DEFINE k == LiquidityKey(Offer[id].lender, Offer[id].tracing_id)
             more == q[k] + amount
  <1>1. k \in LiquidityKeys /\ q[k] \in Nat
    BY OfferTyped
  <1>2. Committed(q, id, amount) = [q EXCEPT ![k] = more]
    BY DEF Committed
  <1> HIDE DEF k
  <1>3. more \in Nat
    BY <1>1
  <1> HIDE DEF more
  <1> QED BY <1>2, <1>3
=============================================================================
