--------------------- MODULE P2PLendingVaultedBooksProofs ---------------------
(***************************************************************************)
(* The books of the vaulted protocol add up: the collateral in the vaults  *)
(* is that of the loans, the committed liquidity is their principal; and   *)
(* no operation makes a safe loan liquidatable.                            *)
(*                                                                         *)
(* transfer_loan is the one operation that stores a loan under a new id    *)
(* without asserting that the id is free: a loan that is there is lost,    *)
(* and its collateral and principal with it (NoLoanOverwritten).  The sums *)
(* are therefore proved of the behaviours in which that assert would never *)
(* have failed.  It does not assert that its withdrawal was not refused    *)
(* either, and a refused one strands the collateral                        *)
(* (TransferMovesCollateral): the sum of the collateral is proved of the   *)
(* behaviours in which it arrives.                                         *)
(***************************************************************************)
EXTENDS P2PLendingVaultedProofs

\* What transfer_loan does not assert: the loan's new id is free.
TransferIdFree ==
    \A tx \in Txs, loan \in loans, b \in Borrowers, refused \in SUBSET Refusals :
        TransferLoan(tx, loan, b, refused) => ~Exists([loan EXCEPT !.borrower = b])

\* What it does not assert either: the withdrawal reaches the new vault.
TransferArrives ==
    \A tx \in Txs, loan \in loans, b \in Borrowers, refused \in SUBSET Refusals :
        TransferLoan(tx, loan, b, refused) => ~CollateralRefused(VaultAddress[b], refused)

\* One loan per id, and a finite number of them.
IdsUnique(ls) ==
    /\ IsFiniteSet(ls)
    /\ \A l, m \in ls : LoanId(l) = LoanId(m) => l = m

\* What the loans ls say of the collateral in a borrower's vault, and one of
\* them.
Pledged(ls, b) == SumFunction([l \in {m \in ls : m.borrower = b} |-> l.collateral_amount])
PledgedBy(l, b) == IF l.borrower = b THEN l.collateral_amount ELSE 0

\* And of the principal lent under a key.
KeyOf(l) == LiquidityKey(l.lender, l.offer_tracing_id)
Lent(ls, key) == SumFunction([l \in {m \in ls : KeyOf(m) = key} |-> l.amount])
LentBy(l, key) == IF KeyOf(l) = key THEN l.amount ELSE 0

Amounts(ls) == \A l \in ls : l.collateral_amount \in Nat /\ l.amount \in Nat

-----------------------------------------------------------------------------
(* Sums over loans.                                                        *)

LEMMA AmountsNat == ASSUME Inv PROVE Amounts(loans)
  BY LoanParties DEF Amounts

LEMMA PledgedNat ==
  ASSUME NEW ls, IsFiniteSet(ls), Amounts(ls), NEW b
  PROVE  Pledged(ls, b) \in Nat
  <1> DEFINE S == {m \in ls : m.borrower = b}
             f == [l \in S |-> l.collateral_amount]
  <1>1. IsFiniteSet(S) /\ f \in [S -> Nat]
    BY FS_Subset DEF Amounts
  <1> HIDE DEF S, f
  <1>2. SumFunction(f) \in Nat
    BY <1>1, SumFunctionNat
  <1> QED BY <1>2 DEF Pledged, S, f

LEMMA LentNat ==
  ASSUME NEW ls, IsFiniteSet(ls), Amounts(ls), NEW key
  PROVE  Lent(ls, key) \in Nat
  <1> DEFINE S == {m \in ls : KeyOf(m) = key}
             f == [l \in S |-> l.amount]
  <1>1. IsFiniteSet(S) /\ f \in [S -> Nat]
    BY FS_Subset DEF Amounts
  <1> HIDE DEF S, f
  <1>2. SumFunction(f) \in Nat
    BY <1>1, SumFunctionNat
  <1> QED BY <1>2 DEF Lent, S, f

\* One loan more adds its own.
LEMMA OneMore ==
  ASSUME NEW ls, IsFiniteSet(ls), NEW l, l \notin ls, Amounts(ls \cup {l})
  PROVE  /\ \A b : Pledged(ls \cup {l}, b) = PledgedBy(l, b) + Pledged(ls, b)
         /\ \A key : Lent(ls \cup {l}, key) = LentBy(l, key) + Lent(ls, key)
  <1>1. Amounts(ls) /\ l.collateral_amount \in Nat /\ l.amount \in Nat
    BY DEF Amounts
  <1>2. ASSUME NEW b PROVE Pledged(ls \cup {l}, b) = PledgedBy(l, b) + Pledged(ls, b)
    <2> DEFINE S == {m \in ls : m.borrower = b}
               T == {m \in ls \cup {l} : m.borrower = b}
               g == [x \in S |-> x.collateral_amount]
               f == [x \in T |-> x.collateral_amount]
    <2>1. IsFiniteSet(S) /\ l \notin S /\ g \in [S -> Int]
      BY <1>1, FS_Subset DEF Amounts
    <2>2. CASE l.borrower = b
      <3>1. T = S \cup {l}
        BY <2>2
      <3>2. /\ f \in [S \cup {l} -> Int] /\ f[l] = l.collateral_amount
            /\ \A y \in S : f[y] = g[y]
        BY <1>1, <3>1 DEF Amounts
      <3> HIDE DEF S, f, g
      <3>3. SumFunction(f) = f[l] + SumFunction(g)
        BY <2>1, <3>2, SumExtended
      <3> QED BY <2>2, <3>2, <3>3 DEF Pledged, PledgedBy, S, T, f, g
    <2>3. CASE l.borrower # b
      <3>1. T = S
        BY <2>3
      <3>2. Pledged(ls \cup {l}, b) = Pledged(ls, b)
        BY <3>1 DEF Pledged
      <3> QED BY <2>3, <3>2, <1>1, PledgedNat DEF PledgedBy
    <2> QED BY <2>2, <2>3
  <1>3. ASSUME NEW key PROVE Lent(ls \cup {l}, key) = LentBy(l, key) + Lent(ls, key)
    <2> DEFINE S == {m \in ls : KeyOf(m) = key}
               T == {m \in ls \cup {l} : KeyOf(m) = key}
               g == [x \in S |-> x.amount]
               f == [x \in T |-> x.amount]
    <2>1. IsFiniteSet(S) /\ l \notin S /\ g \in [S -> Int]
      BY <1>1, FS_Subset DEF Amounts
    <2>2. CASE KeyOf(l) = key
      <3>1. T = S \cup {l}
        BY <2>2
      <3>2. f \in [S \cup {l} -> Int] /\ f[l] = l.amount /\ \A y \in S : f[y] = g[y]
        BY <1>1, <3>1 DEF Amounts
      <3> HIDE DEF S, f, g
      <3>3. SumFunction(f) = f[l] + SumFunction(g)
        BY <2>1, <3>2, SumExtended
      <3> QED BY <2>2, <3>2, <3>3 DEF Lent, LentBy, S, T, f, g
    <2>3. CASE KeyOf(l) # key
      <3>1. T = S
        BY <2>3
      <3>2. Lent(ls \cup {l}, key) = Lent(ls, key)
        BY <3>1 DEF Lent
      <3> QED BY <2>3, <3>2, <1>1, LentNat DEF LentBy
    <2> QED BY <2>2, <2>3
  <1> QED BY <1>2, <1>3

LEMMA OneLess ==
  ASSUME NEW ls, IsFiniteSet(ls), Amounts(ls), NEW l \in ls
  PROVE  /\ IsFiniteSet(ls \ {l}) /\ Amounts(ls \ {l})
         /\ \A b : Pledged(ls, b) = PledgedBy(l, b) + Pledged(ls \ {l}, b)
         /\ \A key : Lent(ls, key) = LentBy(l, key) + Lent(ls \ {l}, key)
  <1> DEFINE rest == ls \ {l}
  <1>1. /\ IsFiniteSet(rest) /\ Amounts(rest) /\ rest \cup {l} = ls /\ l \notin rest
    BY FS_Subset DEF Amounts
  <1> HIDE DEF rest
  <1>2. /\ \A b : Pledged(rest \cup {l}, b) = PledgedBy(l, b) + Pledged(rest, b)
        /\ \A key : Lent(rest \cup {l}, key) = LentBy(l, key) + Lent(rest, key)
    BY <1>1, OneMore
  <1> QED BY <1>1, <1>2 DEF rest

\* One loan takes the place of another.
LEMMA OneSwapped ==
  ASSUME NEW ls, IsFiniteSet(ls), NEW l \in ls, NEW m, m \notin ls \ {l},
         Amounts(ls \cup {m}), NEW b
  PROVE  Pledged((ls \ {l}) \cup {m}, b) = Pledged(ls, b) - PledgedBy(l, b) + PledgedBy(m, b)
  <1> DEFINE rest == ls \ {l}
  <1>1. Amounts(ls) /\ Amounts(rest \cup {m}) /\ Amounts({l, m})
    BY DEF Amounts
  <1>2. /\ IsFiniteSet(rest) /\ m \notin rest /\ Amounts(rest)
        /\ \A c : Pledged(ls, c) = PledgedBy(l, c) + Pledged(rest, c)
    BY <1>1, OneLess
  <1> HIDE DEF rest
  <1>3. \A c : Pledged(rest \cup {m}, c) = PledgedBy(m, c) + Pledged(rest, c)
    BY <1>1, <1>2, OneMore
  <1>4. PledgedBy(l, b) \in Nat /\ PledgedBy(m, b) \in Nat
    BY <1>1 DEF Amounts, PledgedBy
  <1>5. Pledged(rest, b) \in Nat
    BY <1>2, PledgedNat
  <1>6. Pledged(ls, b) = PledgedBy(l, b) + Pledged(rest, b)
    BY <1>2
  <1>7. Pledged(rest \cup {m}, b) = PledgedBy(m, b) + Pledged(rest, b)
    BY <1>3
  <1>8. Pledged(rest \cup {m}, b) = Pledged(ls, b) - PledgedBy(l, b) + PledgedBy(m, b)
    BY <1>4, <1>5, <1>6, <1>7
  <1> QED BY <1>8 DEF rest

-----------------------------------------------------------------------------
(* Every operation stores at most one loan and drops at most one.          *)

LEMMA StoredSame ==
  ASSUME NEW ls, IdsUnique(ls), NEW l \in ls, NEW m, LoanId(m) = LoanId(l)
  PROVE  /\ Stored(ls, m) = (ls \ {l}) \cup {m}
         /\ m \notin ls \ {l}
         /\ IdsUnique((ls \ {l}) \cup {m})
  <1>1. IsFiniteSet(ls \ {l})
    BY FS_Subset DEF IdsUnique
  <1>2. IsFiniteSet((ls \ {l}) \cup {m})
    BY <1>1, FS_AddElement
  <1> QED BY <1>2 DEF IdsUnique, Stored

LEMMA StoredNew ==
  ASSUME NEW ls, IdsUnique(ls), NEW m, \A l \in ls : LoanId(l) # LoanId(m)
  PROVE  Stored(ls, m) = ls \cup {m} /\ m \notin ls /\ IdsUnique(ls \cup {m})
  <1>1. IsFiniteSet(ls \cup {m})
    BY FS_AddElement DEF IdsUnique
  <1> QED BY <1>1 DEF IdsUnique, Stored

LEMMA DroppedUnique ==
  ASSUME NEW ls, IdsUnique(ls), NEW l
  PROVE  IdsUnique(ls \ {l}) /\ IsFiniteSet(ls \ {l})
  BY FS_Subset DEF IdsUnique

-----------------------------------------------------------------------------
(* The liquidity committed under each key.                                 *)

\* q is what is lent by the loans ls under each key but those of d, and one
\* of the key's offers has room for it.
Booked(q, ls, d) ==
    \A key \in LiquidityKeys \ d :
        /\ q[key] = Lent(ls, key)
        /\ \E o \in OfferIds :
              /\ LiquidityKey(Offer[o].lender, Offer[o].tracing_id) = key
              /\ Lent(ls, key) <= Offer[o].available_liquidity

LEMMA NoneBooked == Booked([k \in LiquidityKeys |-> 0], {}, {})
  <1> SUFFICES ASSUME NEW key \in LiquidityKeys
               PROVE  /\ Lent({}, key) = 0
                      /\ \E o \in OfferIds :
                            /\ LiquidityKey(Offer[o].lender, Offer[o].tracing_id) = key
                            /\ Lent({}, key) <= Offer[o].available_liquidity
    BY DEF Booked
  <1>1. [l \in {m \in {} : KeyOf(m) = key} |-> l.amount] = [l \in {} |-> 0]
    OBVIOUS
  <1>2. Lent({}, key) = 0
    BY <1>1, SumZeros, FS_EmptySet DEF Lent
  <1>3. PICK o \in OfferIds : <<Offer[o].lender, Offer[o].tracing_id>> = key
    BY DEF LiquidityKeys
  <1>4. Offer[o].available_liquidity \in Nat
    BY OfferTyped DEF OfferRecord
  <1> QED BY <1>2, <1>3, <1>4 DEF LiquidityKey

\* A loan made on an offer that has room for it.
LEMMA LoanBooked ==
  ASSUME NEW q \in [LiquidityKeys -> Nat], NEW ls, NEW d, IsFiniteSet(ls), Booked(q, ls, d),
         NEW l, l \notin ls, Amounts(ls \cup {l}), NEW id \in OfferIds,
         l.lender = Offer[id].lender, l.offer_tracing_id = Offer[id].tracing_id,
         OfferUsable(q, id, l.amount)
  PROVE  Booked(Committed(q, id, l.amount), ls \cup {l}, d)
  <1> DEFINE k == LiquidityKey(Offer[id].lender, Offer[id].tracing_id)
             r == Committed(q, id, l.amount)
  <1>1. /\ k \in LiquidityKeys /\ KeyOf(l) = k
        /\ q[k] + l.amount <= Offer[id].available_liquidity
    BY OfferTyped DEF KeyOf, OfferUsable
  <1>2. \A key : Lent(ls \cup {l}, key) = LentBy(l, key) + Lent(ls, key)
    BY OneMore
  <1>3. Amounts(ls) /\ l.amount \in Nat
    BY DEF Amounts
  <1>4. \A key : Lent(ls, key) \in Nat
    BY <1>3, LentNat
  <1>5. r = [q EXCEPT ![k] = q[k] + l.amount]
    BY DEF Committed
  <1> SUFFICES ASSUME NEW key \in LiquidityKeys \ d
               PROVE  /\ r[key] = Lent(ls \cup {l}, key)
                      /\ \E o \in OfferIds :
                            /\ LiquidityKey(Offer[o].lender, Offer[o].tracing_id) = key
                            /\ Lent(ls \cup {l}, key) <= Offer[o].available_liquidity
    BY DEF Booked
  <1>6. q[key] = Lent(ls, key)
    BY DEF Booked
  <1> HIDE DEF k, r
  <1>7. CASE key = k
    <2>1. LentBy(l, key) = l.amount
      BY <1>1, <1>7 DEF LentBy
    <2>2. r[key] = q[k] + l.amount
      BY <1>1, <1>5, <1>7
    <2>3. Lent(ls \cup {l}, key) = q[k] + l.amount
      <3>1. Lent(ls \cup {l}, key) = l.amount + Lent(ls, key) /\ Lent(ls, key) \in Nat
        BY <1>2, <1>4, <2>1
      <3>2. l.amount + Lent(ls, key) = Lent(ls, key) + l.amount
        BY <1>3, <3>1
      <3> QED BY <1>6, <1>7, <3>1, <3>2
    <2> QED BY <1>1, <1>7, <2>2, <2>3 DEF k
  <1>8. CASE key # k
    <2>1. LentBy(l, key) = 0
      BY <1>1, <1>8 DEF LentBy
    <2>2. r[key] = q[key]
      BY <1>5, <1>8
    <2>3. Lent(ls \cup {l}, key) = Lent(ls, key)
      BY <1>2, <1>4, <2>1
    <2> QED BY <1>6, <2>2, <2>3 DEF Booked
  <1> QED BY <1>7, <1>8

\* A loan that is repaid: the amount is part of what its key has committed.
LEMMA LoanClosed ==
  ASSUME NEW q \in [LiquidityKeys -> Nat], NEW ls, NEW d, IsFiniteSet(ls), Booked(q, ls, d),
         Amounts(ls), NEW l \in ls, KeyOf(l) \in LiquidityKeys
  PROVE  Booked(Reduced(q, l, l.amount), ls \ {l}, d)
  <1> DEFINE k == KeyOf(l)
             r == Reduced(q, l, l.amount)
             rest == ls \ {l}
  <1>1. IsFiniteSet(rest) /\ Amounts(rest) /\ \A key : Lent(ls, key) = LentBy(l, key) + Lent(rest, key)
    BY OneLess
  <1>2. l.amount \in Nat
    BY DEF Amounts
  <1> HIDE DEF rest
  <1>3. \A key : Lent(rest, key) \in Nat
    BY <1>1, LentNat
  <1>4. r = [q EXCEPT ![k] = IF l.amount > q[k] THEN 0 ELSE q[k] - l.amount]
    BY DEF Reduced, KeyOf
  <1> SUFFICES ASSUME NEW key \in LiquidityKeys \ d
               PROVE  /\ r[key] = Lent(rest, key)
                      /\ \E o \in OfferIds :
                            /\ LiquidityKey(Offer[o].lender, Offer[o].tracing_id) = key
                            /\ Lent(rest, key) <= Offer[o].available_liquidity
    BY DEF Booked, rest
  <1>5. q[key] = Lent(ls, key)
    BY DEF Booked
  <1>6. PICK o \in OfferIds : /\ LiquidityKey(Offer[o].lender, Offer[o].tracing_id) = key
                              /\ Lent(ls, key) <= Offer[o].available_liquidity
    BY DEF Booked
  <1>7. Offer[o].available_liquidity \in Nat
    BY OfferTyped DEF OfferRecord
  <1> HIDE DEF k, r
  <1>8. CASE key = k
    <2>1. LentBy(l, key) = l.amount
      BY <1>8 DEF LentBy, k
    <2>2. q[k] = l.amount + Lent(rest, key) /\ q[k] - l.amount = Lent(rest, key)
          /\ ~(l.amount > q[k]) /\ Lent(rest, key) <= Lent(ls, key)
      BY <1>1, <1>2, <1>3, <1>5, <1>8, <2>1
    <2>3. r[key] = Lent(rest, key)
      BY <1>4, <1>8, <2>2
    <2>4. Lent(rest, key) <= Offer[o].available_liquidity
      BY <1>1, <1>2, <1>3, <1>6, <1>7, <2>1
    <2> QED BY <1>6, <2>3, <2>4
  <1>9. CASE key # k
    <2>1. LentBy(l, key) = 0
      BY <1>9 DEF LentBy, k
    <2>2. r[key] = q[key]
      BY <1>4, <1>9
    <2>3. Lent(rest, key) = Lent(ls, key)
      BY <1>1, <1>3, <2>1
    <2> QED BY <1>5, <1>6, <2>2, <2>3
  <1> QED BY <1>8, <1>9

\* A loan that changes under its key, for the same amount.
LEMMA LoanMoved ==
  ASSUME NEW q, NEW ls, NEW d, IsFiniteSet(ls), Booked(q, ls, d), NEW l \in ls,
         NEW m, m \notin ls \ {l}, Amounts(ls \cup {m}), KeyOf(m) = KeyOf(l), m.amount = l.amount
  PROVE  Booked(q, (ls \ {l}) \cup {m}, d)
  <1> DEFINE rest == ls \ {l}
  <1>1. Amounts(ls) /\ Amounts(rest \cup {m})
    BY DEF Amounts
  <1>2. /\ IsFiniteSet(rest) /\ m \notin rest
        /\ \A key : Lent(ls, key) = LentBy(l, key) + Lent(rest, key)
    BY <1>1, OneLess
  <1> HIDE DEF rest
  <1>3. \A key : Lent(rest \cup {m}, key) = LentBy(m, key) + Lent(rest, key)
    BY <1>1, <1>2, OneMore
  <1>4. \A key : LentBy(m, key) = LentBy(l, key)
    BY DEF LentBy
  <1>5. \A key : Lent(rest \cup {m}, key) = Lent(ls, key)
    BY <1>2, <1>3, <1>4
  <1> QED BY <1>5 DEF Booked, rest

\* A liquidation: the loan's key is no longer counted.
LEMMA LoanDrifted ==
  ASSUME NEW q \in [LiquidityKeys -> Nat], NEW r, NEW ls, NEW d, IsFiniteSet(ls),
         Booked(q, ls, d), Amounts(ls), NEW l \in ls,
         r = q \/ \E amount : r = Reduced(q, l, amount)
  PROVE  Booked(r, ls \ {l}, d \cup {KeyOf(l)})
  <1> DEFINE k == KeyOf(l)
             rest == ls \ {l}
  <1>1. IsFiniteSet(rest) /\ Amounts(rest) /\ \A key : Lent(ls, key) = LentBy(l, key) + Lent(rest, key)
    BY OneLess
  <1> HIDE DEF rest
  <1>2. \A key : Lent(rest, key) \in Nat
    BY <1>1, LentNat
  <1>3. \A key \in LiquidityKeys \ {k} : r[key] = q[key]
    BY DEF Reduced, KeyOf
  <1>4. \A key \in LiquidityKeys \ {k} : LentBy(l, key) = 0
    BY DEF LentBy
  <1>5. ASSUME NEW key \in LiquidityKeys \ {k} PROVE Lent(rest, key) = Lent(ls, key)
    <2>1. Lent(ls, key) = 0 + Lent(rest, key) /\ Lent(rest, key) \in Nat
      BY <1>1, <1>2, <1>4
    <2> QED BY <2>1
  <1>6. LiquidityKeys \ (d \cup {k}) \subseteq (LiquidityKeys \ d) \cap (LiquidityKeys \ {k})
    OBVIOUS
  <1> HIDE DEF k
  <1>7. Booked(r, rest, d \cup {k})
    BY <1>3, <1>5, <1>6 DEF Booked
  <1> QED BY <1>7 DEF rest, k

\* A loan more under such a key.
LEMMA DriftedStored ==
  ASSUME NEW q, NEW ls, NEW d, IsFiniteSet(ls), Booked(q, ls, d),
         NEW m, m \notin ls, Amounts(ls \cup {m}), KeyOf(m) \in d
  PROVE  Booked(q, ls \cup {m}, d)
  <1>1. Amounts(ls) /\ \A key : Lent(ls \cup {m}, key) = LentBy(m, key) + Lent(ls, key)
    BY OneMore DEF Amounts
  <1>2. \A key : Lent(ls, key) \in Nat
    BY <1>1, LentNat
  <1>3. \A key \in LiquidityKeys \ d : LentBy(m, key) = 0
    BY DEF LentBy
  <1>4. ASSUME NEW key \in LiquidityKeys \ d PROVE Lent(ls \cup {m}, key) = Lent(ls, key)
    <2>1. Lent(ls \cup {m}, key) = 0 + Lent(ls, key) /\ Lent(ls, key) \in Nat
      BY <1>1, <1>2, <1>3
    <2> QED BY <2>1
  <1> QED BY <1>4 DEF Booked

-----------------------------------------------------------------------------
(* The collateral in each vault.                                           *)

Backed(vs, ls) == \A b \in Borrowers : Unclaimed(vs[b]) = Pledged(ls, b)

\* What a change of one loan's collateral must do to the vaults.
Only(b, c, amount) == IF c = b THEN amount ELSE 0

LEMMA UnclaimedInt ==
  ASSUME NEW vs, VaultsOK(vs), NEW b \in Borrowers
  PROVE  Unclaimed(vs[b]) \in Int
  BY DEF VaultsOK, VaultRecord, Unclaimed

LEMMA CreatedUnclaimed ==
  ASSUME NEW vs, VaultsOK(vs), NEW b \in Borrowers
  PROVE  \A c \in Borrowers : Unclaimed(VaultCreated(vs, b)[c]) = Unclaimed(vs[c])
  BY DEF VaultsOK, VaultRecord, VaultCreated, Unclaimed

LEMMA ReceivedUnclaimed ==
  ASSUME NEW vs, VaultsOK(vs), NEW b \in Borrowers, NEW amount \in Nat,
         DepositAllowed(vs[b], amount, b), NEW c \in Borrowers
  PROVE  Unclaimed(CollateralReceived(vs, b, amount)[c])
             = Unclaimed(vs[c]) + Only(b, c, amount)
  <1>1. vs[b] \in VaultRecord /\ vs[b].total <= vs[b].balance /\ b \in Wallets
    BY BaseAssumption DEF VaultsOK
  <1>2. Unclaimed(Deposited(vs[b], amount, b)) = Unclaimed(vs[b]) + amount
    BY <1>1, DepositSafe
  <1>3. Unclaimed(vs[c]) \in Int
    BY UnclaimedInt
  <1> QED BY <1>2, <1>3 DEF CollateralReceived, VaultsOK, Only

LEMMA SentUnclaimed ==
  ASSUME NEW vs, VaultsOK(vs), NEW b \in Borrowers, NEW amount \in Nat,
         NEW wallet \in Wallets, NEW refused, WithdrawAllowed(vs[b], amount),
         NEW c \in Borrowers
  PROVE  Unclaimed(CollateralSent(vs, b, wallet, amount, refused)[c])
             = Unclaimed(vs[c]) - Only(b, c, amount)
  <1> DEFINE r == CollateralRefused(wallet, refused)
             v == vs[b]
  <1>1. v \in VaultRecord /\ v.total <= v.balance /\ WithdrawAllowed(v, amount)
    BY DEF VaultsOK
  <1>2. r \in BOOLEAN
    BY DEF CollateralRefused
  <1> HIDE DEF r, v
  <1>3. Unclaimed(Withdrawn(v, amount, wallet, r)) = Unclaimed(v) - amount
    BY <1>1, <1>2, WithdrawSafe
  <1>4. Unclaimed(vs[c]) \in Int
    BY UnclaimedInt
  <1> QED BY <1>3, <1>4 DEF CollateralSent, VaultsOK, Only, r, v

\* A transfer that is not refused brings all of it to the new vault.
LEMMA MovedUnclaimed ==
  ASSUME VaultsOK(vaults), NEW loan, NEW new_borrower \in Borrowers, NEW refused,
         loan.borrower \in Borrowers, loan.collateral_amount \in Nat,
         new_borrower # loan.borrower,
         WithdrawAllowed(vaults[loan.borrower], loan.collateral_amount),
         ~CollateralRefused(VaultAddress[new_borrower], refused),
         NEW c \in Borrowers
  PROVE  Unclaimed(CollateralMoved(loan, new_borrower, refused)[c])
             = Unclaimed(vaults[c]) - Only(loan.borrower, c, loan.collateral_amount)
                                    + Only(new_borrower, c, loan.collateral_amount)
  <1> DEFINE created == VaultCreated(vaults, new_borrower)
             amount == loan.collateral_amount
             vault == VaultAddress[new_borrower]
             sent == CollateralSent(created, loan.borrower, vault, amount, refused)
             moved == [sent EXCEPT ![new_borrower].balance = @ + amount]
  <1>1. VaultsOK(created) /\ created[loan.borrower] = vaults[loan.borrower]
    BY VaultCreatedOK DEF VaultCreated, VaultsOK
  <1>2. vault \in Wallets
    BY VaultAddressAssumption
  <1>3. CollateralMoved(loan, new_borrower, refused) = moved
    BY DEF CollateralMoved
  <1>4. Unclaimed(created[c]) = Unclaimed(vaults[c]) /\ Unclaimed(vaults[c]) \in Int
    BY CreatedUnclaimed, UnclaimedInt
  <1> HIDE DEF created, vault
  <1>5. VaultsOK(sent)
    BY <1>1, <1>2, CollateralSentOK
  <1>6. Unclaimed(sent[c]) = Unclaimed(created[c]) - Only(loan.borrower, c, amount)
    BY <1>1, <1>2, SentUnclaimed
  <1> HIDE DEF sent, amount
  <1>7. amount \in Nat
    BY DEF amount
  <1>8. Unclaimed(moved[c]) = Unclaimed(sent[c]) + Only(new_borrower, c, amount)
    <2>1. sent \in [Borrowers -> VaultRecord]
      BY <1>5 DEF VaultsOK
    <2>2. CASE c = new_borrower
      <3>1. moved[c].balance = sent[c].balance + amount /\ moved[c].total = sent[c].total
        BY <2>1, <2>2 DEF VaultRecord
      <3>2. sent[c].balance \in Int /\ sent[c].total \in Int
        BY <2>1 DEF VaultRecord
      <3> HIDE DEF moved
      <3> QED BY <1>7, <2>2, <3>1, <3>2 DEF Unclaimed, Only
    <2>3. CASE c # new_borrower
      BY <1>5, <2>1, <2>3, UnclaimedInt DEF Only
    <2> QED BY <2>2, <2>3
  <1> QED BY <1>3, <1>4, <1>6, <1>8 DEF amount

LEMMA BackedSwapped ==
  ASSUME NEW vs, NEW ws, NEW ls, Backed(vs, ls), IdsUnique(ls), NEW l \in ls,
         NEW m, m \notin ls \ {l}, Amounts(ls \cup {m}),
         \A b \in Borrowers : Unclaimed(ws[b]) = Unclaimed(vs[b]) - PledgedBy(l, b) + PledgedBy(m, b)
  PROVE  Backed(ws, (ls \ {l}) \cup {m})
  <1>1. IsFiniteSet(ls)
    BY DEF IdsUnique
  <1> SUFFICES ASSUME NEW b \in Borrowers
               PROVE  Unclaimed(ws[b]) = Pledged((ls \ {l}) \cup {m}, b)
    BY DEF Backed
  <1>2. Pledged((ls \ {l}) \cup {m}, b) = Pledged(ls, b) - PledgedBy(l, b) + PledgedBy(m, b)
    BY <1>1, OneSwapped
  <1>3. Unclaimed(ws[b]) = Unclaimed(vs[b]) - PledgedBy(l, b) + PledgedBy(m, b)
    OBVIOUS
  <1>4. Unclaimed(vs[b]) = Pledged(ls, b)
    BY DEF Backed
  <1> QED BY <1>2, <1>3, <1>4

LEMMA BackedAdded ==
  ASSUME NEW vs, NEW ws, NEW ls, Backed(vs, ls), IdsUnique(ls), NEW m, m \notin ls,
         Amounts(ls \cup {m}),
         \A b \in Borrowers : Unclaimed(ws[b]) = Unclaimed(vs[b]) + PledgedBy(m, b)
  PROVE  Backed(ws, ls \cup {m})
  <1>1. Amounts(ls) /\ m.collateral_amount \in Nat /\ IsFiniteSet(ls)
    BY DEF Amounts, IdsUnique
  <1> SUFFICES ASSUME NEW b \in Borrowers PROVE Unclaimed(ws[b]) = Pledged(ls \cup {m}, b)
    BY DEF Backed
  <1>2. Pledged(ls, b) \in Nat /\ PledgedBy(m, b) \in Nat
    BY <1>1, PledgedNat DEF PledgedBy
  <1>3. Pledged(ls \cup {m}, b) = PledgedBy(m, b) + Pledged(ls, b)
    BY <1>1, OneMore
  <1>4. Unclaimed(ws[b]) = Unclaimed(vs[b]) + PledgedBy(m, b)
    OBVIOUS
  <1>5. Unclaimed(vs[b]) = Pledged(ls, b)
    BY DEF Backed
  <1> QED BY <1>2, <1>3, <1>4, <1>5

LEMMA BackedDropped ==
  ASSUME NEW vs, NEW ws, NEW ls, Backed(vs, ls), IdsUnique(ls), Amounts(ls), NEW l \in ls,
         \A b \in Borrowers : Unclaimed(ws[b]) = Unclaimed(vs[b]) - PledgedBy(l, b)
  PROVE  Backed(ws, ls \ {l})
  <1> DEFINE rest == ls \ {l}
  <1>1. /\ IsFiniteSet(rest) /\ Amounts(rest) /\ l.collateral_amount \in Nat
        /\ \A b : Pledged(ls, b) = PledgedBy(l, b) + Pledged(rest, b)
    BY OneLess DEF Amounts, IdsUnique
  <1> HIDE DEF rest
  <1> SUFFICES ASSUME NEW b \in Borrowers PROVE Unclaimed(ws[b]) = Pledged(rest, b)
    BY DEF Backed, rest
  <1>2. Pledged(rest, b) \in Nat /\ PledgedBy(l, b) \in Nat
    BY <1>1, PledgedNat DEF PledgedBy
  <1>3. Unclaimed(ws[b]) = Unclaimed(vs[b]) - PledgedBy(l, b)
    OBVIOUS
  <1>4. Unclaimed(vs[b]) = PledgedBy(l, b) + Pledged(rest, b)
    BY <1>1 DEF Backed
  <1> QED BY <1>2, <1>3, <1>4

-----------------------------------------------------------------------------
(* Every operation keeps the books.                                        *)

Counted == Booked(commited_liquidity, loans, drifted)
Covered == Backed(vaults, loans)

BooksKept ==
    /\ IdsUnique(loans')
    /\ Counted => Counted'
    /\ Covered => Covered'

\* What the books need of the two invariants.
LEMMA BookTyped ==
  ASSUME Inv, Inv', IdsUnique(loans)
  PROVE  /\ IsFiniteSet(loans) /\ Amounts(loans) /\ Amounts(loans')
         /\ \A m \in loans' : Amounts(loans \cup {m})
         /\ VaultsOK(vaults) /\ commited_liquidity \in [LiquidityKeys -> Nat]
  <1>1. IsFiniteSet(loans)
    BY DEF IdsUnique
  <1>2. Amounts(loans)
    BY AmountsNat
  <1>3. Amounts(loans')
    <2>1. \A l \in loans' : SoundLoan(l, now')
      BY DEF Inv, LoansOK
    <2> QED BY <2>1 DEF Amounts, SoundLoan, LoanRecord
  <1>4. \A m \in loans' : Amounts(loans \cup {m})
    BY <1>2, <1>3 DEF Amounts
  <1> QED BY <1>1, <1>2, <1>4, <1>3 DEF Inv

LEMMA CreateLoanBooks ==
  ASSUME Inv, Inv', IdsUnique(loans), NEW tx \in Txs, NEW id \in OfferIds,
         NEW principal \in Principals, NEW collateral \in CollateralAmounts,
         CreateLoan(tx, id, principal, collateral)
  PROVE  BooksKept
  <1> DEFINE borrower == Actor(tx)
             offer == Offer[id]
             new == NewLoan(id, borrower, principal, collateral, AgreedUntil(offer))
             created == VaultCreated(vaults, borrower)
  <1>1. /\ principal \in Nat /\ collateral \in Nat /\ borrower \in Borrowers
        /\ ~Exists(new) /\ OfferUsable(commited_liquidity, id, principal)
        /\ DepositAllowed(created[borrower], collateral, borrower)
        /\ loans' = Stored(loans, new)
        /\ commited_liquidity' = Committed(commited_liquidity, id, principal)
        /\ vaults' = CollateralReceived(created, borrower, collateral)
        /\ drifted' = drifted
    BY BaseAssumption DEF CreateLoan
  <1>2. /\ new.amount = principal /\ new.collateral_amount = collateral
        /\ new.borrower = borrower /\ new.lender = Offer[id].lender
        /\ new.offer_tracing_id = Offer[id].tracing_id
    BY DEF NewLoan
  <1> HIDE DEF new, borrower
  <1>3. loans' = loans \cup {new} /\ new \notin loans /\ IdsUnique(loans')
    <2>1. \A l \in loans : LoanId(l) # LoanId(new)
      BY <1>1 DEF Exists
    <2>2. /\ Stored(loans, new) = loans \cup {new} /\ new \notin loans
          /\ IdsUnique(loans \cup {new})
      BY <2>1, StoredNew
    <2> QED BY <1>1, <2>2
  <1>4. Amounts(loans \cup {new})
    BY <1>3, BookTyped
  <1>5. Counted => Counted'
    <2>1. IsFiniteSet(loans) /\ commited_liquidity \in [LiquidityKeys -> Nat]
      BY BookTyped
    <2>2. OfferUsable(commited_liquidity, id, new.amount)
      BY <1>1, <1>2
    <2>3. Counted => Booked(Committed(commited_liquidity, id, new.amount), loans \cup {new}, drifted)
      BY <1>2, <1>3, <1>4, <2>1, <2>2, LoanBooked DEF Counted
    <2> QED BY <1>1, <1>2, <1>3, <2>3 DEF Counted
  <1>6. ASSUME NEW b \in Borrowers
        PROVE  Unclaimed(vaults'[b]) = Unclaimed(vaults[b]) + PledgedBy(new, b)
    <2>1. VaultsOK(created) /\ Unclaimed(created[b]) = Unclaimed(vaults[b])
      BY <1>1, BookTyped, VaultCreatedOK, CreatedUnclaimed
    <2> HIDE DEF created
    <2>2. Unclaimed(vaults'[b]) = Unclaimed(created[b]) + Only(borrower, b, collateral)
      BY <1>1, <2>1, ReceivedUnclaimed
    <2> QED BY <1>2, <2>1, <2>2 DEF Only, PledgedBy
  <1>7. Covered => Covered'
    BY <1>3, <1>4, <1>6, BackedAdded DEF Covered
  <1> QED BY <1>3, <1>5, <1>7 DEF BooksKept

LEMMA SettleLoanBooks ==
  ASSUME Inv, Inv', IdsUnique(loans), NEW tx \in Txs, NEW loan \in loans, NEW refused,
         SettleLoan(tx, loan, refused)
  PROVE  BooksKept
  <1>1. /\ loans' = loans \ {loan}
        /\ commited_liquidity' = Reduced(commited_liquidity, loan, loan.amount)
        /\ vaults' = CollateralSent(vaults, loan.borrower, loan.borrower,
                                    loan.collateral_amount, refused)
        /\ WithdrawAllowed(vaults[loan.borrower], loan.collateral_amount)
        /\ drifted' = drifted
    BY DEF SettleLoan, SettlementPossible
  <1>2. IdsUnique(loans')
    BY <1>1, DroppedUnique
  <1>3. Counted => Counted'
    BY <1>1, BookTyped, LoanClosed, LoanParties DEF Counted, KeyOf
  <1>4. ASSUME NEW b \in Borrowers
        PROVE  Unclaimed(vaults'[b]) = Unclaimed(vaults[b]) - PledgedBy(loan, b)
    <2>1. Unclaimed(vaults'[b])
            = Unclaimed(vaults[b]) - Only(loan.borrower, b, loan.collateral_amount)
      BY <1>1, BookTyped, LoanParties, SentUnclaimed
    <2> QED BY <2>1 DEF Only, PledgedBy
  <1>5. Covered => Covered'
    BY <1>1, <1>4, BookTyped, BackedDropped DEF Covered
  <1> QED BY <1>2, <1>3, <1>5 DEF BooksKept

\* A change of a live loan that keeps its id, its key and its amount.
LEMMA LoanChangedBooks ==
  ASSUME Inv, Inv', IdsUnique(loans), NEW loan \in loans, NEW m,
         LoanId(m) = LoanId(loan), KeyOf(m) = KeyOf(loan), m.amount = loan.amount,
         loans' = Stored(loans, m),
         UNCHANGED <<commited_liquidity, drifted>>,
         \A b \in Borrowers :
            Unclaimed(vaults'[b]) = Unclaimed(vaults[b]) - PledgedBy(loan, b) + PledgedBy(m, b)
  PROVE  BooksKept
  <1>1. /\ loans' = (loans \ {loan}) \cup {m} /\ m \notin loans \ {loan}
        /\ IdsUnique(loans')
    <2>1. /\ Stored(loans, m) = (loans \ {loan}) \cup {m} /\ m \notin loans \ {loan}
          /\ IdsUnique((loans \ {loan}) \cup {m})
      BY StoredSame
    <2> QED BY <2>1
  <1>2. Amounts(loans \cup {m})
    BY <1>1, BookTyped
  <1>3. Counted => Counted'
    BY <1>1, <1>2, BookTyped, LoanMoved DEF Counted
  <1>4. Covered => Covered'
    BY <1>1, <1>2, BackedSwapped DEF Covered
  <1> QED BY <1>1, <1>3, <1>4 DEF BooksKept

LEMMA CallLoanBooks ==
  ASSUME Inv, Inv', IdsUnique(loans), NEW tx \in Txs, NEW loan \in loans, CallLoan(tx, loan)
  PROVE  BooksKept
  <1> DEFINE m == [loan EXCEPT !.call_time = now]
  <1>1. loans' = Stored(loans, m) /\ UNCHANGED <<commited_liquidity, drifted, vaults>>
    BY DEF CallLoan, assets
  <1>2. /\ LoanId(m) = LoanId(loan) /\ KeyOf(m) = KeyOf(loan) /\ m.amount = loan.amount
        /\ m.borrower = loan.borrower /\ m.collateral_amount = loan.collateral_amount
    BY DEF LoanId, KeyOf
  <1> HIDE DEF m
  <1>3. ASSUME NEW b \in Borrowers
        PROVE  Unclaimed(vaults'[b]) = Unclaimed(vaults[b]) - PledgedBy(loan, b) + PledgedBy(m, b)
    <2>1. PledgedBy(m, b) = PledgedBy(loan, b) /\ PledgedBy(loan, b) \in Nat
      BY <1>2, LoanParties DEF PledgedBy
    <2>2. Unclaimed(vaults[b]) \in Int
      BY UnclaimedInt DEF Inv
    <2> QED BY <1>1, <2>1, <2>2
  <1> QED BY <1>1, <1>2, <1>3, LoanChangedBooks

LEMMA AddCollateralBooks ==
  ASSUME Inv, Inv', IdsUnique(loans), NEW tx \in Txs, NEW loan \in loans,
         NEW amount \in CollateralSteps, AddCollateral(tx, loan, amount)
  PROVE  BooksKept
  <1> DEFINE more == loan.collateral_amount + amount
             m == [loan EXCEPT !.collateral_amount = more]
  <1>1. /\ loans' = Stored(loans, m) /\ UNCHANGED <<commited_liquidity, drifted>>
        /\ vaults' = CollateralReceived(vaults, loan.borrower, amount)
        /\ DepositAllowed(vaults[loan.borrower], amount, loan.borrower)
        /\ amount \in Nat
    BY BaseAssumption DEF AddCollateral
  <1>2. LoanId(m) = LoanId(loan) /\ KeyOf(m) = KeyOf(loan) /\ m.amount = loan.amount
    BY DEF LoanId, KeyOf
  <1>3. m.borrower = loan.borrower /\ m.collateral_amount = more
    BY LoanParties DEF SoundLoan, LoanRecord
  <1> HIDE DEF m
  <1>4. ASSUME NEW b \in Borrowers
        PROVE  Unclaimed(vaults'[b]) = Unclaimed(vaults[b]) - PledgedBy(loan, b) + PledgedBy(m, b)
    <2>1. Unclaimed(vaults'[b]) = Unclaimed(vaults[b]) + Only(loan.borrower, b, amount)
      BY <1>1, BookTyped, LoanParties, ReceivedUnclaimed
    <2>2. Unclaimed(vaults[b]) \in Int /\ loan.collateral_amount \in Nat
      BY UnclaimedInt, LoanParties DEF Inv
    <2> QED BY <1>1, <1>3, <2>1, <2>2 DEF Only, PledgedBy
  <1> QED BY <1>1, <1>2, <1>4, LoanChangedBooks

LEMMA RemoveCollateralBooks ==
  ASSUME Inv, Inv', IdsUnique(loans), NEW tx \in Txs, NEW loan \in loans,
         NEW amount \in CollateralSteps, NEW refused, RemoveCollateral(tx, loan, amount, refused)
  PROVE  BooksKept
  <1> DEFINE left == loan.collateral_amount - amount
             m == [loan EXCEPT !.collateral_amount = left]
  <1>1. /\ loans' = Stored(loans, m) /\ UNCHANGED <<commited_liquidity, drifted>>
        /\ vaults' = CollateralSent(vaults, loan.borrower, loan.borrower, amount, refused)
        /\ WithdrawAllowed(vaults[loan.borrower], amount)
        /\ amount \in Nat
    BY BaseAssumption DEF RemoveCollateral
  <1>2. LoanId(m) = LoanId(loan) /\ KeyOf(m) = KeyOf(loan) /\ m.amount = loan.amount
    BY DEF LoanId, KeyOf
  <1>3. m.borrower = loan.borrower /\ m.collateral_amount = left
    BY LoanParties DEF SoundLoan, LoanRecord
  <1> HIDE DEF m
  <1>4. ASSUME NEW b \in Borrowers
        PROVE  Unclaimed(vaults'[b]) = Unclaimed(vaults[b]) - PledgedBy(loan, b) + PledgedBy(m, b)
    <2>1. Unclaimed(vaults'[b]) = Unclaimed(vaults[b]) - Only(loan.borrower, b, amount)
      BY <1>1, BookTyped, LoanParties, SentUnclaimed
    <2>2. Unclaimed(vaults[b]) \in Int /\ loan.collateral_amount \in Nat
      BY UnclaimedInt, LoanParties DEF Inv
    <2> QED BY <1>1, <1>3, <2>1, <2>2 DEF Only, PledgedBy
  <1> QED BY <1>1, <1>2, <1>4, LoanChangedBooks

LEMMA TransferLoanBooks ==
  ASSUME Inv, Inv', IdsUnique(loans), NEW tx \in Txs, NEW loan \in loans,
         NEW new_borrower \in Borrowers, NEW refused, TransferLoan(tx, loan, new_borrower, refused)
  PROVE  /\ IdsUnique(loans')
         /\ ~Exists([loan EXCEPT !.borrower = new_borrower]) => (Counted => Counted')
         /\ ~Exists([loan EXCEPT !.borrower = new_borrower])
              /\ ~CollateralRefused(VaultAddress[new_borrower], refused) => (Covered => Covered')
  <1> DEFINE m == [loan EXCEPT !.borrower = new_borrower]
             stored == Stored(loans, m)
  <1>1. /\ loans' = stored \ {loan}
        /\ vaults' = CollateralMoved(loan, new_borrower, refused)
        /\ new_borrower # loan.borrower
        /\ WithdrawAllowed(vaults[loan.borrower], loan.collateral_amount)
        /\ UNCHANGED <<commited_liquidity, drifted>>
    BY DEF TransferLoan
  <1>2. /\ KeyOf(m) = KeyOf(loan) /\ m.amount = loan.amount
        /\ m.collateral_amount = loan.collateral_amount
    BY DEF KeyOf
  <1>3. m.borrower = new_borrower /\ m # loan
    BY <1>1, LoanParties DEF SoundLoan, LoanRecord
  <1> HIDE DEF m
  <1>4. IdsUnique(loans')
    <2>1. IsFiniteSet(loans)
      BY DEF IdsUnique
    <2>2. IsFiniteSet(loans \cup {m})
      BY <2>1, FS_AddElement
    <2>3. loans' \subseteq loans \cup {m}
      BY <1>1, StoredIn
    <2>4. IsFiniteSet(loans')
      BY <2>2, <2>3, FS_Subset
    <2>5. \A l, n \in stored : LoanId(l) = LoanId(n) => l = n
      BY DEF IdsUnique, Stored
    <2> QED BY <1>1, <2>4, <2>5 DEF IdsUnique
  <1>5. ASSUME ~Exists(m)
        PROVE  /\ loans' = (loans \ {loan}) \cup {m} /\ m \notin loans \ {loan}
               /\ Amounts(loans \cup {m})
    <2>1. \A l \in loans : LoanId(l) # LoanId(m)
      BY <1>5 DEF Exists
    <2>2. stored = loans \cup {m} /\ m \notin loans
      BY <2>1, StoredNew
    <2>3. loans' = (loans \ {loan}) \cup {m}
      BY <1>1, <1>3, <2>2
    <2> QED BY <2>2, <2>3, BookTyped
  <1>6. ASSUME ~Exists(m) PROVE Counted => Counted'
    BY <1>1, <1>2, <1>5, <1>6, BookTyped, LoanMoved DEF Counted
  <1>7. ASSUME ~Exists(m), ~CollateralRefused(VaultAddress[new_borrower], refused)
        PROVE  Covered => Covered'
    <2>1. ASSUME NEW b \in Borrowers
          PROVE  Unclaimed(vaults'[b])
                     = Unclaimed(vaults[b]) - PledgedBy(loan, b) + PledgedBy(m, b)
      <3>1. Unclaimed(vaults'[b])
              = Unclaimed(vaults[b]) - Only(loan.borrower, b, loan.collateral_amount)
                                     + Only(new_borrower, b, loan.collateral_amount)
        BY <1>1, <1>7, BookTyped, LoanParties, MovedUnclaimed
      <3> QED BY <1>2, <1>3, <3>1 DEF Only, PledgedBy
    <2> QED BY <1>5, <1>7, <2>1, BackedSwapped DEF Covered
  <1> QED BY <1>4, <1>6, <1>7 DEF m

LEMMA PartiallyLiquidateLoanBooks ==
  ASSUME Inv, Inv', IdsUnique(loans), NEW tx \in Txs, NEW loan \in loans, NEW refused,
         PartiallyLiquidateLoan(tx, loan, refused)
  PROVE  BooksKept
  <1> DEFINE healing == HealingLiquidation(loan)
             taken == healing.claimed + healing.fee
             liquidator == Actor(tx)
             left == loan.collateral_amount - taken
             amount == OutstandingDebt(loan) - healing.written_off
             m == [loan EXCEPT !.amount = amount, !.accrual_start_time = now,
                               !.collateral_amount = left]
             rest == loans \ {loan}
  <1>1. /\ OracleAnswers /\ LtvReached(loan) /\ OutstandingDebt(loan) <= MaxUint256
        /\ healing.written_off < OutstandingDebt(loan)
        /\ loans' = Stored(loans, m)
        /\ vaults' = CollateralSent(vaults, loan.borrower, liquidator, taken, refused)
        /\ WithdrawAllowed(vaults[loan.borrower], taken)
        /\ \/ commited_liquidity' = commited_liquidity
           \/ commited_liquidity' = Reduced(commited_liquidity, loan, healing.written_off)
        /\ drifted' = drifted \cup {KeyOf(loan)}
    BY DEF PartiallyLiquidateLoan, Drifts, KeyOf
  <1>2. taken \in Nat
    <2>1. healing.claimed \in Nat /\ healing.fee \in Nat
      BY <1>1, HealingSafe
    <2> HIDE DEF healing
    <2> QED BY <2>1
  <1>3. liquidator \in Wallets
    BY ActorTyped
  <1> HIDE DEF taken, healing, amount, liquidator
  <1>4. LoanId(m) = LoanId(loan) /\ KeyOf(m) = KeyOf(loan)
    BY DEF LoanId, KeyOf
  <1>5. m.borrower = loan.borrower /\ m.collateral_amount = left
    BY LoanParties DEF SoundLoan, LoanRecord
  <1> HIDE DEF m
  <1>6. loans' = rest \cup {m} /\ m \notin rest /\ IdsUnique(loans')
    <2>1. Stored(loans, m) = rest \cup {m} /\ m \notin rest /\ IdsUnique(rest \cup {m})
      BY <1>4, StoredSame
    <2> QED BY <1>1, <2>1
  <1>7. Amounts(loans \cup {m}) /\ Amounts(rest \cup {m}) /\ IsFiniteSet(rest)
    BY <1>6, BookTyped, DroppedUnique
  <1>8. Counted => Counted'
    <2>1. Counted => Booked(commited_liquidity', rest, drifted')
      BY <1>1, BookTyped, LoanDrifted DEF Counted
    <2>2. KeyOf(m) \in drifted'
      BY <1>1, <1>4
    <2> HIDE DEF rest
    <2>3. Booked(commited_liquidity', rest, drifted')
            => Booked(commited_liquidity', rest \cup {m}, drifted')
      BY <1>6, <1>7, <2>2, DriftedStored
    <2> QED BY <1>6, <2>1, <2>3 DEF Counted
  <1>9. ASSUME NEW b \in Borrowers
        PROVE  Unclaimed(vaults'[b]) = Unclaimed(vaults[b]) - PledgedBy(loan, b) + PledgedBy(m, b)
    <2>1. Unclaimed(vaults'[b]) = Unclaimed(vaults[b]) - Only(loan.borrower, b, taken)
      BY <1>1, <1>2, <1>3, BookTyped, LoanParties, SentUnclaimed
    <2>2. Unclaimed(vaults[b]) \in Int /\ loan.collateral_amount \in Nat
      BY UnclaimedInt, LoanParties DEF Inv
    <2> QED BY <1>2, <1>5, <2>1, <2>2 DEF Only, PledgedBy
  <1>10. Covered => Covered'
    BY <1>6, <1>7, <1>9, BackedSwapped DEF Covered
  <1> QED BY <1>6, <1>8, <1>10 DEF BooksKept

\* The liquidator and the borrower share all of the collateral.
LEMMA LiquidateLoanBooks ==
  ASSUME Inv, Inv', IdsUnique(loans), NEW tx \in Txs, NEW loan \in loans, NEW refused,
         LiquidateLoan(tx, loan, refused)
  PROVE  BooksKept
  <1> DEFINE liquidator == Actor(tx)
             split == LoanSplit(loan)
             taken == ToLiquidator(loan, split)
             rest == ToBorrower(split)
             first == LiquidatorSent(liquidator, loan, refused)
  <1>1. /\ OracleAnswers
        /\ WithdrawAllowed(vaults[loan.borrower], taken)
        /\ WithdrawAllowed(first[loan.borrower], rest)
        /\ loans' = loans \ {loan}
        /\ vaults' = CollateralSent(first, loan.borrower, loan.borrower, rest, refused)
        /\ commited_liquidity' = commited_liquidity
             \/ \E price : commited_liquidity' = Reduced(commited_liquidity, loan, price)
        /\ drifted' = drifted \cup {KeyOf(loan)}
    BY DEF LiquidateLoan, LiquidationPossible, Drifts, KeyOf
  <1>2. first = CollateralSent(vaults, loan.borrower, liquidator, taken, refused)
    BY DEF LiquidatorSent
  <1>4. liquidator \in Wallets
    BY ActorTyped
  <1>6. taken \in Nat /\ rest \in Nat /\ taken + rest = loan.collateral_amount
    BY <1>1, LoanSplitSafe
  <1> HIDE DEF taken, rest, first, liquidator
  <1>7. ASSUME NEW b \in Borrowers
        PROVE  Unclaimed(vaults'[b]) = Unclaimed(vaults[b]) - PledgedBy(loan, b)
    <2>1. VaultsOK(first)
      BY <1>1, <1>2, <1>4, <1>6, BookTyped, LoanParties, CollateralSentOK
    <2>2. Unclaimed(first[b]) = Unclaimed(vaults[b]) - Only(loan.borrower, b, taken)
      BY <1>1, <1>2, <1>4, <1>6, BookTyped, LoanParties, SentUnclaimed
    <2>3. Unclaimed(vaults'[b]) = Unclaimed(first[b]) - Only(loan.borrower, b, rest)
      BY <1>1, <1>6, <2>1, LoanParties, SentUnclaimed
    <2>4. Unclaimed(vaults[b]) \in Int
      BY UnclaimedInt DEF Inv
    <2> QED BY <1>6, <2>2, <2>3, <2>4 DEF Only, PledgedBy
  <1>8. Covered => Covered'
    BY <1>1, <1>7, BookTyped, BackedDropped DEF Covered
  <1>9. Counted => Counted'
    BY <1>1, BookTyped, LoanDrifted DEF Counted
  <1>10. IdsUnique(loans')
    BY <1>1, DroppedUnique
  <1> QED BY <1>8, <1>9, <1>10 DEF BooksKept

\* What both refinancings do to the book: the old loan's principal is given
\* back before the new one is committed.
LEMMA ReplacedBooks ==
  ASSUME Inv, Inv', IdsUnique(loans), NEW loan \in loans, NEW id \in OfferIds,
         NEW principal \in Nat, NEW m, m.amount = principal, m.lender = Offer[id].lender,
         m.offer_tracing_id = Offer[id].tracing_id, OfferTaken(loan, m, id, principal),
         loans' = Replaced(loan, m),
         commited_liquidity' = ReplacedLiquidity(loan, id, principal), drifted' = drifted
  PROVE  /\ IdsUnique(loans')
         /\ loans' = (loans \ {loan}) \cup {m} /\ m \notin loans \ {loan}
         /\ Amounts(loans \cup {m})
         /\ Counted => Counted'
  <1> DEFINE rest == loans \ {loan}
             given_back == Reduced(commited_liquidity, loan, loan.amount)
  <1>1. IdsUnique(rest) /\ IsFiniteSet(rest) /\ \A l \in rest : LoanId(l) # LoanId(m)
    BY DroppedUnique DEF OfferTaken, Exists
  <1>2. loans' = rest \cup {m} /\ m \notin rest /\ IdsUnique(loans')
    <2> HIDE DEF rest
    <2>1. Stored(rest, m) = rest \cup {m} /\ m \notin rest /\ IdsUnique(rest \cup {m})
      BY <1>1, StoredNew
    <2>2. loans' = Stored(rest, m)
      BY DEF Replaced, rest
    <2> QED BY <2>1, <2>2
  <1>3. Amounts(loans \cup {m}) /\ Amounts(rest \cup {m})
    BY <1>2, BookTyped
  <1>4. ASSUME Counted PROVE Counted'
    <2>1. Booked(given_back, rest, drifted)
      BY <1>4, BookTyped, LoanClosed, LoanParties DEF Counted, KeyOf
    <2>2. given_back \in [LiquidityKeys -> Nat]
      BY BookTyped, LoanParties, ReducedTyped
    <2>3. OfferUsable(given_back, id, m.amount)
      BY DEF OfferTaken
    <2>4. commited_liquidity' = Committed(given_back, id, m.amount)
      BY DEF ReplacedLiquidity
    <2> HIDE DEF given_back, rest
    <2>5. Booked(Committed(given_back, id, m.amount), rest \cup {m}, drifted)
      BY <1>1, <1>2, <1>3, <2>1, <2>2, <2>3, LoanBooked
    <2> QED BY <1>2, <2>4, <2>5 DEF Counted
  <1> QED BY <1>2, <1>3, <1>4

LEMMA AdjustedUnclaimed ==
  ASSUME Inv, NEW loan \in loans, NEW collateral \in Nat, NEW refused,
         AdjustmentAllowed(loan, collateral), NEW b \in Borrowers
  PROVE  Unclaimed(CollateralAdjusted(loan, collateral, refused)[b])
             = Unclaimed(vaults[b]) + Only(loan.borrower, b, collateral - loan.collateral_amount)
  <1> DEFINE delta == collateral - loan.collateral_amount
             borrower == loan.borrower
  <1>1. /\ delta \in Int /\ VaultsOK(vaults) /\ borrower \in Borrowers /\ borrower \in Wallets
        /\ Unclaimed(vaults[b]) \in Int
    BY LoanParties, UnclaimedInt DEF Inv
  <1>2. /\ delta > 0 => DepositAllowed(vaults[borrower], delta, borrower)
        /\ delta < 0 => WithdrawAllowed(vaults[borrower], -delta)
    BY DEF AdjustmentAllowed
  <1>3. CollateralAdjusted(loan, collateral, refused) =
          IF delta > 0 THEN CollateralReceived(vaults, borrower, delta)
          ELSE IF delta < 0
          THEN CollateralSent(vaults, borrower, borrower, -delta, refused)
          ELSE vaults
    BY DEF CollateralAdjusted
  <1> HIDE DEF delta, borrower
  <1>4. CASE delta > 0
    <2>1. Unclaimed(CollateralReceived(vaults, borrower, delta)[b])
            = Unclaimed(vaults[b]) + Only(borrower, b, delta)
      BY <1>1, <1>2, <1>4, ReceivedUnclaimed
    <2> QED BY <1>3, <1>4, <2>1 DEF delta, borrower
  <1>5. CASE delta < 0
    <2>1. -delta \in Nat /\ ~(delta > 0)
      BY <1>1, <1>5
    <2>2. Unclaimed(CollateralSent(vaults, borrower, borrower, -delta, refused)[b])
            = Unclaimed(vaults[b]) - Only(borrower, b, -delta)
      BY <1>1, <1>2, <1>5, <2>1, SentUnclaimed
    <2>3. Unclaimed(vaults[b]) - Only(borrower, b, -delta)
            = Unclaimed(vaults[b]) + Only(borrower, b, delta)
      BY <1>1 DEF Only
    <2> QED BY <1>3, <1>5, <2>1, <2>2, <2>3 DEF delta, borrower
  <1>6. CASE delta = 0
    <2>1. CollateralAdjusted(loan, collateral, refused) = vaults
      BY <1>3, <1>6
    <2> QED BY <1>1, <1>6, <2>1 DEF Only, delta
  <1> QED BY <1>1, <1>4, <1>5, <1>6

LEMMA ReplaceLoanBooks ==
  ASSUME Inv, Inv', IdsUnique(loans), NEW tx \in Txs, NEW loan \in loans, NEW id \in OfferIds,
         NEW principal \in Principals \cup {0}, NEW collateral \in CollateralAmounts,
         NEW refused, ReplaceLoan(tx, loan, id, principal, collateral, refused)
  PROVE  BooksKept
  <1> DEFINE new_principal == NewPrincipal(loan, principal)
             m == NewLoan(id, loan.borrower, new_principal, collateral, AgreedUntil(Offer[id]))
  <1>1. new_principal \in Nat /\ collateral \in Nat
    BY NewTerms, BaseAssumption
  <1>2. /\ OfferTaken(loan, m, id, new_principal) /\ AdjustmentAllowed(loan, collateral)
        /\ loans' = Replaced(loan, m)
        /\ commited_liquidity' = ReplacedLiquidity(loan, id, new_principal)
        /\ vaults' = CollateralAdjusted(loan, collateral, refused)
        /\ drifted' = drifted
    BY DEF ReplaceLoan
  <1>3. /\ m.amount = new_principal /\ m.lender = Offer[id].lender
        /\ m.offer_tracing_id = Offer[id].tracing_id
        /\ m.borrower = loan.borrower /\ m.collateral_amount = collateral
    BY DEF NewLoan
  <1> HIDE DEF m, new_principal
  <1>4. /\ IdsUnique(loans') /\ loans' = (loans \ {loan}) \cup {m} /\ m \notin loans \ {loan}
        /\ Amounts(loans \cup {m}) /\ (Counted => Counted')
    BY <1>1, <1>2, <1>3, ReplacedBooks
  <1>5. ASSUME NEW b \in Borrowers
        PROVE  Unclaimed(vaults'[b]) = Unclaimed(vaults[b]) - PledgedBy(loan, b) + PledgedBy(m, b)
    <2>1. Unclaimed(vaults'[b])
            = Unclaimed(vaults[b]) + Only(loan.borrower, b, collateral - loan.collateral_amount)
      BY <1>1, <1>2, AdjustedUnclaimed
    <2>2. Unclaimed(vaults[b]) \in Int /\ loan.collateral_amount \in Nat
      BY UnclaimedInt, LoanParties DEF Inv
    <2> QED BY <1>1, <1>3, <2>1, <2>2 DEF Only, PledgedBy
  <1>6. Covered => Covered'
    BY <1>4, <1>5, BackedSwapped DEF Covered
  <1> QED BY <1>4, <1>6 DEF BooksKept

LEMMA ReplaceLoanLenderBooks ==
  ASSUME Inv, Inv', IdsUnique(loans), NEW tx \in Txs, NEW loan \in loans, NEW id \in OfferIds,
         NEW principal \in Principals \cup {0}, NEW refused,
         ReplaceLoanLender(tx, loan, id, principal, refused)
  PROVE  BooksKept
  <1> DEFINE new_principal == NewPrincipal(loan, principal)
             m == NewLoan(id, loan.borrower, new_principal, loan.collateral_amount,
                          loan.agreed_until)
  <1>1. new_principal \in Nat
    BY NewTerms, BaseAssumption
  <1>2. /\ OfferTaken(loan, m, id, new_principal)
        /\ loans' = Replaced(loan, m)
        /\ commited_liquidity' = ReplacedLiquidity(loan, id, new_principal)
        /\ vaults' = vaults /\ drifted' = drifted
    BY DEF ReplaceLoanLender
  <1>3. /\ m.amount = new_principal /\ m.lender = Offer[id].lender
        /\ m.offer_tracing_id = Offer[id].tracing_id
        /\ m.borrower = loan.borrower /\ m.collateral_amount = loan.collateral_amount
    BY DEF NewLoan
  <1> HIDE DEF m, new_principal
  <1>4. /\ IdsUnique(loans') /\ loans' = (loans \ {loan}) \cup {m} /\ m \notin loans \ {loan}
        /\ Amounts(loans \cup {m}) /\ (Counted => Counted')
    BY <1>1, <1>2, <1>3, ReplacedBooks
  <1>5. ASSUME NEW b \in Borrowers
        PROVE  Unclaimed(vaults'[b]) = Unclaimed(vaults[b]) - PledgedBy(loan, b) + PledgedBy(m, b)
    <2>1. PledgedBy(m, b) = PledgedBy(loan, b) /\ PledgedBy(loan, b) \in Nat
      BY <1>3, LoanParties DEF PledgedBy
    <2>2. Unclaimed(vaults[b]) \in Int
      BY UnclaimedInt DEF Inv
    <2> QED BY <1>2, <2>1, <2>2
  <1>6. Covered => Covered'
    BY <1>4, <1>5, BackedSwapped DEF Covered
  <1> QED BY <1>4, <1>6 DEF BooksKept

\* What is left changes no loan, and no vault but by the vault's own calls.
LEMMA WithdrawPendingBooks ==
  ASSUME Inv, NEW borrower \in Borrowers, NEW wallet \in Wallets,
         WithdrawPendingCollateral(borrower, wallet), NEW b \in Borrowers
  PROVE  Unclaimed(vaults'[b]) = Unclaimed(vaults[b])
  <1> DEFINE v == vaults[borrower]
  <1>1. v \in VaultRecord /\ v.total <= v.balance /\ v.pending[wallet] \in Nat
    BY DEF Inv, VaultsOK, VaultRecord
  <1>2. PICK amount \in CollateralSteps \cup {v.pending[wallet]} :
          /\ WithdrawPendingAllowed(v, amount, wallet)
          /\ vaults' = [vaults EXCEPT ![borrower] = PendingWithdrawn(v, amount, wallet)]
    BY DEF WithdrawPendingCollateral
  <1>3. amount \in Nat
    BY <1>1, BaseAssumption
  <1> HIDE DEF v
  <1>4. Unclaimed(PendingWithdrawn(v, amount, wallet)) = Unclaimed(v)
    BY <1>1, <1>2, <1>3, WithdrawPendingSafe
  <1> QED BY <1>2, <1>4 DEF v, Inv, VaultsOK

LEMMA BookUntouched ==
  ASSUME Inv, IdsUnique(loans), UNCHANGED <<loans, commited_liquidity, drifted>>,
         \A b \in Borrowers : Unclaimed(vaults'[b]) = Unclaimed(vaults[b])
  PROVE  BooksKept
  BY DEF BooksKept, Counted, Covered, Backed

\* What an operation keeps, provided that a transfer it may be loses nothing.
KeptIfMoved ==
    /\ IdsUnique(loans')
    /\ TransferIdFree => (Counted => Counted')
    /\ TransferIdFree /\ TransferArrives => (Covered => Covered')

LEMMA LoanStepBooks ==
  ASSUME Inv, Inv', IdsUnique(loans), NEW tx \in Txs, NEW loan \in loans, LoanStep(tx, loan)
  PROVE  KeptIfMoved
  <1>1. BooksKept => KeptIfMoved
    BY DEF BooksKept, KeptIfMoved
  <1>2. CASE CallLoan(tx, loan)
    BY <1>1, <1>2, CallLoanBooks
  <1>3. CASE \E amount \in CollateralSteps : AddCollateral(tx, loan, amount)
    BY <1>1, <1>3, AddCollateralBooks
  <1>4. ASSUME NEW refused \in SUBSET Refusals, NEW b \in Borrowers,
               TransferLoan(tx, loan, b, refused)
        PROVE  KeptIfMoved
    <2>1. TransferIdFree => ~Exists([loan EXCEPT !.borrower = b])
      BY <1>4 DEF TransferIdFree
    <2>2. TransferArrives => ~CollateralRefused(VaultAddress[b], refused)
      BY <1>4 DEF TransferArrives
    <2> QED BY <1>4, <2>1, <2>2, TransferLoanBooks DEF KeptIfMoved
  <1>5. ASSUME NEW refused \in SUBSET Refusals, NEW id \in OfferIds,
               NEW principal \in Principals \cup {0},
               \/ ReplaceLoanLender(tx, loan, id, principal, refused)
               \/ \E collateral \in CollateralAmounts :
                     ReplaceLoan(tx, loan, id, principal, collateral, refused)
        PROVE  KeptIfMoved
    BY <1>1, <1>5, ReplaceLoanBooks, ReplaceLoanLenderBooks
  <1>6. ASSUME NEW refused \in SUBSET Refusals,
               \/ SettleLoan(tx, loan, refused)
               \/ PartiallyLiquidateLoan(tx, loan, refused)
               \/ LiquidateLoan(tx, loan, refused)
               \/ \E amount \in CollateralSteps : RemoveCollateral(tx, loan, amount, refused)
        PROVE  KeptIfMoved
    BY <1>1, <1>6, SettleLoanBooks, PartiallyLiquidateLoanBooks, LiquidateLoanBooks,
       RemoveCollateralBooks
  <1>7. ASSUME NEW refused \in SUBSET Refusals,
               \/ SettleLoan(tx, loan, refused)
               \/ PartiallyLiquidateLoan(tx, loan, refused)
               \/ LiquidateLoan(tx, loan, refused)
               \/ \E amount \in CollateralSteps : RemoveCollateral(tx, loan, amount, refused)
               \/ \E b \in Borrowers : TransferLoan(tx, loan, b, refused)
               \/ \E id \in OfferIds, principal \in Principals \cup {0} :
                     \/ ReplaceLoanLender(tx, loan, id, principal, refused)
                     \/ \E collateral \in CollateralAmounts :
                           ReplaceLoan(tx, loan, id, principal, collateral, refused)
        PROVE  KeptIfMoved
    <2>1. CASE \E b \in Borrowers : TransferLoan(tx, loan, b, refused)
      BY <1>4, <2>1
    <2>2. CASE \E id \in OfferIds, principal \in Principals \cup {0} :
                  \/ ReplaceLoanLender(tx, loan, id, principal, refused)
                  \/ \E collateral \in CollateralAmounts :
                        ReplaceLoan(tx, loan, id, principal, collateral, refused)
      BY <1>5, <2>2
    <2> QED BY <1>6, <1>7, <2>1, <2>2
  <1> QED BY <1>2, <1>3, <1>7 DEF LoanStep

LEMMA NextBooks ==
  ASSUME Inv, Inv', IdsUnique(loans), [Next]_vars
  PROVE  KeptIfMoved
  <1>0. BooksKept => KeptIfMoved
    BY DEF BooksKept, KeptIfMoved
  <1>1. ASSUME UNCHANGED <<loans, commited_liquidity, drifted, vaults>> PROVE KeptIfMoved
    BY <1>0, <1>1, BookUntouched
  <1>2. CASE Tick \/ OracleUpdate \/ UNCHANGED vars
    BY <1>1, <1>2 DEF Tick, OracleUpdate, vars
  <1>3. CASE \E tx \in Txs, id \in OfferIds : RevokeOffer(tx, id)
    BY <1>1, <1>3 DEF RevokeOffer, assets
  <1>4. CASE \E tx \in Txs, id \in OfferIds, principal \in Principals,
                collateral \in CollateralAmounts : CreateLoan(tx, id, principal, collateral)
    BY <1>0, <1>4, CreateLoanBooks
  <1>5. CASE \E tx \in Txs, loan \in loans : LoanStep(tx, loan)
    BY <1>5, LoanStepBooks
  <1>6. CASE \E tx \in Txs : Administration(tx.sender)
    <2>1. UNCHANGED <<book, assets, environment, drifted>>
      BY <1>6 DEF Administration, SetPartialLiquidationFee, SetFullLiquidationFee, SetProtocolFee,
         ChangeProtocolWallet, ChangeVaultRegistrar, SetRefinanceAddr, SetLiquidationAddr,
         SetProxyAuthorization, ProposeOwner, ClaimOwnership, SetTransferAgent, OwnerSets
    <2> QED BY <1>1, <2>1 DEF book, assets
  <1>7. CASE \E wallet \in Accounts : ClaimPendingTransfers(wallet)
    BY <1>1, <1>7 DEF ClaimPendingTransfers, book
  <1>8. CASE \E b \in Borrowers : CreateVaultIfNeeded(b)
    <2>1. PICK b \in Borrowers : CreateVaultIfNeeded(b)
      BY <1>8
    <2>2. \A c \in Borrowers : Unclaimed(vaults'[c]) = Unclaimed(vaults[c])
      BY <2>1, CreatedUnclaimed DEF CreateVaultIfNeeded, Inv
    <2>3. UNCHANGED <<loans, commited_liquidity, drifted>>
      BY <2>1 DEF CreateVaultIfNeeded, book
    <2> QED BY <1>0, <2>2, <2>3, BookUntouched
  <1>9. CASE \E b \in Borrowers, wallet \in Accounts : WithdrawPendingCollateral(b, wallet)
    <2>1. PICK b \in Borrowers, wallet \in Accounts : WithdrawPendingCollateral(b, wallet)
      BY <1>9
    <2>2. \A c \in Borrowers : Unclaimed(vaults'[c]) = Unclaimed(vaults[c])
      BY <2>1, WithdrawPendingBooks DEF Accounts
    <2>3. UNCHANGED <<loans, commited_liquidity, drifted>>
      BY <2>1 DEF WithdrawPendingCollateral, book
    <2> QED BY <1>0, <2>2, <2>3, BookUntouched
  <1> QED BY <1>2, <1>3, <1>4, <1>5, <1>6, <1>7, <1>8, <1>9 DEF Next

LEMMA InitBooks == Init => IdsUnique(loans) /\ Counted /\ Covered
  <1> SUFFICES ASSUME Init PROVE IdsUnique(loans) /\ Counted /\ Covered
    OBVIOUS
  <1>1. loans = {} /\ drifted = {} /\ commited_liquidity = [k \in LiquidityKeys |-> 0]
    BY DEF Init
  <1>2. IdsUnique(loans)
    BY <1>1, FS_EmptySet DEF IdsUnique
  <1>3. Counted
    BY <1>1, NoneBooked DEF Counted
  <1>4. Covered
    <2> SUFFICES ASSUME NEW b \in Borrowers PROVE Unclaimed(vaults[b]) = Pledged({}, b)
      BY <1>1 DEF Covered, Backed
    <2>1. [l \in {m \in {} : m.borrower = b} |-> l.collateral_amount] = [l \in {} |-> 0]
      OBVIOUS
    <2>2. Pledged({}, b) = 0
      BY <2>1, SumZeros, FS_EmptySet DEF Pledged
    <2>3. vaults[b] = EmptyVault(FALSE)
      BY DEF Init
    <2> QED BY <2>2, <2>3, EmptyVaultSafe
  <1> QED BY <1>2, <1>3, <1>4

LoanIdsUnique == IdsUnique(loans)

LEMMA AlwaysUnique == Spec => []LoanIdsUnique
  <1>1. Init => LoanIdsUnique
    BY InitBooks DEF LoanIdsUnique
  <1>2. Inv /\ Inv' /\ LoanIdsUnique /\ [Next]_vars => LoanIdsUnique'
    BY NextBooks DEF LoanIdsUnique, KeptIfMoved
  <1> QED BY <1>1, <1>2, AlwaysInv, PTL DEF Spec

-----------------------------------------------------------------------------
(* What follows.                                                           *)

(* The liquidity committed under a key is the principal of its live loans, *)
(* and no lender has lent more than its largest offer allows: every        *)
(* creation, repayment, refinancing, sale and transfer keeps the count     *)
(* that _check_and_update_offer_state and _reduce_commited_liquidity keep, *)
(* whatever liquidations did to other keys, as long as no transfer         *)
(* overwrites a loan.                                                      *)
THEOREM LiquidityIsRespected == Spec /\ [][TransferIdFree]_vars => []LiquidityRespected
  <1>1. Init => Counted
    BY InitBooks
  <1>2. Inv /\ Inv' /\ LoanIdsUnique /\ Counted /\ [Next]_vars /\ [TransferIdFree]_vars => Counted'
    <2>1. Inv /\ Inv' /\ LoanIdsUnique /\ [Next]_vars /\ TransferIdFree => (Counted => Counted')
      BY NextBooks DEF LoanIdsUnique, KeptIfMoved
    <2>2. UNCHANGED vars => (Counted => Counted')
      BY DEF vars, Counted
    <2> QED BY <2>1, <2>2
  <1>3. Counted => LiquidityRespected
    BY DEF Counted, Booked, LiquidityRespected, PrincipalLent, Lent, KeyOf
  <1> QED BY <1>1, <1>2, <1>3, AlwaysInv, AlwaysUnique, PTL DEF Spec

LEMMA AlwaysCovered ==
    Spec /\ [][TransferIdFree /\ TransferArrives]_vars => []Covered
  <1>1. Init => Covered
    BY InitBooks
  <1>2. /\ Inv /\ Inv' /\ LoanIdsUnique /\ Covered /\ [Next]_vars
        /\ [TransferIdFree /\ TransferArrives]_vars
        => Covered'
    <2>1. Inv /\ Inv' /\ LoanIdsUnique /\ [Next]_vars /\ TransferIdFree /\ TransferArrives
            => (Covered => Covered')
      BY NextBooks DEF LoanIdsUnique, KeptIfMoved
    <2>2. UNCHANGED vars => (Covered => Covered')
      BY DEF vars, Covered
    <2> QED BY <2>1, <2>2
  <1> QED BY <1>1, <1>2, AlwaysInv, AlwaysUnique, PTL DEF Spec

(* What a vault holds beyond what it owes to wallets is the collateral of  *)
(* its borrower's loans, through every deposit, withdrawal, refused        *)
(* transfer and liquidation, as long as no transfer overwrites a loan or   *)
(* is refused by the new vault: a loan always finds its collateral.        *)
THEOREM CollateralIsBacked ==
    Spec /\ [][TransferIdFree /\ TransferArrives]_vars => []CollateralBacked
  <1>1. Covered => CollateralBacked
    BY DEF Covered, Backed, CollateralBacked, Pledged
  <1> QED BY <1>1, AlwaysCovered, PTL

LEMMA OwnCollateral ==
  ASSUME Inv, IdsUnique(loans), Covered, NEW loan \in loans
  PROVE  /\ loan.collateral_amount <= Unclaimed(vaults[loan.borrower])
         /\ vaults[loan.borrower].deployed
  <1> DEFINE b == loan.borrower
             rest == loans \ {loan}
  <1>1. Amounts(loans) /\ Amounts(rest) /\ IsFiniteSet(loans)
    BY AmountsNat DEF IdsUnique, Amounts
  <1>2. IsFiniteSet(rest) /\ \A c : Pledged(loans, c) = PledgedBy(loan, c) + Pledged(rest, c)
    BY <1>1, OneLess
  <1> HIDE DEF rest
  <1>3. Pledged(rest, b) \in Nat
    BY <1>1, <1>2, PledgedNat
  <1>4. PledgedBy(loan, b) = loan.collateral_amount
    BY DEF PledgedBy
  <1>5. loan.collateral_amount \in Nat /\ loan.collateral_amount > 0 /\ b \in Borrowers
    BY LoanParties
  <1>6. Unclaimed(vaults[b]) = loan.collateral_amount + Pledged(rest, b)
    BY <1>2, <1>4, <1>5 DEF Covered, Backed
  <1>7. vaults[b] \in VaultRecord /\ Opened(vaults[b])
    BY <1>5 DEF Inv, VaultsOK
  <1> HIDE DEF b
  <1>8. loan.collateral_amount <= Unclaimed(vaults[b])
    BY <1>3, <1>5, <1>6
  <1>9. vaults[b].deployed
    BY <1>5, <1>7, <1>8 DEF VaultRecord, Opened, Unclaimed
  <1> QED BY <1>8, <1>9 DEF b

\* A vault that can pay the liquidator and the borrower together can pay one
\* after the other, also when the first payment is refused.
LEMMA PaidInTurn ==
  ASSUME NEW vs, VaultsOK(vs), NEW b \in Borrowers, NEW x \in Nat, NEW y \in Nat,
         vs[b].deployed, x + y <= Unclaimed(vs[b]), NEW wallet \in Wallets, NEW refused
  PROVE  /\ WithdrawAllowed(vs[b], x)
         /\ WithdrawAllowed(CollateralSent(vs, b, wallet, x, refused)[b], y)
  <1> DEFINE v == Withdrawn(vs[b], x, wallet, CollateralRefused(wallet, refused))
  <1>1. vs[b] \in VaultRecord /\ vs \in [Borrowers -> VaultRecord]
    BY DEF VaultsOK
  <1>2. /\ v.deployed
        /\ \/ v.balance = vs[b].balance /\ v.total = vs[b].total + x
           \/ v.balance = vs[b].balance - x /\ v.total = vs[b].total
    BY <1>1 DEF Withdrawn, VaultRecord
  <1>3. CollateralSent(vs, b, wallet, x, refused)[b] = v
    BY <1>1 DEF CollateralSent
  <1> HIDE DEF v
  <1> QED BY <1>1, <1>2, <1>3 DEF WithdrawAllowed, Unclaimed, VaultRecord

(* No collateral gets stuck: anyone can liquidate a loan that is in        *)
(* default, in full, and its borrower can settle any other one, whatever   *)
(* was paid, refused, refinanced or liquidated before, as long as no       *)
(* transfer overwrites a loan or is refused by the new vault.              *)
THEOREM LoansStayClosable ==
    Spec /\ [][TransferIdFree /\ TransferArrives]_vars => []LoansCanBeClosed
  <1>1. Inv /\ LoanIdsUnique /\ Covered => LoansCanBeClosed
    <2> SUFFICES ASSUME Inv, IdsUnique(loans), Covered, NEW loan \in loans
                 PROVE  IF Defaulted(loan)
                        THEN OracleAnswers /\ config.liquidation_addr = LiquidationFacet =>
                                \A tx \in Txs, refused \in SUBSET Refusals :
                                    LiquidationPossible(Actor(tx), loan, refused)
                        ELSE SettlementPossible(loan)
      BY DEF LoanIdsUnique, LoansCanBeClosed
    <2>1. /\ loan.collateral_amount <= Unclaimed(vaults[loan.borrower])
          /\ vaults[loan.borrower].deployed
      BY OwnCollateral
    <2>2. VaultsOK(vaults) /\ loan.borrower \in Borrowers /\ loan.collateral_amount \in Nat
      BY LoanParties DEF Inv
    <2>3. CASE ~Defaulted(loan)
      <3>1. WithdrawAllowed(vaults[loan.borrower], loan.collateral_amount)
        BY <2>1, <2>2 DEF WithdrawAllowed, Unclaimed, VaultsOK, VaultRecord
      <3> QED BY <2>3, <3>1 DEF SettlementPossible
    <2>4. ASSUME Defaulted(loan), OracleAnswers, config.liquidation_addr = LiquidationFacet,
                 NEW tx \in Txs, NEW refused \in SUBSET Refusals
          PROVE  LiquidationPossible(Actor(tx), loan, refused)
      <3> DEFINE liquidator == Actor(tx)
                 taken == ToLiquidator(loan, LoanSplit(loan))
                 rest == ToBorrower(LoanSplit(loan))
      <3>1. taken \in Nat /\ rest \in Nat /\ taken + rest = loan.collateral_amount
        BY <2>4, LoanSplitSafe
      <3>2. liquidator \in Wallets
        BY ActorTyped
      <3> HIDE DEF liquidator, taken, rest
      <3>3. /\ WithdrawAllowed(vaults[loan.borrower], taken)
            /\ WithdrawAllowed(CollateralSent(vaults, loan.borrower, liquidator, taken,
                                              refused)[loan.borrower], rest)
        BY <2>1, <2>2, <3>1, <3>2, PaidInTurn
      <3> QED BY <2>4, <3>3 DEF LiquidationPossible, LiquidatorSent, LiquidationAllowed,
                              liquidator, taken, rest
    <2> QED BY <2>3, <2>4
  <1>2. Spec /\ [][TransferIdFree /\ TransferArrives]_vars => []Covered
    BY AlwaysCovered
  <1> QED BY <1>1, <1>2, AlwaysInv, AlwaysUnique, PTL

-----------------------------------------------------------------------------
(* What can be liquidated.                                                 *)

\* More collateral never means a higher ltv.
LEMMA LtvAntitone ==
  ASSUME NEW more \in Nat, NEW less \in Nat \ {0}, less <= more, NEW amount \in Nat,
         NEW quote \in Rates
  PROVE  Ltv(more, amount, quote) <= Ltv(less, amount, quote)
  <1> DEFINE a == amount * BPS * quote.den
             b == less * quote.num
             c == more * quote.num
             q == a \div b
  <1>1. /\ quote.num \in Nat \ {0} /\ quote.den \in Nat /\ BPS \in Nat /\ more \in Nat \ {0}
    BY MathAssumption DEF Rates
  <1>2. a \in Nat /\ b \in Nat \ {0} /\ c \in Nat \ {0} /\ b <= c
    BY <1>1, MulNat, MulMono
  <1>3. Ltv(more, amount, quote) = a \div c /\ Ltv(less, amount, quote) = q
    BY DEF Ltv
  <1> HIDE DEF a, b, c
  <1>4. q \in Nat /\ a < b * q + b
    BY <1>2, DivBounds
  <1> HIDE DEF q
  <1>5. b * (q + 1) <= c * (q + 1) /\ b * (q + 1) = b * q + b
    BY <1>2, <1>4, MulMono
  <1>6. a < c * (q + 1)
    <2>1. b * q \in Nat /\ c * (q + 1) \in Nat
      BY <1>2, <1>4, MulNat
    <2> QED BY <1>2, <1>4, <1>5, <2>1
  <1>7. a \div c < q + 1 /\ a \div c \in Nat
    BY <1>2, <1>4, <1>6, DivLt, DivBounds
  <1> QED BY <1>3, <1>4, <1>7

\* A loan owes its principal at the moment it is made.
LEMMA NewLoanOwesPrincipal ==
  ASSUME now \in Nat, NEW l, l.amount \in Nat, l.apr \in Nat, l.accrual_start_time = now
  PROVE  OutstandingDebt(l) = l.amount
  <1>1. l.amount * l.apr * (now - now) = 0 /\ BPS * YEAR \in Nat \ {0}
    BY MathAssumption, MulNat
  <1>2. Interest(l.amount, l.apr, now - now) = 0
    <2> DEFINE n == BPS * YEAR
    <2>1. n \in Nat \ {0}
      BY <1>1
    <2> HIDE DEF n
    <2>2. 0 \div n = 0
      BY <2>1
    <2> QED BY <1>1, <2>2 DEF Interest, n
  <1> QED BY <1>2 DEF OutstandingDebt, SettlementInterest

\* A loan made on an accepted offer is below its liquidation ltv.
LEMMA AcceptedIsSafe ==
  ASSUME now \in Nat, rate \in OracleRates, NEW id \in OfferIds, NEW borrower,
         NEW principal \in Nat, NEW collateral \in Nat, NEW until,
         OfferAccepted(Offer[id], borrower, principal, collateral)
  PROVE  ~Liquidatable(NewLoan(id, borrower, principal, collateral, until))
  <1> DEFINE new == NewLoan(id, borrower, principal, collateral, until)
             offer == Offer[id]
             ltv == Ltv(collateral, principal, rate)
             max_ltv == MaxInitialLtv(offer, principal)
  <1>1. /\ new.amount = principal /\ new.apr = offer.apr /\ new.accrual_start_time = now
        /\ new.collateral_amount = collateral /\ new.liquidation_ltv = offer.liquidation_ltv
    BY DEF NewLoan
  <1>2. offer \in OfferRecord /\ offer.apr \in Nat /\ offer.liquidation_ltv \in Nat
    BY OfferTyped DEF OfferRecord
  <1>3. /\ OracleAnswers /\ OfferValid(offer) /\ collateral > 0 /\ ltv <= max_ltv
        /\ offer.liquidation_ltv > 0 => offer.liquidation_ltv > max_ltv
    BY DEF OfferAccepted, LtvAccepted
  <1>4. ltv \in Nat /\ max_ltv \in Nat
    BY <1>2, <1>3, LtvNat, MaxInitialLtvNat, RateTyped
  <1> HIDE DEF new, max_ltv
  <1>5. OutstandingDebt(new) = principal
    BY <1>1, <1>2, NewLoanOwesPrincipal
  <1>6. CurrentLtv(new) = ltv
    BY <1>1, <1>5 DEF CurrentLtv
  <1> HIDE DEF ltv, offer
  <1>7. ~Liquidatable(new)
    BY <1>1, <1>2, <1>3, <1>4, <1>6 DEF Liquidatable, LtvReached
  <1> QED BY <1>7 DEF new

KeepsSafe ==
    \A l \in loans' \ loans :
        rate'.num > 0 /\ Liquidatable(l)' => \E m \in loans \ loans' : Liquidatable(m)

\* At one moment and one rate, the loan that is stored in the place of a loan
\* is safe, or that loan was not.
LEMMA StoredKeepsSafe ==
  ASSUME NEW loan \in loans, NEW new, loans' \subseteq loans \cup {new},
         new # loan => loan \notin loans',
         UNCHANGED environment,
         rate.num > 0 /\ Liquidatable(new) => Liquidatable(loan)
  PROVE  KeepsSafe
  <1> SUFFICES ASSUME NEW l \in loans' \ loans, rate'.num > 0, Liquidatable(l)'
               PROVE  \E m \in loans \ loans' : Liquidatable(m)
    BY DEF KeepsSafe
  <1>1. l = new /\ new # loan
    OBVIOUS
  <1>2. rate' = rate /\ now' = now
    BY DEF environment
  <1>3. Liquidatable(l)
    BY <1>2 DEF Liquidatable, LtvReached, CurrentLtv, OutstandingDebt, SettlementInterest
  <1> QED BY <1>1, <1>2, <1>3

LEMMA NewKeepsSafe ==
  ASSUME NEW new, loans' \subseteq loans \cup {new}, UNCHANGED environment, ~Liquidatable(new)
  PROVE  KeepsSafe
  <1> SUFFICES ASSUME NEW l \in loans' \ loans, Liquidatable(l)' PROVE FALSE
    BY DEF KeepsSafe
  <1>1. rate' = rate /\ now' = now
    BY DEF environment
  <1>2. Liquidatable(l)
    BY <1>1 DEF Liquidatable, LtvReached, CurrentLtv, OutstandingDebt, SettlementInterest
  <1> QED BY <1>2

\* More collateral for the same debt is no easier to liquidate.
LEMMA MoreCollateralSafe ==
  ASSUME rate \in OracleRates, rate.num > 0, NEW l, NEW m,
         OutstandingDebt(l) \in Nat, OutstandingDebt(m) = OutstandingDebt(l),
         l.collateral_amount \in Nat \ {0}, m.collateral_amount \in Nat,
         l.collateral_amount <= m.collateral_amount,
         m.liquidation_ltv = l.liquidation_ltv, l.liquidation_ltv \in Nat,
         Liquidatable(m)
  PROVE  Liquidatable(l)
  <1>1. rate \in Rates
    BY RateTyped DEF OracleAnswers
  <1> DEFINE debt == OutstandingDebt(l)
             before == Ltv(l.collateral_amount, debt, rate)
             after == Ltv(m.collateral_amount, debt, rate)
  <1>2. CurrentLtv(l) = before /\ CurrentLtv(m) = after
    BY DEF CurrentLtv
  <1>3. m.collateral_amount \in Nat \ {0}
    OBVIOUS
  <1> HIDE DEF debt
  <1>4. after <= before /\ before \in Nat /\ after \in Nat
    BY <1>1, <1>3, LtvAntitone, LtvNat DEF debt
  <1> HIDE DEF before, after
  <1> QED BY <1>2, <1>4 DEF Liquidatable, LtvReached

LEMMA ChangeKeepsSafe ==
  ASSUME Inv, NEW tx \in Txs, NEW loan \in loans,
         \/ CallLoan(tx, loan)
         \/ \E b \in Borrowers, refused \in SUBSET Refusals : TransferLoan(tx, loan, b, refused)
         \/ \E refused \in SUBSET Refusals : PartiallyLiquidateLoan(tx, loan, refused)
  PROVE  KeepsSafe
  <1>1. CASE CallLoan(tx, loan)
    <2> DEFINE new == [loan EXCEPT !.call_time = now]
    <2>1. loans' = Stored(loans, new) /\ UNCHANGED environment
      BY <1>1 DEF CallLoan
    <2>2. LoanId(new) = LoanId(loan) /\ (Liquidatable(new) <=> Liquidatable(loan))
      BY DEF LoanId, Liquidatable, LtvReached, CurrentLtv, OutstandingDebt, SettlementInterest
    <2> HIDE DEF new
    <2> QED BY <2>1, <2>2, StoredKeepsSafe DEF Stored
  <1>2. ASSUME NEW b \in Borrowers, NEW refused, TransferLoan(tx, loan, b, refused)
        PROVE  KeepsSafe
    <2> DEFINE new == [loan EXCEPT !.borrower = b]
    <2>1. loans' = Stored(loans, new) \ {loan} /\ UNCHANGED environment
      BY <1>2 DEF TransferLoan
    <2>2. Liquidatable(new) <=> Liquidatable(loan)
      BY DEF Liquidatable, LtvReached, CurrentLtv, OutstandingDebt, SettlementInterest
    <2> HIDE DEF new
    <2> QED BY <2>1, <2>2, StoredKeepsSafe DEF Stored
  <1>3. ASSUME NEW refused, PartiallyLiquidateLoan(tx, loan, refused)
        PROVE  KeepsSafe
    <2> DEFINE healing == HealingLiquidation(loan)
               amount == OutstandingDebt(loan) - healing.written_off
               left == loan.collateral_amount - (healing.claimed + healing.fee)
               new == [loan EXCEPT !.amount = amount, !.accrual_start_time = now,
                                   !.collateral_amount = left]
    <2>1. loans' = Stored(loans, new) /\ UNCHANGED environment /\ LtvReached(loan)
      BY <1>3 DEF PartiallyLiquidateLoan
    <2>2. Liquidatable(loan)
      BY <2>1, LoanParties DEF Liquidatable
    <2> HIDE DEF amount, left
    <2>3. LoanId(new) = LoanId(loan)
      BY DEF LoanId
    <2> HIDE DEF new
    <2> QED BY <2>1, <2>2, <2>3, StoredKeepsSafe DEF Stored
  <1> QED BY <1>1, <1>2, <1>3

LEMMA CollateralKeepsSafe ==
  ASSUME Inv, NEW tx \in Txs, NEW loan \in loans, NEW amount \in CollateralSteps,
         \/ AddCollateral(tx, loan, amount)
         \/ \E refused \in SUBSET Refusals : RemoveCollateral(tx, loan, amount, refused)
  PROVE  KeepsSafe
  <1>1. /\ OutstandingDebt(loan) \in Nat /\ loan.collateral_amount \in Nat \ {0}
        /\ loan.liquidation_ltv \in Nat /\ loan.initial_ltv \in Nat
        /\ loan.liquidation_ltv > 0 => loan.liquidation_ltv > loan.initial_ltv
        /\ amount \in Nat /\ rate \in OracleRates
    BY LoanParties, DebtNat, BaseAssumption DEF SoundLoan, LoanRecord, Inv
  <1>2. CASE AddCollateral(tx, loan, amount)
    <2> DEFINE more == loan.collateral_amount + amount
               new == [loan EXCEPT !.collateral_amount = more]
    <2>1. loans' = Stored(loans, new) /\ UNCHANGED environment
      BY <1>2 DEF AddCollateral
    <2>2. new.collateral_amount = more
      BY LoanParties DEF SoundLoan, LoanRecord
    <2> HIDE DEF more
    <2>3. /\ LoanId(new) = LoanId(loan) /\ OutstandingDebt(new) = OutstandingDebt(loan)
          /\ new.liquidation_ltv = loan.liquidation_ltv
      BY DEF LoanId, OutstandingDebt, SettlementInterest
    <2> HIDE DEF new
    <2>4. more \in Nat /\ loan.collateral_amount <= more
      BY <1>1 DEF more
    <2>5. rate.num > 0 /\ Liquidatable(new) => Liquidatable(loan)
      BY <1>1, <2>2, <2>3, <2>4, MoreCollateralSafe
    <2> QED BY <2>1, <2>3, <2>5, StoredKeepsSafe DEF Stored
  <1>3. ASSUME NEW refused, RemoveCollateral(tx, loan, amount, refused)
        PROVE  KeepsSafe
    <2> DEFINE left == loan.collateral_amount - amount
               new == [loan EXCEPT !.collateral_amount = left]
               ltv == Ltv(left, OutstandingDebt(loan), rate)
    <2>1. /\ loans' = Stored(loans, new) /\ UNCHANGED environment
          /\ OracleAnswers /\ left > 0 /\ loan.initial_ltv >= ltv
      BY <1>3 DEF RemoveCollateral
    <2>2. new.collateral_amount = left
      BY LoanParties DEF SoundLoan, LoanRecord
    <2>3. left \in Nat \ {0}
      BY <1>1, <2>1
    <2> HIDE DEF left
    <2>4. OutstandingDebt(new) = OutstandingDebt(loan) /\ new.liquidation_ltv = loan.liquidation_ltv
      BY DEF OutstandingDebt, SettlementInterest
    <2> HIDE DEF new
    <2>5. CurrentLtv(new) = ltv
      BY <2>2, <2>4 DEF CurrentLtv
    <2>6. ltv \in Nat
      BY <1>1, <2>1, <2>3, RateTyped, LtvNat
    <2> HIDE DEF ltv
    <2>7. ~Liquidatable(new)
      BY <1>1, <2>1, <2>4, <2>5, <2>6 DEF Liquidatable, LtvReached
    <2> QED BY <2>1, <2>7, NewKeepsSafe DEF Stored
  <1> QED BY <1>2, <1>3

LEMMA CreateKeepsSafe ==
  ASSUME Inv, NEW tx \in Txs, NEW id \in OfferIds, NEW principal \in Principals,
         NEW collateral \in CollateralAmounts, CreateLoan(tx, id, principal, collateral)
  PROVE  KeepsSafe
  <1> DEFINE new == NewLoan(id, Actor(tx), principal, collateral, AgreedUntil(Offer[id]))
  <1>1. /\ OfferAccepted(Offer[id], Actor(tx), principal, collateral)
        /\ loans' = Stored(loans, new) /\ UNCHANGED environment
    BY DEF CreateLoan
  <1>2. ~Liquidatable(new)
    BY <1>1, AcceptedIsSafe, BaseAssumption DEF Inv
  <1> HIDE DEF new
  <1> QED BY <1>1, <1>2, NewKeepsSafe DEF Stored

LEMMA ReplaceKeepsSafe ==
  ASSUME Inv, NEW tx \in Txs, NEW loan \in loans, NEW id \in OfferIds,
         NEW principal \in Principals \cup {0}, NEW refused,
         \/ ReplaceLoanLender(tx, loan, id, principal, refused)
         \/ \E collateral \in CollateralAmounts :
               ReplaceLoan(tx, loan, id, principal, collateral, refused)
  PROVE  KeepsSafe
  <1> DEFINE new_principal == NewPrincipal(loan, principal)
  <1>1. new_principal \in Nat /\ loan.collateral_amount \in Nat
    BY NewTerms, LoanParties, BaseAssumption
  <1>2. CASE ReplaceLoanLender(tx, loan, id, principal, refused)
    <2> DEFINE new == NewLoan(id, loan.borrower, new_principal, loan.collateral_amount,
                              loan.agreed_until)
    <2>1. /\ OfferAccepted(Offer[id], loan.borrower, new_principal, loan.collateral_amount)
          /\ loans' = Replaced(loan, new) /\ UNCHANGED environment
      BY <1>2 DEF ReplaceLoanLender
    <2> HIDE DEF new_principal
    <2>2. ~Liquidatable(new)
      BY <1>1, <2>1, AcceptedIsSafe DEF Inv
    <2> HIDE DEF new
    <2> QED BY <2>1, <2>2, NewKeepsSafe DEF Replaced, Stored
  <1>3. ASSUME NEW collateral \in CollateralAmounts,
               ReplaceLoan(tx, loan, id, principal, collateral, refused)
        PROVE  KeepsSafe
    <2> DEFINE new == NewLoan(id, loan.borrower, new_principal, collateral,
                              AgreedUntil(Offer[id]))
    <2>1. /\ OfferAccepted(Offer[id], loan.borrower, new_principal, collateral)
          /\ loans' = Replaced(loan, new) /\ UNCHANGED environment
      BY <1>3 DEF ReplaceLoan
    <2> HIDE DEF new_principal
    <2>2. ~Liquidatable(new)
      BY <1>1, <2>1, AcceptedIsSafe, BaseAssumption DEF Inv
    <2> HIDE DEF new
    <2> QED BY <2>1, <2>2, NewKeepsSafe DEF Replaced, Stored
  <1> QED BY <1>2, <1>3

LEMMA FewerKeepSafe == ASSUME loans' \subseteq loans PROVE KeepsSafe
  BY DEF KeepsSafe

LEMMA LoanStepKeepsSafe ==
  ASSUME Inv, NEW tx \in Txs, NEW loan \in loans, LoanStep(tx, loan)
  PROVE  KeepsSafe
  <1>1. CASE CallLoan(tx, loan)
    BY <1>1, ChangeKeepsSafe
  <1>2. CASE \E amount \in CollateralSteps : AddCollateral(tx, loan, amount)
    BY <1>2, CollateralKeepsSafe
  <1>3. ASSUME NEW refused \in SUBSET Refusals,
               \/ SettleLoan(tx, loan, refused)
               \/ PartiallyLiquidateLoan(tx, loan, refused)
               \/ LiquidateLoan(tx, loan, refused)
               \/ \E amount \in CollateralSteps : RemoveCollateral(tx, loan, amount, refused)
               \/ \E b \in Borrowers : TransferLoan(tx, loan, b, refused)
               \/ \E id \in OfferIds, principal \in Principals \cup {0} :
                     \/ ReplaceLoanLender(tx, loan, id, principal, refused)
                     \/ \E collateral \in CollateralAmounts :
                           ReplaceLoan(tx, loan, id, principal, collateral, refused)
        PROVE  KeepsSafe
    <2>1. CASE SettleLoan(tx, loan, refused) \/ LiquidateLoan(tx, loan, refused)
      <3>1. loans' = loans \ {loan}
        BY <2>1 DEF SettleLoan, LiquidateLoan
      <3> QED BY <3>1, FewerKeepSafe
    <2>2. CASE \/ PartiallyLiquidateLoan(tx, loan, refused)
               \/ \E b \in Borrowers : TransferLoan(tx, loan, b, refused)
      BY <2>2, ChangeKeepsSafe
    <2>3. CASE \E amount \in CollateralSteps : RemoveCollateral(tx, loan, amount, refused)
      BY <2>3, CollateralKeepsSafe
    <2>4. CASE \E id \in OfferIds, principal \in Principals \cup {0} :
                     \/ ReplaceLoanLender(tx, loan, id, principal, refused)
                     \/ \E collateral \in CollateralAmounts :
                           ReplaceLoan(tx, loan, id, principal, collateral, refused)
      BY <2>4, ReplaceKeepsSafe
    <2> QED BY <1>3, <2>1, <2>2, <2>3, <2>4
  <1> QED BY <1>1, <1>2, <1>3 DEF LoanStep

(* No operation takes a loan from safe to liquidatable: only time and the  *)
(* oracle do.  What is created, refinanced or sold is below its            *)
(* liquidation ltv, what is left after removing collateral is at most at   *)
(* the initial ltv, added collateral lowers the ltv in spite of the        *)
(* rounding, and a call, a transfer or a partial liquidation only leaves a *)
(* loan liquidatable that was.                                             *)
THEOREM OperationsAreSafe == Spec => OperationsKeepLoansSafe
  <1>1. Inv /\ [Next]_vars => KeepsSafe
    <2> SUFFICES ASSUME Inv, [Next]_vars PROVE KeepsSafe
      OBVIOUS
    <2>1. CASE \E tx \in Txs, id \in OfferIds, principal \in Principals,
                  collateral \in CollateralAmounts : CreateLoan(tx, id, principal, collateral)
      BY <2>1, CreateKeepsSafe
    <2>2. CASE \E tx \in Txs, loan \in loans : LoanStep(tx, loan)
      BY <2>2, LoanStepKeepsSafe
    <2>3. CASE \/ Tick \/ OracleUpdate \/ UNCHANGED vars
               \/ \E tx \in Txs, id \in OfferIds : RevokeOffer(tx, id)
               \/ \E tx \in Txs : Administration(tx.sender)
               \/ \E wallet \in Accounts : ClaimPendingTransfers(wallet)
               \/ \E b \in Borrowers : CreateVaultIfNeeded(b)
               \/ \E b \in Borrowers, wallet \in Accounts : WithdrawPendingCollateral(b, wallet)
      <3>1. loans' = loans
        BY <2>3 DEF Tick, OracleUpdate, vars, RevokeOffer, Administration,
           SetPartialLiquidationFee, SetFullLiquidationFee, SetProtocolFee,
           ChangeProtocolWallet, ChangeVaultRegistrar, SetRefinanceAddr, SetLiquidationAddr,
           SetProxyAuthorization, ProposeOwner, ClaimOwnership, SetTransferAgent, OwnerSets,
           ClaimPendingTransfers, CreateVaultIfNeeded, WithdrawPendingCollateral, book
      <3> QED BY <3>1, FewerKeepSafe
    <2> QED BY <2>1, <2>2, <2>3 DEF Next
  <1>2. Inv /\ [Next]_vars => [KeepsSafe]_vars
    BY <1>1
  <1> QED BY <1>2, AlwaysInv, PTL DEF Spec, OperationsKeepLoansSafe, KeepsSafe
=============================================================================
