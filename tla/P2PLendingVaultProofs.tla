----------------------- MODULE P2PLendingVaultProofs -----------------------
(***************************************************************************)
(* What the operations on a vault's storage preserve and what they move,   *)
(* for every set of wallets and every amount.                              *)
(***************************************************************************)
EXTENDS P2PLendingVault, FiniteSetTheorems, WellFoundedInduction, TLAPS

-----------------------------------------------------------------------------
(* Sums.  The sums of the properties are folds, recursive functions that   *)
(* CHOOSE an element at a time.  That they do not depend on the choices is *)
(* shown by induction over finite sets, which is well-founded: among the   *)
(* subsets for which a claim fails there is a minimal one (WFMin).         *)

\* A set of sets that contains each of S's subsets whose own proper subsets it
\* contains, contains S.
LEMMA FiniteInduction ==
  ASSUME NEW S, IsFiniteSet(S), NEW P,
         \A T \in SUBSET S : (\A U \in SUBSET T : U # T => U \in P) => T \in P
  PROVE  S \in P
  <1> DEFINE R == StrictSubsetOrdering(S)
             B == {T \in SUBSET S : T \notin P}
  <1>1. IsWellFoundedOn(R, SUBSET S)
    BY FS_StrictSubsetOrderingWellFounded, FS_FiniteSubsetsOfFinite
  <1>2. SUFFICES ASSUME B # {} PROVE FALSE
    OBVIOUS
  <1>3. B \subseteq SUBSET S
    OBVIOUS
  <1>4. PICK T \in B : \A U \in B : <<U, T>> \notin R
    <2> HIDE DEF R, B
    <2> QED BY <1>1, <1>2, <1>3, WFMin
  <1>5. \A U \in SUBSET T : U # T => U \in P
    BY <1>4 DEF StrictSubsetOrdering
  <1> QED BY <1>4, <1>5

\* The recursion that the fold stands for.
Picked(T) == CHOOSE x \in T : TRUE
Rest(T) == T \ {Picked(T)}
Unfolded(f, g, T) == IF T = {} THEN 0 ELSE f[Picked(T)] + g[Rest(T)]
PartialSums(f, S) == CHOOSE g : g = [T \in SUBSET S |-> Unfolded(f, g, T)]

LEMMA SumUnfolds ==
  ASSUME NEW f, NEW S
  PROVE  SumFunctionOnSet(f, S) = PartialSums(f, S)[S]
  BY DEF SumFunctionOnSet, PartialSums, Unfolded, Picked, Rest, FoldFunctionOnSet, MapThenFoldSet

LEMMA RestSmaller ==
  ASSUME NEW T, T # {}
  PROVE  Picked(T) \in T /\ Rest(T) \in SUBSET T /\ Rest(T) # T
         /\ T = Rest(T) \cup {Picked(T)} /\ Picked(T) \notin Rest(T)
  BY DEF Picked, Rest

\* The recursion has a solution: values on the subsets of T, from those on the smaller ones.
LEMMA SolutionExists ==
  ASSUME NEW f, NEW S, IsFiniteSet(S)
  PROVE  \E g : \A T \in SUBSET S : g[T] = Unfolded(f, g, T)
  <1> DEFINE Solves(g, n) == \A T \in SUBSET S : Cardinality(T) <= n => g[T] = Unfolded(f, g, T)
             B == {n \in Nat : ~ \E g : Solves(g, n)}
  <1>1. \A T \in SUBSET S : IsFiniteSet(T) /\ Cardinality(T) \in Nat
                            /\ Cardinality(T) <= Cardinality(S)
    BY FS_Subset, FS_CardinalityType
  <1>2. \A T \in SUBSET S : T # {} => Rest(T) \in SUBSET S
                                      /\ Cardinality(Rest(T)) = Cardinality(T) - 1
    BY <1>1, FS_RemoveElement, RestSmaller DEF Rest
  <1>3. 0 \notin B
    <2> DEFINE g == [T \in SUBSET S |-> 0]
    <2>1. ASSUME NEW T \in SUBSET S, Cardinality(T) <= 0 PROVE g[T] = Unfolded(f, g, T)
      BY <1>1, <2>1, FS_EmptySet DEF Unfolded
    <2>2. Solves(g, 0)
      BY <2>1
    <2> QED BY <2>2
  <1>4. ASSUME NEW n \in Nat, n \notin B PROVE n + 1 \notin B
    <2>1. PICK g : Solves(g, n)
      BY <1>4
    <2> DEFINE h == [T \in SUBSET S |-> Unfolded(f, g, T)]
    <2>2. \A T \in SUBSET S : Cardinality(T) <= n => h[T] = g[T]
      BY <2>1
    <2>3. ASSUME NEW T \in SUBSET S, Cardinality(T) <= n + 1 PROVE h[T] = Unfolded(f, h, T)
      <3>1. CASE T = {}
        BY <3>1 DEF Unfolded
      <3>2. CASE T # {}
        <4>1. Rest(T) \in SUBSET S /\ Cardinality(Rest(T)) <= n
          BY <1>1, <1>2, <2>3, <3>2
        <4>2. h[Rest(T)] = g[Rest(T)]
          BY <2>2, <4>1
        <4>3. h[T] = Unfolded(f, g, T)
          OBVIOUS
        <4> HIDE DEF h
        <4> QED BY <4>2, <4>3 DEF Unfolded
      <3> QED BY <3>1, <3>2
    <2>4. Solves(h, n + 1)
      BY <2>3
    <2> HIDE DEF h, Solves
    <2> QED BY <2>4
  <1>5. B = {}
    <2> SUFFICES ASSUME B # {} PROVE FALSE
      OBVIOUS
    <2>1. B \subseteq Nat
      OBVIOUS
    <2> HIDE DEF B
    <2>2. PICK n \in B : \A m \in B : <<m, n>> \notin OpToRel(<, Nat)
      BY <2>1, WFMin, NatLessThanWellFounded
    <2>3. \A m \in B : ~(m < n)
      BY <2>1, <2>2 DEF OpToRel
    <2>4. n # 0
      BY <1>3
    <2>5. n - 1 \in Nat /\ n = (n - 1) + 1 /\ n - 1 < n
      BY <2>1, <2>4
    <2> QED BY <1>4, <2>3, <2>5
  <1>6. Cardinality(S) \in Nat
    BY <1>1
  <1>7. PICK g : Solves(g, Cardinality(S))
    BY <1>5, <1>6
  <1> QED BY <1>1, <1>7

\* So the partial sums are one.
LEMMA PartialSum ==
  ASSUME NEW f, NEW S, IsFiniteSet(S), NEW T \in SUBSET S
  PROVE  PartialSums(f, S)[T] = Unfolded(f, PartialSums(f, S), T)
  <1>1. PICK g : \A U \in SUBSET S : g[U] = Unfolded(f, g, U)
    BY SolutionExists
  <1> DEFINE h == [U \in SUBSET S |-> Unfolded(f, g, U)]
  <1>2. \A U \in SUBSET S : Unfolded(f, h, U) = Unfolded(f, g, U)
    <2>1. \A U \in SUBSET S : h[U] = g[U]
      BY <1>1
    <2>2. \A U \in SUBSET S : U # {} => Rest(U) \in SUBSET S
      BY RestSmaller
    <2> HIDE DEF h
    <2> QED BY <2>1, <2>2 DEF Unfolded
  <1>3. h = [U \in SUBSET S |-> Unfolded(f, h, U)]
    <2> DEFINE k == [U \in SUBSET S |-> Unfolded(f, h, U)]
    <2>1. \A U \in SUBSET S : h[U] = k[U]
      BY <1>2
    <2> QED BY <2>1
  <1>4. PartialSums(f, S) = [U \in SUBSET S |-> Unfolded(f, PartialSums(f, S), U)]
    <2> HIDE DEF h
    <2> QED BY <1>3 DEF PartialSums
  <1> QED BY <1>4

\* A partial sum does not depend on the set it is part of, nor on other values.
LEMMA PartialSumsAgree ==
  ASSUME NEW f, NEW g, NEW S, NEW R, IsFiniteSet(S), IsFiniteSet(R), S \subseteq R,
         \A x \in S : f[x] = g[x]
  PROVE  PartialSums(f, S)[S] = PartialSums(g, R)[S]
  <1> DEFINE P == {T \in SUBSET S : PartialSums(f, S)[T] = PartialSums(g, R)[T]}
  <1>1. ASSUME NEW T \in SUBSET S, \A U \in SUBSET T : U # T => U \in P
        PROVE  T \in P
    <2>1. /\ PartialSums(f, S)[T] = Unfolded(f, PartialSums(f, S), T)
          /\ PartialSums(g, R)[T] = Unfolded(g, PartialSums(g, R), T)
      BY PartialSum
    <2>2. CASE T = {}
      BY <2>1, <2>2 DEF Unfolded
    <2>3. CASE T # {}
      <3>1. Picked(T) \in S /\ Rest(T) \in P
        BY <1>1, <2>3, RestSmaller
      <3> QED BY <2>1, <2>3, <3>1 DEF Unfolded
    <2> QED BY <2>2, <2>3
  <1> HIDE DEF P
  <1>2. S \in P
    BY <1>1, FiniteInduction
  <1> QED BY <1>2 DEF P

LEMMA SumEmpty == ASSUME NEW f PROVE SumFunctionOnSet(f, {}) = 0
  BY SumUnfolds, PartialSum, FS_EmptySet DEF Unfolded

LEMMA SumSame ==
  ASSUME NEW f, NEW g, NEW S, IsFiniteSet(S), \A x \in S : f[x] = g[x]
  PROVE  SumFunctionOnSet(f, S) = SumFunctionOnSet(g, S)
  <1>1. PartialSums(f, S)[S] = PartialSums(g, S)[S]
    BY PartialSumsAgree
  <1> QED BY <1>1, SumUnfolds

LEMMA SumPicked ==
  ASSUME NEW f, NEW S, IsFiniteSet(S), S # {}
  PROVE  SumFunctionOnSet(f, S) = f[Picked(S)] + SumFunctionOnSet(f, Rest(S))
  <1>1. Rest(S) \in SUBSET S /\ IsFiniteSet(Rest(S))
    BY RestSmaller, FS_Subset
  <1>2. PartialSums(f, Rest(S))[Rest(S)] = PartialSums(f, S)[Rest(S)]
    BY <1>1, PartialSumsAgree
  <1>3. PartialSums(f, S)[S] = Unfolded(f, PartialSums(f, S), S)
    BY PartialSum
  <1> QED BY <1>2, <1>3, SumUnfolds DEF Unfolded

LEMMA SumInt ==
  ASSUME NEW f, NEW S, IsFiniteSet(S), \A x \in S : f[x] \in Int
  PROVE  SumFunctionOnSet(f, S) \in Int
  <1> DEFINE P == {T \in SUBSET S : SumFunctionOnSet(f, T) \in Int}
  <1>1. ASSUME NEW T \in SUBSET S, \A U \in SUBSET T : U # T => U \in P
        PROVE  T \in P
    <2>1. CASE T = {}
      BY <2>1, SumEmpty
    <2>2. CASE T # {}
      <3>1. IsFiniteSet(T)
        BY FS_Subset
      <3>2. Picked(T) \in S /\ Rest(T) \in P
        BY <1>1, <2>2, RestSmaller
      <3> QED BY <2>2, <3>1, <3>2, SumPicked
    <2> QED BY <2>1, <2>2
  <1> HIDE DEF P
  <1>2. S \in P
    BY <1>1, FiniteInduction
  <1> QED BY <1>2 DEF P

LEMMA SumNat ==
  ASSUME NEW f, NEW S, IsFiniteSet(S), \A x \in S : f[x] \in Nat
  PROVE  SumFunctionOnSet(f, S) \in Nat
  <1> DEFINE P == {T \in SUBSET S : SumFunctionOnSet(f, T) \in Nat}
  <1>1. ASSUME NEW T \in SUBSET S, \A U \in SUBSET T : U # T => U \in P
        PROVE  T \in P
    <2>1. CASE T = {}
      BY <2>1, SumEmpty
    <2>2. CASE T # {}
      <3>1. IsFiniteSet(T)
        BY FS_Subset
      <3>2. Picked(T) \in S /\ Rest(T) \in P
        BY <1>1, <2>2, RestSmaller
      <3> QED BY <2>2, <3>1, <3>2, SumPicked
    <2> QED BY <2>1, <2>2
  <1> HIDE DEF P
  <1>2. S \in P
    BY <1>1, FiniteInduction
  <1> QED BY <1>2 DEF P

\* Any element may be taken out first.
LEMMA SumRemove ==
  ASSUME NEW f, NEW S, IsFiniteSet(S), \A y \in S : f[y] \in Int, NEW x \in S
  PROVE  SumFunctionOnSet(f, S) = f[x] + SumFunctionOnSet(f, S \ {x})
  <1> DEFINE Splits(T) == \A y \in T : SumFunctionOnSet(f, T) = f[y] + SumFunctionOnSet(f, T \ {y})
             P == {T \in SUBSET S : Splits(T)}
  <1>1. ASSUME NEW T \in SUBSET S, \A U \in SUBSET T : U # T => U \in P
        PROVE  T \in P
    <2>1. ASSUME NEW y \in T PROVE SumFunctionOnSet(f, T) = f[y] + SumFunctionOnSet(f, T \ {y})
      <3> DEFINE p == Picked(T)
      <3>1. IsFiniteSet(T) /\ IsFiniteSet(T \ {y}) /\ IsFiniteSet(Rest(T))
        BY FS_Subset, RestSmaller
      <3>2. SumFunctionOnSet(f, T) = f[p] + SumFunctionOnSet(f, Rest(T))
        BY <3>1, SumPicked
      <3>3. CASE y = p
        BY <3>2, <3>3 DEF Rest
      <3>4. CASE y # p
        <4>1. p \in T \ {y} /\ y \in Rest(T)
          BY <3>4, RestSmaller DEF Rest
        <4>2. Rest(T) \in P /\ T \ {y} \in P
          BY <1>1, RestSmaller
        <4>3. SumFunctionOnSet(f, Rest(T)) = f[y] + SumFunctionOnSet(f, Rest(T) \ {y})
          BY <4>1, <4>2
        <4>4. SumFunctionOnSet(f, T \ {y}) = f[p] + SumFunctionOnSet(f, (T \ {y}) \ {p})
          BY <4>1, <4>2
        <4>5. (T \ {y}) \ {p} = Rest(T) \ {y}
          BY DEF Rest
        <4>6. f[y] \in Int /\ f[p] \in Int
          BY <4>1
        <4>7. SumFunctionOnSet(f, Rest(T) \ {y}) \in Int
          <5>1. IsFiniteSet(Rest(T) \ {y}) /\ Rest(T) \ {y} \subseteq S
            BY <3>1, FS_Subset, RestSmaller
          <5> QED BY <5>1, SumInt
        <4>8. SumFunctionOnSet(f, T)
                = f[p] + (f[y] + SumFunctionOnSet(f, Rest(T) \ {y}))
          BY <3>2, <4>3
        <4>9. SumFunctionOnSet(f, T \ {y}) = f[p] + SumFunctionOnSet(f, Rest(T) \ {y})
          BY <4>4, <4>5
        <4> QED BY <4>6, <4>7, <4>8, <4>9
      <3> QED BY <3>3, <3>4
    <2> QED BY <2>1
  <1> HIDE DEF P
  <1>2. S \in P
    BY <1>1, FiniteInduction
  <1> QED BY <1>2 DEF P

-----------------------------------------------------------------------------
(* The sum of a function's values: of nothing but zeros, of one more, of   *)
(* one that changed.                                                       *)

LEMMA SumZeros ==
  ASSUME NEW S, IsFiniteSet(S)
  PROVE  SumFunction([x \in S |-> 0]) = 0
  <1> DEFINE f == [x \in S |-> 0]
             P == {T \in SUBSET S : SumFunctionOnSet(f, T) = 0}
  <1>1. ASSUME NEW T \in SUBSET S, \A U \in SUBSET T : U # T => U \in P
        PROVE  T \in P
    <2>1. CASE T = {}
      BY <2>1, SumEmpty
    <2>2. CASE T # {}
      <3>1. IsFiniteSet(T)
        BY FS_Subset
      <3>2. Picked(T) \in S /\ Rest(T) \in P
        BY <1>1, <2>2, RestSmaller
      <3>3. f[Picked(T)] = 0 /\ SumFunctionOnSet(f, Rest(T)) = 0
        BY <3>2
      <3> HIDE DEF f
      <3> QED BY <2>2, <3>1, <3>3, SumPicked
    <2> QED BY <2>1, <2>2
  <1> HIDE DEF P
  <1>2. S \in P
    BY <1>1, FiniteInduction
  <1> QED BY <1>2 DEF P, SumFunction

LEMMA SumFunctionNat ==
  ASSUME NEW S, IsFiniteSet(S), NEW f \in [S -> Nat]
  PROVE  SumFunction(f) \in Nat
  BY SumNat DEF SumFunction

LEMMA SumExtended ==
  ASSUME NEW S, IsFiniteSet(S), NEW x, x \notin S, NEW f \in [S \cup {x} -> Int],
         NEW g \in [S -> Int], \A y \in S : f[y] = g[y]
  PROVE  SumFunction(f) = f[x] + SumFunction(g)
  <1>1. IsFiniteSet(S \cup {x})
    BY FS_AddElement
  <1>2. (S \cup {x}) \ {x} = S /\ DOMAIN f = S \cup {x} /\ DOMAIN g = S
    OBVIOUS
  <1>3. SumFunctionOnSet(f, S \cup {x}) = f[x] + SumFunctionOnSet(f, (S \cup {x}) \ {x})
    BY <1>1, SumRemove
  <1>4. SumFunctionOnSet(f, S) = SumFunctionOnSet(g, S)
    BY SumSame
  <1> QED BY <1>2, <1>3, <1>4 DEF SumFunction

LEMMA SumUpdated ==
  ASSUME NEW S, IsFiniteSet(S), NEW f \in [S -> Int], NEW x \in S, NEW n \in Int
  PROVE  /\ SumFunction(f) \in Int
         /\ SumFunction([f EXCEPT ![x] = n]) = SumFunction(f) - f[x] + n
  <1> DEFINE g == [f EXCEPT ![x] = n]
  <1>1. g \in [S -> Int] /\ g[x] = n /\ (\A y \in S \ {x} : g[y] = f[y])
    OBVIOUS
  <1> HIDE DEF g
  <1>2. IsFiniteSet(S \ {x})
    BY FS_Subset
  <1>3. SumFunctionOnSet(f, S) = f[x] + SumFunctionOnSet(f, S \ {x})
    BY SumRemove
  <1>4. SumFunctionOnSet(g, S) = g[x] + SumFunctionOnSet(g, S \ {x})
    BY <1>1, SumRemove
  <1>5. SumFunctionOnSet(g, S \ {x}) = SumFunctionOnSet(f, S \ {x})
    BY <1>1, <1>2, SumSame
  <1>6. SumFunctionOnSet(f, S \ {x}) \in Int /\ f[x] \in Int
    BY <1>2, SumInt
  <1>7. DOMAIN f = S /\ DOMAIN g = S
    BY <1>1
  <1> QED BY <1>1, <1>3, <1>4, <1>5, <1>6, <1>7 DEF SumFunction, g

-----------------------------------------------------------------------------
(* The operations of a vault.                                              *)

\* What deposit takes from the wallet and from its pending tokens adds up.
LEMMA DepositSplit ==
  ASSUME NEW v \in VaultRecord, NEW w \in Wallets, NEW amount \in Nat
  PROVE  /\ FromPending(v, amount, w) \in Nat
         /\ FromPending(v, amount, w) <= v.pending[w]
         /\ FromWallet(v, amount, w) \in Nat
         /\ FromPending(v, amount, w) + FromWallet(v, amount, w) = amount
         /\ FromWallet(v, amount, w) > 0 => FromPending(v, amount, w) = v.pending[w]
  BY DEF VaultRecord, FromPending, FromWallet

\* deposit locks exactly the amount, wherever it came from.
LEMMA DepositSafe ==
  ASSUME NEW v \in VaultRecord, NEW w \in Wallets, NEW amount \in Nat,
         v.total <= v.balance, DepositAllowed(v, amount, w)
  PROVE  /\ Deposited(v, amount, w) \in VaultRecord
         /\ Deposited(v, amount, w).total <= Deposited(v, amount, w).balance
         /\ Unclaimed(Deposited(v, amount, w)) = Unclaimed(v) + amount
         /\ Deposited(v, amount, w).pending
              = [v.pending EXCEPT ![w] = @ - FromPending(v, amount, w)]
  <1> DEFINE reused == FromPending(v, amount, w)
             pulled == FromWallet(v, amount, w)
  <1>1. /\ reused \in Nat /\ pulled \in Nat /\ reused + pulled = amount
        /\ reused <= v.pending[w] /\ reused <= v.total
    BY DepositSplit DEF DepositAllowed
  <1>2. /\ v.balance + pulled \in Nat /\ v.total - reused \in Nat
        /\ v.total - reused <= v.balance + pulled
        /\ (v.balance + pulled) - (v.total - reused) = (v.balance - v.total) + amount
        /\ [v.pending EXCEPT ![w] = @ - reused] \in [Wallets -> Nat]
    BY <1>1 DEF VaultRecord
  <1>3. Deposited(v, amount, w) \in VaultRecord
    BY <1>2 DEF VaultRecord, Deposited
  <1>4. /\ Deposited(v, amount, w).balance = v.balance + pulled
        /\ Deposited(v, amount, w).total = v.total - reused
        /\ Deposited(v, amount, w).pending = [v.pending EXCEPT ![w] = @ - reused]
    BY DEF VaultRecord, Deposited
  <1> QED BY <1>2, <1>3, <1>4 DEF Unclaimed

\* withdraw releases exactly the amount, whether the transfer worked or not.
LEMMA WithdrawSafe ==
  ASSUME NEW v \in VaultRecord, NEW w \in Wallets, NEW amount \in Nat,
         NEW refused \in BOOLEAN, v.total <= v.balance, WithdrawAllowed(v, amount)
  PROVE  /\ Withdrawn(v, amount, w, refused) \in VaultRecord
         /\ Withdrawn(v, amount, w, refused).total <= Withdrawn(v, amount, w, refused).balance
         /\ Unclaimed(Withdrawn(v, amount, w, refused)) = Unclaimed(v) - amount
         /\ amount <= Unclaimed(v)
         /\ Withdrawn(v, amount, w, refused).pending
              = IF refused THEN [v.pending EXCEPT ![w] = @ + amount] ELSE v.pending
  <1>1. /\ [v.pending EXCEPT ![w] = @ + amount] \in [Wallets -> Nat]
        /\ v.total + amount \in Nat /\ v.total + amount <= v.balance
        /\ v.balance - amount \in Nat /\ v.total <= v.balance - amount
        /\ amount <= v.balance - v.total
        /\ v.balance - (v.total + amount) = (v.balance - v.total) - amount
        /\ (v.balance - amount) - v.total = (v.balance - v.total) - amount
    BY DEF VaultRecord, WithdrawAllowed
  <1> DEFINE r == Withdrawn(v, amount, w, refused)
  <1>2. CASE refused
    <2>1. r \in VaultRecord
      BY <1>1, <1>2 DEF VaultRecord, Withdrawn
    <2>2. /\ r.balance = v.balance /\ r.total = v.total + amount
          /\ r.pending = [v.pending EXCEPT ![w] = @ + amount]
      BY <1>2 DEF VaultRecord, Withdrawn
    <2> QED BY <1>1, <1>2, <2>1, <2>2 DEF Unclaimed
  <1>3. CASE ~refused
    <2>1. r \in VaultRecord
      BY <1>1, <1>3 DEF VaultRecord, Withdrawn
    <2>2. r.balance = v.balance - amount /\ r.total = v.total /\ r.pending = v.pending
      BY <1>3 DEF VaultRecord, Withdrawn
    <2> QED BY <1>1, <1>3, <2>1, <2>2 DEF Unclaimed
  <1> QED BY <1>2, <1>3

\* withdraw_pending leaves what the contract can release alone.
LEMMA WithdrawPendingSafe ==
  ASSUME NEW v \in VaultRecord, NEW w \in Wallets, NEW amount \in Nat,
         v.total <= v.balance, WithdrawPendingAllowed(v, amount, w)
  PROVE  /\ PendingWithdrawn(v, amount, w) \in VaultRecord
         /\ PendingWithdrawn(v, amount, w).total <= PendingWithdrawn(v, amount, w).balance
         /\ Unclaimed(PendingWithdrawn(v, amount, w)) = Unclaimed(v)
         /\ PendingWithdrawn(v, amount, w).pending = [v.pending EXCEPT ![w] = @ - amount]
  <1>1. /\ [v.pending EXCEPT ![w] = @ - amount] \in [Wallets -> Nat]
        /\ v.total - amount \in Nat /\ v.balance - amount \in Nat
        /\ v.total - amount <= v.balance - amount
        /\ (v.balance - amount) - (v.total - amount) = v.balance - v.total
    BY DEF VaultRecord, WithdrawPendingAllowed
  <1> DEFINE r == PendingWithdrawn(v, amount, w)
  <1>2. r \in VaultRecord
    BY <1>1 DEF VaultRecord, PendingWithdrawn
  <1>3. /\ r.balance = v.balance - amount /\ r.total = v.total - amount
        /\ r.pending = [v.pending EXCEPT ![w] = @ - amount]
    BY DEF VaultRecord, PendingWithdrawn
  <1> QED BY <1>1, <1>2, <1>3 DEF Unclaimed

LEMMA EmptyVaultSafe ==
  ASSUME NEW deployed \in BOOLEAN
  PROVE  /\ EmptyVault(deployed) \in VaultRecord
         /\ EmptyVault(deployed).total <= EmptyVault(deployed).balance
         /\ Unclaimed(EmptyVault(deployed)) = 0
  BY DEF VaultRecord, EmptyVault, Unclaimed

-----------------------------------------------------------------------------
(* Each operation changes the total by what it changes the entries.        *)

Summed(v) == v.total = SumFunction(v.pending)

LEMMA EmptyVaultSummed == ASSUME NEW deployed PROVE Summed(EmptyVault(deployed))
  BY SumZeros, WalletsAssumption DEF EmptyVault, Summed

\* One entry and the total change by the same amount.
LEMMA EntryChanged ==
  ASSUME NEW v \in VaultRecord, Summed(v), NEW w \in Wallets, NEW delta \in Int,
         NEW r, r.total = v.total + delta,
         r.pending = [v.pending EXCEPT ![w] = v.pending[w] + delta]
  PROVE  Summed(r)
  <1> DEFINE n == v.pending[w] + delta
  <1>1. /\ v.pending \in [Wallets -> Int] /\ v.pending[w] \in Int /\ v.total \in Int
        /\ n \in Int
    BY DEF VaultRecord
  <1> HIDE DEF n
  <1>2. /\ SumFunction(v.pending) \in Int
        /\ SumFunction([v.pending EXCEPT ![w] = n])
               = SumFunction(v.pending) - v.pending[w] + n
    BY <1>1, SumUpdated, WalletsAssumption
  <1>3. r.pending = [v.pending EXCEPT ![w] = n]
    BY DEF n
  <1> QED BY <1>1, <1>2, <1>3 DEF Summed, n

LEMMA DepositSummed ==
  ASSUME NEW v \in VaultRecord, Summed(v), NEW w \in Wallets, NEW amount \in Nat
  PROVE  Summed(Deposited(v, amount, w))
  <1> DEFINE reused == FromPending(v, amount, w)
             r == Deposited(v, amount, w)
  <1>1. reused \in Int /\ -reused \in Int
    BY DepositSplit
  <1> HIDE DEF reused
  <1>2. /\ v.total - reused = v.total + (-reused)
        /\ v.pending[w] - reused = v.pending[w] + (-reused)
    BY <1>1 DEF VaultRecord
  <1>3. /\ r.total = v.total - reused
        /\ r.pending = [v.pending EXCEPT ![w] = v.pending[w] - reused]
    BY DEF Deposited, VaultRecord, reused
  <1> HIDE DEF r
  <1>4. Summed(r)
    BY <1>1, <1>2, <1>3, EntryChanged
  <1> QED BY <1>4 DEF r

LEMMA WithdrawSummed ==
  ASSUME NEW v \in VaultRecord, Summed(v), NEW w \in Wallets, NEW amount \in Nat, NEW refused
  PROVE  Summed(Withdrawn(v, amount, w, refused))
  <1> DEFINE r == Withdrawn(v, amount, w, refused)
  <1>1. CASE refused
    <2>1. /\ r.total = v.total + amount
          /\ r.pending = [v.pending EXCEPT ![w] = v.pending[w] + amount]
      BY <1>1 DEF Withdrawn, VaultRecord
    <2> HIDE DEF r
    <2>2. Summed(r)
      BY <2>1, EntryChanged
    <2> QED BY <2>2 DEF r
  <1>2. CASE ~refused
    BY <1>2 DEF Withdrawn, VaultRecord, Summed
  <1> QED BY <1>1, <1>2

LEMMA WithdrawPendingSummed ==
  ASSUME NEW v \in VaultRecord, Summed(v), NEW w \in Wallets, NEW amount \in Nat
  PROVE  Summed(PendingWithdrawn(v, amount, w))
  <1> DEFINE r == PendingWithdrawn(v, amount, w)
  <1>1. /\ v.total - amount = v.total + (-amount)
        /\ v.pending[w] - amount = v.pending[w] + (-amount)
        /\ -amount \in Int
    BY DEF VaultRecord
  <1>2. /\ r.total = v.total - amount
        /\ r.pending = [v.pending EXCEPT ![w] = v.pending[w] - amount]
    BY DEF PendingWithdrawn, VaultRecord
  <1> HIDE DEF r
  <1>3. Summed(r)
    BY <1>1, <1>2, EntryChanged
  <1> QED BY <1>3 DEF r
=============================================================================
