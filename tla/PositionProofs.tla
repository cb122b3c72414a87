--------------------------- MODULE PositionProofs ---------------------------
(***************************************************************************)
(* The truncating arithmetic of module Position, for every scale, unit,    *)
(* threshold, price and amount: no rounding favours the liquidator, the    *)
(* fee on chain is kept, the trigger price tells the price at which a      *)
(* position turns, and a liquidation does not take it further from health. *)
(*                                                                         *)
(* Each conversion is a stage x -> (x * m) \div b.  The arguments bound a  *)
(* stage by the exact product and cancel the factors at the end, since a   *)
(* product of variables is beyond the solver unless it stands alone.       *)
(***************************************************************************)
EXTENDS Position, DataProofs

(* Conversions in stages                                                   *)

\* One stage of a conversion.
Scaled(x, m, b) == (x * m) \div b

LEMMA ScaledType ==
    ASSUME NEW x \in Nat, NEW m \in Nat, NEW b \in Nat \ {0}
    PROVE  Scaled(x, m, b) \in Nat
BY Products, Quotient DEF Scaled

\* A stage gives parts no more than the whole.
LEMMA ScaledSplits ==
    ASSUME NEW x \in Nat, NEW y \in Nat, NEW z \in Nat, x + y <= z,
           NEW m \in Nat, NEW b \in Nat \ {0}
    PROVE  Scaled(x, m, b) + Scaled(y, m, b) <= Scaled(z, m, b)
<1> DEFINE u == Scaled(x, m, b)
           v == Scaled(y, m, b)
<1>1. /\ u \in Nat /\ v \in Nat /\ x * m \in Nat /\ y * m \in Nat /\ z * m \in Nat
      /\ b * u <= x * m /\ b * v <= y * m
  BY Products, Quotient DEF Scaled
<1>2. (x + y) * m <= z * m
  BY TimesMonotone
<1>3. (x + y) * m = x * m + y * m
  OBVIOUS
<1> HIDE DEF u, v
<1>4. b * (u + v) = b * u + b * v
  BY <1>1
<1>5. b * (u + v) <= z * m
  BY <1>1, <1>2, <1>3, <1>4
<1>6. u + v <= (z * m) \div b
  BY <1>1, <1>5, QuotientIsMost
<1> QED BY <1>6 DEF u, v, Scaled

-----------------------------------------------------------------------------
(* The conversions, in stages                                              *)

\* Types of the variables that the arithmetic reads.
PositionType ==
    /\ protocol \in {"Kamino", "Save", "Project0"}
    /\ deposits \in [{Coll, Other} -> Nat] /\ borrows \in [{Debt} -> Nat]
    /\ prices \in [Assets -> Nat \cup {None}]
    /\ fee_account = None \/ fee_account.max_fee \in Int
    /\ repaid \in Nat /\ seized \in Nat

LEMMA Scales ==
    /\ Micro \in Nat \ {0} /\ PriceScale \in Nat \ {0} /\ Bps \in Nat \ {0}
    /\ FeeOne \in Nat \ {0} /\ U64 \in Nat \ {0}
    /\ \A a \in Assets : Unit[a] \in Nat \ {0} /\ LiqThreshold[a] \in Nat
    /\ Coll \in Assets /\ Other \in Assets /\ Debt \in Assets
    /\ Bonus \in Nat
BY ScaleAssumption, PositionAssumption DEF Assets

LEMMA AmountIsScaled ==
    ASSUME NEW x \in Nat, NEW u \in Nat \ {0}, NEW p \in Nat
    PROVE  /\ AmountToUsdMicro(x, u, p) = Scaled(x, p * Micro, u * PriceScale)
           /\ p * Micro \in Nat /\ u * PriceScale \in Nat \ {0}
           /\ AmountToUsdMicro(x, u, p) \in Nat
<1>1. Micro \in Nat /\ PriceScale \in Nat \ {0}
  BY Scales
<1>2. p * Micro \in Nat /\ u * PriceScale \in Nat \ {0}
  BY <1>1, Products
<1>3. x * p * Micro = x * (p * Micro)
  BY <1>1
<1>4. AmountToUsdMicro(x, u, p) = Scaled(x, p * Micro, u * PriceScale)
  BY <1>3 DEF AmountToUsdMicro, Scaled
<1> QED BY <1>2, <1>4, ScaledType

\* With a rate or a fee of n basis points on top.
LEMMA BonusIsScaled ==
    ASSUME NEW x \in Nat, NEW n \in Nat
    PROVE  Bps + n \in Nat /\ Scaled(x, Bps + n, Bps) \in Nat
<1>1. Bps \in Nat \ {0} /\ Bps + n \in Nat
  BY Scales
<1> QED BY <1>1, ScaledType

\* Three stages, from a repayment to the collateral it is worth.
LEMMA CollateralIsScaled ==
    ASSUME NEW x \in Nat, NEW u \in Nat \ {0}, NEW p \in Nat, NEW v \in Nat \ {0},
           NEW q \in Nat \ {0}, NEW n \in Nat
    PROVE  /\ CollateralWorth(x, u, p, v, q, n)
                  = Scaled(Scaled(AmountToUsdMicro(x, u, p), Bps + n, Bps),
                           v * PriceScale, q * Micro)
           /\ CollateralWorth(x, u, p, v, q, n) \in Nat
<1> DEFINE usd == AmountToUsdMicro(x, u, p)
           with == Scaled(usd, Bps + n, Bps)
<1>1. PriceScale \in Nat \ {0} /\ Micro \in Nat \ {0}
  BY Scales
<1>2. v * PriceScale \in Nat /\ q * Micro \in Nat \ {0}
  BY <1>1, Products
<1>3. usd \in Nat
  BY AmountIsScaled
<1>4. with = (usd * (Bps + n)) \div Bps
  BY DEF Scaled
<1>5. CollateralWorth(x, u, p, v, q, n) = (with * v * PriceScale) \div (q * Micro)
  BY <1>4 DEF CollateralWorth
<1> HIDE DEF usd
<1>6. with \in Nat
  BY <1>3, BonusIsScaled
<1> HIDE DEF with
<1>7. with * v * PriceScale = with * (v * PriceScale)
  BY <1>1, <1>6
<1>8. CollateralWorth(x, u, p, v, q, n) = Scaled(with, v * PriceScale, q * Micro)
  BY <1>5, <1>7 DEF Scaled
<1>9. Scaled(with, v * PriceScale, q * Micro) \in Nat
  BY <1>2, <1>6, ScaledType
<1> QED BY <1>8, <1>9 DEF with, usd

\* The fee that the client takes as the limit.
FeesRead ==
    protocol = "Project0" => /\ FeeStateView(fee_account) # None
                             /\ FeeStateView(fee_account).max_fee_bps \in Nat

Priced == prices[Coll] \in Nat /\ prices[Debt] \in Nat

LEMMA AmountSplits ==
    ASSUME NEW x \in Nat, NEW y \in Nat, NEW z \in Nat, x + y <= z,
           NEW u \in Nat \ {0}, NEW p \in Nat
    PROVE  /\ AmountToUsdMicro(x, u, p) + AmountToUsdMicro(y, u, p)
                  <= AmountToUsdMicro(z, u, p)
           /\ AmountToUsdMicro(x, u, p) \in Nat
           /\ AmountToUsdMicro(y, u, p) \in Nat
           /\ AmountToUsdMicro(z, u, p) \in Nat
<1> DEFINE U(a) == AmountToUsdMicro(a, u, p)
           g == p * Micro
           h == u * PriceScale
<1>1. U(x) = Scaled(x, g, h) /\ U(x) \in Nat /\ g \in Nat /\ h \in Nat \ {0}
  BY AmountIsScaled
<1>2. U(y) = Scaled(y, g, h) /\ U(y) \in Nat
  BY AmountIsScaled
<1>3. U(z) = Scaled(z, g, h) /\ U(z) \in Nat
  BY AmountIsScaled
<1> HIDE DEF U, g, h
<1>4. Scaled(x, g, h) + Scaled(y, g, h) <= Scaled(z, g, h)
  BY <1>1, ScaledSplits
<1>5. U(x) + U(y) <= U(z)
  BY <1>1, <1>2, <1>3, <1>4
<1> QED BY <1>1, <1>2, <1>3, <1>5 DEF U

\* Parts are worth no more than their sum.
LEMMA KaminoSplits ==
    ASSUME NEW x \in Nat, NEW y \in Nat, NEW z \in Nat, x + y <= z,
           NEW u \in Nat \ {0}, NEW p \in Nat, NEW v \in Nat \ {0},
           NEW q \in Nat, NEW n \in Nat
    PROVE  /\ CollateralWorth(x, u, p, v, q, n) + CollateralWorth(y, u, p, v, q, n)
                  <= CollateralWorth(z, u, p, v, q, n)
           /\ CollateralWorth(x, u, p, v, q, n) \in Nat
           /\ CollateralWorth(y, u, p, v, q, n) \in Nat
           /\ CollateralWorth(z, u, p, v, q, n) \in Nat
<1>1. CASE q = 0
  <2>1. /\ CollateralWorth(x, u, p, v, q, n) = 0 /\ CollateralWorth(y, u, p, v, q, n) = 0
        /\ CollateralWorth(z, u, p, v, q, n) = 0
    BY <1>1 DEF CollateralWorth
  <2> QED BY <2>1
<1>2. CASE q # 0
  <2> DEFINE U(a) == AmountToUsdMicro(a, u, p)
             W(a) == Scaled(U(a), Bps + n, Bps)
             C(a) == CollateralWorth(a, u, p, v, q, n)
             m == v * PriceScale
             d == q * Micro
  <2>1. /\ PriceScale \in Nat \ {0} /\ Micro \in Nat \ {0} /\ Bps \in Nat \ {0}
        /\ Bps + n \in Nat
    BY Scales
  <2>2. m \in Nat /\ d \in Nat \ {0}
    BY <1>2, <2>1, Products
  <2>3. U(x) \in Nat /\ U(y) \in Nat /\ U(z) \in Nat /\ U(x) + U(y) <= U(z)
    BY AmountSplits
  <2>4. /\ C(x) = Scaled(W(x), m, d) /\ C(y) = Scaled(W(y), m, d) /\ C(z) = Scaled(W(z), m, d)
        /\ C(x) \in Nat /\ C(y) \in Nat /\ C(z) \in Nat
    <3>1. q \in Nat \ {0}
      BY <1>2
    <3>2. C(x) = Scaled(W(x), m, d) /\ C(x) \in Nat
      BY <3>1, CollateralIsScaled
    <3>3. C(y) = Scaled(W(y), m, d) /\ C(y) \in Nat
      BY <3>1, CollateralIsScaled
    <3>4. C(z) = Scaled(W(z), m, d) /\ C(z) \in Nat
      BY <3>1, CollateralIsScaled
    <3> HIDE DEF C, W, m, d
    <3> QED BY <3>2, <3>3, <3>4
  <2> HIDE DEF U, m, d, C
  <2>5. W(x) \in Nat /\ W(y) \in Nat /\ W(z) \in Nat
    BY <2>3, BonusIsScaled
  <2>6. W(x) + W(y) <= W(z)
    <3> DEFINE a == U(x)
               b == U(y)
               c == U(z)
               k == Bps + n
    <3>1. a \in Nat /\ b \in Nat /\ c \in Nat /\ a + b <= c /\ k \in Nat
      BY <2>1, <2>3
    <3> HIDE DEF a, b, c, k
    <3>2. Scaled(a, k, Bps) + Scaled(b, k, Bps) <= Scaled(c, k, Bps)
      BY <2>1, <3>1, ScaledSplits
    <3> QED BY <3>2 DEF a, b, c, k
  <2> HIDE DEF W
  <2>7. Scaled(W(x), m, d) + Scaled(W(y), m, d) <= Scaled(W(z), m, d)
    BY <2>2, <2>5, <2>6, ScaledSplits
  <2>8. C(x) + C(y) <= C(z)
    BY <2>4, <2>7
  <2> QED BY <2>4, <2>8 DEF C
<1> QED BY <1>1, <1>2

LEMMA SaveSplits ==
    ASSUME NEW x \in Nat, NEW y \in Nat, NEW z \in Nat, x + y <= z,
           NEW u \in Nat \ {0}, NEW t \in Nat, NEW n \in Nat
    PROVE  /\ SeizeCollateralWorth(x, t, u, n) + SeizeCollateralWorth(y, t, u, n)
                  <= SeizeCollateralWorth(z, t, u, n)
           /\ SeizeCollateralWorth(x, t, u, n) \in Nat
           /\ SeizeCollateralWorth(y, t, u, n) \in Nat
           /\ SeizeCollateralWorth(z, t, u, n) \in Nat
<1>1. CASE t = 0
  <2>1. /\ SeizeCollateralWorth(x, t, u, n) = 0 /\ SeizeCollateralWorth(y, t, u, n) = 0
        /\ SeizeCollateralWorth(z, t, u, n) = 0
    BY <1>1 DEF SeizeCollateralWorth
  <2> QED BY <2>1
<1>2. CASE t # 0
  <2> DEFINE k == Bps + n
             W(a) == Scaled(a, k, Bps)
             C(a) == SeizeCollateralWorth(a, t, u, n)
  <2>1. Bps \in Nat \ {0} /\ k \in Nat
    BY Scales
  <2>2. C(x) = Scaled(W(x), u, t) /\ C(y) = Scaled(W(y), u, t) /\ C(z) = Scaled(W(z), u, t)
    BY <1>2 DEF SeizeCollateralWorth, Scaled
  <2> HIDE DEF k, C
  <2>3. W(x) \in Nat /\ W(y) \in Nat /\ W(z) \in Nat
    BY <2>1, ScaledType
  <2>4. W(x) + W(y) <= W(z)
    BY <2>1, ScaledSplits
  <2> HIDE DEF W
  <2>5. /\ Scaled(W(x), u, t) + Scaled(W(y), u, t) <= Scaled(W(z), u, t)
        /\ Scaled(W(x), u, t) \in Nat /\ Scaled(W(y), u, t) \in Nat
        /\ Scaled(W(z), u, t) \in Nat
    BY <1>2, <2>3, <2>4, ScaledSplits, ScaledType
  <2>6. /\ C(x) + C(y) <= C(z) /\ C(x) \in Nat /\ C(y) \in Nat /\ C(z) \in Nat
    BY <2>2, <2>5
  <2> QED BY <2>6 DEF C
<1> QED BY <1>1, <1>2

-----------------------------------------------------------------------------
(* What a step settles                                                     *)

LEMMA Remainder ==
    ASSUME NEW a \in Nat, NEW b \in Nat \ {0}
    PROVE  a % b \in Nat /\ a % b <= a
OBVIOUS

LEMMA NotBelowZero ==
    ASSUME NEW d \in Int
    PROVE  Max({0, d}) \in Nat
<1>1. \E x \in {0, d} : \A y \in {0, d} : x >= y
  <2>1. CASE d >= 0
    BY <2>1
  <2>2. CASE 0 >= d
    BY <2>2
  <2> QED BY <2>1, <2>2
<1>2. Max({0, d}) \in {0, d} /\ \A y \in {0, d} : Max({0, d}) >= y
  BY <1>1, Zenon DEF Max
<1> QED BY <1>2

LEMMA MinOfTwo ==
    ASSUME NEW a \in Int, NEW b \in Int
    PROVE  Min({a, b}) \in {a, b} /\ Min({a, b}) <= a /\ Min({a, b}) <= b
<1>1. \E x \in {a, b} : \A y \in {a, b} : x <= y
  <2>1. CASE a <= b
    BY <2>1
  <2>2. CASE b <= a
    BY <2>2
  <2> QED BY <2>1, <2>2
<1> QED BY <1>1 DEF Min

LEMMA MinOfThree ==
    ASSUME NEW a \in Int, NEW b \in Int, NEW c \in Int
    PROVE  Min({a, b, c}) \in {a, b, c} /\ Min({a, b, c}) <= b /\ Min({a, b, c}) <= c
<1>1. PICK x \in {a, b} : \A y \in {a, b} : x <= y
  <2>1. CASE a <= b
    BY <2>1
  <2>2. CASE b <= a
    BY <2>2
  <2> QED BY <2>1, <2>2
<1>2. \E z \in {a, b, c} : \A y \in {a, b, c} : z <= y
  <2>1. CASE x <= c
    BY <1>1, <2>1
  <2>2. CASE c <= x
    BY <1>1, <2>2
  <2> QED BY <1>1, <2>1, <2>2
<1> QED BY <1>2 DEF Min

\* A fraction of at most one.
LEMMA FractionFits ==
    ASSUME NEW x \in Nat, NEW m \in Nat, NEW b \in Nat \ {0}, m <= b
    PROVE  Scaled(x, m, b) \in Nat /\ Scaled(x, m, b) <= x
<1> DEFINE q == Scaled(x, m, b)
<1>1. x * m \in Nat /\ q \in Nat /\ b * q <= x * m
  BY Products, Quotient DEF Scaled
<1>2. m * x <= b * x
  BY TimesMonotone
<1> HIDE DEF q
<1>3. q * b <= x * b
  BY <1>1, <1>2
<1>4. ~(x < q)
  <2>1. ASSUME x < q PROVE FALSE
    <3>1. x + 1 <= q
      BY <1>1, <2>1
    <3>2. (x + 1) * b <= q * b
      BY <1>1, <3>1, TimesMonotone
    <3>3. (x + 1) * b = x * b + b
      OBVIOUS
    <3> QED BY <1>1, <1>3, <3>2, <3>3
  <2> QED BY <2>1
<1>5. q <= x
  BY <1>1, <1>4
<1> QED BY <1>1, <1>5 DEF q

LEMMA UsdType ==
    ASSUME PositionType, NEW x \in Nat, NEW a \in Assets, prices[a] \in Nat
    PROVE  Usd(x, a) \in Nat
BY Scales, AmountIsScaled DEF Usd

LEMMA UnitsType ==
    ASSUME NEW usd \in Nat, NEW a \in Assets, prices[a] \in Nat
    PROVE  UnitsOf(usd, a) \in Nat
<1>1. CASE prices[a] = 0
  BY <1>1 DEF UnitsOf
<1>2. CASE prices[a] # 0
  <2> DEFINE p == prices[a]
             u == Unit[a]
  <2>1. p \in Nat \ {0} /\ u \in Nat /\ PriceScale \in Nat /\ Micro \in Nat \ {0}
    BY <1>2, Scales
  <2>2. UnitsOf(usd, a) = (usd * u * PriceScale) \div (p * Micro)
    BY <1>2 DEF UnitsOf
  <2> HIDE DEF p, u
  <2>3. usd * u \in Nat /\ p * Micro \in Nat \ {0}
    BY <2>1, Products
  <2>4. usd * u * PriceScale \in Nat
    BY <2>1, <2>3, Products
  <2> QED BY <2>2, <2>3, <2>4, Quotient
<1> QED BY <1>1, <1>2

LEMMA SettleType ==
    ASSUME PositionType, NEW repay \in Nat, repay <= borrows[Debt], NEW seize \in Nat,
           NEW paid \in Nat, NEW out \in Nat, Settle(repay, seize, paid, out)
    PROVE  PositionType'
<1>1. /\ protocol' = protocol /\ prices' = prices /\ fee_account' = fee_account
      /\ repaid' = repaid + paid /\ seized' = seized + out
      /\ deposits' = [deposits EXCEPT ![Coll] = Max({0, deposits[Coll] - seize})]
      /\ borrows' = [borrows EXCEPT ![Debt] = borrows[Debt] - repay]
  BY DEF Settle
<1>2. deposits[Coll] \in Nat /\ borrows[Debt] \in Nat
  BY DEF PositionType
<1>3. deposits[Coll] - seize \in Int /\ borrows[Debt] - repay \in Nat
  BY <1>2
<1>4. Max({0, deposits[Coll] - seize}) \in Nat
  <2> DEFINE d == deposits[Coll] - seize
  <2>1. d \in Int
    BY <1>3
  <2> HIDE DEF d
  <2>2. Max({0, d}) \in Nat
    BY <2>1, NotBelowZero, Zenon
  <2> QED BY <2>2 DEF d
<1>5. deposits' \in [{Coll, Other} -> Nat]
  BY <1>1, <1>4 DEF PositionType
<1>6. borrows' \in [{Debt} -> Nat]
  BY <1>1, <1>3 DEF PositionType
<1> QED BY <1>1, <1>5, <1>6 DEF PositionType

\* What is liquidated has prices.
LEMMA LiquidatableIsPriced ==
    ASSUME PositionType, Liquidatable, borrows[Debt] > 0, prices[Coll] # None
    PROVE  Priced
<1>1. ~MissingPrice(borrows, prices)
  <2>1. CASE protocol = "Project0"
    <3>1. Maintenance(deposits, borrows) # None
      BY <2>1 DEF Liquidatable
    <3> QED BY <3>1 DEF Maintenance, MaintenanceHealth
  <2>2. CASE protocol # "Project0"
    <3>1. Health # None
      BY <2>2 DEF Liquidatable, IsLiquidatable
    <3> QED BY <3>1 DEF Health, SaveObligationHealth, ObligationHealth
  <2> QED BY <2>1, <2>2
<1>2. prices[Debt] # None
  BY <1>1 DEF MissingPrice, PositionType
<1>3. prices[Debt] \in Nat \cup {None} /\ prices[Coll] \in Nat \cup {None}
  BY Scales DEF PositionType
<1> QED BY <1>2, <1>3 DEF Priced

-----------------------------------------------------------------------------
(* Parts and their sum                                                     *)

LEMMA WorthSplits ==
    ASSUME PositionType, Priced, FeesRead, NEW x \in Nat, NEW y \in Nat, NEW z \in Nat,
           x + y <= z
    PROVE  /\ Worth(x) + Worth(y) <= Worth(z)
           /\ Worth(x) \in Nat /\ Worth(y) \in Nat /\ Worth(z) \in Nat
<1> DEFINE u == Unit[Debt]
           p == prices[Debt]
           v == Unit[Coll]
           q == prices[Coll]
<1>1. /\ u \in Nat \ {0} /\ v \in Nat \ {0} /\ p \in Nat /\ q \in Nat /\ Bonus \in Nat
      /\ Bps \in Nat \ {0}
  BY Scales DEF Priced
<1>2. CASE protocol = "Kamino"
  <2>1. /\ Worth(x) = CollateralWorth(x, u, p, v, q, Bonus)
        /\ Worth(y) = CollateralWorth(y, u, p, v, q, Bonus)
        /\ Worth(z) = CollateralWorth(z, u, p, v, q, Bonus)
    BY <1>2 DEF Worth
  <2> HIDE DEF u, p, v, q
  <2> QED BY <1>1, <2>1, KaminoSplits
<1>3. CASE protocol = "Save"
  <2> DEFINE U(a) == AmountToUsdMicro(a, u, p)
             t == AmountToUsdMicro(v, v, q)
             C(a) == SeizeCollateralWorth(U(a), t, v, Bonus)
  <2>1. Worth(x) = C(x) /\ Worth(y) = C(y) /\ Worth(z) = C(z)
    BY <1>3 DEF Worth, Usd
  <2> HIDE DEF u, p, v, q
  <2>2. /\ U(x) \in Nat /\ U(y) \in Nat /\ U(z) \in Nat /\ U(x) + U(y) <= U(z)
    BY <1>1, AmountSplits
  <2>3. t \in Nat
    BY <1>1, AmountIsScaled
  <2> HIDE DEF U, t
  <2>4. /\ C(x) + C(y) <= C(z) /\ C(x) \in Nat /\ C(y) \in Nat /\ C(z) \in Nat
    BY <1>1, <2>2, <2>3, SaveSplits
  <2> QED BY <2>1, <2>4
<1>4. CASE protocol = "Project0"
  <2> DEFINE k == Bps + FeeStateView(fee_account).max_fee_bps
  <2>1. Worth(x) = Scaled(x, k, Bps) /\ Worth(y) = Scaled(y, k, Bps) /\ Worth(z) = Scaled(z, k, Bps)
    BY <1>4 DEF Worth, MaxSeizeForRepay, Scaled
  <2>2. k \in Nat
    BY <1>1, <1>4 DEF FeesRead
  <2> HIDE DEF k
  <2> QED BY <1>1, <2>1, <2>2, ScaledSplits, ScaledType
<1> QED BY <1>2, <1>3, <1>4 DEF PositionType

\* The prices have been known since the first part.
SplitInv ==
    \/ repaid = 0 /\ seized = 0
    \/ Priced /\ FeesRead /\ seized <= Worth(repaid)

LEMMA SettleSplits ==
    ASSUME PositionType, SplitInv, Priced, FeesRead, NEW repay, NEW seize,
           NEW paid \in Nat, NEW out \in Nat, out <= Worth(paid),
           Settle(repay, seize, paid, out)
    PROVE  SplitInv'
<1>1. /\ protocol' = protocol /\ prices' = prices /\ fee_account' = fee_account
      /\ repaid' = repaid + paid /\ seized' = seized + out
  BY DEF Settle
<1>2. repaid \in Nat /\ seized \in Nat
  BY DEF PositionType
<1>3. seized <= Worth(repaid)
  <2>1. CASE repaid = 0 /\ seized = 0
    BY <2>1, WorthSplits
  <2>2. CASE seized <= Worth(repaid)
    BY <2>2
  <2> QED BY <2>1, <2>2 DEF SplitInv
<1> DEFINE r == repaid + paid
<1>4. r \in Nat /\ repaid + paid <= r
  BY <1>2
<1> HIDE DEF r
<1>5. /\ Worth(repaid) + Worth(paid) <= Worth(r)
      /\ Worth(repaid) \in Nat /\ Worth(paid) \in Nat /\ Worth(r) \in Nat
  BY <1>2, <1>4, WorthSplits
<1>6. seized + out <= Worth(r)
  BY <1>2, <1>3, <1>5
<1>7. Worth(repaid)' = Worth(repaid + paid)
  BY <1>1 DEF Worth, Usd
<1>8. seized' <= Worth(repaid)'
  BY <1>1, <1>6, <1>7 DEF r
<1>9. Priced' /\ FeesRead'
  BY <1>1 DEF Priced, FeesRead
<1> QED BY <1>8, <1>9 DEF SplitInv

-----------------------------------------------------------------------------
(* The fee                                                                 *)

\* A fee that was read is the nearest number of basis points.
LEMMA FeeFacts ==
    ASSUME PositionType, FeeStateView(fee_account) # None
    PROVE  /\ FeeStateView(fee_account).max_fee_bps \in Nat
           /\ fee_account # None =>
                 /\ fee_account.max_fee \in Nat
                 /\ FeeStateView(fee_account).max_fee_bps
                       = (fee_account.max_fee * Bps + FeeOne \div 2) \div FeeOne
<1>1. CASE fee_account = None
  BY <1>1, FeeAssumption DEF FeeStateView
<1>2. CASE fee_account # None
  <2> DEFINE raw == fee_account.max_fee
             half == FeeOne \div 2
             bps == (raw * Bps + half) \div FeeOne
  <2>1. FeeStateView(fee_account) = ParseFeeState(fee_account)
    BY <1>2 DEF FeeStateView
  <2>2. I80f48ToBps(raw) # None
    BY <2>1 DEF ParseFeeState
  <2>3. raw \in Int
    BY <1>2 DEF PositionType
  <2>4. I80f48ToBps(raw) = BpsOrError(raw, bps)
    BY DEF I80f48ToBps
  <2> HIDE DEF bps
  <2>5. ~(raw < 0) /\ I80f48ToBps(raw) = bps
    BY <2>2, <2>4 DEF BpsOrError
  <2>6. raw \in Nat
    BY <2>3, <2>5
  <2>7. FeeStateView(fee_account).max_fee_bps = bps
    BY <2>1, <2>2, <2>5 DEF ParseFeeState, FeeStateView
  <2>8. bps \in Nat
    <3>1. Bps \in Nat /\ FeeOne \in Nat \ {0} /\ half \in Nat
      <4>1. FeeOne \in Nat \ {0} /\ 2 \in Nat \ {0}
        BY Scales
      <4> QED BY <4>1, Scales, Quotient
    <3> HIDE DEF raw, half
    <3>2. raw * Bps \in Nat
      BY <2>6, <3>1, Products
    <3>3. raw * Bps + half \in Nat
      BY <3>1, <3>2
    <3> QED BY <3>1, <3>3, Quotient DEF bps
  <2> QED BY <2>6, <2>7, <2>8 DEF bps
<1> QED BY <1>1, <1>2

\* Within half a basis point of the fee.
LEMMA FeeBound ==
    ASSUME NEW raw \in Nat, NEW r \in Nat, NEW s \in Nat,
           s <= Scaled(r, Bps + ((raw * Bps + FeeOne \div 2) \div FeeOne), Bps)
    PROVE  2 * Bps * FeeOne * s <= r * (2 * Bps * FeeOne + 2 * Bps * raw + FeeOne)
<1> DEFINE half == FeeOne \div 2
           f == (raw * Bps + half) \div FeeOne
           w == Scaled(r, Bps + f, Bps)
<1>1. Bps \in Nat \ {0} /\ FeeOne \in Nat \ {0} /\ 2 \in Nat \ {0}
  BY Scales
<1>2. half \in Nat /\ 2 * half <= FeeOne
  BY <1>1, Quotient
<1> HIDE DEF half
<1>3. raw * Bps \in Nat
  BY <1>1, Products
<1>4. f \in Nat /\ FeeOne * f <= raw * Bps + half
  <2>1. raw * Bps + half \in Nat
    BY <1>2, <1>3
  <2> QED BY <1>1, <2>1, Quotient
<1>5. s <= w
  BY DEF half
<1> HIDE DEF f
<1>6. w \in Nat /\ Bps * w <= r * (Bps + f)
  <2>1. Bps + f \in Nat
    BY <1>1, <1>4
  <2>2. r * (Bps + f) \in Nat
    BY <2>1, Products
  <2> QED BY <1>1, <2>2, Quotient DEF Scaled
<1> HIDE DEF w
<1>7. Bps * s <= r * (Bps + f)
  <2>1. s * Bps <= w * Bps
    BY <1>1, <1>5, <1>6, TimesMonotone
  <2>2. Bps * s = s * Bps /\ Bps * w = w * Bps /\ s * Bps \in Nat /\ w * Bps \in Nat
    BY <1>1, <1>6
  <2> DEFINE e == r * (Bps + f)
             x == Bps * s
             y == Bps * w
  <2>3. e \in Int
    BY <1>1, <1>4
  <2>4. x \in Nat /\ y \in Nat /\ x <= y /\ y <= e
    BY <1>6, <2>1, <2>2
  <2> HIDE DEF e, x, y
  <2>5. x <= e
    BY <2>3, <2>4
  <2> QED BY <2>5 DEF e, x
<1> DEFINE F == FeeOne * f
           P == raw * Bps
           L == Bps * s
           Q == r * (Bps + f)
           D == 2 * FeeOne
<1>8. F \in Nat /\ P \in Nat /\ L \in Nat /\ Q \in Nat /\ D \in Nat
  BY <1>1, <1>3, <1>4, Products
<1>9. 2 * F <= 2 * P + FeeOne
  <2> HIDE DEF F, P
  <2> QED BY <1>1, <1>2, <1>4, <1>8 DEF F, P
<1>10. L * D <= Q * D
  <2>1. L <= Q
    BY <1>7
  <2> HIDE DEF L, Q, D
  <2> QED BY <1>8, <2>1, TimesMonotone
<1>11. L * D = 2 * Bps * FeeOne * s
  BY <1>1
<1>12. Q * D = r * (2 * Bps * FeeOne + 2 * F)
  BY <1>1, <1>4
<1> DEFINE A == 2 * Bps * FeeOne + 2 * F
           B == 2 * Bps * FeeOne + 2 * P + FeeOne
<1>13. A \in Nat /\ B \in Nat /\ A <= B
  <2> DEFINE E == 2 * Bps * FeeOne
  <2>1. E \in Nat
    BY <1>1, Products
  <2> HIDE DEF E, F, P
  <2> QED BY <1>1, <1>8, <1>9, <2>1
<1>14. r * A <= r * B
  <2> HIDE DEF A, B
  <2>1. A * r <= B * r
    BY <1>13, TimesMonotone
  <2> QED BY <1>13, <2>1
<1>15. B = 2 * Bps * FeeOne + 2 * Bps * raw + FeeOne
  BY <1>1
<1>16. L * D <= r * B
  <2>1. L * D <= r * A
    BY <1>10, <1>12
  <2>2. L * D \in Nat /\ r * A \in Nat /\ r * B \in Nat
    <3> HIDE DEF L, D, A, B
    <3> QED BY <1>8, <1>13, Products
  <2> HIDE DEF L, D, A, B
  <2> QED BY <1>14, <2>1, <2>2
<1> QED BY <1>11, <1>15, <1>16

-----------------------------------------------------------------------------
(* What every liquidation does                                             *)

\* Prices are known, no more is repaid than owed, and what is counted as seized is
\* at most what is counted as repaid is worth.
Settled ==
    \E repay \in Nat, seize \in Nat, paid \in Nat, out \in Nat :
       /\ Settle(repay, seize, paid, out)
       /\ repay <= borrows[Debt] /\ Priced
       /\ \/ protocol = "Project0" /\ paid = 0 /\ out = 0
          \/ FeesRead /\ out <= Worth(paid)
       /\ protocol # "Project0" => paid = repay /\ out = seize /\ Liquidatable

LEMMA KaminoSettles == PositionType /\ LiquidateKamino => Settled
<1> SUFFICES ASSUME PositionType, LiquidateKamino PROVE Settled
  OBVIOUS
<1> DEFINE cap == MaxRepayAmount(borrows[Debt], CloseFactor)
           b == borrows[Debt]
<1>1. b \in Nat /\ CloseFactor \in Nat /\ CloseFactor <= Bps /\ Bps \in Nat \ {0}
  BY PositionAssumption, Scales DEF PositionType
<1>2. cap \in Nat /\ cap <= b
  <2>1. cap = Scaled(b, CloseFactor, Bps)
    BY DEF MaxRepayAmount, Scaled
  <2> HIDE DEF cap, b
  <2> QED BY <1>1, <2>1, FractionFits
<1>3. PICK repay \in {cap} \cup {w \in Wanted : w <= cap} :
          repay > 0 /\ Settle(repay, KaminoOut(repay), repay, KaminoOut(repay))
  BY DEF LiquidateKamino
<1>4. repay \in Nat /\ repay <= cap
  <2> HIDE DEF cap
  <2> QED BY <1>2, <1>3, PositionAssumption
<1>5. b > 0 /\ repay <= b
  <2> HIDE DEF cap, b
  <2> QED BY <1>1, <1>2, <1>3, <1>4
<1>6. protocol = "Kamino" /\ Liquidatable /\ prices[Coll] # None
  BY DEF LiquidateKamino
<1>7. Priced
  BY <1>5, <1>6, LiquidatableIsPriced
<1>8. FeesRead
  BY <1>6 DEF FeesRead
<1>9. Worth(repay) \in Nat
  BY <1>4, <1>7, <1>8, WorthSplits
<1> DEFINE out == KaminoOut(repay)
<1>10. out \in Nat /\ out <= Worth(repay)
  <2>1. out = Worth(repay) % U64
    BY <1>6 DEF KaminoOut, CollateralOutAmount, Worth
  <2> HIDE DEF out
  <2> QED BY <1>9, <2>1, Scales, Remainder
<1> HIDE DEF out
<1>11. Settle(repay, out, repay, out)
  BY <1>3 DEF out
<1> HIDE DEF cap
<1> QED BY <1>4, <1>5, <1>6, <1>7, <1>8, <1>10, <1>11 DEF Settled

LEMMA SaveSettles == PositionType /\ LiquidateSave => Settled
<1> SUFFICES ASSUME PositionType, LiquidateSave PROVE Settled
  OBVIOUS
<1> DEFINE b == borrows[Debt]
           cap == MaxRepayAmount(b, CloseFactor)
<1>1. b \in Nat /\ CloseFactor \in Nat /\ CloseFactor <= Bps /\ Bps \in Nat \ {0}
  BY PositionAssumption, Scales DEF PositionType
<1>2. cap \in Nat /\ cap <= b
  <2>1. cap = Scaled(b, CloseFactor, Bps)
    BY DEF MaxRepayAmount, Scaled
  <2> HIDE DEF cap, b
  <2> QED BY <1>1, <2>1, FractionFits
<1>3. PICK desired \in Wanted :
          LET repay == SizeRepay(b, desired, CloseFactor)
          IN  repay # None /\ Settle(repay, SaveOut(repay), repay, SaveOut(repay))
  BY DEF LiquidateSave
<1> DEFINE amt == Min({desired, cap, b})
           repay == SizeRepay(b, desired, CloseFactor)
<1>4. amt \in Nat /\ amt <= b
  <2>1. desired \in Nat
    BY PositionAssumption
  <2> HIDE DEF cap, b
  <2>3. desired \in Int /\ cap \in Int /\ b \in Int
    BY <1>1, <1>2, <2>1
  <2>2. Min({desired, cap, b}) \in {desired, cap, b} /\ Min({desired, cap, b}) <= b
    BY <2>3, MinOfThree, Zenon
  <2> QED BY <1>1, <1>2, <2>1, <2>2
<1>5. repay = amt /\ amt # 0
  BY <1>3 DEF SizeRepay
<1>6. Settle(repay, SaveOut(repay), repay, SaveOut(repay))
  BY <1>3
<1> HIDE DEF amt, repay, cap
<1>7. repay \in Nat /\ b > 0 /\ repay <= b
  <2> HIDE DEF b
  <2> QED BY <1>1, <1>4, <1>5
<1>8. protocol = "Save" /\ Liquidatable /\ prices[Coll] # None
  BY DEF LiquidateSave
<1>9. Priced
  BY <1>7, <1>8, LiquidatableIsPriced
<1>10. FeesRead
  BY <1>8 DEF FeesRead
<1>11. Worth(repay) \in Nat
  BY <1>7, <1>9, <1>10, WorthSplits
<1> DEFINE out == SaveOut(repay)
<1>12. out \in Nat /\ out <= Worth(repay)
  <2>1. out = Worth(repay) % U64
    BY <1>8 DEF SaveOut, SeizeCollateralAmount, Worth
  <2> HIDE DEF out
  <2> QED BY <1>11, <2>1, Scales, Remainder
<1>13. Settle(repay, out, repay, out)
  BY <1>6
<1> HIDE DEF out
<1> QED BY <1>7, <1>8, <1>9, <1>10, <1>12, <1>13 DEF Settled

LEMMA ClassicSettles == PositionType /\ LiquidateClassic => Settled
<1> SUFFICES ASSUME PositionType, LiquidateClassic PROVE Settled
  OBVIOUS
<1>1. PICK fill \in Fills :
          LET A == SizeClassicSeize(Usd(deposits[Coll], Coll), fill)
              relief == UnitsOf(ClassicBorrowerDebtRelief(A), Debt)
          IN  relief \in 1..borrows[Debt] /\ Settle(relief, UnitsOf(A, Coll), 0, 0)
  BY DEF LiquidateClassic
<1> DEFINE usd == Usd(deposits[Coll], Coll)
           share == Min({fill, Bps})
           A == SizeClassicSeize(usd, fill)
           relief == UnitsOf(ClassicBorrowerDebtRelief(A), Debt)
           seize == UnitsOf(A, Coll)
<1>2. relief \in 1..borrows[Debt] /\ Settle(relief, seize, 0, 0)
  BY <1>1
<1>3. borrows[Debt] \in Nat /\ deposits[Coll] \in Nat
  BY DEF PositionType
<1>4. relief \in Nat /\ relief <= borrows[Debt] /\ borrows[Debt] > 0
  <2> HIDE DEF relief
  <2> QED BY <1>2, <1>3
<1>5. Liquidatable /\ prices[Coll] # None /\ protocol = "Project0"
  BY DEF LiquidateClassic
<1>6. Priced
  BY <1>4, <1>5, LiquidatableIsPriced
<1>7. usd \in Nat
  BY <1>3, <1>6, UsdType, Scales DEF Priced
<1>8. share \in Nat
  <2>1. fill \in Nat /\ Bps \in Nat
    BY PositionAssumption, Scales
  <2>2. Min({fill, Bps}) \in {fill, Bps}
    BY <2>1, MinOfTwo
  <2> QED BY <2>1, <2>2
<1>9. A \in Nat
  <2>1. A = Scaled(usd, share, Bps)
    BY DEF SizeClassicSeize, Scaled
  <2> HIDE DEF A, usd, share
  <2> QED BY <1>7, <1>8, <2>1, Scales, ScaledType
<1> HIDE DEF A, relief
<1>10. seize \in Nat
  BY <1>6, <1>9, UnitsType, Scales DEF Priced
<1> HIDE DEF seize
<1> QED BY <1>2, <1>4, <1>5, <1>6, <1>10 DEF Settled

LEMMA ReceivershipSettles == PositionType /\ LiquidateReceivership => Settled
<1> SUFFICES ASSUME PositionType, LiquidateReceivership PROVE Settled
  OBVIOUS
<1> DEFINE fees == FeeStateView(fee_account)
<1>1. protocol = "Project0" /\ Liquidatable /\ prices[Coll] # None /\ fees # None
  BY DEF LiquidateReceivership
<1>2. PICK repay \in 1..borrows[Debt], seize \in 1..deposits[Coll] :
          /\ ReceivershipProfitOk(Usd(seize, Coll), Usd(repay, Debt), fees.max_fee_bps)
          /\ Settle(repay, seize, Usd(repay, Debt), Usd(seize, Coll))
  BY DEF LiquidateReceivership
<1>3. borrows[Debt] \in Nat /\ deposits[Coll] \in Nat
  BY DEF PositionType
<1>4. repay \in Nat /\ repay <= borrows[Debt] /\ borrows[Debt] > 0 /\ seize \in Nat
  BY <1>2, <1>3
<1>5. Priced
  BY <1>1, <1>4, LiquidatableIsPriced
<1> DEFINE paid == Usd(repay, Debt)
           out == Usd(seize, Coll)
<1>6. paid \in Nat /\ out \in Nat
  BY <1>4, <1>5, UsdType, Scales DEF Priced
<1>7. FeesRead
  BY <1>1, FeeFacts DEF FeesRead
<1>8. out <= Worth(paid)
  BY <1>1, <1>2 DEF ReceivershipProfitOk, Worth
<1>9. Settle(repay, seize, paid, out)
  BY <1>2
<1> HIDE DEF paid, out
<1> QED BY <1>1, <1>4, <1>5, <1>6, <1>7, <1>8, <1>9 DEF Settled

-----------------------------------------------------------------------------
(* The invariant of the sums                                               *)

FeeInv ==
    protocol = "Project0" /\ fee_account # None =>
        2 * Bps * FeeOne * seized
            <= repaid * (2 * Bps * FeeOne + 2 * Bps * fee_account.max_fee + FeeOne)

SumsInv == PositionType /\ SplitInv /\ FeeInv

LEMMA SettledSums == SumsInv /\ Settled => SumsInv'
<1> SUFFICES ASSUME SumsInv, Settled PROVE SumsInv'
  OBVIOUS
<1>1. PositionType /\ SplitInv /\ FeeInv
  BY DEF SumsInv
<1>2. PICK repay \in Nat, seize \in Nat, paid \in Nat, out \in Nat :
          /\ Settle(repay, seize, paid, out)
          /\ repay <= borrows[Debt] /\ Priced
          /\ \/ paid = 0 /\ out = 0
             \/ FeesRead /\ out <= Worth(paid)
  BY DEF Settled
<1>3. PositionType'
  BY <1>1, <1>2, SettleType
<1>4. /\ protocol' = protocol /\ prices' = prices /\ fee_account' = fee_account
      /\ repaid' = repaid + paid /\ seized' = seized + out
  BY <1>2 DEF Settle
<1>5. repaid \in Nat /\ seized \in Nat
  BY <1>1 DEF PositionType
<1>6. CASE paid = 0 /\ out = 0
  <2>1. repaid' = repaid /\ seized' = seized
    BY <1>4, <1>5, <1>6
  <2>2. Worth(repaid)' = Worth(repaid)
    BY <1>4, <2>1 DEF Worth, Usd
  <2>3. SplitInv'
    BY <1>1, <1>4, <2>1, <2>2 DEF SplitInv, Priced, FeesRead
  <2>4. FeeInv'
    BY <1>1, <1>4, <2>1 DEF FeeInv
  <2> QED BY <1>3, <2>3, <2>4 DEF SumsInv
<1>7. CASE FeesRead /\ out <= Worth(paid)
  <2>1. SplitInv'
    BY <1>1, <1>2, <1>7, SettleSplits
  <2>2. ASSUME protocol = "Project0", fee_account # None
        PROVE  2 * Bps * FeeOne * (seized + out)
                  <= (repaid + paid) * (2 * Bps * FeeOne + 2 * Bps * fee_account.max_fee + FeeOne)
    <3> DEFINE raw == fee_account.max_fee
               K == 2 * Bps * FeeOne
               E == 2 * Bps * FeeOne + 2 * Bps * raw + FeeOne
    <3>1. /\ raw \in Nat
          /\ FeeStateView(fee_account).max_fee_bps = (raw * Bps + FeeOne \div 2) \div FeeOne
      BY <1>1, <1>7, <2>2, FeeFacts DEF FeesRead
    <3>2. Worth(paid) = Scaled(paid, Bps + ((raw * Bps + FeeOne \div 2) \div FeeOne), Bps)
      BY <2>2, <3>1 DEF Worth, MaxSeizeForRepay, Scaled
    <3>3. out <= Scaled(paid, Bps + ((raw * Bps + FeeOne \div 2) \div FeeOne), Bps)
      BY <1>7, <3>2
    <3>4. Bps \in Nat /\ FeeOne \in Nat
      BY Scales
    <3>5. K \in Nat /\ E \in Nat
      <4> HIDE DEF raw
      <4>1. 2 * Bps \in Nat
        BY <3>4
      <4>2. 2 * Bps * FeeOne \in Nat /\ 2 * Bps * raw \in Nat
        BY <3>1, <3>4, <4>1, Products
      <4> QED BY <3>4, <4>2
    <3>6. K * out <= paid * E
      BY <3>1, <3>3, FeeBound
    <3>7. K * seized <= repaid * E
      BY <1>1, <2>2 DEF FeeInv
    <3> HIDE DEF raw, K, E
    <3>8. K * (seized + out) = K * seized + K * out
      BY <1>5, <3>5
    <3>9. (repaid + paid) * E = repaid * E + paid * E
      BY <1>5, <3>5
    <3>10. K * seized \in Nat /\ K * out \in Nat /\ repaid * E \in Nat /\ paid * E \in Nat
      BY <1>5, <3>5, Products
    <3>11. K * (seized + out) <= (repaid + paid) * E
      BY <3>6, <3>7, <3>8, <3>9, <3>10
    <3> QED BY <3>11 DEF K, E, raw
  <2>3. FeeInv'
    BY <1>4, <2>2 DEF FeeInv
  <2> QED BY <1>3, <2>1, <2>3 DEF SumsInv
<1> QED BY <1>2, <1>6, <1>7

LEMMA SumsInit == Init => SumsInv
<1> SUFFICES ASSUME Init PROVE SumsInv
  OBVIOUS
<1>1. protocol \in {"Kamino", "Save", "Project0"}
  BY PositionAssumption DEF Init
<1>2. deposits \in [{Coll, Other} -> Nat] /\ borrows \in [{Debt} -> Nat]
  BY PositionAssumption DEF Init
<1>3. prices \in [Assets -> Nat \cup {None}]
  BY DEF Init
<1>4. fee_account = None \/ fee_account.max_fee \in Int
  BY PositionAssumption DEF Init
<1>5. repaid = 0 /\ seized = 0
  BY DEF Init
<1>6. PositionType
  BY <1>1, <1>2, <1>3, <1>4, <1>5 DEF PositionType
<1>7. FeeInv
  <2> SUFFICES ASSUME fee_account # None PROVE FeeInv
    BY DEF FeeInv
  <2> DEFINE K == 2 * Bps * FeeOne
             E == 2 * Bps * FeeOne + 2 * Bps * fee_account.max_fee + FeeOne
  <2>1. Bps \in Nat /\ FeeOne \in Nat /\ fee_account.max_fee \in Int
    BY <1>4, Scales
  <2>2. K \in Int /\ E \in Int
    BY <2>1
  <2> HIDE DEF K, E
  <2>3. K * seized <= repaid * E
    BY <1>5, <2>2
  <2> QED BY <2>3 DEF FeeInv, K, E
<1> QED BY <1>5, <1>6, <1>7 DEF SumsInv, SplitInv

LEMMA QuoteSums == SumsInv /\ Quote => SumsInv'
<1> SUFFICES ASSUME SumsInv, Quote PROVE SumsInv'
  OBVIOUS
<1>1. /\ protocol' = protocol /\ deposits' = deposits /\ borrows' = borrows
      /\ fee_account' = fee_account /\ repaid' = 0 /\ seized' = 0
  BY DEF Quote
<1>2. PICK a \in Assets : \E p \in Quotes[a] : prices' = [prices EXCEPT ![a] = p]
  BY DEF Quote
<1>3. PICK p \in Quotes[a] : prices' = [prices EXCEPT ![a] = p]
  BY <1>2
<1>4. p \in Nat \cup {None}
  BY PositionAssumption
<1>5. prices' \in [Assets -> Nat \cup {None}]
  BY <1>3, <1>4 DEF SumsInv, PositionType
<1>6. PositionType'
  BY <1>1, <1>5 DEF SumsInv, PositionType
<1>7. ASSUME fee_account # None
      PROVE  2 * Bps * FeeOne * 0
                <= 0 * (2 * Bps * FeeOne + 2 * Bps * fee_account.max_fee + FeeOne)
  <2> DEFINE K == 2 * Bps * FeeOne
             E == 2 * Bps * FeeOne + 2 * Bps * fee_account.max_fee + FeeOne
  <2>1. Bps \in Nat /\ FeeOne \in Nat /\ fee_account.max_fee \in Int
    BY <1>7, Scales DEF SumsInv, PositionType
  <2>2. K \in Int /\ E \in Int
    BY <2>1
  <2> HIDE DEF K, E
  <2>3. K * 0 <= 0 * E
    BY <2>2
  <2> QED BY <2>3 DEF K, E
<1>8. FeeInv'
  BY <1>1, <1>7 DEF FeeInv
<1> QED BY <1>1, <1>6, <1>8 DEF SumsInv, SplitInv

LEMMA SumsNext == SumsInv /\ [Next]_vars => SumsInv'
<1> SUFFICES ASSUME SumsInv, [Next]_vars PROVE SumsInv'
  OBVIOUS
<1>1. PositionType
  BY DEF SumsInv
<1>2. CASE Quote
  BY <1>2, QuoteSums
<1>3. CASE Settled
  BY <1>3, SettledSums
<1>4. CASE Arm \/ UNCHANGED vars
  <2>1. /\ protocol' = protocol /\ deposits' = deposits /\ borrows' = borrows
        /\ prices' = prices /\ fee_account' = fee_account /\ repaid' = repaid
        /\ seized' = seized
    BY <1>4 DEF Arm, vars
  <2>2. Worth(repaid)' = Worth(repaid)
    BY <2>1 DEF Worth, Usd
  <2>3. SplitInv'
    BY <2>1, <2>2 DEF SumsInv, SplitInv, Priced, FeesRead
  <2>4. PositionType' /\ FeeInv'
    BY <2>1 DEF SumsInv, PositionType, FeeInv
  <2> QED BY <2>3, <2>4 DEF SumsInv
<1> QED BY <1>1, <1>2, <1>3, <1>4, KaminoSettles, SaveSettles, ClassicSettles,
           ReceivershipSettles DEF Next

LEMMA SumsInvariant == Spec => []SumsInv
BY SumsInit, SumsNext, PTL DEF Spec

\* Liquidating in parts seizes no more than the sum of the parts is worth at once,
\* through three truncating divisions and a cast, at any scale, price, bonus and fee
\* (collateral_out_amount, seize_collateral_amount, max_seize_for_repay).
THEOREM PartsGainNothing == Spec => []SplittingGainsNothing
<1>1. SumsInv => SplittingGainsNothing
  BY DEF SumsInv, PositionType, SplitInv, SplittingGainsNothing
<1> QED BY <1>1, SumsInvariant, PTL

\* What all receiverships together seize stays within the fee on chain plus half a
\* basis point, whatever the width of its fixed-point number (i80f48_le_to_bps,
\* receivership_profit_ok).
THEOREM FeeIsKept == Spec => []FeeWithinHalfBp
<1>1. SumsInv => FeeWithinHalfBp
  BY DEF SumsInv, FeeInv, FeeWithinHalfBp
<1> QED BY <1>1, SumsInvariant, PTL

-----------------------------------------------------------------------------
(* Health                                                                  *)

LEMMA SumOfOne ==
    ASSUME NEW f, NEW c, f[c] \in Nat
    PROVE  SumFunctionOnSet(f, {c}) = f[c]
<1>1. IsFiniteSet({c}) /\ IsFiniteSet({}) /\ Counts(f, {c})
  BY FS_Singleton, FS_EmptySet DEF Counts
<1>2. SumFunctionOnSet(f, {c}) = f[c] + SumFunctionOnSet(f, {c} \ {c})
  BY <1>1, SumAnyOrder
<1>3. {c} \ {c} = {}
  OBVIOUS
<1>4. SumFunctionOnSet(f, {}) = 0
  BY <1>1, SumPick
<1> QED BY <1>2, <1>3, <1>4

LEMMA SumOfTwo ==
    ASSUME NEW f, NEW b, NEW c, b # c, f[b] \in Nat, f[c] \in Nat
    PROVE  SumFunctionOnSet(f, {b, c}) = f[b] + f[c]
<1>1. IsFiniteSet({b, c}) /\ Counts(f, {b, c})
  <2>1. IsFiniteSet({b}) /\ IsFiniteSet({c})
    BY FS_Singleton
  <2>2. IsFiniteSet({b} \cup {c})
    BY <2>1, FS_Union
  <2>3. {b} \cup {c} = {b, c}
    OBVIOUS
  <2> QED BY <2>2, <2>3 DEF Counts
<1>2. SumFunctionOnSet(f, {b, c}) = f[b] + SumFunctionOnSet(f, {b, c} \ {b})
  BY <1>1, SumAnyOrder
<1>3. {b, c} \ {b} = {c}
  OBVIOUS
<1> QED BY <1>2, <1>3, SumOfOne

\* What an amount of a collateral allows to owe.
Weighed(d, p, a) == (ValueOf(d, p, Unit, a) * LiqThreshold[a]) \div Bps

LEMMA ValueType ==
    ASSUME NEW d, NEW p, NEW a \in Assets, d[a] \in Nat, d[a] > 0 => p[a] \in Nat
    PROVE  ValueOf(d, p, Unit, a) \in Nat /\ Weighed(d, p, a) \in Nat
<1> DEFINE v == ValueOf(d, p, Unit, a)
           m == LiqThreshold[a]
<1>1. Unit[a] \in Nat \ {0} /\ m \in Nat /\ Bps \in Nat \ {0}
  BY Scales
<1>2. v \in Nat
  <2>1. CASE d[a] = 0
    BY <2>1 DEF ValueOf
  <2>2. CASE d[a] # 0
    <3>1. p[a] \in Nat
      BY <2>2
    <3>2. v = AmountToUsdMicro(d[a], Unit[a], p[a])
      BY <2>2 DEF ValueOf
    <3> HIDE DEF v
    <3> QED BY <1>1, <3>1, <3>2, AmountIsScaled
  <2> QED BY <2>1, <2>2
<1> HIDE DEF v, m
<1>3. v * m \in Nat
  BY <1>1, <1>2, Products
<1>4. (v * m) \div Bps \in Nat
  BY <1>1, <1>3, Quotient
<1> QED BY <1>2, <1>4 DEF v, m, Weighed

\* obligation_health, with the sums written out.
Scored(A, B) == [hf |-> HealthFactorRatio(A, B), allowed |-> A, borrowed |-> B]

LEMMA ObligationIs ==
    ASSUME NEW d \in [{Coll, Other} -> Nat], NEW b \in [{Debt} -> Nat], NEW p,
           d[Coll] > 0 => p[Coll] \in Nat, d[Other] > 0 => p[Other] \in Nat,
           b[Debt] > 0 => p[Debt] \in Nat
    PROVE  ObligationHealth(d, b, p, Unit, LiqThreshold)
              = Scored(Weighed(d, p, Coll) + Weighed(d, p, Other), ValueOf(b, p, Unit, Debt))
<1>1. None \notin Nat /\ Coll # Other
  BY PositionAssumption
<1>2. ~MissingPrice(d, p) /\ ~MissingPrice(b, p)
  BY <1>1 DEF MissingPrice
<1> DEFINE f == [a \in DOMAIN d |-> (ValueOf(d, p, Unit, a) * LiqThreshold[a]) \div Bps]
           g == [a \in DOMAIN b |-> ValueOf(b, p, Unit, a)]
           x == Weighed(d, p, Coll)
           y == Weighed(d, p, Other)
           z == ValueOf(b, p, Unit, Debt)
<1>3. DOMAIN f = {Coll, Other} /\ f[Coll] = x /\ f[Other] = y
  BY DEF Weighed
<1>4. DOMAIN g = {Debt} /\ g[Debt] = z
  OBVIOUS
<1>5. x \in Nat /\ y \in Nat /\ z \in Nat
  BY ValueType, Scales
<1>6. ObligationHealth(d, b, p, Unit, LiqThreshold) = Scored(SumFunction(f), SumFunction(g))
  BY <1>2 DEF ObligationHealth, Scored
<1> HIDE DEF f, g, x, y, z
<1>7. SumFunction(f) = x + y
  BY <1>1, <1>3, <1>5, SumOfTwo DEF SumFunction
<1>8. SumFunction(g) = z
  BY <1>4, <1>5, SumOfOne DEF SumFunction
<1> QED BY <1>6, <1>7, <1>8 DEF x, y, z

\* The health factor, although truncated, tells exactly which side is larger.
LEMMA HealthSide ==
    ASSUME NEW A \in Nat, NEW B \in Nat
    PROVE  IsLiquidatable(Scored(A, B)) <=> A < B
<1> DEFINE s == Scored(A, B)
           h == HealthFactorRatio(A, B)
<1>1. s.hf = h /\ s.allowed = A /\ s.borrowed = B
  BY DEF Scored
<1>2. Micro \in Nat \ {0}
  BY Scales
<1>3. CASE B = 0
  <2>1. ~(s.borrowed > 0)
    BY <1>1, <1>3
  <2> QED BY <1>3, <2>1 DEF IsLiquidatable
<1>4. CASE B # 0
  <2> DEFINE x == A * Micro
             y == B * Micro
  <2>1. x \in Nat /\ y \in Nat /\ B \in Nat \ {0}
    BY <1>2, <1>4, Products
  <2>2. h = x \div B
    BY <1>4 DEF HealthFactorRatio
  <2>3. h \in Nat /\ B * h <= x
    BY <2>1, <2>2, Quotient
  <2>4. s # None
    <3>1. None \notin [hf : Nat, allowed : Nat, borrowed : Nat]
      BY PositionAssumption
    <3> HIDE DEF h
    <3>2. s \in [hf : Nat, allowed : Nat, borrowed : Nat]
      BY <2>3 DEF Scored, h
    <3> QED BY <3>1, <3>2
  <2>5. IsLiquidatable(s) <=> h < Micro
    BY <1>1, <2>1, <2>4 DEF IsLiquidatable, Below1
  <2> HIDE DEF h
  <2>6. ASSUME A < B PROVE h < Micro
    <3>1. A * Micro < B * Micro
      BY <1>2, <2>6
    <3>2. h * B < Micro * B
      <4>1. h * B = B * h /\ Micro * B = y /\ h * B \in Nat
        BY <1>2, <2>3
      <4>2. x < y
        BY <3>1
      <4> HIDE DEF x, y
      <4> QED BY <2>1, <2>3, <4>1, <4>2
    <3> QED BY <1>2, <2>3, <3>2, TimesStrict
  <2>7. ASSUME ~(A < B) PROVE ~(h < Micro)
    <3>1. y <= x
      BY <1>2, <2>7, TimesMonotone
    <3>2. B * Micro <= x
      BY <3>1
    <3> HIDE DEF x, y
    <3>3. Micro <= h
      BY <1>2, <2>1, <2>2, <3>2, QuotientIsMost
    <3> QED BY <1>2, <2>3, <3>3
  <2> QED BY <2>5, <2>6, <2>7
<1> QED BY <1>3, <1>4

-----------------------------------------------------------------------------
(* The trigger price                                                       *)

\* The threshold in millionths is the one in basis points.
ThresholdFx == (LiqThreshold[Coll] * Micro) \div Bps

LEMMA ThresholdFacts ==
    \E k \in Nat \ {0} : Micro = Bps * k /\ ThresholdFx = LiqThreshold[Coll] * k
<1>1. Micro \in Nat \ {0} /\ Bps \in Nat \ {0} /\ LiqThreshold[Coll] \in Nat /\ Micro % Bps = 0
  BY Scales, PositionAssumption
<1> DEFINE k == Micro \div Bps
           l == LiqThreshold[Coll]
           q == ThresholdFx
<1>2. k \in Nat /\ Micro = Bps * k
  BY <1>1
<1>3. k # 0
  BY <1>1, <1>2
<1>4. l * Micro = Bps * (l * k) /\ l * k \in Nat /\ l * Micro \in Nat
  <2>1. l * k \in Nat /\ l * Micro \in Nat
    BY <1>1, <1>2, Products
  <2>2. l \in Nat /\ Bps \in Nat
    BY <1>1
  <2>3. l * Micro = l * (Bps * k)
    BY <1>2, Zenon
  <2> HIDE DEF k, l
  <2>4. l * (Bps * k) = Bps * (l * k)
    BY <1>2, <2>2
  <2> QED BY <2>1, <2>3, <2>4
<1> DEFINE m == l * k
<1>5. q = (Bps * m) \div Bps
  BY <1>4 DEF ThresholdFx
<1>6. m \in Nat
  BY <1>4
<1> HIDE DEF k, l, m, q
<1>7. Bps * m \in Nat
  BY <1>1, <1>6, Products
<1>8. q \in Nat /\ Bps * q <= Bps * m /\ m <= q
  BY <1>1, <1>5, <1>6, <1>7, Quotient, QuotientIsMost
<1>9. q <= m
  <2>1. ASSUME m < q PROVE FALSE
    <3>1. m + 1 <= q
      BY <1>6, <1>8, <2>1
    <3>2. (m + 1) * Bps <= q * Bps
      BY <1>1, <1>6, <1>8, <3>1, TimesMonotone
    <3>3. (m + 1) * Bps = Bps * m + Bps /\ q * Bps = Bps * q
      BY <1>1, <1>6, <1>8
    <3>4. Bps * q \in Nat
      BY <1>1, <1>8, Products
    <3> QED BY <1>1, <1>7, <1>8, <3>2, <3>3, <3>4
  <2> QED BY <1>6, <1>8, <2>1
<1>10. q = m
  BY <1>6, <1>8, <1>9
<1> QED BY <1>2, <1>3, <1>10 DEF q, m, l

\* Amount c at price p against what is needed: g is the unit times the scale of prices,
\* l the threshold, k the millionths in a basis point.
Covered(c, p, g, l, k) == (((c * p * (Bps * k)) \div g) * l) \div Bps

\* Below the trigger the collateral does not cover what is needed.
LEMMA BelowTrigger ==
    ASSUME NEW c \in Nat \ {0}, NEW p \in Nat, NEW g \in Nat \ {0}, NEW l \in Nat \ {0},
           NEW k \in Nat \ {0}, NEW need \in Nat,
           p < (need * g) \div (c * (l * k))
    PROVE  Covered(c, p, g, l, k) < need
<1> DEFINE t == (need * g) \div (c * (l * k))
           den == c * (l * k)
           v == (c * p * (Bps * k)) \div g
           w == (v * l) \div Bps
<1>1. Bps \in Nat \ {0}
  BY Scales
<1>2. den \in Nat \ {0} /\ need * g \in Nat
  <2>1. l * k \in Nat \ {0}
    BY Products
  <2> HIDE DEF den
  <2>2. c * (l * k) \in Nat \ {0}
    BY <2>1, Products
  <2> QED BY <2>2, Products DEF den
<1>3. t \in Nat /\ den * t <= need * g /\ p < t
  <2> HIDE DEF den
  <2>1. (need * g) \div den \in Nat /\ den * ((need * g) \div den) <= need * g
    BY <1>2, Quotient
  <2> QED BY <2>1 DEF den
<1>4. den * p < need * g
  <2> HIDE DEF den, t
  <2>1. (p + 1) * den <= t * den
    <3>1. p + 1 <= t
      BY <1>3
    <3> QED BY <1>2, <1>3, <3>1, TimesMonotone
  <2>2. (p + 1) * den = den * p + den /\ t * den = den * t
    BY <1>2, <1>3
  <2>3. den * p \in Nat /\ den * t \in Nat
    BY <1>2, <1>3, Products
  <2> DEFINE N == need * g
  <2> HIDE DEF N
  <2>4. den * p < N
    BY <1>2, <1>3, <2>1, <2>2, <2>3 DEF N
  <2> QED BY <2>4 DEF N
<1> DEFINE X == c * p * (Bps * k)
<1>5. X \in Nat /\ v \in Nat /\ g * v <= X
  <2>1. c * p \in Nat /\ Bps * k \in Nat
    BY <1>1, Products
  <2>2. X \in Nat
    BY <2>1, Products
  <2> HIDE DEF X
  <2>3. X \div g \in Nat /\ g * (X \div g) <= X
    BY <2>2, Quotient
  <2> QED BY <2>2, <2>3 DEF X
<1>6. w \in Nat /\ Bps * w <= v * l
  <2> HIDE DEF v
  <2>1. v * l \in Nat
    BY <1>5, Products
  <2> QED BY <1>1, <2>1, Quotient
<1> HIDE DEF v, w
<1>7. g * (Bps * w) <= g * (v * l)
  <2>1. Bps * w \in Nat /\ v * l \in Nat
    BY <1>1, <1>5, <1>6, Products
  <2> DEFINE a == Bps * w
             b == v * l
  <2> HIDE DEF a, b
  <2>2. a * g <= b * g
    BY <1>6, <2>1, TimesMonotone DEF a, b
  <2>3. a * g = g * a /\ b * g = g * b
    BY <2>1 DEF a, b
  <2>4. g * a <= g * b
    BY <2>2, <2>3
  <2> QED BY <2>4 DEF a, b
<1>8. (g * v) * l <= X * l
  <2>1. g * v \in Nat
    BY <1>5, Products
  <2> HIDE DEF X
  <2> QED BY <1>5, <2>1, TimesMonotone
<1>9. X * l = Bps * (den * p)
  BY <1>1
<1>10. Bps * (den * p) < Bps * (need * g)
  <2> DEFINE a == den * p
             b == need * g
  <2>1. a \in Nat /\ b \in Nat /\ a < b
    BY <1>2, <1>4, Products
  <2> HIDE DEF a, b
  <2>2. Bps * a < Bps * b
    BY <1>1, <2>1
  <2> QED BY <2>2 DEF a, b
<1>11. g * (v * l) = (g * v) * l
  BY <1>5
<1>12. g * (Bps * w) = w * (Bps * g) /\ Bps * (need * g) = need * (Bps * g)
  BY <1>1, <1>6
<1>13. w * (Bps * g) < need * (Bps * g)
  <2> DEFINE a == g * (Bps * w)
             b == g * (v * l)
             d == X * l
             e == Bps * (need * g)
  <2>1. a \in Nat /\ b \in Nat /\ d \in Nat /\ e \in Nat
    <3> HIDE DEF X
    <3>1. Bps * w \in Nat /\ v * l \in Nat /\ d \in Nat
      BY <1>1, <1>5, <1>6, Products
    <3> QED BY <1>1, <1>2, <3>1, Products
  <2>2. a <= b /\ b <= d /\ d < e
    <3> HIDE DEF X, den
    <3> QED BY <1>7, <1>8, <1>9, <1>10, <1>11
  <2> HIDE DEF a, b, d, e
  <2>3. a < e
    BY <2>1, <2>2
  <2> QED BY <1>12, <2>3 DEF a, e
<1>14. Bps * g \in Nat
  BY <1>1, Products
<1>15. w < need
  BY <1>6, <1>13, <1>14, TimesStrict
<1> QED BY <1>15 DEF w, v, Covered

\* Above it, it covers what is needed but for one micro-USD.
LEMMA AboveTrigger ==
    ASSUME NEW c \in Nat \ {0}, NEW p \in Nat, NEW g \in Nat \ {0}, NEW l \in Nat \ {0},
           NEW k \in Nat \ {0}, NEW need \in Nat, l <= Bps,
           p > (need * g) \div (c * (l * k))
    PROVE  Covered(c, p, g, l, k) + 1 >= need
<1> DEFINE t == (need * g) \div (c * (l * k))
           den == c * (l * k)
           v == (c * p * (Bps * k)) \div g
           w == (v * l) \div Bps
<1>1. Bps \in Nat \ {0}
  BY Scales
<1>2. den \in Nat \ {0} /\ need * g \in Nat
  <2>1. l * k \in Nat \ {0}
    BY Products
  <2> HIDE DEF den
  <2>2. c * (l * k) \in Nat \ {0}
    BY <2>1, Products
  <2> QED BY <2>2, Products DEF den
<1>3. t \in Nat /\ need * g < den * t + den /\ p > t
  <2> HIDE DEF den
  <2>1. (need * g) \div den \in Nat /\ need * g < den * ((need * g) \div den) + den
    BY <1>2, Quotient
  <2> QED BY <2>1 DEF den
<1>4. need * g < den * p
  <2> HIDE DEF den, t
  <2>1. (t + 1) * den <= p * den
    <3>1. t + 1 <= p
      BY <1>3
    <3> QED BY <1>2, <1>3, <3>1, TimesMonotone
  <2>2. (t + 1) * den = den * t + den /\ p * den = den * p
    BY <1>2, <1>3
  <2>3. den * p \in Nat /\ den * t \in Nat
    BY <1>2, <1>3, Products
  <2> DEFINE N == need * g
  <2> HIDE DEF N
  <2>4. N < den * p
    BY <1>2, <1>3, <2>1, <2>2, <2>3 DEF N
  <2> QED BY <2>4 DEF N
<1> DEFINE X == c * p * (Bps * k)
<1>5. X \in Nat /\ v \in Nat /\ X < g * v + g
  <2>1. c * p \in Nat /\ Bps * k \in Nat
    BY <1>1, Products
  <2>2. X \in Nat
    BY <2>1, Products
  <2> HIDE DEF X
  <2>3. X \div g \in Nat /\ X < g * (X \div g) + g
    BY <2>2, Quotient
  <2> QED BY <2>2, <2>3 DEF X
<1>6. w \in Nat /\ v * l < Bps * w + Bps
  <2> HIDE DEF v
  <2>1. v * l \in Nat
    BY <1>5, Products
  <2> QED BY <1>1, <2>1, Quotient
<1> HIDE DEF v, w
<1>7. v * l + l < Bps * (w + 2)
  <2>1. Bps * (w + 2) = Bps * w + Bps + Bps
    BY <1>1, <1>6
  <2>2. v * l \in Nat /\ Bps * w \in Nat
    BY <1>1, <1>5, <1>6, Products
  <2> DEFINE a == v * l
             b == Bps * w
  <2> HIDE DEF a, b
  <2>3. a + l < b + Bps + Bps
    BY <1>1, <1>6, <2>2 DEF a, b
  <2> QED BY <2>1, <2>3 DEF a, b
<1>8. X * l <= (g * v + g) * l
  <2>1. g * v \in Nat
    BY <1>5, Products
  <2>2. g * v + g \in Nat /\ X <= g * v + g
    BY <1>5, <2>1
  <2> HIDE DEF X
  <2> QED BY <1>5, <2>2, TimesMonotone
<1>9. (g * v + g) * l = g * (v * l + l)
  BY <1>5
<1>10. g * (v * l + l) < g * (Bps * (w + 2))
  <2> DEFINE a == v * l + l
             b == Bps * (w + 2)
  <2>1. a \in Nat /\ b \in Nat /\ a < b
    <3>1. v * l \in Nat /\ w + 2 \in Nat
      BY <1>5, <1>6, Products
    <3>2. Bps * (w + 2) \in Nat
      BY <1>1, <3>1, Products
    <3>3. v * l + l \in Nat
      BY <3>1
    <3> QED BY <1>7, <3>2, <3>3
  <2> HIDE DEF a, b
  <2>2. g * a < g * b
    BY <2>1
  <2> QED BY <2>2 DEF a, b
<1>11. X * l = Bps * (den * p)
  BY <1>1
<1>12. Bps * (need * g) < Bps * (den * p)
  <2> DEFINE a == den * p
             b == need * g
  <2>1. a \in Nat /\ b \in Nat /\ b < a
    BY <1>2, <1>4, Products
  <2> HIDE DEF a, b
  <2>2. Bps * b < Bps * a
    BY <1>1, <2>1
  <2> QED BY <2>2 DEF a, b
<1>13. Bps * (need * g) = need * (Bps * g) /\ g * (Bps * (w + 2)) = (w + 2) * (Bps * g)
  BY <1>1, <1>6
<1>14. need * (Bps * g) < (w + 2) * (Bps * g)
  <2> DEFINE a == Bps * (need * g)
             b == X * l
             d == g * (v * l + l)
             e == g * (Bps * (w + 2))
  <2>1. a \in Nat /\ b \in Nat /\ d \in Nat /\ e \in Nat
    <3> HIDE DEF X
    <3>1. w + 2 \in Nat /\ v * l \in Nat /\ b \in Nat
      BY <1>5, <1>6, Products
    <3>2. v * l + l \in Nat /\ Bps * (w + 2) \in Nat
      BY <1>1, <3>1, Products
    <3> QED BY <1>1, <1>2, <3>1, <3>2, Products
  <2>2. a < b /\ b <= d /\ d < e
    <3> HIDE DEF X, den
    <3> QED BY <1>8, <1>9, <1>10, <1>11, <1>12
  <2> HIDE DEF a, b, d, e
  <2>3. a < e
    BY <2>1, <2>2
  <2> QED BY <1>13, <2>3 DEF a, e
<1>15. Bps * g \in Nat
  BY <1>1, Products
<1>16. w + 2 \in Nat
  BY <1>6
<1>17. need < w + 2
  BY <1>14, <1>15, <1>16, TimesStrict
<1>18. w + 1 >= need
  BY <1>6, <1>17
<1> QED BY <1>18 DEF w, v, Covered

\* What the other collateral covers, and what is owed.
Power == Weighed(deposits, prices, Other)
Owed == ValueOf(borrows, prices, Unit, Debt)

OthersPriced ==
    /\ deposits[Other] > 0 => prices[Other] \in Nat
    /\ borrows[Debt] > 0 => prices[Debt] \in Nat

\* A trigger that is armed is still the answer for the position as it stands: the price
\* of Coll alone has moved since.
ArmedInv ==
    trigger # Unarmed =>
        /\ protocol # "Project0" /\ OthersPriced
        /\ trigger = CollateralTriggerPrice(deposits[Coll], Unit[Coll], ThresholdFx, Power, Owed)

TriggerInv == PositionType /\ ArmedInv

LEMMA OthersTyped ==
    ASSUME PositionType, OthersPriced
    PROVE  Power \in Nat /\ Owed \in Nat
<1>1. deposits[Other] \in Nat /\ borrows[Debt] \in Nat
  BY DEF PositionType
<1> QED BY <1>1, ValueType, Scales DEF OthersPriced, Power, Owed

\* The health of a position of Kamino or Save.
LEMMA HealthIs ==
    ASSUME PositionType, OthersPriced, deposits[Coll] > 0 => prices[Coll] \in Nat
    PROVE  Health = Scored(Weighed(deposits, prices, Coll) + Power, Owed)
<1>1. deposits \in [{Coll, Other} -> Nat] /\ borrows \in [{Debt} -> Nat]
  BY DEF PositionType
<1>2. ObligationHealth(deposits, borrows, prices, Unit, LiqThreshold)
         = Scored(Weighed(deposits, prices, Coll) + Weighed(deposits, prices, Other),
                  ValueOf(borrows, prices, Unit, Debt))
  BY <1>1, ObligationIs DEF OthersPriced
<1> QED BY <1>2 DEF Health, SaveObligationHealth, Power, Owed

\* Where there is a health, every asset of the position has a price.
LEMMA HealthIsPriced ==
    ASSUME PositionType, Health # None
    PROVE  OthersPriced /\ (deposits[Coll] > 0 => prices[Coll] \in Nat)
<1>1. ~MissingPrice(deposits, prices) /\ ~MissingPrice(borrows, prices)
  BY DEF Health, SaveObligationHealth, ObligationHealth
<1>2. deposits \in [{Coll, Other} -> Nat] /\ borrows \in [{Debt} -> Nat]
  BY DEF PositionType
<1>3. prices[Coll] \in Nat \cup {None} /\ prices[Other] \in Nat \cup {None}
      /\ prices[Debt] \in Nat \cup {None}
  BY Scales DEF PositionType
<1>4. ~(deposits[Coll] > 0 /\ prices[Coll] = None) /\ ~(deposits[Other] > 0 /\ prices[Other] = None)
  BY <1>1, <1>2 DEF MissingPrice
<1>5. ~(borrows[Debt] > 0 /\ prices[Debt] = None)
  BY <1>1, <1>2 DEF MissingPrice
<1> QED BY <1>3, <1>4, <1>5 DEF OthersPriced

LEMMA ArmArms == PositionType /\ Arm => ArmedInv'
<1> SUFFICES ASSUME PositionType, Arm PROVE ArmedInv'
  OBVIOUS
<1>1. /\ protocol' = protocol /\ deposits' = deposits /\ borrows' = borrows /\ prices' = prices
      /\ protocol # "Project0" /\ Health # None
  BY DEF Arm
<1>2. OthersPriced /\ (deposits[Coll] > 0 => prices[Coll] \in Nat)
  BY <1>1, HealthIsPriced
<1> DEFINE d == [deposits EXCEPT ![Coll] = 0]
<1>3. d \in [{Coll, Other} -> Nat] /\ d[Coll] = 0 /\ d[Other] = deposits[Other]
      /\ borrows \in [{Debt} -> Nat]
  BY PositionAssumption DEF PositionType
<1>4. /\ d[Coll] > 0 => prices[Coll] \in Nat
      /\ d[Other] > 0 => prices[Other] \in Nat
      /\ borrows[Debt] > 0 => prices[Debt] \in Nat
  BY <1>2, <1>3 DEF OthersPriced
<1>5. ObligationHealth(d, borrows, prices, Unit, LiqThreshold).allowed = Power
  <2> HIDE DEF d
  <2>1. ObligationHealth(d, borrows, prices, Unit, LiqThreshold)
           = Scored(Weighed(d, prices, Coll) + Weighed(d, prices, Other),
                    ValueOf(borrows, prices, Unit, Debt))
    BY <1>3, <1>4, ObligationIs
  <2>2. Weighed(d, prices, Coll) = 0
    <3>1. ValueOf(d, prices, Unit, Coll) = 0
      BY <1>3 DEF ValueOf
    <3>2. LiqThreshold[Coll] \in Nat /\ Bps \in Nat \ {0}
      BY Scales
    <3>3. 0 * LiqThreshold[Coll] = 0 /\ 0 \div Bps = 0
      BY <3>2
    <3> QED BY <3>1, <3>3 DEF Weighed
  <2>3. Weighed(d, prices, Other) = Power
    BY <1>3 DEF Weighed, ValueOf, Power
  <2>4. Power \in Nat
    BY <1>2, OthersTyped
  <2> QED BY <2>1, <2>2, <2>3, <2>4 DEF Scored
<1>6. Health.borrowed = Owed
  BY <1>2, HealthIs DEF Scored
<1>7. trigger' = CollateralTriggerPrice(deposits[Coll], Unit[Coll], ThresholdFx, Power, Owed)
  BY <1>5, <1>6 DEF Arm, ThresholdFx
<1>8. (Power' = Power /\ Owed' = Owed) /\ OthersPriced'
  BY <1>1, <1>2 DEF Power, Owed, OthersPriced
<1> QED BY <1>1, <1>7, <1>8 DEF ArmedInv

LEMMA QuoteArms == PositionType /\ ArmedInv /\ Quote => ArmedInv'
<1> SUFFICES ASSUME PositionType, ArmedInv, Quote PROVE ArmedInv'
  OBVIOUS
<1>1. /\ protocol' = protocol /\ deposits' = deposits /\ borrows' = borrows
  BY DEF Quote
<1>2. PICK a \in Assets : \E p \in Quotes[a] :
         /\ prices' = [prices EXCEPT ![a] = p]
         /\ trigger' = IF a = Coll THEN trigger ELSE Unarmed
  BY DEF Quote
<1>3. CASE a # Coll
  BY <1>2, <1>3 DEF ArmedInv
<1>4. CASE a = Coll
  <2>1. trigger' = trigger
    BY <1>2, <1>4
  <2>2. prices'[Other] = prices[Other] /\ prices'[Debt] = prices[Debt]
    BY <1>2, <1>4, PositionAssumption, Scales DEF PositionType
  <2>3. Power' = Power /\ Owed' = Owed
    BY <1>1, <2>2 DEF Power, Owed, Weighed, ValueOf
  <2>4. OthersPriced' <=> OthersPriced
    BY <1>1, <2>2 DEF OthersPriced
  <2> QED BY <1>1, <2>1, <2>3, <2>4 DEF ArmedInv
<1> QED BY <1>3, <1>4

LEMMA TriggerNext == SumsInv /\ ArmedInv /\ [Next]_vars => ArmedInv'
<1> SUFFICES ASSUME SumsInv, ArmedInv, [Next]_vars PROVE ArmedInv'
  OBVIOUS
<1>1. PositionType
  BY DEF SumsInv
<1>2. CASE Settled
  BY <1>2 DEF Settled, Settle, ArmedInv
<1>3. CASE UNCHANGED vars
  <2>1. /\ protocol' = protocol /\ deposits' = deposits /\ borrows' = borrows
        /\ prices' = prices /\ trigger' = trigger
    BY <1>3 DEF vars
  <2>2. Power' = Power /\ Owed' = Owed /\ (OthersPriced' <=> OthersPriced)
    BY <2>1 DEF Power, Owed, OthersPriced
  <2> QED BY <2>1, <2>2 DEF ArmedInv
<1> QED BY <1>1, <1>2, <1>3, ArmArms, QuoteArms, KaminoSettles, SaveSettles, ClassicSettles,
           ReceivershipSettles DEF Next

LEMMA TriggerInvariant == Spec => [](SumsInv /\ ArmedInv)
<1>1. Init => ArmedInv
  BY DEF Init, ArmedInv
<1> QED BY <1>1, SumsInit, SumsNext, TriggerNext, PTL DEF Spec

\* The trigger price in the terms of the two lemmas about it.
LEMMA TriggerIs ==
    ASSUME NEW c \in Nat, NEW power \in Nat, NEW owed \in Nat, NEW k \in Nat \ {0},
           ThresholdFx = LiqThreshold[Coll] * k
    PROVE  LET t == CollateralTriggerPrice(c, Unit[Coll], ThresholdFx, power, owed)
               l == LiqThreshold[Coll]
           IN IF c = 0 \/ l = 0 \/ owed <= power THEN t = None
              ELSE t = ((owed - power) * (Unit[Coll] * PriceScale)) \div (c * (l * k))
<1> DEFINE l == LiqThreshold[Coll]
           u == Unit[Coll]
           fx == ThresholdFx
<1>1. l \in Nat /\ u \in Nat \ {0} /\ PriceScale \in Nat \ {0}
  BY Scales
<1>2. fx = l * k /\ (fx = 0 <=> l = 0)
  <2> DEFINE m == l * k
  <2>1. fx = m
    OBVIOUS
  <2>2. l = 0 => m = 0
    BY <1>1
  <2>3. l # 0 => m # 0
    BY <1>1, Products
  <2> QED BY <2>1, <2>2, <2>3
<1>3. ASSUME owed > power
      PROVE  (owed - power) * u * PriceScale = (owed - power) * (u * PriceScale)
  <2> DEFINE n == owed - power
  <2>1. n \in Nat
    BY <1>3
  <2> HIDE DEF n, u
  <2>2. n * u * PriceScale = n * (u * PriceScale)
    BY <1>1, <2>1
  <2> QED BY <2>2 DEF n
<1> HIDE DEF l, u, fx
<1>4. IF c = 0 \/ l = 0 \/ owed <= power THEN CollateralTriggerPrice(c, u, fx, power, owed) = None
      ELSE CollateralTriggerPrice(c, u, fx, power, owed)
              = ((owed - power) * (u * PriceScale)) \div (c * (l * k))
  BY <1>2, <1>3 DEF CollateralTriggerPrice
<1> QED BY <1>4 DEF l, u, fx

\* What a price makes the collateral cover.
LEMMA CoverIs ==
    ASSUME NEW k \in Nat \ {0}, Micro = Bps * k, PositionType, deposits[Coll] # 0,
           prices[Coll] \in Nat
    PROVE  Weighed(deposits, prices, Coll)
              = Covered(deposits[Coll], prices[Coll], Unit[Coll] * PriceScale, LiqThreshold[Coll], k)
BY DEF Weighed, ValueOf, AmountToUsdMicro, Covered

LEMMA TriggerDecides ==
    ASSUME PositionType, ArmedInv, trigger # Unarmed, prices[Coll] # None
    PROVE  IF trigger = None THEN deposits[Coll] * LiqThreshold[Coll] > 0 => ~Liquidatable
           ELSE /\ prices[Coll] < trigger => Liquidatable
                /\ Liquidatable => \/ prices[Coll] <= trigger
                                   \/ Health.borrowed - Health.allowed <= 1
<1> DEFINE c == deposits[Coll]
           p == prices[Coll]
           l == LiqThreshold[Coll]
           g == Unit[Coll] * PriceScale
           w == Weighed(deposits, prices, Coll)
<1>1. PICK k \in Nat \ {0} : Micro = Bps * k /\ ThresholdFx = l * k
  BY ThresholdFacts
<1>2. /\ protocol # "Project0" /\ OthersPriced
      /\ trigger = CollateralTriggerPrice(c, Unit[Coll], ThresholdFx, Power, Owed)
  BY DEF ArmedInv
<1>3. Power \in Nat /\ Owed \in Nat
  BY <1>2, OthersTyped
<1>4. c \in Nat /\ p \in Nat /\ l \in 0..Bps /\ None \notin Nat
  BY PositionAssumption, Scales DEF PositionType
<1>5. g \in Nat \ {0} /\ Bps \in Nat
  BY Scales, Products
<1>6. w \in Nat
  BY <1>4, ValueType, Scales
<1>7. Health = Scored(w + Power, Owed)
  BY <1>2, <1>4, HealthIs
<1>8. Liquidatable <=> w + Power < Owed
  <2>1. Liquidatable <=> IsLiquidatable(Scored(w + Power, Owed))
    BY <1>2, <1>7 DEF Liquidatable
  <2> HIDE DEF w
  <2>2. w + Power \in Nat
    BY <1>3, <1>6
  <2> QED BY <1>3, <2>1, <2>2, HealthSide
<1>9. Health.borrowed = Owed /\ Health.allowed = w + Power
  BY <1>7 DEF Scored
<1>10. IF c = 0 \/ l = 0 \/ Owed <= Power THEN trigger = None
       ELSE trigger = ((Owed - Power) * g) \div (c * (l * k))
  <2>1. c \in Nat /\ Power \in Nat /\ Owed \in Nat /\ ThresholdFx = LiqThreshold[Coll] * k
    BY <1>1, <1>3, <1>4
  <2> HIDE DEF c, l, g
  <2>2. LET t == CollateralTriggerPrice(c, Unit[Coll], ThresholdFx, Power, Owed)
        IN IF c = 0 \/ LiqThreshold[Coll] = 0 \/ Owed <= Power THEN t = None
           ELSE t = ((Owed - Power) * (Unit[Coll] * PriceScale)) \div (c * (LiqThreshold[Coll] * k))
    BY <2>1, TriggerIs, ZenonT(30)
  <2> QED BY <1>2, <2>2 DEF l, g
<1> HIDE DEF w, g
<1>11. CASE c = 0 \/ l = 0 \/ Owed <= Power
  <2>1. trigger = None
    BY <1>10, <1>11
  <2>2. ASSUME c * l > 0 PROVE ~Liquidatable
    <3>1. c # 0 /\ l # 0
      BY <1>4, <2>2
    <3>2. Owed <= Power
      BY <1>11, <3>1
    <3> QED BY <1>3, <1>6, <1>8, <3>2
  <2> QED BY <2>1, <2>2
<1>12. CASE ~(c = 0 \/ l = 0 \/ Owed <= Power)
  <2> DEFINE need == Owed - Power
  <2>1. need \in Nat /\ c \in Nat \ {0} /\ l \in Nat \ {0} /\ l <= Bps
    BY <1>3, <1>4, <1>5, <1>12
  <2>2. trigger = (need * g) \div (c * (l * k))
    BY <1>10, <1>12
  <2>3. w = Covered(c, p, g, l, k)
    BY <1>1, <1>4, <2>1, CoverIs DEF w, g
  <2>4. need * g \in Nat /\ c * (l * k) \in Nat \ {0}
    <3> HIDE DEF need, c, l
    <3>1. l * k \in Nat \ {0}
      BY <2>1, Products
    <3> QED BY <1>5, <2>1, <3>1, Products
  <2>5. trigger \in Nat
    <3> HIDE DEF need, c, l
    <3> QED BY <2>2, <2>4, Quotient
  <2>6. trigger # None
    BY <1>4, <2>5
  <2>7. ASSUME p < trigger PROVE Liquidatable
    <3> HIDE DEF need, c, l, p
    <3>1. Covered(c, p, g, l, k) < need
      BY <1>4, <1>5, <2>1, <2>2, <2>7, BelowTrigger DEF p
    <3>2. w < need
      BY <2>3, <3>1
    <3> QED BY <1>3, <1>6, <1>8, <3>2 DEF need
  <2>8. ASSUME ~(p <= trigger) PROVE Health.borrowed - Health.allowed <= 1
    <3> HIDE DEF need, c, l
    <3>1. p > trigger
      BY <1>4, <2>5, <2>8
    <3> HIDE DEF p
    <3>2. Covered(c, p, g, l, k) + 1 >= need
      BY <1>4, <1>5, <2>1, <2>2, <3>1, AboveTrigger DEF p
    <3>3. w + 1 >= need
      BY <2>3, <3>2
    <3> QED BY <1>3, <1>6, <1>9, <3>3 DEF need
  <2> QED BY <2>6, <2>7, <2>8
<1> QED BY <1>11, <1>12

\* The trigger price tells the price at which the position becomes liquidatable, for
\* every scale and however the two computations round: below it always, above it
\* within one micro-USD (collateral_trigger_price against obligation_health).
THEOREM TriggerIsExact == Spec => []TriggerAgrees
<1>1. SumsInv /\ ArmedInv => TriggerAgrees
  BY TriggerDecides DEF SumsInv, TriggerAgrees
<1> QED BY <1>1, TriggerInvariant, PTL

-----------------------------------------------------------------------------
(* The margin                                                              *)

\* Taking s of c away lowers what a stage makes of it by at most v.
LEMMA TakesAtMost ==
    ASSUME NEW c \in Nat, NEW d \in Nat, NEW s \in Nat, c <= d + s,
           NEW m \in Nat, NEW b \in Nat \ {0}, NEW v \in Nat, s * m <= v * b
    PROVE  Scaled(c, m, b) <= Scaled(d, m, b) + v
<1> DEFINE x == Scaled(c, m, b)
           y == Scaled(d, m, b)
<1>1. x \in Nat /\ c * m \in Nat /\ b * x <= c * m
  BY Products, Quotient DEF Scaled
<1>2. y \in Nat /\ d * m \in Nat /\ d * m < b * y + b
  BY Products, Quotient DEF Scaled
<1> HIDE DEF x, y
<1>3. c * m <= d * m + s * m
  <2>1. d + s \in Nat /\ (d + s) * m = d * m + s * m
    OBVIOUS
  <2>2. c * m <= (d + s) * m
    BY <2>1, TimesMonotone
  <2> QED BY <2>1, <2>2
<1>4. (y + v + 1) * b = b * y + v * b + b /\ x * b = b * x
  BY <1>1, <1>2
<1>5. s * m \in Nat /\ v * b \in Nat /\ b * y \in Nat /\ b * x \in Nat
  BY <1>1, <1>2, Products
<1>6. x * b < (y + v + 1) * b
  BY <1>1, <1>2, <1>3, <1>4, <1>5
<1>7. y + v + 1 \in Nat
  BY <1>2
<1>8. x < y + v + 1
  BY <1>1, <1>6, <1>7, TimesStrict
<1>9. x <= y + v
  BY <1>1, <1>2, <1>8
<1> QED BY <1>9 DEF x, y

\* A larger factor makes no less of it.
LEMMA ScaledGrows ==
    ASSUME NEW x \in Nat, NEW m \in Nat, NEW n \in Nat, m <= n, NEW b \in Nat \ {0}
    PROVE  Scaled(x, m, b) <= Scaled(x, n, b)
<1> DEFINE y == Scaled(x, m, b)
<1>1. y \in Nat /\ x * m \in Nat /\ x * n \in Nat /\ b * y <= x * m
  BY Products, Quotient DEF Scaled
<1>2. x * m <= x * n
  <2>1. m * x <= n * x
    BY TimesMonotone
  <2> QED BY <2>1
<1> HIDE DEF y
<1>3. b * y <= x * n
  <2>1. b * y \in Nat
    BY <1>1, Products
  <2> QED BY <1>1, <1>2, <2>1
<1>4. y <= (x * n) \div b
  BY <1>1, <1>3, QuotientIsMost
<1> QED BY <1>4 DEF y, Scaled

\* A factor of at least one keeps it.
LEMMA ScaledKeeps ==
    ASSUME NEW x \in Nat, NEW m \in Nat, NEW b \in Nat \ {0}, b <= m
    PROVE  x <= Scaled(x, m, b)
<1>1. b * x <= x * m
  <2>1. b * x <= m * x
    BY TimesMonotone
  <2>2. m * x = x * m
    OBVIOUS
  <2> QED BY <2>1, <2>2
<1> QED BY <1>1, Products, QuotientIsMost DEF Scaled

\* A common factor cancels.
LEMMA Cancels ==
    ASSUME NEW a \in Nat, NEW c \in Nat, NEW y \in Nat, NEW b \in Nat \ {0},
           a * b <= y, y <= c * b
    PROVE  a <= c
<1>1. a * b \in Nat /\ c * b \in Nat
  BY Products
<1>2. ASSUME c < a PROVE FALSE
  <2>1. (c + 1) * b <= a * b
    BY <1>2, TimesMonotone
  <2>2. (c + 1) * b = c * b + b
    OBVIOUS
  <2> QED BY <1>1, <2>1, <2>2
<1> QED BY <1>2

\* Two fractions, of which the first rounds down: n of b, then l of e.
LEMMA FractionOfFraction ==
    ASSUME NEW x \in Nat, NEW n \in Nat, NEW b \in Nat \ {0}, NEW l \in Nat, NEW e \in Nat,
           l * n <= b * e
    PROVE  Scaled(x, n, b) * l <= x * e
<1> DEFINE w == Scaled(x, n, b)
<1>1. w \in Nat /\ b * w <= x * n
  BY Products, Quotient DEF Scaled
<1> HIDE DEF w
<1>2. (b * w) * l <= (x * n) * l
  <2>1. b * w \in Nat /\ x * n \in Nat
    BY <1>1, Products
  <2> QED BY <1>1, <2>1, TimesMonotone
<1>3. (l * n) * x <= (b * e) * x
  <2>1. l * n \in Nat /\ b * e \in Nat
    BY Products
  <2> QED BY <2>1, TimesMonotone
<1>4. (b * w) * l = (w * l) * b /\ (x * n) * l = (l * n) * x /\ (b * e) * x = (x * e) * b
  BY <1>1
<1> DEFINE a == w * l
           c == x * e
           y == (x * n) * l
<1>5. a \in Nat /\ c \in Nat /\ y \in Nat
  <2>1. x * n \in Nat
    BY Products
  <2> QED BY <1>1, <2>1, Products
<1>6. a * b <= y /\ y <= c * b
  BY <1>2, <1>3, <1>4
<1> HIDE DEF a, c, y
<1>7. a <= c
  BY <1>5, <1>6, Cancels
<1> QED BY <1>7 DEF a, c, w

\* One fraction against another one that rounds down: l of e is at most n of b, and one.
LEMMA FractionBelow ==
    ASSUME NEW x \in Nat, NEW n \in Nat, NEW b \in Nat \ {0}, NEW l \in Nat, NEW e \in Nat,
           l * b <= e * n
    PROVE  x * l <= (Scaled(x, n, b) + 1) * e
<1> DEFINE w == Scaled(x, n, b)
<1>1. w \in Nat /\ x * n < b * w + b
  BY Products, Quotient DEF Scaled
<1> HIDE DEF w
<1> DEFINE k == w + 1
<1>2. k \in Nat /\ x * n <= b * k
  <2>1. b * k = b * w + b
    BY <1>1
  <2>2. x * n \in Nat /\ b * w \in Nat
    BY <1>1, Products
  <2> QED BY <1>1, <2>1, <2>2
<1> HIDE DEF k
<1>3. (x * n) * e <= (b * k) * e
  <2>1. x * n \in Nat /\ b * k \in Nat
    BY <1>2, Products
  <2> QED BY <1>2, <2>1, TimesMonotone
<1>4. (l * b) * x <= (e * n) * x
  <2>1. l * b \in Nat /\ e * n \in Nat
    BY Products
  <2> QED BY <2>1, TimesMonotone
<1>5. (l * b) * x = (x * l) * b /\ (e * n) * x = (x * n) * e /\ (b * k) * e = (k * e) * b
  BY <1>2
<1> DEFINE a == x * l
           c == k * e
           y == (x * n) * e
<1>6. a \in Nat /\ c \in Nat /\ y \in Nat
  <2>1. x * n \in Nat
    BY Products
  <2> QED BY <1>2, <2>1, Products
<1>7. a * b <= y /\ y <= c * b
  BY <1>3, <1>4, <1>5
<1> HIDE DEF a, c, y
<1>8. a <= c
  BY <1>6, <1>7, Cancels
<1> QED BY <1>8 DEF a, c, k, w

\* Two stages of what is taken: a value of at most v, and of that l of e.
LEMMA CollateralLoses ==
    ASSUME NEW c \in Nat, NEW d \in Nat, NEW s \in Nat, c <= d + s,
           NEW m \in Nat, NEW g \in Nat \ {0}, NEW v \in Nat, s * m <= v * g,
           NEW l \in Nat, NEW e \in Nat \ {0}, NEW z \in Nat, v * l <= z * e
    PROVE  Scaled(Scaled(c, m, g), l, e) <= Scaled(Scaled(d, m, g), l, e) + z
<1> DEFINE x == Scaled(c, m, g)
           y == Scaled(d, m, g)
<1>1. x \in Nat /\ y \in Nat
  BY ScaledType
<1>2. x <= y + v
  BY TakesAtMost
<1> HIDE DEF x, y
<1>3. Scaled(x, l, e) <= Scaled(y, l, e) + z
  BY <1>1, <1>2, TakesAtMost
<1> QED BY <1>3 DEF x, y

\* What Kamino pays out is worth at most the repayment with its bonus.
LEMMA KaminoTakes ==
    ASSUME NEW x \in Nat, NEW u \in Nat \ {0}, NEW p \in Nat, NEW v \in Nat \ {0},
           NEW q \in Nat, NEW n \in Nat, NEW s \in Nat, s <= CollateralWorth(x, u, p, v, q, n)
    PROVE  s * (q * Micro) <= Scaled(AmountToUsdMicro(x, u, p), Bps + n, Bps) * (v * PriceScale)
<1> DEFINE w == Scaled(AmountToUsdMicro(x, u, p), Bps + n, Bps)
           g == v * PriceScale
           m == q * Micro
<1>1. w \in Nat /\ g \in Nat
  <2>1. AmountToUsdMicro(x, u, p) \in Nat
    BY AmountIsScaled
  <2>2. PriceScale \in Nat
    BY Scales
  <2> QED BY <2>1, <2>2, BonusIsScaled, Products
<1>2. CASE q = 0
  <2>1. s = 0
    BY <1>2 DEF CollateralWorth
  <2>2. m \in Nat
    BY Scales, Products
  <2>3. s * m = 0
    <3> HIDE DEF m
    <3> QED BY <2>1, <2>2
  <2>4. w * g \in Nat
    <3> HIDE DEF w, g
    <3> QED BY <1>1, Products
  <2> QED BY <2>3, <2>4
<1>3. CASE q # 0
  <2>1. s <= Scaled(w, g, m)
    BY <1>3, CollateralIsScaled
  <2>2. m \in Nat \ {0}
    BY <1>3, Scales, Products
  <2> HIDE DEF w, g, m
  <2> DEFINE y == Scaled(w, g, m)
  <2>3. y \in Nat /\ w * g \in Nat /\ m * y <= w * g
    BY <1>1, <2>2, Products, Quotient DEF Scaled
  <2>4. s <= y
    BY <2>1
  <2> HIDE DEF y
  <2>5. s * m <= y * m
    BY <2>2, <2>3, <2>4, TimesMonotone
  <2>6. y * m = m * y
    BY <2>2, <2>3
  <2>7. s * m \in Nat /\ m * y \in Nat
    BY <2>2, <2>3, Products
  <2>8. s * m <= w * g
    BY <2>3, <2>5, <2>6, <2>7
  <2> QED BY <2>8 DEF w, g, m
<1> QED BY <1>2, <1>3

\* What Save pays out is worth that too, but for one micro-USD per token begun, as the
\* price of a token is truncated.
LEMMA SaveTakes ==
    ASSUME NEW r \in Nat, NEW u \in Nat \ {0}, NEW p \in Nat, NEW n \in Nat,
           NEW s \in Nat, s <= SeizeCollateralWorth(r, AmountToUsdMicro(u, u, p), u, n),
           NEW e \in Nat, e <= s
    PROVE  e * (p * Micro) <= (Scaled(r, Bps + n, Bps) + (1 + e \div u)) * (u * PriceScale)
<1> DEFINE w == Scaled(r, Bps + n, Bps)
           S == PriceScale
           m == p * Micro
           t == AmountToUsdMicro(u, u, p)
           k == 1 + e \div u
<1>1. w \in Nat /\ S \in Nat \ {0} /\ m \in Nat
  BY Scales, BonusIsScaled, Products
<1>2. k \in Nat /\ e <= u * k
  <2>1. e \div u \in Nat /\ e < u * (e \div u) + u
    BY Quotient
  <2> DEFINE j == e \div u
  <2> HIDE DEF j
  <2>2. u * (1 + j) = u * j + u /\ u * j \in Nat
    BY <2>1, Products DEF j
  <2>3. e <= u * (1 + j) /\ 1 + j \in Nat
    BY <2>1, <2>2 DEF j
  <2> QED BY <2>3 DEF j
<1>3. e * t <= w * u
  <2>1. t \in Nat
    BY AmountIsScaled
  <2>2. SeizeCollateralWorth(r, t, u, n) = IF t = 0 THEN 0 ELSE (w * u) \div t
    BY DEF SeizeCollateralWorth, Scaled
  <2> HIDE DEF t, w
  <2>3. w * u \in Nat
    BY <1>1, Products
  <2>4. CASE t = 0
    <3>1. e * t = 0
      BY <2>4
    <3> QED BY <2>3, <3>1
  <2>5. CASE t # 0
    <3> DEFINE y == (w * u) \div t
    <3>1. y \in Nat /\ t * y <= w * u /\ e <= y
      <4>1. s <= y
        BY <2>2, <2>5 DEF t
      <4>2. y \in Nat /\ t * y <= w * u
        BY <2>1, <2>3, <2>5, Quotient
      <4> HIDE DEF y
      <4> QED BY <4>1, <4>2
    <3> HIDE DEF y
    <3>2. e * t <= y * t
      BY <2>1, <3>1, TimesMonotone
    <3>3. y * t = t * y /\ e * t \in Nat /\ t * y \in Nat
      BY <2>1, <3>1, Products
    <3> QED BY <2>3, <3>1, <3>2, <3>3
  <2> QED BY <2>4, <2>5
<1>4. t \in Nat /\ m <= S * (t + 1)
  <2>1. t = Scaled(u, m, u * S) /\ u * S \in Nat \ {0}
    BY AmountIsScaled
  <2> HIDE DEF m, t
  <2>2. t \in Nat /\ u * m < (u * S) * t + u * S
    BY <1>1, <2>1, Products, Quotient DEF Scaled
  <2>3. (u * S) * t + u * S = (S * (t + 1)) * u /\ u * m = m * u
    BY <1>1, <2>2
  <2>4. S * (t + 1) \in Nat
    BY <1>1, <2>2, Products
  <2> DEFINE a == S * (t + 1)
  <2> HIDE DEF a
  <2>5. m * u < a * u
    BY <2>2, <2>3 DEF a
  <2>6. m < a
    BY <1>1, <2>4, <2>5, TimesStrict DEF a
  <2>7. m <= a
    BY <1>1, <2>4, <2>6 DEF a
  <2> QED BY <2>2, <2>7 DEF a
<1> HIDE DEF w, m, t, k
<1>5. m * e <= (S * (t + 1)) * e
  <2>1. S * (t + 1) \in Nat
    BY <1>1, <1>4, Products
  <2> QED BY <1>1, <1>4, <2>1, TimesMonotone
<1>6. (S * (t + 1)) * e = S * (e * t + e) /\ m * e = e * m
  BY <1>1, <1>4
<1>7. e * t + e <= w * u + u * k
  <2>1. e * t \in Nat /\ w * u \in Nat /\ u * k \in Nat
    BY <1>1, <1>2, <1>4, Products
  <2> QED BY <1>2, <1>3, <2>1
<1>8. (e * t + e) * S <= (w * u + u * k) * S
  <2>1. e * t \in Nat /\ w * u \in Nat /\ u * k \in Nat
    BY <1>1, <1>2, <1>4, Products
  <2>2. e * t + e \in Nat /\ w * u + u * k \in Nat
    BY <2>1
  <2> QED BY <1>1, <1>7, <2>2, TimesMonotone
<1>9. (w * u + u * k) * S = (w + k) * (u * S)
  BY <1>1, <1>2
<1>10. S * (e * t + e) = (e * t + e) * S
  <2>1. e * t + e \in Nat
    BY <1>4, Products
  <2> QED BY <1>1, <2>1
<1>11. e * m <= (w + k) * (u * S)
  <2> DEFINE a == e * m
             b == S * (e * t + e)
             c == (w + k) * (u * S)
  <2>1. a \in Nat /\ b \in Nat /\ c \in Nat
    <3>1. e * t \in Nat /\ u * S \in Nat /\ w + k \in Nat
      BY <1>1, <1>2, <1>4, Products
    <3>2. e * t + e \in Nat
      BY <3>1
    <3> QED BY <1>1, <3>1, <3>2, Products
  <2>2. a <= b /\ b <= c
    BY <1>5, <1>6, <1>8, <1>9, <1>10
  <2> HIDE DEF a, b, c
  <2>3. a <= c
    BY <2>1, <2>2
  <2> QED BY <2>3 DEF a, c
<1> QED BY <1>11 DEF w, m, k

\* The value of an amount whose price is known.
LEMMA ValueIsScaled ==
    ASSUME NEW d, NEW p, NEW a \in Assets, d[a] \in Nat, p[a] \in Nat
    PROVE  /\ ValueOf(d, p, Unit, a) = Scaled(d[a], p[a] * Micro, Unit[a] * PriceScale)
           /\ ValueOf(d, p, Unit, a) = AmountToUsdMicro(d[a], Unit[a], p[a])
           /\ ValueOf(d, p, Unit, a) \in Nat
           /\ p[a] * Micro \in Nat /\ Unit[a] * PriceScale \in Nat \ {0}
<1> DEFINE x == d[a]
           u == Unit[a]
           q == p[a]
<1>1. u \in Nat \ {0} /\ x \in Nat /\ q \in Nat
  BY Scales
<1>2. ValueOf(d, p, Unit, a) = IF x = 0 THEN 0 ELSE AmountToUsdMicro(x, u, q)
  BY DEF ValueOf
<1> HIDE DEF x, u, q
<1>3. /\ AmountToUsdMicro(x, u, q) = Scaled(x, q * Micro, u * PriceScale)
      /\ q * Micro \in Nat /\ u * PriceScale \in Nat \ {0}
      /\ AmountToUsdMicro(x, u, q) \in Nat
  BY <1>1, AmountIsScaled
<1>4. ASSUME x = 0 PROVE AmountToUsdMicro(x, u, q) = 0
  <2> DEFINE m == q * Micro
             g == u * PriceScale
  <2>1. m \in Nat /\ g \in Nat \ {0}
    BY <1>3
  <2> HIDE DEF m, g
  <2>2. 0 * m = 0 /\ 0 \div g = 0
    BY <2>1
  <2>3. Scaled(x, m, g) = 0
    BY <1>4, <2>2 DEF Scaled
  <2> QED BY <1>3, <2>3 DEF m, g
<1>5. ValueOf(d, p, Unit, a) = AmountToUsdMicro(x, u, q)
  BY <1>2, <1>4
<1> QED BY <1>3, <1>5 DEF x, u, q

\* What is there once s is taken of c, as far as it is there.
LEMMA TakenAway ==
    ASSUME NEW c \in Nat, NEW s \in Nat
    PROVE  /\ Max({0, c - s}) \in Nat /\ c - Max({0, c - s}) \in Nat
           /\ c - Max({0, c - s}) <= s
<1> DEFINE d == c - s
<1>1. d \in Int
  OBVIOUS
<1>2. Max({0, d}) \in Nat
  <2> HIDE DEF d
  <2> QED BY <1>1, NotBelowZero, Zenon
<1>3. Max({0, d}) \in {0, d} /\ Max({0, d}) >= 0 /\ Max({0, d}) >= d
  <2> HIDE DEF d
  <2>1. \E x \in {0, d} : \A y \in {0, d} : x >= y
    <3>1. CASE d >= 0
      BY <1>1, <3>1
    <3>2. CASE 0 >= d
      BY <1>1, <3>2
    <3> QED BY <1>1, <3>1, <3>2
  <2>2. Max({0, d}) \in {0, d} /\ \A y \in {0, d} : Max({0, d}) >= y
    BY <2>1, Zenon DEF Max
  <2> QED BY <2>2
<1> QED BY <1>2, <1>3 DEF d

\* The two sides of the margin, each on its own.
LEMMA MarginStep ==
    ASSUME PositionType, PositionType', Priced, OthersPriced, protocol # "Project0",
           protocol' = protocol, prices' = prices, deposits'[Other] = deposits[Other],
           NEW y \in Nat, NEW loss \in Nat,
           Weighed(deposits, prices, Coll) <= Weighed(deposits', prices, Coll) + (y + loss),
           ValueOf(borrows', prices, Unit, Debt) + y <= ValueOf(borrows, prices, Unit, Debt)
    PROVE  Margin' + loss >= Margin
<1>1. /\ deposits \in [{Coll, Other} -> Nat] /\ borrows \in [{Debt} -> Nat]
      /\ deposits' \in [{Coll, Other} -> Nat] /\ borrows' \in [{Debt} -> Nat]
  BY DEF PositionType
<1>2. /\ prices[Coll] \in Nat /\ prices[Debt] \in Nat
      /\ deposits[Other] > 0 => prices[Other] \in Nat
      /\ deposits'[Other] > 0 => prices[Other] \in Nat
  BY DEF Priced, OthersPriced
<1> DEFINE a == Weighed(deposits, prices, Coll)
           b == Weighed(deposits, prices, Other)
           c == ValueOf(borrows, prices, Unit, Debt)
           d == Weighed(deposits', prices, Coll)
           e == Weighed(deposits', prices, Other)
           f == ValueOf(borrows', prices, Unit, Debt)
<1>3. a \in Nat /\ b \in Nat /\ c \in Nat
  BY <1>1, <1>2, ValueType, Scales
<1>4. d \in Nat /\ f \in Nat
  BY <1>1, <1>2, ValueType, Scales
<1>5. e = b
  BY DEF Weighed, ValueOf
<1>6. ObligationHealth(deposits, borrows, prices, Unit, LiqThreshold) = Scored(a + b, c)
  BY <1>1, <1>2, ObligationIs
<1>7. ObligationHealth(deposits', borrows', prices, Unit, LiqThreshold) = Scored(d + e, f)
  BY <1>1, <1>2, ObligationIs
<1>8. Health = Scored(a + b, c)
  BY <1>6 DEF Health, SaveObligationHealth
<1>9. Health' = Scored(d + e, f)
  BY <1>7 DEF Health, SaveObligationHealth
<1> HIDE DEF a, b, c, d, e, f
<1>10. Margin = (a + b) - c
  BY <1>8 DEF Margin, Scored
<1>11. Margin' = (d + e) - f
  BY <1>9 DEF Margin, Scored
<1>12. a <= d + (y + loss) /\ f + y <= c
  BY DEF a, c, d, f
<1> QED BY <1>3, <1>4, <1>5, <1>10, <1>11, <1>12

LEMMA LendingMargin ==
    ASSUME PositionType, Settled, protocol # "Project0", RoomForBonus
    PROVE  Margin' + RoundingLoss >= Margin
<1>1. PICK repay \in Nat, seize \in Nat :
          /\ Settle(repay, seize, repay, seize)
          /\ repay <= borrows[Debt] /\ Priced /\ Liquidatable
          /\ seize <= Worth(repay)
  BY DEF Settled
<1>2. PositionType'
  BY <1>1, SettleType
<1>3. /\ protocol' = protocol /\ prices' = prices
      /\ deposits' = [deposits EXCEPT ![Coll] = Max({0, deposits[Coll] - seize})]
      /\ borrows' = [borrows EXCEPT ![Debt] = borrows[Debt] - repay]
  BY <1>1 DEF Settle
<1>4. /\ deposits \in [{Coll, Other} -> Nat] /\ borrows \in [{Debt} -> Nat] /\ Coll # Other
      /\ deposits' \in [{Coll, Other} -> Nat] /\ borrows' \in [{Debt} -> Nat]
  BY <1>2, PositionAssumption DEF PositionType
<1>5. /\ deposits'[Coll] = Max({0, deposits[Coll] - seize}) /\ deposits'[Other] = deposits[Other]
      /\ borrows'[Debt] = borrows[Debt] - repay
  BY <1>3, <1>4
<1>6. OthersPriced
  <2>1. Health # None
    BY <1>1 DEF Liquidatable, IsLiquidatable
  <2> QED BY <2>1, HealthIsPriced
<1>7. prices[Coll] \in Nat /\ prices[Debt] \in Nat
  BY <1>1 DEF Priced
<1> DEFINE y == AmountToUsdMicro(repay, Unit[Debt], prices[Debt])
<1>8. y \in Nat /\ ValueOf(borrows', prices, Unit, Debt) + y <= ValueOf(borrows, prices, Unit, Debt)
  <2> DEFINE D == borrows[Debt]
             E == borrows'[Debt]
             u == Unit[Debt]
             p == prices[Debt]
  <2>1. ValueOf(borrows, prices, Unit, Debt) = AmountToUsdMicro(D, u, p)
    BY <1>4, <1>7, ValueIsScaled, Scales
  <2>2. ValueOf(borrows', prices, Unit, Debt) = AmountToUsdMicro(E, u, p)
    BY <1>4, <1>7, ValueIsScaled, Scales
  <2>3. D \in Nat /\ E \in Nat /\ u \in Nat \ {0} /\ p \in Nat /\ E + repay <= D
    <3>1. D \in Nat /\ E \in Nat /\ u \in Nat \ {0} /\ p \in Nat
      BY <1>4, <1>7, Scales
    <3>2. E = D - repay /\ repay <= D
      BY <1>1, <1>5
    <3> HIDE DEF D, E, u, p
    <3> QED BY <3>1, <3>2
  <2> HIDE DEF D, E, u, p
  <2>4. /\ AmountToUsdMicro(E, u, p) + AmountToUsdMicro(repay, u, p) <= AmountToUsdMicro(D, u, p)
        /\ AmountToUsdMicro(repay, u, p) \in Nat
    BY <2>3, AmountSplits
  <2> QED BY <2>1, <2>2, <2>4 DEF u, p
<1> DEFINE c == deposits[Coll]
           d == deposits'[Coll]
           e == c - d
           u == Unit[Coll]
           q == prices[Coll]
           m == q * Micro
           g == u * PriceScale
           l == LiqThreshold[Coll]
           w == Scaled(y, Bps + Bonus, Bps)
<1>9. c \in Nat /\ d \in Nat /\ e \in Nat /\ e <= seize /\ c <= d + e
  <2>1. c \in Nat /\ d = Max({0, c - seize})
    BY <1>4, <1>5
  <2> HIDE DEF c, d
  <2>2. d \in Nat /\ e \in Nat /\ e <= seize
    BY <2>1, TakenAway
  <2> QED BY <2>1, <2>2
<1>10. /\ u \in Nat \ {0} /\ q \in Nat /\ m \in Nat /\ g \in Nat \ {0} /\ l \in Nat /\ l <= Bps
       /\ Bps \in Nat \ {0} /\ Bonus \in Nat
  <2>1. u \in Nat \ {0} /\ q \in Nat /\ l \in Nat /\ Bps \in Nat \ {0} /\ Bonus \in Nat
    BY <1>7, Scales
  <2>2. l <= Bps
    BY PositionAssumption, Scales
  <2>3. m \in Nat /\ g \in Nat \ {0}
    BY <2>1, Scales, Products
  <2> QED BY <2>1, <2>2, <2>3
<1>11. /\ Weighed(deposits, prices, Coll) = Scaled(Scaled(c, m, g), l, Bps)
       /\ Weighed(deposits', prices, Coll) = Scaled(Scaled(d, m, g), l, Bps)
  <2>1. ValueOf(deposits, prices, Unit, Coll) = Scaled(c, m, g)
    BY <1>4, <1>7, ValueIsScaled, Scales
  <2>2. ValueOf(deposits', prices, Unit, Coll) = Scaled(d, m, g)
    BY <1>4, <1>7, ValueIsScaled, Scales
  <2> QED BY <2>1, <2>2 DEF Weighed, Scaled
<1>12. w \in Nat /\ w * l <= y * Bps
  <2> HIDE DEF y
  <2>1. w \in Nat /\ Bps + Bonus \in Nat
    BY <1>8, <1>10, BonusIsScaled
  <2>2. l * (Bps + Bonus) <= Bps * Bps
    BY DEF RoomForBonus
  <2> QED BY <1>8, <1>10, <2>1, <2>2, FractionOfFraction
<1>13. RoundingLoss = IF protocol = "Kamino" THEN 0 ELSE 1 + e \div u
  BY DEF RoundingLoss, PositionType
<1>14. CASE protocol = "Kamino"
  <2>1. seize <= CollateralWorth(repay, Unit[Debt], prices[Debt], u, q, Bonus)
    BY <1>1, <1>14 DEF Worth
  <2>2. seize * m <= w * g
    BY <1>7, <1>10, <2>1, KaminoTakes, Scales
  <2> HIDE DEF c, d, e, u, q, m, g, l, w, y
  <2>3. e * m <= w * g
    <3>1. e * m <= seize * m
      BY <1>9, <1>10, TimesMonotone
    <3>2. e * m \in Nat /\ seize * m \in Nat /\ w * g \in Nat
      BY <1>9, <1>10, <1>12, Products
    <3> QED BY <2>2, <3>1, <3>2
  <2>4. Scaled(Scaled(c, m, g), l, Bps) <= Scaled(Scaled(d, m, g), l, Bps) + y
    BY <1>8, <1>9, <1>10, <1>12, <2>3, CollateralLoses
  <2>5. Weighed(deposits, prices, Coll) <= Weighed(deposits', prices, Coll) + (y + 0)
    BY <1>8, <1>11, <2>4
  <2>6. Margin' + 0 >= Margin
    BY <1>1, <1>2, <1>3, <1>5, <1>6, <1>8, <2>5, MarginStep
  <2> QED BY <1>13, <1>14, <2>6
<1>15. CASE protocol = "Save"
  <2> DEFINE k == 1 + e \div u
  <2>1. seize <= SeizeCollateralWorth(y, AmountToUsdMicro(u, u, q), u, Bonus)
    BY <1>1, <1>15 DEF Worth, Usd
  <2> HIDE DEF c, d, e, u, q, l, y
  <2>2. k \in Nat
    BY <1>9, <1>10, Quotient
  <2>3. e * m <= (w + k) * g
    BY <1>8, <1>9, <1>10, <2>1, SaveTakes
  <2> HIDE DEF k, m, g, w
  <2>4. (w + k) * l <= (y + k) * Bps
    <3>1. (w + k) * l = w * l + l * k /\ (y + k) * Bps = y * Bps + Bps * k
      BY <1>8, <1>10, <1>12, <2>2
    <3>2. l * k <= Bps * k
      BY <1>10, <2>2, TimesMonotone
    <3>3. w * l \in Nat /\ l * k \in Nat /\ y * Bps \in Nat /\ Bps * k \in Nat
      BY <1>8, <1>10, <1>12, <2>2, Products
    <3> QED BY <1>12, <3>1, <3>2, <3>3
  <2>5. w + k \in Nat /\ y + k \in Nat
    BY <1>8, <1>12, <2>2
  <2>6. Scaled(Scaled(c, m, g), l, Bps) <= Scaled(Scaled(d, m, g), l, Bps) + (y + k)
    BY <1>9, <1>10, <2>3, <2>4, <2>5, CollateralLoses
  <2>7. Weighed(deposits, prices, Coll) <= Weighed(deposits', prices, Coll) + (y + k)
    BY <1>11, <2>6
  <2>8. Margin' + k >= Margin
    BY <1>1, <1>2, <1>3, <1>5, <1>6, <1>8, <2>2, <2>7, MarginStep
  <2> QED BY <1>13, <1>15, <2>8 DEF k
<1> QED BY <1>14, <1>15 DEF PositionType

(* Project 0                                                               *)

\* What the maintenance health reads of a price, and what it makes of an amount.
Adjusted(is_asset) ==
    [a \in DOMAIN prices |->
        IF prices[a] = None THEN None ELSE AdjustedPrice(prices[a], conf[a], is_asset)]

AssetCounts(d, a) == Scaled(ValueOf(d, Adjusted(TRUE), Unit, a), AssetWeight[a], Micro)
DebtCounts(b, a) == Scaled(ValueOf(b, Adjusted(FALSE), Unit, a), LiabWeight[a], Micro)

ConfType == conf \in [Assets -> Nat \cup {None}]

LEMMA Weights ==
    /\ \A a \in Assets : AssetWeight[a] \in Nat /\ LiabWeight[a] \in Nat
    /\ ConfidenceCap \in Nat /\ ConfidenceCap <= Micro
BY PositionAssumption, Scales

\* The adjusted price of an asset is at most its price, that of a debt at least.
LEMMA AdjustedFacts ==
    ASSUME PositionType, ConfType, NEW a \in Assets, prices[a] \in Nat
    PROVE  /\ Adjusted(TRUE)[a] \in Nat /\ Adjusted(TRUE)[a] <= prices[a]
           /\ Adjusted(FALSE)[a] \in Nat /\ prices[a] <= Adjusted(FALSE)[a]
<1> DEFINE p == prices[a]
           c == Conf(conf[a])
<1>1. c \in Nat /\ c <= Micro /\ Micro \in Nat \ {0} /\ p \in Nat
  <2>1. CASE conf[a] = None
    BY <2>1, Scales DEF Conf
  <2>2. CASE conf[a] # None
    <3> DEFINE x == conf[a]
    <3>1. x \in Nat /\ ConfidenceCap \in Nat /\ ConfidenceCap <= Micro
      BY <2>2, Weights DEF ConfType
    <3>2. c = Min({x, ConfidenceCap})
      BY <2>2 DEF Conf
    <3> HIDE DEF x, c
    <3>3. Min({x, ConfidenceCap}) \in {x, ConfidenceCap} /\ Min({x, ConfidenceCap}) <= ConfidenceCap
      BY <3>1, MinOfTwo
    <3>4. c \in Nat /\ c <= ConfidenceCap
      BY <3>1, <3>2, <3>3
    <3> QED BY <3>1, <3>4, Scales
  <2> QED BY <2>1, <2>2
<1>2. p # None
  BY <1>1, PositionAssumption
<1>3. DOMAIN prices = Assets
  BY DEF PositionType
<1>4. Adjusted(TRUE)[a] = Scaled(p, Micro - c, Micro)
  BY <1>2, <1>3 DEF Adjusted, AdjustedPrice, Scaled
<1>5. Adjusted(FALSE)[a] = Scaled(p, Micro + c, Micro)
  BY <1>2, <1>3 DEF Adjusted, AdjustedPrice, Scaled
<1> HIDE DEF p, c
<1>6. Micro - c \in Nat /\ Micro - c <= Micro /\ Micro + c \in Nat /\ Micro <= Micro + c
  BY <1>1
<1>7. Scaled(p, Micro - c, Micro) \in Nat /\ Scaled(p, Micro - c, Micro) <= p
  BY <1>1, <1>6, FractionFits
<1>8. Scaled(p, Micro + c, Micro) \in Nat /\ p <= Scaled(p, Micro + c, Micro)
  BY <1>1, <1>6, ScaledType, ScaledKeeps
<1> QED BY <1>4, <1>5, <1>7, <1>8 DEF p

LEMMA CountsType ==
    ASSUME PositionType, ConfType, NEW d, NEW a \in Assets, d[a] \in Nat,
           d[a] > 0 => prices[a] \in Nat
    PROVE  AssetCounts(d, a) \in Nat /\ DebtCounts(d, a) \in Nat
<1>1. d[a] > 0 => Adjusted(TRUE)[a] \in Nat /\ Adjusted(FALSE)[a] \in Nat
  BY AdjustedFacts
<1> DEFINE x == ValueOf(d, Adjusted(TRUE), Unit, a)
           y == ValueOf(d, Adjusted(FALSE), Unit, a)
<1>2. x \in Nat /\ y \in Nat
  <2> DEFINE A == Adjusted(TRUE)
             B == Adjusted(FALSE)
  <2> HIDE DEF A, B
  <2>1. d[a] > 0 => A[a] \in Nat /\ B[a] \in Nat
    BY <1>1 DEF A, B
  <2>2. ValueOf(d, A, Unit, a) \in Nat
    BY <2>1, ValueType
  <2>3. ValueOf(d, B, Unit, a) \in Nat
    BY <2>1, ValueType
  <2> QED BY <2>2, <2>3 DEF A, B
<1> HIDE DEF x, y
<1>3. Scaled(x, AssetWeight[a], Micro) \in Nat /\ Scaled(y, LiabWeight[a], Micro) \in Nat
  BY <1>2, Weights, Scales, ScaledType
<1> QED BY <1>3 DEF x, y, AssetCounts, DebtCounts

\* maintenance_health, with the sums written out.
LEMMA MaintenanceIs ==
    ASSUME PositionType, ConfType,
           NEW d \in [{Coll, Other} -> Nat], NEW b \in [{Debt} -> Nat],
           d[Coll] > 0 => prices[Coll] \in Nat, d[Other] > 0 => prices[Other] \in Nat,
           b[Debt] > 0 => prices[Debt] \in Nat
    PROVE  /\ Maintenance(d, b)
                 = (AssetCounts(d, Coll) + AssetCounts(d, Other)) - DebtCounts(b, Debt)
           /\ AssetCounts(d, Coll) \in Nat /\ AssetCounts(d, Other) \in Nat
           /\ DebtCounts(b, Debt) \in Nat
<1>1. None \notin Nat /\ Coll # Other
  BY PositionAssumption
<1>2. ~MissingPrice(d, prices) /\ ~MissingPrice(b, prices)
  BY <1>1 DEF MissingPrice
<1> DEFINE f == [a \in DOMAIN d |-> (ValueOf(d, Adjusted(TRUE), Unit, a) * AssetWeight[a]) \div Micro]
           g == [a \in DOMAIN b |-> (ValueOf(b, Adjusted(FALSE), Unit, a) * LiabWeight[a]) \div Micro]
           x == AssetCounts(d, Coll)
           y == AssetCounts(d, Other)
           z == DebtCounts(b, Debt)
<1>3. DOMAIN f = {Coll, Other} /\ f[Coll] = x /\ f[Other] = y
  BY DEF AssetCounts, Scaled
<1>4. DOMAIN g = {Debt} /\ g[Debt] = z
  BY DEF DebtCounts, Scaled
<1>5. x \in Nat /\ y \in Nat /\ z \in Nat
  BY CountsType, Scales
<1>6. Maintenance(d, b) = SumFunction(f) - SumFunction(g)
  BY <1>2 DEF Maintenance, MaintenanceHealth, Adjusted
<1> HIDE DEF f, g, x, y, z
<1>7. SumFunction(f) = x + y
  BY <1>1, <1>3, <1>5, SumOfTwo DEF SumFunction
<1>8. SumFunction(g) = z
  BY <1>4, <1>5, SumOfOne DEF SumFunction
<1> QED BY <1>5, <1>6, <1>7, <1>8 DEF x, y, z

LEMMA UnitsBounds ==
    ASSUME NEW usd \in Nat, NEW a \in Assets, prices[a] \in Nat
    PROVE  /\ UnitsOf(usd, a) \in Nat
           /\ UnitsOf(usd, a) * (prices[a] * Micro) <= usd * (Unit[a] * PriceScale)
           /\ prices[a] # 0 => usd * (Unit[a] * PriceScale)
                                  <= (UnitsOf(usd, a) + 1) * (prices[a] * Micro)
<1> DEFINE p == prices[a]
           u == Unit[a]
           x == UnitsOf(usd, a)
           m == p * Micro
           n == usd * (u * PriceScale)
<1>1. p \in Nat /\ u \in Nat /\ PriceScale \in Nat /\ Micro \in Nat \ {0}
  BY Scales
<1>2. x = IF p = 0 THEN 0 ELSE (usd * u * PriceScale) \div m
  BY DEF UnitsOf
<1> HIDE DEF p, u, x
<1>3. m \in Nat /\ n \in Nat /\ (p # 0 => m # 0)
  <2>1. u * PriceScale \in Nat
    BY <1>1, Products
  <2> QED BY <1>1, <2>1, Products
<1>4. usd * u * PriceScale = n
  BY <1>1
<1>5. CASE p = 0
  <2>1. x = 0
    BY <1>2, <1>5
  <2> HIDE DEF m, n
  <2>2. x * m = 0
    BY <1>3, <2>1
  <2> QED BY <1>3, <1>5, <2>1, <2>2 DEF p, u, x, m, n
<1>6. CASE p # 0
  <2>1. x = n \div m
    BY <1>2, <1>4, <1>6
  <2> HIDE DEF m, n
  <2>2. x \in Nat /\ m * x <= n /\ n < m * x + m
    BY <1>3, <1>6, <2>1, Quotient
  <2>3. m * x = x * m /\ (x + 1) * m = m * x + m /\ m * x \in Nat
    BY <1>3, <2>2, Products
  <2>4. x * m <= n /\ n <= (x + 1) * m
    BY <1>3, <2>2, <2>3
  <2> QED BY <2>2, <2>4 DEF p, u, x, m, n
<1> QED BY <1>5, <1>6

\* Whole units of the debt for a credit of D fall short of it by less than one unit.
LEMMA UnitsRelieve ==
    ASSUME NEW D \in Nat, NEW R \in Nat, NEW m \in Nat, NEW g \in Nat \ {0},
           D * g <= (R + 1) * m
    PROVE  D <= Scaled(R, m, g) + (Scaled(1, m, g) + 1)
<1> DEFINE x == Scaled(R, m, g)
           o == Scaled(1, m, g)
           y == Scaled(R + 1, m, g)
<1>1. x \in Nat /\ o \in Nat /\ y \in Nat
  <2>1. R + 1 \in Nat /\ 1 \in Nat
    OBVIOUS
  <2>2. y \in Nat
    BY <2>1, ScaledType
  <2>3. x \in Nat /\ o \in Nat
    BY <2>1, ScaledType
  <2> QED BY <2>2, <2>3
<1>2. D <= y
  <2>1. g * D <= (R + 1) * m /\ (R + 1) * m \in Nat
    <3>1. g * D = D * g
      OBVIOUS
    <3>2. R + 1 \in Nat
      OBVIOUS
    <3> QED BY <3>1, <3>2, Products
  <2> QED BY <2>1, QuotientIsMost DEF Scaled
<1>3. 1 * m <= (o + 1) * g
  <2>1. 1 * m = m /\ m < g * o + g
    <3>1. 1 * m = m
      OBVIOUS
    <3>2. o = m \div g
      BY <3>1 DEF Scaled
    <3> HIDE DEF o
    <3> QED BY <3>1, <3>2, Quotient
  <2> HIDE DEF o
  <2>2. (o + 1) * g = g * o + g /\ g * o \in Nat
    BY <1>1, Products
  <2> QED BY <2>1, <2>2
<1> HIDE DEF o
<1>4. y <= x + (o + 1)
  <2>1. R + 1 \in Nat /\ R + 1 <= R + 1 /\ o + 1 \in Nat
    BY <1>1
  <2> QED BY <1>3, <2>1, TakesAtMost
<1> HIDE DEF x, y
<1>5. D <= x + (o + 1)
  BY <1>1, <1>2, <1>4
<1> QED BY <1>5 DEF x, o

LEMMA ClassicAssets ==
    ASSUME PositionType, ConfType, Priced, RoomForBonus, NEW A \in Nat,
           NEW c \in Nat, NEW d \in Nat, c - d \in Nat, c - d <= UnitsOf(A, Coll)
    PROVE  LET n == Adjusted(TRUE)[Coll] * Micro
               g == Unit[Coll] * PriceScale
           IN  Scaled(Scaled(c, n, g), AssetWeight[Coll], Micro)
                  <= Scaled(Scaled(d, n, g), AssetWeight[Coll], Micro)
                        + (ClassicBorrowerDebtRelief(A) + 1)
<1> DEFINE s == UnitsOf(A, Coll)
           p == prices[Coll]
           low == Adjusted(TRUE)[Coll]
           n == low * Micro
           g == Unit[Coll] * PriceScale
           l == AssetWeight[Coll]
           D == ClassicBorrowerDebtRelief(A)
           e == c - d
<1>1. p \in Nat /\ low \in Nat /\ low <= p
  BY AdjustedFacts, Scales DEF Priced
<1>2. n \in Nat /\ p * Micro \in Nat /\ g \in Nat \ {0} /\ l \in Nat /\ Micro \in Nat \ {0}
      /\ Bps \in Nat \ {0}
  <2>1. Unit[Coll] \in Nat \ {0} /\ PriceScale \in Nat \ {0} /\ Micro \in Nat \ {0}
        /\ Bps \in Nat \ {0}
    BY Scales
  <2>2. l \in Nat
    BY Weights, Scales
  <2> HIDE DEF low, p, l
  <2> QED BY <1>1, <2>1, <2>2, Products
<1>3. s \in Nat /\ s * (p * Micro) <= A * g
  BY <1>1, UnitsBounds, Scales
<1>4. Bps - (LiquidatorPremium + InsurancePremium) \in Nat
  BY PositionAssumption, Scales
<1>5. D \in Nat /\ D = Scaled(A, Bps - (LiquidatorPremium + InsurancePremium), Bps)
  <2> DEFINE k == Bps - (LiquidatorPremium + InsurancePremium)
  <2>1. D = Scaled(A, k, Bps)
    BY DEF ClassicBorrowerDebtRelief, Scaled
  <2> HIDE DEF k, D
  <2>2. k \in Nat
    BY <1>4 DEF k
  <2> QED BY <1>2, <2>1, <2>2, ScaledType DEF k
<1>6. A * l <= (D + 1) * Micro
  <2> DEFINE k == Bps - (LiquidatorPremium + InsurancePremium)
  <2>1. l * Bps <= Micro * k
    BY DEF RoomForBonus
  <2>2. k \in Nat /\ D = Scaled(A, k, Bps)
    BY <1>4, <1>5
  <2> HIDE DEF k, l, D
  <2>3. A * l <= (Scaled(A, k, Bps) + 1) * Micro
    BY <1>2, <2>1, <2>2, FractionBelow
  <2> QED BY <2>2, <2>3
<1> HIDE DEF s, p, low, g, l, D
<1>7. e * n <= A * g
  <2>1. e \in Nat /\ e <= s
    BY DEF s
  <2> HIDE DEF e
  <2>2. n <= p * Micro
    BY <1>1, <1>2, TimesMonotone
  <2> DEFINE m == p * Micro
  <2> HIDE DEF n, m
  <2>3. e * n <= s * n
    BY <1>2, <1>3, <2>1, TimesMonotone
  <2>4. n * s <= m * s
    BY <1>2, <1>3, <2>2, TimesMonotone DEF m
  <2>5. s * n = n * s /\ m * s = s * m
    BY <1>2, <1>3 DEF m
  <2>6. e * n \in Nat /\ s * n \in Nat /\ s * m \in Nat /\ A * g \in Nat
    BY <1>2, <1>3, <2>1, Products DEF m
  <2>7. s * m <= A * g
    BY <1>3 DEF m
  <2> QED BY <2>3, <2>4, <2>5, <2>6, <2>7
<1> DEFINE z == D + 1
<1>8. e \in Nat /\ c <= d + e /\ z \in Nat
  BY <1>5
<1> HIDE DEF e, n, z
<1>9. Scaled(Scaled(c, n, g), l, Micro) <= Scaled(Scaled(d, n, g), l, Micro) + z
  <2>1. A * l <= z * Micro
    BY <1>6 DEF z
  <2> QED BY <1>2, <1>7, <1>8, <2>1, CollateralLoses
<1> QED BY <1>9 DEF n, g, l, D, z, low

LEMMA ClassicDebt ==
    ASSUME PositionType, ConfType, Priced, RoomForBonus, NEW D \in Nat,
           NEW R \in Nat, R = UnitsOf(D, Debt), R # 0,
           NEW x \in Nat, NEW y \in Nat, y + R <= x
    PROVE  LET n == Adjusted(FALSE)[Debt] * Micro
               g == Unit[Debt] * PriceScale
           IN  Scaled(Scaled(y, n, g), LiabWeight[Debt], Micro) + D
                  <= Scaled(Scaled(x, n, g), LiabWeight[Debt], Micro) + (Usd(1, Debt) + 1)
<1> DEFINE p == prices[Debt]
           high == Adjusted(FALSE)[Debt]
           n == high * Micro
           m == p * Micro
           g == Unit[Debt] * PriceScale
           l == LiabWeight[Debt]
           o == Usd(1, Debt)
<1>1. p \in Nat /\ high \in Nat /\ p <= high
  BY AdjustedFacts, Scales DEF Priced
<1>2. n \in Nat /\ m \in Nat /\ g \in Nat \ {0} /\ l \in Nat /\ Micro \in Nat \ {0} /\ Micro <= l
  <2>1. Unit[Debt] \in Nat \ {0} /\ PriceScale \in Nat \ {0} /\ Micro \in Nat \ {0}
    BY Scales
  <2>2. l \in Nat /\ Micro <= l
    BY Weights, Scales DEF RoomForBonus
  <2> HIDE DEF high, p, l
  <2> QED BY <1>1, <2>1, <2>2, Products
<1>3. m <= n
  <2> HIDE DEF high, p
  <2> QED BY <1>1, <1>2, TimesMonotone
<1>4. p # 0
  BY DEF UnitsOf
<1>5. D * g <= (R + 1) * m
  BY <1>1, <1>4, UnitsBounds, Scales
<1>6. o = Scaled(1, m, g) /\ o \in Nat
  <2>1. Unit[Debt] \in Nat \ {0} /\ 1 \in Nat
    BY Scales
  <2> HIDE DEF p
  <2>2. AmountToUsdMicro(1, Unit[Debt], p) = Scaled(1, m, g)
        /\ AmountToUsdMicro(1, Unit[Debt], p) \in Nat
    BY <1>1, <2>1, AmountIsScaled
  <2>3. o = AmountToUsdMicro(1, Unit[Debt], p)
    BY DEF Usd, p
  <2> QED BY <2>2, <2>3
<1> HIDE DEF p, high, n, m, g, l, o
<1>7. D <= Scaled(R, m, g) + (o + 1)
  BY <1>2, <1>5, <1>6, UnitsRelieve
<1> DEFINE v == Scaled(R, n, g)
           vm == Scaled(R, m, g)
           a == Scaled(x, n, g)
           b == Scaled(y, n, g)
<1>8. v \in Nat /\ vm \in Nat /\ a \in Nat /\ b \in Nat /\ b + v <= a /\ vm <= v
  <2>1. v \in Nat /\ vm \in Nat /\ a \in Nat /\ b \in Nat
    BY <1>2, ScaledType
  <2>2. b + v <= a
    BY <1>2, ScaledSplits
  <2>3. vm <= v
    BY <1>2, <1>3, ScaledGrows
  <2> QED BY <2>1, <2>2, <2>3
<1>9. D <= vm + (o + 1)
  BY <1>7
<1> HIDE DEF v, vm, a, b
<1> DEFINE va == Scaled(v, l, Micro)
           aa == Scaled(a, l, Micro)
           ba == Scaled(b, l, Micro)
<1>10. va \in Nat /\ aa \in Nat /\ ba \in Nat /\ ba + va <= aa /\ v <= va
  <2>1. va \in Nat /\ aa \in Nat /\ ba \in Nat
    BY <1>2, <1>8, ScaledType
  <2>2. ba + va <= aa
    BY <1>2, <1>8, ScaledSplits
  <2>3. v <= va
    BY <1>2, <1>8, ScaledKeeps
  <2> QED BY <2>1, <2>2, <2>3
<1> HIDE DEF va, aa, ba
<1>11. ba + D <= aa + (o + 1)
  BY <1>6, <1>8, <1>9, <1>10
<1> QED BY <1>11 DEF aa, ba, a, b, n, g, l, o, high

\* Before and after a liquidation of a position of Project 0, whose prices are known.
LEMMA MaintenanceStep ==
    ASSUME PositionType, PositionType', ConfType, Priced, Liquidatable, protocol = "Project0",
           protocol' = protocol, prices' = prices, conf' = conf,
           deposits'[Other] = deposits[Other]
    PROVE  /\ Margin = (AssetCounts(deposits, Coll) + AssetCounts(deposits, Other))
                          - DebtCounts(borrows, Debt)
           /\ Margin' = (AssetCounts(deposits', Coll) + AssetCounts(deposits, Other))
                          - DebtCounts(borrows', Debt)
           /\ AssetCounts(deposits, Coll) \in Nat /\ AssetCounts(deposits', Coll) \in Nat
           /\ AssetCounts(deposits, Other) \in Nat
           /\ DebtCounts(borrows, Debt) \in Nat /\ DebtCounts(borrows', Debt) \in Nat
<1>1. /\ deposits \in [{Coll, Other} -> Nat] /\ borrows \in [{Debt} -> Nat]
      /\ deposits' \in [{Coll, Other} -> Nat] /\ borrows' \in [{Debt} -> Nat]
  BY DEF PositionType
<1>2. /\ prices[Coll] \in Nat /\ prices[Debt] \in Nat
      /\ deposits[Other] > 0 => prices[Other] \in Nat
  <2>1. Maintenance(deposits, borrows) # None
    BY DEF Liquidatable
  <2>2. ~MissingPrice(deposits, prices)
    BY <2>1 DEF Maintenance, MaintenanceHealth
  <2>3. deposits[Other] > 0 => prices[Other] # None
    BY <1>1, <2>2 DEF MissingPrice
  <2>4. prices[Other] \in Nat \cup {None}
    BY Scales DEF PositionType
  <2> QED BY <2>3, <2>4 DEF Priced
<1>3. /\ Maintenance(deposits, borrows)
            = (AssetCounts(deposits, Coll) + AssetCounts(deposits, Other)) - DebtCounts(borrows, Debt)
      /\ AssetCounts(deposits, Coll) \in Nat /\ AssetCounts(deposits, Other) \in Nat
      /\ DebtCounts(borrows, Debt) \in Nat
  BY <1>1, <1>2, MaintenanceIs
<1>4. deposits'[Other] > 0 => prices[Other] \in Nat
  BY <1>2
<1>5. /\ Maintenance(deposits', borrows')
            = (AssetCounts(deposits', Coll) + AssetCounts(deposits', Other))
                 - DebtCounts(borrows', Debt)
      /\ AssetCounts(deposits', Coll) \in Nat /\ DebtCounts(borrows', Debt) \in Nat
  BY <1>1, <1>2, <1>4, MaintenanceIs
<1>6. AssetCounts(deposits', Other) = AssetCounts(deposits, Other)
  BY DEF AssetCounts, ValueOf
<1>7. Margin = Maintenance(deposits, borrows)
  BY DEF Margin
<1>8. Margin' = Maintenance(deposits', borrows')
  BY DEF Margin, Maintenance
<1> QED BY <1>3, <1>5, <1>6, <1>7, <1>8

LEMMA LossOfProject0 ==
    ASSUME PositionType, Priced, protocol = "Project0"
    PROVE  RoundingLoss = 2 + Usd(1, Debt) /\ Usd(1, Debt) \in Nat
<1>1. RoundingLoss = 2 + Usd(1, Debt)
  BY DEF RoundingLoss
<1>2. 1 \in Nat /\ prices[Debt] \in Nat
  BY DEF Priced
<1> QED BY <1>1, <1>2, UsdType, Scales

LEMMA ReceivershipMargin ==
    ASSUME PositionType, ConfType, LiquidateReceivership
    PROVE  Margin' + RoundingLoss >= Margin
<1>1. PICK repay \in 1..borrows[Debt], seize \in 1..deposits[Coll] :
          /\ HealthImproved(Maintenance(deposits, borrows),
                            Maintenance([deposits EXCEPT ![Coll] = @ - seize],
                                        [borrows EXCEPT ![Debt] = @ - repay]))
          /\ Settle(repay, seize, Usd(repay, Debt), Usd(seize, Coll))
  BY DEF LiquidateReceivership
<1>2. protocol = "Project0" /\ Liquidatable /\ prices[Coll] # None
  BY DEF LiquidateReceivership
<1>3. deposits \in [{Coll, Other} -> Nat] /\ borrows \in [{Debt} -> Nat] /\ Coll # Other
  BY PositionAssumption DEF PositionType
<1>4. deposits[Coll] \in Nat /\ borrows[Debt] \in Nat /\ repay \in Nat /\ seize \in Nat
      /\ repay <= borrows[Debt] /\ borrows[Debt] > 0 /\ seize <= deposits[Coll]
  BY <1>3
<1>5. Priced
  BY <1>2, <1>4, LiquidatableIsPriced
<1>6. Usd(repay, Debt) \in Nat /\ Usd(seize, Coll) \in Nat
  BY <1>4, <1>5, UsdType, Scales DEF Priced
<1>7. PositionType'
  <2> DEFINE a == Usd(repay, Debt)
             b == Usd(seize, Coll)
  <2>1. Settle(repay, seize, a, b)
    BY <1>1
  <2> HIDE DEF a, b
  <2> QED BY <1>4, <1>6, <2>1, SettleType DEF a, b
<1>8. /\ protocol' = protocol /\ prices' = prices /\ conf' = conf
      /\ deposits' = [deposits EXCEPT ![Coll] = Max({0, deposits[Coll] - seize})]
      /\ borrows' = [borrows EXCEPT ![Debt] = borrows[Debt] - repay]
  BY <1>1 DEF Settle
<1>9. Max({0, deposits[Coll] - seize}) = deposits[Coll] - seize
  <2> DEFINE k == deposits[Coll] - seize
  <2>1. k \in Nat
    BY <1>4
  <2> HIDE DEF k
  <2>2. \E x \in {0, k} : \A y \in {0, k} : x >= y
    BY <2>1
  <2>3. Max({0, k}) \in {0, k} /\ \A y \in {0, k} : Max({0, k}) >= y
    BY <2>2, Zenon DEF Max
  <2>4. Max({0, k}) = k
    BY <2>1, <2>3
  <2> QED BY <2>4 DEF k
<1>10. deposits' = [deposits EXCEPT ![Coll] = @ - seize] /\ borrows' = [borrows EXCEPT ![Debt] = @ - repay]
  BY <1>8, <1>9
<1>11. deposits'[Other] = deposits[Other]
  BY <1>3, <1>8
<1>12. HealthImproved(Margin, Margin')
  <2>1. Margin = Maintenance(deposits, borrows)
    BY <1>2 DEF Margin
  <2>2. Margin' = Maintenance(deposits', borrows')
    BY <1>2, <1>8 DEF Margin, Maintenance
  <2> QED BY <1>1, <1>10, <2>1, <2>2
<1>13. Margin \in Int /\ Margin' \in Int
  BY <1>2, <1>5, <1>7, <1>8, <1>11, MaintenanceStep
<1> QED BY <1>2, <1>5, <1>12, <1>13, LossOfProject0 DEF HealthImproved

LEMMA ClassicMargin ==
    ASSUME PositionType, ConfType, RoomForBonus, LiquidateClassic
    PROVE  Margin' + RoundingLoss >= Margin
<1>1. PICK fill \in Fills :
          LET A == SizeClassicSeize(Usd(deposits[Coll], Coll), fill)
              relief == UnitsOf(ClassicBorrowerDebtRelief(A), Debt)
          IN  relief \in 1..borrows[Debt] /\ Settle(relief, UnitsOf(A, Coll), 0, 0)
  BY DEF LiquidateClassic
<1> DEFINE usd == Usd(deposits[Coll], Coll)
           A == SizeClassicSeize(usd, fill)
           D == ClassicBorrowerDebtRelief(A)
           R == UnitsOf(D, Debt)
           s == UnitsOf(A, Coll)
<1>2. R \in 1..borrows[Debt] /\ Settle(R, s, 0, 0)
  BY <1>1
<1>3. deposits \in [{Coll, Other} -> Nat] /\ borrows \in [{Debt} -> Nat] /\ Coll # Other
  BY PositionAssumption DEF PositionType
<1>4. deposits[Coll] \in Nat /\ borrows[Debt] \in Nat /\ R \in Nat /\ R # 0
      /\ R <= borrows[Debt] /\ borrows[Debt] > 0
  <2> HIDE DEF R
  <2> QED BY <1>2, <1>3
<1>5. protocol = "Project0" /\ Liquidatable /\ prices[Coll] # None
  BY DEF LiquidateClassic
<1>6. Priced
  BY <1>4, <1>5, LiquidatableIsPriced
<1>7. A \in Nat
  <2>1. usd \in Nat
    BY <1>4, <1>6, UsdType, Scales DEF Priced
  <2> DEFINE share == Min({fill, Bps})
  <2>2. share \in Nat
    <3>1. fill \in Nat /\ Bps \in Nat
      BY PositionAssumption, Scales
    <3>2. Min({fill, Bps}) \in {fill, Bps}
      BY <3>1, MinOfTwo
    <3> QED BY <3>1, <3>2
  <2>3. A = Scaled(usd, share, Bps)
    BY DEF SizeClassicSeize, Scaled
  <2> HIDE DEF A, usd, share
  <2> QED BY <2>1, <2>2, <2>3, Scales, ScaledType
<1> HIDE DEF A
<1>8. D \in Nat
  <2> DEFINE k == Bps - (LiquidatorPremium + InsurancePremium)
  <2>1. k \in Nat
    BY PositionAssumption, Scales
  <2>2. D = Scaled(A, k, Bps)
    BY DEF ClassicBorrowerDebtRelief, Scaled
  <2> HIDE DEF k, D
  <2> QED BY <1>7, <2>1, <2>2, Scales, ScaledType
<1>9. s \in Nat
  BY <1>6, <1>7, UnitsType, Scales DEF Priced
<1> HIDE DEF D
<1>10. PositionType'
  <2> HIDE DEF R, s
  <2>1. 0 \in Nat
    OBVIOUS
  <2> QED BY <1>2, <1>4, <1>9, <2>1, SettleType
<1>11. /\ protocol' = protocol /\ prices' = prices /\ conf' = conf
       /\ deposits' = [deposits EXCEPT ![Coll] = Max({0, deposits[Coll] - s})]
       /\ borrows' = [borrows EXCEPT ![Debt] = borrows[Debt] - R]
  BY <1>2 DEF Settle
<1>12. /\ deposits' \in [{Coll, Other} -> Nat] /\ borrows' \in [{Debt} -> Nat]
       /\ deposits'[Other] = deposits[Other]
       /\ deposits'[Coll] = Max({0, deposits[Coll] - s})
       /\ borrows'[Debt] = borrows[Debt] - R
  BY <1>3, <1>10, <1>11 DEF PositionType
<1> DEFINE c == deposits[Coll]
           d == deposits'[Coll]
           x == borrows[Debt]
           y == borrows'[Debt]
<1>13. c \in Nat /\ d \in Nat /\ c - d \in Nat /\ c - d <= s
  <2>1. c \in Nat /\ d = Max({0, c - s})
    BY <1>4, <1>12
  <2> HIDE DEF c, d, s
  <2> QED BY <1>9, <2>1, TakenAway
<1>14. x \in Nat /\ y \in Nat /\ y + R <= x
  <2>1. x \in Nat /\ y = x - R /\ R <= x
    BY <1>4, <1>12
  <2> HIDE DEF x, y, R
  <2> QED BY <1>4, <2>1
<1> DEFINE na == Adjusted(TRUE)[Coll] * Micro
           ga == Unit[Coll] * PriceScale
           nd == Adjusted(FALSE)[Debt] * Micro
           gd == Unit[Debt] * PriceScale
           W(q) == Scaled(Scaled(q, na, ga), AssetWeight[Coll], Micro)
           V(q) == Scaled(Scaled(q, nd, gd), LiabWeight[Debt], Micro)
<1>15. W(c) <= W(d) + (D + 1)
  <2> HIDE DEF c, d
  <2> QED BY <1>6, <1>7, <1>13, ClassicAssets DEF D
<1>16. V(y) + D <= V(x) + (Usd(1, Debt) + 1)
  <2> DEFINE r == R
  <2>1. r = UnitsOf(D, Debt) /\ r \in Nat /\ r # 0 /\ y + r <= x
    BY <1>4, <1>14
  <2> HIDE DEF x, y, r, R
  <2> QED BY <1>6, <1>8, <1>14, <2>1, ClassicDebt
<1>17. Adjusted(TRUE)[Coll] \in Nat /\ Adjusted(FALSE)[Debt] \in Nat
  BY <1>6, AdjustedFacts, Scales DEF Priced
<1>18. AssetCounts(deposits, Coll) = W(c) /\ AssetCounts(deposits', Coll) = W(d)
  <2> DEFINE P == Adjusted(TRUE)
  <2>1. P[Coll] \in Nat
    BY <1>17
  <2> HIDE DEF P
  <2>2. ValueOf(deposits, P, Unit, Coll) = Scaled(c, P[Coll] * Micro, ga)
    BY <1>3, <2>1, ValueIsScaled, Scales
  <2>3. ValueOf(deposits', P, Unit, Coll) = Scaled(d, P[Coll] * Micro, ga)
    BY <1>12, <2>1, ValueIsScaled, Scales
  <2> QED BY <2>2, <2>3 DEF AssetCounts, P
<1>19. DebtCounts(borrows, Debt) = V(x) /\ DebtCounts(borrows', Debt) = V(y)
  <2> DEFINE P == Adjusted(FALSE)
  <2>1. P[Debt] \in Nat
    BY <1>17
  <2> HIDE DEF P
  <2>2. ValueOf(borrows, P, Unit, Debt) = Scaled(x, P[Debt] * Micro, gd)
    BY <1>3, <2>1, ValueIsScaled, Scales
  <2>3. ValueOf(borrows', P, Unit, Debt) = Scaled(y, P[Debt] * Micro, gd)
    BY <1>12, <2>1, ValueIsScaled, Scales
  <2> QED BY <2>2, <2>3 DEF DebtCounts, P
<1> HIDE DEF W, V, c, d, x, y
<1> DEFINE e == AssetCounts(deposits, Other)
<1>20. /\ Margin = (W(c) + e) - V(x) /\ Margin' = (W(d) + e) - V(y)
       /\ W(c) \in Nat /\ W(d) \in Nat /\ e \in Nat /\ V(x) \in Nat /\ V(y) \in Nat
  BY <1>5, <1>6, <1>10, <1>11, <1>12, <1>18, <1>19, MaintenanceStep
<1>21. RoundingLoss = 2 + Usd(1, Debt) /\ Usd(1, Debt) \in Nat
  BY <1>5, <1>6, LossOfProject0
<1> DEFINE wc == W(c)
           wd == W(d)
           vx == V(x)
           vy == V(y)
           o == Usd(1, Debt)
<1>22. /\ wc \in Nat /\ wd \in Nat /\ vx \in Nat /\ vy \in Nat /\ o \in Nat /\ e \in Nat
       /\ wc <= wd + (D + 1) /\ vy + D <= vx + (o + 1)
       /\ Margin = (wc + e) - vx /\ Margin' = (wd + e) - vy /\ RoundingLoss = 2 + o
  BY <1>15, <1>16, <1>20, <1>21
<1> HIDE DEF wc, wd, vx, vy, o, e
<1> QED BY <1>8, <1>22

LEMMA ConfInvariant == Spec => []ConfType
<1>1. Init => ConfType
  BY PositionAssumption DEF Init, ConfType
<1>2. ConfType /\ [Next]_vars => ConfType'
  <2>1. [Next]_vars => conf' = conf
    BY DEF Next, Quote, Arm, LiquidateKamino, LiquidateSave, LiquidateClassic,
           LiquidateReceivership, Settle, vars
  <2> QED BY <2>1 DEF ConfType
<1> QED BY <1>1, <1>2, PTL DEF Spec

LEMMA MarginSteps ==
    ASSUME RoomForBonus, PositionType, ConfType, [Next]_vars, borrows' # borrows
    PROVE  Margin' + RoundingLoss >= Margin
<1>1. ~Quote /\ ~Arm /\ ~UNCHANGED vars
  BY DEF Quote, Arm, vars
<1>2. CASE LiquidateKamino
  <2>1. protocol # "Project0"
    BY <1>2 DEF LiquidateKamino
  <2> QED BY <1>2, <2>1, KaminoSettles, LendingMargin
<1>3. CASE LiquidateSave
  <2>1. protocol # "Project0"
    BY <1>3 DEF LiquidateSave
  <2> QED BY <1>3, <2>1, SaveSettles, LendingMargin
<1>4. CASE LiquidateClassic
  BY <1>4, ClassicMargin
<1>5. CASE LiquidateReceivership
  BY <1>5, ReceivershipMargin
<1> QED BY <1>1, <1>2, <1>3, <1>4, <1>5 DEF Next

\* Where the bonus leaves room for it, no liquidation of any size takes a position further
\* from health, but for its roundings: the chains of truncations on the two sides of the
\* health are bounded against each other, for every scale, unit, price and confidence
\* (collateral_out_amount, seize_collateral_amount, size_classic_seize,
\* receivership_profit_ok).
THEOREM MarginIsKept == ASSUME RoomForBonus PROVE Spec => MarginNotWorse
<1>1. PositionType /\ ConfType /\ [Next]_vars
         => [(borrows' # borrows /\ prices' = prices) => Margin' + RoundingLoss >= Margin]_vars
  BY MarginSteps
<1>2. SumsInv => PositionType
  BY DEF SumsInv
<1> QED BY <1>1, <1>2, SumsInvariant, ConfInvariant, PTL DEF Spec, MarginNotWorse

=============================================================================
