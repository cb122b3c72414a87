--------------------------- MODULE PlanningProofs ---------------------------
(***************************************************************************)
(* The choice of a funding path, the shape of the instruction lists and    *)
(* what becomes of them in a simulation, for any opportunities, gates,     *)
(* reserves and obligations, however the requests in between turn out and  *)
(* the chain moves.                                                        *)
(***************************************************************************)
EXTENDS Planning, DataProofs

(* Instructions                                                            *)

\* A sequence of instructions of some kinds.
Only(s, ops) == IsSeq(s) /\ \A i \in 1..Len(s) : s[i].op \in ops

LEMMA OnlyOne ==
    ASSUME NEW x, NEW ops, x.op \in ops
    PROVE  Only(<<x>>, ops) /\ Only(<< >>, ops)
<1>1. /\ IsSeq(<<x>>) /\ Len(<<x>>) = 1 /\ <<x>>[1] = x
      /\ IsSeq(<< >>) /\ Len(<< >>) = 0
  BY OneOrNone
<1> HIDE DEF IsSeq
<1>2. \A i \in 1..Len(<<x>>) : <<x>>[i].op \in ops
  <2>1. ASSUME NEW i \in 1..Len(<<x>>) PROVE <<x>>[i].op \in ops
    <3>1. i = 1
      BY <1>1
    <3>2. <<x>>[i] = x
      BY <1>1, <3>1
    <3> QED BY <3>2
  <2> QED BY <2>1
<1>3. \A i \in 1..Len(<< >>) : << >>[i].op \in ops
  BY <1>1
<1> QED BY <1>1, <1>2, <1>3 DEF Only

LEMMA OnlyJoined ==
    ASSUME NEW s, NEW t, NEW ops, Only(s, ops), Only(t, ops)
    PROVE  Only(s \o t, ops)
<1>1. /\ IsSeq(s \o t) /\ Len(s \o t) = Len(s) + Len(t)
      /\ Len(s) \in Nat /\ Len(t) \in Nat
      /\ \A i \in 1..Len(s) : (s \o t)[i] = s[i]
      /\ \A i \in 1..Len(t) : (s \o t)[Len(s) + i] = t[i]
  BY Joined DEF Only
<1>2. ASSUME NEW i \in 1..Len(s \o t) PROVE (s \o t)[i].op \in ops
  <2>1. CASE i \in 1..Len(s)
    BY <1>1, <2>1 DEF Only
  <2>2. CASE i \notin 1..Len(s)
    <3>1. i - Len(s) \in 1..Len(t) /\ Len(s) + (i - Len(s)) = i
      BY <1>1, <2>2
    <3>2. (s \o t)[i] = t[i - Len(s)]
      BY <1>1, <3>1
    <3> QED BY <3>1, <3>2 DEF Only
  <2> QED BY <2>1, <2>2
<1> QED BY <1>1, <1>2 DEF Only

LEMMA OnlyMore ==
    ASSUME NEW s, NEW ops, NEW more, Only(s, ops), ops \subseteq more
    PROVE  Only(s, more)
BY DEF Only

-----------------------------------------------------------------------------
(* The parts of an instruction list                                        *)

RefreshOps == {"refresh_reserve", "refresh_obligation"}

SetupOps ==
    RefreshOps \cup {"compute_unit_limit", "compute_unit_price", "create_idempotent"}

SwapOps == {"jupiter_swap"}

Short(s, n) == IsSeq(s) /\ Len(s) <= n

\* What the requests leave in an account set: lists no longer than an obligation.
AccountsOk(a) == Short(a.metas, 13) /\ Short(a.deposits, 8) /\ Short(a.borrows, 5)

\* Padding makes a list longer by one at most.
LEMMA ListedShort ==
    ASSUME NEW a, NEW extra, NEW needed, NEW pad, NEW n \in Nat \ {0}, Short(extra, n)
    PROVE  Short(Listed(a, extra, needed, pad), n + 1)
<1>1. Short(extra, n + 1)
  BY SeqFacts DEF Short
<1>2. Short(<<needed>>, n + 1)
  BY OneOrNone DEF Short
<1>3. Short(Append(extra, needed), n + 1)
  <2> DEFINE S == {extra[i] : i \in DOMAIN extra} \cup {needed}
  <2>1. extra \in Seq(S) /\ needed \in S
    BY SeqMonotonic DEF Short, IsSeq
  <2> HIDE DEF S
  <2>2. /\ Append(extra, needed) \in Seq(S)
        /\ Len(Append(extra, needed)) = Len(extra) + 1
    BY <2>1, AppendProperties
  <2>3. IsSeq(Append(extra, needed))
    BY <2>2, TypedIsSeq
  <2>4. Len(extra) \in Nat /\ Len(extra) <= n
    BY SeqFacts DEF Short
  <2>5. Len(Append(extra, needed)) <= n + 1
    BY <2>2, <2>4
  <2> QED BY <2>3, <2>5 DEF Short
<1> QED BY <1>1, <1>2, <1>3 DEF Listed

\* The refreshes of a list of reserves, in its order, and the obligation's after them.
LEMMA RefreshAllFacts ==
    ASSUME NEW a, NEW flash, NEW keys, IsSeq(keys)
    PROVE  LET all == RefreshAll(a, flash, keys) IN
           /\ Only(all, RefreshOps) /\ Len(all) = Len(keys) + 1
           /\ \A i \in 1..Len(keys) : all[i] = RefreshReserve(a, keys[i])
           /\ all[Len(keys) + 1].op = "refresh_obligation"
<1> DEFINE n == Len(keys)
           reserves == [i \in DOMAIN keys |-> RefreshReserve(a, keys[i])]
           listed == DepositReserves(a, flash) \o BorrowReserves(a, flash)
           x == RefreshObligation(IF listed # << >> THEN listed ELSE keys, a.referrers)
           all == RefreshAll(a, flash, keys)
<1>1. n \in Nat /\ DOMAIN keys = 1..n
  BY SeqFacts
<1>2. all = reserves \o <<x>>
  BY DEF RefreshAll
<1>3. x.op = "refresh_obligation"
  BY DEF RefreshObligation
<1>4. IsSeq(reserves) /\ Len(reserves) = n
  <2>1. reserves = [i \in 1..n |-> reserves[i]]
    BY <1>1
  <2> HIDE DEF reserves, n
  <2> QED BY <1>1, <2>1, FunctionIsSeq
<1>5. \A i \in 1..n : reserves[i] = RefreshReserve(a, keys[i])
  BY <1>1
<1>6. \A i \in 1..n : RefreshReserve(a, keys[i]).op \in RefreshOps
  BY DEF RefreshReserve, RefreshOps
<1> HIDE DEF reserves, x, n, all
<1>7. Only(reserves, RefreshOps) /\ Only(<<x>>, RefreshOps)
  <2>1. x.op \in RefreshOps
    BY <1>3 DEF RefreshOps
  <2>2. Only(<<x>>, RefreshOps)
    BY <2>1, OnlyOne
  <2> QED BY <1>4, <1>5, <1>6, <2>2 DEF Only
<1>8. Only(all, RefreshOps)
  BY <1>2, <1>7, OnlyJoined
<1>9. IsSeq(<<x>>) /\ Len(<<x>>) = 1 /\ <<x>>[1] = x
  BY OneOrNone
<1>10. /\ Len(all) = n + 1
       /\ \A i \in 1..n : all[i] = reserves[i]
       /\ all[n + 1] = x
  <2>1. /\ Len(all) = Len(reserves) + Len(<<x>>)
        /\ \A i \in 1..Len(reserves) : all[i] = reserves[i]
        /\ \A i \in 1..Len(<<x>>) : all[Len(reserves) + i] = <<x>>[i]
    BY <1>2, <1>4, <1>9, Joined
  <2>2. all[Len(reserves) + 1] = <<x>>[1]
    BY <1>9, <2>1
  <2> QED BY <1>4, <1>9, <2>1, <2>2
<1> QED BY <1>3, <1>5, <1>8, <1>10 DEF all, n

LEMMA RefreshIxsFacts ==
    ASSUME NEW a, NEW flash, AccountsOk(a)
    PROVE  Only(RefreshIxs(a, flash), RefreshOps) /\ Len(RefreshIxs(a, flash)) <= 16
<1> DEFINE d == DepositReserves(a, flash)
           b == BorrowReserves(a, flash)
           listed == IF a.metas # << >> THEN a.metas ELSE d \o b
           keys == Dedup(listed)
<1>1. Short(d, 9) /\ Short(b, 6)
  <2>1. Short(a.deposits, 8) /\ Short(a.borrows, 5)
    BY DEF AccountsOk
  <2>2. Short(Listed(a, a.deposits, a.withdraw, flash), 8 + 1)
    BY <2>1, ListedShort
  <2>3. Short(Listed(a, a.borrows, a.repay, flash), 5 + 1)
    BY <2>1, ListedShort
  <2> QED BY <2>2, <2>3 DEF DepositReserves, BorrowReserves
<1>2. RefreshIxs(a, flash) = RefreshAll(a, flash, keys)
  BY DEF RefreshIxs
<1> HIDE DEF d, b
<1>3. Short(d \o b, 15)
  <2>1. IsSeq(d \o b) /\ Len(d \o b) = Len(d) + Len(b) /\ Len(d) \in Nat /\ Len(b) \in Nat
    BY <1>1, Joined DEF Short
  <2> QED BY <1>1, <2>1 DEF Short
<1>4. Short(listed, 15)
  <2>1. Short(a.metas, 15)
    BY SeqFacts DEF AccountsOk, Short
  <2> QED BY <1>3, <2>1
<1> HIDE DEF listed
<1>5. Short(keys, 15)
  <2>1. IsSeq(keys) /\ Len(keys) <= Len(listed) /\ Len(listed) \in Nat /\ Len(listed) <= 15
    BY <1>4, KeptOnceFacts, SeqFacts DEF Short, Dedup
  <2>2. Len(keys) \in Nat
    BY <2>1, SeqFacts
  <2> QED BY <2>1, <2>2 DEF Short
<1> HIDE DEF keys
<1>6. /\ Only(RefreshAll(a, flash, keys), RefreshOps)
      /\ Len(RefreshAll(a, flash, keys)) = Len(keys) + 1
  BY <1>5, RefreshAllFacts DEF Short
<1>7. Len(keys) \in Nat /\ Len(keys) <= 15
  BY <1>5, SeqFacts DEF Short
<1> QED BY <1>2, <1>6, <1>7

LEMMA EnsureAtaIxsFacts ==
    ASSUME NEW a
    PROVE  Only(EnsureAtaIxs(a), {"create_idempotent"}) /\ Len(EnsureAtaIxs(a)) <= 3
<1> DEFINE s == <<LiquidityAta(a.repay, a.live), CollateralAta(a.withdraw, a.live),
                  LiquidityAta(a.withdraw, a.live)>>
           list == EnsureAtas(a)
           n == Len(list)
           e == EnsureAtaIxs(a)
<1>1. IsSeq(s) /\ Len(s) = 3
  <2>1. \A x, y, z : <<x, y, z>> \in Seq({x, y, z}) /\ Len(<<x, y, z>>) = 3
    OBVIOUS
  <2>2. s \in Seq({s[1], s[2], s[3]}) /\ Len(s) = 3
    BY <2>1
  <2> HIDE DEF s
  <2> QED BY <2>2, TypedIsSeq
<1>2. list = KeptOnce(s, a.missing)
  BY DEF EnsureAtas
<1> HIDE DEF s
<1>3. IsSeq(list) /\ n <= 3
  BY <1>1, <1>2, KeptOnceFacts
<1>4. n \in Nat /\ DOMAIN list = 1..n
  BY <1>3, SeqFacts
<1>5. e = [i \in 1..n |-> CreateAta(list[i])]
  BY <1>4 DEF EnsureAtaIxs
<1> HIDE DEF list, n, e
<1>6. IsSeq(e) /\ Len(e) = n
  <2>1. e = [i \in 1..n |-> e[i]]
    BY <1>5
  <2> QED BY <1>4, <2>1, FunctionIsSeq
<1>7. \A i \in 1..Len(e) : e[i].op \in {"create_idempotent"}
  BY <1>5, <1>6 DEF CreateAta
<1> QED BY <1>3, <1>6, <1>7 DEF e, Only

LEMMA ComputeBudgetFacts == Only(ComputeBudget, SetupOps) /\ Len(ComputeBudget) = 2
<1> DEFINE x == [op |-> "compute_unit_limit"]
           y == [op |-> "compute_unit_price"]
<1>1. x.op \in SetupOps /\ y.op \in SetupOps /\ ComputeBudget = <<x, y>>
  BY DEF SetupOps, ComputeBudget
<1> HIDE DEF x, y
<1>2. IsSeq(<<x, y>>) /\ Len(<<x, y>>) = 2
  BY TwoIsSeq
<1>3. \A i \in 1..2 : <<x, y>>[i].op \in SetupOps
  <2>1. <<x, y>>[1] = x /\ <<x, y>>[2] = y
    OBVIOUS
  <2>2. ASSUME NEW i \in 1..2 PROVE i = 1 \/ i = 2
    OBVIOUS
  <2> QED BY <1>1, <2>1, <2>2
<1> QED BY <1>1, <1>2, <1>3 DEF Only

\* What comes before the loan: few enough for an index of one byte.
LEMMA BeforeFacts ==
    ASSUME NEW a, NEW flash, AccountsOk(a)
    PROVE  LET before == ComputeBudget \o RefreshIxs(a, flash) \o EnsureAtaIxs(a)
           IN  Only(before, SetupOps) /\ Len(before) <= 21
<1> DEFINE c == ComputeBudget
           r == RefreshIxs(a, flash)
           e == EnsureAtaIxs(a)
<1>1. Only(c, SetupOps) /\ Only(r, SetupOps) /\ Only(e, SetupOps)
  <2>1. Only(r, RefreshOps) /\ Only(e, {"create_idempotent"})
    BY RefreshIxsFacts, EnsureAtaIxsFacts
  <2>2. RefreshOps \subseteq SetupOps /\ {"create_idempotent"} \subseteq SetupOps
    BY DEF SetupOps
  <2> HIDE DEF c, r, e
  <2> QED BY <2>1, <2>2, ComputeBudgetFacts, OnlyMore DEF c
<1>2. Len(c) = 2 /\ Len(r) <= 16 /\ Len(e) <= 3
  BY ComputeBudgetFacts, RefreshIxsFacts, EnsureAtaIxsFacts
<1> HIDE DEF c, r, e
<1>3. Only(c \o r, SetupOps) /\ Only((c \o r) \o e, SetupOps)
  BY <1>1, OnlyJoined
<1>4. Len(c \o r) = Len(c) + Len(r) /\ Len(r) \in Nat
  BY <1>1, Joined DEF Only
<1>5. Len((c \o r) \o e) = Len(c \o r) + Len(e) /\ Len(e) \in Nat
  BY <1>1, <1>3, Joined DEF Only
<1>6. Len((c \o r) \o e) <= 21
  BY <1>2, <1>4, <1>5
<1> QED BY <1>3, <1>6 DEF c, r, e

LEMMA SwapsFacts ==
    ASSUME NEW swaps \in SwapLists
    PROVE  Only(swaps, SwapOps)
<1>1. Only(<< >>, SwapOps)
  <2> DEFINE x == [op |-> "jupiter_swap"]
  <2>1. x.op \in SwapOps
    BY DEF SwapOps
  <2> HIDE DEF x
  <2> QED BY <2>1, OnlyOne
<1>2. ASSUME NEW items, IsSeq(items) PROVE Only(Parsed(items), SwapOps)
  <2> DEFINE I == {j \in DOMAIN items : items[j] = "instruction"}
             n == Cardinality(I)
             p == Parsed(items)
  <2>1. IsFiniteSet(1..Len(items)) /\ I \subseteq 1..Len(items)
    <3>1. Len(items) \in Nat /\ DOMAIN items = 1..Len(items)
      BY <1>2, SeqFacts
    <3> QED BY <3>1, FS_Interval
  <2>2. n \in Nat
    <3> HIDE DEF I
    <3> QED BY <2>1, FS_Subset, FS_CardinalityType
  <2>3. p = [i \in 1..n |-> [op |-> "jupiter_swap"]]
    BY DEF Parsed
  <2> HIDE DEF I, n, p
  <2>4. IsSeq(p) /\ Len(p) = n
    <3>1. p = [i \in 1..n |-> p[i]]
      BY <2>3
    <3> QED BY <2>2, <3>1, FunctionIsSeq
  <2>5. \A i \in 1..n : p[i].op \in SwapOps
    BY <2>3 DEF SwapOps
  <2> QED BY <2>4, <2>5 DEF Only, p
<1>3. PICK v \in QuoteFiles : swaps = SwapsFromEnv(v)
  BY DEF SwapLists
<1>4. IsSeq(<<v.swapInstruction>> \o v.instructions) /\ IsSeq(<<v.itself>>)
  <2>1. v.instructions = << >> \/ v.instructions = <<"malformed", "instruction">>
    BY DEF QuoteFiles
  <2>2. IsSeq(v.instructions)
    <3>1. IsSeq(<< >>) /\ IsSeq(<<"malformed", "instruction">>)
      BY OneOrNone, TwoIsSeq
    <3> QED BY <2>1, <3>1
  <2> QED BY <2>2, OneOrNone, Joined
<1>5. Only(FromJsonValue(v), SwapOps)
  BY <1>2, <1>4 DEF FromJsonValue
<1> QED BY <1>1, <1>3, <1>5 DEF SwapsFromEnv

-----------------------------------------------------------------------------
(* The shape of a plan                                                     *)

\* One more instruction at the end.
LEMMA JoinedOne ==
    ASSUME NEW s, NEW x, IsSeq(s)
    PROVE  /\ IsSeq(s \o <<x>>) /\ Len(s \o <<x>>) = Len(s) + 1 /\ Len(s) \in Nat
           /\ \A i \in 1..Len(s) : (s \o <<x>>)[i] = s[i]
           /\ (s \o <<x>>)[Len(s) + 1] = x
<1>1. IsSeq(<<x>>) /\ Len(<<x>>) = 1 /\ <<x>>[1] = x
  BY OneOrNone
<1>2. /\ IsSeq(s \o <<x>>) /\ Len(s \o <<x>>) = Len(s) + Len(<<x>>) /\ Len(s) \in Nat
      /\ \A i \in 1..Len(s) : (s \o <<x>>)[i] = s[i]
      /\ \A i \in 1..Len(<<x>>) : (s \o <<x>>)[Len(s) + i] = <<x>>[i]
  BY <1>1, Joined
<1>3. (s \o <<x>>)[Len(s) + 1] = <<x>>[1]
  BY <1>1, <1>2
<1> QED BY <1>1, <1>2, <1>3

\* Where f, l and r, and the parts between them, come to stand.
LoanPlan(p, B, f, M, l, W, r) ==
    LET b == Len(B)
        m == Len(M)
        w == Len(W)
    IN  /\ b \in Nat /\ m \in Nat /\ w \in Nat
        /\ IsSeq(p) /\ Len(p) = b + m + w + 3
        /\ \A i \in 1..b : p[i] = B[i]
        /\ p[b + 1] = f
        /\ \A i \in 1..m : p[b + 1 + i] = M[i]
        /\ p[b + m + 2] = l
        /\ \A i \in 1..w : p[b + m + 2 + i] = W[i]
        /\ p[b + m + w + 3] = r

LEMMA LoanPlanShape ==
    ASSUME NEW B, NEW f, NEW M, NEW l, NEW W, NEW r, IsSeq(B), IsSeq(M), IsSeq(W)
    PROVE  LoanPlan(B \o <<f>> \o M \o <<l>> \o W \o <<r>>, B, f, M, l, W, r)
<1> DEFINE b == Len(B)
           m == Len(M)
           w == Len(W)
           p1 == B \o <<f>>
           p2 == p1 \o M
           p3 == p2 \o <<l>>
           p4 == p3 \o W
           p5 == p4 \o <<r>>
<1>1. /\ IsSeq(p1) /\ Len(p1) = b + 1 /\ b \in Nat
      /\ \A i \in 1..b : p1[i] = B[i]
      /\ p1[b + 1] = f
  BY JoinedOne
<1> HIDE DEF p1
<1>2. /\ IsSeq(p2) /\ Len(p2) = b + 1 + m /\ m \in Nat
      /\ \A i \in 1..b + 1 : p2[i] = p1[i]
      /\ \A i \in 1..m : p2[b + 1 + i] = M[i]
  BY <1>1, Joined
<1> HIDE DEF p2
<1>3. /\ IsSeq(p3) /\ Len(p3) = b + 1 + m + 1
      /\ \A i \in 1..b + 1 + m : p3[i] = p2[i]
      /\ p3[b + 1 + m + 1] = l
  BY <1>2, JoinedOne
<1> HIDE DEF p3
<1>4. /\ IsSeq(p4) /\ Len(p4) = b + 1 + m + 1 + w /\ w \in Nat
      /\ \A i \in 1..b + 1 + m + 1 : p4[i] = p3[i]
      /\ \A i \in 1..w : p4[b + 1 + m + 1 + i] = W[i]
  BY <1>3, Joined
<1> HIDE DEF p4
<1>5. /\ IsSeq(p5) /\ Len(p5) = b + 1 + m + 1 + w + 1
      /\ \A i \in 1..b + 1 + m + 1 + w : p5[i] = p4[i]
      /\ p5[b + 1 + m + 1 + w + 1] = r
  BY <1>4, JoinedOne
<1>6. p5 = B \o <<f>> \o M \o <<l>> \o W \o <<r>>
  BY DEF p1, p2, p3, p4
<1> HIDE DEF p5
<1> HIDE DEF b, m, w
<1>7. ASSUME NEW i \in 1..b PROVE p5[i] = B[i]
  <2>1. i \in 1..b + 1 /\ i \in 1..b + 1 + m /\ i \in 1..b + 1 + m + 1 /\ i \in 1..b + 1 + m + 1 + w
    BY <1>1, <1>2, <1>4
  <2> QED BY <1>1, <1>2, <1>3, <1>4, <1>5, <2>1
<1>8. p5[b + 1] = f
  <2>1. /\ b + 1 \in 1..b + 1 /\ b + 1 \in 1..b + 1 + m /\ b + 1 \in 1..b + 1 + m + 1
        /\ b + 1 \in 1..b + 1 + m + 1 + w
    BY <1>1, <1>2, <1>4
  <2> QED BY <1>1, <1>2, <1>3, <1>4, <1>5, <2>1
<1>9. ASSUME NEW i \in 1..m PROVE p5[b + 1 + i] = M[i]
  <2>1. /\ b + 1 + i \in 1..b + 1 + m /\ b + 1 + i \in 1..b + 1 + m + 1
        /\ b + 1 + i \in 1..b + 1 + m + 1 + w
    BY <1>1, <1>2, <1>4, SMTT(30)
  <2> QED BY <1>2, <1>3, <1>4, <1>5, <2>1
<1>10. p5[b + m + 2] = l
  <2>1. /\ b + m + 2 = b + 1 + m + 1 /\ b + m + 2 \in 1..b + 1 + m + 1
        /\ b + m + 2 \in 1..b + 1 + m + 1 + w
    BY <1>1, <1>2, <1>4, SMTT(30)
  <2> QED BY <1>3, <1>4, <1>5, <2>1
<1>11. ASSUME NEW i \in 1..w PROVE p5[b + m + 2 + i] = W[i]
  <2>1. b + m + 2 + i = b + 1 + m + 1 + i /\ b + m + 2 + i \in 1..b + 1 + m + 1 + w
    BY <1>1, <1>2, <1>4
  <2> QED BY <1>4, <1>5, <2>1
<1>12. Len(p5) = b + m + w + 3 /\ p5[b + m + w + 3] = r
  <2>1. b + m + w + 3 = b + 1 + m + 1 + w + 1
    BY <1>1, <1>2, <1>4, SMTT(30)
  <2> QED BY <1>5, <2>1
<1>13. LoanPlan(p5, B, f, M, l, W, r)
  BY <1>1, <1>2, <1>4, <1>5, <1>7, <1>8, <1>9, <1>10, <1>11, <1>12 DEF LoanPlan, b, m, w
<1> QED BY <1>6, <1>13

\* The same without anything between the loan and the liquidation.
LEMMA ShortLoanPlanShape ==
    ASSUME NEW B, NEW f, NEW l, NEW W, NEW r, IsSeq(B), IsSeq(W)
    PROVE  LoanPlan(B \o <<f, l>> \o W \o <<r>>, B, f, << >>, l, W, r)
<1> DEFINE S == {B[i] : i \in DOMAIN B} \cup {f, l}
<1>1. B \in Seq(S) /\ <<f>> \in Seq(S) /\ <<l>> \in Seq(S) /\ <<f, l>> = <<f>> \o <<l>>
  <2>1. B \in Seq(S)
    BY SeqMonotonic DEF IsSeq
  <2>2. f \in S /\ l \in S
    OBVIOUS
  <2> HIDE DEF S
  <2>3. <<f>> \in Seq(S) /\ <<l>> \in Seq(S) /\ <<f>> \o <<l>> = Append(<<f>>, l)
    BY <2>2, AppendIsConcat
  <2>4. Append(<<f>>, l) = <<f, l>>
    <3> DEFINE s == Append(<<f>>, l)
               t == <<f, l>>
    <3>1. Len(<<f>>) = 1 /\ <<f>>[1] = f
      OBVIOUS
    <3>2. s \in Seq(S) /\ Len(s) = 2 /\ s[1] = f /\ s[2] = l
      BY <2>2, <2>3, <3>1, AppendProperties
    <3>3. t \in Seq(S) /\ Len(t) = 2 /\ t[1] = f /\ t[2] = l
      BY <2>2
    <3> HIDE DEF s, t
    <3>4. \A i \in 1..Len(s) : s[i] = t[i]
      <4>1. ASSUME NEW i \in 1..2 PROVE i = 1 \/ i = 2
        OBVIOUS
      <4> QED BY <3>2, <3>3, <4>1
    <3>5. s = t
      BY <3>2, <3>3, <3>4, SeqEqual
    <3> QED BY <3>5 DEF s, t
  <2> QED BY <2>1, <2>3, <2>4
<1> HIDE DEF S
<1>2. B \o <<f, l>> = (B \o <<f>>) \o <<l>>
  BY <1>1, ConcatAssociative
<1>3. (B \o <<f>>) \o << >> = B \o <<f>>
  <2>1. B \o <<f>> \in Seq(S)
    BY <1>1, ConcatProperties
  <2> QED BY <2>1, ConcatEmptySeq
<1>4. IsSeq(<< >>)
  BY OneOrNone
<1>5. LoanPlan(B \o <<f>> \o << >> \o <<l>> \o W \o <<r>>, B, f, << >>, l, W, r)
  BY <1>4, LoanPlanShape
<1> QED BY <1>2, <1>3, <1>5

-----------------------------------------------------------------------------
(* What is opened is closed                                                *)

Places(p, op) == {i \in DOMAIN p : p[i].op = op}

Follows(p, op, next) == \E i \in Places(p, op), j \in Places(p, next) : i < j

SwapsLie(p, from, to) ==
    \A i \in Places(p, from), s \in Places(p, "jupiter_swap"), j \in Places(p, to) : i < s /\ s < j

\* OpenedIsClosed of a list p.
Closed(p) ==
    /\ \A i \in Places(p, "flash_borrow") :
          /\ Follows(p, "flash_borrow", "liquidate") /\ Follows(p, "liquidate", "flash_repay")
          /\ SwapsLie(p, "liquidate", "flash_repay")
          /\ \A j \in Places(p, "flash_repay") :
                p[j].index + 1 = i /\ p[j].reserve = p[i].reserve
    /\ \A i \in Places(p, "start_liquidation") :
          /\ Follows(p, "start_liquidation", "withdraw") /\ Follows(p, "withdraw", "repay")
          /\ Follows(p, "repay", "end_liquidation")
          /\ SwapsLie(p, "withdraw", "repay")
          /\ Places(p, "end_liquidation") = {Len(p)}

LEMMA ClosedIsProperty == Closed(ixs) => OpenedIsClosed
<1> SUFFICES ASSUME Closed(ixs) PROVE OpenedIsClosed
  OBVIOUS
<1> DEFINE At(op) == {i \in DOMAIN ixs : ixs[i].op = op}
           InOrder(ops) == \A k \in 1..Len(ops) - 1 :
                               \E i \in At(ops[k]), j \in At(ops[k + 1]) : i < j
           loan == <<"flash_borrow", "liquidate", "flash_repay">>
           receivership == <<"start_liquidation", "withdraw", "repay", "end_liquidation">>
<1>1. \A op : At(op) = Places(ixs, op)
  BY DEF Places
<1>2. ASSUME NEW i \in At("flash_borrow") PROVE InOrder(loan)
  <2>1. Len(loan) = 3 /\ loan[1] = "flash_borrow" /\ loan[2] = "liquidate" /\ loan[3] = "flash_repay"
    OBVIOUS
  <2> HIDE DEF loan, At
  <2>2. ASSUME NEW k \in 1..3 - 1 PROVE k = 1 \/ k = 2
    OBVIOUS
  <2>3. \E x \in At(loan[1]), y \in At(loan[1 + 1]) : x < y
    BY <1>1, <1>2, <2>1 DEF Closed, Follows
  <2>4. \E x \in At(loan[2]), y \in At(loan[2 + 1]) : x < y
    BY <1>1, <1>2, <2>1 DEF Closed, Follows
  <2> QED BY <2>1, <2>2, <2>3, <2>4
<1>3. ASSUME NEW i \in At("start_liquidation") PROVE InOrder(receivership)
  <2>1. /\ Len(receivership) = 4
        /\ receivership[1] = "start_liquidation" /\ receivership[2] = "withdraw"
        /\ receivership[3] = "repay" /\ receivership[4] = "end_liquidation"
    OBVIOUS
  <2> HIDE DEF receivership, At
  <2>2. ASSUME NEW k \in 1..4 - 1 PROVE k = 1 \/ k = 2 \/ k = 3
    OBVIOUS
  <2>3. \E x \in At(receivership[1]), y \in At(receivership[1 + 1]) : x < y
    BY <1>1, <1>3, <2>1 DEF Closed, Follows
  <2>4. \E x \in At(receivership[2]), y \in At(receivership[2 + 1]) : x < y
    BY <1>1, <1>3, <2>1 DEF Closed, Follows
  <2>5. \E x \in At(receivership[3]), y \in At(receivership[3 + 1]) : x < y
    BY <1>1, <1>3, <2>1 DEF Closed, Follows
  <2> QED BY <2>1, <2>2, <2>3, <2>4, <2>5
<1>4. ASSUME NEW i \in At("flash_borrow")
      PROVE  /\ \A x \in At("liquidate"), s \in At("jupiter_swap"), y \in At("flash_repay") :
                   x < s /\ s < y
             /\ \A j \in At("flash_repay") :
                   ixs[j].index + 1 = i /\ ixs[j].reserve = ixs[i].reserve
  <2> HIDE DEF At
  <2> QED BY <1>1, <1>4 DEF Closed, SwapsLie
<1>5. ASSUME NEW i \in At("start_liquidation")
      PROVE  /\ \A x \in At("withdraw"), s \in At("jupiter_swap"), y \in At("repay") :
                   x < s /\ s < y
             /\ At("end_liquidation") = {Len(ixs)}
  <2> HIDE DEF At
  <2> QED BY <1>1, <1>5 DEF Closed, SwapsLie
<1> QED BY <1>2, <1>3, <1>4, <1>5 DEF OpenedIsClosed

\* Where the instructions of each kind stand in a plan over a loan.
LoanShaped(B, f, M, l, W, r) ==
    /\ Only(B, SetupOps) /\ Only(M, RefreshOps) /\ Only(W, SwapOps)
    /\ f.op = "flash_borrow" /\ l.op = "liquidate" /\ r.op = "flash_repay"

LEMMA LoanPlaces ==
    ASSUME NEW p, NEW B, NEW f, NEW M, NEW l, NEW W, NEW r,
           LoanPlan(p, B, f, M, l, W, r), LoanShaped(B, f, M, l, W, r)
    PROVE  /\ Places(p, "flash_borrow") = {Len(B) + 1}
           /\ Places(p, "liquidate") = {Len(B) + Len(M) + 2}
           /\ Places(p, "flash_repay") = {Len(p)}
           /\ Places(p, "jupiter_swap") = Len(B) + Len(M) + 3 .. Len(p) - 1
           /\ Places(p, "start_liquidation") = {}
<1> DEFINE b == Len(B)
           m == Len(M)
           w == Len(W)
<1>1. /\ b \in Nat /\ m \in Nat /\ w \in Nat /\ Len(p) = b + m + w + 3 /\ DOMAIN p = 1..Len(p)
      /\ \A i \in 1..b : p[i] = B[i]
      /\ p[b + 1] = f
      /\ \A i \in 1..m : p[b + 1 + i] = M[i]
      /\ p[b + m + 2] = l
      /\ \A i \in 1..w : p[b + m + 2 + i] = W[i]
      /\ p[b + m + w + 3] = r
  BY SeqFacts DEF LoanPlan
<1>2. /\ \A i \in 1..b : B[i].op \in SetupOps
      /\ \A i \in 1..m : M[i].op \in RefreshOps
      /\ \A i \in 1..w : W[i].op \in SwapOps
  BY DEF LoanShaped, Only
<1> HIDE DEF b, m, w
<1>3. ASSUME NEW i \in 1..Len(p)
      PROVE  \/ i \in 1..b /\ p[i].op \in SetupOps
             \/ i = b + 1 /\ p[i].op = "flash_borrow"
             \/ i \in b + 2 .. b + m + 1 /\ p[i].op \in RefreshOps
             \/ i = b + m + 2 /\ p[i].op = "liquidate"
             \/ i \in b + m + 3 .. Len(p) - 1 /\ p[i].op \in SwapOps
             \/ i = Len(p) /\ p[i].op = "flash_repay"
  <2>1. CASE i \in 1..b
    BY <1>1, <1>2, <2>1
  <2>2. CASE i = b + 1
    BY <1>1, <2>2 DEF LoanShaped
  <2>3. CASE i \in b + 2 .. b + m + 1
    <3>1. i - (b + 1) \in 1..m /\ i = b + 1 + (i - (b + 1))
      BY <1>1, <2>3
    <3>2. p[i] = M[i - (b + 1)]
      BY <1>1, <3>1
    <3> QED BY <1>2, <2>3, <3>1, <3>2
  <2>4. CASE i = b + m + 2
    BY <1>1, <2>4 DEF LoanShaped
  <2>5. CASE i \in b + m + 3 .. Len(p) - 1
    <3>1. i - (b + m + 2) \in 1..w /\ i = b + m + 2 + (i - (b + m + 2))
      BY <1>1, <2>5
    <3>2. p[i] = W[i - (b + m + 2)]
      BY <1>1, <3>1
    <3> QED BY <1>2, <2>5, <3>1, <3>2
  <2>6. CASE i = Len(p)
    BY <1>1, <2>6 DEF LoanShaped
  <2> QED BY <1>1, <2>1, <2>2, <2>3, <2>4, <2>5, <2>6
<1>4. /\ "flash_borrow" \notin SetupOps \cup RefreshOps \cup SwapOps
      /\ "liquidate" \notin SetupOps \cup RefreshOps \cup SwapOps
      /\ "flash_repay" \notin SetupOps \cup RefreshOps \cup SwapOps
      /\ "start_liquidation" \notin SetupOps \cup RefreshOps \cup SwapOps
      /\ "jupiter_swap" \notin SetupOps \cup RefreshOps
      /\ SwapOps = {"jupiter_swap"}
  BY DEF SetupOps, RefreshOps, SwapOps
<1> HIDE DEF SetupOps, RefreshOps, SwapOps
<1>5. /\ b + 1 \in 1..Len(p) /\ b + m + 2 \in 1..Len(p) /\ Len(p) \in 1..Len(p)
      /\ b + m + 3 .. Len(p) - 1 \subseteq 1..Len(p)
      /\ b + 1 # b + m + 2 /\ b + 1 # Len(p) /\ b + m + 2 # Len(p)
      /\ b + 1 \notin (1..b) \cup (b + 2 .. b + m + 1) \cup (b + m + 3 .. Len(p) - 1)
      /\ b + m + 2 \notin (1..b) \cup (b + 2 .. b + m + 1) \cup (b + m + 3 .. Len(p) - 1)
      /\ Len(p) \notin (1..b) \cup (b + 2 .. b + m + 1) \cup (b + m + 3 .. Len(p) - 1)
  BY <1>1
<1>6. /\ p[b + 1].op = "flash_borrow" /\ p[b + m + 2].op = "liquidate" /\ p[Len(p)].op = "flash_repay"
  BY <1>1 DEF LoanShaped
<1>7. ASSUME NEW i \in b + m + 3 .. Len(p) - 1 PROVE p[i].op = "jupiter_swap"
  <2>1. /\ i \in 1..Len(p) /\ i \notin 1..b /\ i # b + 1 /\ i \notin b + 2 .. b + m + 1
        /\ i # b + m + 2 /\ i # Len(p)
    BY <1>1
  <2> QED BY <1>3, <1>4, <2>1
<1>8. Places(p, "flash_borrow") = {b + 1}
  BY <1>1, <1>3, <1>4, <1>5, <1>6 DEF Places
<1>9. Places(p, "liquidate") = {b + m + 2}
  BY <1>1, <1>3, <1>4, <1>5, <1>6 DEF Places
<1>10. Places(p, "flash_repay") = {Len(p)}
  BY <1>1, <1>3, <1>4, <1>5, <1>6 DEF Places
<1>11. Places(p, "jupiter_swap") = b + m + 3 .. Len(p) - 1
  <2>1. ASSUME NEW i \in Places(p, "jupiter_swap") PROVE i \in b + m + 3 .. Len(p) - 1
    <3>1. i \in 1..Len(p) /\ p[i].op = "jupiter_swap"
      BY <1>1 DEF Places
    <3>2. p[i].op \notin SetupOps \cup RefreshOps
          /\ p[i].op \notin {"flash_borrow", "liquidate", "flash_repay"}
      BY <1>4, <3>1
    <3> QED BY <1>3, <1>6, <3>1, <3>2
  <2>2. ASSUME NEW i \in b + m + 3 .. Len(p) - 1 PROVE i \in Places(p, "jupiter_swap")
    BY <1>1, <1>5, <1>7 DEF Places
  <2> QED BY <2>1, <2>2
<1>12. Places(p, "start_liquidation") = {}
  BY <1>1, <1>3, <1>4 DEF Places
<1> QED BY <1>8, <1>9, <1>10, <1>11, <1>12 DEF b, m

\* The repayment's index counts what is before the loan and is not cut off.
LEMMA LoanIsClosed ==
    ASSUME NEW p, NEW B, NEW f, NEW M, NEW l, NEW W, NEW r,
           LoanPlan(p, B, f, M, l, W, r), LoanShaped(B, f, M, l, W, r),
           Len(B) < 256, r.index = Len(B) % 256, r.reserve = f.reserve
    PROVE  Closed(p)
<1>1. /\ Places(p, "flash_borrow") = {Len(B) + 1}
      /\ Places(p, "liquidate") = {Len(B) + Len(M) + 2}
      /\ Places(p, "flash_repay") = {Len(p)}
      /\ Places(p, "jupiter_swap") = Len(B) + Len(M) + 3 .. Len(p) - 1
      /\ Places(p, "start_liquidation") = {}
  BY LoanPlaces
<1>2. /\ Len(B) \in Nat /\ Len(M) \in Nat /\ Len(W) \in Nat
      /\ Len(p) = Len(B) + Len(M) + Len(W) + 3
      /\ p[Len(B) + 1] = f /\ p[Len(p)] = r
  BY DEF LoanPlan
<1>3. r.index = Len(B)
  BY <1>2
<1>4. Follows(p, "flash_borrow", "liquidate") /\ Follows(p, "liquidate", "flash_repay")
  <2>1. Len(B) + 1 < Len(B) + Len(M) + 2 /\ Len(B) + Len(M) + 2 < Len(p)
    BY <1>2
  <2> QED BY <1>1, <2>1, ZenonT(30) DEF Follows
<1>5. SwapsLie(p, "liquidate", "flash_repay")
  <2>1. \A s \in Len(B) + Len(M) + 3 .. Len(p) - 1 : Len(B) + Len(M) + 2 < s /\ s < Len(p)
    BY <1>2
  <2> QED BY <1>1, <2>1 DEF SwapsLie
<1>6. r.index + 1 = Len(B) + 1
  BY <1>2, <1>3
<1> QED BY <1>1, <1>2, <1>4, <1>5, <1>6 DEF Closed

\* A receivership ends with its last instruction.
LEMMA ReceivershipIsClosed ==
    ASSUME NEW a, NEW swaps, Only(swaps, SwapOps)
    PROVE  Closed(BuildReceivershipTx(a, swaps))
<1> DEFINE c == ComputeBudget
           x == [op |-> "start_liquidation"]
           y == [op |-> "withdraw", bank |-> a.withdraw]
           u == [op |-> "repay", bank |-> a.repay]
           v == [op |-> "end_liquidation"]
           xy == <<x, y>>
           uv == <<u, v>>
           w == Len(swaps)
           p2 == c \o xy
           p3 == p2 \o swaps
           p == p3 \o uv
<1>1. /\ x.op = "start_liquidation" /\ y.op = "withdraw" /\ u.op = "repay"
      /\ v.op = "end_liquidation"
      /\ p = BuildReceivershipTx(a, swaps)
  BY DEF BuildReceivershipTx
<1>2. IsSeq(c) /\ Len(c) = 2 /\ \A i \in 1..2 : c[i].op \in SetupOps
  BY ComputeBudgetFacts DEF Only
<1>3. IsSeq(swaps) /\ w \in Nat /\ \A i \in 1..w : swaps[i].op = "jupiter_swap"
  BY SeqFacts DEF Only, SwapOps
<1>4. /\ IsSeq(xy) /\ Len(xy) = 2 /\ xy[1] = x /\ xy[2] = y
      /\ IsSeq(uv) /\ Len(uv) = 2 /\ uv[1] = u /\ uv[2] = v
  <2> HIDE DEF x, y, u, v
  <2> QED BY TwoIsSeq
<1> HIDE DEF c, x, y, u, v, xy, uv
<1>5. /\ IsSeq(p2) /\ Len(p2) = 4
      /\ \A i \in 1..2 : p2[i] = c[i]
      /\ p2[3] = x /\ p2[4] = y
  <2>1. /\ IsSeq(p2) /\ Len(p2) = Len(c) + Len(xy)
        /\ \A i \in 1..Len(c) : p2[i] = c[i]
        /\ \A i \in 1..Len(xy) : p2[Len(c) + i] = xy[i]
    BY <1>2, <1>4, Joined, SMTT(30)
  <2>2. p2[2 + 1] = x /\ p2[2 + 2] = y
    BY <1>2, <1>4, <2>1, SMTT(30)
  <2> QED BY <1>2, <1>4, <2>1, <2>2
<1> HIDE DEF p2
<1>6. /\ IsSeq(p3) /\ Len(p3) = 4 + w
      /\ \A i \in 1..4 : p3[i] = p2[i]
      /\ \A i \in 1..w : p3[4 + i] = swaps[i]
  <2>1. /\ IsSeq(p3) /\ Len(p3) = Len(p2) + Len(swaps)
        /\ \A i \in 1..Len(p2) : p3[i] = p2[i]
        /\ \A i \in 1..Len(swaps) : p3[Len(p2) + i] = swaps[i]
    <3>1. IsSeq(p2) /\ IsSeq(swaps)
      BY <1>3, <1>5
    <3> QED BY <3>1, Joined
  <2> HIDE DEF p3
  <2> QED BY <1>5, <2>1
<1> HIDE DEF p3, w
<1>7. /\ IsSeq(p) /\ Len(p) = 6 + w
      /\ \A i \in 1..4 + w : p[i] = p3[i]
      /\ p[5 + w] = u /\ p[6 + w] = v
  <2>1. /\ IsSeq(p) /\ Len(p) = Len(p3) + Len(uv)
        /\ \A i \in 1..Len(p3) : p[i] = p3[i]
        /\ \A i \in 1..Len(uv) : p[Len(p3) + i] = uv[i]
    <3>1. IsSeq(p3) /\ IsSeq(uv)
      BY <1>4, <1>6
    <3> QED BY <3>1, Joined
  <2>2. p[4 + w + 1] = u /\ p[4 + w + 2] = v
    BY <1>4, <1>6, <2>1
  <2>3. Len(p) = 6 + w /\ 4 + w + 1 = 5 + w /\ 4 + w + 2 = 6 + w
    BY <1>3, <1>4, <1>6, <2>1
  <2> QED BY <1>6, <2>1, <2>2, <2>3
<1> HIDE DEF p
<1>8. DOMAIN p = 1 .. 6 + w
  BY <1>7, SeqFacts
<1>9. /\ p[3].op = "start_liquidation" /\ p[4].op = "withdraw"
      /\ p[5 + w].op = "repay" /\ p[6 + w].op = "end_liquidation"
  <2>1. 3 \in 1..4 + w /\ 4 \in 1..4 + w
    BY <1>3
  <2> QED BY <1>1, <1>5, <1>6, <1>7, <2>1
<1>10. \A i \in 1..2 : p[i].op \in SetupOps
  <2>1. \A i \in 1..2 : i \in 1..4 + w /\ i \in 1..4
    BY <1>3
  <2> QED BY <1>2, <1>5, <1>6, <1>7, <2>1
<1>11. ASSUME NEW i \in 5 .. 4 + w PROVE p[i].op = "jupiter_swap"
  <2>1. i - 4 \in 1..w /\ i = 4 + (i - 4) /\ i \in 1..4 + w
    BY <1>3
  <2>2. p[i] = swaps[i - 4]
    BY <1>6, <1>7, <2>1
  <2> QED BY <1>3, <2>1, <2>2
<1>12. ASSUME NEW i \in 1 .. 6 + w
       PROVE  i \in 1..2 \/ i = 3 \/ i = 4 \/ i \in 5 .. 4 + w \/ i = 5 + w \/ i = 6 + w
  BY <1>3
<1>13. /\ {"flash_borrow", "start_liquidation", "withdraw", "repay", "end_liquidation",
           "jupiter_swap"} \cap SetupOps = {}
  BY DEF SetupOps, RefreshOps
<1> HIDE DEF SetupOps
<1>14. 3 \in 1 .. 6 + w /\ 4 \in 1 .. 6 + w /\ 5 + w \in 1 .. 6 + w /\ 6 + w \in 1 .. 6 + w
  BY <1>3
<1>15. Places(p, "flash_borrow") = {}
  BY <1>8, <1>9, <1>10, <1>11, <1>12, <1>13 DEF Places
<1>16. Places(p, "withdraw") = {4} /\ Places(p, "repay") = {5 + w}
  BY <1>8, <1>9, <1>10, <1>11, <1>12, <1>13, <1>14 DEF Places
<1>17. Places(p, "start_liquidation") = {3} /\ Places(p, "end_liquidation") = {6 + w}
  BY <1>8, <1>9, <1>10, <1>11, <1>12, <1>13, <1>14 DEF Places
<1>18. Places(p, "jupiter_swap") \subseteq 5 .. 4 + w
  BY <1>8, <1>9, <1>10, <1>11, <1>12, <1>13 DEF Places
<1>19. /\ Follows(p, "start_liquidation", "withdraw") /\ Follows(p, "withdraw", "repay")
       /\ Follows(p, "repay", "end_liquidation")
  <2>1. 3 < 4 /\ 4 < 5 + w /\ 5 + w < 6 + w
    BY <1>3
  <2> QED BY <1>16, <1>17, <2>1 DEF Follows
<1>20. SwapsLie(p, "withdraw", "repay")
  <2>1. \A s \in 5 .. 4 + w : 4 < s /\ s < 5 + w
    BY <1>3
  <2> QED BY <1>16, <1>18, <2>1 DEF SwapsLie
<1>21. Closed(p)
  BY <1>7, <1>15, <1>17, <1>19, <1>20 DEF Closed
<1> QED BY <1>1, <1>21

\* A list that opens nothing.
LEMMA NothingOpened ==
    ASSUME NEW p, NEW ops, Only(p, ops), {"flash_borrow", "start_liquidation"} \cap ops = {}
    PROVE  Closed(p)
<1>1. DOMAIN p = 1..Len(p) /\ \A i \in 1..Len(p) : p[i].op \in ops
  BY SeqFacts DEF Only
<1>2. Places(p, "flash_borrow") = {} /\ Places(p, "start_liquidation") = {}
  BY <1>1 DEF Places
<1> QED BY <1>2 DEF Closed

FlashBefore(a) == ComputeBudget \o RefreshIxs(a, TRUE) \o EnsureAtaIxs(a)

SaveRefreshes(a) ==
    <<RefreshReserve(a, a.repay), RefreshReserve(a, a.withdraw), RefreshObligation(<< >>, << >>)>>

SaveBefore(a) == ComputeBudget \o SaveRefreshes(a)

LEMMA PostFlashFacts ==
    ASSUME NEW a
    PROVE  LET keys == Dedup(<<a.repay, a.withdraw>>)
               M == PostFlashRefreshIxs(a)
           IN  /\ Only(M, RefreshOps) /\ Len(M) = Len(keys) + 1 /\ Len(keys) \in Nat
               /\ \A i \in 1..Len(keys) : M[i] = RefreshReserve(a, keys[i])
               /\ M[Len(keys) + 1].op = "refresh_obligation"
               /\ \A r \in {a.repay, a.withdraw} : \E i \in 1..Len(keys) : keys[i] = r
<1> DEFINE s == <<a.repay, a.withdraw>>
           keys == Dedup(s)
<1>1. /\ IsSeq(s) /\ Len(s) = 2
      /\ s[1] = a.repay /\ s[2] = a.withdraw /\ {s[1], s[2]} \subseteq ToSet(s)
  <2>1. IsSeq(s) /\ Len(s) = 2 /\ DOMAIN s = 1..2
    BY TwoIsSeq
  <2> QED BY <2>1 DEF ToSet
<1>2. PostFlashRefreshIxs(a) = RefreshAll(a, TRUE, keys)
  BY DEF PostFlashRefreshIxs
<1> HIDE DEF s
<1>3. /\ IsSeq(keys)
      /\ \A i \in 1..Len(s) : s[i] \in ToSet(s) => \E k \in 1..Len(keys) : keys[k] = s[i]
  BY <1>1, KeptOnceFacts DEF Dedup
<1>4. Len(keys) \in Nat
  BY <1>3, SeqFacts
<1> HIDE DEF keys
<1>5. \A r \in {a.repay, a.withdraw} : \E i \in 1..Len(keys) : keys[i] = r
  <2>1. 1 \in 1..Len(s) /\ 2 \in 1..Len(s)
    BY <1>1
  <2> QED BY <1>1, <1>3, <2>1
<1>6. LET M == RefreshAll(a, TRUE, keys)
      IN  /\ Only(M, RefreshOps) /\ Len(M) = Len(keys) + 1
          /\ \A i \in 1..Len(keys) : M[i] = RefreshReserve(a, keys[i])
          /\ M[Len(keys) + 1].op = "refresh_obligation"
  BY <1>3, RefreshAllFacts, ZenonT(30)
<1> QED BY <1>2, <1>4, <1>5, <1>6 DEF keys, s

\* Kamino's list over a loan.
LEMMA FlashShape ==
    ASSUME NEW a, AccountsOk(a), NEW swaps, Only(swaps, SwapOps)
    PROVE  LET B == FlashBefore(a)
               f == FlashBorrow(a)
               M == PostFlashRefreshIxs(a)
               l == Liquidate(a)
               r == FlashRepay(a, Len(B))
           IN  /\ LoanPlan(BuildFlashTx(a, swaps), B, f, M, l, swaps, r)
               /\ LoanShaped(B, f, M, l, swaps, r)
               /\ Len(B) < 256
<1> DEFINE B == FlashBefore(a)
           f == FlashBorrow(a)
           M == PostFlashRefreshIxs(a)
           l == Liquidate(a)
           r == FlashRepay(a, Len(B))
<1>1. BuildFlashTx(a, swaps) = B \o <<f>> \o M \o <<l>> \o swaps \o <<r>>
  BY DEF BuildFlashTx, FlashBefore
<1>2. Only(B, SetupOps) /\ Len(B) <= 21
  BY BeforeFacts DEF FlashBefore
<1>3. Only(M, RefreshOps)
  BY PostFlashFacts
<1>4. f.op = "flash_borrow" /\ l.op = "liquidate" /\ r.op = "flash_repay"
  BY DEF FlashBorrow, Liquidate, FlashRepay
<1> HIDE DEF B, f, M, l, r
<1>5. IsSeq(B) /\ IsSeq(M) /\ IsSeq(swaps) /\ Len(B) \in Nat
  BY <1>2, <1>3, SeqFacts DEF Only
<1>6. LoanPlan(BuildFlashTx(a, swaps), B, f, M, l, swaps, r)
  BY <1>1, <1>5, LoanPlanShape
<1>7. LoanShaped(B, f, M, l, swaps, r)
  BY <1>2, <1>3, <1>4 DEF LoanShaped
<1>8. Len(B) < 256
  BY <1>2, <1>5
<1> QED BY <1>6, <1>7, <1>8 DEF B, f, M, l, r

LEMMA SaveBeforeFacts ==
    ASSUME NEW a
    PROVE  /\ Only(SaveBefore(a), SetupOps) /\ Len(SaveBefore(a)) = 5
           /\ SaveBefore(a)[3] = RefreshReserve(a, a.repay)
           /\ SaveBefore(a)[4] = RefreshReserve(a, a.withdraw)
           /\ SaveBefore(a)[5].op = "refresh_obligation"
<1> DEFINE c == ComputeBudget
           x == RefreshReserve(a, a.repay)
           y == RefreshReserve(a, a.withdraw)
           z == RefreshObligation(<< >>, << >>)
           s == SaveRefreshes(a)
           p == SaveBefore(a)
<1>1. s = <<x, y, z>> /\ p = c \o s
  BY DEF SaveRefreshes, SaveBefore
<1>2. /\ x.op \in SetupOps /\ y.op \in SetupOps /\ z.op \in SetupOps
      /\ z.op = "refresh_obligation"
  BY DEF RefreshReserve, RefreshObligation, SetupOps, RefreshOps
<1>3. Only(c, SetupOps) /\ Len(c) = 2
  BY ComputeBudgetFacts
<1> HIDE DEF c, x, y, z, s, p, SetupOps
<1>4. IsSeq(s) /\ Len(s) = 3 /\ s[1] = x /\ s[2] = y /\ s[3] = z
  <2>1. <<x, y, z>> \in Seq({x, y, z}) /\ Len(<<x, y, z>>) = 3
    OBVIOUS
  <2>2. IsSeq(<<x, y, z>>)
    BY <2>1, TypedIsSeq
  <2> QED BY <1>1, <2>1, <2>2
<1>5. Only(s, SetupOps)
  <2>1. ASSUME NEW i \in 1..3 PROVE i = 1 \/ i = 2 \/ i = 3
    OBVIOUS
  <2>2. \A i \in 1..3 : s[i].op \in SetupOps
    BY <1>2, <1>4, <2>1
  <2> QED BY <1>4, <2>2 DEF Only
<1>6. Only(p, SetupOps)
  BY <1>1, <1>3, <1>5, OnlyJoined
<1>7. /\ Len(p) = Len(c) + Len(s)
      /\ \A i \in 1..Len(s) : p[Len(c) + i] = s[i]
  <2>1. IsSeq(c) /\ IsSeq(s)
    BY <1>3, <1>4 DEF Only
  <2> QED BY <1>1, <2>1, Joined
<1>8. Len(p) = 5 /\ p[2 + 1] = x /\ p[2 + 2] = y /\ p[2 + 3] = z
  BY <1>3, <1>4, <1>7
<1> QED BY <1>2, <1>6, <1>8 DEF p, x, y, z

\* Save's list over a loan.
LEMMA SaveShape ==
    ASSUME NEW a, NEW swaps, Only(swaps, SwapOps)
    PROVE  LET B == SaveBefore(a)
               f == FlashBorrow(a)
               l == Liquidate(a)
               r == FlashRepay(a, Len(B))
           IN  /\ LoanPlan(BuildFlashAtomicPlan(a, swaps), B, f, << >>, l, swaps, r)
               /\ LoanShaped(B, f, << >>, l, swaps, r)
<1> DEFINE B == SaveBefore(a)
           f == FlashBorrow(a)
           l == Liquidate(a)
           r == FlashRepay(a, Len(B))
<1>1. BuildFlashAtomicPlan(a, swaps) = B \o <<f, l>> \o swaps \o <<r>>
  BY DEF BuildFlashAtomicPlan, SaveBefore, SaveRefreshes
<1>2. f.op = "flash_borrow" /\ l.op = "liquidate" /\ r.op = "flash_repay"
  BY DEF FlashBorrow, Liquidate, FlashRepay
<1>3. Only(B, SetupOps) /\ Only(<< >>, RefreshOps)
  <2>1. [op |-> "refresh_reserve"].op \in RefreshOps
    BY DEF RefreshOps
  <2> QED BY <2>1, SaveBeforeFacts, OnlyOne
<1> HIDE DEF B, f, l, r
<1>4. IsSeq(B) /\ IsSeq(swaps)
  BY <1>3 DEF Only
<1>5. LoanPlan(BuildFlashAtomicPlan(a, swaps), B, f, << >>, l, swaps, r)
  BY <1>1, <1>4, ShortLoanPlanShape
<1>6. LoanShaped(B, f, << >>, l, swaps, r)
  BY <1>2, <1>3 DEF LoanShaped
<1> QED BY <1>5, <1>6 DEF B, f, l, r

-----------------------------------------------------------------------------
(* What is liquidated has been refreshed                                   *)

\* RefreshedForLiquidation of a list p for a protocol.
Refreshed(p, prot) ==
    \A k \in DOMAIN p : p[k].op = "liquidate" =>
        \E m \in 1..k - 1 :
            /\ p[m].op = "refresh_obligation"
            /\ \A r \in {p[k].repay, p[k].withdraw} :
                   \E j \in 1..m - 1 :
                       /\ p[j].op = "refresh_reserve" /\ p[j].reserve = r
                       /\ prot = "Kamino" => \A b \in j..k :
                              ~(p[b].op = "flash_borrow" /\ p[b].reserve = r)

LEMMA RefreshedIsProperty == Refreshed(ixs, protocol) => RefreshedForLiquidation
BY DEF Refreshed, RefreshedForLiquidation

\* A list without a liquidation has nothing to refresh.
LEMMA NothingLiquidated ==
    ASSUME NEW p, NEW prot, Places(p, "liquidate") = {}
    PROVE  Refreshed(p, prot)
BY DEF Places, Refreshed

\* A list with one liquidation at k, the obligation refreshed at m, and every reserve
\* before that, after the last Kamino loan.
LEMMA OneLiquidation ==
    ASSUME NEW p, NEW prot, NEW k \in Nat, NEW m \in 1..k - 1,
           IsSeq(p), Places(p, "liquidate") = {k}, p[m].op = "refresh_obligation",
           \A r \in {p[k].repay, p[k].withdraw} :
               \E j \in 1..m - 1 :
                   /\ p[j].op = "refresh_reserve" /\ p[j].reserve = r
                   /\ prot = "Kamino" => \A b \in Places(p, "flash_borrow") : b < j
    PROVE  Refreshed(p, prot)
<1>1. DOMAIN p = 1..Len(p) /\ Len(p) \in Nat /\ k \in 1..Len(p)
  BY SeqFacts DEF Places
<1>2. SUFFICES ASSUME NEW r \in {p[k].repay, p[k].withdraw}
               PROVE  \E j \in 1..m - 1 :
                          /\ p[j].op = "refresh_reserve" /\ p[j].reserve = r
                          /\ prot = "Kamino" => \A b \in j..k :
                                 ~(p[b].op = "flash_borrow" /\ p[b].reserve = r)
  BY DEF Places, Refreshed
<1>3. PICK j \in 1..m - 1 :
          /\ p[j].op = "refresh_reserve" /\ p[j].reserve = r
          /\ prot = "Kamino" => \A b \in Places(p, "flash_borrow") : b < j
  OBVIOUS
<1>4. ASSUME prot = "Kamino", NEW b \in j..k PROVE p[b].op # "flash_borrow"
  <2>1. b \in 1..Len(p) /\ ~(b < j)
    BY <1>1, <1>3
  <2> QED BY <1>1, <1>3, <1>4, <2>1 DEF Places
<1> QED BY <1>3, <1>4

\* Kamino's loan makes its reserve stale; the refreshes after it make it fresh again.
LEMMA FlashIsRefreshed ==
    ASSUME NEW a, AccountsOk(a), NEW swaps, Only(swaps, SwapOps), NEW prot
    PROVE  Refreshed(BuildFlashTx(a, swaps), prot)
<1> DEFINE B == FlashBefore(a)
           f == FlashBorrow(a)
           M == PostFlashRefreshIxs(a)
           l == Liquidate(a)
           r == FlashRepay(a, Len(B))
           p == BuildFlashTx(a, swaps)
           keys == Dedup(<<a.repay, a.withdraw>>)
           n == Len(keys)
           b == Len(B)
<1>1. LoanPlan(p, B, f, M, l, swaps, r) /\ LoanShaped(B, f, M, l, swaps, r)
  BY FlashShape
<1>2. /\ Len(M) = n + 1 /\ n \in Nat
      /\ \A i \in 1..n : M[i] = RefreshReserve(a, keys[i])
      /\ M[n + 1].op = "refresh_obligation"
      /\ \A x \in {a.repay, a.withdraw} : \E i \in 1..n : keys[i] = x
  BY PostFlashFacts
<1>3. l.repay = a.repay /\ l.withdraw = a.withdraw
  BY DEF Liquidate
<1> HIDE DEF B, f, M, l, r, p, keys
<1>4. /\ Places(p, "flash_borrow") = {b + 1}
      /\ Places(p, "liquidate") = {b + Len(M) + 2}
  BY <1>1, LoanPlaces
<1>5. /\ b \in Nat /\ IsSeq(p)
      /\ \A i \in 1..Len(M) : p[b + 1 + i] = M[i]
      /\ p[b + Len(M) + 2] = l
  BY <1>1 DEF LoanPlan
<1> HIDE DEF n, b
<1> DEFINE m == b + n + 2
           k == b + n + 3
<1>6. Places(p, "liquidate") = {k} /\ k \in Nat /\ m \in 1..k - 1 /\ p[k] = l
  <2>1. b + Len(M) + 2 = k
    BY <1>2, <1>5
  <2>2. k \in Nat /\ m \in 1..k - 1
    BY <1>2, <1>5
  <2> QED BY <1>4, <1>5, <2>1, <2>2
<1>7. p[m].op = "refresh_obligation"
  <2>1. n + 1 \in 1..Len(M) /\ b + 1 + (n + 1) = m
    BY <1>2, <1>5
  <2>2. p[b + 1 + (n + 1)] = M[n + 1]
    BY <1>5, <2>1
  <2> QED BY <1>2, <2>1, <2>2
<1>8. ASSUME NEW x \in {p[k].repay, p[k].withdraw}
      PROVE  \E j \in 1..m - 1 :
                 /\ p[j].op = "refresh_reserve" /\ p[j].reserve = x
                 /\ prot = "Kamino" => \A c \in Places(p, "flash_borrow") : c < j
  <2>1. PICK i \in 1..n : keys[i] = x
    BY <1>2, <1>3, <1>6
  <2>2. i \in 1..Len(M) /\ b + 1 + i \in 1..m - 1 /\ b + 1 < b + 1 + i
    BY <1>2, <1>5
  <2>3. p[b + 1 + i] = RefreshReserve(a, x)
    BY <1>2, <1>5, <2>1, <2>2
  <2>4. p[b + 1 + i].op = "refresh_reserve" /\ p[b + 1 + i].reserve = x
    BY <2>3 DEF RefreshReserve
  <2> HIDE DEF m, k
  <2> QED BY <1>4, <2>2, <2>4
<1> HIDE DEF m, k
<1>9. Refreshed(p, prot)
  BY <1>5, <1>6, <1>7, <1>8, OneLiquidation
<1> QED BY <1>9 DEF p

\* Save's loan leaves its reserve fresh, so the refreshes come before it.
LEMMA SaveIsRefreshed ==
    ASSUME NEW a, NEW swaps, Only(swaps, SwapOps), NEW prot, prot # "Kamino"
    PROVE  Refreshed(BuildFlashAtomicPlan(a, swaps), prot)
<1> DEFINE B == SaveBefore(a)
           f == FlashBorrow(a)
           l == Liquidate(a)
           r == FlashRepay(a, Len(B))
           p == BuildFlashAtomicPlan(a, swaps)
<1>1. LoanPlan(p, B, f, << >>, l, swaps, r) /\ LoanShaped(B, f, << >>, l, swaps, r)
  BY SaveShape
<1>2. /\ Len(B) = 5 /\ B[3] = RefreshReserve(a, a.repay)
      /\ B[4] = RefreshReserve(a, a.withdraw) /\ B[5].op = "refresh_obligation"
  BY SaveBeforeFacts
<1>3. l.repay = a.repay /\ l.withdraw = a.withdraw
  BY DEF Liquidate
<1> HIDE DEF B, f, l, r, p
<1>4. Len(<< >>) = 0
  BY OneOrNone
<1>5. Places(p, "liquidate") = {Len(B) + Len(<< >>) + 2}
  BY <1>1, LoanPlaces
<1>6. /\ IsSeq(p) /\ \A i \in 1..Len(B) : p[i] = B[i]
      /\ p[Len(B) + Len(<< >>) + 2] = l
  BY <1>1 DEF LoanPlan
<1>7. Places(p, "liquidate") = {7} /\ p[7] = l
  <2>1. Len(B) + Len(<< >>) + 2 = 7
    BY <1>2, <1>4
  <2> QED BY <1>5, <1>6, <2>1
<1>8. /\ p[3] = RefreshReserve(a, a.repay) /\ p[4] = RefreshReserve(a, a.withdraw)
      /\ p[5].op = "refresh_obligation"
  <2>1. 3 \in 1..Len(B) /\ 4 \in 1..Len(B) /\ 5 \in 1..Len(B)
    BY <1>2
  <2> QED BY <1>2, <1>6, <2>1
<1>9. /\ p[3].op = "refresh_reserve" /\ p[3].reserve = a.repay
      /\ p[4].op = "refresh_reserve" /\ p[4].reserve = a.withdraw
  BY <1>8 DEF RefreshReserve
<1>10. ASSUME NEW x \in {p[7].repay, p[7].withdraw}
       PROVE  \E j \in 1..5 - 1 :
                  /\ p[j].op = "refresh_reserve" /\ p[j].reserve = x
                  /\ prot = "Kamino" => \A c \in Places(p, "flash_borrow") : c < j
  <2>1. 3 \in 1..5 - 1 /\ 4 \in 1..5 - 1
    OBVIOUS
  <2>2. x = a.repay \/ x = a.withdraw
    BY <1>3, <1>7
  <2> QED BY <1>9, <2>1, <2>2
<1> DEFINE k == 7
           m == 5
<1>11. k \in Nat /\ m \in 1..k - 1 /\ Places(p, "liquidate") = {k}
  BY <1>7
<1>12. p[m].op = "refresh_obligation"
  BY <1>8
<1>13. \A x \in {p[k].repay, p[k].withdraw} :
           \E j \in 1..m - 1 :
               /\ p[j].op = "refresh_reserve" /\ p[j].reserve = x
               /\ prot = "Kamino" => \A c \in Places(p, "flash_borrow") : c < j
  BY <1>10
<1>14. IsSeq(p)
  BY <1>6
<1> HIDE DEF k, m
<1>15. Refreshed(p, prot)
  BY <1>11, <1>12, <1>13, <1>14, OneLiquidation
<1> QED BY <1>15 DEF p

\* An account set over placeholders: no lists.
Plain(a) == ~a.live /\ a.metas = << >> /\ a.deposits = << >> /\ a.borrows = << >>

\* The list that pays from the inventory: what comes before, the liquidation, the swaps.
LEMMA InventoryShape ==
    ASSUME NEW a, AccountsOk(a), NEW swaps, Only(swaps, SwapOps)
    PROVE  LET B == ComputeBudget \o RefreshIxs(a, FALSE) \o EnsureAtaIxs(a)
               p == BuildInventoryTx(a, swaps)
           IN  /\ IsSeq(p) /\ Len(B) \in Nat
               /\ \A i \in 1..Len(B) : p[i] = B[i]
               /\ p[Len(B) + 1] = Liquidate(a)
               /\ Places(p, "liquidate") = {Len(B) + 1}
               /\ Only(p, SetupOps \cup {"liquidate"} \cup SwapOps)
<1> DEFINE B == ComputeBudget \o RefreshIxs(a, FALSE) \o EnsureAtaIxs(a)
           l == Liquidate(a)
           p1 == B \o <<l>>
           p == BuildInventoryTx(a, swaps)
           b == Len(B)
           ops == SetupOps \cup {"liquidate"} \cup SwapOps
<1>1. Only(B, SetupOps)
  BY BeforeFacts
<1>2. l.op = "liquidate"
  BY DEF Liquidate
<1>3. p = p1 \o swaps
  BY DEF BuildInventoryTx
<1> HIDE DEF B, l, p
<1>4. /\ IsSeq(B) /\ IsSeq(swaps) /\ b \in Nat /\ Len(swaps) \in Nat
      /\ \A i \in 1..b : B[i].op \in SetupOps
      /\ \A i \in 1..Len(swaps) : swaps[i].op \in SwapOps
  BY <1>1, SeqFacts DEF Only
<1>5. /\ IsSeq(p1) /\ Len(p1) = b + 1
      /\ \A i \in 1..b : p1[i] = B[i]
      /\ p1[b + 1] = l
  BY <1>4, JoinedOne
<1> HIDE DEF p1
<1>6. /\ IsSeq(p) /\ Len(p) = Len(p1) + Len(swaps)
      /\ \A i \in 1..Len(p1) : p[i] = p1[i]
      /\ \A i \in 1..Len(swaps) : p[Len(p1) + i] = swaps[i]
  <2>1. IsSeq(p1) /\ IsSeq(swaps)
    BY <1>4, <1>5
  <2> QED BY <1>3, <2>1, Joined
<1> HIDE DEF b
<1>7. /\ \A i \in 1..b : p[i] = B[i]
      /\ p[b + 1] = l /\ b + 1 \in 1..Len(p)
      /\ Len(p) = b + 1 + Len(swaps)
  <2>1. \A i \in 1..b : i \in 1..b + 1
    BY <1>4
  <2>2. b + 1 \in 1..b + 1
    BY <1>4
  <2> QED BY <1>4, <1>5, <1>6, <2>1, <2>2
<1>8. ASSUME NEW i \in 1..Len(p)
      PROVE  \/ i \in 1..b /\ p[i].op \in SetupOps
             \/ i = b + 1 /\ p[i].op = "liquidate"
             \/ i \notin 1..b + 1 /\ p[i].op \in SwapOps
  <2>1. CASE i \in 1..b
    BY <1>4, <1>7, <2>1
  <2>2. CASE i = b + 1
    BY <1>2, <1>7, <2>2
  <2>3. CASE i \notin 1..b + 1
    <3>1. i - (b + 1) \in 1..Len(swaps) /\ i = b + 1 + (i - (b + 1))
      BY <1>4, <1>7, <2>3
    <3>2. p[i] = swaps[i - (b + 1)]
      BY <1>5, <1>6, <3>1
    <3> QED BY <1>4, <2>3, <3>1, <3>2
  <2> QED BY <1>4, <2>1, <2>2, <2>3
<1>9. "liquidate" \notin SetupOps \cup SwapOps
  BY DEF SetupOps, RefreshOps, SwapOps
<1> HIDE DEF SetupOps, SwapOps
<1>10. DOMAIN p = 1..Len(p)
  BY <1>6, SeqFacts
<1>11. Places(p, "liquidate") = {b + 1}
  <2>1. p[b + 1].op = "liquidate"
    BY <1>2, <1>7
  <2>2. ASSUME NEW i \in 1..Len(p), p[i].op = "liquidate" PROVE i = b + 1
    BY <1>8, <1>9, <2>2
  <2> QED BY <1>7, <1>10, <2>1, <2>2 DEF Places
<1>12. Only(p, ops)
  <2>1. ASSUME NEW i \in 1..Len(p) PROVE p[i].op \in ops
    BY <1>8
  <2> QED BY <1>6, <2>1 DEF Only
<1> QED BY <1>4, <1>6, <1>7, <1>11, <1>12 DEF B, b, l, p

LEMMA InventoryIsRefreshed ==
    ASSUME NEW a, AccountsOk(a), Plain(a), NEW swaps, Only(swaps, SwapOps), NEW prot
    PROVE  Refreshed(BuildInventoryTx(a, swaps), prot)
<1> DEFINE c == ComputeBudget
           R == RefreshIxs(a, FALSE)
           e == EnsureAtaIxs(a)
           B == (c \o R) \o e
           p == BuildInventoryTx(a, swaps)
           x == <<a.withdraw>>
           y == <<a.repay>>
           s == x \o y
           keys == Dedup(s)
           n == Len(keys)
<1>1. /\ IsSeq(p) /\ Len(B) \in Nat
      /\ \A i \in 1..Len(B) : p[i] = B[i]
      /\ p[Len(B) + 1] = Liquidate(a)
      /\ Places(p, "liquidate") = {Len(B) + 1}
      /\ Only(p, SetupOps \cup {"liquidate"} \cup SwapOps)
  BY InventoryShape
<1>2. R = RefreshAll(a, FALSE, keys)
  <2>1. DepositReserves(a, FALSE) = x /\ BorrowReserves(a, FALSE) = y
    BY DEF DepositReserves, BorrowReserves, Listed, Plain
  <2>2. a.metas = << >>
    BY DEF Plain
  <2> QED BY <2>1, <2>2 DEF RefreshIxs
<1>3. /\ IsSeq(x) /\ Len(x) = 1 /\ x[1] = a.withdraw
      /\ IsSeq(y) /\ Len(y) = 1 /\ y[1] = a.repay
  BY OneOrNone
<1> HIDE DEF x, y
<1>4. IsSeq(s) /\ Len(s) = 2 /\ s[1] = a.withdraw /\ s[2] = a.repay
  <2>1. /\ IsSeq(s) /\ Len(s) = Len(x) + Len(y)
        /\ \A i \in 1..Len(x) : s[i] = x[i]
        /\ \A i \in 1..Len(y) : s[Len(x) + i] = y[i]
    BY <1>3, Joined
  <2>2. s[1] = x[1] /\ s[1 + 1] = y[1]
    BY <1>3, <2>1
  <2> QED BY <1>3, <2>1, <2>2
<1> HIDE DEF s
<1>5. IsSeq(keys) /\ \A r \in {a.repay, a.withdraw} : \E k \in 1..n : keys[k] = r
  <2>1. /\ IsSeq(keys)
        /\ \A i \in 1..Len(s) : s[i] \in ToSet(s) => \E k \in 1..n : keys[k] = s[i]
    BY <1>4, KeptOnceFacts DEF Dedup
  <2>2. DOMAIN s = 1..Len(s)
    BY <1>4, SeqFacts
  <2>3. 1 \in 1..Len(s) /\ 2 \in 1..Len(s) /\ s[1] \in ToSet(s) /\ s[2] \in ToSet(s)
    BY <1>4, <2>2 DEF ToSet
  <2> HIDE DEF keys
  <2> QED BY <1>4, <2>1, <2>3
<1> HIDE DEF keys
<1>6. /\ Only(R, RefreshOps) /\ Len(R) = n + 1 /\ n \in Nat
      /\ \A i \in 1..n : R[i] = RefreshReserve(a, keys[i])
      /\ R[n + 1].op = "refresh_obligation"
  <2>1. IsSeq(keys)
    BY <1>5
  <2>2. LET all == RefreshAll(a, FALSE, keys) IN
        /\ Only(all, RefreshOps) /\ Len(all) = Len(keys) + 1
        /\ \A i \in 1..Len(keys) : all[i] = RefreshReserve(a, keys[i])
        /\ all[Len(keys) + 1].op = "refresh_obligation"
    BY <2>1, RefreshAllFacts
  <2>3. n \in Nat
    BY <2>1, SeqFacts
  <2> HIDE DEF R
  <2> QED BY <1>2, <2>2, <2>3
<1>7. IsSeq(c) /\ Len(c) = 2 /\ IsSeq(R) /\ IsSeq(e)
  BY <1>6, ComputeBudgetFacts, EnsureAtaIxsFacts DEF Only
<1> HIDE DEF c, R, e
<1> DEFINE cR == c \o R
<1>8. /\ IsSeq(cR) /\ Len(cR) = n + 3
      /\ \A i \in 1..n + 1 : cR[2 + i] = R[i]
  <2>1. /\ IsSeq(cR) /\ Len(cR) = Len(c) + Len(R)
        /\ \A i \in 1..Len(R) : cR[Len(c) + i] = R[i]
    <3>1. IsSeq(c) /\ IsSeq(R)
      BY <1>7
    <3> QED BY <3>1, Joined
  <2>2. Len(c) + Len(R) = n + 3
    BY <1>6, <1>7
  <2> QED BY <1>6, <1>7, <2>1, <2>2
<1> HIDE DEF cR
<1>9. /\ Len(B) = Len(cR) + Len(e) /\ Len(e) \in Nat
      /\ \A i \in 1..Len(cR) : B[i] = cR[i]
  <2>1. B = cR \o e
    BY DEF cR
  <2> HIDE DEF B
  <2>2. IsSeq(cR) /\ IsSeq(e)
    BY <1>7, <1>8
  <2> QED BY <2>1, <2>2, Joined
<1> HIDE DEF B, p, n
<1> DEFINE m == n + 3
           k == Len(B) + 1
<1>10. ASSUME NEW i \in 1..n + 1 PROVE p[2 + i] = R[i]
  <2>1. 2 + i \in 1..Len(cR) /\ 2 + i \in 1..Len(B)
    BY <1>6, <1>8, <1>9
  <2> QED BY <1>1, <1>8, <1>9, <2>1
<1>11. k \in Nat /\ m \in 1..k - 1 /\ Places(p, "liquidate") = {k}
  BY <1>1, <1>6, <1>8, <1>9
<1>12. p[m].op = "refresh_obligation"
  <2>1. n + 1 \in 1..n + 1 /\ 2 + (n + 1) = m
    BY <1>6
  <2>2. p[2 + (n + 1)] = R[n + 1]
    BY <1>10, <2>1
  <2> QED BY <1>6, <2>1, <2>2
<1>13. Places(p, "flash_borrow") = {}
  <2>1. "flash_borrow" \notin SetupOps \cup {"liquidate"} \cup SwapOps
    BY DEF SetupOps, RefreshOps, SwapOps
  <2>2. DOMAIN p = 1..Len(p)
    BY <1>1, SeqFacts
  <2> HIDE DEF SetupOps, SwapOps
  <2> QED BY <1>1, <2>1, <2>2 DEF Only, Places
<1>14. p[k].repay = a.repay /\ p[k].withdraw = a.withdraw
  BY <1>1 DEF Liquidate
<1>15. ASSUME NEW r \in {p[k].repay, p[k].withdraw}
       PROVE  \E j \in 1..m - 1 :
                  /\ p[j].op = "refresh_reserve" /\ p[j].reserve = r
                  /\ prot = "Kamino" => \A b \in Places(p, "flash_borrow") : b < j
  <2>1. PICK i \in 1..n : keys[i] = r
    BY <1>5, <1>14
  <2>2. i \in 1..n + 1 /\ 2 + i \in 1..m - 1
    BY <1>6
  <2>3. p[2 + i] = RefreshReserve(a, r)
    BY <1>6, <1>10, <2>1, <2>2
  <2>4. p[2 + i].op = "refresh_reserve" /\ p[2 + i].reserve = r
    BY <2>3 DEF RefreshReserve
  <2> HIDE DEF m, k
  <2> QED BY <1>13, <2>2, <2>4
<1>16. IsSeq(p)
  BY <1>1
<1> HIDE DEF m, k
<1>17. Refreshed(p, prot)
  BY <1>11, <1>12, <1>15, <1>16, OneLiquidation
<1> QED BY <1>17 DEF p

LEMMA OnlyTwo ==
    ASSUME NEW x, NEW y, NEW ops, x.op \in ops, y.op \in ops
    PROVE  Only(<<x, y>>, ops)
<1>1. IsSeq(<<x, y>>) /\ Len(<<x, y>>) = 2 /\ <<x, y>>[1] = x /\ <<x, y>>[2] = y
  BY TwoIsSeq
<1>2. ASSUME NEW i \in 1..2 PROVE i = 1 \/ i = 2
  OBVIOUS
<1> QED BY <1>1, <1>2 DEF Only

LEMMA OnlyPlaces ==
    ASSUME NEW p, NEW ops, Only(p, ops), NEW op, op \notin ops
    PROVE  Places(p, op) = {}
<1>1. DOMAIN p = 1..Len(p) /\ \A i \in 1..Len(p) : p[i].op \in ops
  BY SeqFacts DEF Only
<1> QED BY <1>1 DEF Places

\* A receivership liquidates by its withdrawal.
LEMMA ReceivershipIsRefreshed ==
    ASSUME NEW a, NEW swaps, Only(swaps, SwapOps), NEW prot
    PROVE  Refreshed(BuildReceivershipTx(a, swaps), prot)
<1> DEFINE c == ComputeBudget
           x == [op |-> "start_liquidation"]
           y == [op |-> "withdraw", bank |-> a.withdraw]
           u == [op |-> "repay", bank |-> a.repay]
           v == [op |-> "end_liquidation"]
           ends == {"start_liquidation", "withdraw", "repay", "end_liquidation"}
           ops == SetupOps \cup SwapOps \cup ends
           p == BuildReceivershipTx(a, swaps)
<1>1. p = c \o <<x, y>> \o swaps \o <<u, v>>
  BY DEF BuildReceivershipTx
<1>2. x.op \in ops /\ y.op \in ops /\ u.op \in ops /\ v.op \in ops /\ "liquidate" \notin ops
  BY DEF SetupOps, SwapOps, RefreshOps
<1>3. Only(c, ops) /\ Only(swaps, ops)
  <2>1. Only(c, SetupOps) /\ SetupOps \subseteq ops /\ SwapOps \subseteq ops
    BY ComputeBudgetFacts
  <2> HIDE DEF c, ops
  <2> QED BY <2>1, OnlyMore
<1> HIDE DEF c, x, y, u, v, ops, p
<1>4. Only(<<x, y>>, ops) /\ Only(<<u, v>>, ops)
  BY <1>2, OnlyTwo
<1>5. Only(c \o <<x, y>>, ops)
  BY <1>3, <1>4, OnlyJoined
<1>6. Only(c \o <<x, y>> \o swaps, ops)
  BY <1>3, <1>5, OnlyJoined
<1>7. Only(p, ops)
  BY <1>1, <1>4, <1>6, OnlyJoined
<1> QED BY <1>2, <1>7, OnlyPlaces, NothingLiquidated DEF p

-----------------------------------------------------------------------------
(* Every list that build_strategy_ixs returns                              *)

\* The list of a strategy that has no arm of its own.
LEMMA BareFacts ==
    ASSUME NEW prot
    PROVE  /\ Closed(<<[op |-> "compute_unit_limit"]>>) /\ Closed(<< >>)
           /\ Refreshed(<<[op |-> "compute_unit_limit"]>>, prot) /\ Refreshed(<< >>, prot)
<1> DEFINE x == [op |-> "compute_unit_limit"]
<1>1. x.op \in SetupOps
  BY DEF SetupOps
<1>2. {"flash_borrow", "start_liquidation"} \cap SetupOps = {} /\ "liquidate" \notin SetupOps
  BY DEF SetupOps, RefreshOps
<1> HIDE DEF x
<1>3. Only(<<x>>, SetupOps) /\ Only(<< >>, SetupOps)
  BY <1>1, OnlyOne
<1>4. Places(<<x>>, "liquidate") = {} /\ Places(<< >>, "liquidate") = {}
  BY <1>2, <1>3, OnlyPlaces
<1> QED BY <1>2, <1>3, <1>4, NothingOpened, NothingLiquidated DEF x

\* An inventory is only ever planned over placeholders.
LEMMA BuiltFacts ==
    ASSUME NEW prot, NEW strategy, NEW a, AccountsOk(a), NEW swaps \in SwapLists,
           strategy = "Inventory" => Plain(a)
    PROVE  LET p == BuildStrategyIxs(prot, strategy, a, swaps)
           IN  Closed(p) /\ Refreshed(p, prot)
<1> DEFINE p == BuildStrategyIxs(prot, strategy, a, swaps)
<1>1. Only(swaps, SwapOps)
  BY SwapsFacts
<1>2. CASE prot = "Kamino" /\ strategy = "KaminoFlashBorrow"
  <2> DEFINE B == FlashBefore(a)
             f == FlashBorrow(a)
             M == PostFlashRefreshIxs(a)
             l == Liquidate(a)
             r == FlashRepay(a, Len(B))
             q == BuildFlashTx(a, swaps)
  <2>1. LoanPlan(q, B, f, M, l, swaps, r) /\ LoanShaped(B, f, M, l, swaps, r) /\ Len(B) < 256
    BY <1>1, FlashShape
  <2>2. r.index = Len(B) % 256 /\ r.reserve = f.reserve
    BY DEF FlashRepay, FlashBorrow
  <2>3. Refreshed(q, prot)
    BY <1>1, FlashIsRefreshed
  <2>4. p = q
    BY <1>2 DEF BuildStrategyIxs
  <2> HIDE DEF B, f, M, l, r, q
  <2>5. Closed(q)
    BY <2>1, <2>2, LoanIsClosed
  <2> QED BY <2>3, <2>4, <2>5
<1>3. CASE prot = "Kamino" /\ strategy = "Inventory"
  <2> DEFINE q == BuildInventoryTx(a, swaps)
             ops == SetupOps \cup {"liquidate"} \cup SwapOps
  <2>1. p = q
    BY <1>3 DEF BuildStrategyIxs
  <2>2. Only(q, ops)
    BY <1>1, InventoryShape
  <2>3. {"flash_borrow", "start_liquidation"} \cap ops = {}
    BY DEF SetupOps, RefreshOps, SwapOps
  <2>4. Refreshed(q, prot)
    BY <1>1, <1>3, InventoryIsRefreshed
  <2> HIDE DEF q, ops
  <2> QED BY <2>1, <2>2, <2>3, <2>4, NothingOpened
<1>4. CASE prot = "Save" /\ strategy = "SaveFlashLoan"
  <2> DEFINE B == SaveBefore(a)
             f == FlashBorrow(a)
             l == Liquidate(a)
             r == FlashRepay(a, Len(B))
             q == BuildFlashAtomicPlan(a, swaps)
  <2>1. LoanPlan(q, B, f, << >>, l, swaps, r) /\ LoanShaped(B, f, << >>, l, swaps, r)
    BY <1>1, SaveShape
  <2>2. Len(B) < 256
    <3>1. Len(B) = 5
      BY SaveBeforeFacts
    <3> HIDE DEF B
    <3> QED BY <3>1
  <2>3. r.index = Len(B) % 256 /\ r.reserve = f.reserve
    BY DEF FlashRepay, FlashBorrow
  <2>4. Refreshed(q, prot)
    BY <1>1, <1>4, SaveIsRefreshed
  <2>5. p = q
    BY <1>4 DEF BuildStrategyIxs
  <2> HIDE DEF B, f, l, r, q
  <2>6. Closed(q)
    BY <2>1, <2>2, <2>3, LoanIsClosed
  <2> QED BY <2>4, <2>5, <2>6
<1>5. CASE prot = "Project0" /\ strategy = "Project0Receivership"
  <2>1. p = BuildReceivershipTx(a, swaps)
    BY <1>5 DEF BuildStrategyIxs
  <2> QED BY <1>1, <2>1, ReceivershipIsClosed, ReceivershipIsRefreshed
<1>6. CASE /\ ~(prot = "Kamino" /\ strategy = "KaminoFlashBorrow")
           /\ ~(prot = "Kamino" /\ strategy = "Inventory")
           /\ ~(prot = "Save" /\ strategy = "SaveFlashLoan")
           /\ ~(prot = "Project0" /\ strategy = "Project0Receivership")
  <2>1. p = <<[op |-> "compute_unit_limit"]>>
    BY <1>6 DEF BuildStrategyIxs
  <2> QED BY <2>1, BareFacts
<1> QED BY <1>2, <1>3, <1>4, <1>5, <1>6

-----------------------------------------------------------------------------
(* The invariant                                                           *)

\* Who has got where, over which arguments.
RolesInv ==
    /\ bin \in {"liquidator", "shadow"} /\ protocol \in Protocols
    /\ bin = "liquidator" => /\ pc \in {"hit", "done"}
                             /\ opportunity \in Opportunities
                             /\ protocol = opportunity.protocol
    /\ bin = "shadow" => /\ pc \in {"obligation", "reserves", "atas", "build", "simulate", "done"}
                         /\ chain \in Chains

\* What was read is an obligation, and what is built over is no longer than one.
ReadsInv ==
    /\ pc = "reserves" => positions \in Chains
    /\ pc \in {"atas", "build"} => AccountsOk(accounts)
    /\ pc = "atas" => {"metas", "deposits", "borrows"} \subseteq DOMAIN accounts

PathInv ==
    path = IF bin = "liquidator" /\ pc = "done" THEN PickBest(opportunity) ELSE NoPath

ListInv == Closed(ixs) /\ Refreshed(ixs, protocol)

PlanInv == RolesInv /\ ReadsInv /\ PathInv /\ ListInv

LEMMA SeedFacts ==
    ASSUME NEW repay, NEW withdraw
    PROVE  AccountsOk(FromSeed(repay, withdraw)) /\ Plain(FromSeed(repay, withdraw))
<1>1. IsSeq(<< >>) /\ Len(<< >>) = 0
  BY OneOrNone
<1> QED BY <1>1 DEF FromSeed, AccountsOk, Short, Plain

LEMMA LiveFacts ==
    ASSUME NEW c \in Chains, NEW repay, NEW withdraw, NEW read
    PROVE  LET a == [FromKaminoLive(c, repay, withdraw)
                        EXCEPT !.metas = KeptOnce(c.deposits \o c.borrows, read)]
           IN  AccountsOk(a) /\ {"metas", "deposits", "borrows"} \subseteq DOMAIN a
<1> DEFINE s == c.deposits \o c.borrows
           kept == KeptOnce(s, read)
           a == [FromKaminoLive(c, repay, withdraw) EXCEPT !.metas = kept]
<1>1. /\ c.deposits \in Seq(Reserves) /\ Len(c.deposits) <= 8
      /\ c.borrows \in Seq(Reserves) /\ Len(c.borrows) <= 5
  BY PlanningAssumption
<1>2. Short(c.deposits, 8) /\ Short(c.borrows, 5)
  BY <1>1, TypedIsSeq DEF Short
<1>3. /\ a.deposits = c.deposits /\ a.borrows = c.borrows /\ a.metas = kept
      /\ {"metas", "deposits", "borrows"} \subseteq DOMAIN a
  <2> HIDE DEF kept
  <2> QED BY DEF FromKaminoLive
<1> HIDE DEF a
<1>4. IsSeq(c.deposits) /\ IsSeq(c.borrows)
  BY <1>2 DEF Short
<1>5. IsSeq(s) /\ Len(s) = Len(c.deposits) + Len(c.borrows)
      /\ Len(c.deposits) \in Nat /\ Len(c.borrows) \in Nat
  BY <1>4, Joined
<1> HIDE DEF s
<1>6. IsSeq(kept) /\ Len(kept) <= Len(s)
  BY <1>5, KeptOnceFacts
<1> HIDE DEF kept
<1>7. Len(kept) \in Nat
  BY <1>6, SeqFacts
<1>8. Short(kept, 13)
  <2> DEFINE d == Len(c.deposits)
             b == Len(c.borrows)
             n == Len(s)
             k == Len(kept)
  <2>1. d \in Nat /\ b \in Nat /\ n = d + b /\ k \in Nat /\ k <= n /\ d <= 8 /\ b <= 5
    BY <1>1, <1>5, <1>6, <1>7
  <2> HIDE DEF d, b, n, k
  <2>2. k <= 13
    BY <2>1
  <2> QED BY <1>6, <2>2 DEF Short, k
<1>9. AccountsOk(a)
  BY <1>2, <1>3, <1>8 DEF AccountsOk
<1> QED BY <1>3, <1>9 DEF a, kept, s

LEMMA PlanInit == Init => PlanInv
<1> SUFFICES ASSUME Init PROVE PlanInv
  OBVIOUS
<1>1. RolesInv
  BY PlanningAssumption DEF Init, RolesInv
<1>2. ReadsInv /\ PathInv
  BY DEF Init, ReadsInv, PathInv
<1>3. ListInv
  BY BareFacts DEF Init, ListInv
<1> QED BY <1>1, <1>2, <1>3 DEF PlanInv

LEMMA PlanNext == PlanInv /\ [Next]_vars => PlanInv'
<1> SUFFICES ASSUME PlanInv, [Next]_vars PROVE PlanInv'
  OBVIOUS
<1> USE DEF PlanInv
<1>1. CASE PlanHit
  <2>1. bin = "liquidator" /\ bin' = bin /\ protocol' = protocol /\ opportunity' = opportunity
        /\ pc' = "done" /\ path' = PickBest(opportunity) /\ chain' = chain
    BY <1>1 DEF PlanHit, RolesInv, inputVars, envVars
  <2>2. RolesInv' /\ ReadsInv' /\ PathInv'
    BY <2>1 DEF RolesInv, ReadsInv, PathInv
  <2>3. ListInv'
    <3>1. CASE path' = NoPath
      BY <1>1, <2>1, <3>1 DEF PlanHit, ListInv
    <3>2. CASE path' # NoPath
      <4> DEFINE a == FromSeed(SeedRepay, SeedWithdraw)
      <4>1. PICK swaps \in SwapLists :
                ixs' = BuildStrategyIxs(protocol, path'.strategy, a, swaps)
        BY <1>1, <3>2 DEF PlanHit
      <4>2. AccountsOk(a) /\ Plain(a)
        BY SeedFacts
      <4> HIDE DEF a
      <4>3. Closed(ixs') /\ Refreshed(ixs', protocol)
        BY <4>1, <4>2, BuiltFacts
      <4> QED BY <2>1, <4>3 DEF ListInv
    <3> QED BY <3>1, <3>2
  <2> QED BY <2>2, <2>3
<1>2. CASE ReadObligation
  <2>1. /\ pc = "obligation" /\ bin = "shadow" /\ bin' = bin /\ protocol' = protocol
        /\ opportunity' = opportunity /\ path' = path /\ chain' = chain /\ ixs' = ixs
    BY <1>2 DEF ReadObligation, RolesInv, inputVars, envVars
  <2>2. \/ pc' = "build" /\ accounts' = FromSeed(SeedRepay, SeedWithdraw)
        \/ pc' = "reserves" /\ positions' = chain
    BY <1>2 DEF ReadObligation, FallBack
  <2>3. RolesInv' /\ PathInv' /\ ListInv'
    BY <2>1, <2>2 DEF RolesInv, PathInv, ListInv
  <2>4. ReadsInv'
    BY <2>1, <2>2, SeedFacts DEF RolesInv, ReadsInv
  <2> QED BY <2>3, <2>4
<1>3. CASE ReadReserves
  <2>1. /\ pc = "reserves" /\ bin = "shadow" /\ bin' = bin /\ protocol' = protocol
        /\ opportunity' = opportunity /\ path' = path /\ chain' = chain /\ ixs' = ixs
        /\ positions \in Chains
    BY <1>3 DEF ReadReserves, RolesInv, ReadsInv, inputVars, envVars
  <2>2. \/ pc' = "build" /\ accounts' = FromSeed(picked[1], picked[2])
        \/ /\ pc' = "atas"
           /\ \E read : accounts' = [FromKaminoLive(positions, picked[1], picked[2])
                            EXCEPT !.metas = KeptOnce(positions.deposits \o positions.borrows, read)]
    BY <1>3 DEF ReadReserves, FallBack, OverlayMetas
  <2>3. RolesInv' /\ PathInv' /\ ListInv'
    BY <2>1, <2>2 DEF RolesInv, PathInv, ListInv
  <2>4. /\ pc' \in {"atas", "build"} /\ AccountsOk(accounts')
        /\ pc' = "atas" => {"metas", "deposits", "borrows"} \subseteq DOMAIN accounts'
    BY <2>1, <2>2, SeedFacts, LiveFacts
  <2>5. ReadsInv'
    BY <2>4 DEF ReadsInv
  <2> QED BY <2>3, <2>5
<1>4. CASE PrefetchAtas
  <2>1. /\ pc = "atas" /\ bin = "shadow" /\ bin' = bin /\ protocol' = protocol
        /\ opportunity' = opportunity /\ path' = path /\ chain' = chain /\ ixs' = ixs
        /\ pc' = "build" /\ AccountsOk(accounts)
        /\ {"metas", "deposits", "borrows"} \subseteq DOMAIN accounts
    BY <1>4 DEF PrefetchAtas, RolesInv, ReadsInv, inputVars, envVars
  <2>2. /\ accounts'.metas = accounts.metas /\ accounts'.deposits = accounts.deposits
        /\ accounts'.borrows = accounts.borrows
    BY <1>4, <2>1 DEF PrefetchAtas
  <2>3. RolesInv' /\ PathInv' /\ ListInv'
    BY <2>1 DEF RolesInv, PathInv, ListInv
  <2>4. ReadsInv'
    BY <2>1, <2>2 DEF ReadsInv, AccountsOk
  <2> QED BY <2>3, <2>4
<1>5. CASE Build
  <2>1. /\ pc = "build" /\ bin = "shadow" /\ bin' = bin /\ protocol' = protocol
        /\ opportunity' = opportunity /\ path' = path /\ chain' = chain /\ pc' = "simulate"
        /\ AccountsOk(accounts) /\ protocol \in Protocols
    BY <1>5 DEF Build, RolesInv, ReadsInv, inputVars, envVars
  <2>2. PICK swaps \in SwapLists :
            ixs' = BuildStrategyIxs(protocol, FlashStrategy, accounts, swaps)
    BY <1>5 DEF Build
  <2>3. FlashStrategy # "Inventory"
    BY <2>1 DEF FlashStrategy, Protocols
  <2>4. Closed(ixs') /\ Refreshed(ixs', protocol)
    BY <2>1, <2>2, <2>3, BuiltFacts
  <2>5. RolesInv' /\ PathInv' /\ ReadsInv'
    BY <2>1 DEF RolesInv, PathInv, ReadsInv
  <2>6. ListInv'
    BY <2>1, <2>4 DEF ListInv
  <2> QED BY <2>5, <2>6
<1>6. CASE Simulate
  <2>1. /\ pc = "simulate" /\ bin = "shadow" /\ bin' = bin /\ protocol' = protocol
        /\ opportunity' = opportunity /\ path' = path /\ chain' = chain /\ ixs' = ixs
        /\ pc' = "done"
    BY <1>6 DEF Simulate, RolesInv, inputVars, envVars
  <2> QED BY <2>1 DEF RolesInv, ReadsInv, PathInv, ListInv
<1>7. CASE Change
  <2>1. /\ pc \in {"reserves", "atas", "build", "simulate"} /\ bin = "shadow" /\ bin' = bin
        /\ protocol' = protocol /\ opportunity' = opportunity /\ path' = path /\ pc' = pc
        /\ ixs' = ixs /\ positions' = positions /\ accounts' = accounts
    BY <1>7 DEF Change, RolesInv, inputVars, readVars
  <2>2. chain' \in Chains
    BY <1>7, <2>1 DEF Change, RolesInv
  <2> QED BY <2>1, <2>2 DEF RolesInv, ReadsInv, PathInv, ListInv
<1>8. CASE UNCHANGED vars
  BY <1>8 DEF vars, inputVars, envVars, readVars, RolesInv, ReadsInv, PathInv, ListInv
<1> QED BY <1>1, <1>2, <1>3, <1>4, <1>5, <1>6, <1>7, <1>8 DEF Next

LEMMA PlanInvariant == Spec => []PlanInv
<1> QED BY PlanInit, PlanNext, PTL DEF Spec

\* In every plan a loan is repaid by a repayment that points at it, with the
\* liquidation in between and the swaps after it, and a receivership is the last thing
\* to end: for obligations of any size the chain allows, whatever was read of them
\* (build_flash_tx, build_flash_atomic_plan, build_receivership_tx).
THEOREM LoansAreRepaid == Spec => []OpenedIsClosed
<1>1. PlanInv => OpenedIsClosed
  BY ClosedIsProperty DEF PlanInv, ListInv
<1> QED BY <1>1, PlanInvariant, PTL

\* In every plan a liquidation follows a refresh of the obligation that follows a
\* refresh of both reserves, which no Kamino flash borrow has made stale since
\* (refresh_ixs, post_flash_refresh_ixs).
THEOREM LiquidationsAreRefreshed == Spec => []RefreshedForLiquidation
<1>1. PlanInv => RefreshedForLiquidation
  BY RefreshedIsProperty DEF PlanInv, ListInv
<1> QED BY <1>1, PlanInvariant, PTL

-----------------------------------------------------------------------------
(* The choice of a path                                                    *)

\* AcceptedPaysItsCosts of a scored path c of the opportunity o.
Paid(o, c) ==
    c.decision.accept =>
        LET cost == o.swap_cost + o.chain_cost + o.tip + c.fee
        IN  /\ cost <= MaxCost
            /\ o.gross - cost >= MaxOf(MinProfit, 1)
            /\ (o.gross - cost) * Bps >= MinRoiBps * c.capital
            /\ o.notional >= MinNotional

\* A quotient that is large enough shows that the dividend is.
LEMMA QuotientBounds ==
    ASSUME NEW x \in Int, NEW c \in Nat \ {0}, NEW r \in Nat, ~(x \div c < r)
    PROVE  x >= r * c
<1> DEFINE q == x \div c
<1>1. q \in Int /\ x >= c * q
  OBVIOUS
<1>2. q >= r
  BY <1>1
<1> HIDE DEF q
<1>3. q * c >= r * c
  BY <1>1, <1>2
<1> QED BY <1>1, <1>3

Strategies == {"Inventory", "KaminoFlashBorrow", "SaveFlashLoan", "Project0Receivership"}

LEMMA PathFacts ==
    ASSUME NEW o \in Opportunities, NEW strategy \in Strategies
    PROVE  LET p == PathFor(o, strategy)
           IN  /\ p.capital \in Nat \ {0} /\ p.fee \in Nat
               /\ p.latency \in Nat \ {0} /\ p.landing \in Nat
<1> DEFINE p == PathFor(o, strategy)
           fee == (o.notional * o.flash_fee_bps) \div Bps
<1>1. o.notional \in Nat /\ o.flash_fee_bps \in Nat /\ o.inventory \in Nat
  BY PlanningAssumption
<1>2. fee \in Nat
  <2> DEFINE x == o.notional
             y == o.flash_fee_bps
  <2>1. x \in Nat /\ y \in Nat
    BY <1>1
  <2> HIDE DEF x, y
  <2>2. (x * y) \div 10000 \in Nat
    BY <2>1
  <2> QED BY <2>2 DEF Bps, x, y
<1>3. CASE strategy = "Inventory"
  <2>1. /\ p.capital = MaxOf(MinOf(o.inventory, o.notional), 1)
        /\ p.fee = 0 /\ p.latency = 10 /\ p.landing = 8500
    BY <1>3 DEF PathFor
  <2>2. MaxOf(MinOf(o.inventory, o.notional), 1) \in Nat \ {0}
    BY <1>1 DEF MaxOf, MinOf
  <2> QED BY <2>1, <2>2
<1>4. CASE strategy = "SaveFlashLoan" \/ strategy = "KaminoFlashBorrow"
  <2>1. p.capital = 1 /\ p.fee = fee /\ p.latency = 14 /\ p.landing = 7500
    BY <1>4 DEF PathFor
  <2> QED BY <1>2, <2>1
<1>5. CASE strategy = "Project0Receivership"
  <2>1. p.capital = o.notional \div 20 + 1 /\ p.fee = 0 /\ p.latency = 18 /\ p.landing = 7000
    BY <1>5 DEF PathFor
  <2>2. o.notional \div 20 + 1 \in Nat \ {0}
    BY <1>1
  <2> QED BY <2>1, <2>2
<1> QED BY <1>3, <1>4, <1>5 DEF Strategies

\* What the gates let through has paid its costs.
LEMMA EvaluateFacts ==
    ASSUME NEW gross \in Int, NEW cost \in Nat, NEW capital \in Nat \ {0}, NEW notional \in Nat
    PROVE  LET d == Evaluate(gross, cost, capital, notional)
           IN  /\ d.net = gross - cost
               /\ d.accept => /\ cost <= MaxCost
                              /\ gross - cost >= MaxOf(MinProfit, 1)
                              /\ (gross - cost) * Bps >= MinRoiBps * capital
                              /\ notional >= MinNotional
<1> DEFINE net == gross - cost
           roi == (net * Bps) \div capital
           d == Evaluate(gross, cost, capital, notional)
<1>1. d.net = net
  BY DEF Evaluate
<1>2. d.accept => /\ ~(cost > MaxCost) /\ ~(notional < MinNotional) /\ ~(net <= 0)
                  /\ ~(net < MinProfit) /\ ~(capital > 0 /\ roi < MinRoiBps)
  BY DEF Evaluate
<1>3. ASSUME d.accept PROVE net * Bps >= MinRoiBps * capital
  <2>1. net * Bps \in Int
    BY DEF Bps
  <2>2. ~(roi < MinRoiBps) /\ MinRoiBps \in Nat
    BY <1>2, <1>3, FundingAssumption
  <2> HIDE DEF net
  <2> QED BY <2>1, <2>2, QuotientBounds
<1>4. ASSUME d.accept
      PROVE  cost <= MaxCost /\ net >= MaxOf(MinProfit, 1) /\ notional >= MinNotional
  <2>1. net \in Int
    OBVIOUS
  <2> HIDE DEF net, roi
  <2> QED BY <1>2, <1>4, <2>1, FundingAssumption DEF MaxOf
<1> QED BY <1>1, <1>3, <1>4

\* The candidates are at one place or two, with comparable scores, and each accepted one
\* has paid.
LEMMA CandidatesFacts ==
    ASSUME NEW o \in Opportunities
    PROVE  /\ DOMAIN Candidates(o) \subseteq {1, 2}
           /\ \A i \in DOMAIN Candidates(o) :
                 Candidates(o)[i].score \in Int /\ Paid(o, Candidates(o)[i])
<1> DEFINE strategies == ApplicableFor(o.protocol)
           paths == DefaultPathsFor(o)
           C == Candidates(o)
<1>1. DOMAIN strategies = {1, 2} /\ strategies[1] \in Strategies /\ strategies[2] \in Strategies
  <2>1. o.protocol \in {"Kamino", "Save", "Project0"}
    BY PlanningAssumption DEF Protocols
  <2>2. \A x, y : DOMAIN <<x, y>> = {1, 2} /\ <<x, y>>[1] = x /\ <<x, y>>[2] = y
    OBVIOUS
  <2>3. PICK x \in Strategies, y \in Strategies : strategies = <<x, y>>
    BY <2>1 DEF ApplicableFor, Strategies
  <2> HIDE DEF strategies
  <2> QED BY <2>2, <2>3
<1>2. DOMAIN paths = {1, 2} /\ \A i \in {1, 2} : paths[i] = PathFor(o, strategies[i])
  <2>1. paths = [i \in DOMAIN strategies |-> PathFor(o, strategies[i])]
    BY DEF DefaultPathsFor
  <2> HIDE DEF paths, strategies
  <2> QED BY <1>1, <2>1
<1>3. DOMAIN C = {j \in DOMAIN paths : paths[j].feasible}
      /\ \A i \in DOMAIN C : C[i] = ScoreOne(o, paths[i])
  BY DEF Candidates
<1> HIDE DEF C, paths, strategies
<1>4. ASSUME NEW i \in {1, 2}
      PROVE  ScoreOne(o, paths[i]).score \in Int /\ Paid(o, ScoreOne(o, paths[i]))
  <2> DEFINE p == paths[i]
             cost == TotalCost(o, p)
             d == Evaluate(o.gross, cost, MaxOf(p.capital, 1), o.notional)
             c == ScoreOne(o, p)
  <2>1. /\ p.capital \in Nat \ {0} /\ p.fee \in Nat
        /\ p.latency \in Nat \ {0} /\ p.landing \in Nat
    BY <1>1, <1>2, PathFacts
  <2>2. /\ o.gross \in Int /\ o.swap_cost \in Nat /\ o.chain_cost \in Nat /\ o.tip \in Nat
        /\ o.notional \in Nat
    BY PlanningAssumption
  <2> HIDE DEF p
  <2>3. cost \in Nat /\ cost = o.swap_cost + o.chain_cost + o.tip + p.fee
    BY <2>1, <2>2 DEF TotalCost
  <2>4. MaxOf(p.capital, 1) = p.capital
    BY <2>1 DEF MaxOf
  <2> HIDE DEF cost
  <2>5. /\ d.net = o.gross - cost
        /\ d.accept => /\ cost <= MaxCost
                       /\ o.gross - cost >= MaxOf(MinProfit, 1)
                       /\ (o.gross - cost) * Bps >= MinRoiBps * p.capital
                       /\ o.notional >= MinNotional
    <3> DEFINE gross == o.gross
               capital == p.capital
               notional == o.notional
    <3>1. gross \in Int /\ cost \in Nat /\ capital \in Nat \ {0} /\ notional \in Nat
      BY <2>1, <2>2, <2>3
    <3>2. d = Evaluate(gross, cost, capital, notional)
      BY <2>4
    <3> HIDE DEF gross, capital, notional, d
    <3>3. /\ d.net = gross - cost
          /\ d.accept => /\ cost <= MaxCost
                         /\ gross - cost >= MaxOf(MinProfit, 1)
                         /\ (gross - cost) * Bps >= MinRoiBps * capital
                         /\ notional >= MinNotional
      BY <3>1, <3>2, EvaluateFacts
    <3> QED BY <3>3 DEF gross, capital, notional
  <2>6. /\ c.decision = d /\ c.capital = p.capital /\ c.fee = p.fee
        /\ c.score = IF d.net <= 0 THEN d.net
                     ELSE (d.net * p.landing) \div MaxOf(p.latency, 1)
    BY DEF ScoreOne, cost
  <2> HIDE DEF d, c
  <2>7. c.score \in Int
    <3>1. d.net \in Int /\ MaxOf(p.latency, 1) \in Nat \ {0}
      BY <2>1, <2>2, <2>3, <2>5 DEF MaxOf
    <3> DEFINE x == d.net
               y == p.landing
               z == MaxOf(p.latency, 1)
    <3>2. x \in Int /\ y \in Int /\ z \in Nat \ {0}
      BY <2>1, <3>1
    <3> HIDE DEF x, y, z
    <3>3. x * y \in Int
      BY <3>2
    <3>4. (x * y) \div z \in Int
      BY <3>2, <3>3
    <3> QED BY <2>6, <3>1, <3>4 DEF x, y, z
  <2>8. Paid(o, c)
    BY <2>3, <2>5, <2>6 DEF Paid
  <2> QED BY <2>7, <2>8 DEF c, p
<1>5. DOMAIN C \subseteq {1, 2}
  BY <1>2, <1>3
<1> QED BY <1>3, <1>4, <1>5 DEF C

\* The sort puts one of the best first.
LEMMA FirstIsBest ==
    ASSUME NEW C, NEW I \in SUBSET {1, 2}, I # {}, \A i \in I : C[i].score \in Int
    PROVE  \E i \in I : FirstSorted(C, I) = C[i] /\ \A j \in I : C[j].score <= C[i].score
<1> DEFINE First(i) == \A j \in I \ {i} : SortedBefore(C, i, j)
<1>1. \E i \in I : First(i)
  <2>1. CASE I = {1}
    BY <2>1
  <2>2. CASE I = {2}
    BY <2>2
  <2>3. CASE I = {1, 2}
    <3>1. C[1].score \in Int /\ C[2].score \in Int
      BY <2>3
    <3>2. SortedBefore(C, 1, 2) \/ SortedBefore(C, 2, 1)
      BY <3>1 DEF SortedBefore
    <3> QED BY <2>3, <3>2
  <2> QED BY <2>1, <2>2, <2>3
<1>2. FirstSorted(C, I) = C[CHOOSE i \in I : First(i)]
  BY DEF FirstSorted
<1> DEFINE i == CHOOSE k \in I : First(k)
<1>3. i \in I /\ First(i)
  BY <1>1
<1> HIDE DEF i
<1>4. ASSUME NEW j \in I PROVE C[j].score <= C[i].score
  <2>1. C[i].score \in Int /\ C[j].score \in Int
    BY <1>3
  <2>2. j = i \/ SortedBefore(C, i, j)
    BY <1>3
  <2> QED BY <2>1, <2>2 DEF SortedBefore
<1> QED BY <1>2, <1>3, <1>4 DEF i

\* What pick_best takes, and from where.
LEMMA PickBestFacts ==
    ASSUME NEW o \in Opportunities
    PROVE  LET feasible == ToSet(Candidates(o))
               accepted == {c \in feasible : c.decision.accept}
               pool == IF accepted # {} THEN accepted ELSE feasible
               best == PickBest(o)
           IN  /\ best # NoPath => Paid(o, best)
               /\ IF best = NoPath THEN feasible = {}
                  ELSE best \in pool /\ \A c \in pool : c.score <= best.score
<1> DEFINE C == Candidates(o)
           D == DOMAIN C
           A == {i \in D : C[i].decision.accept}
           feasible == ToSet(C)
           accepted == {c \in feasible : c.decision.accept}
           pool == IF accepted # {} THEN accepted ELSE feasible
           best == PickBest(o)
           Goal == /\ best # NoPath => Paid(o, best)
                   /\ IF best = NoPath THEN feasible = {}
                      ELSE best \in pool /\ \A c \in pool : c.score <= best.score
<1>1. D \subseteq {1, 2} /\ \A i \in D : C[i].score \in Int /\ Paid(o, C[i])
  BY CandidatesFacts
<1>2. NoPath \notin feasible
  BY PlanningAssumption
<1>3. best = IF A # {} THEN FirstSorted(C, A) ELSE IF D # {} THEN FirstSorted(C, D) ELSE NoPath
  BY DEF PickBest
<1> HIDE DEF C, best
<1>4. feasible = {C[i] : i \in D} /\ accepted = {C[i] : i \in A}
  BY DEF ToSet
<1>5. ASSUME A # {} PROVE Goal
  <2>1. PICK i \in A : FirstSorted(C, A) = C[i] /\ \A j \in A : C[j].score <= C[i].score
    BY <1>1, <1>5, FirstIsBest
  <2>2. pool = {C[j] : j \in A}
    BY <1>4, <1>5
  <2>3. best = C[i] /\ i \in D
    BY <1>3, <1>5, <2>1
  <2>4. best \in pool /\ \A c \in pool : c.score <= best.score
    <3> HIDE DEF A, pool
    <3> QED BY <2>1, <2>2, <2>3
  <2>5. best # NoPath /\ Paid(o, best)
    <3> HIDE DEF feasible, D
    <3> QED BY <1>1, <1>2, <1>4, <2>3
  <2> HIDE DEF pool, feasible
  <2> QED BY <2>4, <2>5
<1>6. ASSUME A = {} /\ D # {} PROVE Goal
  <2>1. PICK i \in D : FirstSorted(C, D) = C[i] /\ \A j \in D : C[j].score <= C[i].score
    BY <1>1, <1>6, FirstIsBest
  <2>2. pool = {C[j] : j \in D}
    BY <1>4, <1>6
  <2>3. best = C[i]
    BY <1>3, <1>6, <2>1
  <2>4. best \in pool /\ \A c \in pool : c.score <= best.score
    <3> HIDE DEF D, pool
    <3> QED BY <2>1, <2>2, <2>3
  <2>5. best # NoPath /\ Paid(o, best)
    <3> HIDE DEF feasible, D
    <3> QED BY <1>1, <1>2, <1>4, <2>1, <2>3
  <2> HIDE DEF pool, feasible
  <2> QED BY <2>4, <2>5
<1>7. ASSUME D = {} PROVE Goal
  <2>1. A = {}
    BY <1>7
  <2>2. feasible = {} /\ best = NoPath
    <3> HIDE DEF D, A, feasible
    <3> QED BY <1>3, <1>4, <1>7, <2>1
  <2> HIDE DEF feasible
  <2> QED BY <2>2
<1>8. Goal
  <2> HIDE DEF Goal, A, D
  <2> QED BY <1>5, <1>6, <1>7
<1> QED BY <1>8 DEF C, best

\* pick_best takes the highest score among the accepted paths, and of the rejected ones
\* only if there is none: for any gates and arguments.
THEOREM BestIsTaken == Spec => []BestIsMaxAccepted
<1>1. PlanInv => BestIsMaxAccepted
  <2> SUFFICES ASSUME PlanInv, bin = "liquidator", pc = "done" PROVE BestIsMaxAccepted
    BY DEF BestIsMaxAccepted
  <2>1. opportunity \in Opportunities /\ path = PickBest(opportunity)
    BY DEF PlanInv, RolesInv, PathInv
  <2> QED BY <2>1, PickBestFacts DEF BestIsMaxAccepted
<1> QED BY <1>1, PlanInvariant, PTL

\* An accepted path earns what the gates ask for once every cost is paid, with no help
\* from the rounding of the divisions: for any gates and arguments (evaluate, score_one).
THEOREM AcceptedIsPaid == Spec => []AcceptedPaysItsCosts
<1>1. PlanInv => AcceptedPaysItsCosts
  <2> SUFFICES ASSUME PlanInv, path # NoPath PROVE AcceptedPaysItsCosts
    BY DEF AcceptedPaysItsCosts
  <2>1. opportunity \in Opportunities /\ path = PickBest(opportunity)
    BY DEF PlanInv, RolesInv, PathInv
  <2>2. Paid(opportunity, path)
    BY <2>1, PickBestFacts
  <2> QED BY <2>2 DEF Paid, AcceptedPaysItsCosts
<1> QED BY <1>1, PlanInvariant, PTL

-----------------------------------------------------------------------------
(* A run, instruction by instruction                                       *)

Outlast(g, code, c, e) ==
    [n \in 0..Len(code) |->
        IF n = 0 THEN [NotRun EXCEPT !.atas = e] ELSE Stepped(g[n - 1], code[n], c)]

TraceOf(code, c, e) == CHOOSE g : g = Outlast(g, code, c, e)

Settled(end) == [end EXCEPT !.liquidated = @ /\ end.errors = {} /\ end.loan = -1]

LEMMA RunIsTrace ==
    ASSUME NEW code, NEW c, NEW e
    PROVE  Run(code, c, e) = Settled(TraceOf(code, c, e)[Len(code)])
BY DEF Run, Settled, TraceOf, Outlast

LEMMA OutlastExists ==
    ASSUME NEW code, NEW c, NEW e, Len(code) \in Nat
    PROVE  \E g : g = Outlast(g, code, c, e)
<1> DEFINE L == Len(code)
           start == [NotRun EXCEPT !.atas = e]
           Good(g, n) == \A i \in 0..L : i <= n =>
                            g[i] = IF i = 0 THEN start ELSE Stepped(g[i - 1], code[i], c)
           S == {n \in Nat : \E g : Good(g, n)}
<1> HIDE DEF start
<1>1. 0 \in S
  <2>1. Good([i \in {0} |-> start], 0)
    OBVIOUS
  <2> QED BY <2>1
<1>2. ASSUME NEW n \in Nat, n \in S PROVE n + 1 \in S
  <2>1. PICK g : Good(g, n)
    BY <1>2
  <2> DEFINE h == [i \in 0..L |-> IF i <= n THEN g[i] ELSE Stepped(g[n], code[n + 1], c)]
  <2>2. ASSUME NEW i \in 0..L, i <= n + 1
        PROVE  h[i] = IF i = 0 THEN start ELSE Stepped(h[i - 1], code[i], c)
    <3>1. CASE i = 0
      BY <2>1, <3>1
    <3>2. CASE i # 0 /\ i <= n
      <4>1. i - 1 \in 0..L /\ i - 1 <= n
        BY <3>2
      <4>2. h[i] = g[i] /\ h[i - 1] = g[i - 1]
        BY <3>2, <4>1
      <4>3. g[i] = Stepped(g[i - 1], code[i], c)
        BY <2>1, <3>2
      <4> HIDE DEF h
      <4> QED BY <3>2, <4>2, <4>3
    <3>3. CASE i = n + 1
      <4>1. n \in 0..L /\ i - 1 = n
        BY <3>3
      <4>2. h[i] = Stepped(g[n], code[n + 1], c)
        BY <3>3
      <4>3. h[n] = g[n]
        BY <4>1
      <4> HIDE DEF h
      <4> QED BY <3>3, <4>1, <4>2, <4>3
    <3> QED BY <2>2, <3>1, <3>2, <3>3
  <2>3. Good(h, n + 1)
    <3> HIDE DEF h
    <3> QED BY <2>2
  <2> HIDE DEF Good, h
  <2> QED BY <2>3
<1>3. Nat \subseteq S
  <2> HIDE DEF S
  <2> QED BY <1>1, <1>2, NatInSet
<1>4. PICK g : Good(g, L)
  BY <1>3
<1> DEFINE h == Outlast(g, code, c, e)
<1>5. \A i \in 0..L : h[i] = g[i]
  BY <1>4 DEF Outlast, start
<1>6. h = Outlast(h, code, c, e)
  <2>1. ASSUME NEW i \in 0..L, i # 0 PROVE Stepped(h[i - 1], code[i], c) = Stepped(g[i - 1], code[i], c)
    <3>1. i - 1 \in 0..L
      BY <2>1
    <3>2. h[i - 1] = g[i - 1]
      BY <1>5, <3>1
    <3> HIDE DEF h
    <3> QED BY <3>2
  <2> DEFINE k == h
  <2>2. Outlast(k, code, c, e) = Outlast(g, code, c, e)
    <3>1. \A i \in 0..L : i # 0 => Stepped(k[i - 1], code[i], c) = Stepped(g[i - 1], code[i], c)
      BY <2>1
    <3> HIDE DEF k
    <3> QED BY <3>1 DEF Outlast
  <2> HIDE DEF k
  <2> QED BY <2>2 DEF k
<1> QED BY <1>6

\* The machine after each instruction.
LEMMA TraceFacts ==
    ASSUME NEW code, NEW c, NEW e, Len(code) \in Nat
    PROVE  LET t == TraceOf(code, c, e)
           IN  /\ t[0] = [NotRun EXCEPT !.atas = e]
               /\ \A n \in 1..Len(code) : t[n] = Stepped(t[n - 1], code[n], c)
<1> DEFINE t == TraceOf(code, c, e)
<1>1. t = Outlast(t, code, c, e)
  BY OutlastExists DEF TraceOf
<1> HIDE DEF t
<1>2. t[0] = [NotRun EXCEPT !.atas = e]
  BY <1>1 DEF Outlast
<1>3. ASSUME NEW n \in 1..Len(code) PROVE t[n] = Stepped(t[n - 1], code[n], c)
  BY <1>1 DEF Outlast
<1> QED BY <1>2, <1>3 DEF t

-----------------------------------------------------------------------------
(* The machine                                                             *)

Machine(fresh, obligation, tokens, at, loan, liquidated, errors) ==
    [fresh |-> fresh, obligation |-> obligation, atas |-> tokens, at |-> at, loan |-> loan,
     liquidated |-> liquidated, errors |-> errors]

Running(F, o, A, i, l, q) == Machine(F, o, A, i, l, q, {})

LEMMA RunningFields ==
    ASSUME NEW F, NEW o, NEW A, NEW i, NEW l, NEW q
    PROVE  LET vm == Running(F, o, A, i, l, q)
           IN  /\ vm.fresh = F /\ vm.obligation = o /\ vm.atas = A /\ vm.at = i
               /\ vm.loan = l /\ vm.liquidated = q /\ vm.errors = {}
BY DEF Running, Machine

\* TRUE and FALSE as values of a field.
Yes == TRUE
No == FALSE

\* A flash borrow's two fields.
Borrowed(vm, fresh, loan) == [vm EXCEPT !.fresh = fresh, !.loan = loan]

LEMMA BorrowedFields ==
    ASSUME NEW F, NEW o, NEW A, NEW i, NEW l, NEW q, NEW v, NEW w
    PROVE  Borrowed(Running(F, o, A, i, l, q), v, w) = Running(v, o, A, i, w, q)
<1> DEFINE vm == Running(F, o, A, i, l, q)
           u == [vm EXCEPT !.fresh = v]
<1>1. u = Running(v, o, A, i, l, q)
  BY DEF Running, Machine
<1>2. [vm EXCEPT !.fresh = v, !.loan = w] = [u EXCEPT !.loan = w]
  <2> HIDE DEF vm
  <2> QED OBVIOUS
<1> HIDE DEF u
<1>3. [u EXCEPT !.loan = w] = Running(v, o, A, i, w, q)
  BY <1>1 DEF Running, Machine
<1> HIDE DEF vm
<1>4. Borrowed(vm, v, w) = Running(v, o, A, i, w, q)
  BY <1>2, <1>3 DEF Borrowed
<1> QED BY <1>4 DEF vm

\* An instruction that fails leaves its errors, and what there was.
LEMMA SteppedFails ==
    ASSUME NEW F, NEW o, NEW A, NEW i, NEW l, NEW q, NEW ix, NEW c,
           Errors(Running(F, o, A, i, l, q), ix, c) # {}
    PROVE  Stepped(Running(F, o, A, i, l, q), ix, c).errors # {}
<1> DEFINE vm == Running(F, o, A, i, l, q)
           e == Errors(vm, ix, c)
<1>1. vm.errors = {}
  BY RunningFields
<1>2. Stepped(vm, ix, c) = [vm EXCEPT !.errors = e]
  BY <1>1 DEF Stepped
<1>3. [vm EXCEPT !.errors = e].errors = e
  <2> HIDE DEF e
  <2> QED BY DEF Running, Machine
<1> QED BY <1>2, <1>3

\* One that succeeds leaves its effect, and is counted.
LEMMA SteppedSucceeds ==
    ASSUME NEW vm, NEW ix, NEW c, vm.errors = {}, Errors(vm, ix, c) = {},
           NEW F, NEW o, NEW A, NEW i, NEW l, NEW q,
           Effect(vm, ix) = Running(F, o, A, i, l, q)
    PROVE  Stepped(vm, ix, c) = Running(F, o, A, i + 1, l, q)
<1> DEFINE next == Effect(vm, ix)
<1>1. Stepped(vm, ix, c) = [next EXCEPT !.at = @ + 1]
  BY DEF Stepped
<1> HIDE DEF next
<1>2. next = Running(F, o, A, i, l, q)
  BY DEF next
<1>3. [next EXCEPT !.at = @ + 1] = Running(F, o, A, i + 1, l, q)
  BY <1>2 DEF Running, Machine
<1> QED BY <1>1, <1>3

LEMMA RefreshReserveStep ==
    ASSUME NEW F, NEW o, NEW A, NEW i, NEW l, NEW q, NEW c, NEW a, NEW r,
           r \in Reserves, Contains(a.metas, r)
    PROVE  Stepped(Running(F, o, A, i, l, q), RefreshReserve(a, r), c)
               = Running(F \cup {r}, o, A, i + 1, l, q)
<1> DEFINE vm == Running(F, o, A, i, l, q)
           ix == RefreshReserve(a, r)
<1>1. ix.op = "refresh_reserve" /\ ix.reserve = r /\ ix.oracles
  BY DEF RefreshReserve
<1> HIDE DEF ix
<1>2. Errors(vm, ix, c) = {}
  BY <1>1 DEF Errors
<1>3. Effect(vm, ix) = [vm EXCEPT !.fresh = @ \cup {r}]
  BY <1>1 DEF Effect
<1>4. [vm EXCEPT !.fresh = @ \cup {r}] = Running(F \cup {r}, o, A, i, l, q)
  BY DEF Running, Machine
<1>5. vm.errors = {}
  BY RunningFields
<1> HIDE DEF vm
<1> QED BY <1>2, <1>3, <1>4, <1>5, SteppedSucceeds DEF vm, ix

LEMMA CreateStep ==
    ASSUME NEW F, NEW o, NEW A, NEW i, NEW l, NEW q, NEW c, NEW t, t.real
    PROVE  Stepped(Running(F, o, A, i, l, q), CreateAta(t), c)
               = Running(F, o, A \cup {t}, i + 1, l, q)
<1> DEFINE vm == Running(F, o, A, i, l, q)
           ix == CreateAta(t)
<1>1. ix.op = "create_idempotent" /\ ix.account = t
  BY DEF CreateAta
<1> HIDE DEF ix
<1>2. Errors(vm, ix, c) = {}
  BY <1>1 DEF Errors
<1>3. Effect(vm, ix) = [vm EXCEPT !.atas = @ \cup {t}]
  BY <1>1 DEF Effect
<1>4. [vm EXCEPT !.atas = @ \cup {t}] = Running(F, o, A \cup {t}, i, l, q)
  BY DEF Running, Machine
<1>5. vm.errors = {}
  BY RunningFields
<1> HIDE DEF vm
<1> QED BY <1>2, <1>3, <1>4, <1>5, SteppedSucceeds DEF vm, ix

\* The other instructions are looked at no further.
CheckedOps == {"refresh_reserve", "refresh_obligation", "create_idempotent",
               "flash_borrow", "liquidate", "flash_repay"}

LEMMA IdleStep ==
    ASSUME NEW F, NEW o, NEW A, NEW i, NEW l, NEW q, NEW c, NEW ix, ix.op \notin CheckedOps
    PROVE  Stepped(Running(F, o, A, i, l, q), ix, c) = Running(F, o, A, i + 1, l, q)
<1> DEFINE vm == Running(F, o, A, i, l, q)
<1>1. ix.op \notin {"refresh_reserve", "refresh_obligation", "create_idempotent",
                    "flash_borrow", "liquidate", "flash_repay"}
  BY DEF CheckedOps
<1>2. Errors(vm, ix, c) = {}
  BY <1>1 DEF Errors
<1>3. Effect(vm, ix) = vm
  BY <1>1 DEF Effect
<1>4. vm.errors = {}
  BY RunningFields
<1> QED BY <1>2, <1>3, <1>4, SteppedSucceeds

\* What refresh_obligation compares, over the reserves F that are fresh.
Matches(c, list, referrers, F) ==
    /\ list = c.deposits \o c.borrows
    /\ referrers = ReferrerStates(c)
    /\ ReservesOf(c) \subseteq F

LEMMA ObligationStep ==
    ASSUME NEW F, NEW o, NEW A, NEW i, NEW l, NEW q, NEW c, NEW list, NEW referrers
    PROVE  /\ Matches(c, list, referrers, F) =>
                 Stepped(Running(F, o, A, i, l, q), RefreshObligation(list, referrers), c)
                     = Running(F, Yes, A, i + 1, l, q)
           /\ ~Matches(c, list, referrers, F) =>
                 Stepped(Running(F, o, A, i, l, q), RefreshObligation(list, referrers),
                         c).errors # {}
<1> DEFINE vm == Running(F, o, A, i, l, q)
           ix == RefreshObligation(list, referrers)
           e == Errors(vm, ix, c)
           good == Matches(c, list, referrers, F)
<1>1. ix.op = "refresh_obligation" /\ ix.reserves = list /\ ix.referrers = referrers
  BY DEF RefreshObligation
<1>2. vm.errors = {} /\ vm.fresh = F
  BY RunningFields
<1> HIDE DEF ix
<1>3. e = {x \in {"InvalidAccountInput"} : \/ list # c.deposits \o c.borrows
                                           \/ referrers # ReferrerStates(c)}
          \cup {x \in {"ReserveStale"} : ~(ReservesOf(c) \subseteq F)}
  <2> HIDE DEF vm
  <2> QED BY <1>1, <1>2 DEF Errors
<1>4. e = {} <=> good
  <2> HIDE DEF e
  <2> QED BY <1>3 DEF Matches
<1>5. Effect(vm, ix) = [vm EXCEPT !.obligation = Yes]
  BY <1>1 DEF Effect, Yes
<1>6. [vm EXCEPT !.obligation = Yes] = Running(F, Yes, A, i, l, q)
  BY DEF Running, Machine
<1>7. ASSUME good PROVE Stepped(vm, ix, c) = Running(F, Yes, A, i + 1, l, q)
  <2>1. e = {}
    BY <1>4, <1>7
  <2>2. Effect(vm, ix) = Running(F, Yes, A, i, l, q)
    BY <1>5, <1>6
  <2> HIDE DEF vm, good, e
  <2> QED BY <1>2, <2>1, <2>2, SteppedSucceeds DEF e
<1>8. ASSUME ~good PROVE Stepped(vm, ix, c).errors # {}
  <2>1. e # {}
    BY <1>4, <1>8
  <2> HIDE DEF good
  <2> QED BY <2>1, SteppedFails
<1> QED BY <1>7, <1>8 DEF ix

LEMMA BorrowStep ==
    ASSUME NEW F, NEW o, NEW A, NEW i, NEW l, NEW q, NEW c, NEW a
    PROVE  /\ a.source \in A =>
                 Stepped(Running(F, o, A, i, l, q), FlashBorrow(a), c)
                     = Running(F \ {a.repay}, o, A, i + 1, i, q)
           /\ ~(a.source \in A) =>
                 Stepped(Running(F, o, A, i, l, q), FlashBorrow(a), c).errors # {}
<1> DEFINE vm == Running(F, o, A, i, l, q)
           ix == FlashBorrow(a)
           e == Errors(vm, ix, c)
<1>1. ix.op = "flash_borrow" /\ ix.reserve = a.repay /\ ix.destination = a.source
  BY DEF FlashBorrow
<1>2. vm.errors = {} /\ vm.atas = A /\ vm.at = i
  BY RunningFields
<1> HIDE DEF ix
<1>3. e = {x \in {"AccountNotInitialized"} : a.source \notin A}
  <2> HIDE DEF vm
  <2> QED BY <1>1, <1>2 DEF Errors
<1>4. e = {} <=> a.source \in A
  <2> HIDE DEF e
  <2> QED BY <1>3
<1>5. Effect(vm, ix) = Borrowed(vm, vm.fresh \ {ix.reserve}, vm.at)
  BY <1>1 DEF Effect, Borrowed
<1>6. Effect(vm, ix) = Running(F \ {a.repay}, o, A, i, i, q)
  <2>1. Borrowed(vm, F \ {a.repay}, i) = Running(F \ {a.repay}, o, A, i, i, q)
    BY BorrowedFields
  <2>2. vm.fresh = F
    BY RunningFields
  <2> HIDE DEF vm
  <2> QED BY <1>1, <1>2, <1>5, <2>1, <2>2
<1>7. ASSUME a.source \in A PROVE Stepped(vm, ix, c) = Running(F \ {a.repay}, o, A, i + 1, i, q)
  <2>1. e = {}
    BY <1>4, <1>7
  <2> HIDE DEF vm
  <2> QED BY <1>2, <1>5, <1>6, <2>1, SteppedSucceeds
<1>8. ASSUME a.source \notin A PROVE Stepped(vm, ix, c).errors # {}
  <2>1. e # {}
    BY <1>4, <1>8
  <2> QED BY <2>1, SteppedFails
<1> QED BY <1>7, <1>8 DEF ix

LEMMA BorrowFails ==
    ASSUME NEW vm, NEW a, NEW c, vm.errors = {}, a.source \notin vm.atas,
           "errors" \in DOMAIN vm
    PROVE  Stepped(vm, FlashBorrow(a), c).errors # {}
<1> DEFINE ix == FlashBorrow(a)
           x == Errors(vm, ix, c)
<1>1. ix.op = "flash_borrow" /\ ix.destination = a.source
  BY DEF FlashBorrow
<1> HIDE DEF ix
<1>2. x = {y \in {"AccountNotInitialized"} : a.source \notin vm.atas}
  BY <1>1 DEF Errors
<1> HIDE DEF x
<1>3. x # {}
  BY <1>2
<1>4. Stepped(vm, ix, c) = [vm EXCEPT !.errors = x]
  BY <1>3 DEF Stepped, x
<1>5. Stepped(vm, ix, c).errors = x
  BY <1>4
<1> QED BY <1>3, <1>5 DEF ix

LEMMA LiquidateStep ==
    ASSUME NEW F, NEW A, NEW i, NEW l, NEW q, NEW c, NEW a,
           a.repay \in F, a.withdraw \in F
    PROVE  /\ {a.source, a.collateral, a.destination} \subseteq A =>
                 Stepped(Running(F, Yes, A, i, l, q), Liquidate(a), c)
                     = Running(F, Yes, A, i + 1, l, Yes)
           /\ ~({a.source, a.collateral, a.destination} \subseteq A) =>
                 Stepped(Running(F, Yes, A, i, l, q), Liquidate(a), c).errors # {}
<1> DEFINE vm == Running(F, Yes, A, i, l, q)
           ix == Liquidate(a)
           e == Errors(vm, ix, c)
           uses == {a.source, a.collateral, a.destination}
<1>1. ix.op = "liquidate" /\ ix.repay = a.repay /\ ix.withdraw = a.withdraw /\ ix.uses = uses
  BY DEF Liquidate
<1>2. vm.errors = {} /\ vm.atas = A /\ vm.fresh = F /\ vm.obligation
  <2>1. vm.obligation = Yes /\ vm.errors = {} /\ vm.atas = A /\ vm.fresh = F
    BY RunningFields
  <2> HIDE DEF vm
  <2> QED BY <2>1 DEF Yes
<1> HIDE DEF ix, uses
<1>3. e = {x \in {"AccountNotInitialized"} : ~(uses \subseteq A)}
          \cup {x \in {"ReserveStale"} : ~({a.repay, a.withdraw} \subseteq F)}
          \cup {x \in {"ObligationStale"} : ~vm.obligation}
  <2> HIDE DEF vm
  <2> QED BY <1>1, <1>2 DEF Errors
<1>4. e = {} <=> uses \subseteq A
  <2> HIDE DEF e, vm
  <2> QED BY <1>2, <1>3
<1>5. Effect(vm, ix) = [vm EXCEPT !.liquidated = Yes]
  BY <1>1 DEF Effect, Yes
<1>6. [vm EXCEPT !.liquidated = Yes] = Running(F, Yes, A, i, l, Yes)
  BY DEF Running, Machine
<1>7. ASSUME uses \subseteq A PROVE Stepped(vm, ix, c) = Running(F, Yes, A, i + 1, l, Yes)
  <2>1. e = {}
    BY <1>4, <1>7
  <2>2. Effect(vm, ix) = Running(F, Yes, A, i, l, Yes)
    BY <1>5, <1>6
  <2> HIDE DEF vm, uses, e
  <2> QED BY <1>2, <2>1, <2>2, SteppedSucceeds DEF e
<1>8. ASSUME ~(uses \subseteq A) PROVE Stepped(vm, ix, c).errors # {}
  <2>1. e # {}
    BY <1>4, <1>8
  <2> QED BY <2>1, SteppedFails
<1> QED BY <1>7, <1>8 DEF ix, uses

LEMMA RepayStep ==
    ASSUME NEW F, NEW o, NEW A, NEW i, NEW l, NEW q, NEW c, NEW a, NEW n, n % 256 = l
    PROVE  Stepped(Running(F, o, A, i, l, q), FlashRepay(a, n), c)
               = Running(F, o, A, i + 1, -1, q)
<1> DEFINE vm == Running(F, o, A, i, l, q)
           ix == FlashRepay(a, n)
<1>1. ix.op = "flash_repay" /\ ix.index = l
  BY DEF FlashRepay
<1>2. vm.errors = {} /\ vm.loan = l
  BY RunningFields
<1> HIDE DEF ix
<1>3. Errors(vm, ix, c) = {}
  <2> HIDE DEF vm
  <2> QED BY <1>1, <1>2 DEF Errors
<1>4. Effect(vm, ix) = [vm EXCEPT !.loan = -1]
  BY <1>1 DEF Effect
<1>5. [vm EXCEPT !.loan = -1] = Running(F, o, A, i, -1, q)
  BY DEF Running, Machine
<1> HIDE DEF vm
<1> QED BY <1>2, <1>3, <1>4, <1>5, SteppedSucceeds DEF vm, ix
-----------------------------------------------------------------------------
(* A run of instructions of one kind                                       *)

\* t[n] is the machine after n instructions.
IsTrace(t, code, c) ==
    /\ Len(code) \in Nat
    /\ \A n \in 1..Len(code) : t[n] = Stepped(t[n - 1], code[n], c)

LEMMA FailureStays ==
    ASSUME NEW t, NEW code, NEW c, IsTrace(t, code, c),
           NEW i \in 0..Len(code), t[i].errors # {}
    PROVE  t[Len(code)].errors # {}
<1> DEFINE L == Len(code)
           S == {k \in Nat : i + k <= L => t[i + k].errors # {}}
<1>1. L \in Nat /\ \A n \in 1..L : t[n] = Stepped(t[n - 1], code[n], c)
  BY DEF IsTrace
<1>2. i \in Nat /\ i <= L
  BY <1>1
<1> HIDE DEF L
<1>3. 0 \in S
  BY <1>2
<1>4. ASSUME NEW k \in Nat, k \in S PROVE k + 1 \in S
  <2>1. CASE i + (k + 1) <= L
    <3> DEFINE n == i + (k + 1)
    <3>1. n \in 1..L /\ n - 1 = i + k /\ i + k <= L
      BY <1>1, <1>2, <2>1
    <3>2. t[n - 1].errors # {}
      BY <1>4, <3>1
    <3> HIDE DEF n
    <3>3. t[n] = t[n - 1]
      BY <1>1, <3>1, <3>2 DEF Stepped
    <3>4. t[n].errors # {}
      BY <3>2, <3>3
    <3> QED BY <3>4 DEF n
  <2> QED BY <2>1
<1>5. Nat \subseteq S
  <2> HIDE DEF S
  <2> QED BY <1>3, <1>4, NatInSet
<1>6. L - i \in Nat /\ i + (L - i) = L
  BY <1>1, <1>2
<1>7. t[L].errors # {}
  <2>1. L - i \in S
    BY <1>5, <1>6
  <2> QED BY <1>1, <1>6, <2>1
<1> QED BY <1>7 DEF L

\* From place s on, k instructions lie within the code.
Lies(code, s, k) == s \in Nat /\ k \in Nat /\ s + k <= Len(code)

LEMMA IdleRun ==
    ASSUME NEW t, NEW code, NEW c, IsTrace(t, code, c), NEW s, NEW k, Lies(code, s, k),
           NEW F, NEW o, NEW A, NEW l, NEW q, t[s] = Running(F, o, A, s, l, q),
           \A j \in 1..k : code[s + j].op \notin CheckedOps
    PROVE  t[s + k] = Running(F, o, A, s + k, l, q)
<1> DEFINE L == Len(code)
           S == {n \in Nat : n <= k => t[s + n] = Running(F, o, A, s + n, l, q)}
<1>1. /\ L \in Nat /\ s \in Nat /\ k \in Nat /\ s + k <= L
      /\ \A n \in 1..L : t[n] = Stepped(t[n - 1], code[n], c)
  BY DEF IsTrace, Lies
<1> HIDE DEF L
<1>2. 0 \in S
  <2>1. s + 0 = s
    BY <1>1
  <2> QED BY <2>1
<1>3. ASSUME NEW n \in Nat, n \in S PROVE n + 1 \in S
  <2>1. CASE n + 1 <= k
    <3>1. /\ s + (n + 1) \in 1..L /\ s + (n + 1) - 1 = s + n /\ n <= k /\ n + 1 \in 1..k
          /\ (s + n) + 1 = s + (n + 1)
      BY <1>1, <2>1
    <3>2. t[s + n] = Running(F, o, A, s + n, l, q)
      BY <1>3, <3>1
    <3>3. t[s + (n + 1)] = Stepped(t[s + n], code[s + (n + 1)], c)
      BY <1>1, <3>1
    <3>4. code[s + (n + 1)].op \notin CheckedOps
      BY <3>1
    <3>5. Stepped(Running(F, o, A, s + n, l, q), code[s + (n + 1)], c)
              = Running(F, o, A, (s + n) + 1, l, q)
      BY <3>4, IdleStep
    <3>6. t[s + (n + 1)] = Running(F, o, A, s + (n + 1), l, q)
      BY <3>1, <3>2, <3>3, <3>5
    <3> QED BY <3>6
  <2> QED BY <2>1
<1>4. Nat \subseteq S
  <2> HIDE DEF S
  <2> QED BY <1>2, <1>3, NatInSet
<1> QED BY <1>1, <1>4

Upto(keys, n) == {keys[j] : j \in 1..n}

LEMMA UptoMore ==
    ASSUME NEW keys, NEW n \in Nat
    PROVE  Upto(keys, n + 1) = Upto(keys, n) \cup {keys[n + 1]} /\ Upto(keys, 0) = {}
<1>1. 1..n + 1 = (1..n) \cup {n + 1} /\ 1..0 = {}
  OBVIOUS
<1> QED BY <1>1 DEF Upto

\* Reserves of the chain whose oracles were read.
Refreshable(a, keys, k) ==
    \A j \in 1..k : keys[j] \in Reserves /\ Contains(a.metas, keys[j])

LEMMA RefreshRun ==
    ASSUME NEW t, NEW code, NEW c, IsTrace(t, code, c), NEW s, NEW k, Lies(code, s, k),
           NEW F, NEW o, NEW A, NEW l, NEW q, t[s] = Running(F, o, A, s, l, q),
           NEW a, NEW keys,
           Refreshable(a, keys, k),
           \A j \in 1..k : code[s + j] = RefreshReserve(a, keys[j])
    PROVE  t[s + k] = Running(F \cup Upto(keys, k), o, A, s + k, l, q)
<1> DEFINE L == Len(code)
           S == {n \in Nat : n <= k =>
                    t[s + n] = Running(F \cup Upto(keys, n), o, A, s + n, l, q)}
<1>1. /\ L \in Nat /\ s \in Nat /\ k \in Nat /\ s + k <= L
      /\ \A n \in 1..L : t[n] = Stepped(t[n - 1], code[n], c)
  BY DEF IsTrace, Lies
<1> HIDE DEF L
<1>2. 0 \in S
  <2>1. s + 0 = s
    BY <1>1
  <2>2. F \cup Upto(keys, 0) = F
    BY UptoMore
  <2> QED BY <2>1, <2>2
<1>3. ASSUME NEW n \in Nat, n \in S PROVE n + 1 \in S
  <2>1. CASE n + 1 <= k
    <3> DEFINE G == F \cup Upto(keys, n)
    <3>1. /\ s + (n + 1) \in 1..L /\ s + (n + 1) - 1 = s + n /\ n <= k /\ n + 1 \in 1..k
          /\ (s + n) + 1 = s + (n + 1)
      BY <1>1, <2>1
    <3>2. t[s + n] = Running(G, o, A, s + n, l, q)
      BY <1>3, <3>1
    <3>3. t[s + (n + 1)] = Stepped(t[s + n], code[s + (n + 1)], c)
      BY <1>1, <3>1
    <3>4. /\ code[s + (n + 1)] = RefreshReserve(a, keys[n + 1])
          /\ keys[n + 1] \in Reserves /\ Contains(a.metas, keys[n + 1])
      BY <3>1 DEF Refreshable
    <3>5. G \cup {keys[n + 1]} = F \cup Upto(keys, n + 1)
      BY UptoMore
    <3> HIDE DEF G
    <3>6. Stepped(Running(G, o, A, s + n, l, q), RefreshReserve(a, keys[n + 1]), c)
              = Running(G \cup {keys[n + 1]}, o, A, (s + n) + 1, l, q)
      BY <3>4, RefreshReserveStep
    <3>7. t[s + (n + 1)] = Running(F \cup Upto(keys, n + 1), o, A, s + (n + 1), l, q)
      BY <3>1, <3>2, <3>3, <3>4, <3>5, <3>6
    <3> QED BY <3>7
  <2> QED BY <2>1
<1>4. Nat \subseteq S
  <2> HIDE DEF S
  <2> QED BY <1>2, <1>3, NatInSet
<1> QED BY <1>1, <1>4

\* Token accounts of mints that were read.
Creatable(list, e) == \A j \in 1..e : list[j].real

LEMMA CreateRun ==
    ASSUME NEW t, NEW code, NEW c, IsTrace(t, code, c), NEW s, NEW k, Lies(code, s, k),
           NEW F, NEW o, NEW A, NEW l, NEW q, t[s] = Running(F, o, A, s, l, q),
           NEW list, Creatable(list, k),
           \A j \in 1..k : code[s + j] = CreateAta(list[j])
    PROVE  t[s + k] = Running(F, o, A \cup Upto(list, k), s + k, l, q)
<1> DEFINE L == Len(code)
           S == {n \in Nat : n <= k =>
                    t[s + n] = Running(F, o, A \cup Upto(list, n), s + n, l, q)}
<1>1. /\ L \in Nat /\ s \in Nat /\ k \in Nat /\ s + k <= L
      /\ \A n \in 1..L : t[n] = Stepped(t[n - 1], code[n], c)
  BY DEF IsTrace, Lies
<1> HIDE DEF L
<1>2. 0 \in S
  <2>1. s + 0 = s
    BY <1>1
  <2>2. A \cup Upto(list, 0) = A
    BY UptoMore
  <2> QED BY <2>1, <2>2
<1>3. ASSUME NEW n \in Nat, n \in S PROVE n + 1 \in S
  <2>1. CASE n + 1 <= k
    <3> DEFINE G == A \cup Upto(list, n)
    <3>1. /\ s + (n + 1) \in 1..L /\ s + (n + 1) - 1 = s + n /\ n <= k /\ n + 1 \in 1..k
          /\ (s + n) + 1 = s + (n + 1)
      BY <1>1, <2>1
    <3>2. t[s + n] = Running(F, o, G, s + n, l, q)
      BY <1>3, <3>1
    <3>3. t[s + (n + 1)] = Stepped(t[s + n], code[s + (n + 1)], c)
      BY <1>1, <3>1
    <3>4. code[s + (n + 1)] = CreateAta(list[n + 1]) /\ list[n + 1].real
      BY <3>1 DEF Creatable
    <3>5. G \cup {list[n + 1]} = A \cup Upto(list, n + 1)
      BY UptoMore
    <3> HIDE DEF G
    <3>6. Stepped(Running(F, o, G, s + n, l, q), CreateAta(list[n + 1]), c)
              = Running(F, o, G \cup {list[n + 1]}, (s + n) + 1, l, q)
      BY <3>4, CreateStep
    <3>7. t[s + (n + 1)] = Running(F, o, A \cup Upto(list, n + 1), s + (n + 1), l, q)
      BY <3>1, <3>2, <3>3, <3>4, <3>5, <3>6
    <3> QED BY <3>7
  <2> QED BY <2>1
<1>4. Nat \subseteq S
  <2> HIDE DEF S
  <2> QED BY <1>2, <1>3, NatInSet
<1> QED BY <1>1, <1>4
-----------------------------------------------------------------------------
(* How a run ends                                                          *)

LEMMA SteppedDomain ==
    ASSUME NEW vm, NEW ix, NEW c
    PROVE  DOMAIN Stepped(vm, ix, c) = DOMAIN vm
<1> DEFINE next == Effect(vm, ix)
<1>1. DOMAIN next = DOMAIN vm
  BY DEF Effect
<1>2. DOMAIN [next EXCEPT !.at = @ + 1] = DOMAIN next
  <2> HIDE DEF next
  <2> QED OBVIOUS
<1> HIDE DEF next
<1>3. \/ Stepped(vm, ix, c) = vm
      \/ Stepped(vm, ix, c) = [vm EXCEPT !.errors = Errors(vm, ix, c)]
      \/ Stepped(vm, ix, c) = [next EXCEPT !.at = @ + 1]
  BY DEF Stepped, next
<1>4. DOMAIN [vm EXCEPT !.errors = Errors(vm, ix, c)] = DOMAIN vm
  OBVIOUS
<1> QED BY <1>1, <1>2, <1>3, <1>4

LEMMA TraceDomain ==
    ASSUME NEW t, NEW code, NEW c, IsTrace(t, code, c), NEW i \in 0..Len(code)
    PROVE  DOMAIN t[i] = DOMAIN t[0]
<1> DEFINE L == Len(code)
           S == {n \in Nat : n <= L => DOMAIN t[n] = DOMAIN t[0]}
<1>1. L \in Nat /\ \A n \in 1..L : t[n] = Stepped(t[n - 1], code[n], c)
  BY DEF IsTrace
<1> HIDE DEF L
<1>2. 0 \in S
  OBVIOUS
<1>3. ASSUME NEW n \in Nat, n \in S PROVE n + 1 \in S
  <2>1. CASE n + 1 <= L
    <3>1. n + 1 \in 1..L /\ (n + 1) - 1 = n /\ n <= L
      BY <1>1, <2>1
    <3>2. t[n + 1] = Stepped(t[n], code[n + 1], c)
      BY <1>1, <3>1
    <3>3. DOMAIN t[n + 1] = DOMAIN t[n]
      BY <3>2, SteppedDomain
    <3> QED BY <1>3, <3>1, <3>3
  <2> QED BY <2>1
<1>4. Nat \subseteq S
  <2> HIDE DEF S
  <2> QED BY <1>2, <1>3, NatInSet
<1>5. i \in Nat /\ i <= L
  BY <1>1 DEF L
<1> QED BY <1>4, <1>5

LEMMA StartFields ==
    ASSUME NEW A
    PROVE  [NotRun EXCEPT !.atas = A] = Running({}, No, A, 0, -1, No)
<1>1. NotRun = Running({}, No, {}, 0, -1, No)
  BY DEF NotRun, Running, Machine, No
<1>2. [Running({}, No, {}, 0, -1, No) EXCEPT !.atas = A] = Running({}, No, A, 0, -1, No)
  BY DEF Running, Machine
<1> QED BY <1>1, <1>2

\* A run liquidates if it gets through, has liquidated and owes nothing.
LEMMA RunOutcome ==
    ASSUME NEW code, NEW c, NEW A, Len(code) \in Nat
    PROVE  LET t == TraceOf(code, c, A) IN
           /\ IsTrace(t, code, c) /\ t[0] = Running({}, No, A, 0, -1, No)
           /\ t[Len(code)].errors # {} => ~Run(code, c, A).liquidated
           /\ \A F, o, B, i, l, q :
                 t[Len(code)] = Running(F, o, B, i, l, q)
                    => (Run(code, c, A).liquidated <=> q /\ l = -1)
<1> DEFINE t == TraceOf(code, c, A)
           end == t[Len(code)]
<1>1. IsTrace(t, code, c) /\ t[0] = Running({}, No, A, 0, -1, No)
  BY TraceFacts, StartFields DEF IsTrace
<1>2. Run(code, c, A) = Settled(end)
  BY RunIsTrace
<1>3. "liquidated" \in DOMAIN end
  <2>1. "liquidated" \in DOMAIN Running({}, No, A, 0, -1, No)
    BY DEF Running, Machine
  <2>2. Len(code) \in 0..Len(code)
    OBVIOUS
  <2> HIDE DEF t
  <2> QED BY <1>1, <2>1, <2>2, TraceDomain
<1> HIDE DEF end
<1>4. Settled(end).liquidated = (end.liquidated /\ end.errors = {} /\ end.loan = -1)
  <2> DEFINE v == end.liquidated /\ end.errors = {} /\ end.loan = -1
  <2>1. Settled(end) = [end EXCEPT !.liquidated = v]
    BY DEF Settled
  <2> HIDE DEF v
  <2>2. Settled(end).liquidated = v
    BY <1>3, <2>1
  <2> QED BY <2>2 DEF v
<1>5. ASSUME end.errors # {} PROVE ~Run(code, c, A).liquidated
  BY <1>2, <1>4, <1>5
<1>6. ASSUME NEW F, NEW o, NEW B, NEW i, NEW l, NEW q, end = Running(F, o, B, i, l, q)
      PROVE  Run(code, c, A).liquidated <=> q /\ l = -1
  <2>1. end.liquidated = q /\ end.errors = {} /\ end.loan = l
    BY <1>6, RunningFields
  <2>2. Run(code, c, A).liquidated = (q /\ {} = {} /\ l = -1)
    BY <1>2, <1>4, <2>1, Zenon
  <2> QED BY <2>2, Zenon
<1> QED BY <1>1, <1>5, <1>6 DEF end
-----------------------------------------------------------------------------
(* A run of Kamino's list                                                  *)

\* The budget's two instructions, k refreshes and the obligation's, e accounts, the
\* loan, k2 refreshes and the obligation's, the liquidation, w swaps, the repayment.
FlashLaid(code, a, keys, k, list, e, ends, k2, w, listed, n) ==
    /\ k \in Nat /\ e \in Nat /\ k2 \in Nat /\ w \in Nat
    /\ Len(code) = k + e + k2 + w + 7
    /\ n % 256 = k + e + 3
    /\ \A j \in 1..2 : code[0 + j].op \notin CheckedOps
    /\ \A j \in 1..k : code[2 + j] = RefreshReserve(a, keys[j])
    /\ code[k + 3] = RefreshObligation(listed, a.referrers)
    /\ \A j \in 1..e : code[k + 3 + j] = CreateAta(list[j])
    /\ code[k + e + 4] = FlashBorrow(a)
    /\ \A j \in 1..k2 : code[k + e + 4 + j] = RefreshReserve(a, ends[j])
    /\ code[k + e + k2 + 5] = RefreshObligation(listed, a.referrers)
    /\ code[k + e + k2 + 6] = Liquidate(a)
    /\ \A j \in 1..w : code[k + e + k2 + 6 + j].op \notin CheckedOps
    /\ code[k + e + k2 + w + 7] = FlashRepay(a, n)

\* What the chain compares with what was read.
Matching(c, a, listed, K, T) ==
    /\ Matches(c, listed, a.referrers, K)
    /\ {a.source, a.collateral, a.destination} \subseteq T

LEMMA FlashRun ==
    ASSUME NEW t, NEW code, NEW c, IsTrace(t, code, c),
           NEW A, t[0] = Running({}, No, A, 0, -1, No),
           NEW a, NEW keys, NEW k, NEW list, NEW e, NEW ends, NEW k2, NEW w,
           NEW listed, NEW n,
           FlashLaid(code, a, keys, k, list, e, ends, k2, w, listed, n),
           Refreshable(a, keys, k), Refreshable(a, ends, k2), Creatable(list, e),
           Upto(ends, k2) = {a.repay, a.withdraw},
           {a.repay, a.withdraw} \subseteq Upto(keys, k)
    PROVE  LET K == Upto(keys, k)
               T == A \cup Upto(list, e)
               L == Len(code)
           IN  /\ Matching(c, a, listed, K, T) => t[L] = Running(K, Yes, T, L, -1, Yes)
               /\ ~Matching(c, a, listed, K, T) => t[L].errors # {}
<1> DEFINE K == Upto(keys, k)
           T == A \cup Upto(list, e)
           L == Len(code)
           good == Matches(c, listed, a.referrers, K)
           uses == {a.source, a.collateral, a.destination}
<1>1. k \in Nat /\ e \in Nat /\ k2 \in Nat /\ w \in Nat /\ L = k + e + k2 + w + 7
  BY DEF FlashLaid
<1> DEFINE b == k + e + 3
           h == k + e + k2 + 4
<1>2. /\ b \in Nat /\ h \in Nat /\ h = b + 1 + k2 /\ L = h + 3 + w
      /\ Lies(code, 0, 2) /\ Lies(code, 2, k) /\ Lies(code, k + 3, e)
      /\ Lies(code, b + 1, k2) /\ Lies(code, h + 2, w)
      /\ k + 3 \in 1..L /\ b + 1 \in 1..L /\ h + 1 \in 1..L /\ h + 2 \in 1..L /\ L \in 1..L
      /\ 2 + k = k + 2 /\ (k + 2) + 1 = k + 3 /\ k + 3 + e = b
      /\ k + 3 - 1 = k + 2 /\ b + 1 - 1 = b /\ h + 1 - 1 = h /\ h + 2 - 1 = h + 1
      /\ h + 2 + w = L - 1 /\ (h + 1) + 1 = h + 2 /\ (L - 1) + 1 = L
  BY <1>1 DEF Lies
<1>3. /\ \A j \in 1..2 : code[0 + j].op \notin CheckedOps
      /\ \A j \in 1..k : code[2 + j] = RefreshReserve(a, keys[j])
      /\ code[k + 3] = RefreshObligation(listed, a.referrers)
      /\ \A j \in 1..e : code[k + 3 + j] = CreateAta(list[j])
  BY DEF FlashLaid
<1>4. /\ code[b + 1] = FlashBorrow(a)
      /\ \A j \in 1..k2 : code[b + 1 + j] = RefreshReserve(a, ends[j])
      /\ code[h + 1] = RefreshObligation(listed, a.referrers)
      /\ code[h + 2] = Liquidate(a)
      /\ \A j \in 1..w : code[h + 2 + j].op \notin CheckedOps
      /\ code[L] = FlashRepay(a, n) /\ n % 256 = b
  <2>1. /\ b + 1 = k + e + 4 /\ h + 1 = k + e + k2 + 5 /\ h + 2 = k + e + k2 + 6
        /\ L = k + e + k2 + w + 7
    BY <1>1
  <2> HIDE DEF L, h
  <2>2. /\ code[b + 1] = FlashBorrow(a)
        /\ \A j \in 1..k2 : code[b + 1 + j] = RefreshReserve(a, ends[j])
        /\ n % 256 = b
    BY <2>1 DEF FlashLaid
  <2> HIDE DEF b
  <2> QED BY <2>1, <2>2 DEF FlashLaid
<1> HIDE DEF b, h
<1>0. \A m \in 1..L : t[m] = Stepped(t[m - 1], code[m], c)
  BY DEF IsTrace
<1> HIDE DEF L
<1>5. t[2] = Running({}, No, A, 2, -1, No)
  <2>1. t[0 + 2] = Running({}, No, A, 0 + 2, -1, No)
    BY <1>2, <1>3, IdleRun
  <2>2. 0 + 2 = 2
    OBVIOUS
  <2> QED BY <2>1, <2>2
<1>6. t[k + 2] = Running(K, No, A, k + 2, -1, No)
  <2>1. t[2 + k] = Running({} \cup Upto(keys, k), No, A, 2 + k, -1, No)
    BY <1>2, <1>3, <1>5, RefreshRun
  <2>2. {} \cup Upto(keys, k) = Upto(keys, k)
    OBVIOUS
  <2> QED BY <1>2, <2>1, <2>2
<1>7. /\ good => t[k + 3] = Running(K, Yes, A, k + 3, -1, No)
      /\ ~good => t[k + 3].errors # {}
  <2> HIDE DEF K
  <2>1. t[k + 3] = Stepped(Running(K, No, A, k + 2, -1, No),
                           RefreshObligation(listed, a.referrers), c)
    <3>1. t[k + 3] = Stepped(t[k + 3 - 1], code[k + 3], c)
      <4>1. k + 3 \in 1..L
        BY <1>2
      <4> QED BY <1>0, <1>1, <4>1
    <3>2. k + 3 - 1 = k + 2
      BY <1>2
    <3> QED BY <1>3, <1>6, <3>1, <3>2
  <2>2. /\ good => Stepped(Running(K, No, A, k + 2, -1, No),
                           RefreshObligation(listed, a.referrers), c)
                       = Running(K, Yes, A, (k + 2) + 1, -1, No)
        /\ ~good => Stepped(Running(K, No, A, k + 2, -1, No),
                            RefreshObligation(listed, a.referrers), c).errors # {}
    BY ObligationStep
  <2> QED BY <1>2, <2>1, <2>2
<1>8. ASSUME ~good PROVE t[L].errors # {}
  <2> HIDE DEF good
  <2>1. k + 3 \in 0..L /\ t[k + 3].errors # {}
    BY <1>2, <1>7, <1>8
  <2> QED BY <2>1, FailureStays DEF L
<1>9. ASSUME good PROVE t[b] = Running(K, Yes, T, b, -1, No)
  <2> HIDE DEF good, K
  <2>1. t[k + 3] = Running(K, Yes, A, k + 3, -1, No)
    BY <1>7, <1>9
  <2>2. t[k + 3 + e] = Running(K, Yes, A \cup Upto(list, e), k + 3 + e, -1, No)
    BY <1>2, <1>3, <2>1, CreateRun
  <2> QED BY <1>2, <2>2
<1>10. ASSUME good
       PROVE  /\ a.source \in T => t[b + 1] = Running(K \ {a.repay}, Yes, T, b + 1, b, No)
              /\ ~(a.source \in T) => t[b + 1].errors # {}
  <2> HIDE DEF good, K, T
  <2>1. t[b + 1] = Stepped(Running(K, Yes, T, b, -1, No), FlashBorrow(a), c)
    BY <1>2, <1>4, <1>9, <1>10, <1>0
  <2>2. ASSUME a.source \in T
        PROVE  Stepped(Running(K, Yes, T, b, -1, No), FlashBorrow(a), c)
                   = Running(K \ {a.repay}, Yes, T, b + 1, b, No)
    BY <2>2, BorrowStep
  <2>3. ASSUME ~(a.source \in T)
        PROVE  Stepped(Running(K, Yes, T, b, -1, No), FlashBorrow(a), c).errors # {}
    <3> DEFINE vm == Running(K, Yes, T, b, -1, No)
    <3>1. vm.errors = {} /\ vm.atas = T /\ "errors" \in DOMAIN vm
      BY RunningFields DEF Running, Machine
    <3> HIDE DEF vm
    <3> QED BY <2>3, <3>1, BorrowFails DEF vm
  <2> QED BY <2>1, <2>2, <2>3
<1>11. ASSUME good, ~(a.source \in T) PROVE t[L].errors # {}
  <2> HIDE DEF good, T
  <2>1. b + 1 \in 0..L /\ t[b + 1].errors # {}
    BY <1>2, <1>10, <1>11
  <2> QED BY <2>1, FailureStays DEF L
<1>12. ASSUME good, a.source \in T PROVE t[h] = Running(K, Yes, T, h, b, No)
  <2> DEFINE G == K \ {a.repay}
  <2>1. G \cup Upto(ends, k2) = K
    BY DEF K
  <2> HIDE DEF good, K, T, G
  <2>2. t[b + 1] = Running(G, Yes, T, b + 1, b, No)
    BY <1>10, <1>12 DEF G
  <2>3. t[b + 1 + k2] = Running(G \cup Upto(ends, k2), Yes, T, b + 1 + k2, b, No)
    BY <1>2, <1>4, <2>2, RefreshRun
  <2> QED BY <1>2, <2>1, <2>3
<1>13. ASSUME good, a.source \in T PROVE t[h + 1] = Running(K, Yes, T, h + 1, b, No)
  <2> HIDE DEF K, T
  <2>1. t[h + 1] = Stepped(Running(K, Yes, T, h, b, No),
                           RefreshObligation(listed, a.referrers), c)
    BY <1>2, <1>4, <1>12, <1>13, <1>0
  <2>2. Stepped(Running(K, Yes, T, h, b, No), RefreshObligation(listed, a.referrers), c)
            = Running(K, Yes, T, h + 1, b, No)
    BY <1>13, ObligationStep
  <2> QED BY <2>1, <2>2
<1>14. ASSUME good, a.source \in T
       PROVE  /\ uses \subseteq T => t[h + 2] = Running(K, Yes, T, h + 2, b, Yes)
              /\ ~(uses \subseteq T) => t[h + 2].errors # {}
  <2>1. a.repay \in K /\ a.withdraw \in K
    OBVIOUS
  <2> HIDE DEF good, K, T
  <2>2. t[h + 2] = Stepped(Running(K, Yes, T, h + 1, b, No), Liquidate(a), c)
    BY <1>2, <1>4, <1>13, <1>14, <1>0
  <2>3. /\ uses \subseteq T => Stepped(Running(K, Yes, T, h + 1, b, No), Liquidate(a), c)
                                   = Running(K, Yes, T, (h + 1) + 1, b, Yes)
        /\ ~(uses \subseteq T) =>
               Stepped(Running(K, Yes, T, h + 1, b, No), Liquidate(a), c).errors # {}
    BY <2>1, LiquidateStep
  <2> HIDE DEF uses
  <2> QED BY <1>2, <2>2, <2>3
<1>15. ASSUME good, a.source \in T, ~(uses \subseteq T) PROVE t[L].errors # {}
  <2> HIDE DEF good, T, uses
  <2>1. h + 2 \in 0..L /\ t[h + 2].errors # {}
    BY <1>2, <1>14, <1>15
  <2> QED BY <2>1, FailureStays DEF L
<1>16. ASSUME good, a.source \in T, uses \subseteq T
       PROVE  t[L] = Running(K, Yes, T, L, -1, Yes)
  <2> HIDE DEF good, K, T, uses
  <2>1. t[h + 2] = Running(K, Yes, T, h + 2, b, Yes)
    BY <1>14, <1>16
  <2>2. t[h + 2 + w] = Running(K, Yes, T, h + 2 + w, b, Yes)
    BY <1>2, <1>4, <2>1, IdleRun
  <2>3. t[L] = Stepped(Running(K, Yes, T, L - 1, b, Yes), FlashRepay(a, n), c)
    BY <1>2, <1>4, <2>2, <1>0
  <2>4. Stepped(Running(K, Yes, T, L - 1, b, Yes), FlashRepay(a, n), c)
            = Running(K, Yes, T, (L - 1) + 1, -1, Yes)
    BY <1>4, RepayStep
  <2> QED BY <1>2, <2>3, <2>4
<1>17. a.source \in uses
  OBVIOUS
<1>18. Matching(c, a, listed, K, T) <=> good /\ uses \subseteq T
  BY DEF Matching
<1> HIDE DEF good, uses, K, T
<1>19. /\ Matching(c, a, listed, K, T) => t[L] = Running(K, Yes, T, L, -1, Yes)
       /\ ~Matching(c, a, listed, K, T) => t[L].errors # {}
  BY <1>8, <1>11, <1>15, <1>16, <1>17, <1>18
<1> QED BY <1>19 DEF K, T, L
-----------------------------------------------------------------------------
(* Kamino's list over what was read                                        *)

\* What the reads of an obligation p, and of the reserves read, leave in a.
LiveOf(a, p, read) ==
    /\ a.live
    /\ a.repay \in ToSet(p.borrows) \cap read /\ a.withdraw \in ToSet(p.deposits) \cap read
    /\ a.source = LiquidityAta(a.repay, TRUE)
    /\ a.collateral = CollateralAta(a.withdraw, TRUE)
    /\ a.destination = LiquidityAta(a.withdraw, TRUE)
    /\ a.deposits = p.deposits /\ a.borrows = p.borrows
    /\ a.referrers = ReferrerStates(p)
    /\ a.metas = KeptOnce(p.deposits \o p.borrows, read)

LEMMA ChainFacts ==
    ASSUME NEW p \in Chains
    PROVE  /\ IsSeq(p.deposits) /\ IsSeq(p.borrows) /\ IsSeq(p.deposits \o p.borrows)
           /\ ToSet(p.deposits \o p.borrows) = ReservesOf(p)
           /\ ReservesOf(p) \subseteq Reserves
           /\ Len(p.deposits) <= 8 /\ Len(p.borrows) <= 5
<1>1. /\ p.deposits \in Seq(Reserves) /\ Len(p.deposits) <= 8
      /\ p.borrows \in Seq(Reserves) /\ Len(p.borrows) <= 5
  BY PlanningAssumption
<1>2. IsSeq(p.deposits) /\ IsSeq(p.borrows)
  BY <1>1, TypedIsSeq
<1>3. IsSeq(p.deposits \o p.borrows)
  BY <1>2, Joined
<1>4. ToSet(p.deposits \o p.borrows) = ReservesOf(p)
  BY <1>2, JoinedRange DEF ReservesOf
<1>5. ToSet(p.deposits) \subseteq Reserves /\ ToSet(p.borrows) \subseteq Reserves
  BY <1>1 DEF ToSet
<1> QED BY <1>1, <1>2, <1>3, <1>4, <1>5 DEF ReservesOf

LEMMA LiveAccountsOk ==
    ASSUME NEW a, NEW p \in Chains, NEW read, LiveOf(a, p, read)
    PROVE  AccountsOk(a)
<1> DEFINE s == p.deposits \o p.borrows
           kept == KeptOnce(s, read)
<1>1. /\ IsSeq(p.deposits) /\ IsSeq(p.borrows)
      /\ Len(p.deposits) <= 8 /\ Len(p.borrows) <= 5
  BY ChainFacts
<1>2. /\ IsSeq(s) /\ Len(s) = Len(p.deposits) + Len(p.borrows)
      /\ Len(p.deposits) \in Nat /\ Len(p.borrows) \in Nat
  BY <1>1, Joined
<1> HIDE DEF s
<1>3. IsSeq(kept) /\ Len(kept) <= Len(s)
  BY <1>2, KeptOnceFacts
<1>4. a.metas = kept /\ a.deposits = p.deposits /\ a.borrows = p.borrows
  BY DEF LiveOf, s
<1> HIDE DEF kept
<1>5. Len(kept) \in Nat
  BY <1>3, SeqFacts
<1>6. Len(kept) <= 13
  <2> DEFINE d == Len(p.deposits)
             b == Len(p.borrows)
             n == Len(s)
             k == Len(kept)
  <2>1. d \in Nat /\ b \in Nat /\ n = d + b /\ k \in Nat /\ k <= n /\ d <= 8 /\ b <= 5
    BY <1>1, <1>2, <1>3, <1>5
  <2> HIDE DEF d, b, n, k
  <2>2. k <= 13
    BY <2>1
  <2> QED BY <2>2 DEF k
<1> QED BY <1>1, <1>3, <1>4, <1>6 DEF AccountsOk, Short

LEMMA UptoIsRange ==
    ASSUME NEW s, IsSeq(s)
    PROVE  Upto(s, Len(s)) = ToSet(s)
<1>1. DOMAIN s = 1..Len(s)
  BY SeqFacts
<1> QED BY <1>1 DEF Upto, ToSet

\* The reserves refreshed first, in the order of the refreshes.
KeysOf(a) == Dedup(a.metas)

LEMMA KeysFacts ==
    ASSUME NEW a, NEW p \in Chains, NEW read, LiveOf(a, p, read)
    PROVE  /\ IsSeq(KeysOf(a)) /\ IsSeq(a.metas)
           /\ Upto(KeysOf(a), Len(KeysOf(a))) = ReservesOf(p) \cap read
           /\ ToSet(a.metas) = ReservesOf(p) \cap read
           /\ {a.repay, a.withdraw} \subseteq ReservesOf(p) \cap read
           /\ a.metas # << >>
<1> DEFINE s == p.deposits \o p.borrows
<1>1. IsSeq(s) /\ ToSet(s) = ReservesOf(p)
  BY ChainFacts
<1>2. a.metas = KeptOnce(s, read)
  BY DEF LiveOf
<1> HIDE DEF s
<1>3. IsSeq(a.metas) /\ ToSet(a.metas) = ReservesOf(p) \cap read
  BY <1>1, <1>2, KeptOnceFacts, KeptOnceRange
<1>4. IsSeq(KeysOf(a)) /\ ToSet(KeysOf(a)) = ToSet(a.metas)
  <2> DEFINE m == a.metas
  <2>1. IsSeq(m)
    BY <1>3
  <2> HIDE DEF m
  <2>2. IsSeq(KeptOnce(m, ToSet(m))) /\ ToSet(KeptOnce(m, ToSet(m))) = ToSet(m) \cap ToSet(m)
    BY <2>1, KeptOnceFacts, KeptOnceRange
  <2> QED BY <2>2 DEF KeysOf, Dedup, m
<1>5. Upto(KeysOf(a), Len(KeysOf(a))) = ReservesOf(p) \cap read
  BY <1>3, <1>4, UptoIsRange
<1>6. {a.repay, a.withdraw} \subseteq ReservesOf(p) \cap read
  BY DEF LiveOf, ReservesOf
<1>7. a.metas # << >>
  <2>1. a.repay \in ToSet(a.metas)
    BY <1>3, <1>6
  <2>2. ToSet(<< >>) = {}
    BY DEF ToSet
  <2> QED BY <2>1, <2>2
<1> QED BY <1>3, <1>4, <1>5, <1>6, <1>7

\* The accounts to be created are those of the three that are missing.
LEMMA EnsureAtasFacts ==
    ASSUME NEW a, NEW p, NEW read, LiveOf(a, p, read)
    PROVE  /\ IsSeq(EnsureAtas(a))
           /\ Upto(EnsureAtas(a), Len(EnsureAtas(a)))
                  = {a.source, a.collateral, a.destination} \cap a.missing
           /\ Creatable(EnsureAtas(a), Len(EnsureAtas(a)))
<1> DEFINE x == LiquidityAta(a.repay, a.live)
           y == CollateralAta(a.withdraw, a.live)
           z == LiquidityAta(a.withdraw, a.live)
           s == <<x, y, z>>
           list == EnsureAtas(a)
<1>1. IsSeq(s) /\ ToSet(s) = {x, y, z}
  BY ThreeRange
<1>2. list = KeptOnce(s, a.missing)
  BY DEF EnsureAtas
<1>3. x.real /\ y.real /\ z.real
  BY DEF LiveOf, LiquidityAta, CollateralAta
<1>4. x = a.source /\ y = a.collateral /\ z = a.destination
  BY DEF LiveOf, LiquidityAta, CollateralAta
<1> HIDE DEF s
<1>5. IsSeq(list) /\ ToSet(list) = {x, y, z} \cap a.missing
  BY <1>1, <1>2, KeptOnceFacts, KeptOnceRange
<1> HIDE DEF x, y, z, list
<1>6. Upto(list, Len(list)) = ToSet(list)
  BY <1>5, UptoIsRange
<1>7. ASSUME NEW j \in 1..Len(list) PROVE list[j].real
  <2>1. list[j] \in Upto(list, Len(list))
    BY DEF Upto
  <2>2. list[j] \in {x, y, z}
    BY <1>5, <1>6, <2>1
  <2> QED BY <1>3, <2>2
<1>8. Creatable(list, Len(list))
  BY <1>7 DEF Creatable
<1> QED BY <1>4, <1>5, <1>6, <1>8 DEF list
LEMMA RefreshAllLast ==
    ASSUME NEW a, NEW flash, NEW keys, IsSeq(keys)
    PROVE  RefreshAll(a, flash, keys)[Len(keys) + 1]
               = RefreshObligation(
                     IF DepositReserves(a, flash) \o BorrowReserves(a, flash) # << >>
                     THEN DepositReserves(a, flash) \o BorrowReserves(a, flash) ELSE keys,
                     a.referrers)
<1> DEFINE n == Len(keys)
           s == [i \in DOMAIN keys |-> RefreshReserve(a, keys[i])]
           x == RefreshObligation(
                    IF DepositReserves(a, flash) \o BorrowReserves(a, flash) # << >>
                    THEN DepositReserves(a, flash) \o BorrowReserves(a, flash) ELSE keys,
                    a.referrers)
<1>1. n \in Nat /\ DOMAIN keys = 1..n
  BY SeqFacts
<1>2. RefreshAll(a, flash, keys) = s \o <<x>>
  BY DEF RefreshAll
<1>3. IsSeq(s) /\ Len(s) = n
  <2>1. s = [i \in 1..n |-> s[i]]
    BY <1>1
  <2> HIDE DEF s, n
  <2> QED BY <1>1, <2>1, FunctionIsSeq
<1> HIDE DEF s, x, n
<1>4. (s \o <<x>>)[Len(s) + 1] = x
  BY <1>3, JoinedOne
<1> QED BY <1>2, <1>3, <1>4 DEF n, x

\* Both refreshes of a live obligation name all its positions.
LEMMA LiveRefresh ==
    ASSUME NEW a, NEW p \in Chains, NEW read, LiveOf(a, p, read), NEW keys, IsSeq(keys)
    PROVE  /\ IsSeq(RefreshAll(a, TRUE, keys))
           /\ Len(RefreshAll(a, TRUE, keys)) = Len(keys) + 1
           /\ \A i \in 1..Len(keys) : RefreshAll(a, TRUE, keys)[i] = RefreshReserve(a, keys[i])
           /\ RefreshAll(a, TRUE, keys)[Len(keys) + 1]
                  = RefreshObligation(p.deposits \o p.borrows, a.referrers)
<1> DEFINE all == RefreshAll(a, TRUE, keys)
           s == p.deposits \o p.borrows
<1>1. /\ Only(all, RefreshOps) /\ Len(all) = Len(keys) + 1
      /\ \A i \in 1..Len(keys) : all[i] = RefreshReserve(a, keys[i])
  <2>1. LET list == RefreshAll(a, TRUE, keys)
        IN  /\ Only(list, RefreshOps) /\ Len(list) = Len(keys) + 1
            /\ \A i \in 1..Len(keys) : list[i] = RefreshReserve(a, keys[i])
            /\ list[Len(keys) + 1].op = "refresh_obligation"
    BY RefreshAllFacts, ZenonT(30)
  <2> QED BY <2>1
<1>2. DepositReserves(a, TRUE) = p.deposits /\ BorrowReserves(a, TRUE) = p.borrows
  BY DEF LiveOf, DepositReserves, BorrowReserves, Listed
<1>3. s # << >>
  <2>1. a.repay \in ToSet(s)
    <3>1. a.repay \in ReservesOf(p)
      BY DEF LiveOf, ReservesOf
    <3> QED BY <3>1, ChainFacts
  <2>2. ToSet(<< >>) = {}
    BY DEF ToSet
  <2> HIDE DEF s
  <2> QED BY <2>1, <2>2
<1>4. all[Len(keys) + 1] = RefreshObligation(s, a.referrers)
  <2>1. all[Len(keys) + 1]
            = RefreshObligation(
                  IF DepositReserves(a, TRUE) \o BorrowReserves(a, TRUE) # << >>
                  THEN DepositReserves(a, TRUE) \o BorrowReserves(a, TRUE) ELSE keys,
                  a.referrers)
    BY RefreshAllLast
  <2> HIDE DEF all
  <2> QED BY <1>2, <1>3, <2>1
<1> HIDE DEF all, s
<1>5. IsSeq(all)
  BY <1>1 DEF Only
<1> QED BY <1>1, <1>4, <1>5 DEF all, s

\* What comes before the loan, place by place.
BeforeLaid(B, a, keys, k, list, e, listed) ==
    /\ k \in Nat /\ e \in Nat /\ IsSeq(B) /\ Len(B) = k + e + 3
    /\ \A j \in 1..2 : B[j].op \notin CheckedOps
    /\ \A j \in 1..k : B[2 + j] = RefreshReserve(a, keys[j])
    /\ B[k + 3] = RefreshObligation(listed, a.referrers)
    /\ \A j \in 1..e : B[k + 3 + j] = CreateAta(list[j])

LEMMA BudgetIsIdle ==
    /\ IsSeq(ComputeBudget) /\ Len(ComputeBudget) = 2
    /\ \A j \in 1..2 : ComputeBudget[j].op \notin CheckedOps
<1> DEFINE x == [op |-> "compute_unit_limit"]
           y == [op |-> "compute_unit_price"]
<1>1. x.op \notin CheckedOps /\ y.op \notin CheckedOps /\ ComputeBudget = <<x, y>>
  BY DEF CheckedOps, ComputeBudget
<1>2. IsSeq(ComputeBudget) /\ Len(ComputeBudget) = 2
  BY ComputeBudgetFacts DEF Only
<1> HIDE DEF x, y
<1>3. <<x, y>>[1] = x /\ <<x, y>>[2] = y
  OBVIOUS
<1>4. ASSUME NEW j \in 1..2 PROVE j = 1 \/ j = 2
  OBVIOUS
<1> QED BY <1>1, <1>2, <1>3, <1>4

JoinedAs(st, s, t) ==
    /\ IsSeq(st) /\ Len(st) = Len(s) + Len(t)
    /\ \A j \in 1..Len(s) : st[j] = s[j]
    /\ \A j \in 1..Len(t) : st[Len(s) + j] = t[j]

LEMMA JoinedLaid ==
    ASSUME NEW s, NEW t, IsSeq(s), IsSeq(t)
    PROVE  JoinedAs(s \o t, s, t)
BY Joined DEF JoinedAs

LEMMA FlashBeforeLaid ==
    ASSUME NEW a, NEW p \in Chains, NEW read, LiveOf(a, p, read)
    PROVE  BeforeLaid(FlashBefore(a), a, KeysOf(a), Len(KeysOf(a)),
                      EnsureAtas(a), Len(EnsureAtas(a)), p.deposits \o p.borrows)
<1> DEFINE c == ComputeBudget
           keys == KeysOf(a)
           k == Len(keys)
           list == EnsureAtas(a)
           e == Len(list)
           r == RefreshIxs(a, TRUE)
           t == EnsureAtaIxs(a)
           B == FlashBefore(a)
           s == p.deposits \o p.borrows
<1>1. IsSeq(keys) /\ a.metas # << >> /\ IsSeq(list)
  BY KeysFacts, EnsureAtasFacts
<1>2. r = RefreshAll(a, TRUE, keys)
  BY <1>1 DEF RefreshIxs, KeysOf
<1>3. /\ IsSeq(r) /\ Len(r) = k + 1
      /\ \A i \in 1..k : r[i] = RefreshReserve(a, keys[i])
      /\ r[k + 1] = RefreshObligation(s, a.referrers)
  <2> HIDE DEF r, keys
  <2> QED BY <1>1, <1>2, LiveRefresh
<1>4. k \in Nat /\ e \in Nat /\ DOMAIN list = 1..e
  <2> HIDE DEF keys, list
  <2> QED BY <1>1, SeqFacts
<1>5. IsSeq(t) /\ Len(t) = e /\ \A i \in 1..e : t[i] = CreateAta(list[i])
  <2>1. t = [i \in 1..e |-> CreateAta(list[i])]
    BY <1>4 DEF EnsureAtaIxs
  <2> HIDE DEF t, e, list
  <2>2. t = [i \in 1..e |-> t[i]]
    BY <2>1
  <2>3. IsSeq(t) /\ Len(t) = e
    BY <1>4, <2>2, FunctionIsSeq
  <2> QED BY <2>1, <2>3
<1>6. B = (c \o r) \o t
  BY DEF FlashBefore
<1>7. IsSeq(c) /\ Len(c) = 2 /\ \A j \in 1..2 : c[j].op \notin CheckedOps
  BY BudgetIsIdle
<1> HIDE DEF c, r, t, B, k, e, keys, list, s
<1> DEFINE cr == c \o r
<1>8. /\ IsSeq(cr) /\ Len(cr) = k + 3
      /\ \A j \in 1..2 : cr[j] = c[j]
      /\ \A j \in 1..k + 1 : cr[2 + j] = r[j]
  <2>1. JoinedAs(cr, c, r)
    BY <1>3, <1>7, JoinedLaid
  <2> HIDE DEF cr
  <2>2. /\ IsSeq(cr) /\ Len(cr) = 2 + (k + 1)
        /\ \A j \in 1..2 : cr[j] = c[j]
        /\ \A j \in 1..k + 1 : cr[2 + j] = r[j]
    BY <1>3, <1>7, <2>1 DEF JoinedAs
  <2> QED BY <1>4, <2>2
<1> HIDE DEF cr
<1>9. /\ IsSeq(B) /\ Len(B) = k + e + 3
      /\ \A j \in 1..k + 3 : B[j] = cr[j]
      /\ \A j \in 1..e : B[k + 3 + j] = t[j]
  <2>1. JoinedAs(B, cr, t)
    BY <1>5, <1>6, <1>8, JoinedLaid DEF cr
  <2>2. /\ IsSeq(B) /\ Len(B) = (k + 3) + e
        /\ \A j \in 1..k + 3 : B[j] = cr[j]
        /\ \A j \in 1..e : B[k + 3 + j] = t[j]
    BY <1>5, <1>8, <2>1 DEF JoinedAs
  <2> QED BY <1>4, <2>2
<1>10. ASSUME NEW j \in 1..2 PROVE B[j].op \notin CheckedOps
  <2>1. j \in 1..k + 3
    BY <1>4
  <2> QED BY <1>7, <1>8, <1>9, <2>1
<1>11. ASSUME NEW j \in 1..k PROVE B[2 + j] = RefreshReserve(a, keys[j])
  <2>1. 2 + j \in 1..k + 3 /\ j \in 1..k + 1
    BY <1>4
  <2> QED BY <1>3, <1>8, <1>9, <2>1
<1>12. B[k + 3] = RefreshObligation(s, a.referrers)
  <2>1. k + 3 \in 1..k + 3 /\ k + 1 \in 1..k + 1 /\ k + 3 = 2 + (k + 1)
    BY <1>4
  <2>2. B[k + 3] = cr[k + 3]
    BY <1>9, <2>1
  <2>3. cr[2 + (k + 1)] = r[k + 1]
    BY <1>8, <2>1
  <2> QED BY <1>3, <2>1, <2>2, <2>3
<1>13. ASSUME NEW j \in 1..e PROVE B[k + 3 + j] = CreateAta(list[j])
  BY <1>5, <1>9
<1>14. BeforeLaid(B, a, keys, k, list, e, s)
  BY <1>4, <1>9, <1>10, <1>11, <1>12, <1>13 DEF BeforeLaid
<1> QED BY <1>14 DEF B, k, e, keys, list, s
LEMMA FlashIsLaid ==
    ASSUME NEW a, NEW p \in Chains, NEW read, LiveOf(a, p, read), NEW swaps \in SwapLists
    PROVE  FlashLaid(BuildFlashTx(a, swaps), a, KeysOf(a), Len(KeysOf(a)),
                     EnsureAtas(a), Len(EnsureAtas(a)),
                     Dedup(<<a.repay, a.withdraw>>), Len(Dedup(<<a.repay, a.withdraw>>)),
                     Len(swaps), p.deposits \o p.borrows, Len(FlashBefore(a)))
<1> DEFINE code == BuildFlashTx(a, swaps)
           B == FlashBefore(a)
           f == FlashBorrow(a)
           M == PostFlashRefreshIxs(a)
           l == Liquidate(a)
           r == FlashRepay(a, Len(B))
           keys == KeysOf(a)
           k == Len(keys)
           list == EnsureAtas(a)
           e == Len(list)
           ends == Dedup(<<a.repay, a.withdraw>>)
           k2 == Len(ends)
           w == Len(swaps)
           s == p.deposits \o p.borrows
<1>1. Only(swaps, SwapOps) /\ IsSeq(swaps)
  BY SwapsFacts DEF Only
<1>2. LoanPlan(code, B, f, M, l, swaps, r) /\ Len(B) < 256
  <2>1. AccountsOk(a)
    BY LiveAccountsOk
  <2>2. LET B1 == FlashBefore(a)
            f1 == FlashBorrow(a)
            M1 == PostFlashRefreshIxs(a)
            l1 == Liquidate(a)
            r1 == FlashRepay(a, Len(B1))
        IN  /\ LoanPlan(BuildFlashTx(a, swaps), B1, f1, M1, l1, swaps, r1)
            /\ LoanShaped(B1, f1, M1, l1, swaps, r1)
            /\ Len(B1) < 256
    BY <1>1, <2>1, FlashShape, ZenonT(30)
  <2> QED BY <2>2
<1>3. BeforeLaid(B, a, keys, k, list, e, s)
  BY FlashBeforeLaid
<1>4. IsSeq(ends) /\ M = RefreshAll(a, TRUE, ends)
  <2>1. IsSeq(<<a.repay, a.withdraw>>)
    BY TwoIsSeq
  <2>2. IsSeq(ends)
    BY <2>1, KeptOnceFacts DEF Dedup
  <2> QED BY <2>2 DEF PostFlashRefreshIxs
<1>5. /\ Len(M) = k2 + 1
      /\ \A i \in 1..k2 : M[i] = RefreshReserve(a, ends[i])
      /\ M[k2 + 1] = RefreshObligation(s, a.referrers)
  <2> HIDE DEF M, ends
  <2> QED BY <1>4, LiveRefresh
<1>6. k2 \in Nat /\ w \in Nat
  <2> HIDE DEF ends
  <2> QED BY <1>1, <1>4, SeqFacts
<1>7. r = FlashRepay(a, Len(B))
  OBVIOUS
<1> HIDE DEF code, B, f, M, l, r, keys, k, list, e, ends, k2, w, s
<1>8. k \in Nat /\ e \in Nat /\ Len(B) = k + e + 3
  BY <1>3 DEF BeforeLaid
<1> DEFINE b == k + e + 3
           m == k2 + 1
<1>9. /\ Len(code) = b + m + w + 3
      /\ \A i \in 1..b : code[i] = B[i]
      /\ code[b + 1] = f
      /\ \A i \in 1..m : code[b + 1 + i] = M[i]
      /\ code[b + m + 2] = l
      /\ \A i \in 1..w : code[b + m + 2 + i] = swaps[i]
      /\ code[b + m + w + 3] = r
  BY <1>2, <1>5, <1>8 DEF LoanPlan, w
<1>10. /\ b \in Nat /\ m \in Nat /\ b = k + e + 3 /\ m = k2 + 1
       /\ b + 1 = k + e + 4 /\ b + m + 2 = k + e + k2 + 6 /\ b + m + w + 3 = k + e + k2 + w + 7
  BY <1>6, <1>8
<1> HIDE DEF b, m
<1>11. ASSUME NEW j \in 1..2 PROVE code[0 + j].op \notin CheckedOps
  <2>1. j \in 1..b /\ 0 + j = j
    BY <1>8, <1>10
  <2>2. code[j] = B[j] /\ B[j].op \notin CheckedOps
    BY <1>3, <1>9, <2>1 DEF BeforeLaid
  <2> QED BY <2>1, <2>2
<1>12. ASSUME NEW j \in 1..k PROVE code[2 + j] = RefreshReserve(a, keys[j])
  <2>1. 2 + j \in 1..b
    BY <1>8, <1>10
  <2>2. B[2 + j] = RefreshReserve(a, keys[j])
    BY <1>3 DEF BeforeLaid
  <2> QED BY <1>9, <2>1, <2>2
<1>13. code[k + 3] = RefreshObligation(s, a.referrers)
  <2>1. k + 3 \in 1..b
    BY <1>8, <1>10
  <2>2. B[k + 3] = RefreshObligation(s, a.referrers)
    BY <1>3 DEF BeforeLaid
  <2> QED BY <1>8, <1>9, <2>1, <2>2
<1>14. ASSUME NEW j \in 1..e PROVE code[k + 3 + j] = CreateAta(list[j])
  <2>1. k + 3 + j \in 1..b
    BY <1>8, <1>10
  <2>2. B[k + 3 + j] = CreateAta(list[j])
    BY <1>3 DEF BeforeLaid
  <2> QED BY <1>8, <1>9, <2>1, <2>2
<1>15. ASSUME NEW j \in 1..k2 PROVE code[k + e + 4 + j] = RefreshReserve(a, ends[j])
  <2>1. j \in 1..m /\ k + e + 4 + j = b + 1 + j
    BY <1>6, <1>8, <1>10
  <2>2. code[b + 1 + j] = M[j]
    BY <1>9, <2>1
  <2> QED BY <1>5, <2>1, <2>2
<1>16. code[k + e + k2 + 5] = RefreshObligation(s, a.referrers)
  <2>1. m \in 1..m /\ k + e + k2 + 5 = b + 1 + m
    BY <1>6, <1>8, <1>10
  <2>2. code[b + 1 + m] = M[m]
    BY <1>9, <2>1
  <2> QED BY <1>5, <1>10, <2>1, <2>2
<1>17. ASSUME NEW j \in 1..w PROVE code[k + e + k2 + 6 + j].op \notin CheckedOps
  <2>1. k + e + k2 + 6 + j = b + m + 2 + j
    BY <1>6, <1>8, <1>10
  <2>2. code[b + m + 2 + j] = swaps[j]
    BY <1>9
  <2>3. swaps[j].op \in SwapOps
    BY <1>1 DEF Only, w
  <2>4. swaps[j].op \notin CheckedOps
    BY <2>3 DEF SwapOps, CheckedOps
  <2> QED BY <2>1, <2>2, <2>4
<1>18. Len(B) % 256 = k + e + 3
  <2>1. k + e + 3 \in 0..255
    BY <1>2, <1>8
  <2>2. (k + e + 3) % 256 = k + e + 3
    BY <2>1
  <2> QED BY <1>8, <2>2
<1>19. /\ Len(code) = k + e + k2 + w + 7 /\ code[k + e + 4] = FlashBorrow(a)
       /\ code[k + e + k2 + 6] = Liquidate(a)
       /\ code[k + e + k2 + w + 7] = FlashRepay(a, Len(B))
  BY <1>7, <1>9, <1>10 DEF f, l
<1>20. FlashLaid(code, a, keys, k, list, e, ends, k2, w, s, Len(B))
  BY <1>6, <1>8, <1>11, <1>12, <1>13, <1>14, <1>15, <1>16, <1>17, <1>18, <1>19 DEF FlashLaid
<1> QED BY <1>20 DEF code, B, keys, k, list, e, ends, k2, w, s

\* GoodReads of what was read, against a chain.
Good(a, p, read, c, A) ==
    /\ p.deposits \o p.borrows = c.deposits \o c.borrows
    /\ ReferrerStates(p) = ReferrerStates(c)
    /\ ReservesOf(p) \subseteq read
    /\ {a.source, a.collateral, a.destination} \subseteq A \cup a.missing

LEMMA FlashOutcome ==
    ASSUME NEW a, NEW p \in Chains, NEW read, LiveOf(a, p, read), NEW swaps \in SwapLists,
           NEW c \in Chains, NEW A
    PROVE  Run(BuildFlashTx(a, swaps), c, A).liquidated <=> Good(a, p, read, c, A)
<1> DEFINE code == BuildFlashTx(a, swaps)
           keys == KeysOf(a)
           k == Len(keys)
           list == EnsureAtas(a)
           e == Len(list)
           ends == Dedup(<<a.repay, a.withdraw>>)
           k2 == Len(ends)
           s == p.deposits \o p.borrows
           K == Upto(keys, k)
           T == A \cup Upto(list, e)
           L == Len(code)
           t == TraceOf(code, c, A)
           uses == {a.source, a.collateral, a.destination}
<1>1. FlashLaid(code, a, keys, k, list, e, ends, k2, Len(swaps), s, Len(FlashBefore(a)))
  BY FlashIsLaid
<1>2. /\ K = ReservesOf(p) \cap read /\ ToSet(a.metas) = ReservesOf(p) \cap read
      /\ {a.repay, a.withdraw} \subseteq ReservesOf(p) \cap read
      /\ IsSeq(a.metas) /\ IsSeq(keys)
  BY KeysFacts
<1>3. Upto(list, e) = uses \cap a.missing /\ Creatable(list, e)
  BY EnsureAtasFacts
<1>4. ReservesOf(p) \subseteq Reserves /\ ToSet(s) = ReservesOf(p)
  BY ChainFacts
<1>5. ToSet(c.deposits \o c.borrows) = ReservesOf(c)
  BY ChainFacts
<1>6. IsSeq(ends) /\ Upto(ends, k2) = {a.repay, a.withdraw}
  <2> DEFINE u == <<a.repay, a.withdraw>>
  <2>1. IsSeq(u) /\ ToSet(u) = {a.repay, a.withdraw}
    BY TwoIsSeq, TwoRange
  <2> HIDE DEF u
  <2>2. IsSeq(KeptOnce(u, ToSet(u))) /\ ToSet(KeptOnce(u, ToSet(u))) = ToSet(u) \cap ToSet(u)
    BY <2>1, KeptOnceFacts, KeptOnceRange
  <2>3. IsSeq(Dedup(u)) /\ ToSet(Dedup(u)) = {a.repay, a.withdraw}
    BY <2>1, <2>2 DEF Dedup
  <2> QED BY <2>3, UptoIsRange DEF u
<1>7. ASSUME NEW r, r \in ReservesOf(p) \cap read
      PROVE  r \in Reserves /\ Contains(a.metas, r)
  <2>1. DOMAIN a.metas = 1..Len(a.metas)
    BY <1>2, SeqFacts
  <2>2. r \in ToSet(a.metas)
    BY <1>2, <1>7
  <2>3. \E i \in 1..Len(a.metas) : a.metas[i] = r
    BY <2>1, <2>2 DEF ToSet
  <2> QED BY <1>4, <1>7, <2>3 DEF Contains
<1>8. Len(code) \in Nat
  BY <1>1 DEF FlashLaid
<1> HIDE DEF code, keys, k, list, e, ends, k2, s
<1>9. Refreshable(a, keys, k)
  <2>1. ASSUME NEW j \in 1..k PROVE keys[j] \in Reserves /\ Contains(a.metas, keys[j])
    <3>1. keys[j] \in K
      BY DEF Upto
    <3> QED BY <1>2, <1>7, <3>1
  <2> QED BY <2>1 DEF Refreshable
<1>10. Refreshable(a, ends, k2)
  <2>1. ASSUME NEW j \in 1..k2 PROVE ends[j] \in Reserves /\ Contains(a.metas, ends[j])
    <3>1. ends[j] \in Upto(ends, k2)
      BY DEF Upto
    <3> QED BY <1>2, <1>6, <1>7, <3>1
  <2> QED BY <2>1 DEF Refreshable
<1>11. /\ IsTrace(t, code, c) /\ t[0] = Running({}, No, A, 0, -1, No)
       /\ t[L].errors # {} => ~Run(code, c, A).liquidated
       /\ \A F, o, B, i, l, q : t[L] = Running(F, o, B, i, l, q)
                                   => (Run(code, c, A).liquidated <=> q /\ l = -1)
  <2>1. LET v == TraceOf(code, c, A) IN
           /\ IsTrace(v, code, c) /\ v[0] = Running({}, No, A, 0, -1, No)
           /\ v[Len(code)].errors # {} => ~Run(code, c, A).liquidated
           /\ \A F, o, B, i, l, q :
                 v[Len(code)] = Running(F, o, B, i, l, q)
                    => (Run(code, c, A).liquidated <=> q /\ l = -1)
    BY <1>8, RunOutcome, ZenonT(30)
  <2> QED BY <2>1
<1> HIDE DEF t
<1>12. /\ Matching(c, a, s, K, T) => t[L] = Running(K, Yes, T, L, -1, Yes)
       /\ ~Matching(c, a, s, K, T) => t[L].errors # {}
  <2>1. {a.repay, a.withdraw} \subseteq K
    BY <1>2
  <2> QED BY <1>1, <1>3, <1>6, <1>9, <1>10, <1>11, <2>1, FlashRun
<1> HIDE DEF K, T, L, uses
<1>13. Run(code, c, A).liquidated <=> Matching(c, a, s, K, T)
  <2>1. CASE Matching(c, a, s, K, T)
    <3>1. t[L] = Running(K, Yes, T, L, -1, Yes)
      BY <1>12, <2>1
    <3>2. Run(code, c, A).liquidated <=> Yes /\ -1 = -1
      BY <1>11, <3>1
    <3> QED BY <2>1, <3>2 DEF Yes
  <2>2. CASE ~Matching(c, a, s, K, T)
    BY <1>11, <1>12, <2>2
  <2> QED BY <2>1, <2>2
<1>14. Matching(c, a, s, K, T) <=> Good(a, p, read, c, A)
  <2>1. a.referrers = ReferrerStates(p)
    BY DEF LiveOf
  <2>2. uses \subseteq T <=> uses \subseteq A \cup a.missing
    BY <1>3 DEF T
  <2>3. s = c.deposits \o c.borrows => (ReservesOf(c) \subseteq K <=> ReservesOf(p) \subseteq read)
    BY <1>2, <1>4, <1>5
  <2> QED BY <2>1, <2>2, <2>3 DEF Matching, Matches, Good, uses, s
<1> QED BY <1>13, <1>14 DEF code
-----------------------------------------------------------------------------
(* Lists that never liquidate                                              *)

\* A refresh of a reserve without its oracles fails, whatever came before.
LEMMA BlindRefreshFails ==
    ASSUME NEW code, NEW c, NEW A, Len(code) \in Nat, NEW j \in 1..Len(code),
           code[j].op = "refresh_reserve", ~code[j].oracles
    PROVE  ~Run(code, c, A).liquidated
<1> DEFINE t == TraceOf(code, c, A)
           L == Len(code)
           ix == code[j]
           vm == t[j - 1]
           x == Errors(vm, ix, c)
<1>1. /\ IsTrace(t, code, c) /\ t[0] = Running({}, No, A, 0, -1, No)
      /\ t[L].errors # {} => ~Run(code, c, A).liquidated
  <2>1. LET v == TraceOf(code, c, A) IN
           /\ IsTrace(v, code, c) /\ v[0] = Running({}, No, A, 0, -1, No)
           /\ v[Len(code)].errors # {} => ~Run(code, c, A).liquidated
           /\ \A F, o, B, i, l, q :
                 v[Len(code)] = Running(F, o, B, i, l, q)
                    => (Run(code, c, A).liquidated <=> q /\ l = -1)
    BY RunOutcome, ZenonT(30)
  <2> QED BY <2>1
<1>2. "errors" \in DOMAIN vm
  <2>1. j - 1 \in 0..L
    OBVIOUS
  <2>2. "errors" \in DOMAIN t[0]
    BY <1>1 DEF Running, Machine
  <2> HIDE DEF t
  <2> QED BY <1>1, <2>1, <2>2, TraceDomain
<1>3. t[j] = Stepped(vm, ix, c)
  BY <1>1 DEF IsTrace
<1> HIDE DEF t, vm, ix
<1>4. x # {}
  <2>1. x = {e \in {"AccountNotFound"} : ix.reserve \notin Reserves}
            \cup {e \in {"AccountNotEnoughKeys"} : ~ix.oracles}
    BY DEF Errors, ix
  <2>2. ~ix.oracles
    BY DEF ix
  <2> HIDE DEF x
  <2> QED BY <2>1, <2>2
<1>5. t[j].errors # {}
  <2>1. CASE vm.errors # {}
    BY <1>3, <2>1 DEF Stepped
  <2>2. CASE vm.errors = {}
    <3>1. Stepped(vm, ix, c) = [vm EXCEPT !.errors = x]
      BY <1>4, <2>2 DEF Stepped
    <3> HIDE DEF x
    <3> QED BY <1>2, <1>3, <1>4, <3>1
  <2> QED BY <2>1, <2>2
<1>6. j \in 0..L /\ L \in Nat
  OBVIOUS
<1>7. t[L].errors # {}
  BY <1>1, <1>5, <1>6, FailureStays DEF L
<1> QED BY <1>1, <1>7

\* Over placeholders a Kamino list starts with the fallback without oracles.
LEMMA PlaceholderFlashFails ==
    ASSUME NEW a, AccountsOk(a), Plain(a), NEW swaps \in SwapLists, NEW c, NEW A
    PROVE  ~Run(BuildFlashTx(a, swaps), c, A).liquidated
<1> DEFINE code == BuildFlashTx(a, swaps)
           B == FlashBefore(a)
           s == DepositReserves(a, TRUE) \o BorrowReserves(a, TRUE)
           keys == Dedup(s)
           r == RefreshIxs(a, TRUE)
           t == EnsureAtaIxs(a)
           cb == ComputeBudget
           cr == cb \o r
<1>1. IsSeq(s) /\ ToSet(s) = {a.withdraw, a.repay} /\ r = RefreshAll(a, TRUE, keys)
  <2>1. DepositReserves(a, TRUE) = <<a.withdraw>> /\ BorrowReserves(a, TRUE) = <<a.repay>>
    BY DEF Plain, DepositReserves, BorrowReserves, Listed
  <2>2. IsSeq(<<a.withdraw>>) /\ IsSeq(<<a.repay>>)
    BY OneOrNone
  <2>3. ToSet(<<a.withdraw>>) = {a.withdraw} /\ ToSet(<<a.repay>>) = {a.repay}
    BY DEF ToSet
  <2>5. RefreshIxs(a, TRUE) = RefreshAll(a, TRUE, keys)
    BY DEF Plain, RefreshIxs
  <2> DEFINE d == DepositReserves(a, TRUE)
             b == BorrowReserves(a, TRUE)
  <2>4. IsSeq(d) /\ IsSeq(b) /\ ToSet(d) = {a.withdraw} /\ ToSet(b) = {a.repay}
    BY <2>1, <2>2, <2>3
  <2>6. s = d \o b
    OBVIOUS
  <2> HIDE DEF d, b, s
  <2>7. IsSeq(s)
    BY <2>4, <2>6, Joined
  <2>8. ToSet(s) = ToSet(d) \cup ToSet(b)
    BY <2>4, <2>6, JoinedRange
  <2>9. ToSet(s) = {a.withdraw, a.repay}
    BY <2>4, <2>8
  <2> HIDE DEF keys
  <2> QED BY <2>5, <2>7, <2>9 DEF r
<1>2. IsSeq(keys) /\ Len(keys) \in Nat /\ Len(keys) >= 1
  <2> HIDE DEF s
  <2>1. IsSeq(KeptOnce(s, ToSet(s))) /\ ToSet(KeptOnce(s, ToSet(s))) = ToSet(s) \cap ToSet(s)
    BY <1>1, KeptOnceFacts, KeptOnceRange
  <2>2. IsSeq(keys) /\ ToSet(keys) = {a.withdraw, a.repay}
    BY <1>1, <2>1 DEF Dedup
  <2> HIDE DEF keys
  <2>3. Len(keys) \in Nat /\ DOMAIN keys = 1..Len(keys)
    BY <2>2, SeqFacts
  <2>5. PICK i \in DOMAIN keys : keys[i] = a.repay
    BY <2>2 DEF ToSet
  <2>6. i \in 1..Len(keys)
    BY <2>3, <2>5
  <2>4. Len(keys) # 0
    BY <2>3, <2>6
  <2> QED BY <2>2, <2>3, <2>4
<1>3. IsSeq(r) /\ Len(r) = Len(keys) + 1 /\ r[1] = RefreshReserve(a, keys[1])
  <2> HIDE DEF keys, r
  <2>1. LET list == RefreshAll(a, TRUE, keys)
        IN  /\ Only(list, RefreshOps) /\ Len(list) = Len(keys) + 1
            /\ \A i \in 1..Len(keys) : list[i] = RefreshReserve(a, keys[i])
            /\ list[Len(keys) + 1].op = "refresh_obligation"
    BY <1>2, RefreshAllFacts, ZenonT(30)
  <2>2. 1 \in 1..Len(keys)
    BY <1>2
  <2> QED BY <1>1, <2>1, <2>2 DEF Only
<1>4. IsSeq(cb) /\ Len(cb) = 2 /\ IsSeq(t) /\ B = cr \o t
  BY BudgetIsIdle, EnsureAtaIxsFacts DEF Only, FlashBefore
<1>5. ~RefreshReserve(a, keys[1]).oracles /\ RefreshReserve(a, keys[1]).op = "refresh_reserve"
  <2>1. ~Contains(<< >>, keys[1])
    BY DEF Contains
  <2> HIDE DEF keys
  <2> QED BY <2>1 DEF Plain, RefreshReserve
<1>6. LoanPlan(code, B, FlashBorrow(a), PostFlashRefreshIxs(a), Liquidate(a), swaps,
               FlashRepay(a, Len(B)))
  <2>1. Only(swaps, SwapOps)
    BY SwapsFacts
  <2>2. LET B1 == FlashBefore(a)
            f1 == FlashBorrow(a)
            M1 == PostFlashRefreshIxs(a)
            l1 == Liquidate(a)
            r1 == FlashRepay(a, Len(B1))
        IN  /\ LoanPlan(BuildFlashTx(a, swaps), B1, f1, M1, l1, swaps, r1)
            /\ LoanShaped(B1, f1, M1, l1, swaps, r1)
            /\ Len(B1) < 256
    BY <2>1, FlashShape, ZenonT(30)
  <2> QED BY <2>2
<1> HIDE DEF code, B, s, keys, r, t, cb
<1>7. IsSeq(cr) /\ Len(cr) = 2 + Len(keys) + 1 /\ cr[3] = r[1]
  <2>1. JoinedAs(cr, cb, r)
    BY <1>3, <1>4, JoinedLaid
  <2> HIDE DEF cr
  <2>2. IsSeq(cr) /\ Len(cr) = 2 + (Len(keys) + 1) /\ \A j \in 1..Len(keys) + 1 : cr[2 + j] = r[j]
    BY <1>3, <1>4, <2>1 DEF JoinedAs
  <2>3. 1 \in 1..Len(keys) + 1 /\ 2 + 1 = 3
    BY <1>2
  <2>4. cr[2 + 1] = r[1]
    BY <2>2, <2>3
  <2> QED BY <1>2, <2>2, <2>3, <2>4
<1>8. 3 \in 1..Len(B) /\ B[3] = r[1]
  <2>1. JoinedAs(B, cr, t)
    BY <1>4, <1>7, JoinedLaid
  <2> HIDE DEF cr
  <2>2. Len(B) = Len(cr) + Len(t) /\ Len(t) \in Nat /\ Len(cr) \in Nat
    BY <1>4, <1>7, <2>1, SeqFacts DEF JoinedAs
  <2>3. 3 \in 1..Len(cr)
    BY <1>2, <1>7
  <2>4. B[3] = cr[3]
    BY <2>1, <2>3 DEF JoinedAs
  <2> QED BY <1>7, <2>2, <2>3, <2>4
<1>9. Len(code) \in Nat /\ 3 \in 1..Len(code) /\ code[3] = B[3]
  BY <1>6, <1>8 DEF LoanPlan
<1>10. code[3].op = "refresh_reserve" /\ ~code[3].oracles
  BY <1>3, <1>5, <1>8, <1>9
<1>11. ~Run(code, c, A).liquidated
  BY <1>9, <1>10, BlindRefreshFails
<1> QED BY <1>11 DEF code

\* So does every Save list.
LEMMA PlaceholderSaveFails ==
    ASSUME NEW a, Plain(a), NEW swaps \in SwapLists, NEW c, NEW A
    PROVE  ~Run(BuildFlashAtomicPlan(a, swaps), c, A).liquidated
<1> DEFINE code == BuildFlashAtomicPlan(a, swaps)
           B == SaveBefore(a)
           x == RefreshReserve(a, a.repay)
<1>1. LoanPlan(code, B, FlashBorrow(a), << >>, Liquidate(a), swaps, FlashRepay(a, Len(B)))
  <2>1. Only(swaps, SwapOps)
    BY SwapsFacts
  <2>2. LET B1 == SaveBefore(a)
            f1 == FlashBorrow(a)
            l1 == Liquidate(a)
            r1 == FlashRepay(a, Len(B1))
        IN  /\ LoanPlan(BuildFlashAtomicPlan(a, swaps), B1, f1, << >>, l1, swaps, r1)
            /\ LoanShaped(B1, f1, << >>, l1, swaps, r1)
    BY <2>1, SaveShape, ZenonT(30)
  <2> QED BY <2>2
<1>2. Len(B) = 5 /\ B[3] = x
  BY SaveBeforeFacts
<1>3. x.op = "refresh_reserve" /\ ~x.oracles
  <2>1. ~Contains(<< >>, a.repay)
    BY DEF Contains
  <2> QED BY <2>1 DEF Plain, RefreshReserve
<1> HIDE DEF code, B, x
<1>4. Len(code) \in Nat /\ 3 \in 1..Len(code) /\ code[3] = x
  BY <1>1, <1>2 DEF LoanPlan
<1>5. ~Run(code, c, A).liquidated
  BY <1>3, <1>4, BlindRefreshFails
<1> QED BY <1>5 DEF code

\* A receivership has no liquidate instruction.
LEMMA ReceivershipNeverLiquidates ==
    ASSUME NEW a, NEW swaps \in SwapLists, NEW c, NEW A
    PROVE  ~Run(BuildReceivershipTx(a, swaps), c, A).liquidated
<1> DEFINE cb == ComputeBudget
           x == [op |-> "start_liquidation"]
           y == [op |-> "withdraw", bank |-> a.withdraw]
           u == [op |-> "repay", bank |-> a.repay]
           v == [op |-> "end_liquidation"]
           ops == {"compute_unit_limit", "compute_unit_price", "jupiter_swap",
                   "start_liquidation", "withdraw", "repay", "end_liquidation"}
           code == BuildReceivershipTx(a, swaps)
           t == TraceOf(code, c, A)
           L == Len(code)
<1>1. code = cb \o <<x, y>> \o swaps \o <<u, v>>
  BY DEF BuildReceivershipTx
<1>2. x.op \in ops /\ y.op \in ops /\ u.op \in ops /\ v.op \in ops
  OBVIOUS
<1>3. Only(cb, ops) /\ Only(swaps, ops)
  <2>1. Only(swaps, SwapOps) /\ SwapOps \subseteq ops
    BY SwapsFacts DEF SwapOps
  <2>2. Only(cb, ops)
    <3> DEFINE d == [op |-> "compute_unit_limit"]
               e == [op |-> "compute_unit_price"]
    <3>1. d.op \in ops /\ e.op \in ops /\ ComputeBudget = <<d, e>>
      BY DEF ComputeBudget
    <3> HIDE DEF d, e, ops
    <3> QED BY <3>1, OnlyTwo
  <2> HIDE DEF cb, ops
  <2> QED BY <2>1, <2>2, OnlyMore
<1>4. ops \cap CheckedOps = {}
  BY DEF CheckedOps
<1> HIDE DEF cb, x, y, u, v, ops, code
<1>5. Only(<<x, y>>, ops) /\ Only(<<u, v>>, ops)
  BY <1>2, OnlyTwo
<1>6. Only(cb \o <<x, y>>, ops)
  BY <1>3, <1>5, OnlyJoined
<1>7. Only(cb \o <<x, y>> \o swaps, ops)
  BY <1>3, <1>6, OnlyJoined
<1>8. Only(code, ops)
  BY <1>1, <1>5, <1>7, OnlyJoined
<1>9. L \in Nat
  BY <1>8, SeqFacts DEF Only
<1>10. /\ IsTrace(t, code, c) /\ t[0] = Running({}, No, A, 0, -1, No)
       /\ \A F, o, B, i, l, q : t[L] = Running(F, o, B, i, l, q)
                                   => (Run(code, c, A).liquidated <=> q /\ l = -1)
  <2>1. LET w == TraceOf(code, c, A) IN
           /\ IsTrace(w, code, c) /\ w[0] = Running({}, No, A, 0, -1, No)
           /\ w[Len(code)].errors # {} => ~Run(code, c, A).liquidated
           /\ \A F, o, B, i, l, q :
                 w[Len(code)] = Running(F, o, B, i, l, q)
                    => (Run(code, c, A).liquidated <=> q /\ l = -1)
    BY <1>9, RunOutcome, ZenonT(30)
  <2> QED BY <2>1
<1> HIDE DEF t
<1>11. t[L] = Running({}, No, A, L, -1, No)
  <2>1. ASSUME NEW j \in 1..L PROVE code[0 + j].op \notin CheckedOps
    <3>1. 0 + j = j
      BY <1>9
    <3> QED BY <1>4, <1>8, <3>1 DEF Only
  <2>2. Lies(code, 0, L) /\ 0 + L = L
    BY <1>9 DEF Lies
  <2> HIDE DEF L
  <2>3. t[0 + L] = Running({}, No, A, 0 + L, -1, No)
    BY <1>10, <2>1, <2>2, IdleRun
  <2> QED BY <2>2, <2>3
<1>12. Run(code, c, A).liquidated <=> No /\ -1 = -1
  BY <1>10, <1>11
<1> QED BY <1>12 DEF No, code

-----------------------------------------------------------------------------
(* What the shadow builds over and simulates                               *)

Fields == {"live", "repay", "withdraw", "source", "collateral", "destination", "deposits",
           "borrows", "metas", "referrers"}

LEMMA LiveRead ==
    ASSUME NEW p, NEW read, NEW r \in ToSet(p.borrows) \cap read,
           NEW w \in ToSet(p.deposits) \cap read
    PROVE  LET a == [FromKaminoLive(p, r, w)
                        EXCEPT !.metas = KeptOnce(p.deposits \o p.borrows, read)]
           IN  LiveOf(a, p, read) /\ Fields \subseteq DOMAIN a
<1> DEFINE m == KeptOnce(p.deposits \o p.borrows, read)
           a == [FromKaminoLive(p, r, w) EXCEPT !.metas = m]
           s == LiquidityAta(r, TRUE)
           c == CollateralAta(w, TRUE)
           d == LiquidityAta(w, TRUE)
           f == ReferrerStates(p)
<1>1. m = KeptOnce(p.deposits \o p.borrows, read)
  OBVIOUS
<1> HIDE DEF m
<1>2. /\ a.live /\ a.repay = r /\ a.withdraw = w /\ a.deposits = p.deposits
      /\ a.borrows = p.borrows /\ a.metas = m /\ Fields \subseteq DOMAIN a
      /\ a.source = s /\ a.collateral = c /\ a.destination = d /\ a.referrers = f
  <2> HIDE DEF s, c, d, f
  <2>1. FromKaminoLive(p, r, w) =
            [live |-> TRUE, repay |-> r, withdraw |-> w, source |-> s, collateral |-> c,
             destination |-> d, deposits |-> p.deposits, borrows |-> p.borrows,
             metas |-> Dedup(<<w, r>>), referrers |-> f, missing |-> NoFilter]
    BY DEF FromKaminoLive, s, c, d, f
  <2> QED BY <2>1 DEF Fields
<1> HIDE DEF a
<1>3. LiveOf(a, p, read)
  BY <1>1, <1>2 DEF LiveOf
<1> QED BY <1>2, <1>3 DEF a, m

LEMMA LiveFiltered ==
    ASSUME NEW a, NEW p, NEW read, LiveOf(a, p, read), Fields \subseteq DOMAIN a, NEW m
    PROVE  LiveOf([a EXCEPT !.missing = m], p, read)
<1> DEFINE b == [a EXCEPT !.missing = m]
<1>1. /\ b.live = a.live /\ b.repay = a.repay /\ b.withdraw = a.withdraw
      /\ b.source = a.source /\ b.collateral = a.collateral /\ b.destination = a.destination
      /\ b.deposits = a.deposits /\ b.borrows = a.borrows /\ b.referrers = a.referrers
      /\ b.metas = a.metas
  BY DEF Fields
<1> HIDE DEF b
<1>2. LiveOf(b, p, read)
  BY <1>1 DEF LiveOf
<1> QED BY <1>2 DEF b

\* What is read becomes the accounts of the plan, or placeholders do.
Seeded == \E r, w : accounts = FromSeed(r, w)
ReadLive == protocol = "Kamino" /\ positions \in Chains /\ LiveOf(accounts, positions, vaults)

PickedInv ==
    pc = "reserves" => /\ protocol = "Kamino" /\ positions \in Chains
                       /\ picked[1] \in ToSet(positions.borrows)
                       /\ picked[2] \in ToSet(positions.deposits)
OverInv ==
    /\ pc = "atas" => ReadLive /\ Fields \subseteq DOMAIN accounts
    /\ pc \in {"build", "simulate", "done"} => Seeded \/ ReadLive
BuiltInv ==
    pc \in {"simulate", "done"} =>
        \E swaps \in SwapLists :
            ixs = BuildStrategyIxs(protocol, FlashStrategy, accounts, swaps)
SimInv == sim = NotRun \/ (pc = "done" /\ sim = Run(ixs, chain, atas))

ShadowInv == bin = "shadow" => PickedInv /\ OverInv /\ BuiltInv /\ SimInv

LEMMA ShadowInit == Init => ShadowInv
BY DEF Init, ShadowInv, PickedInv, OverInv, BuiltInv, SimInv

LEMMA ShadowNext == PlanInv /\ ShadowInv /\ [Next]_vars => ShadowInv'
<1> SUFFICES ASSUME PlanInv, ShadowInv, [Next]_vars, bin' = "shadow"
             PROVE  (PickedInv /\ OverInv /\ BuiltInv /\ SimInv)'
  BY DEF ShadowInv
<1>1. RolesInv
  BY DEF PlanInv
<1>2. bin = "shadow"
  BY DEF Next, PlanHit, ReadObligation, ReadReserves, PrefetchAtas, Build, Simulate, Change,
         vars, inputVars
<1>3. PickedInv /\ OverInv /\ BuiltInv /\ SimInv
  BY <1>2 DEF ShadowInv
<1>4. CASE PlanHit
  BY <1>1, <1>2, <1>4 DEF PlanHit, RolesInv
<1>5. CASE ReadObligation
  <2>1. pc = "obligation" /\ protocol' = protocol /\ sim' = sim
    BY <1>5 DEF ReadObligation, inputVars
  <2>2. \/ pc' = "build" /\ accounts' = FromSeed(SeedRepay, SeedWithdraw)
        \/ /\ pc' = "reserves" /\ protocol = "Kamino" /\ positions' = chain
           /\ \E repay \in ToSet(chain.borrows), withdraw \in ToSet(chain.deposits) :
                  picked' = <<repay, withdraw>>
    BY <1>5 DEF ReadObligation, FallBack
  <2>3. chain \in Chains
    BY <1>1, <1>2 DEF RolesInv
  <2>4. sim' = NotRun
    BY <1>3, <2>1 DEF SimInv
  <2>5. CASE pc' = "build" /\ accounts' = FromSeed(SeedRepay, SeedWithdraw)
    BY <2>4, <2>5 DEF PickedInv, OverInv, Seeded, BuiltInv, SimInv
  <2>6. CASE /\ pc' = "reserves" /\ protocol = "Kamino" /\ positions' = chain
             /\ \E repay \in ToSet(chain.borrows), withdraw \in ToSet(chain.deposits) :
                    picked' = <<repay, withdraw>>
    BY <2>1, <2>3, <2>4, <2>6 DEF PickedInv, OverInv, BuiltInv, SimInv
  <2> QED BY <2>2, <2>5, <2>6
<1>6. CASE ReadReserves
  <2>1. pc = "reserves" /\ protocol' = protocol /\ sim' = sim /\ positions' = positions
    BY <1>6 DEF ReadReserves, inputVars
  <2>2. \/ pc' = "build" /\ accounts' = FromSeed(picked[1], picked[2])
        \/ /\ pc' = "atas"
           /\ \E read : /\ vaults' = read /\ {picked[1], picked[2]} \subseteq read
                        /\ accounts' = [FromKaminoLive(positions, picked[1], picked[2])
                               EXCEPT !.metas = KeptOnce(positions.deposits \o positions.borrows,
                                                         read)]
    BY <1>6 DEF ReadReserves, FallBack, OverlayMetas
  <2>3. /\ protocol = "Kamino" /\ positions \in Chains
        /\ picked[1] \in ToSet(positions.borrows) /\ picked[2] \in ToSet(positions.deposits)
    BY <1>3, <2>1 DEF PickedInv
  <2>4. sim' = NotRun
    BY <1>3, <2>1 DEF SimInv
  <2>5. CASE pc' = "build" /\ accounts' = FromSeed(picked[1], picked[2])
    BY <2>4, <2>5 DEF PickedInv, OverInv, Seeded, BuiltInv, SimInv
  <2>6. CASE /\ pc' = "atas"
             /\ \E read : /\ vaults' = read /\ {picked[1], picked[2]} \subseteq read
                          /\ accounts' = [FromKaminoLive(positions, picked[1], picked[2])
                                 EXCEPT !.metas = KeptOnce(positions.deposits \o positions.borrows,
                                                           read)]
    <3> DEFINE r == picked[1]
               w == picked[2]
               read == vaults'
               x == [FromKaminoLive(positions, r, w)
                        EXCEPT !.metas = KeptOnce(positions.deposits \o positions.borrows, read)]
    <3>1. r \in ToSet(positions.borrows) \cap read /\ w \in ToSet(positions.deposits) \cap read
          /\ accounts' = x
      BY <2>3, <2>6
    <3>2. LiveOf(x, positions, read) /\ Fields \subseteq DOMAIN x
      <4> HIDE DEF r, w, read
      <4> QED BY <3>1, LiveRead
    <3> HIDE DEF r, w, x
    <3>3. ReadLive' /\ Fields \subseteq DOMAIN accounts'
      BY <2>1, <2>3, <3>1, <3>2 DEF ReadLive
    <3> QED BY <2>4, <2>6, <3>3 DEF PickedInv, OverInv, BuiltInv, SimInv
  <2> QED BY <2>2, <2>5, <2>6
<1>7. CASE PrefetchAtas
  <2>1. /\ pc = "atas" /\ pc' = "build" /\ protocol' = protocol /\ sim' = sim
        /\ positions' = positions /\ vaults' = vaults
        /\ accounts' = accounts \/ \E m : accounts' = [accounts EXCEPT !.missing = m]
    BY <1>7 DEF PrefetchAtas, inputVars
  <2>2. ReadLive /\ Fields \subseteq DOMAIN accounts
    BY <1>3, <2>1 DEF OverInv
  <2>3. LiveOf(accounts', positions, vaults)
    <3>1. LiveOf(accounts, positions, vaults)
      BY <2>2 DEF ReadLive
    <3> QED BY <2>1, <2>2, <3>1, LiveFiltered
  <2>4. ReadLive'
    BY <2>1, <2>2, <2>3 DEF ReadLive
  <2>5. sim' = NotRun
    BY <1>3, <2>1 DEF SimInv
  <2> QED BY <2>1, <2>4, <2>5 DEF PickedInv, OverInv, BuiltInv, SimInv
<1>8. CASE Build
  <2>1. /\ pc = "build" /\ pc' = "simulate" /\ protocol' = protocol /\ sim' = sim
        /\ accounts' = accounts /\ positions' = positions /\ vaults' = vaults
        /\ \E swaps \in SwapLists :
              ixs' = BuildStrategyIxs(protocol, FlashStrategy, accounts, swaps)
    BY <1>8 DEF Build, inputVars, readVars
  <2>2. (Seeded \/ ReadLive)'
    BY <1>3, <2>1 DEF OverInv, Seeded, ReadLive
  <2>3. FlashStrategy' = FlashStrategy
    BY <2>1 DEF FlashStrategy
  <2>4. BuiltInv'
    BY <2>1, <2>3 DEF BuiltInv
  <2>5. sim' = NotRun
    BY <1>3, <2>1 DEF SimInv
  <2> QED BY <2>1, <2>2, <2>4, <2>5 DEF PickedInv, OverInv, SimInv
<1>9. CASE Simulate
  <2>1. /\ pc = "simulate" /\ pc' = "done" /\ protocol' = protocol /\ ixs' = ixs
        /\ accounts' = accounts /\ positions' = positions /\ vaults' = vaults
        /\ chain' = chain /\ atas' = atas /\ (sim' = Run(ixs, chain, atas) \/ sim' = sim)
    BY <1>9 DEF Simulate, inputVars, readVars, envVars
  <2>2. (Seeded \/ ReadLive)'
    BY <1>3, <2>1 DEF OverInv, Seeded, ReadLive
  <2>3. FlashStrategy' = FlashStrategy
    BY <2>1 DEF FlashStrategy
  <2>4. BuiltInv'
    BY <1>3, <2>1, <2>3 DEF BuiltInv
  <2>5. sim' = NotRun \/ sim' = Run(ixs, chain, atas)
    BY <1>3, <2>1 DEF SimInv
  <2>6. SimInv'
    BY <2>1, <2>5 DEF SimInv
  <2> QED BY <2>1, <2>2, <2>4, <2>6 DEF PickedInv, OverInv
<1>10. CASE Change
  <2>1. /\ pc \in {"reserves", "atas", "build", "simulate"} /\ pc' = pc /\ protocol' = protocol
        /\ accounts' = accounts /\ positions' = positions /\ vaults' = vaults
        /\ picked' = picked /\ ixs' = ixs /\ sim' = sim
    BY <1>10 DEF Change, inputVars, readVars
  <2>2. FlashStrategy' = FlashStrategy /\ Seeded' = Seeded /\ ReadLive' = ReadLive
    BY <2>1 DEF FlashStrategy, Seeded, ReadLive
  <2>3. PickedInv' /\ OverInv'
    BY <1>3, <2>1, <2>2 DEF PickedInv, OverInv
  <2>4. BuiltInv'
    BY <1>3, <2>1, <2>2 DEF BuiltInv
  <2>5. SimInv'
    BY <1>3, <2>1 DEF SimInv
  <2> QED BY <2>3, <2>4, <2>5
<1>11. CASE UNCHANGED vars
  <2>1. /\ pc' = pc /\ protocol' = protocol /\ chain' = chain /\ atas' = atas
        /\ accounts' = accounts /\ positions' = positions /\ vaults' = vaults
        /\ picked' = picked /\ ixs' = ixs /\ sim' = sim
    BY <1>11 DEF vars, inputVars, readVars, envVars
  <2>2. FlashStrategy' = FlashStrategy /\ Seeded' = Seeded /\ ReadLive' = ReadLive
    BY <2>1 DEF FlashStrategy, Seeded, ReadLive
  <2>3. PickedInv' /\ OverInv'
    BY <1>3, <2>1, <2>2 DEF PickedInv, OverInv
  <2>4. BuiltInv'
    BY <1>3, <2>1, <2>2 DEF BuiltInv
  <2>5. SimInv'
    BY <1>3, <2>1 DEF SimInv
  <2> QED BY <2>3, <2>4, <2>5
<1> QED BY <1>4, <1>5, <1>6, <1>7, <1>8, <1>9, <1>10, <1>11 DEF Next

\* Over live accounts Kamino's list liquidates if and only if the reads were good;
\* over placeholders no list does.
LEMMA ReadsDecide == PlanInv /\ ShadowInv => LiquidatesIffGoodReads
<1> SUFFICES ASSUME PlanInv, ShadowInv, bin = "shadow", sim # NotRun
             PROVE  sim.liquidated <=> GoodReads
  BY DEF LiquidatesIffGoodReads
<1>1. chain \in Chains /\ protocol \in Protocols
  BY DEF PlanInv, RolesInv
<1>2. pc = "done" /\ sim = Run(ixs, chain, atas) /\ (Seeded \/ ReadLive)
  BY DEF ShadowInv, SimInv, OverInv
<1>3. PICK swaps \in SwapLists :
           ixs = BuildStrategyIxs(protocol, FlashStrategy, accounts, swaps)
  BY <1>2 DEF ShadowInv, BuiltInv
<1>4. CASE ReadLive
  <2>1. ixs = BuildFlashTx(accounts, swaps)
    BY <1>3, <1>4 DEF ReadLive, BuildStrategyIxs, FlashStrategy
  <2>2. positions \in Chains /\ LiveOf(accounts, positions, vaults)
    BY <1>4 DEF ReadLive
  <2>3. Run(ixs, chain, atas).liquidated <=> Good(accounts, positions, vaults, chain, atas)
    BY <1>1, <2>1, <2>2, FlashOutcome
  <2>4. accounts.live
    BY <2>2 DEF LiveOf
  <2>5. GoodReads <=> Good(accounts, positions, vaults, chain, atas)
    BY <2>4 DEF GoodReads, Good
  <2> QED BY <1>2, <2>3, <2>5
<1>5. CASE Seeded
  <2>1. AccountsOk(accounts) /\ Plain(accounts)
    BY <1>5, SeedFacts DEF Seeded
  <2>2. ~GoodReads
    BY <2>1 DEF Plain, GoodReads
  <2>3. ~Run(ixs, chain, atas).liquidated
    <3>1. CASE protocol = "Kamino"
      <4>1. ixs = BuildFlashTx(accounts, swaps)
        BY <1>3, <3>1 DEF BuildStrategyIxs, FlashStrategy
      <4> QED BY <2>1, <4>1, PlaceholderFlashFails
    <3>2. CASE protocol = "Save"
      <4>1. ixs = BuildFlashAtomicPlan(accounts, swaps)
        BY <1>3, <3>2 DEF BuildStrategyIxs, FlashStrategy
      <4> QED BY <2>1, <4>1, PlaceholderSaveFails
    <3>3. CASE protocol = "Project0"
      <4>1. ixs = BuildReceivershipTx(accounts, swaps)
        BY <1>3, <3>3 DEF BuildStrategyIxs, FlashStrategy
      <4> QED BY <4>1, ReceivershipNeverLiquidates
    <3> QED BY <1>1, <3>1, <3>2, <3>3 DEF Protocols
  <2> QED BY <1>2, <2>2, <2>3
<1> QED BY <1>2, <1>4, <1>5

\* The transaction the shadow simulates liquidates if and only if what it read is
\* complete and still holds: for obligations of any size and order the chain allows,
\* whichever requests fail and however often the chain changes in between
\* (build_plan_accounts_for_candidate, build_flash_tx).
THEOREM GoodReadsDecide == Spec => []LiquidatesIffGoodReads
<1>1. ShadowInv /\ PlanInv /\ [Next]_vars => ShadowInv'
  BY ShadowNext
<1> QED BY <1>1, ShadowInit, PlanInvariant, ReadsDecide, PTL DEF Spec
=============================================================================
