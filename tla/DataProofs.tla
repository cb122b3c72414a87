----------------------------- MODULE DataProofs -----------------------------
(***************************************************************************)
(* Facts about the data of several modules: sequences and what is selected *)
(* from them (Lists), and sums over finite sets, with which the limits on  *)
(* notional are stated (the library's SumFunction operators, which fold in *)
(* an order left open by CHOOSE; the order does not matter), and division  *)
(* that truncates.                                                         *)
(*                                                                         *)
(* Induction is over a set of numbers (NatInSet) instead of a predicate.   *)
(***************************************************************************)
EXTENDS Lists, FiniteSetTheorems, SequenceTheorems, WellFoundedInduction, TLAPS

(* Sequences                                                               *)

IsSeq(s) == s \in Seq({s[i] : i \in DOMAIN s})

\* A function on 1..n is a sequence of length n.
LEMMA FunctionIsSeq ==
    ASSUME NEW n \in Nat, NEW s, s = [i \in 1..n |-> s[i]]
    PROVE  IsSeq(s) /\ Len(s) = n /\ DOMAIN s = 1..n
<1> DEFINE R == {s[i] : i \in DOMAIN s}
<1>1. DOMAIN s = 1..n /\ \A i \in 1..n : s[i] \in R
  OBVIOUS
<1> HIDE DEF R
<1>2. s \in [1..n -> R]
  BY <1>1
<1>3. s \in Seq(R)
  BY <1>2
<1>4. Len(s) = n
  BY <1>1, <1>3, LenProperties
<1> QED BY <1>1, <1>3, <1>4 DEF R, IsSeq

\* A sequence of some set is one of its own elements.
LEMMA SeqFacts ==
    ASSUME NEW s, IsSeq(s)
    PROVE  Len(s) \in Nat /\ DOMAIN s = 1..Len(s)
BY LenProperties DEF IsSeq

LEMMA TypedIsSeq ==
    ASSUME NEW S, NEW s \in Seq(S)
    PROVE  IsSeq(s)
<1>1. Len(s) \in Nat /\ DOMAIN s = 1..Len(s) /\ s = [i \in 1..Len(s) |-> s[i]]
  BY LenProperties
<1> QED BY <1>1, FunctionIsSeq

\* Where the elements of a concatenation come from.
LEMMA Joined ==
    ASSUME NEW s, NEW t, IsSeq(s), IsSeq(t)
    PROVE  /\ IsSeq(s \o t) /\ Len(s \o t) = Len(s) + Len(t)
           /\ Len(s) \in Nat /\ Len(t) \in Nat
           /\ \A i \in 1..Len(s) : (s \o t)[i] = s[i]
           /\ \A i \in 1..Len(t) : (s \o t)[Len(s) + i] = t[i]
<1> DEFINE S == {s[i] : i \in DOMAIN s} \cup {t[i] : i \in DOMAIN t}
<1>1. s \in Seq(S) /\ t \in Seq(S)
  BY SeqMonotonic DEF IsSeq
<1> HIDE DEF S
<1>2. /\ s \o t \in Seq(S) /\ Len(s \o t) = Len(s) + Len(t)
      /\ \A i \in 1 .. Len(s) + Len(t) :
            (s \o t)[i] = IF i <= Len(s) THEN s[i] ELSE t[i - Len(s)]
  BY <1>1, ConcatProperties
<1>3. IsSeq(s \o t) /\ Len(s) \in Nat /\ Len(t) \in Nat
  BY <1>1, <1>2, TypedIsSeq, LenProperties
<1>4. \A i \in 1..Len(s) : (s \o t)[i] = s[i]
  BY <1>2, <1>3
<1>5. ASSUME NEW i \in 1..Len(t) PROVE (s \o t)[Len(s) + i] = t[i]
  <2>1. Len(s) + i \in 1 .. Len(s) + Len(t) /\ ~(Len(s) + i <= Len(s)) /\ Len(s) + i - Len(s) = i
    BY <1>3
  <2> QED BY <1>2, <2>1
<1> QED BY <1>2, <1>3, <1>4, <1>5

\* One element, and none.
LEMMA OneOrNone ==
    ASSUME NEW x
    PROVE  IsSeq(<<x>>) /\ Len(<<x>>) = 1 /\ <<x>>[1] = x
           /\ IsSeq(<< >>) /\ Len(<< >>) = 0
<1>1. <<x>> \in Seq({x}) /\ << >> \in Seq({x})
  OBVIOUS
<1> QED BY <1>1, TypedIsSeq

LEMMA TwoIsSeq ==
    ASSUME NEW x, NEW y
    PROVE  IsSeq(<<x, y>>) /\ Len(<<x, y>>) = 2
<1>1. <<x, y>> \in Seq({x, y}) /\ Len(<<x, y>>) = 2
  OBVIOUS
<1> QED BY <1>1, TypedIsSeq

-----------------------------------------------------------------------------
(* Lists without repetition                                                *)

\* The first place of every element that is kept.
Kept(s, keep) == {i \in DOMAIN s : s[i] \in keep /\ \A j \in 1..i - 1 : s[j] # s[i]}

\* Different places have different ranks, so the place of a rank is found again.
LEMMA RankIsUnique ==
    ASSUME NEW n \in Nat, NEW I \in SUBSET (1..n), NEW i \in I, NEW k \in I,
           Cardinality({j \in I : j <= i}) = Cardinality({j \in I : j <= k})
    PROVE  i = k
<1> SUFFICES ASSUME NEW x \in I, NEW y \in I, x < y,
                    Cardinality({j \in I : j <= x}) = Cardinality({j \in I : j <= y})
             PROVE  FALSE
  <2>1. i \in Int /\ k \in Int
    OBVIOUS
  <2>2. i < k \/ k < i \/ i = k
    BY <2>1
  <2> QED BY <2>2
<1> DEFINE A == {j \in I : j <= x}
           B == {j \in I : j <= y}
<1>1. IsFiniteSet(1..n)
  BY FS_Interval
<1>2. A \subseteq B /\ B \subseteq 1..n /\ y \in B /\ y \notin A
  <2>1. x \in Int /\ y \in Int /\ \A j \in I : j \in Int
    OBVIOUS
  <2>2. \A j \in I : j <= x => j <= y
    BY <2>1
  <2>3. y <= y /\ ~(y <= x)
    BY <2>1
  <2> QED BY <2>2, <2>3
<1>3. Cardinality(A) = Cardinality(B)
  OBVIOUS
<1> HIDE DEF A, B
<1>4. IsFiniteSet(B)
  BY <1>1, <1>2, FS_Subset
<1>5. A = B
  BY <1>2, <1>3, <1>4, FS_Subset
<1> QED BY <1>2, <1>5

LEMMA PickedFromFacts ==
    ASSUME NEW n \in Nat, NEW s, NEW I \in SUBSET (1..n)
    PROVE  /\ IsSeq(PickedFrom(s, I)) /\ Len(PickedFrom(s, I)) <= n
           /\ \A i \in I : \E k \in 1..Len(PickedFrom(s, I)) : PickedFrom(s, I)[k] = s[i]
<1> DEFINE c == Cardinality(I)
           p == PickedFrom(s, I)
           Rank(i) == Cardinality({j \in I : j <= i})
<1>1. IsFiniteSet(I) /\ c \in Nat /\ c <= n
  <2>1. IsFiniteSet(1..n) /\ Cardinality(1..n) = n
    BY FS_Interval
  <2>2. IsFiniteSet(I) /\ c <= n
    BY <2>1, FS_Subset
  <2> QED BY <2>2, FS_CardinalityType
<1>2. p = [k \in 1..c |-> s[CHOOSE i \in I : Rank(i) = k]]
  BY DEF PickedFrom
<1>3. IsSeq(p) /\ Len(p) = c
  <2>1. p = [k \in 1..c |-> p[k]]
    BY <1>2
  <2> HIDE DEF p, c
  <2> QED BY <1>1, <2>1, FunctionIsSeq
<1>4. ASSUME NEW i \in I PROVE Rank(i) \in 1..c
  <2> DEFINE A == {j \in I : j <= i}
  <2>1. A \subseteq I /\ i \in A
    OBVIOUS
  <2> HIDE DEF A
  <2>2. IsFiniteSet(A) /\ Cardinality(A) <= c /\ Cardinality(A) \in Nat
    BY <1>1, <2>1, FS_Subset, FS_CardinalityType
  <2>3. Cardinality(A) # 0
    BY <2>1, <2>2, FS_EmptySet
  <2>4. Cardinality(A) \in 1..c
    <3> HIDE DEF c
    <3> QED BY <1>1, <2>2, <2>3
  <2> QED BY <2>4 DEF A
<1>5. ASSUME NEW i \in I PROVE p[Rank(i)] = s[i]
  <2>1. (CHOOSE k \in I : Rank(k) = Rank(i)) = i
    BY RankIsUnique
  <2> HIDE DEF Rank, c, p
  <2>2. p[Rank(i)] = s[CHOOSE k \in I : Rank(k) = Rank(i)]
    BY <1>2, <1>4
  <2> QED BY <2>1, <2>2
<1> HIDE DEF Rank, c, p
<1> QED BY <1>1, <1>3, <1>4, <1>5 DEF p

\* A set of numbers that is not empty has a least one.
LEMMA LeastExists ==
    ASSUME NEW S \in SUBSET Nat, S # {}
    PROVE  \E m \in S : \A k \in S : m <= k
<1> DEFINE R == OpToRel(<, Nat)
<1>1. \A m, k \in Nat : <<k, m>> \in R <=> k < m
  BY DEF OpToRel
<1>2. IsWellFoundedOn(R, Nat)
  BY NatLessThanWellFounded
<1> HIDE DEF R
<1>3. PICK m \in S : \A k \in S : ~(<<k, m>> \in R)
  BY <1>2, WFMin
<1>4. ASSUME NEW k \in S PROVE m <= k
  <2>1. m \in Nat /\ k \in Nat /\ ~(k < m)
    BY <1>1, <1>3
  <2> QED BY <2>1
<1> QED BY <1>3, <1>4

\* What is kept of a sequence is a sequence, and nothing to be kept is lost.
LEMMA KeptOnceFacts ==
    ASSUME NEW s, IsSeq(s), NEW keep
    PROVE  /\ IsSeq(KeptOnce(s, keep)) /\ Len(KeptOnce(s, keep)) <= Len(s)
           /\ \A i \in 1..Len(s) : s[i] \in keep =>
                 \E k \in 1..Len(KeptOnce(s, keep)) : KeptOnce(s, keep)[k] = s[i]
<1> DEFINE n == Len(s)
           I == Kept(s, keep)
<1>1. n \in Nat /\ DOMAIN s = 1..n
  BY SeqFacts
<1>2. I \subseteq 1..n
  BY <1>1 DEF Kept
<1>3. KeptOnce(s, keep) = PickedFrom(s, I)
  BY DEF KeptOnce, Kept
<1>4. ASSUME NEW i \in 1..n, s[i] \in keep PROVE \E j \in I : s[j] = s[i]
  <2> DEFINE S == {j \in 1..n : s[j] = s[i]}
  <2>1. PICK j \in S : \A k \in S : j <= k
    <3>1. i \in S /\ S \subseteq Nat
      BY <1>1
    <3> HIDE DEF S, n
    <3> QED BY <3>1, LeastExists
  <2>2. \A k \in 1..j - 1 : s[k] # s[j]
    BY <1>1, <2>1
  <2> QED BY <1>1, <1>4, <2>1, <2>2 DEF Kept
<1> HIDE DEF I
<1>5. /\ IsSeq(PickedFrom(s, I)) /\ Len(PickedFrom(s, I)) <= Len(s)
      /\ \A i \in I : \E k \in 1..Len(PickedFrom(s, I)) : PickedFrom(s, I)[k] = s[i]
  BY <1>1, <1>2, PickedFromFacts
<1>6. ASSUME NEW i \in 1..Len(s), s[i] \in keep
      PROVE  \E k \in 1..Len(PickedFrom(s, I)) : PickedFrom(s, I)[k] = s[i]
  BY <1>4, <1>5, <1>6
<1> QED BY <1>3, <1>5, <1>6

\* As much is picked as there are places.
LEMMA PickedFromLength ==
    ASSUME NEW n \in Nat, NEW s, NEW I \in SUBSET (1..n)
    PROVE  IsFiniteSet(I) /\ Cardinality(I) \in Nat /\ Len(PickedFrom(s, I)) = Cardinality(I)
<1> DEFINE c == Cardinality(I)
           p == PickedFrom(s, I)
<1>1. IsFiniteSet(I) /\ c \in Nat
  <2>1. IsFiniteSet(1..n)
    BY FS_Interval
  <2>2. IsFiniteSet(I)
    BY <2>1, FS_Subset
  <2> QED BY <2>2, FS_CardinalityType
<1>2. p = [k \in 1..c |-> p[k]]
  BY DEF PickedFrom
<1> HIDE DEF p, c
<1>3. Len(p) = c
  BY <1>1, <1>2, FunctionIsSeq
<1> QED BY <1>1, <1>3 DEF p, c

\* How many places of I there are up to i.
RankIn(I, i) == Cardinality({j \in I : j <= i})

\* What is picked k-th is of a place that has k - 1 others before it.
PickedByRank(s, I) ==
    \A k \in 1..Len(PickedFrom(s, I)) :
        \E i \in I : PickedFrom(s, I)[k] = s[i] /\ RankIn(I, i) = k

LEMMA PickedFromRank ==
    ASSUME NEW n \in Nat, NEW s, NEW I \in SUBSET (1..n)
    PROVE  PickedByRank(s, I)
<1> SUFFICES ASSUME NEW k \in 1..Len(PickedFrom(s, I))
             PROVE  \E i \in I : PickedFrom(s, I)[k] = s[i] /\ RankIn(I, i) = k
  BY DEF PickedByRank
<1> DEFINE c == Cardinality(I)
           p == PickedFrom(s, I)
           Rank(i) == Cardinality({j \in I : j <= i})
           r == [i \in I |-> Rank(i)]
<1>1. IsFiniteSet(I) /\ c \in Nat
  BY PickedFromLength
<1>2. p = [m \in 1..c |-> s[CHOOSE i \in I : Rank(i) = m]]
  BY DEF PickedFrom
<1>3. Len(p) = c
  BY PickedFromLength
<1>4. ASSUME NEW i \in I PROVE Rank(i) \in 1..c
  <2> DEFINE A == {j \in I : j <= i}
  <2>1. A \subseteq I /\ i \in A
    OBVIOUS
  <2> HIDE DEF A
  <2>2. IsFiniteSet(A) /\ Cardinality(A) <= c /\ Cardinality(A) \in Nat
    BY <1>1, <2>1, FS_Subset, FS_CardinalityType
  <2>3. Cardinality(A) # 0
    BY <2>1, <2>2, FS_EmptySet
  <2>4. Cardinality(A) \in 1..c
    <3> HIDE DEF c
    <3> QED BY <1>1, <2>2, <2>3
  <2> QED BY <2>4 DEF A
<1>5. r \in Injection(I, 1..c)
  <2>1. \A i, m \in I : Rank(i) = Rank(m) => i = m
    BY RankIsUnique
  <2> HIDE DEF Rank, c
  <2> QED BY <1>4, <2>1 DEF Injection, IsInjective
<1>6. r \in Surjection(I, 1..c)
  <2>1. IsFiniteSet(1..c) /\ Cardinality(1..c) = c
    <3> HIDE DEF c
    <3>1. IsFiniteSet(1..c) /\ Cardinality(1..c) = IF 1 > c THEN 0 ELSE c - 1 + 1
      BY <1>1, FS_Interval
    <3> QED BY <1>1, <3>1
  <2> HIDE DEF r
  <2> QED BY <1>5, <2>1, FS_Injection
<1>7. k \in 1..c
  BY <1>3
<1>8. PICK i \in I : Rank(i) = k
  <2> HIDE DEF Rank, c
  <2> QED BY <1>6, <1>7 DEF Surjection
<1> DEFINE x == CHOOSE j \in I : Rank(j) = k
<1>9. x \in I /\ Rank(x) = k
  <2> HIDE DEF Rank
  <2> QED BY <1>8
<1>10. p[k] = s[x]
  BY <1>2, <1>7
<1> QED BY <1>9, <1>10 DEF RankIn

Increasing(s) == \A k, l \in 1..Len(s) : k < l => s[k] < s[l]

\* The places of a selection come in their order.
LEMMA PickedFromOrder ==
    ASSUME NEW n \in Nat, NEW s, NEW I \in SUBSET (1..n), \A i \in I : s[i] = i
    PROVE  Increasing(PickedFrom(s, I))
<1> SUFFICES ASSUME NEW k \in 1..Len(PickedFrom(s, I)), NEW l \in 1..Len(PickedFrom(s, I)), k < l
             PROVE  PickedFrom(s, I)[k] < PickedFrom(s, I)[l]
  BY DEF Increasing
<1>0. PickedByRank(s, I)
  BY PickedFromRank
<1>1. PICK i \in I : PickedFrom(s, I)[k] = s[i] /\ RankIn(I, i) = k
  BY <1>0 DEF PickedByRank
<1>2. PICK m \in I : PickedFrom(s, I)[l] = s[m] /\ RankIn(I, m) = l
  BY <1>0 DEF PickedByRank
<1> DEFINE A == {j \in I : j <= i}
           B == {j \in I : j <= m}
<1>3. i \in Nat /\ m \in Nat /\ \A j \in I : j \in Nat
  OBVIOUS
<1>4. ASSUME m <= i PROVE FALSE
  <2>1. B \subseteq A
    <3>1. \A j \in I : j <= m => j <= i
      BY <1>3, <1>4
    <3> QED BY <3>1
  <2>2. IsFiniteSet(I) /\ A \subseteq I
    BY PickedFromLength
  <2> HIDE DEF A, B
  <2>3. IsFiniteSet(A)
    BY <2>2, FS_Subset
  <2>4. Cardinality(B) <= Cardinality(A)
    BY <2>1, <2>3, FS_Subset
  <2>5. l <= k
    BY <1>1, <1>2, <2>4 DEF RankIn, A, B
  <2>6. k \in Nat /\ l \in Nat
    <3>1. Len(PickedFrom(s, I)) \in Nat
      BY PickedFromLength
    <3> QED BY <3>1
  <2> QED BY <2>5, <2>6
<1> QED BY <1>1, <1>2, <1>3, <1>4

-----------------------------------------------------------------------------
(* Sequences that list a set                                               *)

\* s holds each element of S once, and no others.
Listing(s, S) ==
    /\ IsSeq(s)
    /\ \A i \in 1..Len(s) : s[i] \in S
    /\ \A x \in S : \E i \in 1..Len(s) : s[i] = x
    /\ \A i, j \in 1..Len(s) : s[i] = s[j] => i = j

LEMMA ListingLength ==
    ASSUME NEW s, NEW S, Listing(s, S)
    PROVE  IsFiniteSet(S) /\ Len(s) = Cardinality(S) /\ Len(s) \in Nat
<1> DEFINE n == Len(s)
           f == [i \in 1..n |-> s[i]]
<1>1. n \in Nat
  BY SeqFacts DEF Listing
<1>2. f \in Bijection(1..n, S)
  BY DEF Listing, Bijection, Injection, Surjection, IsInjective
<1>3. IsFiniteSet(1..n) /\ Cardinality(1..n) = n
  <2> HIDE DEF n
  <2>1. IsFiniteSet(1..n) /\ Cardinality(1..n) = IF 1 > n THEN 0 ELSE n - 1 + 1
    BY <1>1, FS_Interval
  <2> QED BY <1>1, <2>1
<1> HIDE DEF f, n
<1>4. ExistsBijection(1..n, S)
  BY <1>2 DEF ExistsBijection
<1>5. IsFiniteSet(S) /\ Cardinality(S) = n
  BY <1>3, <1>4, FS_Bijection
<1> QED BY <1>1, <1>5 DEF n

\* The values of a function on a finite set are finitely many.
LEMMA ImageFinite ==
    ASSUME NEW S, IsFiniteSet(S), NEW f
    PROVE  IsFiniteSet({f[x] : x \in S})
<1> DEFINE T == {f[x] : x \in S}
           g == [x \in S |-> f[x]]
<1>1. g \in Surjection(S, T)
  BY DEF Surjection
<1> HIDE DEF T, g
<1>2. IsFiniteSet(T)
  BY <1>1, FS_Surjection
<1> QED BY <1>2 DEF T

\* The sequences that the library makes of a finite set list it.
LEMMA SetToSeqsLists ==
    ASSUME NEW S, IsFiniteSet(S), NEW s \in SetToSeqs(S)
    PROVE  Listing(s, S)
<1> DEFINE n == Cardinality(S)
<1>1. n \in Nat
  BY FS_CardinalityType
<1>2. s \in [1..n -> S] /\ \A i, j \in 1..n : i # j => s[i] # s[j]
  BY DEF SetToSeqs
<1>3. IsFiniteSet(1..n) /\ Cardinality(1..n) = n
  <2> HIDE DEF n
  <2>1. IsFiniteSet(1..n) /\ Cardinality(1..n) = IF 1 > n THEN 0 ELSE n - 1 + 1
    BY <1>1, FS_Interval
  <2> QED BY <1>1, <2>1
<1>4. s \in Injection(1..n, S)
  <2> HIDE DEF n
  <2> QED BY <1>2 DEF Injection, IsInjective
<1>5. s \in Surjection(1..n, S)
  BY <1>3, <1>4, FS_Injection
<1>6. IsSeq(s) /\ Len(s) = n
  <2>1. s = [i \in 1..n |-> s[i]]
    BY <1>2
  <2> HIDE DEF n
  <2> QED BY <1>1, <2>1, FunctionIsSeq
<1> HIDE DEF n
<1>7. \A x \in S : \E i \in 1..n : s[i] = x
  BY <1>5 DEF Surjection
<1> QED BY <1>2, <1>6, <1>7 DEF Listing

LEMMA ListingOne ==
    ASSUME NEW x
    PROVE  Listing(<<x>>, {x})
<1>1. IsSeq(<<x>>) /\ Len(<<x>>) = 1 /\ <<x>>[1] = x
  BY OneOrNone
<1>2. \A i \in 1..Len(<<x>>) : i = 1
  BY <1>1
<1> QED BY <1>1, <1>2 DEF Listing

\* Two lists of sets without a common element, one after the other.
LEMMA ListingJoined ==
    ASSUME NEW s, NEW S, NEW t, NEW T, Listing(s, S), Listing(t, T), S \cap T = {}
    PROVE  Listing(s \o t, S \cup T)
<1> DEFINE u == s \o t
           m == Len(s)
           n == Len(t)
<1>1. /\ IsSeq(u) /\ Len(u) = m + n /\ m \in Nat /\ n \in Nat
      /\ \A i \in 1..m : u[i] = s[i]
      /\ \A i \in 1..n : u[m + i] = t[i]
  BY Joined DEF Listing
<1>2. /\ \A i \in 1..m : s[i] \in S
      /\ \A x \in S : \E i \in 1..m : s[i] = x
      /\ \A i, j \in 1..m : s[i] = s[j] => i = j
  BY DEF Listing
<1>3. /\ \A i \in 1..n : t[i] \in T
      /\ \A x \in T : \E i \in 1..n : t[i] = x
      /\ \A i, j \in 1..n : t[i] = t[j] => i = j
  BY DEF Listing
<1> HIDE DEF u, m, n
<1>4. ASSUME NEW i \in 1..(m + n), i \notin 1..m
      PROVE  i - m \in 1..n /\ u[i] = t[i - m]
  <2>1. i - m \in 1..n /\ m + (i - m) = i
    BY <1>1, <1>4
  <2> QED BY <1>1, <2>1
<1>5. \A i \in 1..(m + n) : u[i] \in S \cup T
  BY <1>1, <1>2, <1>3, <1>4
<1>6. ASSUME NEW x \in S \cup T PROVE \E i \in 1..(m + n) : u[i] = x
  <2>1. CASE x \in S
    <3>1. PICK i \in 1..m : s[i] = x
      BY <1>2, <2>1
    <3>2. i \in 1..(m + n)
      BY <1>1
    <3> QED BY <1>1, <3>1, <3>2
  <2>2. CASE x \in T
    <3>1. PICK i \in 1..n : t[i] = x
      BY <1>3, <2>2
    <3>2. m + i \in 1..(m + n)
      BY <1>1
    <3> QED BY <1>1, <3>1, <3>2
  <2> QED BY <2>1, <2>2
<1>7. ASSUME NEW i \in 1..(m + n), NEW j \in 1..(m + n), u[i] = u[j] PROVE i = j
  <2>1. CASE i \in 1..m /\ j \in 1..m
    BY <1>1, <1>2, <1>7, <2>1
  <2>2. CASE i \notin 1..m /\ j \notin 1..m
    <3>1. i - m \in 1..n /\ j - m \in 1..n /\ t[i - m] = t[j - m]
      BY <1>4, <1>7, <2>2
    <3>2. i - m = j - m
      BY <1>3, <3>1
    <3> QED BY <1>1, <3>2
  <2>3. CASE i \in 1..m /\ j \notin 1..m
    <3>1. u[i] \in S /\ u[j] \in T
      BY <1>1, <1>2, <1>3, <1>4, <2>3
    <3> QED BY <1>7, <3>1
  <2>4. CASE i \notin 1..m /\ j \in 1..m
    <3>1. u[j] \in S /\ u[i] \in T
      BY <1>1, <1>2, <1>3, <1>4, <2>4
    <3> QED BY <1>7, <3>1
  <2> QED BY <2>1, <2>2, <2>3, <2>4
<1> QED BY <1>1, <1>5, <1>6, <1>7 DEF Listing, u

\* The place at which the library finds an element that is listed.
LEMMA PlaceInListing ==
    ASSUME NEW s, NEW S, Listing(s, S), NEW x \in S
    PROVE  /\ SelectInSeq(s, LAMBDA y : y = x) \in 1..Len(s)
           /\ s[SelectInSeq(s, LAMBDA y : y = x)] = x
<1> DEFINE I == {i \in 1..Len(s) : s[i] = x}
           m == Min(I)
<1>1. PICK i \in 1..Len(s) : s[i] = x
  BY DEF Listing
<1>2. I = {i}
  BY <1>1 DEF Listing
<1>3. m \in I
  <2>1. i <= i
    BY <1>1
  <2>2. \E k \in I : \A j \in I : k <= j
    BY <1>2, <2>1
  <2> HIDE DEF I
  <2> QED BY <2>2 DEF Min
<1>4. SelectInSeq(s, LAMBDA y : y = x) = m
  BY <1>2 DEF SelectInSeq
<1> QED BY <1>3, <1>4

-----------------------------------------------------------------------------
(* Sums                                                                    *)

\* A set that holds 0 and, with a number, the next one holds all numbers.
LEMMA NatInSet ==
    ASSUME NEW S, 0 \in S, \A n \in Nat : n \in S => n + 1 \in S
    PROVE  Nat \subseteq S
<1> DEFINE T == Nat \ S
           R == OpToRel(<, Nat)
<1> SUFFICES ASSUME T # {} PROVE FALSE
  OBVIOUS
<1>1. ASSUME NEW k \in Nat, NEW j \in Nat, k < j PROVE <<k, j>> \in R
  BY <1>1 DEF OpToRel
<1>2. IsWellFoundedOn(R, Nat) /\ T \subseteq Nat
  BY NatLessThanWellFounded
<1> HIDE DEF R
<1>3. PICK m \in T : \A y \in T : ~(<<y, m>> \in R)
  <2> HIDE DEF T
  <2> QED BY <1>2, WFMin
<1>4. m # 0 /\ m - 1 \in Nat /\ m - 1 < m /\ m = (m - 1) + 1
  BY <1>3
<1>5. m - 1 \in S
  BY <1>1, <1>3, <1>4
<1> QED BY <1>3, <1>4, <1>5

-----------------------------------------------------------------------------
(* The fold                                                                *)

Pick(s) == CHOOSE x \in s : TRUE

\* What the fold's function has to satisfy at s.
StepAt(g, f, s) == g[s] = IF s = {} THEN 0 ELSE f[Pick(s)] + g[s \ {Pick(s)}]

Unfolded(f, D, g) ==
    [s \in SUBSET D |-> IF s = {} THEN 0 ELSE f[Pick(s)] + g[s \ {Pick(s)}]]

Iter(f, D) == CHOOSE g : g = Unfolded(f, D, g)

\* The subsets of D with at most n elements.
UpTo(D, n) == {s \in SUBSET D : Cardinality(s) <= n}

LEMMA SumIsIter ==
    ASSUME NEW f, NEW D
    PROVE  SumFunctionOnSet(f, D) = Iter(f, D)[D]
BY DEF SumFunctionOnSet, FoldFunctionOnSet, MapThenFoldSet, Iter, Unfolded, Pick

\* A set that is not empty gets smaller by the element picked.
LEMMA PickSmaller ==
    ASSUME NEW D, IsFiniteSet(D), NEW n \in Nat, NEW s \in UpTo(D, n + 1), s # {}
    PROVE  Pick(s) \in s /\ s \ {Pick(s)} \in UpTo(D, n)
<1>1. Pick(s) \in s
  BY DEF Pick
<1>2. s \in SUBSET D /\ Cardinality(s) <= n + 1
  BY DEF UpTo
<1>3. IsFiniteSet(s) /\ Cardinality(s) \in Nat
  BY <1>2, FS_Subset, FS_CardinalityType
<1>4. Cardinality(s \ {Pick(s)}) = Cardinality(s) - 1
  BY <1>1, <1>3, FS_RemoveElement
<1>5. Cardinality(s \ {Pick(s)}) <= n
  BY <1>2, <1>3, <1>4
<1> QED BY <1>1, <1>2, <1>5 DEF UpTo

\* Only the empty set has no elements.
LEMMA UpToZero ==
    ASSUME NEW D, IsFiniteSet(D), NEW s \in UpTo(D, 0)
    PROVE  s = {}
<1>1. s \in SUBSET D /\ Cardinality(s) <= 0
  BY DEF UpTo
<1>2. IsFiniteSet(s) /\ Cardinality(s) \in Nat
  BY <1>1, FS_Subset, FS_CardinalityType
<1>3. Cardinality(s) = 0
  BY <1>1, <1>2
<1> QED BY <1>2, <1>3, FS_EmptySet

\* Every subset is at most as large as D.
LEMMA UpToAll ==
    ASSUME NEW D, IsFiniteSet(D), NEW s \in SUBSET D
    PROVE  Cardinality(D) \in Nat /\ s \in UpTo(D, Cardinality(D))
BY FS_Subset, FS_CardinalityType DEF UpTo

\* The recursion has a solution.
LEMMA IterExists ==
    ASSUME NEW f, NEW D, IsFiniteSet(D)
    PROVE  \E g : g = Unfolded(f, D, g)
<1> DEFINE Next(g) == Unfolded(f, D, g)
           Done(n) == \E g : \A s \in UpTo(D, n) : StepAt(Next(g), f, s)
           S == {n \in Nat : Done(n)}
<1>1. 0 \in S
  <2>1. ASSUME NEW s \in UpTo(D, 0) PROVE StepAt(Next([r \in {} |-> 0]), f, s)
    <3>1. s = {} /\ s \in SUBSET D
      BY UpToZero
    <3> QED BY <3>1 DEF StepAt, Unfolded
  <2>2. Done(0)
    <3> HIDE DEF Next
    <3> QED BY <2>1
  <2> QED BY <2>2
<1>2. ASSUME NEW n \in Nat, n \in S PROVE n + 1 \in S
  <2>1. PICK g : \A s \in UpTo(D, n) : StepAt(Next(g), f, s)
    BY <1>2
  <2> DEFINE h == Next(g)
  <2>2. ASSUME NEW s \in UpTo(D, n + 1) PROVE StepAt(Next(h), f, s)
    <3>1. s \in SUBSET D
      BY DEF UpTo
    <3>2. CASE s = {}
      BY <3>1, <3>2 DEF StepAt, Unfolded
    <3>3. CASE s # {}
      <4> DEFINE t == s \ {Pick(s)}
      <4>1. t \in UpTo(D, n) /\ t \in SUBSET D
        BY <3>3, PickSmaller DEF UpTo
      <4>2. h[t] = IF t = {} THEN 0 ELSE f[Pick(t)] + h[t \ {Pick(t)}]
        BY <2>1, <4>1 DEF StepAt, Unfolded
      <4> HIDE DEF h, t
      <4>3. Next(h)[t] = IF t = {} THEN 0 ELSE f[Pick(t)] + h[t \ {Pick(t)}]
        BY <4>1 DEF Unfolded
      <4>4. Next(h)[s] = f[Pick(s)] + h[t]
        BY <3>1, <3>3 DEF t, Unfolded
      <4> QED BY <3>3, <4>2, <4>3, <4>4 DEF StepAt, t
    <3> QED BY <3>2, <3>3
  <2>3. Done(n + 1)
    <3> HIDE DEF Next, h
    <3> QED BY <2>2
  <2> HIDE DEF Done
  <2> QED BY <2>3
<1>3. Nat \subseteq S
  <2> HIDE DEF S
  <2> QED BY <1>1, <1>2, NatInSet
<1>4. PICK g : \A s \in UpTo(D, Cardinality(D)) : StepAt(Next(g), f, s)
  BY <1>3, FS_CardinalityType
<1>5. \A s \in SUBSET D : StepAt(Next(g), f, s)
  BY <1>4, UpToAll
<1>6. Next(Next(g)) = Next(g)
  <2> DEFINE h == Next(g)
  <2>1. \A s \in SUBSET D : h[s] = IF s = {} THEN 0 ELSE f[Pick(s)] + h[s \ {Pick(s)}]
    BY <1>5 DEF StepAt, Unfolded
  <2>2. h = [s \in SUBSET D |-> h[s]]
    BY DEF Unfolded
  <2> HIDE DEF h
  <2>3. [s \in SUBSET D |-> h[s]] = Next(h)
    BY <2>1 DEF Unfolded
  <2> QED BY <2>2, <2>3 DEF h
<1> QED BY <1>6

\* The fold is the recursion it looks like, with values in Nat if f has.
LEMMA IterRecursion ==
    ASSUME NEW f, NEW D, IsFiniteSet(D), NEW s \in SUBSET D
    PROVE  StepAt(Iter(f, D), f, s)
<1>1. \E g : g = Unfolded(f, D, g)
  BY IterExists
<1> DEFINE it == Iter(f, D)
<1>2. it = Unfolded(f, D, it)
  BY <1>1 DEF Iter
<1> HIDE DEF it
<1>3. it[s] = IF s = {} THEN 0 ELSE f[Pick(s)] + it[s \ {Pick(s)}]
  BY <1>2 DEF Unfolded
<1> QED BY <1>3 DEF StepAt, it

\* Folding over a subset on its own or within D makes no difference.
LEMMA IterLocal ==
    ASSUME NEW f, NEW D, IsFiniteSet(D), NEW E \in SUBSET D, NEW s \in SUBSET E
    PROVE  Iter(f, D)[s] = Iter(f, E)[s]
<1>1. IsFiniteSet(E)
  BY FS_Subset
<1> DEFINE S == {n \in Nat : \A t \in UpTo(E, n) : Iter(f, D)[t] = Iter(f, E)[t]}
<1>2. 0 \in S
  <2>1. ASSUME NEW t \in UpTo(E, 0) PROVE Iter(f, D)[t] = Iter(f, E)[t]
    <3>1. t = {} /\ t \in SUBSET D /\ t \in SUBSET E
      BY <1>1, UpToZero
    <3>2. StepAt(Iter(f, D), f, t) /\ StepAt(Iter(f, E), f, t)
      BY <1>1, <3>1, IterRecursion
    <3> QED BY <3>1, <3>2 DEF StepAt
  <2> QED BY <2>1
<1>3. ASSUME NEW n \in Nat, n \in S PROVE n + 1 \in S
  <2>1. ASSUME NEW t \in UpTo(E, n + 1) PROVE Iter(f, D)[t] = Iter(f, E)[t]
    <3>1. t \in SUBSET D /\ t \in SUBSET E
      BY DEF UpTo
    <3>2. StepAt(Iter(f, D), f, t) /\ StepAt(Iter(f, E), f, t)
      BY <1>1, <3>1, IterRecursion
    <3>3. CASE t = {}
      BY <3>2, <3>3 DEF StepAt
    <3>4. CASE t # {}
      <4>1. t \ {Pick(t)} \in UpTo(E, n)
        BY <1>1, <3>4, PickSmaller
      <4>2. Iter(f, D)[t \ {Pick(t)}] = Iter(f, E)[t \ {Pick(t)}]
        BY <1>3, <4>1
      <4> QED BY <3>2, <3>4, <4>2 DEF StepAt
    <3> QED BY <3>3, <3>4
  <2> QED BY <2>1
<1>4. Nat \subseteq S
  <2> HIDE DEF S
  <2> QED BY <1>2, <1>3, NatInSet
<1>5. Cardinality(E) \in Nat /\ s \in UpTo(E, Cardinality(E))
  BY <1>1, UpToAll
<1> QED BY <1>4, <1>5

\* The sum over nothing, and over a set that is not empty.
LEMMA SumPick ==
    ASSUME NEW f, NEW D, IsFiniteSet(D)
    PROVE  /\ D = {} => SumFunctionOnSet(f, D) = 0
           /\ D # {} => SumFunctionOnSet(f, D)
                           = f[Pick(D)] + SumFunctionOnSet(f, D \ {Pick(D)})
<1>1. StepAt(Iter(f, D), f, D)
  BY IterRecursion
<1>2. D \ {Pick(D)} \in SUBSET D
  OBVIOUS
<1>3. Iter(f, D)[D \ {Pick(D)}] = Iter(f, D \ {Pick(D)})[D \ {Pick(D)}]
  <2> DEFINE E == D \ {Pick(D)}
  <2>1. E \in SUBSET D /\ E \in SUBSET E
    OBVIOUS
  <2> HIDE DEF E
  <2>2. Iter(f, D)[E] = Iter(f, E)[E]
    BY <2>1, IterLocal
  <2> QED BY <2>2 DEF E
<1> QED BY <1>1, <1>3, SumIsIter DEF StepAt

-----------------------------------------------------------------------------
(* Sums                                                                    *)

\* The terms of the sum are numbers.
Counts(f, D) == \A x \in D : f[x] \in Nat

\* Induction over the subsets of a finite set: what holds of the empty set, and
\* of every other set if it holds of that set without the element picked.
LEMMA SubsetsInSet ==
    ASSUME NEW D, IsFiniteSet(D), NEW Good, {} \in Good,
           \A s \in SUBSET D : s # {} /\ s \ {Pick(s)} \in Good => s \in Good
    PROVE  D \in Good
<1> DEFINE S == {n \in Nat : UpTo(D, n) \subseteq Good}
<1>1. 0 \in S
  BY UpToZero
<1>2. ASSUME NEW n \in Nat, n \in S PROVE n + 1 \in S
  <2>1. ASSUME NEW s \in UpTo(D, n + 1) PROVE s \in Good
    <3>1. s \in SUBSET D
      BY DEF UpTo
    <3>2. s # {} => s \ {Pick(s)} \in UpTo(D, n)
      BY PickSmaller
    <3> QED BY <1>2, <3>1, <3>2
  <2> QED BY <2>1
<1>3. Nat \subseteq S
  <2> HIDE DEF S
  <2> QED BY <1>1, <1>2, NatInSet
<1>4. Cardinality(D) \in Nat /\ D \in UpTo(D, Cardinality(D))
  BY UpToAll
<1> QED BY <1>3, <1>4

\* A sum of numbers is a number.
LEMMA SumType ==
    ASSUME NEW f, NEW D, IsFiniteSet(D), Counts(f, D)
    PROVE  SumFunctionOnSet(f, D) \in Nat
<1> DEFINE Good == {s \in SUBSET D : SumFunctionOnSet(f, s) \in Nat}
<1>1. {} \in Good
  <2>1. SumFunctionOnSet(f, {}) = 0
    BY SumPick, FS_EmptySet
  <2> QED BY <2>1
<1>2. ASSUME NEW s \in SUBSET D, s # {}, s \ {Pick(s)} \in Good PROVE s \in Good
  <2>1. IsFiniteSet(s) /\ Pick(s) \in D
    BY <1>2, FS_Subset DEF Pick
  <2>2. f[Pick(s)] \in Nat /\ SumFunctionOnSet(f, s \ {Pick(s)}) \in Nat
    BY <1>2, <2>1 DEF Counts
  <2>3. SumFunctionOnSet(f, s) = f[Pick(s)] + SumFunctionOnSet(f, s \ {Pick(s)})
    BY <1>2, <2>1, SumPick
  <2> QED BY <2>2, <2>3
<1>3. D \in Good
  <2> HIDE DEF Good
  <2> QED BY <1>1, <1>2, SubsetsInSet
<1> QED BY <1>3

\* Any element may be taken out first.
LEMMA SumAnyOrder ==
    ASSUME NEW f, NEW D, IsFiniteSet(D), Counts(f, D), NEW e \in D
    PROVE  SumFunctionOnSet(f, D) = f[e] + SumFunctionOnSet(f, D \ {e})
<1> DEFINE Takes(s, x) == SumFunctionOnSet(f, s) = f[x] + SumFunctionOnSet(f, s \ {x})
           S == {n \in Nat : \A s \in UpTo(D, n) : \A x \in s : Takes(s, x)}
<1>1. 0 \in S
  BY UpToZero
<1>2. ASSUME NEW n \in Nat, n \in S PROVE n + 1 \in S
  <2>1. ASSUME NEW s \in UpTo(D, n + 1), NEW x \in s PROVE Takes(s, x)
    <3> DEFINE p == Pick(s)
               t == s \ {p}
    <3>1. s \in SUBSET D /\ IsFiniteSet(s)
      BY FS_Subset DEF UpTo
    <3>2. p \in s /\ t \in UpTo(D, n)
      BY <2>1, PickSmaller
    <3>3. SumFunctionOnSet(f, s) = f[p] + SumFunctionOnSet(f, t)
      BY <3>1, SumPick
    <3>4. CASE x = p
      BY <3>3, <3>4
    <3>5. CASE x # p
      <4> DEFINE u == s \ {x}
      <4>1. x \in t /\ p \in u /\ t \ {x} = u \ {p} /\ p \in D /\ x \in D
        BY <3>1, <3>2, <3>5
      <4>2. SumFunctionOnSet(f, t) = f[x] + SumFunctionOnSet(f, t \ {x})
        BY <1>2, <3>2, <4>1
      <4>3. u \in UpTo(D, n)
        <5>1. Cardinality(u) = Cardinality(s) - 1 /\ Cardinality(s) \in Nat
          BY <3>1, FS_RemoveElement, FS_CardinalityType
        <5>2. Cardinality(s) <= n + 1 /\ u \in SUBSET D
          BY <3>1 DEF UpTo
        <5>3. Cardinality(u) <= n
          BY <5>1, <5>2
        <5> QED BY <5>2, <5>3 DEF UpTo
      <4>4. SumFunctionOnSet(f, u) = f[p] + SumFunctionOnSet(f, u \ {p})
        BY <1>2, <4>1, <4>3
      <4>5. SumFunctionOnSet(f, u \ {p}) \in Nat /\ f[x] \in Nat /\ f[p] \in Nat
        <5>1. IsFiniteSet(u \ {p}) /\ Counts(f, u \ {p})
          BY <3>1, FS_Subset DEF Counts
        <5> QED BY <5>1, <4>1, SumType DEF Counts
      <4> HIDE DEF p, t, u
      <4>6. SumFunctionOnSet(f, t \ {x}) = SumFunctionOnSet(f, u \ {p})
        BY <4>1, Zenon
      <4>7. SumFunctionOnSet(f, s) = f[x] + SumFunctionOnSet(f, u)
        BY <3>3, <4>2, <4>4, <4>5, <4>6
      <4> QED BY <4>7 DEF u
    <3> QED BY <3>4, <3>5
  <2> QED BY <2>1
<1>3. Nat \subseteq S
  <2> HIDE DEF S
  <2> QED BY <1>1, <1>2, NatInSet
<1>4. Cardinality(D) \in Nat /\ D \in UpTo(D, Cardinality(D))
  BY UpToAll
<1> QED BY <1>3, <1>4

\* A sum over one element more.
LEMMA SumAdd ==
    ASSUME NEW f, NEW D, IsFiniteSet(D), NEW e, e \notin D, Counts(f, D \cup {e})
    PROVE  SumFunctionOnSet(f, D \cup {e}) = SumFunctionOnSet(f, D) + f[e]
<1> DEFINE E == D \cup {e}
<1>1. IsFiniteSet(E) /\ e \in E /\ E \ {e} = D
  BY FS_AddElement
<1>2. SumFunctionOnSet(f, D) \in Nat /\ f[e] \in Nat
  BY SumType DEF Counts
<1>3. Counts(f, E)
  OBVIOUS
<1> HIDE DEF E
<1>4. SumFunctionOnSet(f, E) = f[e] + SumFunctionOnSet(f, E \ {e})
  BY <1>1, <1>3, SumAnyOrder
<1>5. SumFunctionOnSet(f, E \ {e}) = SumFunctionOnSet(f, D)
  BY <1>1, Zenon
<1>6. SumFunctionOnSet(f, E) = SumFunctionOnSet(f, D) + f[e]
  BY <1>2, <1>4, <1>5
<1> QED BY <1>6 DEF E

\* Larger terms make a larger sum.
LEMMA SumMonotone ==
    ASSUME NEW f, NEW g, NEW D, IsFiniteSet(D), Counts(f, D), Counts(g, D),
           \A x \in D : f[x] <= g[x]
    PROVE  SumFunctionOnSet(f, D) <= SumFunctionOnSet(g, D)
<1> DEFINE Good == {s \in SUBSET D : SumFunctionOnSet(f, s) <= SumFunctionOnSet(g, s)}
<1>1. {} \in Good
  <2>1. SumFunctionOnSet(f, {}) = 0 /\ SumFunctionOnSet(g, {}) = 0
    BY SumPick, FS_EmptySet
  <2> QED BY <2>1
<1>2. ASSUME NEW s \in SUBSET D, s # {}, s \ {Pick(s)} \in Good PROVE s \in Good
  <2> DEFINE p == Pick(s)
             t == s \ {p}
  <2>1. IsFiniteSet(s) /\ p \in D /\ IsFiniteSet(t) /\ Counts(f, t) /\ Counts(g, t)
    BY <1>2, FS_Subset DEF Pick, Counts
  <2>2. /\ f[p] \in Nat /\ g[p] \in Nat /\ f[p] <= g[p]
        /\ SumFunctionOnSet(f, t) \in Nat /\ SumFunctionOnSet(g, t) \in Nat
    BY <2>1, SumType DEF Counts
  <2>3. SumFunctionOnSet(f, s) = f[p] + SumFunctionOnSet(f, t)
    BY <1>2, <2>1, SumPick
  <2>4. SumFunctionOnSet(g, s) = g[p] + SumFunctionOnSet(g, t)
    BY <1>2, <2>1, SumPick
  <2>5. SumFunctionOnSet(f, t) <= SumFunctionOnSet(g, t)
    BY <1>2
  <2> HIDE DEF p, t
  <2> QED BY <2>2, <2>3, <2>4, <2>5
<1>3. D \in Good
  <2> HIDE DEF Good
  <2> QED BY <1>1, <1>2, SubsetsInSet
<1> QED BY <1>3

\* Terms of at most M make a sum of at most M for each.
LEMMA SumBounded ==
    ASSUME NEW f, NEW D, IsFiniteSet(D), Counts(f, D), NEW M \in Nat,
           \A x \in D : f[x] <= M
    PROVE  SumFunctionOnSet(f, D) <= Cardinality(D) * M
<1> DEFINE Good == {s \in SUBSET D : SumFunctionOnSet(f, s) <= Cardinality(s) * M}
<1>1. {} \in Good
  <2>1. SumFunctionOnSet(f, {}) = 0 /\ Cardinality({}) = 0
    BY SumPick, FS_EmptySet
  <2> QED BY <2>1
<1>2. ASSUME NEW s \in SUBSET D, s # {}, s \ {Pick(s)} \in Good PROVE s \in Good
  <2> DEFINE p == Pick(s)
             t == s \ {p}
  <2>1. IsFiniteSet(s) /\ p \in s /\ p \in D /\ IsFiniteSet(t) /\ Counts(f, t)
    BY <1>2, FS_Subset DEF Pick, Counts
  <2>2. f[p] \in Nat /\ f[p] <= M /\ SumFunctionOnSet(f, t) \in Nat
    BY <2>1, SumType DEF Counts
  <2>3. SumFunctionOnSet(f, s) = f[p] + SumFunctionOnSet(f, t)
    BY <1>2, <2>1, SumPick
  <2>4. Cardinality(t) = Cardinality(s) - 1 /\ Cardinality(s) \in Nat
    BY <2>1, FS_RemoveElement, FS_CardinalityType
  <2>5. SumFunctionOnSet(f, t) <= Cardinality(t) * M
    BY <1>2
  <2> HIDE DEF p, t
  <2>6. \A n \in Nat : (n - 1) * M + M = n * M
    OBVIOUS
  <2> QED BY <2>2, <2>3, <2>4, <2>5, <2>6
<1>3. D \in Good
  <2> HIDE DEF Good
  <2> QED BY <1>1, <1>2, SubsetsInSet
<1> QED BY <1>3

\* A sum depends on the terms alone.
LEMMA SumAgrees ==
    ASSUME NEW f, NEW g, NEW D, IsFiniteSet(D), Counts(f, D), \A x \in D : g[x] = f[x]
    PROVE  SumFunctionOnSet(g, D) = SumFunctionOnSet(f, D)
<1>1. Counts(g, D) /\ \A x \in D : g[x] <= f[x] /\ f[x] <= g[x]
  BY DEF Counts
<1>2. /\ SumFunctionOnSet(g, D) <= SumFunctionOnSet(f, D)
      /\ SumFunctionOnSet(f, D) <= SumFunctionOnSet(g, D)
      /\ SumFunctionOnSet(f, D) \in Nat /\ SumFunctionOnSet(g, D) \in Nat
  BY <1>1, SumMonotone, SumType
<1> QED BY <1>2

\* Terms that are zero may be left out.
LEMMA SumSkipsZeros ==
    ASSUME NEW f, NEW D, IsFiniteSet(D), Counts(f, D), NEW S \in SUBSET D,
           \A x \in D \ S : f[x] = 0
    PROVE  SumFunctionOnSet(f, D) = SumFunctionOnSet(f, S)
<1> DEFINE Good == {s \in SUBSET D : SumFunctionOnSet(f, s) = SumFunctionOnSet(f, s \cap S)}
<1>1. {} \in Good
  <2>1. {} \cap S = {}
    OBVIOUS
  <2> QED BY <2>1
<1>2. ASSUME NEW s \in SUBSET D, s # {}, s \ {Pick(s)} \in Good PROVE s \in Good
  <2> DEFINE p == Pick(s)
             t == s \ {p}
  <2>1. IsFiniteSet(s) /\ p \in s /\ p \in D /\ s \subseteq D
    BY <1>2, FS_Subset DEF Pick
  <2>2. SumFunctionOnSet(f, s) = f[p] + SumFunctionOnSet(f, t)
    BY <1>2, <2>1, SumPick
  <2>3. SumFunctionOnSet(f, t) = SumFunctionOnSet(f, t \cap S)
    BY <1>2
  <2>4. CASE p \in S
    <3> DEFINE u == s \cap S
    <3>1. u \subseteq D /\ p \in u /\ u \ {p} = t \cap S
      BY <2>1, <2>4
    <3>2. IsFiniteSet(u) /\ Counts(f, u)
      BY <3>1, FS_Subset DEF Counts
    <3> HIDE DEF u, t, p
    <3>3. SumFunctionOnSet(f, u) = f[p] + SumFunctionOnSet(f, u \ {p})
      BY <3>1, <3>2, SumAnyOrder
    <3>4. SumFunctionOnSet(f, u \ {p}) = SumFunctionOnSet(f, t \cap S)
      BY <3>1, Zenon
    <3>5. SumFunctionOnSet(f, s) = SumFunctionOnSet(f, u)
      BY <2>2, <2>3, <3>3, <3>4
    <3> QED BY <3>5 DEF u
  <2>5. CASE p \notin S
    <3>1. s \cap S = t \cap S /\ f[p] = 0
      BY <2>1, <2>5
    <3>2. IsFiniteSet(t \cap S) /\ Counts(f, t \cap S)
      BY <2>1, FS_Subset DEF Counts
    <3>3. SumFunctionOnSet(f, t \cap S) \in Nat
      BY <3>2, SumType
    <3> HIDE DEF t, p
    <3>4. SumFunctionOnSet(f, s \cap S) = SumFunctionOnSet(f, t \cap S)
      BY <3>1, Zenon
    <3>5. SumFunctionOnSet(f, s) = SumFunctionOnSet(f, s \cap S)
      BY <2>2, <2>3, <3>1, <3>3, <3>4
    <3> QED BY <3>5
  <2> QED BY <2>4, <2>5
<1>3. D \in Good
  <2> HIDE DEF Good
  <2> QED BY <1>1, <1>2, SubsetsInSet
<1>4. D \cap S = S
  OBVIOUS
<1> QED BY <1>3, <1>4

-----------------------------------------------------------------------------
(* What sequences range over                                               *)

LEMMA KeptOnceRange ==
    ASSUME NEW s, IsSeq(s), NEW keep
    PROVE  ToSet(KeptOnce(s, keep)) = ToSet(s) \cap keep
<1> DEFINE n == Len(s)
           I == Kept(s, keep)
           p == KeptOnce(s, keep)
<1>1. n \in Nat /\ DOMAIN s = 1..n
  BY SeqFacts
<1>2. I \in SUBSET (1..n) /\ \A i \in I : s[i] \in keep
  BY <1>1 DEF Kept
<1>3. p = PickedFrom(s, I)
  BY DEF KeptOnce, Kept
<1>4. /\ IsSeq(p)
      /\ \A i \in 1..n : s[i] \in keep => \E k \in 1..Len(p) : p[k] = s[i]
  BY KeptOnceFacts
<1> HIDE DEF I
<1> HIDE DEF p
<1>5. ASSUME NEW k \in 1..Len(PickedFrom(s, I))
      PROVE  \E i \in I : PickedFrom(s, I)[k] = s[i]
  <2>1. n \in Nat /\ I \in SUBSET (1..n)
    BY <1>1, <1>2
  <2> HIDE DEF n
  <2>2. PickedByRank(s, I)
    BY <2>1, PickedFromRank
  <2> QED BY <2>2 DEF PickedByRank
<1> HIDE DEF n
<1>6. DOMAIN p = 1..Len(p)
  BY <1>4, SeqFacts
<1>7. ASSUME NEW x \in ToSet(p) PROVE x \in ToSet(s) \cap keep
  <2>1. PICK k \in 1..Len(p) : x = p[k]
    BY <1>6 DEF ToSet
  <2>2. PICK i \in I : p[k] = s[i]
    BY <1>3, <1>5, <2>1
  <2> QED BY <1>1, <1>2, <2>1, <2>2 DEF ToSet
<1>8. ASSUME NEW x \in ToSet(s) \cap keep PROVE x \in ToSet(p)
  <2>1. PICK i \in 1..n : x = s[i]
    BY <1>1 DEF ToSet
  <2>2. PICK k \in 1..Len(p) : p[k] = s[i]
    BY <1>4, <2>1
  <2> QED BY <1>6, <2>1, <2>2 DEF ToSet
<1>9. ToSet(p) = ToSet(s) \cap keep
  BY <1>7, <1>8
<1> QED BY <1>9 DEF p

LEMMA JoinedRange ==
    ASSUME NEW s, NEW t, IsSeq(s), IsSeq(t)
    PROVE  ToSet(s \o t) = ToSet(s) \cup ToSet(t)
<1> DEFINE st == s \o t
<1>1. /\ IsSeq(st) /\ Len(st) = Len(s) + Len(t)
      /\ Len(s) \in Nat /\ Len(t) \in Nat
      /\ \A i \in 1..Len(s) : st[i] = s[i]
      /\ \A i \in 1..Len(t) : st[Len(s) + i] = t[i]
  BY Joined
<1> HIDE DEF st
<1>2. DOMAIN st = 1..Len(st) /\ DOMAIN s = 1..Len(s) /\ DOMAIN t = 1..Len(t)
  BY <1>1, SeqFacts
<1>3. ASSUME NEW x \in ToSet(st) PROVE x \in ToSet(s) \cup ToSet(t)
  <2>1. PICK i \in 1..Len(st) : x = st[i]
    BY <1>2 DEF ToSet
  <2>2. CASE i \in 1..Len(s)
    BY <1>1, <1>2, <2>1, <2>2 DEF ToSet
  <2>3. CASE i \notin 1..Len(s)
    <3>1. i - Len(s) \in 1..Len(t) /\ Len(s) + (i - Len(s)) = i
      BY <1>1, <2>3
    <3>2. x = t[i - Len(s)]
      BY <1>1, <2>1, <3>1
    <3> QED BY <1>2, <3>1, <3>2 DEF ToSet
  <2> QED BY <2>2, <2>3
<1>4. ASSUME NEW x \in ToSet(s) PROVE x \in ToSet(st)
  <2>1. PICK i \in 1..Len(s) : x = s[i]
    BY <1>2 DEF ToSet
  <2>2. i \in 1..Len(st) /\ st[i] = x
    BY <1>1, <2>1
  <2> QED BY <1>2, <2>2 DEF ToSet
<1>5. ASSUME NEW x \in ToSet(t) PROVE x \in ToSet(st)
  <2>1. PICK i \in 1..Len(t) : x = t[i]
    BY <1>2 DEF ToSet
  <2>2. Len(s) + i \in 1..Len(st) /\ st[Len(s) + i] = x
    BY <1>1, <2>1
  <2> QED BY <1>2, <2>2 DEF ToSet
<1>6. ToSet(st) = ToSet(s) \cup ToSet(t)
  BY <1>3, <1>4, <1>5
<1> QED BY <1>6 DEF st

LEMMA TwoRange ==
    ASSUME NEW x, NEW y
    PROVE  ToSet(<<x, y>>) = {x, y}
<1> DEFINE s == <<x, y>>
<1>1. DOMAIN s = 1..2 /\ s[1] = x /\ s[2] = y
  OBVIOUS
<1> HIDE DEF s
<1>2. 1..2 = {1, 2}
  OBVIOUS
<1>3. ToSet(s) = {x, y}
  BY <1>1, <1>2 DEF ToSet
<1> QED BY <1>3 DEF s

LEMMA ThreeRange ==
    ASSUME NEW x, NEW y, NEW z
    PROVE  IsSeq(<<x, y, z>>) /\ ToSet(<<x, y, z>>) = {x, y, z}
<1> DEFINE s == <<x, y, z>>
<1>1. s \in Seq({x, y, z}) /\ DOMAIN s = 1..3 /\ s[1] = x /\ s[2] = y /\ s[3] = z
  OBVIOUS
<1> HIDE DEF s
<1>2. 1..3 = {1, 2, 3}
  OBVIOUS
<1>3. ToSet(s) = {x, y, z}
  BY <1>1, <1>2 DEF ToSet
<1>4. IsSeq(s)
  BY <1>1, TypedIsSeq
<1> QED BY <1>3, <1>4 DEF s

-----------------------------------------------------------------------------
(* Division that truncates                                                 *)

\* A quotient is what its bounds say.
LEMMA Quotient ==
    ASSUME NEW a \in Nat, NEW b \in Nat \ {0}
    PROVE  /\ a \div b \in Nat
           /\ b * (a \div b) <= a
           /\ a < b * (a \div b) + b
OBVIOUS

LEMMA Products ==
    ASSUME NEW a \in Nat, NEW b \in Nat
    PROVE  a * b \in Nat /\ (a # 0 /\ b # 0 => a * b # 0)
OBVIOUS

LEMMA TimesMonotone ==
    ASSUME NEW a \in Nat, NEW b \in Nat, NEW c \in Nat, a <= b
    PROVE  a * c <= b * c
OBVIOUS

LEMMA TimesStrict ==
    ASSUME NEW a \in Nat, NEW b \in Nat, NEW c \in Nat, a * c < b * c
    PROVE  a < b
OBVIOUS

\* What fits is at most the quotient.
LEMMA QuotientIsMost ==
    ASSUME NEW a \in Nat, NEW b \in Nat \ {0}, NEW q \in Nat, b * q <= a
    PROVE  q <= a \div b
<1> DEFINE d == a \div b
<1>1. d \in Nat /\ a < b * d + b
  BY Quotient
<1> HIDE DEF d
<1>2. q * b < (d + 1) * b
  BY <1>1
<1>3. q < d + 1
  BY <1>1, <1>2, TimesStrict
<1> QED BY <1>1, <1>3 DEF d

\* More of a smaller divisor: a quotient that is not smaller.
LEMMA QuotientMonotone ==
    ASSUME NEW a \in Nat, NEW b \in Nat \ {0}, NEW x \in Nat, NEW y \in Nat \ {0},
           a <= x, y <= b
    PROVE  a \div b <= x \div y
<1> DEFINE q == a \div b
<1>1. q \in Nat /\ b * q <= a
  BY Quotient
<1> HIDE DEF q
<1>2. y * q <= b * q /\ y * q \in Nat /\ b * q \in Nat
  BY <1>1, TimesMonotone, Products
<1>3. y * q <= x
  BY <1>1, <1>2
<1>4. q <= x \div y
  BY <1>1, <1>3, QuotientIsMost
<1> QED BY <1>4 DEF q
==============================================================================
