---------------------------- MODULE ShadowProofs ----------------------------
(***************************************************************************)
(* The --mainnet run for any chains, plans, fee payers and precision of an *)
(* f64: the scan is exact up to rounding, an empty report is honest, the   *)
(* worst candidates come first, each plan has its result, the messages say *)
(* what was planned and the summary tells the furthest outcome.            *)
(***************************************************************************)
EXTENDS Shadow, DataProofs

(* The encoder                                                             *)

\* The keys of a message and what is asked for each.
SignerKey(list, p, k) == k = p \/ \E m \in MetasOf(list) : m.pubkey = k /\ m.is_signer
WritableKey(list, p, k) == k = p \/ \E m \in MetasOf(list) : m.pubkey = k /\ m.is_writable

Keys(list, p) == {m.pubkey : m \in MetasOf(list)} \cup ProgramsOf(list) \cup {p}

Flag(s, w) == [is_signer |-> s, is_writable |-> w]

Group(list, p, s, w) == {k \in Keys(list, p) \ {p} : KeyFlags(p, list)[k] = Flag(s, w)}

LEMMA KeyFlagsFacts ==
    ASSUME NEW list, NEW p
    PROVE  /\ DOMAIN KeyFlags(p, list) = Keys(list, p)
           /\ \A k \in Keys(list, p) :
                /\ KeyFlags(p, list)[k].is_signer <=> SignerKey(list, p, k)
                /\ KeyFlags(p, list)[k].is_writable <=> WritableKey(list, p, k)
                /\ KeyFlags(p, list)[k] = Flag(KeyFlags(p, list)[k].is_signer,
                                              KeyFlags(p, list)[k].is_writable)
                /\ KeyFlags(p, list)[k].is_signer \in BOOLEAN
                /\ KeyFlags(p, list)[k].is_writable \in BOOLEAN
<1> DEFINE pay == [pubkey |-> p, is_signer |-> TRUE, is_writable |-> TRUE]
           metas == MetasOf(list) \cup {pay}
           keys == {m.pubkey : m \in metas} \cup ProgramsOf(list)
           signs(k) == \E m \in metas : m.pubkey = k /\ m.is_signer
           writes(k) == \E m \in metas : m.pubkey = k /\ m.is_writable
<1>1. KeyFlags(p, list) = [k \in keys |-> [is_signer |-> signs(k), is_writable |-> writes(k)]]
  BY Zenon DEF KeyFlags
<1>2. keys = Keys(list, p)
  <2>1. keys = {m.pubkey : m \in MetasOf(list)} \cup {pay.pubkey} \cup ProgramsOf(list)
    <3> HIDE DEF pay
    <3> QED OBVIOUS
  <2>2. pay.pubkey = p
    OBVIOUS
  <2> HIDE DEF keys, pay
  <2> QED BY <2>1, <2>2 DEF Keys
<1>3. ASSUME NEW k PROVE signs(k) <=> SignerKey(list, p, k)
  <2>1. signs(k) <=> (pay.pubkey = k /\ pay.is_signer)
                      \/ \E m \in MetasOf(list) : m.pubkey = k /\ m.is_signer
    BY Zenon
  <2>2. pay.pubkey = p /\ pay.is_signer = TRUE
    OBVIOUS
  <2> HIDE DEF pay
  <2> QED BY <2>1, <2>2, Zenon DEF SignerKey
<1>4. ASSUME NEW k PROVE writes(k) <=> WritableKey(list, p, k)
  <2>1. writes(k) <=> (pay.pubkey = k /\ pay.is_writable)
                       \/ \E m \in MetasOf(list) : m.pubkey = k /\ m.is_writable
    BY Zenon
  <2>2. pay.pubkey = p /\ pay.is_writable = TRUE
    OBVIOUS
  <2> HIDE DEF pay
  <2> QED BY <2>1, <2>2, Zenon DEF WritableKey
<1>5. \A k : signs(k) \in BOOLEAN /\ writes(k) \in BOOLEAN
  BY Zenon
<1> HIDE DEF keys, signs, writes
<1> QED BY <1>1, <1>2, <1>3, <1>4, <1>5 DEF Flag

\* A message names finitely many accounts.
LEMMA KeysFinite ==
    ASSUME NEW list, NEW p, IsPayable(list, p)
    PROVE  IsFiniteSet(Keys(list, p))
<1> DEFINE n == Len(list)
           Of(i) == ToSet(list[i].accounts)
<1>1. n \in Nat /\ DOMAIN list = 1..n
  BY LenProperties DEF IsPayable
<1>2. IsFiniteSet(DOMAIN list)
  BY <1>1, FS_Interval
<1>3. ASSUME NEW i \in DOMAIN list PROVE IsFiniteSet(Of(i))
  <2> DEFINE s == list[i].accounts
  <2>1. Len(s) \in Nat /\ DOMAIN s = 1..Len(s)
    BY LenProperties DEF IsPayable
  <2>2. IsFiniteSet(DOMAIN s)
    BY <2>1, FS_Interval
  <2>3. IsFiniteSet({s[j] : j \in DOMAIN s})
    BY <2>2, ImageFinite
  <2> QED BY <2>3 DEF ToSet
<1>4. IsFiniteSet({Of(i) : i \in DOMAIN list})
  <2> DEFINE f == [i \in DOMAIN list |-> Of(i)]
  <2>1. IsFiniteSet({f[i] : i \in DOMAIN list})
    BY <1>2, ImageFinite
  <2>2. {f[i] : i \in DOMAIN list} = {Of(i) : i \in DOMAIN list}
    OBVIOUS
  <2> QED BY <2>1, <2>2
<1>5. IsFiniteSet(MetasOf(list))
  <2>1. MetasOf(list) = UNION {Of(i) : i \in DOMAIN list}
    BY DEF MetasOf
  <2>2. \A T \in {Of(i) : i \in DOMAIN list} : IsFiniteSet(T)
    BY <1>3
  <2> QED BY <1>4, <2>1, <2>2, FS_UNION
<1>6. IsFiniteSet({m.pubkey : m \in MetasOf(list)})
  <2> DEFINE f == [m \in MetasOf(list) |-> m.pubkey]
  <2>1. IsFiniteSet({f[m] : m \in MetasOf(list)})
    BY <1>5, ImageFinite
  <2>2. {f[m] : m \in MetasOf(list)} = {m.pubkey : m \in MetasOf(list)}
    OBVIOUS
  <2> QED BY <2>1, <2>2
<1>7. IsFiniteSet(ProgramsOf(list))
  <2> DEFINE f == [i \in DOMAIN list |-> list[i].program_id]
  <2>1. IsFiniteSet({f[i] : i \in DOMAIN list})
    BY <1>2, ImageFinite
  <2>2. {f[i] : i \in DOMAIN list} = ProgramsOf(list)
    BY DEF ProgramsOf
  <2> QED BY <2>1, <2>2
<1> QED BY <1>6, <1>7, FS_Union, FS_Singleton DEF Keys

\* The four groups are apart, and say what is asked for a key.
LEMMA GroupFacts ==
    ASSUME NEW list, NEW p
    PROVE  /\ Keys(list, p) = {p} \cup Group(list, p, TRUE, TRUE) \cup Group(list, p, TRUE, FALSE)
                              \cup Group(list, p, FALSE, TRUE) \cup Group(list, p, FALSE, FALSE)
           /\ \A s, w \in BOOLEAN : \A k \in Group(list, p, s, w) :
                /\ k # p /\ k \in Keys(list, p)
                /\ SignerKey(list, p, k) <=> s
                /\ WritableKey(list, p, k) <=> w
           /\ SignerKey(list, p, p) /\ WritableKey(list, p, p)
<1>1. ASSUME NEW s \in BOOLEAN, NEW w \in BOOLEAN, NEW k \in Group(list, p, s, w)
      PROVE  /\ k # p /\ k \in Keys(list, p)
             /\ SignerKey(list, p, k) <=> s
             /\ WritableKey(list, p, k) <=> w
  <2>1. k # p /\ k \in Keys(list, p) /\ KeyFlags(p, list)[k] = Flag(s, w)
    BY <1>1 DEF Group
  <2>2. Flag(s, w).is_signer = s /\ Flag(s, w).is_writable = w
    BY DEF Flag
  <2>3. /\ KeyFlags(p, list)[k].is_signer <=> SignerKey(list, p, k)
        /\ KeyFlags(p, list)[k].is_writable <=> WritableKey(list, p, k)
    BY <2>1, KeyFlagsFacts
  <2> QED BY <2>1, <2>2, <2>3, Zenon
<1>2. ASSUME NEW k \in Keys(list, p), k # p
      PROVE  \E s, w \in BOOLEAN : k \in Group(list, p, s, w)
  <2> DEFINE s == KeyFlags(p, list)[k].is_signer
             w == KeyFlags(p, list)[k].is_writable
  <2>1. s \in BOOLEAN /\ w \in BOOLEAN /\ KeyFlags(p, list)[k] = Flag(s, w)
    BY KeyFlagsFacts
  <2>2. k \in Group(list, p, s, w)
    BY <1>2, <2>1 DEF Group
  <2> HIDE DEF s, w
  <2> QED BY <2>1, <2>2
<1>3. p \in Keys(list, p) /\ SignerKey(list, p, p) /\ WritableKey(list, p, p)
  BY DEF Keys, SignerKey, WritableKey
<1>4. Keys(list, p) \subseteq {p} \cup Group(list, p, TRUE, TRUE) \cup Group(list, p, TRUE, FALSE)
                              \cup Group(list, p, FALSE, TRUE) \cup Group(list, p, FALSE, FALSE)
  <2> SUFFICES ASSUME NEW k \in Keys(list, p), k # p
               PROVE  \/ k \in Group(list, p, TRUE, TRUE) \/ k \in Group(list, p, TRUE, FALSE)
                      \/ k \in Group(list, p, FALSE, TRUE) \/ k \in Group(list, p, FALSE, FALSE)
    BY Zenon
  <2>1. PICK s \in BOOLEAN, w \in BOOLEAN : k \in Group(list, p, s, w)
    BY <1>2
  <2>2. (s = TRUE \/ s = FALSE) /\ (w = TRUE \/ w = FALSE)
    BY Zenon
  <2> QED BY <2>1, <2>2, Zenon
<1> QED BY <1>1, <1>3, <1>4

\* A listing in five parts.
Parts(p, A, B, C, D, a, b, c, d, keys) ==
    /\ Listing(a, A) /\ Listing(b, B) /\ Listing(c, C) /\ Listing(d, D)
    /\ p \notin A \cup B \cup C \cup D
    /\ A \cap B = {} /\ A \cap C = {} /\ A \cap D = {}
    /\ B \cap C = {} /\ B \cap D = {} /\ C \cap D = {}
    /\ keys = <<p>> \o a \o b \o c \o d

Laid(p, A, B, C, D, a, b, c, d, keys) ==
    /\ Listing(keys, {p} \cup A \cup B \cup C \cup D)
    /\ Len(a) \in Nat /\ Len(b) \in Nat /\ Len(c) \in Nat /\ Len(d) \in Nat
    /\ Len(keys) = 1 + Len(a) + Len(b) + Len(c) + Len(d)
    /\ keys[1] = p
    /\ \A i \in 1..Len(a) : keys[1 + i] \in A
    /\ \A i \in 1..Len(b) : keys[1 + Len(a) + i] \in B
    /\ \A i \in 1..Len(c) : keys[1 + Len(a) + Len(b) + i] \in C
    /\ \A i \in 1..Len(d) : keys[1 + Len(a) + Len(b) + Len(c) + i] \in D

\* Where each of the parts lies.
LEMMA FiveParts ==
    ASSUME NEW p, NEW A, NEW B, NEW C, NEW D, NEW a, NEW b, NEW c, NEW d, NEW keys,
           Parts(p, A, B, C, D, a, b, c, d, keys)
    PROVE  Laid(p, A, B, C, D, a, b, c, d, keys)
<1>0. /\ Listing(a, A) /\ Listing(b, B) /\ Listing(c, C) /\ Listing(d, D)
      /\ p \notin A \cup B \cup C \cup D
      /\ A \cap B = {} /\ A \cap C = {} /\ A \cap D = {}
      /\ B \cap C = {} /\ B \cap D = {} /\ C \cap D = {}
      /\ keys = <<p>> \o a \o b \o c \o d
  BY DEF Parts
<1> DEFINE la == Len(a)
           lb == Len(b)
           lc == Len(c)
           ld == Len(d)
           k1 == <<p>>
           k2 == k1 \o a
           k3 == k2 \o b
           k4 == k3 \o c
           k5 == k4 \o d
<1>1. IsSeq(k1) /\ Len(k1) = 1 /\ k1[1] = p
  BY OneOrNone
<1>2. /\ IsSeq(a) /\ IsSeq(b) /\ IsSeq(c) /\ IsSeq(d)
      /\ \A i \in 1..la : a[i] \in A
      /\ \A i \in 1..lb : b[i] \in B
      /\ \A i \in 1..lc : c[i] \in C
      /\ \A i \in 1..ld : d[i] \in D
  BY <1>0 DEF Listing
<1>3. /\ IsSeq(k2) /\ Len(k2) = 1 + la /\ la \in Nat
      /\ k2[1] = p
      /\ \A i \in 1..la : k2[1 + i] = a[i]
  <2>1. /\ IsSeq(k2) /\ Len(k2) = Len(k1) + la /\ la \in Nat
        /\ \A i \in 1..Len(k1) : k2[i] = k1[i]
        /\ \A i \in 1..la : k2[Len(k1) + i] = a[i]
    <3>1. IsSeq(k1) /\ IsSeq(a)
      BY <1>1, <1>2
    <3> HIDE DEF k1
    <3> QED BY <3>1, Joined
  <2> HIDE DEF k1, k2, la
  <2> QED BY <1>1, <2>1
<1>4. /\ IsSeq(k3) /\ Len(k3) = 1 + la + lb /\ lb \in Nat
      /\ \A i \in 1..(1 + la) : k3[i] = k2[i]
      /\ \A i \in 1..lb : k3[1 + la + i] = b[i]
  <2>1. /\ IsSeq(k3) /\ Len(k3) = Len(k2) + lb /\ lb \in Nat
        /\ \A i \in 1..Len(k2) : k3[i] = k2[i]
        /\ \A i \in 1..lb : k3[Len(k2) + i] = b[i]
    <3>1. IsSeq(k2) /\ IsSeq(b)
      BY <1>3, <1>2
    <3> HIDE DEF k2
    <3> QED BY <3>1, Joined
  <2> HIDE DEF k2, k3, la, lb
  <2> QED BY <1>3, <2>1
<1>5. /\ IsSeq(k4) /\ Len(k4) = 1 + la + lb + lc /\ lc \in Nat
      /\ \A i \in 1..(1 + la + lb) : k4[i] = k3[i]
      /\ \A i \in 1..lc : k4[1 + la + lb + i] = c[i]
  <2>1. /\ IsSeq(k4) /\ Len(k4) = Len(k3) + lc /\ lc \in Nat
        /\ \A i \in 1..Len(k3) : k4[i] = k3[i]
        /\ \A i \in 1..lc : k4[Len(k3) + i] = c[i]
    <3>1. IsSeq(k3) /\ IsSeq(c)
      BY <1>4, <1>2
    <3> HIDE DEF k3
    <3> QED BY <3>1, Joined
  <2> HIDE DEF k3, k4, la, lb, lc
  <2> QED BY <1>4, <2>1
<1>6. /\ IsSeq(k5) /\ Len(k5) = 1 + la + lb + lc + ld /\ ld \in Nat
      /\ \A i \in 1..(1 + la + lb + lc) : k5[i] = k4[i]
      /\ \A i \in 1..ld : k5[1 + la + lb + lc + i] = d[i]
  <2>1. /\ IsSeq(k5) /\ Len(k5) = Len(k4) + ld /\ ld \in Nat
        /\ \A i \in 1..Len(k4) : k5[i] = k4[i]
        /\ \A i \in 1..ld : k5[Len(k4) + i] = d[i]
    <3>1. IsSeq(k4) /\ IsSeq(d)
      BY <1>5, <1>2
    <3> HIDE DEF k4
    <3> QED BY <3>1, Joined
  <2> HIDE DEF k4, k5, la, lb, lc, ld
  <2> QED BY <1>5, <2>1
<1>7. Listing(k5, {p} \cup A \cup B \cup C \cup D)
  <2>1. Listing(k1, {p})
    BY ListingOne
  <2> HIDE DEF k1
  <2>2. Listing(k2, {p} \cup A)
    <3>1. {p} \cap A = {}
      BY <1>0
    <3> QED BY <1>0, <2>1, <3>1, ListingJoined
  <2> HIDE DEF k2
  <2>3. Listing(k3, {p} \cup A \cup B)
    <3> DEFINE S == {p} \cup A
    <3>1. S \cap B = {}
      BY <1>0
    <3> HIDE DEF S
    <3>2. Listing(k3, S \cup B)
      BY <1>0, <2>2, <3>1, ListingJoined DEF S
    <3> QED BY <3>2 DEF S
  <2> HIDE DEF k3
  <2>4. Listing(k4, {p} \cup A \cup B \cup C)
    <3> DEFINE S == {p} \cup A \cup B
    <3>1. S \cap C = {}
      BY <1>0
    <3> HIDE DEF S
    <3>2. Listing(k4, S \cup C)
      BY <1>0, <2>3, <3>1, ListingJoined DEF S
    <3> QED BY <3>2 DEF S
  <2> HIDE DEF k4
  <2> DEFINE S == {p} \cup A \cup B \cup C
  <2>5. S \cap D = {}
    BY <1>0
  <2> HIDE DEF S
  <2>6. Listing(k5, S \cup D)
    BY <1>0, <2>4, <2>5, ListingJoined DEF S
  <2> QED BY <2>6 DEF S
<1>k. keys = k5
  BY <1>0
<1> HIDE DEF la, lb, lc, ld, k2, k3, k4, k5
<1>8. k5[1] = p
  <2>1. /\ 1 \in 1..(1 + la) /\ 1 \in 1..(1 + la + lb) /\ 1 \in 1..(1 + la + lb + lc)
    BY <1>3, <1>4, <1>5
  <2> QED BY <1>3, <1>4, <1>5, <1>6, <2>1
<1>9. ASSUME NEW i \in 1..la PROVE k5[1 + i] \in A
  <2>1. /\ 1 + i \in 1..(1 + la) /\ 1 + i \in 1..(1 + la + lb) /\ 1 + i \in 1..(1 + la + lb + lc)
    BY <1>3, <1>4, <1>5
  <2>2. k5[1 + i] = k2[1 + i]
    BY <1>4, <1>5, <1>6, <2>1
  <2> QED BY <1>2, <1>3, <2>2
<1>10. ASSUME NEW i \in 1..lb PROVE k5[1 + la + i] \in B
  <2>1. 1 + la + i \in 1..(1 + la + lb) /\ 1 + la + i \in 1..(1 + la + lb + lc)
    BY <1>3, <1>4, <1>5
  <2> QED BY <1>2, <1>4, <1>5, <1>6, <2>1
<1>11. ASSUME NEW i \in 1..lc PROVE k5[1 + la + lb + i] \in C
  <2>1. 1 + la + lb + i \in 1..(1 + la + lb + lc)
    BY <1>3, <1>4, <1>5
  <2> QED BY <1>2, <1>5, <1>6, <2>1
<1>12. ASSUME NEW i \in 1..ld PROVE k5[1 + la + lb + lc + i] \in D
  BY <1>2, <1>6
<1> QED BY <1>k, <1>3, <1>4, <1>5, <1>6, <1>7, <1>8, <1>9, <1>10, <1>11, <1>12
        DEF la, lb, lc, ld, Laid

LEMMA GroupsApart ==
    ASSUME NEW list, NEW p, NEW s \in BOOLEAN, NEW w \in BOOLEAN, NEW s2 \in BOOLEAN, NEW w2 \in BOOLEAN,
           s # s2 \/ w # w2
    PROVE  Group(list, p, s, w) \cap Group(list, p, s2, w2) = {}
<1> SUFFICES ASSUME NEW k \in Group(list, p, s, w), k \in Group(list, p, s2, w2) PROVE FALSE
  OBVIOUS
<1>1. Flag(s, w) = Flag(s2, w2)
  BY DEF Group
<1>2. Flag(s, w).is_signer = s /\ Flag(s, w).is_writable = w
  BY DEF Flag
<1>3. Flag(s2, w2).is_signer = s2 /\ Flag(s2, w2).is_writable = w2
  BY DEF Flag
<1> QED BY <1>1, <1>2, <1>3, Zenon

\* A table that build_account_keys returns: every key once, the fee payer first, and
\* each where the header's counts give it the privileges that are asked for it.
Table(list, p, t) ==
    /\ Listing(t.keys, Keys(list, p))
    /\ t.keys[1] = p
    /\ \A n \in 1..Len(t.keys) :
         /\ SignerAt(t, n - 1) <=> SignerKey(list, p, t.keys[n])
         /\ WritableAt(t, n - 1) <=> WritableKey(list, p, t.keys[n])

LEMMA BuildsTable ==
    ASSUME NEW list, NEW p, IsPayable(list, p), list # << >>,
           Cardinality(Keys(list, p)) <= KeyLimit,
           NEW t \in BuildAccountKeys(p, list)
    PROVE  Table(list, p, t)
<1> DEFINE G(s, w) == Group(list, p, s, w)
<1>1. DOMAIN KeyFlags(p, list) = Keys(list, p)
  BY KeyFlagsFacts
<1>2. PICK ws \in SetToSeqs(G(TRUE, TRUE)), rs \in SetToSeqs(G(TRUE, FALSE)),
           wn \in SetToSeqs(G(FALSE, TRUE)), rn \in SetToSeqs(G(FALSE, FALSE)) :
        t = [keys |-> <<p>> \o ws \o rs \o wn \o rn,
             num_required_signatures |-> (1 + Len(ws) + Len(rs)) % KeyLimit,
             num_readonly_signed |-> Len(rs) % KeyLimit,
             num_readonly_unsigned |-> Len(rn) % KeyLimit]
  <2> DEFINE R(s, w) == {k \in DOMAIN KeyFlags(p, list) \ {p} :
                          KeyFlags(p, list)[k] = [is_signer |-> s, is_writable |-> w]}
             Made(ws, rs, wn, rn) ==
               [keys |-> <<p>> \o ws \o rs \o wn \o rn,
                num_required_signatures |-> (1 + Len(ws) + Len(rs)) % KeyLimit,
                num_readonly_signed |-> Len(rs) % KeyLimit,
                num_readonly_unsigned |-> Len(rn) % KeyLimit]
             TT == SetToSeqs(R(TRUE, TRUE))
             TF == SetToSeqs(R(TRUE, FALSE))
             FT == SetToSeqs(R(FALSE, TRUE))
             FF == SetToSeqs(R(FALSE, FALSE))
             All == {Made(ws, rs, wn, rn) : ws \in TT, rs \in TF, wn \in FT, rn \in FF}
  <2>1. BuildAccountKeys(p, list) = All
    BY DEF BuildAccountKeys
  <2>2. \A s, w : R(s, w) = G(s, w)
    BY <1>1 DEF Group, Flag
  <2>3. /\ TT = SetToSeqs(G(TRUE, TRUE)) /\ TF = SetToSeqs(G(TRUE, FALSE))
        /\ FT = SetToSeqs(G(FALSE, TRUE)) /\ FF = SetToSeqs(G(FALSE, FALSE))
    BY <2>2, Zenon
  <2> HIDE DEF R, G, Made, TT, TF, FT, FF
  <2>4. \E ws \in TT, rs \in TF, wn \in FT, rn \in FF : t = Made(ws, rs, wn, rn)
    BY <2>1
  <2>5. \E ws \in SetToSeqs(G(TRUE, TRUE)), rs \in SetToSeqs(G(TRUE, FALSE)),
            wn \in SetToSeqs(G(FALSE, TRUE)), rn \in SetToSeqs(G(FALSE, FALSE)) :
              t = Made(ws, rs, wn, rn)
    BY <2>3, <2>4, ZenonT(30)
  <2> QED BY <2>5 DEF Made
<1> DEFINE a == Len(ws)
           b == Len(rs)
           c == Len(wn)
           d == Len(rn)
           keys == t.keys
<1>3. /\ keys = <<p>> \o ws \o rs \o wn \o rn
      /\ t.num_required_signatures = (1 + a + b) % KeyLimit
      /\ t.num_readonly_signed = b % KeyLimit
      /\ t.num_readonly_unsigned = d % KeyLimit
  BY <1>2
<1>4. ASSUME NEW s \in BOOLEAN, NEW w \in BOOLEAN
      PROVE  IsFiniteSet(G(s, w)) /\ p \notin G(s, w)
  <2>1. G(s, w) \subseteq Keys(list, p)
    BY DEF Group
  <2> QED BY <2>1, KeysFinite, FS_Subset DEF Group
<1>5. /\ Listing(ws, G(TRUE, TRUE)) /\ Listing(rs, G(TRUE, FALSE))
      /\ Listing(wn, G(FALSE, TRUE)) /\ Listing(rn, G(FALSE, FALSE))
  <2>1. TRUE \in BOOLEAN /\ FALSE \in BOOLEAN
    OBVIOUS
  <2> HIDE DEF G
  <2> QED BY <1>2, <1>4, <2>1, SetToSeqsLists
<1>6. /\ G(TRUE, TRUE) \cap G(TRUE, FALSE) = {} /\ G(TRUE, TRUE) \cap G(FALSE, TRUE) = {}
      /\ G(TRUE, TRUE) \cap G(FALSE, FALSE) = {} /\ G(TRUE, FALSE) \cap G(FALSE, TRUE) = {}
      /\ G(TRUE, FALSE) \cap G(FALSE, FALSE) = {} /\ G(FALSE, TRUE) \cap G(FALSE, FALSE) = {}
  BY GroupsApart
<1>7. /\ p \notin G(TRUE, TRUE) /\ p \notin G(TRUE, FALSE)
      /\ p \notin G(FALSE, TRUE) /\ p \notin G(FALSE, FALSE)
  BY <1>4
<1>8. Keys(list, p) = {p} \cup G(TRUE, TRUE) \cup G(TRUE, FALSE) \cup G(FALSE, TRUE) \cup G(FALSE, FALSE)
  BY GroupFacts
<1>9. /\ Listing(keys, Keys(list, p))
      /\ a \in Nat /\ b \in Nat /\ c \in Nat /\ d \in Nat
      /\ Len(keys) = 1 + a + b + c + d
      /\ keys[1] = p
      /\ \A i \in 1..a : keys[1 + i] \in G(TRUE, TRUE)
      /\ \A i \in 1..b : keys[1 + a + i] \in G(TRUE, FALSE)
      /\ \A i \in 1..c : keys[1 + a + b + i] \in G(FALSE, TRUE)
      /\ \A i \in 1..d : keys[1 + a + b + c + i] \in G(FALSE, FALSE)
  <2> DEFINE A == G(TRUE, TRUE)
             B == G(TRUE, FALSE)
             C == G(FALSE, TRUE)
             D == G(FALSE, FALSE)
             U == {p} \cup A \cup B \cup C \cup D
  <2>1. Keys(list, p) = U
    BY <1>8
  <2>2. Parts(p, A, B, C, D, ws, rs, wn, rn, keys)
    BY <1>3, <1>5, <1>6, <1>7 DEF Parts
  <2> HIDE DEF G, keys, A, B, C, D
  <2>3. /\ Listing(keys, U)
        /\ a \in Nat /\ b \in Nat /\ c \in Nat /\ d \in Nat
        /\ Len(keys) = 1 + a + b + c + d
        /\ keys[1] = p
        /\ \A i \in 1..a : keys[1 + i] \in A
        /\ \A i \in 1..b : keys[1 + a + i] \in B
        /\ \A i \in 1..c : keys[1 + a + b + i] \in C
        /\ \A i \in 1..d : keys[1 + a + b + c + i] \in D
    <3>1. Laid(p, A, B, C, D, ws, rs, wn, rn, keys)
      BY <2>2, FiveParts, Zenon
    <3> QED BY <3>1 DEF Laid
  <2> HIDE DEF U, a, b, c, d
  <2> QED BY <2>1, <2>3 DEF A, B, C, D
<1>10. 1 + a + b + c + d <= KeyLimit
  <2>1. Len(keys) = Cardinality(Keys(list, p))
    BY <1>9, ListingLength
  <2> HIDE DEF keys, a, b, c, d
  <2> QED BY <1>9, <2>1
<1>11. 1 <= c + d
  <2>1. PICK i \in DOMAIN list : TRUE
    <3>1. Len(list) \in Nat /\ DOMAIN list = 1..Len(list) /\ Len(list) # 0
      BY LenProperties, EmptySeq DEF IsPayable
    <3> QED BY <3>1
  <2> DEFINE k == list[i].program_id
  <2>2. k \in ProgramsOf(list)
    BY DEF ProgramsOf
  <2>3. k \in Keys(list, p) /\ k # p
    BY <2>2 DEF Keys, IsPayable
  <2>4. ~SignerKey(list, p, k)
    BY <2>2, <2>3 DEF SignerKey, IsPayable
  <2> HIDE DEF k, G
  <2>5. k \in G(FALSE, TRUE) \/ k \in G(FALSE, FALSE)
    <3>1. k \in G(TRUE, TRUE) => SignerKey(list, p, k)
      BY GroupFacts DEF G
    <3>2. k \in G(TRUE, FALSE) => SignerKey(list, p, k)
      BY GroupFacts DEF G
    <3> QED BY <1>8, <2>3, <2>4, <3>1, <3>2
  <2>6. CASE k \in G(FALSE, TRUE)
    <3>1. PICK j \in 1..c : wn[j] = k
      BY <1>5, <2>6 DEF Listing
    <3> HIDE DEF a, b, c, d
    <3> QED BY <1>9, <3>1
  <2>7. CASE k \in G(FALSE, FALSE)
    <3>1. PICK j \in 1..d : rn[j] = k
      BY <1>5, <2>7 DEF Listing
    <3> HIDE DEF a, b, c, d
    <3> QED BY <1>9, <3>1
  <2> QED BY <2>5, <2>6, <2>7
<1> HIDE DEF a, b, c, d, keys
<1>12. /\ t.num_required_signatures = 1 + a + b
       /\ t.num_readonly_signed = b
       /\ t.num_readonly_unsigned = d
  <2>1. KeyLimit \in Nat \ {0}
    BY ShadowAssumption
  <2>2. \A n \in Nat : n < KeyLimit => n % KeyLimit = n
    BY <2>1
  <2>3. 1 + a + b < KeyLimit /\ b < KeyLimit /\ d < KeyLimit
    BY <1>9, <1>10, <1>11, <2>1
  <2>4. 1 + a + b \in Nat
    BY <1>9
  <2> QED BY <1>3, <1>9, <2>2, <2>3, <2>4
<1>13. ASSUME NEW n \in 1..Len(keys)
       PROVE  /\ SignerAt(t, n - 1) <=> n <= 1 + a + b
              /\ WritableAt(t, n - 1) <=> n <= 1 + a \/ (1 + a + b < n /\ n <= 1 + a + b + c)
  <2>1. SignerAt(t, n - 1) <=> n - 1 < 1 + a + b
    BY <1>12 DEF SignerAt
  <2>2. WritableAt(t, n - 1) <=>
          IF n - 1 < 1 + a + b THEN n - 1 < 1 + a + b - b ELSE n - 1 < 1 + a + b + c + d - d
    BY <1>9, <1>12, <2>1 DEF WritableAt, keys
  <2>3. n \in Int /\ 1 <= n
    BY <1>9
  <2> QED BY <1>9, <2>1, <2>2, <2>3
<1>14. ASSUME NEW n \in 1..Len(keys)
       PROVE  /\ SignerKey(list, p, keys[n]) <=> n <= 1 + a + b
              /\ WritableKey(list, p, keys[n]) <=> n <= 1 + a \/ (1 + a + b < n /\ n <= 1 + a + b + c)
  <2> DEFINE k == keys[n]
  <2>0. n \in Int /\ 1 <= n /\ n <= 1 + a + b + c + d
    BY <1>9
  <2>1. CASE n = 1
    <3>1. SignerKey(list, p, k) /\ WritableKey(list, p, k)
      BY <1>9, <2>1, GroupFacts
    <3>2. n <= 1 + a + b /\ n <= 1 + a
      BY <1>9, <2>1
    <3> QED BY <3>1, <3>2
  <2>2. CASE 1 < n /\ n <= 1 + a
    <3>1. n - 1 \in 1..a /\ 1 + (n - 1) = n
      BY <1>9, <2>0, <2>2
    <3>2. k \in G(TRUE, TRUE)
      BY <1>9, <3>1
    <3>3. SignerKey(list, p, k) /\ WritableKey(list, p, k)
      BY <3>2, GroupFacts
    <3>4. n <= 1 + a + b /\ n <= 1 + a
      BY <1>9, <2>2
    <3> QED BY <3>3, <3>4
  <2>3. CASE 1 + a < n /\ n <= 1 + a + b
    <3>1. n - (1 + a) \in 1..b /\ 1 + a + (n - (1 + a)) = n
      BY <1>9, <2>0, <2>3
    <3>2. k \in G(TRUE, FALSE)
      BY <1>9, <3>1
    <3>3. SignerKey(list, p, k) /\ ~WritableKey(list, p, k)
      BY <3>2, GroupFacts
    <3>4. n <= 1 + a + b /\ ~(n <= 1 + a) /\ ~(1 + a + b < n)
      BY <1>9, <2>0, <2>3
    <3> QED BY <3>3, <3>4
  <2>4. CASE 1 + a + b < n /\ n <= 1 + a + b + c
    <3>1. n - (1 + a + b) \in 1..c /\ 1 + a + b + (n - (1 + a + b)) = n
      BY <1>9, <2>0, <2>4
    <3>2. k \in G(FALSE, TRUE)
      BY <1>9, <3>1
    <3>3. ~SignerKey(list, p, k) /\ WritableKey(list, p, k)
      BY <3>2, GroupFacts
    <3>4. ~(n <= 1 + a + b)
      BY <1>9, <2>0, <2>4
    <3> QED BY <2>4, <3>3, <3>4
  <2>5. CASE 1 + a + b + c < n
    <3>1. n - (1 + a + b + c) \in 1..d /\ 1 + a + b + c + (n - (1 + a + b + c)) = n
      BY <1>9, <2>0, <2>5
    <3>2. k \in G(FALSE, FALSE)
      BY <1>9, <3>1
    <3>3. ~SignerKey(list, p, k) /\ ~WritableKey(list, p, k)
      BY <3>2, GroupFacts
    <3>4. ~(n <= 1 + a + b) /\ ~(n <= 1 + a) /\ ~(n <= 1 + a + b + c)
      BY <1>9, <2>0, <2>5
    <3> QED BY <3>3, <3>4
  <2> QED BY <1>9, <2>0, <2>1, <2>2, <2>3, <2>4, <2>5
<1> QED BY <1>9, <1>13, <1>14 DEF Table, keys

\* A key in the table is found by its index, which a byte can hold.
LEMMA IndexFinds ==
    ASSUME NEW list, NEW p, NEW t, Listing(t.keys, Keys(list, p)),
           Len(t.keys) <= KeyLimit, NEW k \in Keys(list, p)
    PROVE  t.keys[IndexOf(t.keys, k) + 1] = k
<1> DEFINE n == SelectInSeq(t.keys, LAMBDA x : x = k)
<1>1. n \in 1..Len(t.keys) /\ t.keys[n] = k
  BY PlaceInListing, Zenon
<1>2. Len(t.keys) \in Nat /\ KeyLimit \in Nat \ {0}
  BY ListingLength, ShadowAssumption
<1>3. IndexOf(t.keys, k) = (n - 1) % KeyLimit
  BY DEF IndexOf
<1> HIDE DEF n
<1>4. (n - 1) % KeyLimit = n - 1
  BY <1>1, <1>2
<1>5. IndexOf(t.keys, k) + 1 = n
  BY <1>1, <1>2, <1>3, <1>4
<1> QED BY <1>1, <1>5

\* As many instructions, each on as many accounts, as were planned.
LEMMA CompiledLengths ==
    ASSUME NEW s, IsSeq(s), NEW g, g = [i \in DOMAIN s |-> g[i]]
    PROVE  Len(g) = Len(s)
<1>1. Len(s) \in Nat /\ DOMAIN s = 1..Len(s)
  BY SeqFacts
<1>2. g = [i \in 1..Len(s) |-> g[i]]
  BY <1>1
<1> QED BY <1>1, <1>2, FunctionIsSeq

\* What encode_versioned_tx_bytes returns without an error says what was planned.
LEMMA EncodedIsFaithful ==
    ASSUME NEW list, NEW p, IsPayable(list, p),
           NEW msg \in EncodeVersionedTx(list, p), msg.err = "none"
    PROVE  FaithfulMessage(msg, list, p)
<1> DEFINE Accounts(t, i) == [j \in DOMAIN list[i].accounts |->
                                IndexOf(t.keys, list[i].accounts[j].pubkey)]
           Compiled(t) == [i \in DOMAIN list |->
                             [program |-> IndexOf(t.keys, list[i].program_id),
                              accounts |-> Accounts(t, i)]]
           Message(t) == [err |-> "none", header |-> t, compiled |-> Compiled(t)]
<1>1. /\ list # << >> /\ Cardinality(Keys(list, p)) <= KeyLimit
      /\ \E t \in BuildAccountKeys(p, list) : msg = Message(t)
  <2>1. /\ msg \notin {VtxError("EmptyInstructions")}
        /\ msg \notin {VtxError("TooManyKeys")}
    BY DEF VtxError
  <2>2. list # << >> /\ ~(Cardinality(DOMAIN KeyFlags(p, list)) > KeyLimit)
    BY <2>1, Zenon DEF EncodeVersionedTx
  <2>3. msg \in {Message(t) : t \in BuildAccountKeys(p, list)}
    BY <2>2, Zenon DEF EncodeVersionedTx
  <2>4. Cardinality(Keys(list, p)) \in Nat /\ KeyLimit \in Nat
    BY KeysFinite, FS_CardinalityType, ShadowAssumption
  <2>5. Cardinality(Keys(list, p)) <= KeyLimit
    BY <2>2, <2>4, KeyFlagsFacts
  <2> HIDE DEF Message
  <2> QED BY <2>2, <2>3, <2>5
<1>2. PICK t \in BuildAccountKeys(p, list) : msg = Message(t)
  BY <1>1
<1>3. Table(list, p, t)
  BY <1>1, BuildsTable
<1>4. Listing(t.keys, Keys(list, p)) /\ t.keys[1] = p
  BY <1>3 DEF Table
<1>5. Len(t.keys) \in Nat /\ DOMAIN t.keys = 1..Len(t.keys) /\ Len(t.keys) <= KeyLimit
  <2>1. Len(t.keys) = Cardinality(Keys(list, p)) /\ IsSeq(t.keys)
    BY <1>4, ListingLength DEF Listing
  <2> QED BY <1>1, <2>1, SeqFacts
<1>6. msg.header = t /\ msg.compiled = Compiled(t)
  BY <1>2
<1>7. IsInjective(t.keys)
  BY <1>4, <1>5 DEF Listing, IsInjective
<1>8. IsSeq(list) /\ \A i \in DOMAIN list : IsSeq(list[i].accounts)
  BY TypedIsSeq DEF IsPayable
<1>9. Len(Compiled(t)) = Len(list)
  <2>1. Compiled(t) = [i \in DOMAIN list |-> Compiled(t)[i]]
    OBVIOUS
  <2> HIDE DEF Compiled
  <2> QED BY <1>8, <2>1, CompiledLengths
<1>10. ASSUME NEW i \in DOMAIN list
       PROVE  /\ t.keys[Compiled(t)[i].program + 1] = list[i].program_id
              /\ Len(Compiled(t)[i].accounts) = Len(list[i].accounts)
              /\ \A j \in DOMAIN list[i].accounts :
                   t.keys[Compiled(t)[i].accounts[j] + 1] = list[i].accounts[j].pubkey
  <2>1. /\ Compiled(t)[i].program = IndexOf(t.keys, list[i].program_id)
        /\ Compiled(t)[i].accounts = Accounts(t, i)
    OBVIOUS
  <2> HIDE DEF Compiled
  <2>2. list[i].program_id \in Keys(list, p)
    BY DEF Keys, ProgramsOf
  <2>3. t.keys[IndexOf(t.keys, list[i].program_id) + 1] = list[i].program_id
    BY <1>4, <1>5, <2>2, IndexFinds
  <2>4. Len(Accounts(t, i)) = Len(list[i].accounts)
    <3>1. Accounts(t, i) = [j \in DOMAIN list[i].accounts |-> Accounts(t, i)[j]]
      OBVIOUS
    <3> HIDE DEF Accounts
    <3> QED BY <1>8, <3>1, CompiledLengths
  <2>5. ASSUME NEW j \in DOMAIN list[i].accounts
        PROVE  t.keys[Accounts(t, i)[j] + 1] = list[i].accounts[j].pubkey
    <3> DEFINE k == list[i].accounts[j].pubkey
    <3>1. Accounts(t, i)[j] = IndexOf(t.keys, k)
      OBVIOUS
    <3>2. list[i].accounts[j] \in MetasOf(list)
      BY DEF MetasOf, ToSet
    <3>3. k \in Keys(list, p)
      BY <3>2 DEF Keys
    <3> HIDE DEF k, Accounts
    <3>4. t.keys[IndexOf(t.keys, k) + 1] = k
      BY <1>4, <1>5, <3>3, IndexFinds
    <3> QED BY <3>1, <3>4 DEF k
  <2> HIDE DEF Accounts
  <2> QED BY <2>1, <2>3, <2>4, <2>5
<1>11. ASSUME NEW i \in 0..(Len(t.keys) - 1)
       PROVE  /\ SignerAt(t, i) <=> SignerKey(list, p, t.keys[i + 1])
              /\ WritableAt(t, i) <=> WritableKey(list, p, t.keys[i + 1])
  <2> DEFINE n == i + 1
  <2>1. n \in 1..Len(t.keys) /\ n - 1 = i
    BY <1>5
  <2> HIDE DEF n
  <2>2. /\ SignerAt(t, n - 1) <=> SignerKey(list, p, t.keys[n])
        /\ WritableAt(t, n - 1) <=> WritableKey(list, p, t.keys[n])
    BY <1>3, <2>1 DEF Table
  <2> QED BY <2>1, <2>2 DEF n
<1> HIDE DEF Compiled, Accounts, Message
<1> DEFINE h == msg.header
           wants(k, f) == \E m \in MetasOf(list) : m.pubkey = k /\ m[f]
<1>12. h.keys[1] = p /\ IsInjective(h.keys) /\ Len(msg.compiled) = Len(list)
  BY <1>4, <1>6, <1>7, <1>9
<1>13. \A i \in DOMAIN list :
         /\ h.keys[msg.compiled[i].program + 1] = list[i].program_id
         /\ Len(msg.compiled[i].accounts) = Len(list[i].accounts)
         /\ \A j \in DOMAIN list[i].accounts :
              h.keys[msg.compiled[i].accounts[j] + 1] = list[i].accounts[j].pubkey
  BY <1>6, <1>10
<1>14. ASSUME NEW k
       PROVE  /\ SignerKey(list, p, k) <=> k = p \/ wants(k, "is_signer")
              /\ WritableKey(list, p, k) <=> k = p \/ wants(k, "is_writable")
  BY DEF SignerKey, WritableKey
<1>15. \A i \in 0..(Len(h.keys) - 1) :
         /\ SignerAt(h, i) <=> h.keys[i + 1] = p \/ wants(h.keys[i + 1], "is_signer")
         /\ WritableAt(h, i) <=> h.keys[i + 1] = p \/ wants(h.keys[i + 1], "is_writable")
  <2> HIDE DEF wants
  <2> QED BY <1>6, <1>11, <1>14
<1> QED BY <1>12, <1>13, <1>15, Zenon DEF FaithfulMessage

-----------------------------------------------------------------------------
(* Invariants                                                              *)

Discovering == {"getSlot", "getHealth", "known", "reserves", "obligations", "marginfi",
                "banks", "save", "report"}
Searching == {"getSlot", "getHealth", "known", "reserves", "obligations"}
Planning == {"plan", "simulate", "prove", "summarize", "done"}

\* Where the run is: the fee payer is one of those there are to choose from.
PathInv ==
    /\ chain \in Chains /\ changes \in Nat /\ asked \in Nat
    /\ pc \in Discovering \cup {"reported"} => asked = 0
    /\ pc = "payer" => asked \in 1..(Len(FeePayers) - 1)
    /\ pc \in {"blockhash", "plan", "simulate", "prove"} => payer \in Payers

\* A message is in hand only while it is simulated.
WireInv == wire # NoTx => pc \in {"simulate", "prove"} /\ FaithfulMessage(wire, ixs, payer)

\* The borrowers found are ranked by health, and have plans.
RankInv ==
    /\ IsSeq(liquidatable)
    /\ \A i \in 1..Len(liquidatable) : liquidatable[i].account \in DOMAIN Plans
    /\ \A i, j \in 1..Len(liquidatable) :
         i < j => ~KeyLess(liquidatable[j], liquidatable[i])

\* The results of the first n candidates.
ResultsOf(rs, liq, n) ==
    /\ Len(rs) = n
    /\ \A i \in 1..n : rs[i].protocol = "Kamino" /\ rs[i].account = liq[i].account

\* Results keep up with the plans.
ResultsInv ==
    /\ IsSeq(results) /\ planned \in Nat
    /\ planned <= Len(liquidatable) /\ planned <= PlanCap
    /\ pc \notin Planning => planned = 0
    /\ pc = "simulate" => planned > 0
    /\ pc = "prove" => planned = 0 /\ liquidatable = << >>
    /\ pc \in {"summarize", "done"} =>
         planned = (IF Len(liquidatable) < PlanCap THEN Len(liquidatable) ELSE PlanCap)
    /\ IF planned = 0 /\ pc \in {"summarize", "done"}
       THEN Len(results) = 1 /\ results[1].protocol = "prove"
       ELSE ResultsOf(results, liquidatable, IF pc = "simulate" THEN planned - 1 ELSE planned)

\* A health is that of an account, as far as an f64 tells.
Within(c, a, h) ==
    LET least == HealthLeast(a, c.res, c.market.groups)
        most == HealthMost(a, c.res, c.market.groups)
    IN /\ h \in Int /\ least \in Int /\ least <= h
       /\ CountsCollateral(a, c.res, c.market.groups) => most \in Int /\ h <= most

\* The health of a row is that of its account.
HealthWithin(c, d) == \E h : d.health = {h} /\ Within(c, c.obl[d.account], h)

\* The chain that was read is the chain there is.
HealthInv ==
    current =>
        /\ pc \notin Searching
        /\ \A i \in 1..Len(liquidatable) : HealthWithin(chain, liquidatable[i])

\* The line in the report is that of the results.
SummaryInv == pc = "done" => summary = SummarizeKaminoSimProgress(results)

Read(kinds) == gaps \cap kinds = {}

\* While nothing moves on the chain, what was read without a gap is the chain's.
MapsInv ==
    /\ elevation_map # Undecoded
    /\ changes = 0 /\ Read({"klend_main_market", "elevation groups"})
          /\ pc \in {"reserves", "obligations"}
       => elevation_map = DecodeElevationGroups(chain.market)
    /\ changes = 0 /\ Read({"reserve GPA"}) /\ pc = "obligations"
       => reserve_map = DecodedReserves(Filtered(chain.res, ReserveDataSize))
    /\ changes = 0 /\ Read({"klend_main_market", "elevation groups", "reserve GPA", "obligation GPA"})
          /\ pc \in {"marginfi", "banks", "save", "report", "reported"}
       => current

-----------------------------------------------------------------------------
(* The path                                                                *)

\* A request of the discovery moves on within it or ends it, and nothing else
\* happens to the chain.
LEMMA DiscoverMoves ==
    ASSUME Discover
    PROVE  /\ pc \in Discovering
           /\ pc' \in Discovering \cup {"reported", "failed"}
           /\ pc \notin Searching \ {"obligations"} => pc' \notin Searching
           /\ chain' = chain /\ changes' = changes
<1> USE DEF Discovering, Searching, Answer, Fail, envVars
<1>1. CASE GetSlot
  BY <1>1 DEF GetSlot
<1>2. CASE GetHealth
  BY <1>2 DEF GetHealth
<1>3. CASE GetKnownAccounts
  BY <1>3 DEF GetKnownAccounts
<1>4. CASE ScanReserves
  BY <1>4 DEF ScanReserves
<1>5. CASE ScanObligations
  BY <1>5 DEF ScanObligations
<1>6. CASE ScanMarginfi
  BY <1>6 DEF ScanMarginfi
<1>7. CASE ScanBanks
  BY <1>7 DEF ScanBanks
<1>8. CASE ScanSave
  BY <1>8 DEF ScanSave
<1>9. CASE Report
  BY <1>9 DEF Report
<1> QED BY <1>1, <1>2, <1>3, <1>4, <1>5, <1>6, <1>7, <1>8, <1>9 DEF Discover

\* Nothing in the rest of the run changes the chain, what was found or the maps.
LEMMA ShadowKeeps ==
    ASSUME ShadowStep
    PROVE  /\ pc \notin Discovering /\ pc' \notin Discovering \cup {"reported", "failed"}
           /\ chain' = chain /\ changes' = changes
           /\ UNCHANGED <<elevation_map, reserve_map, liquidatable, truth, current>>
<1> USE DEF Discovering, Answer, Fail, Stay, envVars, scanVars, mapVars
<1>1. CASE PayerFromEnv
  BY <1>1 DEF PayerFromEnv
<1>2. CASE AskPayer
  BY <1>2 DEF AskPayer
<1>3. CASE GetLatestBlockhash
  BY <1>3 DEF GetLatestBlockhash
<1>4. CASE Plan
  BY <1>4 DEF Plan
<1>5. CASE SimulatePlan
  BY <1>5 DEF SimulatePlan, SimulateTx
<1>6. CASE EncodeProve
  BY <1>6 DEF EncodeProve
<1>7. CASE SimulateProve
  BY <1>7 DEF SimulateProve, SimulateTx
<1>8. CASE EndPlans
  BY <1>8 DEF EndPlans
<1>9. CASE WriteReport
  BY <1>9 DEF WriteReport
<1> QED BY <1>1, <1>2, <1>3, <1>4, <1>5, <1>6, <1>7, <1>8, <1>9 DEF ShadowStep

\* The chain's own moves.
LEMMA ChangeMoves ==
    ASSUME Change, PathInv
    PROVE  /\ pc \in Searching /\ pc' = pc /\ chain' \in Chains
           /\ changes' = changes + 1 /\ changes' # 0 /\ changes' \in Nat
           /\ UNCHANGED <<elevation_map, reserve_map, liquidatable, truth, current>>
BY DEF Change, PathInv, Searching, scanVars, mapVars

LEMMA PathInit == Init => PathInv
BY DEF Init, DiscoveryInit, PathInv, Discovering

\* Every step keeps the path.
LEMMA PathStep == PathInv /\ [Next]_vars => PathInv'
<1> SUFFICES ASSUME PathInv, [Next]_vars PROVE PathInv'
  OBVIOUS
<1>0. Len(FeePayers) \in Nat /\ Len(FeePayers) > 0 /\ DOMAIN FeePayers = 1..Len(FeePayers)
  BY LenProperties, EmptySeq, ShadowAssumption
<1>f. \A n \in 1..Len(FeePayers) : FeePayers[n] \in Payers
  BY <1>0 DEF Payers, ToSet
<1>1. CASE Discover /\ UNCHANGED shadowVars
  <2>1. asked' = asked
    BY <1>1 DEF shadowVars
  <2> QED BY <1>1, <2>1, DiscoverMoves DEF PathInv, Discovering
<1>2. CASE Change /\ UNCHANGED shadowVars
  <2>1. asked' = asked /\ payer' = payer
    BY <1>2 DEF shadowVars
  <2> QED BY <1>2, <2>1, ChangeMoves DEF PathInv, Discovering, Searching
<1>3. ASSUME ShadowStep PROVE PathInv'
  <2>0. chain' \in Chains /\ changes' \in Nat /\ pc' \notin Discovering \cup {"reported"}
    BY <1>3, ShadowKeeps DEF PathInv
  <2> USE DEF PathInv, Discovering
  <2>1. CASE PayerFromEnv
    BY <2>0, <2>1 DEF PayerFromEnv, Payers
  <2>2. CASE AskPayer
    <3> DEFINE cand == FeePayers[asked + 1]
               last == asked + 1 = Len(FeePayers)
    <3>1. asked + 1 \in 1..Len(FeePayers)
      <4>1. pc \in {"reported", "payer"}
        BY <2>2 DEF AskPayer
      <4>2. /\ asked \in Nat
            /\ pc = "reported" => asked = 0
            /\ pc = "payer" => asked \in 1..(Len(FeePayers) - 1)
        OBVIOUS
      <4> QED BY <1>0, <4>1, <4>2
    <3>2. /\ asked' = asked + 1
          /\ \/ payer' = cand /\ pc' = "blockhash"
             \/ last /\ payer' = FeePayers[1] /\ pc' = "blockhash"
             \/ ~last /\ pc' = "payer"
      BY <2>2 DEF AskPayer
    <3>3. cand \in Payers /\ FeePayers[1] \in Payers
      BY <1>0, <1>f, <3>1
    <3>4. ~last => asked + 1 \in 1..(Len(FeePayers) - 1)
      <4> DEFINE L == Len(FeePayers)
      <4>1. L \in Nat /\ asked \in Nat /\ asked + 1 \in 1..L
        BY <1>0, <3>1
      <4>2. ~last => asked + 1 # L
        OBVIOUS
      <4> HIDE DEF L, last
      <4>3. ~last => asked + 1 \in 1..(L - 1)
        BY <4>1, <4>2
      <4> QED BY <4>3 DEF L
    <3> HIDE DEF cand, last
    <3>5. CASE pc' = "blockhash" /\ payer' \in Payers
      BY <2>0, <3>1, <3>2, <3>5
    <3>6. CASE ~last /\ pc' = "payer"
      BY <2>0, <3>1, <3>2, <3>4, <3>6
    <3> QED BY <3>2, <3>3, <3>5, <3>6
  <2>3. CASE GetLatestBlockhash
    BY <2>0, <2>3 DEF GetLatestBlockhash, shadowVars
  <2>4. CASE Plan
    BY <2>0, <2>4 DEF Plan
  <2>5. CASE SimulatePlan
    BY <2>0, <2>5 DEF SimulatePlan, SimulateTx
  <2>6. CASE EncodeProve
    BY <2>0, <2>6 DEF EncodeProve
  <2>7. CASE SimulateProve
    BY <2>0, <2>7 DEF SimulateProve, SimulateTx
  <2>8. CASE EndPlans
    BY <2>0, <2>8 DEF EndPlans, shadowVars
  <2>9. CASE WriteReport
    BY <2>0, <2>9 DEF WriteReport
  <2> QED BY <1>3, <2>1, <2>2, <2>3, <2>4, <2>5, <2>6, <2>7, <2>8, <2>9 DEF ShadowStep
<1>4. CASE UNCHANGED vars
  BY <1>4 DEF vars, discoveryVars, envVars, shadowVars, PathInv
<1> QED BY <1>1, <1>2, <1>3, <1>4 DEF Next, Ended

-----------------------------------------------------------------------------
(* The ranking                                                             *)

\* Which rows an account may have.
RowsOf(o) == ClassifyObligation(o, chain.obl[o], reserve_map, elevation_map)

\* The rows that a scan makes: one of each account.
MakesRows(f, rows) ==
    LET keys == Filtered(chain.obl, ObligationDataSize) IN
    /\ rows = {f[o] : o \in keys}
    /\ \A o \in keys : f[o] \in RowsOf(o)

\* Every row is of its account.
LEMMA RowAccount ==
    ASSUME NEW o, NEW a, NEW reserves, NEW groups, NEW d \in ClassifyObligation(o, a, reserves, groups)
    PROVE  d.account = o
<1>1. ASSUME NEW decode, NEW debt PROVE Row(o, decode, debt).account = o
  BY DEF Row
<1>2. ASSUME NEW ch PROVE HealthRow(o, a, ch).account = o
  <2> DEFINE row == [Row(o, "live_health", a.has_debt) EXCEPT !.missing = ch.missing_reserves]
             full == [row EXCEPT !.health = {ch.health_factor}, !.band = BandFromKlendHealth(ch),
                        !.status = IF ch.is_liquidatable THEN "liquidatable"
                                   ELSE IF ch.below_maintenance THEN "below_maintenance"
                                   ELSE "healthy"]
  <2>1. row.account = o
    BY DEF Row
  <2>2. full.account = row.account
    BY DEF Row
  <2>3. HealthRow(o, a, ch) = row \/ HealthRow(o, a, ch) = full
    <3> HIDE DEF row
    <3> QED BY DEF HealthRow, row
  <2> HIDE DEF row, full
  <2> QED BY <2>1, <2>2, <2>3
<1>3. \/ \E decode, debt : d = Row(o, decode, debt)
      \/ \E ch : d = HealthRow(o, a, ch)
  <2> DEFINE pos == DecodeObligationLivePositions(a)
  <2>1. \/ d \in {Row(o, "incomplete", FALSE)}
        \/ d \in {Row(o, "unknown", FALSE)}
        \/ d \in {Row(o, "live_positions", a.has_debt)}
        \/ d \in {HealthRow(o, a, ch) : ch \in ComputeObligationHealthLive(pos, reserves, groups)}
    <3> DEFINE CH == ComputeObligationHealthLive(pos, reserves, groups)
               R == {HealthRow(o, a, ch) : ch \in CH}
               low == a.len < 2260
               high == a.len >= 2260
               r1 == Row(o, "incomplete", FALSE)
               r2 == Row(o, "unknown", FALSE)
               r3 == Row(o, "live_positions", a.has_debt)
    <3>1. d \in CASE low -> {r1}
                 [] high /\ pos = Undecoded -> {r2}
                 [] pos # Undecoded /\ reserves = NoMap -> {r3}
                 [] OTHER -> R
      BY Zenon DEF ClassifyObligation
    <3> HIDE DEF pos, CH, R, r1, r2, r3, low, high
    <3>2. d \in {r1} \/ d \in {r2} \/ d \in {r3} \/ d \in R
      BY <3>1
    <3> QED BY <3>2, Zenon DEF R, CH, r1, r2, r3
  <2> QED BY <2>1, Zenon
<1> QED BY <1>1, <1>2, <1>3

LEMMA RowSetsMade ==
    ASSUME NEW rows \in RowSets
    PROVE  \E f : MakesRows(f, rows)
<1> DEFINE keys == Filtered(chain.obl, ObligationDataSize)
           of == [o \in keys |-> ClassifyObligation(o, chain.obl[o], reserve_map, elevation_map)]
           choices == {f \in [keys -> UNION Range(of)] : \A o \in keys : f[o] \in of[o]}
<1>1. RowSets = {Range(f) : f \in choices}
  BY Zenon DEF RowSets
<1>2. PICK f \in choices : rows = Range(f)
  BY <1>1
<1>3. /\ DOMAIN f = keys
      /\ \A o \in keys : f[o] \in of[o]
  BY <1>2
<1>4. \A o \in keys : of[o] = RowsOf(o)
  BY DEF RowsOf
<1> HIDE DEF of, choices, keys
<1>5. rows = {f[o] : o \in keys}
  BY <1>2, <1>3 DEF Range
<1>6. MakesRows(f, rows)
  BY <1>3, <1>4, <1>5 DEF MakesRows, keys
<1> QED BY <1>6

\* They are finitely many, and each account among them has plans.
LEMMA RowsFinite ==
    ASSUME PathInv, NEW f, NEW rows, MakesRows(f, rows)
    PROVE  IsFiniteSet(rows) /\ \A d \in rows : d.account \in DOMAIN Plans
<1> DEFINE S == Filtered(chain.obl, ObligationDataSize)
<1>0. chain \in Chains /\ S \subseteq DOMAIN chain.obl
  BY DEF Filtered, PathInv
<1>1. IsFiniteSet(S)
  <2>1. IsFiniteSet(DOMAIN chain.obl)
    BY <1>0, DiscoveryAssumption DEF ChainSound
  <2> QED BY <1>0, <2>1, FS_Subset
<1>2. rows = {f[o] : o \in S} /\ \A o \in S : f[o] \in RowsOf(o)
  BY DEF MakesRows
<1>3. \A o \in S : f[o].account = o
  BY <1>2, RowAccount DEF RowsOf
<1>4. S \subseteq DOMAIN Plans
  BY <1>0, ShadowAssumption
<1> HIDE DEF S
<1>5. IsFiniteSet({f[o] : o \in S})
  BY <1>1, ImageFinite
<1> QED BY <1>2, <1>3, <1>4, <1>5

\* What a scan of the obligations leaves, when it was answered.
ScannedAs(f, rows) ==
    /\ MakesRows(f, rows)
    /\ Listing(liquidatable', {d \in rows : IsLiq(d)})
    /\ \A i, j \in DOMAIN liquidatable' :
         i < j => ~KeyLess(liquidatable'[j], liquidatable'[i])
    /\ truth' = [surely |-> OnChain(SurelyLiquidatable),
                 possibly |-> OnChain(PossiblyLiquidatable)]
    /\ current' = /\ reserve_map = DecodedReserves(Filtered(chain.res, ReserveDataSize))
                  /\ elevation_map = DecodeElevationGroups(chain.market)
    /\ gaps \subseteq gaps'

Scanned == \E f, rows : ScannedAs(f, rows)

Unscanned == UNCHANGED <<liquidatable, truth, current>>

LEMMA ScanFinds ==
    ASSUME PathInv, ScanObligations
    PROVE  Scanned \/ (Unscanned /\ gaps' = gaps \cup {"obligation GPA"})
<1>1. CASE Fail /\ gaps' = gaps \cup {"obligation GPA"} /\ UNCHANGED <<scanVars, counts>>
  BY <1>1 DEF scanVars, Unscanned
<1>2. ASSUME NEW rows \in RowSets,
             NEW liq \in {{d \in rows : IsLiq(d)}},
             \E ranked \in RankedLists(liq) : liquidatable' = ranked,
             gaps' = IF liq = {} THEN gaps \cup {"zero liquidatable"} ELSE gaps,
             truth' = [surely |-> OnChain(SurelyLiquidatable),
                       possibly |-> OnChain(PossiblyLiquidatable)],
             current' = (/\ reserve_map = DecodedReserves(Filtered(chain.res, ReserveDataSize))
                         /\ elevation_map = DecodeElevationGroups(chain.market))
      PROVE  Scanned
  <2>0. PICK f : MakesRows(f, rows)
    BY RowSetsMade
  <2>1. IsFiniteSet(liq) /\ liq = {d \in rows : IsLiq(d)}
    BY <1>2, <2>0, RowsFinite, FS_Subset
  <2>2. liquidatable' \in RankedLists(liq)
    BY <1>2
  <2>3. /\ liquidatable' \in SetToSeqs(liq)
        /\ \A i, j \in DOMAIN liquidatable' :
             i < j => ~KeyLess(liquidatable'[j], liquidatable'[i])
    BY <2>2 DEF RankedLists
  <2>4. Listing(liquidatable', liq)
    BY <2>1, <2>3, SetToSeqsLists
  <2>5. gaps \subseteq gaps'
    BY <1>2
  <2>6. ScannedAs(f, rows)
    BY <1>2, <2>0, <2>1, <2>3, <2>4, <2>5, Zenon DEF ScannedAs
  <2> QED BY <2>6 DEF Scanned
<1>3. \/ Fail /\ gaps' = gaps \cup {"obligation GPA"} /\ UNCHANGED <<scanVars, counts>>
      \/ \E rows \in RowSets : \E liq \in {{d \in rows : IsLiq(d)}} :
         /\ \E ranked \in RankedLists(liq) : liquidatable' = ranked
         /\ gaps' = IF liq = {} THEN gaps \cup {"zero liquidatable"} ELSE gaps
         /\ truth' = [surely |-> OnChain(SurelyLiquidatable),
                      possibly |-> OnChain(PossiblyLiquidatable)]
         /\ current' = /\ reserve_map = DecodedReserves(Filtered(chain.res, ReserveDataSize))
                       /\ elevation_map = DecodeElevationGroups(chain.market)
  BY Zenon DEF ScanObligations
<1> QED BY <1>1, <1>2, <1>3, Zenon

\* Only a scan of the obligations changes what was found.
LEMMA ScansFind ==
    ASSUME PathInv, Discover
    PROVE  (pc = "obligations" /\ Scanned) \/ Unscanned
<1> USE DEF Unscanned, scanVars
<1>1. CASE GetSlot
  BY <1>1 DEF GetSlot
<1>2. CASE GetHealth
  BY <1>2 DEF GetHealth
<1>3. CASE GetKnownAccounts
  BY <1>3 DEF GetKnownAccounts
<1>4. CASE ScanReserves
  BY <1>4 DEF ScanReserves
<1>5. CASE ScanObligations
  <2>1. pc = "obligations"
    BY <1>5 DEF ScanObligations
  <2> QED BY <1>5, <2>1, ScanFinds
<1>6. CASE ScanMarginfi
  BY <1>6 DEF ScanMarginfi
<1>7. CASE ScanBanks
  BY <1>7 DEF ScanBanks
<1>8. CASE ScanSave
  BY <1>8 DEF ScanSave
<1>9. CASE Report
  BY <1>9 DEF Report
<1> QED BY <1>1, <1>2, <1>3, <1>4, <1>5, <1>6, <1>7, <1>8, <1>9 DEF Discover

LEMMA RankInit == Init => RankInv
<1> SUFFICES ASSUME Init PROVE RankInv
  OBVIOUS
<1>1. liquidatable = << >>
  BY DEF Init, DiscoveryInit
<1>2. IsSeq(<< >>) /\ Len(<< >>) = 0
  BY OneOrNone
<1> QED BY <1>1, <1>2 DEF RankInv

\* Every step keeps the ranking.
LEMMA RankStep == PathInv /\ RankInv /\ [Next]_vars => RankInv'
<1> SUFFICES ASSUME PathInv, RankInv, [Next]_vars PROVE RankInv'
  OBVIOUS
<1>s. ASSUME liquidatable' = liquidatable PROVE RankInv'
  BY <1>s DEF RankInv
<1>1. CASE Discover
  <2>1. CASE Scanned
    <3>0. PICK f, rows : ScannedAs(f, rows)
      BY <2>1 DEF Scanned
    <3> DEFINE found == liquidatable'
               liq == {d \in rows : IsLiq(d)}
    <3>1. IsSeq(found) /\ DOMAIN found = 1..Len(found)
      BY <3>0, SeqFacts DEF ScannedAs, Listing
    <3>2. \A d \in rows : d.account \in DOMAIN Plans
      BY <3>0, RowsFinite DEF ScannedAs
    <3>3. \A i \in 1..Len(found) : found[i] \in liq
      BY <3>0 DEF ScannedAs, Listing
    <3>4. \A i \in 1..Len(found) : found[i].account \in DOMAIN Plans
      BY <3>2, <3>3
    <3>5. \A i, j \in 1..Len(found) : i < j => ~KeyLess(found[j], found[i])
      BY <3>0, <3>1 DEF ScannedAs
    <3> QED BY <3>1, <3>4, <3>5 DEF RankInv
  <2> QED BY <1>1, <2>1, <1>s, ScansFind DEF Unscanned
<1>2. CASE Change
  BY <1>2, <1>s, ChangeMoves
<1>3. CASE ShadowStep
  BY <1>3, <1>s, ShadowKeeps
<1>4. CASE UNCHANGED vars
  BY <1>4, <1>s DEF vars, discoveryVars, scanVars
<1> QED BY <1>1, <1>2, <1>3, <1>4 DEF Next, Ended

\* What is simulated before what was found is simulated: nothing.
LEMMA HotFacts ==
    ASSUME RankInv
    PROVE  /\ liquidatable # << >> => Hot = liquidatable
           /\ liquidatable = << >> => Len(Hot) = 0 /\ Hot = << >>
           /\ liquidatable # << >> => Len(liquidatable) \in Nat \ {0}
           /\ liquidatable = << >> => Len(liquidatable) = 0
<1>1. liquidatable # << >> => Hot = liquidatable
  BY DEF Hot
<1>2. ASSUME liquidatable = << >> PROVE Len(Hot) = 0 /\ Hot = << >>
  <2>1. Len(liquidatable) = 0 /\ CandidateCap \in Nat
    BY <1>2, OneOrNone, DiscoveryAssumption
  <2>2. Candidates = SubSeq(liquidatable, 1, 0)
    BY <2>1 DEF Candidates
  <2>3. Candidates = << >>
    BY <2>2, SubSeqEmpty
  <2>4. DOMAIN Candidates = {}
    <3>1. IsSeq(<< >>) /\ Len(<< >>) = 0
      BY OneOrNone
    <3> QED BY <2>3, <3>1, SeqFacts
  <2>5. Hot = PickedFrom(Candidates, {})
    BY <1>2, <2>4, Zenon DEF Hot
  <2>6. {} \in SUBSET (1..0)
    OBVIOUS
  <2>7. Len(PickedFrom(Candidates, {})) = 0 /\ IsSeq(PickedFrom(Candidates, {}))
    <3>1. IsSeq(PickedFrom(Candidates, {}))
      BY <2>6, PickedFromFacts
    <3>2. Len(PickedFrom(Candidates, {})) = Cardinality({})
      BY <2>6, PickedFromLength
    <3> QED BY <3>1, <3>2, FS_EmptySet
  <2>8. Hot = << >>
    BY <2>5, <2>7, EmptySeq DEF IsSeq
  <2> QED BY <2>5, <2>7, <2>8
<1>3. liquidatable # << >> => Len(liquidatable) \in Nat \ {0}
  BY EmptySeq DEF RankInv, IsSeq
<1>4. liquidatable = << >> => Len(liquidatable) = 0
  BY OneOrNone
<1> QED BY <1>1, <1>2, <1>3, <1>4

-----------------------------------------------------------------------------
(* One result per plan                                                     *)

\* One result more.
LEMMA OneMore ==
    ASSUME NEW rs, IsSeq(rs), NEW r
    PROVE  /\ IsSeq(Append(rs, r)) /\ Len(Append(rs, r)) = Len(rs) + 1 /\ Len(rs) \in Nat
           /\ \A i \in 1..Len(rs) : Append(rs, r)[i] = rs[i]
           /\ Append(rs, r)[Len(rs) + 1] = r
<1> DEFINE ss == Append(rs, r)
           n == Len(rs)
           S == {rs[i] : i \in DOMAIN rs} \cup {r}
<1>1. n \in Nat /\ DOMAIN rs = 1..n /\ rs \in Seq(S)
  <2>1. rs \in [1..n -> S] /\ n \in Nat /\ DOMAIN rs = 1..n
    BY LenProperties DEF IsSeq
  <2> QED BY <2>1 DEF IsSeq
<1>2. /\ ss \in Seq(S) /\ Len(ss) = n + 1
      /\ \A i \in 1..n : ss[i] = rs[i]
      /\ ss[n + 1] = r
  <2> HIDE DEF S
  <2> QED BY <1>1, AppendProperties DEF S
<1>3. IsSeq(ss)
  BY <1>2, TypedIsSeq
<1> QED BY <1>1, <1>2, <1>3

\* The next candidate's result.
LEMMA NextResult ==
    ASSUME NEW rs, IsSeq(rs), NEW liq, NEW n \in Nat, ResultsOf(rs, liq, n), NEW outcome
    PROVE  LET ss == Append(rs, Result(liq[n + 1].account, "Kamino", outcome)) IN
           IsSeq(ss) /\ ResultsOf(ss, liq, n + 1)
<1> DEFINE r == Result(liq[n + 1].account, "Kamino", outcome)
           ss == Append(rs, r)
<1>1. r.account = liq[n + 1].account /\ r.protocol = "Kamino"
  BY DEF Result
<1> HIDE DEF r
<1>2. Len(rs) = n /\ \A i \in 1..n : rs[i].protocol = "Kamino" /\ rs[i].account = liq[i].account
  BY DEF ResultsOf
<1>3. /\ IsSeq(ss) /\ Len(ss) = n + 1
      /\ \A i \in 1..n : ss[i] = rs[i]
      /\ ss[n + 1] = r
  BY <1>2, OneMore
<1> HIDE DEF ss
<1>4. ASSUME NEW i \in 1..(n + 1)
      PROVE  ss[i].protocol = "Kamino" /\ ss[i].account = liq[i].account
  <2>1. CASE i = n + 1
    BY <1>1, <1>3, <2>1
  <2>2. CASE i \in 1..n
    BY <1>2, <1>3, <2>2
  <2> QED BY <2>1, <2>2
<1>5. IsSeq(ss) /\ ResultsOf(ss, liq, n + 1)
  BY <1>3, <1>4 DEF ResultsOf
<1> QED BY <1>5 DEF ss, r

LEMMA ResultsInit == Init => ResultsInv
<1> SUFFICES ASSUME Init PROVE ResultsInv
  OBVIOUS
<1>1. liquidatable = << >> /\ results = << >> /\ planned = 0 /\ pc = "getSlot"
  BY DEF Init, DiscoveryInit
<1>2. IsSeq(<< >>) /\ Len(<< >>) = 0
  BY OneOrNone
<1>3. PlanCap \in Nat
  BY ShadowAssumption
<1> QED BY <1>1, <1>2, <1>3 DEF ResultsInv, ResultsOf, Planning

\* Before the plans nothing depends on what was found.
LEMMA ResultsBefore ==
    ASSUME ResultsInv, RankInv', planned' = planned, results' = results,
           pc \notin Planning, pc' \notin Planning \/ pc' = "plan"
    PROVE  ResultsInv'
<1>1. planned = 0 /\ planned' = 0 /\ IsSeq(results) /\ Len(results) = 0
  BY DEF ResultsInv, ResultsOf, Planning
<1>2. Len(liquidatable') \in Nat
  BY SeqFacts DEF RankInv
<1>3. ResultsOf(results', liquidatable', 0)
  BY <1>1 DEF ResultsOf
<1> QED BY <1>1, <1>2, <1>3, ShadowAssumption DEF ResultsInv, Planning

\* Every step keeps the results.
LEMMA ResultsStep == PathInv /\ RankInv /\ RankInv' /\ ResultsInv /\ [Next]_vars => ResultsInv'
<1> SUFFICES ASSUME PathInv, RankInv, RankInv', ResultsInv, [Next]_vars PROVE ResultsInv'
  OBVIOUS
<1>1. CASE Discover /\ UNCHANGED shadowVars
  BY <1>1, DiscoverMoves, ResultsBefore DEF shadowVars, Discovering, Planning
<1>2. CASE Change /\ UNCHANGED shadowVars
  BY <1>2, ChangeMoves, ResultsBefore DEF shadowVars, Searching, Planning
<1>3. ASSUME ShadowStep PROVE ResultsInv'
  <2>0. liquidatable' = liquidatable
    BY <1>3, ShadowKeeps
  <2>c. /\ Len(liquidatable) \in Nat /\ PlanCap \in Nat /\ planned \in Nat
        /\ planned <= Len(liquidatable) /\ planned <= PlanCap /\ IsSeq(results)
    BY SeqFacts, ShadowAssumption DEF RankInv, ResultsInv
  <2>1. CASE PayerFromEnv
    BY <2>1, ResultsBefore DEF PayerFromEnv, Planning
  <2>2. CASE AskPayer
    BY <2>2, ResultsBefore DEF AskPayer, Planning
  <2>3. CASE GetLatestBlockhash
    BY <2>3, ResultsBefore DEF GetLatestBlockhash, Planning, shadowVars
  <2>4. CASE Plan
    <3>1. /\ pc = "plan" /\ planned < PlanCap /\ planned < Len(Hot) /\ planned' = planned + 1
      BY <2>4 DEF Plan
    <3>2. planned + 1 <= Len(liquidatable) /\ Hot = liquidatable
      BY <2>c, <3>1, HotFacts
    <3>3. ResultsOf(results, liquidatable, planned)
      BY <3>1 DEF ResultsInv
    <3>4. \/ pc' = pc /\ EncodeFailed(liquidatable[planned + 1])
          \/ pc' = "simulate" /\ results' = results
      BY <2>4, <3>2, Zenon DEF Plan
    <3>5. CASE pc' = pc /\ EncodeFailed(liquidatable[planned + 1])
      <4>1. results' = Append(results, Result(liquidatable[planned + 1].account, "Kamino", "encode"))
        BY <3>5 DEF EncodeFailed
      <4>2. IsSeq(results') /\ ResultsOf(results', liquidatable, planned + 1)
        BY <2>c, <3>3, <4>1, NextResult
      <4> QED BY <2>0, <2>c, <3>1, <3>2, <3>5, <4>2 DEF ResultsInv, Planning
    <3>6. CASE pc' = "simulate" /\ results' = results
      <4>1. planned' - 1 = planned
        BY <2>c, <3>1
      <4> QED BY <2>0, <2>c, <3>1, <3>2, <3>3, <3>6, <4>1 DEF ResultsInv, Planning
    <3> QED BY <3>4, <3>5, <3>6
  <2>5. CASE SimulatePlan
    <3>1. PICK o : results' = Append(results, Result(Hot[planned].account, "Kamino", o))
      BY <2>5 DEF SimulatePlan, SimulateTx
    <3>2. pc = "simulate" /\ pc' = "plan" /\ planned' = planned
      BY <2>5 DEF SimulatePlan, SimulateTx
    <3>3. planned > 0 /\ ResultsOf(results, liquidatable, planned - 1)
      BY <3>2 DEF ResultsInv
    <3>4. planned - 1 \in Nat /\ planned - 1 + 1 = planned /\ Hot = liquidatable
      BY <2>c, <3>3, HotFacts
    <3>5. IsSeq(results') /\ ResultsOf(results', liquidatable, planned)
      <4> DEFINE n == planned - 1
      <4>1. n \in Nat /\ n + 1 = planned /\ ResultsOf(results, liquidatable, n)
        BY <3>3, <3>4
      <4>2. results' = Append(results, Result(liquidatable[n + 1].account, "Kamino", o))
        BY <3>1, <3>4, <4>1
      <4> HIDE DEF n
      <4>3. IsSeq(results') /\ ResultsOf(results', liquidatable, n + 1)
        BY <2>c, <4>1, <4>2, NextResult
      <4> QED BY <4>1, <4>3
    <3> QED BY <2>0, <2>c, <3>2, <3>5 DEF ResultsInv, Planning
  <2>6. CASE EncodeProve
    <3>1. /\ pc = "plan" /\ pc' = "prove" /\ planned = 0 /\ planned' = planned
          /\ results' = results /\ Hot = << >>
      BY <2>6 DEF EncodeProve
    <3>2. liquidatable = << >>
      BY <3>1, HotFacts
    <3> QED BY <2>0, <2>c, <3>1, <3>2 DEF ResultsInv, Planning
  <2>7. CASE SimulateProve
    <3>1. PICK o : results' = Append(results, Result("null", "prove", o))
      BY <2>7 DEF SimulateProve, SimulateTx
    <3>2. pc = "prove" /\ pc' = "summarize" /\ planned' = planned
      BY <2>7 DEF SimulateProve, SimulateTx
    <3>3. planned = 0 /\ Len(liquidatable) = 0 /\ Len(results) = 0
      BY <3>2, HotFacts DEF ResultsInv, ResultsOf
    <3> DEFINE r == Result("null", "prove", o)
    <3>4. r.protocol = "prove" /\ results' = Append(results, r)
      BY <3>1 DEF Result
    <3> HIDE DEF r
    <3>5. IsSeq(results') /\ Len(results') = 1 /\ results'[1].protocol = "prove"
      <4>1. /\ IsSeq(results') /\ Len(results') = Len(results) + 1
            /\ results'[Len(results) + 1] = r
        BY <2>c, <3>4, OneMore
      <4> QED BY <3>3, <3>4, <4>1
    <3> QED BY <2>0, <2>c, <3>2, <3>3, <3>5 DEF ResultsInv, Planning
  <2>8. CASE EndPlans
    <3>1. /\ pc = "plan" /\ pc' = "summarize" /\ planned > 0 /\ planned' = planned
          /\ results' = results /\ (planned = PlanCap \/ planned = Len(Hot))
      BY <2>8 DEF EndPlans, shadowVars
    <3>2. Hot = liquidatable
      BY <2>c, <3>1, HotFacts
    <3> QED BY <2>0, <2>c, <3>1, <3>2 DEF ResultsInv, Planning
  <2>9. CASE WriteReport
    BY <2>0, <2>9 DEF WriteReport, ResultsInv, Planning
  <2> QED BY <1>3, <2>1, <2>2, <2>3, <2>4, <2>5, <2>6, <2>7, <2>8, <2>9 DEF ShadowStep
<1>4. CASE UNCHANGED vars
  BY <1>4 DEF vars, discoveryVars, scanVars, shadowVars, ResultsInv, Planning
<1> QED BY <1>1, <1>2, <1>3, <1>4 DEF Next, Ended

\* The candidates that are planned, up to any cap, have one result each at the end,
\* in the order of their ranks, whatever failed (run_mainnet_shadow's loop).
THEOREM EachPlanHasOneResult == Spec => []OneResultPerPlan
<1>1. Init => PathInv /\ RankInv /\ ResultsInv
  BY PathInit, RankInit, ResultsInit
<1>2. PathInv /\ RankInv /\ ResultsInv /\ [Next]_vars => PathInv' /\ RankInv' /\ ResultsInv'
  BY PathStep, RankStep, ResultsStep
<1>3. ResultsInv => OneResultPerPlan
  BY DEF ResultsInv, ResultsOf, OneResultPerPlan
<1> QED BY <1>1, <1>2, <1>3, PTL DEF Spec

-----------------------------------------------------------------------------
(* The messages                                                            *)

\* Every list that is encoded can be.
LEMMA Payable ==
    ASSUME NEW plan \in (UNION Range(Plans)) \cup {ProveIxs}, NEW p \in Payers
    PROVE  IsPayable(plan, p)
<1>1. \A list \in (UNION Range(Plans)) \cup {ProveIxs} : \A q \in Payers : IsPayable(list, q)
  BY ShadowAssumption, Zenon
<1> QED BY <1>1, Zenon

LEMMA ProvePayable ==
    ASSUME NEW p \in Payers
    PROVE  IsPayable(ProveIxs, p)
<1>1. ProveIxs \in (UNION Range(Plans)) \cup {ProveIxs}
  BY Zenon
<1> QED BY <1>1, Payable, Zenon

\* The two instructions that prove the path always fit in a message.
LEMMA ProveFits ==
    ASSUME NEW p \in Payers, NEW tx \in EncodeVersionedTx(ProveIxs, p)
    PROVE  tx.err = "none"
<1> DEFINE K == Keys(ProveIxs, p)
<1>1. IsPayable(ProveIxs, p) /\ ProveIxs # << >> /\ MetasOf(ProveIxs) = {}
  BY ProvePayable, ShadowAssumption, Zenon
<1>2. IsFiniteSet(K) /\ Cardinality(K) \in Nat
  BY <1>1, KeysFinite, FS_CardinalityType
<1>3. Cardinality(K) <= 2
  <2>1. PICK q : ProgramsOf(ProveIxs) \subseteq {q}
    <3>1. CASE ProgramsOf(ProveIxs) = {}
      BY <3>1
    <3>2. CASE ProgramsOf(ProveIxs) # {}
      BY <3>2, ShadowAssumption
    <3> QED BY <3>1, <3>2
  <2>2. K \subseteq {q} \cup {p}
    BY <1>1, <2>1 DEF Keys
  <2>3. IsFiniteSet({q} \cup {p}) /\ Cardinality({q} \cup {p}) <= 2
    <3>1. IsFiniteSet({q}) /\ Cardinality({q}) = 1
      BY FS_Singleton
    <3>2. Cardinality({q} \cup {p}) \in {1, 2} /\ IsFiniteSet({q} \cup {p})
      BY <3>1, FS_AddElement
    <3> QED BY <3>2
  <2>4. Cardinality(K) <= Cardinality({q} \cup {p})
    BY <2>2, <2>3, FS_Subset
  <2>5. Cardinality({q} \cup {p}) \in Nat
    BY <2>3, FS_CardinalityType
  <2> HIDE DEF K
  <2> QED BY <1>2, <2>3, <2>4, <2>5
<1>4. ~(Cardinality(DOMAIN KeyFlags(p, ProveIxs)) > KeyLimit)
  <2>1. DOMAIN KeyFlags(p, ProveIxs) = K
    BY KeyFlagsFacts
  <2> HIDE DEF K
  <2> QED BY <1>2, <1>3, <2>1, ShadowAssumption
<1>5. \E t \in BuildAccountKeys(p, ProveIxs) : \E c : tx = [err |-> "none", header |-> t, compiled |-> c]
  BY <1>1, <1>4, Zenon DEF EncodeVersionedTx
<1> QED BY <1>5

LEMMA WireInit == Init => WireInv
BY DEF Init, WireInv

\* Every step keeps the message in hand faithful.
LEMMA WireStep == PathInv /\ RankInv /\ ResultsInv /\ WireInv /\ [Next]_vars => WireInv'
<1> SUFFICES ASSUME PathInv, RankInv, ResultsInv, WireInv, [Next]_vars PROVE WireInv'
  OBVIOUS
<1>e. ASSUME UNCHANGED <<wire, ixs, payer>>, pc \in {"simulate", "prove"} => pc' = pc PROVE WireInv'
  BY <1>e DEF WireInv
<1>1. CASE Discover /\ UNCHANGED shadowVars
  BY <1>1, <1>e, DiscoverMoves DEF shadowVars, Discovering
<1>2. CASE Change /\ UNCHANGED shadowVars
  BY <1>2, <1>e, ChangeMoves DEF shadowVars, Searching
<1>3. ASSUME ShadowStep PROVE WireInv'
  <2>n. ASSUME wire = NoTx, wire' = wire PROVE WireInv'
    BY <2>n DEF WireInv
  <2>w. pc \notin {"simulate", "prove"} => wire = NoTx
    BY DEF WireInv
  <2>1. CASE PayerFromEnv
    BY <2>1, <2>n, <2>w DEF PayerFromEnv
  <2>2. CASE AskPayer
    BY <2>2, <2>n, <2>w DEF AskPayer
  <2>3. CASE GetLatestBlockhash
    BY <2>3, <2>n, <2>w DEF GetLatestBlockhash, shadowVars
  <2>4. CASE Plan
    <3>0. pc = "plan" /\ payer' = payer /\ planned < Len(Hot)
      BY <2>4 DEF Plan
    <3> DEFINE cand == Hot[planned + 1]
    <3>h. cand.account \in DOMAIN Plans
      <4>1. planned \in Nat /\ Len(liquidatable) \in Nat
        BY SeqFacts DEF RankInv, ResultsInv
      <4>2. Hot = liquidatable
        BY <3>0, <4>1, HotFacts
      <4>3. planned + 1 \in 1..Len(liquidatable)
        BY <3>0, <4>1, <4>2
      <4> QED BY <4>2, <4>3 DEF RankInv
    <3>p. PICK plan \in Plans[cand.account] : \E tx \in EncodeVersionedTx(plan, payer) :
             IF tx.err # "none" THEN EncodeFailed(cand) /\ UNCHANGED <<pc, ixs, wire>>
             ELSE pc' = "simulate" /\ ixs' = plan /\ wire' = tx /\ UNCHANGED results
      BY <2>4 DEF Plan
    <3>1. PICK tx \in EncodeVersionedTx(plan, payer) :
             IF tx.err # "none" THEN EncodeFailed(cand) /\ UNCHANGED <<pc, ixs, wire>>
             ELSE pc' = "simulate" /\ ixs' = plan /\ wire' = tx /\ UNCHANGED results
      BY <3>p
    <3>2. pc = "plan" /\ payer' = payer
      BY <3>0
    <3>t. plan \in UNION Range(Plans)
      BY <3>h, <3>p DEF Range
    <3>3. CASE tx.err # "none"
      BY <2>n, <2>w, <3>1, <3>2, <3>3
    <3>4. CASE tx.err = "none"
      <4>1. pc' = "simulate" /\ ixs' = plan /\ wire' = tx
        BY <3>1, <3>4
      <4>2. IsPayable(plan, payer)
        BY <3>2, <3>t, Payable, Zenon DEF PathInv
      <4>3. FaithfulMessage(tx, plan, payer)
        BY <3>4, <4>2, EncodedIsFaithful
      <4> QED BY <3>2, <4>1, <4>3 DEF WireInv
    <3> QED BY <3>3, <3>4
  <2>5. CASE SimulatePlan
    BY <2>5 DEF SimulatePlan, SimulateTx, WireInv
  <2>6. CASE EncodeProve
    <3>1. PICK tx \in EncodeVersionedTx(ProveIxs, payer) : wire' = tx
      BY <2>6 DEF EncodeProve
    <3>2. pc' = "prove" /\ ixs' = ProveIxs /\ payer' = payer /\ payer \in Payers
      BY <2>6 DEF EncodeProve, PathInv
    <3>3. tx.err = "none" /\ IsPayable(ProveIxs, payer)
      BY <3>2, ProveFits, ProvePayable, Zenon
    <3>4. FaithfulMessage(tx, ProveIxs, payer)
      BY <3>3, EncodedIsFaithful
    <3> QED BY <3>1, <3>2, <3>4 DEF WireInv
  <2>7. CASE SimulateProve
    BY <2>7 DEF SimulateProve, SimulateTx, WireInv
  <2>8. CASE EndPlans
    BY <2>8, <2>n, <2>w DEF EndPlans, shadowVars
  <2>9. CASE WriteReport
    BY <2>9, <2>n, <2>w DEF WriteReport
  <2> QED BY <1>3, <2>1, <2>2, <2>3, <2>4, <2>5, <2>6, <2>7, <2>8, <2>9 DEF ShadowStep
<1>4. CASE UNCHANGED vars
  BY <1>4, <1>e DEF vars, discoveryVars, shadowVars
<1> QED BY <1>1, <1>2, <1>3, <1>4 DEF Next, Ended

\* Every message that is simulated says what was planned, for every list of
\* instructions and every number of accounts (encode_versioned_tx_bytes).
THEOREM MessagesAreFaithful == Spec => []WireFaithful
<1>1. Init => PathInv /\ RankInv /\ ResultsInv /\ WireInv
  BY PathInit, RankInit, ResultsInit, WireInit
<1>2. PathInv /\ RankInv /\ ResultsInv /\ WireInv /\ [Next]_vars
        => PathInv' /\ RankInv' /\ ResultsInv' /\ WireInv'
  BY PathStep, RankStep, ResultsStep, WireStep
<1>3. WireInv => WireFaithful
  BY DEF WireInv, WireFaithful
<1> QED BY <1>1, <1>2, <1>3, PTL DEF Spec

-----------------------------------------------------------------------------
(* The progress line                                                       *)

\* The scan stops at the first result that ends it.
LEMMA FirstReturns ==
    ASSUME NEW s, IsSeq(s), NEW k \in 1..Len(s), Returns(s[k])
    PROVE  /\ SelectInSeq(s, Returns) \in 1..Len(s)
           /\ SelectInSeq(s, Returns) <= k
           /\ Returns(s[SelectInSeq(s, Returns)])
<1> DEFINE I == {i \in 1..Len(s) : Returns(s[i])}
<1>1. k \in I /\ I \in SUBSET Nat
  BY SeqFacts
<1>2. SelectInSeq(s, Returns) = CHOOSE x \in I : \A y \in I : x <= y
  BY <1>1, Zenon DEF SelectInSeq, Min
<1>3. \E x \in I : \A y \in I : x <= y
  BY <1>1, LeastExists
<1> QED BY <1>1, <1>2, <1>3

\* What the line says for any results.
LEMMA LineTellsFurthest ==
    ASSUME NEW rs, IsSeq(rs), NEW i \in KaminoAt(rs)
    PROVE  /\ rs[i].outcome = "ok" => SummarizeKaminoSimProgress(rs) = "ok"
           /\ (\A k \in KaminoAt(rs) : rs[k].outcome # "ok")
                /\ rs[i].outcome \in InstructionErrors \ {"3012"}
              => SummarizeKaminoSimProgress(rs) \in InstructionErrors \ {"3012"}
<1> DEFINE n == Len(rs)
           I(k) == {j \in KaminoAt(rs) : SortKey(rs[j]) = k}
           class(k) == PickedFrom(rs, I(k))
           c0 == class(0)
           c1 == class(1)
           c2 == class(2)
           c01 == c0 \o c1
           s == c01 \o c2
           first == SelectInSeq(s, Returns)
           line == SummarizeKaminoSimProgress(rs)
<1>1. n \in Nat /\ DOMAIN rs = 1..n
  BY SeqFacts
<1>2. ASSUME NEW k PROVE I(k) \in SUBSET (1..n)
  BY <1>1 DEF KaminoAt
<1>3. ASSUME NEW k
      PROVE  /\ IsSeq(class(k))
             /\ \A j \in I(k) : \E m \in 1..Len(class(k)) : class(k)[m] = rs[j]
             /\ \A m \in 1..Len(class(k)) : \E j \in I(k) : class(k)[m] = rs[j]
  <2> DEFINE J == I(k)
  <2>1. n \in Nat /\ J \in SUBSET (1..n)
    BY <1>1, <1>2
  <2> HIDE DEF J, n
  <2>2. /\ IsSeq(PickedFrom(rs, J))
        /\ \A j \in J : \E m \in 1..Len(PickedFrom(rs, J)) : PickedFrom(rs, J)[m] = rs[j]
    BY <2>1, PickedFromFacts
  <2>3. ASSUME NEW m \in 1..Len(PickedFrom(rs, J))
        PROVE  \E j \in J : PickedFrom(rs, J)[m] = rs[j]
    <3>1. PickedByRank(rs, J)
      BY <2>1, PickedFromRank
    <3> QED BY <3>1 DEF PickedByRank
  <2> QED BY <2>2, <2>3 DEF J
<1>r. /\ \A j \in I(0) : \E m \in 1..Len(c0) : c0[m] = rs[j]
      /\ \A m \in 1..Len(c0) : \E j \in I(0) : c0[m] = rs[j]
      /\ \A j \in I(1) : \E m \in 1..Len(c1) : c1[m] = rs[j]
      /\ \A m \in 1..Len(c1) : \E j \in I(1) : c1[m] = rs[j]
  <2> HIDE DEF I, class
  <2> QED BY <1>3
<1>4. /\ IsSeq(c01) /\ Len(c01) = Len(c0) + Len(c1) /\ Len(c0) \in Nat /\ Len(c1) \in Nat
      /\ \A m \in 1..Len(c0) : c01[m] = c0[m]
      /\ \A m \in 1..Len(c1) : c01[Len(c0) + m] = c1[m]
  <2>1. IsSeq(c0) /\ IsSeq(c1)
    BY <1>3
  <2> HIDE DEF c0, c1
  <2> QED BY <2>1, Joined
<1>5. /\ IsSeq(s) /\ Len(s) = Len(c01) + Len(c2) /\ Len(c2) \in Nat
      /\ \A m \in 1..Len(c01) : s[m] = c01[m]
  <2>1. IsSeq(c01) /\ IsSeq(c2)
    BY <1>3, <1>4
  <2> HIDE DEF c01, c2
  <2> QED BY <2>1, Joined
<1>6. line = IF first # 0
             THEN (IF NullErr(s[first]) THEN "no InstructionError" ELSE s[first].outcome)
             ELSE IF s = << >> THEN "no strategy sims"
                  ELSE IF NullErr(s[Len(s)]) THEN "no InstructionError" ELSE s[Len(s)].outcome
  BY Zenon DEF SummarizeKaminoSimProgress, KaminoSorted
<1> HIDE DEF line, n
<1>7. ASSUME NEW k \in 1..Len(s), Returns(s[k])
      PROVE  /\ first \in 1..k /\ Returns(s[first]) /\ line = s[first].outcome
  <2>1. first \in 1..Len(s) /\ first <= k /\ Returns(s[first])
    <3> HIDE DEF s
    <3> QED BY <1>5, <1>7, FirstReturns
  <2> HIDE DEF s, first
  <2>2. first # 0 /\ ~NullErr(s[first])
    BY <2>1 DEF Returns
  <2> QED BY <1>6, <2>1, <2>2
<1> HIDE DEF s, first
<1>8. ASSUME rs[i].outcome = "ok" PROVE line = "ok"
  <2>1. i \in I(0)
    BY <1>8 DEF SortKey
  <2>2. PICK m \in 1..Len(c0) : c0[m] = rs[i]
    BY <1>r, <2>1, Zenon
  <2>3. Len(c0) >= 1 /\ 1 \in 1..Len(c0)
    <3> HIDE DEF c0
    <3> QED BY <1>4, <2>2
  <2>4. PICK j \in I(0) : c0[1] = rs[j]
    BY <1>r, <2>3, Zenon
  <2>5. rs[j].outcome = "ok"
    <3>1. SortKey(rs[j]) = 0
      BY <2>4
    <3> QED BY <3>1 DEF SortKey
  <2> HIDE DEF c0, c1, c2, c01, I
  <2>6. 1 \in 1..Len(s) /\ s[1] = rs[j]
    BY <1>4, <1>5, <2>3, <2>4
  <2>7. Returns(s[1])
    BY <2>5, <2>6 DEF Returns, NullErr
  <2>8. first = 1 /\ line = s[first].outcome
    BY <1>7, <2>6, <2>7
  <2> QED BY <2>5, <2>6, <2>8
<1>9. ASSUME \A k \in KaminoAt(rs) : rs[k].outcome # "ok",
             rs[i].outcome \in InstructionErrors \ {"3012"}
      PROVE  line \in InstructionErrors \ {"3012"}
  <2>1. i \in I(1)
    BY <1>9 DEF SortKey
  <2>2. PICK m \in 1..Len(c1) : c1[m] = rs[i]
    BY <1>r, <2>1, Zenon
  <2>3. Len(c0) = 0
    <3>1. ASSUME NEW k \in 1..Len(c0) PROVE FALSE
      <4>1. PICK j \in I(0) : c0[k] = rs[j]
        BY <1>r, Zenon
      <4>2. j \in KaminoAt(rs) /\ SortKey(rs[j]) = 0
        BY <4>1
      <4>3. rs[j].outcome = "ok"
        BY <4>2 DEF SortKey
      <4> QED BY <1>9, <4>2, <4>3
    <3> HIDE DEF c0, c1, c2, c01, I
    <3> QED BY <1>4, <3>1
  <2>4. ASSUME NEW k \in 1..Len(c1) PROVE rs[i].outcome # "ok" /\ c1[k].outcome \in InstructionErrors
    <3>1. PICK j \in I(1) : c1[k] = rs[j]
      BY <1>r, Zenon
    <3>2. SortKey(rs[j]) = 1
      BY <3>1
    <3>3. rs[j].outcome \in InstructionErrors
      BY <3>2 DEF SortKey
    <3> QED BY <1>9, <3>1, <3>3
  <2> HIDE DEF c0, c1, c2, c01, I
  <2>5. \A k \in 1..Len(c1) : k \in 1..Len(s) /\ s[k] = c1[k]
    BY <1>4, <1>5, <2>3
  <2>6. Returns(s[m])
    BY <1>9, <2>2, <2>5 DEF Returns, NullErr, InstructionErrors
  <2>7. first \in 1..m /\ Returns(s[first]) /\ line = s[first].outcome
    BY <1>7, <2>5, <2>6
  <2>8. first \in 1..Len(c1)
    BY <1>4, <2>2, <2>7
  <2>9. s[first].outcome \in InstructionErrors
    BY <2>4, <2>5, <2>8
  <2> QED BY <2>7, <2>9 DEF Returns
<1> QED BY <1>8, <1>9 DEF line

\* Nothing happens once the line is written.
LEMMA SummaryStep == SummaryInv /\ [Next]_vars => SummaryInv'
<1> SUFFICES ASSUME SummaryInv, [Next]_vars, pc' = "done"
             PROVE  summary' = SummarizeKaminoSimProgress(results')
  BY DEF SummaryInv
<1>1. CASE Discover
  BY <1>1, DiscoverMoves DEF Discovering
<1>2. CASE Change /\ UNCHANGED shadowVars
  BY <1>2 DEF Change, Discovering
<1>3. CASE ShadowStep
  <2>1. WriteReport
    BY <1>3 DEF ShadowStep, PayerFromEnv, AskPayer, GetLatestBlockhash, Plan, SimulatePlan,
                EncodeProve, SimulateProve, SimulateTx, EndPlans
  <2> QED BY <2>1 DEF WriteReport
<1>4. CASE UNCHANGED vars
  BY <1>4 DEF vars, discoveryVars, shadowVars, SummaryInv
<1> QED BY <1>1, <1>2, <1>3, <1>4 DEF Next, Ended

\* The line tells the furthest outcome, whatever the order of the results.
THEOREM FurthestIsTold == Spec => []SummaryTellsFurthest
<1>1. Init => PathInv /\ RankInv /\ ResultsInv /\ SummaryInv
  BY PathInit, RankInit, ResultsInit DEF Init, DiscoveryInit, SummaryInv
<1>2. PathInv /\ RankInv /\ ResultsInv /\ SummaryInv /\ [Next]_vars
        => PathInv' /\ RankInv' /\ ResultsInv' /\ SummaryInv'
  BY PathStep, RankStep, ResultsStep, SummaryStep
<1>3. ResultsInv /\ SummaryInv => SummaryTellsFurthest
  <2> SUFFICES ASSUME ResultsInv, SummaryInv, pc = "done" PROVE SummaryTellsFurthest
    BY DEF SummaryTellsFurthest
  <2> DEFINE seen == {results[i].outcome : i \in KaminoAt(results)}
  <2>1. IsSeq(results) /\ summary = SummarizeKaminoSimProgress(results)
    BY DEF ResultsInv, SummaryInv
  <2>2. ASSUME "ok" \in seen PROVE summary = "ok"
    <3>1. PICK i \in KaminoAt(results) : results[i].outcome = "ok"
      BY <2>2
    <3> QED BY <2>1, <3>1, LineTellsFurthest
  <2>3. ASSUME "ok" \notin seen, (seen \cap InstructionErrors) \ {"3012"} # {}
        PROVE  summary \in InstructionErrors \ {"3012"}
    <3>1. PICK i \in KaminoAt(results) : results[i].outcome \in InstructionErrors \ {"3012"}
      BY <2>3
    <3>2. \A k \in KaminoAt(results) : results[k].outcome # "ok"
      BY <2>3
    <3> QED BY <2>1, <3>1, <3>2, LineTellsFurthest
  <2> HIDE DEF seen
  <2> QED BY <2>2, <2>3 DEF SummaryTellsFurthest, seen
<1> QED BY <1>1, <1>2, <1>3, PTL DEF Spec

-----------------------------------------------------------------------------
(* The recomputed health                                                   *)

LEMMA NatTimes == ASSUME NEW x \in Nat, NEW y \in Nat PROVE x * y \in Nat
OBVIOUS

\* A reserve as the computation reads it: a borrow factor of 0 means 100.
ReadAs(r, q) ==
    /\ r.market_price_sf = q.market_price_sf
    /\ r.liquidation_threshold_pct = q.liquidation_threshold_pct
    /\ r.total_available_amount = q.total_available_amount
    /\ r.borrowed_amount_sf = q.borrowed_amount_sf
    /\ r.fees_sf = q.fees_sf
    /\ r.collateral_mint_total_supply = q.collateral_mint_total_supply
    /\ r.borrow_factor_pct = IF q.borrow_factor_pct = 0 THEN 100 ELSE q.borrow_factor_pct

\* What is decoded of a market's reserves: all of them.
ReservesRead(c, reserves) ==
    /\ DOMAIN reserves = Filtered(c.res, ReserveDataSize)
    /\ \A k \in Filtered(c.res, ReserveDataSize) :
         c.res[k] \in ReserveAccounts /\ ReadAs(reserves[k], c.res[k])

LEMMA ReservesDecoded ==
    ASSUME chain \in Chains
    PROVE  ReservesRead(chain, DecodedReserves(Filtered(chain.res, ReserveDataSize)))
<1> DEFINE K == Filtered(chain.res, ReserveDataSize)
           R == DecodedReserves(K)
<1>1. ASSUME NEW k \in K
      PROVE  /\ chain.res[k] \in ReserveAccounts
             /\ DecodeReserveLiveRisk(chain.res[k]) \in ReserveAccounts
             /\ DecodeReserveLiveRisk(chain.res[k]) # Undecoded
             /\ ReadAs(DecodeReserveLiveRisk(chain.res[k]), chain.res[k])
  <2> DEFINE q == chain.res[k]
  <2>1. q \in ReserveAccounts /\ q.len = 8624
    BY DiscoveryAssumption DEF ChainSound, Filtered, ReserveDataSize
  <2> HIDE DEF q
  <2>2. DecodeReserveLiveRisk(q) = [q EXCEPT !.borrow_factor_pct = IF @ = 0 THEN 100 ELSE @]
    BY <2>1 DEF DecodeReserveLiveRisk, ReserveMinLen
  <2>3. DecodeReserveLiveRisk(q) \in ReserveAccounts
    BY <2>1, <2>2 DEF ReserveAccounts
  <2>4. DecodeReserveLiveRisk(q) # Undecoded
    BY <2>3, DiscoveryAssumption DEF ErrorsTold
  <2>5. ReadAs(DecodeReserveLiveRisk(q), q)
    BY <2>1, <2>2 DEF ReserveAccounts, ReadAs
  <2> QED BY <2>1, <2>3, <2>4, <2>5 DEF q
<1>2. DOMAIN R = K /\ \A k \in K : R[k] = DecodeReserveLiveRisk(chain.res[k])
  <2>1. {r \in K : DecodeReserveLiveRisk(chain.res[r]) # Undecoded} = K
    BY <1>1
  <2> HIDE DEF K
  <2> QED BY <2>1 DEF DecodedReserves
<1> HIDE DEF R
<1>3. \A k \in K : ReadAs(R[k], chain.res[k]) /\ chain.res[k] \in ReserveAccounts
  BY <1>1, <1>2
<1> QED BY <1>2, <1>3 DEF ReservesRead, R

\* The group that counts for an elevated obligation.
GroupOf(c, id) == CHOOSE g \in Range(c.market.groups) : g.id = id

GroupsRead(c, groups) ==
    \A id : id # 0 /\ (\E g \in Range(c.market.groups) : g.id = id) =>
        /\ id \in DOMAIN groups
        /\ groups[id].liquidation_threshold_pct = GroupOf(c, id).liquidation_threshold_pct
        /\ GroupOf(c, id).liquidation_threshold_pct \in Nat

LEMMA GroupsDecoded ==
    ASSUME NEW c \in Chains, DecodeElevationGroups(c.market) # Undecoded
    PROVE  GroupsRead(c, DecodeElevationGroups(c.market))
<1> SUFFICES ASSUME NEW id, id # 0, \E g \in Range(c.market.groups) : g.id = id
             PROVE  LET groups == DecodeElevationGroups(c.market) IN
                    /\ id \in DOMAIN groups
                    /\ groups[id].liquidation_threshold_pct = GroupOf(c, id).liquidation_threshold_pct
                    /\ GroupOf(c, id).liquidation_threshold_pct \in Nat
  BY Zenon DEF GroupsRead
<1> DEFINE E == c.market.groups
           used == {i \in DOMAIN E : E[i].id # 0 \/ E[i].ltv_pct # 0
                                       \/ E[i].liquidation_threshold_pct # 0}
           LastOf(n) == Max({i \in used : E[i].id = n})
           groups == DecodeElevationGroups(c.market)
<1>1. /\ E \in Seq(Range(E))
      /\ \A i, j \in DOMAIN E : /\ E[i].liquidation_threshold_pct \in Nat
                                /\ E[i].id # 0 /\ E[i].id = E[j].id => i = j
  BY DiscoveryAssumption DEF ChainSound
<1>2. DOMAIN E \subseteq Nat
  BY <1>1, LenProperties
<1>3. PICK i \in DOMAIN E : E[i].id = id
  BY DEF Range
<1>4. groups = [n \in {E[k].id : k \in used} |-> E[LastOf(n)]]
  <2>1. ~(c.market.len < GroupsMinLen)
    BY Zenon DEF DecodeElevationGroups
  <2> QED BY <2>1 DEF DecodeElevationGroups
<1> HIDE DEF groups
<1>5. i \in used /\ \A j \in used : E[j].id = id => j = i
  BY <1>1, <1>3
<1>6. LastOf(id) = i
  <2>1. {j \in used : E[j].id = id} = {i}
    BY <1>3, <1>5
  <2>2. i \in Nat
    BY <1>2
  <2>3. Max({i}) = i
    BY <2>2 DEF Max
  <2> HIDE DEF used, E
  <2> QED BY <2>1, <2>3
<1>7. id \in DOMAIN groups /\ groups[id] = E[i]
  <2> HIDE DEF LastOf, used
  <2> QED BY <1>3, <1>4, <1>5, <1>6
<1>8. GroupOf(c, id) = E[i]
  <2>1. E[i] \in Range(E)
    BY DEF Range
  <2>2. \A g \in Range(E) : g.id = id => g = E[i]
    BY <1>1, <1>3 DEF Range
  <2> HIDE DEF E
  <2> QED BY <1>3, <2>1, <2>2 DEF GroupOf, E
<1> QED BY <1>1, <1>7, <1>8 DEF groups

\* What a slot's shares or tokens are worth, at least (up = 0) and at most (up = 1).
Worth(q, n, up) == OnChainValue(q, CollateralToLiquidity(q, n, up))

LEMMA SharesType ==
    ASSUME NEW q \in ReserveAccounts, NEW n \in Nat, NEW up \in {0, 1}
    PROVE  CollateralToLiquidity(q, n, up) \in Nat
<1> DEFINE t == TotalLiquidityTokens(q)
           s == q.collateral_mint_total_supply
           more == up * (s - 1)
           x == n * t
<1>1. t \in Nat
  <2>1. q.total_available_amount + q.borrowed_amount_sf - q.fees_sf \in Int
    BY DEF ReserveAccounts
  <2> QED BY <2>1 DEF TotalLiquidityTokens
<1>2. s \in Nat
  BY DEF ReserveAccounts
<1> HIDE DEF t, s
<1>3. x \in Nat
  BY <1>1, NatTimes
<1>4. s # 0 => more \in Nat
  <2>1. CASE up = 0
    BY <1>2, <2>1
  <2>2. CASE up = 1
    BY <1>2, <2>2
  <2> QED BY <2>1, <2>2
<1>5. CollateralToLiquidity(q, n, up) = IF s = 0 THEN n ELSE (x + more) \div s
  BY DEF CollateralToLiquidity, t, s
<1> HIDE DEF x, more
<1>6. s # 0 => (x + more) \div s \in Nat
  BY <1>2, <1>3, <1>4, Quotient
<1> QED BY <1>5, <1>6

LEMMA UsdIsProduct ==
    ASSUME NEW x \in Nat, NEW y \in Nat
    PROVE  TokensToUsd(x, y) = x * y
BY DEF TokensToUsd

\* A slot of a priced reserve is computed at its worth, one of another is worth nothing.
LEMMA SlotWorth ==
    ASSUME NEW r, NEW q \in ReserveAccounts, ReadAs(r, q), NEW n \in Nat, NEW up \in {0, 1}
    PROVE  /\ TokensToUsd(CollateralToLiquidity(r, n, up), r.market_price_sf) = Worth(q, n, up)
           /\ TokensToUsd(n, r.market_price_sf) = OnChainValue(q, n)
           /\ Worth(q, n, up) \in Nat /\ OnChainValue(q, n) \in Nat
           /\ r.market_price_sf = 0 => Worth(q, n, up) = 0 /\ OnChainValue(q, n) = 0
<1> DEFINE x == CollateralToLiquidity(q, n, up)
           y == q.market_price_sf
<1>1. CollateralToLiquidity(r, n, up) = x
  BY DEF ReadAs, CollateralToLiquidity, TotalLiquidityTokens
<1>2. x \in Nat /\ y \in Nat /\ r.market_price_sf = y
  BY SharesType DEF ReserveAccounts, ReadAs
<1>3. Worth(q, n, up) = x * y /\ OnChainValue(q, n) = n * y
  BY DEF Worth, OnChainValue
<1> HIDE DEF x, y
<1>4. TokensToUsd(x, y) = x * y /\ TokensToUsd(n, y) = n * y
  BY <1>2, UsdIsProduct
<1>5. x * y \in Nat /\ n * y \in Nat
  BY <1>2, NatTimes
<1>6. y = 0 => x * y = 0 /\ n * y = 0
  BY <1>2
<1> QED BY <1>1, <1>2, <1>3, <1>4, <1>5, <1>6

\* The places of the slots that the computation counts.
CountedAt(reserves, slots) ==
    {i \in DOMAIN slots : slots[i].amount # 0 /\ Counted(reserves, slots[i])}

\* A sum over those is the sum over all slots, if the others have nothing to add.
LEMMA SlotSum ==
    ASSUME NEW D, IsFiniteSet(D), NEW f, Counts(f, D), NEW S \in SUBSET D, NEW g,
           \A i \in S : g[i] = f[i], \A i \in D \ S : f[i] = 0
    PROVE  SumFunctionOnSet(g, S) = SumFunctionOnSet(f, D)
<1>1. SumFunctionOnSet(f, D) = SumFunctionOnSet(f, S)
  BY SumSkipsZeros
<1>2. IsFiniteSet(S) /\ Counts(f, S)
  BY FS_Subset DEF Counts
<1>3. SumFunctionOnSet(g, S) = SumFunctionOnSet(f, S)
  BY <1>2, SumAgrees
<1> QED BY <1>1, <1>3

\* What the chain's rule adds up, slot by slot.
DebtAt(a, res) ==
    [i \in DOMAIN a.borrows |->
       IF a.borrows[i].amount = 0 THEN 0
       ELSE OnChainValue(res[a.borrows[i].reserve], a.borrows[i].amount) *
              (IF a.elevation_group # 0 \/ res[a.borrows[i].reserve].borrow_factor_pct = 0 THEN 100
               ELSE res[a.borrows[i].reserve].borrow_factor_pct)]

DepositAt(a, res, W, up) ==
    [i \in DOMAIN a.deposits |->
       IF a.deposits[i].amount = 0 THEN 0
       ELSE Worth(res[a.deposits[i].reserve], a.deposits[i].amount, up) * W[i]]

\* The threshold that counts for a deposit.
ThrAt(c, a) ==
    [i \in DOMAIN a.deposits |->
       IF a.elevation_group = 0 THEN c.res[a.deposits[i].reserve].liquidation_threshold_pct
       ELSE GroupOf(c, a.elevation_group).liquidation_threshold_pct]

Ones(a) == [i \in DOMAIN a.deposits |-> 1]

Debt(c, a) == SumFunctionOnSet(DebtAt(a, c.res), DOMAIN a.borrows)
Limit(c, a, up) == SumFunctionOnSet(DepositAt(a, c.res, ThrAt(c, a), up), DOMAIN a.deposits)
Deposited(c, a, up) == SumFunctionOnSet(DepositAt(a, c.res, Ones(a), up), DOMAIN a.deposits)

LEMMA RuleMeans ==
    ASSUME NEW c, NEW a, NEW up
    PROVE  /\ OnChainDebt(a, c.res) = Debt(c, a)
           /\ OnChainLimit(a, c.res, c.market.groups, up) = Limit(c, a, up)
           /\ OnChainWorth(a, c.res, up) = Deposited(c, a, up)
<1>1. OnChainDebt(a, c.res) = Debt(c, a)
  BY Zenon DEF OnChainDebt, Total, Debt, DebtAt
<1> DEFINE thr(r) == IF a.elevation_group = 0 THEN r.liquidation_threshold_pct
                     ELSE GroupOf(c, a.elevation_group).liquidation_threshold_pct
<1>2. OnChainDeposits(a, c.res, thr, up) = Limit(c, a, up)
  <2>1. DepositAt(a, c.res, ThrAt(c, a), up) =
          [i \in DOMAIN a.deposits |->
             IF a.deposits[i].amount = 0 THEN 0
             ELSE Worth(c.res[a.deposits[i].reserve], a.deposits[i].amount, up)
                    * thr(c.res[a.deposits[i].reserve])]
    BY DEF DepositAt, ThrAt
  <2> QED BY <2>1, Zenon DEF OnChainDeposits, Total, Limit, Worth
<1>3. OnChainDeposits(a, c.res, LAMBDA r : 1, up) = Deposited(c, a, up)
  <2>1. DepositAt(a, c.res, Ones(a), up) =
          [i \in DOMAIN a.deposits |->
             IF a.deposits[i].amount = 0 THEN 0
             ELSE Worth(c.res[a.deposits[i].reserve], a.deposits[i].amount, up) * 1]
    BY DEF DepositAt, Ones
  <2> QED BY <2>1, Zenon DEF OnChainDeposits, Total, Deposited, Worth
<1>4. OnChainLimit(a, c.res, c.market.groups, up) = Limit(c, a, up)
  BY <1>2, Zenon DEF OnChainLimit, GroupOf
<1>5. OnChainWorth(a, c.res, up) = Deposited(c, a, up)
  BY <1>3, Zenon DEF OnChainWorth
<1> QED BY <1>1, <1>4, <1>5

\* The slots that count are in use, and stand where they stood.
LEMMA ActiveFacts ==
    ASSUME NEW slots, \A i \in DOMAIN slots : slots[i].amount \in Nat, NEW reserves
    PROVE  /\ {i \in {j \in DOMAIN ActiveSlots(slots) : ActiveSlots(slots)[j].amount # 0} :
                  Counted(reserves, ActiveSlots(slots)[i])} = CountedAt(reserves, slots)
           /\ \A i \in CountedAt(reserves, slots) : ActiveSlots(slots)[i] = slots[i]
<1> DEFINE used(s) == /\ ~(s.amount = 0 /\ s.reserve = DefaultKey)
                      /\ s.amount > 0 \/ s.market_value_sf > 0
           U == {j \in DOMAIN slots : used(slots[j])}
           A == ActiveSlots(slots)
<1>1. A = [i \in U |-> slots[i]]
  BY Zenon DEF ActiveSlots
<1>2. \A i \in DOMAIN slots : slots[i].amount # 0 => i \in U
  OBVIOUS
<1>3. U \subseteq DOMAIN slots
  OBVIOUS
<1> HIDE DEF U, A
<1>4. DOMAIN A = U /\ \A i \in U : A[i] = slots[i]
  BY <1>1
<1>5. {i \in {j \in DOMAIN A : A[j].amount # 0} : Counted(reserves, A[i])} = CountedAt(reserves, slots)
  BY <1>2, <1>3, <1>4 DEF CountedAt
<1>6. \A i \in CountedAt(reserves, slots) : A[i] = slots[i]
  BY <1>2, <1>4 DEF CountedAt
<1> QED BY <1>5, <1>6 DEF A

\* What the computation adds up, slot by slot.
ComputedDebtAt(a, reserves, groups) ==
    [i \in CountedAt(reserves, a.borrows) |->
       TokensToUsd(a.borrows[i].amount, reserves[a.borrows[i].reserve].market_price_sf) *
         (IF a.elevation_group # 0 /\ a.elevation_group \in DOMAIN groups THEN 100
          ELSE reserves[a.borrows[i].reserve].borrow_factor_pct)]

ComputedAt(a, reserves, W, up) ==
    [i \in CountedAt(reserves, a.deposits) |->
       TokensToUsd(CollateralToLiquidity(reserves[a.deposits[i].reserve], a.deposits[i].amount, up),
                   reserves[a.deposits[i].reserve].market_price_sf) * W[i]]

ReadThrAt(a, reserves, groups) ==
    [i \in CountedAt(reserves, a.deposits) |->
       IF a.elevation_group # 0 /\ a.elevation_group \in DOMAIN groups
       THEN groups[a.elevation_group].liquidation_threshold_pct
       ELSE reserves[a.deposits[i].reserve].liquidation_threshold_pct]

ComputedDebt(a, reserves, groups) ==
    SumFunctionOnSet(ComputedDebtAt(a, reserves, groups), CountedAt(reserves, a.borrows))
ComputedWorth(a, reserves, up) ==
    SumFunctionOnSet(ComputedAt(a, reserves, Ones(a), up), CountedAt(reserves, a.deposits))
ComputedLimit(a, reserves, groups, up) ==
    SumFunctionOnSet(ComputedAt(a, reserves, ReadThrAt(a, reserves, groups), up),
                     CountedAt(reserves, a.deposits))

\* A result is computed from numbers near the sums.
ComputedFrom(ch, wl, wh, ll, lh, debt) ==
    \E sums, m : /\ ch = KlendComputedHealth(sums, m)
                 /\ sums.deposited \in Rounded(wl, wh)
                 /\ sums.unhealthy \in Rounded(ll, lh)
                 /\ sums.bf_debt \in Rounded(debt, debt)

LEMMA ComputedMeans ==
    ASSUME NEW a, NEW reserves, NEW groups,
           \A i \in DOMAIN a.deposits : a.deposits[i].amount \in Nat,
           \A i \in DOMAIN a.borrows : a.borrows[i].amount \in Nat,
           NEW ch \in ComputeObligationHealthLive(LivePositions(a), reserves, groups)
    PROVE  ComputedFrom(ch, ComputedWorth(a, reserves, 0), ComputedWorth(a, reserves, 1),
                        ComputedLimit(a, reserves, groups, 0), ComputedLimit(a, reserves, groups, 1),
                        ComputedDebt(a, reserves, groups))
<1> DEFINE pos == LivePositions(a)
           D == pos.deposits
           B == pos.borrows
           cD == {i \in {j \in DOMAIN D : D[j].amount # 0} : Counted(reserves, D[i])}
           cB == {i \in {j \in DOMAIN B : B[j].amount # 0} : Counted(reserves, B[i])}
           id == pos.header.elevation_group
           elevated == id # 0 /\ id \in DOMAIN groups
           worthOf(s, up) == TokensToUsd(CollateralToLiquidity(reserves[s.reserve], s.amount, up),
                                         reserves[s.reserve].market_price_sf)
           thr(s) == IF elevated THEN groups[id].liquidation_threshold_pct
                     ELSE reserves[s.reserve].liquidation_threshold_pct
           ltv(s) == IF elevated THEN groups[id].ltv_pct ELSE reserves[s.reserve].loan_to_value_pct
           bf(s) == IF elevated THEN 100 ELSE reserves[s.reserve].borrow_factor_pct
           debtOf(s) == TokensToUsd(s.amount, reserves[s.reserve].market_price_sf) * bf(s)
           debt == SumFunctionOnSet([i \in cB |-> debtOf(B[i])], cB)
           worth(up) == SumFunctionOnSet([i \in cD |-> worthOf(D[i], up) * 1], cD)
           limit(up) == SumFunctionOnSet([i \in cD |-> worthOf(D[i], up) * thr(D[i])], cD)
           allowed(up) == SumFunctionOnSet([i \in cD |-> worthOf(D[i], up) * ltv(D[i])], cD)
           missing == Cardinality({j \in DOMAIN D : D[j].amount # 0} \ cD)
                        + Cardinality({j \in DOMAIN B : B[j].amount # 0} \ cB)
           near == [deposited : Rounded(worth(0), worth(1)),
                    unhealthy : Rounded(limit(0), limit(1)),
                    allowed : Rounded(allowed(0), allowed(1)),
                    bf_debt : Rounded(debt, debt)]
<1>1. id = a.elevation_group /\ D = ActiveSlots(a.deposits) /\ B = ActiveSlots(a.borrows)
  BY DEF LivePositions, LiveHeader
<1> HIDE DEF pos
<1>3. ComputeObligationHealthLive(pos, reserves, groups) =
        {KlendComputedHealth(sums, missing) : sums \in near}
  BY Zenon DEF ComputeObligationHealthLive, Total
<1>4. /\ cD = CountedAt(reserves, a.deposits) /\ \A i \in cD : D[i] = a.deposits[i]
      /\ cB = CountedAt(reserves, a.borrows) /\ \A i \in cB : B[i] = a.borrows[i]
  BY <1>1, ActiveFacts, SMTT(30)
<1>5. ComputedFrom(ch, worth(0), worth(1), limit(0), limit(1), debt)
  <2> HIDE DEF worth, limit, allowed, debt, missing, id, D, B
  <2>1. PICK sums \in near : ch = KlendComputedHealth(sums, missing)
    <3> HIDE DEF near
    <3> QED BY <1>3 DEF pos
  <2>2. /\ sums.deposited \in Rounded(worth(0), worth(1))
        /\ sums.unhealthy \in Rounded(limit(0), limit(1))
        /\ sums.bf_debt \in Rounded(debt, debt)
    OBVIOUS
  <2> QED BY <2>1, <2>2, Zenon DEF ComputedFrom
<1> HIDE DEF D, B, cD, cB, id
<1>6. debt = ComputedDebt(a, reserves, groups)
  BY <1>1, <1>4 DEF ComputedDebt, ComputedDebtAt
<1>7. ASSUME NEW up PROVE worth(up) = ComputedWorth(a, reserves, up)
  <2>1. \A i \in cD : Ones(a)[i] = 1
    BY <1>4 DEF Ones, CountedAt
  <2>2. [i \in cD |-> worthOf(D[i], up) * 1] = ComputedAt(a, reserves, Ones(a), up)
    BY <1>4, <2>1 DEF ComputedAt
  <2> QED BY <1>4, <2>2 DEF ComputedWorth
<1>8. ASSUME NEW up PROVE limit(up) = ComputedLimit(a, reserves, groups, up)
  <2>1. \A i \in cD : ReadThrAt(a, reserves, groups)[i] = thr(D[i])
    BY <1>1, <1>4 DEF ReadThrAt
  <2> HIDE DEF thr
  <2>2. [i \in cD |-> worthOf(D[i], up) * thr(D[i])] =
           ComputedAt(a, reserves, ReadThrAt(a, reserves, groups), up)
    BY <1>4, <2>1 DEF ComputedAt
  <2> QED BY <1>4, <2>2 DEF ComputedLimit
<1> HIDE DEF debt, worth, limit
<1> QED BY <1>5, <1>6, <1>7, <1>8, Zenon

\* What an obligation of a sound chain is made of.
LEMMA SlotsRead ==
    ASSUME NEW c \in Chains, NEW o \in Filtered(c.obl, ObligationDataSize)
    PROVE  LET a == c.obl[o] IN
           /\ SlotsSound(c, a.deposits) /\ SlotsSound(c, a.borrows)
           /\ a.elevation_group # 0 => \E g \in Range(c.market.groups) : g.id = a.elevation_group
BY DiscoveryAssumption DEF ChainSound

\* A slot with an amount: its reserve, as it is and as it was read.
LEMMA SlotReserve ==
    ASSUME NEW c \in Chains, NEW slots, SlotsSound(c, slots), NEW i \in DOMAIN slots,
           slots[i].amount # 0, NEW reserves, ReservesRead(c, reserves)
    PROVE  LET n == slots[i].amount
               q == c.res[slots[i].reserve]
               r == reserves[slots[i].reserve]
           IN /\ n \in Nat /\ q \in ReserveAccounts /\ ReadAs(r, q)
              /\ i \in CountedAt(reserves, slots) <=> r.market_price_sf # 0
<1> DEFINE k == slots[i].reserve
<1>1. slots[i].amount \in Nat /\ k \in Filtered(c.res, ReserveDataSize)
  BY DEF SlotsSound
<1>2. k \in DOMAIN reserves /\ c.res[k] \in ReserveAccounts /\ ReadAs(reserves[k], c.res[k])
  BY <1>1 DEF ReservesRead
<1>3. i \in CountedAt(reserves, slots) <=> reserves[k].market_price_sf # 0
  BY <1>2 DEF CountedAt, Counted
<1> QED BY <1>1, <1>2, <1>3

\* The sums that are computed are the chain's.
LEMMA DebtAgrees ==
    ASSUME NEW c \in Chains, NEW o \in Filtered(c.obl, ObligationDataSize),
           NEW reserves, ReservesRead(c, reserves), NEW groups, GroupsRead(c, groups)
    PROVE  /\ ComputedDebt(c.obl[o], reserves, groups) = Debt(c, c.obl[o])
           /\ Debt(c, c.obl[o]) \in Nat
<1> DEFINE a == c.obl[o]
           D == DOMAIN a.borrows
           S == CountedAt(reserves, a.borrows)
           f == DebtAt(a, c.res)
           g == ComputedDebtAt(a, reserves, groups)
           id == a.elevation_group
           elevated == id # 0 /\ id \in DOMAIN groups
<1>1. SlotsSound(c, a.borrows) /\ (elevated <=> id # 0)
  BY SlotsRead DEF GroupsRead
<1>2. IsFiniteSet(D) /\ S \in SUBSET D
  BY <1>1 DEF SlotsSound, CountedAt
<1>3. ASSUME NEW i \in D
      PROVE  f[i] \in Nat /\ (i \in S => g[i] = f[i]) /\ (i \notin S => f[i] = 0)
  <2>1. CASE a.borrows[i].amount = 0
    BY <2>1 DEF DebtAt, CountedAt
  <2>2. CASE a.borrows[i].amount # 0
    <3> DEFINE n == a.borrows[i].amount
               q == c.res[a.borrows[i].reserve]
               r == reserves[a.borrows[i].reserve]
               w == IF id # 0 \/ q.borrow_factor_pct = 0 THEN 100 ELSE q.borrow_factor_pct
    <3>1. /\ n \in Nat /\ q \in ReserveAccounts /\ ReadAs(r, q)
          /\ i \in S <=> r.market_price_sf # 0
      BY <1>1, <2>2, SlotReserve
    <3>2. f[i] = OnChainValue(q, n) * w
      BY <2>2 DEF DebtAt
    <3>3. i \in S => g[i] = TokensToUsd(n, r.market_price_sf) *
                              (IF elevated THEN 100 ELSE r.borrow_factor_pct)
      BY DEF ComputedDebtAt
    <3>4. (IF elevated THEN 100 ELSE r.borrow_factor_pct) = w /\ w \in Nat
      BY <1>1, <3>1 DEF ReadAs, ReserveAccounts
    <3> HIDE DEF n, q, r, w, f, g, S, elevated
    <3>5. /\ TokensToUsd(n, r.market_price_sf) = OnChainValue(q, n)
          /\ OnChainValue(q, n) \in Nat
          /\ r.market_price_sf = 0 => OnChainValue(q, n) = 0
      BY <3>1, SlotWorth
    <3>6. f[i] \in Nat
      BY <3>2, <3>4, <3>5, NatTimes
    <3>7. i \in S => g[i] = f[i]
      BY <3>2, <3>3, <3>4, <3>5
    <3>8. i \notin S => f[i] = 0
      BY <3>1, <3>2, <3>4, <3>5
    <3> QED BY <3>6, <3>7, <3>8
  <2> QED BY <2>1, <2>2
<1> HIDE DEF f, g, S, D
<1>4. Counts(f, D)
  BY <1>3 DEF Counts
<1>5. SumFunctionOnSet(g, S) = SumFunctionOnSet(f, D)
  BY <1>2, <1>3, <1>4, SlotSum
<1>6. SumFunctionOnSet(f, D) \in Nat
  BY <1>2, <1>4, SumType
<1> QED BY <1>5, <1>6 DEF ComputedDebt, Debt, f, g, S, D

LEMMA DepositsAgree ==
    ASSUME NEW c \in Chains, NEW o \in Filtered(c.obl, ObligationDataSize), NEW up \in {0, 1},
           NEW reserves, ReservesRead(c, reserves), NEW groups, GroupsRead(c, groups)
    PROVE  /\ ComputedWorth(c.obl[o], reserves, up) = Deposited(c, c.obl[o], up)
           /\ ComputedLimit(c.obl[o], reserves, groups, up) = Limit(c, c.obl[o], up)
           /\ Deposited(c, c.obl[o], up) \in Nat /\ Limit(c, c.obl[o], up) \in Nat
<1> DEFINE a == c.obl[o]
           D == DOMAIN a.deposits
           S == CountedAt(reserves, a.deposits)
           f1 == DepositAt(a, c.res, Ones(a), up)
           g1 == ComputedAt(a, reserves, Ones(a), up)
           f2 == DepositAt(a, c.res, ThrAt(c, a), up)
           g2 == ComputedAt(a, reserves, ReadThrAt(a, reserves, groups), up)
           id == a.elevation_group
           elevated == id # 0 /\ id \in DOMAIN groups
           G == GroupOf(c, id).liquidation_threshold_pct
<1>1. SlotsSound(c, a.deposits)
  BY SlotsRead
<1>g. /\ elevated <=> id # 0
      /\ id # 0 => groups[id].liquidation_threshold_pct = G /\ G \in Nat
  BY SlotsRead DEF GroupsRead
<1>2. IsFiniteSet(D) /\ S \in SUBSET D
  BY <1>1 DEF SlotsSound, CountedAt
<1>3. ASSUME NEW i \in D
      PROVE  /\ f1[i] \in Nat /\ (i \in S => g1[i] = f1[i]) /\ (i \notin S => f1[i] = 0)
             /\ f2[i] \in Nat /\ (i \in S => g2[i] = f2[i]) /\ (i \notin S => f2[i] = 0)
  <2>1. CASE a.deposits[i].amount = 0
    BY <2>1 DEF DepositAt, CountedAt
  <2>2. CASE a.deposits[i].amount # 0
    <3> DEFINE n == a.deposits[i].amount
               q == c.res[a.deposits[i].reserve]
               r == reserves[a.deposits[i].reserve]
               w == IF id = 0 THEN q.liquidation_threshold_pct ELSE G
               v == IF elevated THEN groups[id].liquidation_threshold_pct
                    ELSE r.liquidation_threshold_pct
               usd == TokensToUsd(CollateralToLiquidity(r, n, up), r.market_price_sf)
    <3>1. /\ n \in Nat /\ q \in ReserveAccounts /\ ReadAs(r, q)
          /\ i \in S <=> r.market_price_sf # 0
      BY <1>1, <2>2, SlotReserve
    <3>2. f1[i] = Worth(q, n, up) * 1 /\ f2[i] = Worth(q, n, up) * w
      BY <2>2 DEF DepositAt, Ones, ThrAt
    <3>3. i \in S => g1[i] = usd * 1 /\ g2[i] = usd * v
      BY DEF ComputedAt, Ones, ReadThrAt
    <3> HIDE DEF G
    <3>4. v = w /\ w \in Nat
      BY <1>g, <3>1 DEF ReadAs, ReserveAccounts
    <3>5. /\ usd = Worth(q, n, up) /\ Worth(q, n, up) \in Nat
          /\ r.market_price_sf = 0 => Worth(q, n, up) = 0
      <4> HIDE DEF n, q, r
      <4> QED BY <3>1, SlotWorth
    <3> HIDE DEF n, q, r, w, v, usd, f1, g1, f2, g2, S, elevated
    <3>6. f1[i] \in Nat /\ f2[i] \in Nat
      BY <3>2, <3>4, <3>5, NatTimes
    <3>7. i \in S => g1[i] = f1[i] /\ g2[i] = f2[i]
      BY <3>2, <3>3, <3>4, <3>5
    <3>8. i \notin S => f1[i] = 0 /\ f2[i] = 0
      BY <3>1, <3>2, <3>4, <3>5
    <3> QED BY <3>6, <3>7, <3>8
  <2> QED BY <2>1, <2>2
<1> HIDE DEF f1, g1, f2, g2, S, D
<1>4. Counts(f1, D) /\ Counts(f2, D)
  BY <1>3 DEF Counts
<1>5. SumFunctionOnSet(g1, S) = SumFunctionOnSet(f1, D)
  BY <1>2, <1>3, <1>4, SlotSum
<1>6. SumFunctionOnSet(g2, S) = SumFunctionOnSet(f2, D)
  BY <1>2, <1>3, <1>4, SlotSum
<1>7. SumFunctionOnSet(f1, D) \in Nat /\ SumFunctionOnSet(f2, D) \in Nat
  BY <1>2, <1>4, SumType
<1> QED BY <1>5, <1>6, <1>7
        DEF ComputedWorth, ComputedLimit, Deposited, Limit, f1, g1, f2, g2, S, D

\* What an f64 may be wrong by is less than the number.
LEMMA SlackFacts ==
    ASSUME NEW x \in Nat
    PROVE  Slack(x) \in Nat /\ Slack(x) <= x /\ (x > 0 => Slack(x) < x)
<1> DEFINE q == x \div Precision
<1>1. Precision \in Nat /\ Precision >= 2
  BY DiscoveryAssumption
<1>2. q \in Nat /\ Precision * q <= x
  BY <1>1, Quotient
<1> HIDE DEF q
<1>3. 2 * q <= Precision * q /\ Precision * q \in Nat
  BY <1>1, <1>2, TimesMonotone, NatTimes
<1>4. 2 * q <= x
  BY <1>2, <1>3
<1> QED BY <1>2, <1>4 DEF Slack, q

\* Limit over debt, rounded, is between the bounds, unless it is taken for 1000
\* because there is no limit.
LEMMA HealthBounded ==
    ASSUME NEW ll \in Nat, NEW lh \in Nat, NEW debt \in Nat,
           NEW u \in Rounded(ll, lh), NEW b \in Rounded(debt, debt), b > 0
    PROVE  LET h == IF b <= 0 \/ u <= 0 THEN 1000 * Precision ELSE (u * Precision) \div b
               least == ((ll - Slack(ll)) * Precision) \div (debt + Slack(debt))
               most == ((lh + Slack(lh)) * Precision) \div (debt - Slack(debt))
           IN /\ h \in Int /\ least \in Int /\ least <= h
              /\ ll > 0 => most \in Int /\ h <= most
<1> DEFINE l == ll - Slack(ll)
           m == lh + Slack(lh)
           big == debt + Slack(debt)
           small == debt - Slack(debt)
           least == (l * Precision) \div big
           most == (m * Precision) \div small
           h == IF b <= 0 \/ u <= 0 THEN 1000 * Precision ELSE (u * Precision) \div b
<1>1. Precision \in Nat
  BY DiscoveryAssumption
<1>2. l \in Nat /\ m \in Nat /\ big \in Nat /\ small \in Nat /\ (ll > 0 => l > 0)
  BY SlackFacts
<1>3. u \in Int /\ b \in Int /\ l <= u /\ u <= m /\ small <= b /\ b <= big
  BY <1>2 DEF Rounded
<1>4. big > 0 /\ small > 0
  <2>1. debt > 0
    <3>1. debt = 0 => Slack(debt) <= 0
      BY SlackFacts
    <3> HIDE DEF small
    <3>2. debt + Slack(debt) > 0
      BY <1>2, <1>3
    <3> QED BY <3>1, <3>2, SlackFacts
  <2> QED BY <2>1, SlackFacts
<1> HIDE DEF l, m, big, small
<1>5. u \in Nat /\ b \in Nat \ {0} /\ big \in Nat \ {0} /\ small \in Nat \ {0}
  BY <1>2, <1>3, <1>4
<1>6. /\ l * Precision \in Nat /\ u * Precision \in Nat /\ m * Precision \in Nat
      /\ l * Precision <= u * Precision /\ u * Precision <= m * Precision
  BY <1>1, <1>2, <1>3, <1>5, NatTimes, TimesMonotone
<1> DEFINE lp == l * Precision
           up == u * Precision
           mp == m * Precision
<1>7. lp \in Nat /\ up \in Nat /\ mp \in Nat /\ lp <= up /\ up <= mp
  BY <1>6
<1>8. u = 0 => lp = 0
  BY <1>1, <1>2, <1>3
<1> HIDE DEF lp, up, mp
<1>9. /\ lp \div big \in Nat /\ up \div b \in Nat /\ mp \div small \in Nat
      /\ lp \div big <= up \div b /\ up \div b <= mp \div small
  BY <1>3, <1>5, <1>7, Quotient, QuotientMonotone
<1>10. lp = 0 => lp \div big = 0
  BY <1>5
<1>11. 1000 * Precision \in Nat
  BY <1>1
<1>12. h = IF b <= 0 \/ u <= 0 THEN 1000 * Precision ELSE up \div b
  BY DEF up
<1> HIDE DEF h
<1>13. h \in Int /\ lp \div big <= h
  BY <1>5, <1>8, <1>9, <1>10, <1>11, <1>12
<1>14. ll > 0 => h <= mp \div small
  BY <1>2, <1>3, <1>5, <1>9, <1>12
<1> QED BY <1>9, <1>13, <1>14 DEF h, lp, mp, l, m, big, small

\* The decision, on the sums and on their bounds.
Decides(d, u, b) == b >= 100 * MinNotional /\ d >= MinNotional /\ b > u

Sure(wl, lh, debt) ==
    /\ debt - Slack(debt) > lh + Slack(lh)
    /\ debt - Slack(debt) >= 100 * MinNotional
    /\ wl - Slack(wl) >= MinNotional

Possible(wh, ll, debt) ==
    /\ debt + Slack(debt) > ll - Slack(ll)
    /\ debt + Slack(debt) >= 100 * MinNotional
    /\ wh + Slack(wh) >= MinNotional

\* What rounding decides, only numbers close to the bounds leave open.
LEMMA RoundedDecides ==
    ASSUME NEW wl \in Nat, NEW wh \in Nat, NEW ll \in Nat, NEW lh \in Nat, NEW debt \in Nat,
           NEW d \in Rounded(wl, wh), NEW u \in Rounded(ll, lh), NEW b \in Rounded(debt, debt)
    PROVE  /\ Sure(wl, lh, debt) => Decides(d, u, b)
           /\ Decides(d, u, b) => Possible(wh, ll, debt) /\ b > 0
<1>1. MinNotional \in Nat \ {0}
  BY DiscoveryAssumption
<1>2. /\ Slack(wl) \in Nat /\ Slack(wh) \in Nat /\ Slack(ll) \in Nat /\ Slack(lh) \in Nat
      /\ Slack(debt) \in Nat
  BY SlackFacts
<1> QED BY <1>1, <1>2 DEF Rounded, Sure, Possible, Decides

\* What is computed for an account is what the rule says, up to rounding.
LEMMA ComputedIsRight ==
    ASSUME NEW c \in Chains, NEW o \in Filtered(c.obl, ObligationDataSize),
           NEW reserves, ReservesRead(c, reserves), NEW groups, GroupsRead(c, groups),
           NEW ch \in ComputeObligationHealthLive(LivePositions(c.obl[o]), reserves, groups)
    PROVE  /\ ch.is_liquidatable \in BOOLEAN
           /\ SurelyLiquidatable(c.obl[o], c.res, c.market.groups) => ch.is_liquidatable
           /\ ch.is_liquidatable =>
                /\ PossiblyLiquidatable(c.obl[o], c.res, c.market.groups)
                /\ ch.bf_debt > 0
                /\ Within(c, c.obl[o], ch.health_factor)
<1> DEFINE a == c.obl[o]
           debt == Debt(c, a)
           ll == Limit(c, a, 0)
           lh == Limit(c, a, 1)
           wl == Deposited(c, a, 0)
           wh == Deposited(c, a, 1)
           least == ((ll - Slack(ll)) * Precision) \div (debt + Slack(debt))
           most == ((lh + Slack(lh)) * Precision) \div (debt - Slack(debt))
<1>1. /\ debt \in Nat /\ ll \in Nat /\ lh \in Nat /\ wl \in Nat /\ wh \in Nat
      /\ ComputedDebt(a, reserves, groups) = debt
      /\ ComputedWorth(a, reserves, 0) = wl /\ ComputedWorth(a, reserves, 1) = wh
      /\ ComputedLimit(a, reserves, groups, 0) = ll /\ ComputedLimit(a, reserves, groups, 1) = lh
  BY DebtAgrees, DepositsAgree
<1>2. /\ OnChainDebt(a, c.res) = debt
      /\ OnChainLimit(a, c.res, c.market.groups, 0) = ll
      /\ OnChainLimit(a, c.res, c.market.groups, 1) = lh
      /\ OnChainWorth(a, c.res, 0) = wl /\ OnChainWorth(a, c.res, 1) = wh
  BY RuleMeans, Zenon
<1>3. /\ \A i \in DOMAIN a.deposits : a.deposits[i].amount \in Nat
      /\ \A i \in DOMAIN a.borrows : a.borrows[i].amount \in Nat
  BY SlotsRead DEF SlotsSound
<1> HIDE DEF debt, ll, lh, wl, wh
<1>4. ComputedFrom(ch, wl, wh, ll, lh, debt)
  <2> HIDE DEF a
  <2>1. ch \in ComputeObligationHealthLive(LivePositions(a), reserves, groups)
    BY DEF a
  <2>2. ComputedFrom(ch, ComputedWorth(a, reserves, 0), ComputedWorth(a, reserves, 1),
                     ComputedLimit(a, reserves, groups, 0), ComputedLimit(a, reserves, groups, 1),
                     ComputedDebt(a, reserves, groups))
    BY <1>3, <2>1, ComputedMeans
  <2> QED BY <1>1, <2>2, Zenon
<1>5. PICK sums, m : /\ ch = KlendComputedHealth(sums, m)
                     /\ sums.deposited \in Rounded(wl, wh)
                     /\ sums.unhealthy \in Rounded(ll, lh)
                     /\ sums.bf_debt \in Rounded(debt, debt)
  BY <1>4, Zenon DEF ComputedFrom
<1> DEFINE d == sums.deposited
           u == sums.unhealthy
           b == sums.bf_debt
           h == IF b <= 0 \/ u <= 0 THEN 1000 * Precision ELSE (u * Precision) \div b
<1>6. /\ ch.bf_debt = b /\ ch.health_factor = h
      /\ ch.is_liquidatable <=> Decides(d, u, b)
      /\ ch.is_liquidatable \in BOOLEAN
  <2> DEFINE liq == (b >= 100 * MinNotional /\ d >= MinNotional) /\ b > u
  <2>1. ch.bf_debt = b /\ ch.health_factor = h /\ ch.is_liquidatable = liq
    BY <1>5 DEF KlendComputedHealth
  <2>2. liq \in BOOLEAN
    OBVIOUS
  <2>3. liq <=> Decides(d, u, b)
    BY DEF Decides
  <2> HIDE DEF liq, b, d, u, h
  <2> QED BY <2>1, <2>2, <2>3, Zenon
<1>7. d \in Rounded(wl, wh) /\ u \in Rounded(ll, lh) /\ b \in Rounded(debt, debt)
  BY <1>5
<1> HIDE DEF d, u, b
<1>8. SurelyLiquidatable(a, c.res, c.market.groups) <=> Sure(wl, lh, debt)
  BY <1>2, Zenon DEF SurelyLiquidatable, Sure
<1>9. PossiblyLiquidatable(a, c.res, c.market.groups) <=> Possible(wh, ll, debt)
  BY <1>2, Zenon DEF PossiblyLiquidatable, Possible
<1>11. /\ Sure(wl, lh, debt) => Decides(d, u, b)
       /\ Decides(d, u, b) => Possible(wh, ll, debt) /\ b > 0
  BY <1>1, <1>7, RoundedDecides
<1>10. ASSUME b > 0
       PROVE  Within(c, a, h)
  <2>1. /\ h \in Int /\ least \in Int /\ least <= h
        /\ ll > 0 => most \in Int /\ h <= most
    BY <1>1, <1>7, <1>10, HealthBounded
  <2>2. /\ HealthLeast(a, c.res, c.market.groups) = least
        /\ HealthMost(a, c.res, c.market.groups) = most
        /\ CountsCollateral(a, c.res, c.market.groups) <=> ll > 0
    BY <1>2, Zenon DEF HealthLeast, HealthMost, CountsCollateral
  <2> HIDE DEF h, least, most
  <2> QED BY <2>1, <2>2, Zenon DEF Within
<1> HIDE DEF h
<1> QED BY <1>6, <1>8, <1>9, <1>10, <1>11, Zenon DEF a

\* The rows an obligation may get.
LEMMA RowIsRight ==
    ASSUME NEW c \in Chains, NEW o \in Filtered(c.obl, ObligationDataSize),
           NEW reserves, ReservesRead(c, reserves), NEW groups, GroupsRead(c, groups),
           NEW d \in ClassifyObligation(o, c.obl[o], reserves, groups)
    PROVE  /\ SurelyLiquidatable(c.obl[o], c.res, c.market.groups) => IsLiq(d)
           /\ IsLiq(d) => /\ PossiblyLiquidatable(c.obl[o], c.res, c.market.groups)
                          /\ HealthWithin(c, d)
<1> DEFINE a == c.obl[o]
           surely == SurelyLiquidatable(a, c.res, c.market.groups)
           possibly == PossiblyLiquidatable(a, c.res, c.market.groups)
           CH == ComputeObligationHealthLive(LivePositions(a), reserves, groups)
           bare == Row(o, "live_positions", a.has_debt)
<1>1. o \in DOMAIN c.obl /\ a.len = 3344
  BY DEF Filtered, ObligationDataSize
<1>2. /\ DecodeObligationLivePositions(a) = LivePositions(a)
      /\ LivePositions(a) # Undecoded
  <2>1. Undecoded # LiveHeader(a) /\ Undecoded # LivePositions(a)
    BY <1>1, DiscoveryAssumption DEF ErrorsTold
  <2>2. DecodeObligationLiveHeader(a) = LiveHeader(a)
    BY <1>1 DEF DecodeObligationLiveHeader, HeaderMinLen
  <2> QED BY <1>1, <2>1, <2>2 DEF DecodeObligationLivePositions, PositionsMinLen
<1>3. d.account = o
  BY RowAccount
<1>4. d \in (IF reserves = NoMap THEN {bare} ELSE {HealthRow(o, a, ch) : ch \in CH})
  <2> DEFINE pos == DecodeObligationLivePositions(a)
             R == {HealthRow(o, a, ch) : ch \in ComputeObligationHealthLive(pos, reserves, groups)}
             r1 == {Row(o, "incomplete", FALSE)}
             r2 == {Row(o, "unknown", FALSE)}
             low == a.len < 2260
             high == a.len >= 2260
             empty == reserves = NoMap
  <2>1. d \in CASE low -> r1
              [] high /\ pos = Undecoded -> r2
              [] pos # Undecoded /\ empty -> {bare}
              [] OTHER -> R
    BY Zenon DEF ClassifyObligation
  <2>2. ~low /\ pos = LivePositions(a) /\ pos # Undecoded
    BY <1>1, <1>2
  <2> HIDE DEF pos
  <2>3. R = {HealthRow(o, a, ch) : ch \in CH}
    BY <2>2
  <2> HIDE DEF R, r1, r2, low, high, empty, bare, CH
  <2>4. d \in IF empty THEN {bare} ELSE R
    BY <2>1, <2>2
  <2> QED BY <2>3, <2>4 DEF empty
<1>5. CASE reserves = NoMap
  <2>1. Filtered(c.res, ReserveDataSize) = {}
    BY <1>5 DEF ReservesRead, NoMap
  <2>2. \A i \in DOMAIN a.borrows : a.borrows[i].amount = 0
    BY <2>1, SlotsRead DEF SlotsSound
  <2>3. Debt(c, a) = 0
    <3> DEFINE D == DOMAIN a.borrows
               f == DebtAt(a, c.res)
    <3>1. \A i \in D : f[i] = 0
      BY <2>2 DEF DebtAt
    <3>2. IsFiniteSet(D)
      BY SlotsRead DEF SlotsSound
    <3> HIDE DEF D, f
    <3>3. Counts(f, D)
      BY <3>1 DEF Counts
    <3>4. SumFunctionOnSet(f, D) = SumFunctionOnSet(f, {})
      BY <3>1, <3>2, <3>3, SumSkipsZeros
    <3>5. SumFunctionOnSet(f, {}) = 0
      BY SumPick, FS_EmptySet
    <3> QED BY <3>4, <3>5 DEF Debt, D, f
  <2>4. ~surely
    <3>1. OnChainDebt(a, c.res) = 0
      BY <2>3, RuleMeans, Zenon
    <3>2. surely => 0 - Slack(0) >= 100 * MinNotional
      BY <3>1, Zenon DEF SurelyLiquidatable
    <3>3. Slack(0) \in Nat /\ MinNotional \in Nat \ {0}
      BY SlackFacts, DiscoveryAssumption
    <3> HIDE DEF surely
    <3> QED BY <3>2, <3>3
  <2>5. bare.band = "none" /\ bare.status = "none"
    BY DEF Row
  <2> HIDE DEF surely, possibly, bare
  <2>6. ~IsLiq(d)
    BY <1>4, <1>5, <2>5 DEF IsLiq
  <2> QED BY <2>4, <2>6 DEF surely
<1>6. CASE reserves # NoMap
  <2> HIDE DEF CH
  <2>1. PICK ch \in CH : d = HealthRow(o, a, ch)
    BY <1>4, <1>6
  <2>2. /\ ch.is_liquidatable \in BOOLEAN
        /\ surely => ch.is_liquidatable
        /\ ch.is_liquidatable => possibly /\ ch.bf_debt > 0 /\ Within(c, a, ch.health_factor)
    BY <2>1, ComputedIsRight, Zenon DEF CH
  <2> DEFINE row == [Row(o, "live_health", a.has_debt) EXCEPT !.missing = ch.missing_reserves]
             band == BandFromKlendHealth(ch)
             full == [row EXCEPT !.health = {ch.health_factor}, !.band = band,
                        !.status = IF ch.is_liquidatable THEN "liquidatable"
                                   ELSE IF ch.below_maintenance THEN "below_maintenance"
                                   ELSE "healthy"]
  <2>3. d = IF ch.bf_debt > 0 \/ ch.deposited > 0 THEN full ELSE row
    BY <2>1, Zenon DEF HealthRow
  <2>4. band = "CRITICAL" <=> ch.is_liquidatable
    BY <2>2 DEF BandFromKlendHealth
  <2> HIDE DEF band
  <2>5. /\ row.band = "none" /\ row.status = "none"
        /\ full.band = band /\ full.health = {ch.health_factor}
        /\ full.status = "liquidatable" <=> ch.is_liquidatable
    BY <2>2 DEF Row
  <2> HIDE DEF row, full, surely, possibly
  <2>6. CASE ch.bf_debt > 0 \/ ch.deposited > 0
    <3>1. d.band = band /\ d.health = {ch.health_factor}
          /\ (d.status = "liquidatable" <=> ch.is_liquidatable)
      BY <2>3, <2>5, <2>6
    <3>2. IsLiq(d) <=> ch.is_liquidatable
      BY <2>4, <3>1, Zenon DEF IsLiq
    <3>3. ch.is_liquidatable => HealthWithin(c, d)
      BY <1>3, <2>2, <3>1, Zenon DEF HealthWithin, a
    <3> QED BY <2>2, <3>2, <3>3, Zenon DEF surely, possibly
  <2>7. CASE ~(ch.bf_debt > 0 \/ ch.deposited > 0)
    <3>1. ~IsLiq(d)
      BY <2>3, <2>5, <2>7 DEF IsLiq
    <3>2. ~surely
      BY <2>2, <2>7
    <3> QED BY <3>1, <3>2 DEF surely
  <2> QED BY <2>6, <2>7
<1> QED BY <1>5, <1>6

\* A scan with the chain's own maps finds what the rule makes liquidatable, with its health.
LEMMA ScannedIsExact ==
    ASSUME PathInv, elevation_map # Undecoded, Scanned
    PROVE  /\ ScanExact'
           /\ current' => \A i \in 1..Len(liquidatable') : HealthWithin(chain, liquidatable'[i])
<1>0. PICK f, rows : ScannedAs(f, rows)
  BY DEF Scanned
<1> SUFFICES ASSUME reserve_map = DecodedReserves(Filtered(chain.res, ReserveDataSize)),
                    elevation_map = DecodeElevationGroups(chain.market)
             PROVE  /\ truth'.surely \subseteq FoundAccounts'
                    /\ FoundAccounts' \subseteq truth'.possibly
                    /\ \A i \in 1..Len(liquidatable') : HealthWithin(chain, liquidatable'[i])
  BY <1>0, Zenon DEF ScannedAs, ScanExact
<1> DEFINE F == Filtered(chain.obl, ObligationDataSize)
           S(o) == SurelyLiquidatable(chain.obl[o], chain.res, chain.market.groups)
           P(o) == PossiblyLiquidatable(chain.obl[o], chain.res, chain.market.groups)
           liq == {d \in rows : IsLiq(d)}
           found == liquidatable'
<1>1. chain \in Chains
  BY DEF PathInv
<1>2. ReservesRead(chain, reserve_map)
  BY <1>1, ReservesDecoded
<1>3. GroupsRead(chain, elevation_map)
  BY <1>1, GroupsDecoded
<1>4. ASSUME NEW o \in F
      PROVE  /\ f[o].account = o /\ (S(o) => IsLiq(f[o]))
             /\ IsLiq(f[o]) => P(o) /\ HealthWithin(chain, f[o])
  <2>1. f[o] \in ClassifyObligation(o, chain.obl[o], reserve_map, elevation_map)
    BY <1>0 DEF ScannedAs, MakesRows, RowsOf
  <2>2. f[o].account = o
    BY <2>1, RowAccount, Zenon
  <2>3. o \in Filtered(chain.obl, ObligationDataSize)
    OBVIOUS
  <2>4. /\ SurelyLiquidatable(chain.obl[o], chain.res, chain.market.groups) => IsLiq(f[o])
        /\ IsLiq(f[o]) => /\ PossiblyLiquidatable(chain.obl[o], chain.res, chain.market.groups)
                          /\ HealthWithin(chain, f[o])
    BY <1>1, <1>2, <1>3, <2>1, <2>3, RowIsRight
  <2> QED BY <2>2, <2>4, Zenon
<1>5. rows = {f[o] : o \in F}
  BY <1>0 DEF ScannedAs, MakesRows
<1>6. /\ Listing(found, liq)
      /\ truth' = [surely |-> OnChain(SurelyLiquidatable), possibly |-> OnChain(PossiblyLiquidatable)]
  BY <1>0, Zenon DEF ScannedAs
<1>7. truth'.surely = {o \in F : S(o)} /\ truth'.possibly = {o \in F : P(o)}
  <2> DEFINE A == OnChain(SurelyLiquidatable)
             B == OnChain(PossiblyLiquidatable)
  <2>1. A = {o \in F : S(o)} /\ B = {o \in F : P(o)}
    BY Zenon DEF OnChain
  <2>2. truth' = [surely |-> A, possibly |-> B]
    BY <1>6, Zenon
  <2> HIDE DEF A, B
  <2>3. truth'.surely = A /\ truth'.possibly = B
    BY <2>2
  <2> QED BY <2>1, <2>3, Zenon
<1>8. DOMAIN found = 1..Len(found)
  BY <1>6, SeqFacts DEF Listing
<1> HIDE DEF F, S, P
<1>9. /\ \A i \in DOMAIN found : found[i] \in liq
      /\ \A d \in liq : \E i \in DOMAIN found : found[i] = d
  BY <1>6, <1>8 DEF Listing
<1> HIDE DEF found
<1>10. FoundAccounts' = {found[i].account : i \in DOMAIN found}
  BY DEF FoundAccounts, found
<1>11. ASSUME NEW i \in DOMAIN found
       PROVE  found[i].account \in truth'.possibly /\ HealthWithin(chain, found[i])
  <2>1. PICK o \in F : found[i] = f[o]
    BY <1>5, <1>9
  <2>2. IsLiq(found[i])
    BY <1>9
  <2>3. found[i].account = o /\ P(o) /\ HealthWithin(chain, found[i])
    BY <1>4, <2>1, <2>2
  <2> QED BY <1>7, <2>3
<1>12. ASSUME NEW o \in F, S(o)
       PROVE  o \in FoundAccounts'
  <2>1. f[o] \in liq /\ f[o].account = o
    BY <1>4, <1>5, <1>12
  <2>2. PICK i \in DOMAIN found : found[i] = f[o]
    BY <1>9, <2>1
  <2> QED BY <1>10, <2>1, <2>2
<1>13. \A i \in 1..Len(found) : HealthWithin(chain, found[i])
  BY <1>8, <1>11
<1> QED BY <1>7, <1>10, <1>11, <1>12, <1>13 DEF found

LEMMA ScanInit == Init => ScanExact /\ HealthInv
<1> SUFFICES ASSUME Init PROVE ScanExact /\ HealthInv
  OBVIOUS
<1>1. current = FALSE
  BY DEF Init, DiscoveryInit
<1> QED BY <1>1 DEF ScanExact, HealthInv

\* Every step keeps the scan exact, and the health in it that of the chain.
LEMMA ScanStep ==
    PathInv /\ MapsInv /\ ScanExact /\ HealthInv /\ [Next]_vars => ScanExact' /\ HealthInv'
<1> SUFFICES ASSUME PathInv, MapsInv, ScanExact, HealthInv, [Next]_vars
             PROVE  ScanExact' /\ HealthInv'
  OBVIOUS
<1>s. ASSUME Unscanned PROVE ScanExact'
  BY <1>s DEF Unscanned, ScanExact, FoundAccounts
<1>h. ASSUME Unscanned, chain' = chain, pc \notin Searching => pc' \notin Searching
      PROVE  HealthInv'
  BY <1>h DEF Unscanned, HealthInv
<1>1. CASE Discover
  <2>0. /\ chain' = chain
        /\ pc \notin Searching \ {"obligations"} => pc' \notin Searching
    BY <1>1, DiscoverMoves
  <2>1. CASE pc = "obligations" /\ Scanned
    <3>1. ScanExact' /\ (current' => \A i \in 1..Len(liquidatable') : HealthWithin(chain, liquidatable'[i]))
      BY <2>1, ScannedIsExact DEF MapsInv
    <3>2. pc' \notin Searching
      BY <2>0, <2>1
    <3> QED BY <2>0, <3>1, <3>2 DEF HealthInv
  <2>2. CASE Unscanned
    <3>1. pc \notin Searching => pc' \notin Searching
      BY <2>0
    <3> QED BY <1>s, <1>h, <2>0, <2>2, <3>1
  <2> QED BY <1>1, <2>1, <2>2, ScansFind
<1>2. CASE Change
  <2>1. pc \in Searching /\ UNCHANGED <<liquidatable, truth, current>>
    BY <1>2, ChangeMoves
  <2>2. ~current'
    BY <2>1 DEF HealthInv
  <2> QED BY <1>s, <2>1, <2>2 DEF Unscanned, HealthInv
<1>3. CASE ShadowStep
  <2>1. pc' \notin Searching /\ chain' = chain /\ Unscanned
    BY <1>3, ShadowKeeps DEF Unscanned, Searching, Discovering
  <2> QED BY <1>s, <1>h, <2>1
<1>4. CASE UNCHANGED vars
  <2>1. pc' = pc /\ chain' = chain /\ Unscanned
    BY <1>4 DEF vars, discoveryVars, envVars, scanVars, Unscanned
  <2> QED BY <1>s, <1>h, <2>1
<1> QED BY <1>1, <1>2, <1>3, <1>4 DEF Next, Ended

-----------------------------------------------------------------------------
(* The gaps                                                                *)

LEMMA MapsInit == Init => MapsInv
<1> SUFFICES ASSUME Init PROVE MapsInv
  OBVIOUS
<1>1. pc = "getSlot" /\ elevation_map = NoMap
  BY DEF Init, DiscoveryInit
<1>2. NoMap # Undecoded
  BY DiscoveryAssumption DEF ErrorsTold
<1> QED BY <1>1, <1>2 DEF MapsInv

\* Every request that is not answered leaves its gap.
LEMMA MapsDiscover == PathInv /\ MapsInv /\ Discover => MapsInv'
<1> SUFFICES ASSUME PathInv, MapsInv, Discover PROVE MapsInv'
  OBVIOUS
<1>0. chain' = chain /\ changes' = changes
  BY DiscoverMoves
<1> USE DEF MapsInv, Read
<1>u. NoMap # Undecoded
  BY DiscoveryAssumption DEF ErrorsTold
<1>1. CASE GetSlot
  BY <1>0, <1>1 DEF GetSlot, mapVars
<1>2. CASE GetHealth
  BY <1>0, <1>2 DEF GetHealth, mapVars
<1>3. CASE GetKnownAccounts
  <2> DEFINE groups == DecodeElevationGroups(chain.market)
             there == "klend_main_market" \in chain.known
  <2>1. CASE pc' = "failed" /\ UNCHANGED <<elevation_map, gaps, counts>>
    BY <1>0, <2>1
  <2>2. CASE /\ elevation_map' = IF there /\ groups # Undecoded THEN groups ELSE NoMap
             /\ gaps' = gaps \cup (KnownLabels \ chain.known)
                          \cup (IF there /\ groups = Undecoded THEN {"elevation groups"} ELSE {})
             /\ pc' = "reserves"
    <3>1. elevation_map' # Undecoded
      BY <1>u, <2>2
    <3>2. ~there => "klend_main_market" \in gaps'
      BY <2>2 DEF KnownLabels
    <3>3. there /\ groups = Undecoded => "elevation groups" \in gaps'
      BY <2>2
    <3>4. there /\ groups # Undecoded => elevation_map' = groups
      BY <2>2
    <3>5. (gaps' \cap {"klend_main_market", "elevation groups"} = {}) => elevation_map' = groups
      BY <3>2, <3>3, <3>4
    <3> HIDE DEF groups
    <3>6. elevation_map' = groups => elevation_map' = DecodeElevationGroups(chain'.market)
      BY <1>0 DEF groups
    <3> QED BY <2>2, <3>1, <3>5, <3>6
  <2> QED BY <1>3, <2>1, <2>2, Zenon DEF GetKnownAccounts
<1>4. CASE ScanReserves
  <2>1. /\ elevation_map' = elevation_map /\ gaps \subseteq gaps'
        /\ pc = "reserves" /\ pc' = "obligations"
    BY <1>4 DEF ScanReserves
  <2>2. \/ reserve_map' = DecodedReserves(Filtered(chain.res, ReserveDataSize))
        \/ "reserve GPA" \in gaps'
    BY <1>4 DEF ScanReserves
  <2>3. reserve_map' = DecodedReserves(Filtered(chain.res, ReserveDataSize))
          => reserve_map' = DecodedReserves(Filtered(chain.res, ReserveDataSize))'
    BY <1>0 DEF DecodedReserves
  <2>4. gaps' \cap {"reserve GPA"} = {}
          => reserve_map' = DecodedReserves(Filtered(chain.res, ReserveDataSize))'
    BY <2>2, <2>3
  <2>5. changes = 0 /\ gaps' \cap {"klend_main_market", "elevation groups"} = {}
          => elevation_map' = DecodeElevationGroups(chain'.market)
    BY <1>0, <2>1
  <2> QED BY <1>0, <2>1, <2>4, <2>5
<1>5. CASE ScanObligations
  <2>1. pc = "obligations" /\ pc' = "marginfi" /\ elevation_map' = elevation_map
    BY <1>5 DEF ScanObligations, mapVars
  <2>2. CASE Scanned
    <3>0. PICK f, rows : ScannedAs(f, rows)
      BY <2>2 DEF Scanned
    <3>1. gaps \subseteq gaps'
      BY <3>0 DEF ScannedAs
    <3>2. (/\ reserve_map = DecodedReserves(Filtered(chain.res, ReserveDataSize))
           /\ elevation_map = DecodeElevationGroups(chain.market)) => current'
      BY <3>0, Zenon DEF ScannedAs
    <3>3. changes = 0 /\ gaps' \cap {"klend_main_market", "elevation groups",
                                     "reserve GPA", "obligation GPA"} = {} => current'
      BY <2>1, <3>1, <3>2
    <3> QED BY <1>0, <2>1, <3>3
  <2>3. CASE gaps' = gaps \cup {"obligation GPA"}
    BY <1>0, <2>1, <2>3
  <2> QED BY <1>5, <2>2, <2>3, ScanFinds
<1>6. ASSUME pc \in {"marginfi", "banks", "save", "report"},
             pc' \in {"marginfi", "banks", "save", "report", "reported"},
             gaps \subseteq gaps', current' = current, elevation_map' # Undecoded
      PROVE  MapsInv'
  BY <1>0, <1>6
<1>7. CASE ScanMarginfi
  BY <1>6, <1>7 DEF ScanMarginfi, mapVars, scanVars
<1>8. CASE ScanBanks
  BY <1>6, <1>8 DEF ScanBanks, mapVars, scanVars
<1>9. CASE ScanSave
  BY <1>6, <1>9 DEF ScanSave, mapVars, scanVars
<1>10. CASE Report
  BY <1>6, <1>10, <1>u DEF Report, scanVars
<1> QED BY <1>1, <1>2, <1>3, <1>4, <1>5, <1>7, <1>8, <1>9, <1>10 DEF Discover

LEMMA MapsStep == PathInv /\ MapsInv /\ [Next]_vars => MapsInv'
<1> SUFFICES ASSUME PathInv, MapsInv, [Next]_vars PROVE MapsInv'
  OBVIOUS
<1>1. CASE Discover
  BY <1>1, MapsDiscover
<1>2. CASE Change
  BY <1>2, ChangeMoves DEF MapsInv, Change, Searching
<1>3. CASE ShadowStep
  <2>1. pc' \notin Discovering \cup {"reported", "failed"} /\ elevation_map' = elevation_map
    BY <1>3, ShadowKeeps
  <2> QED BY <2>1 DEF MapsInv, Discovering
<1>4. CASE UNCHANGED vars
  BY <1>4 DEF vars, discoveryVars, envVars, mapVars, scanVars, MapsInv, Read, DecodedReserves
<1> QED BY <1>1, <1>2, <1>3, <1>4 DEF Next, Ended

\* On any chain, the scan of a chain that did not move between the reads finds the
\* obligations that the lending program's rule makes liquidatable by more than an f64 of
\* any precision gets wrong, and none that are healthy by more than that.
THEOREM ScanIsExact == Spec => []ScanExact
<1>1. Init => PathInv /\ MapsInv /\ ScanExact /\ HealthInv
  BY PathInit, MapsInit, ScanInit
<1>2. PathInv /\ MapsInv /\ ScanExact /\ HealthInv /\ [Next]_vars
        => PathInv' /\ MapsInv' /\ ScanExact' /\ HealthInv'
  BY PathStep, MapsStep, ScanStep
<1> QED BY <1>1, <1>2, PTL DEF Spec

\* A list without elements has no places.
LEMMA EmptyDomain ==
    ASSUME NEW s, s = << >>
    PROVE  DOMAIN s = {}
<1>1. s \in Seq({}) /\ Len(s) = 0
  OBVIOUS
<1> QED BY <1>1, TypedIsSeq, SeqFacts

\* A report of nobody is true, or names the read that failed.
THEOREM ZeroIsHonest == Spec => []HonestZero
<1>1. Init => PathInv /\ MapsInv /\ ScanExact /\ HealthInv
  BY PathInit, MapsInit, ScanInit
<1>2. PathInv /\ MapsInv /\ ScanExact /\ HealthInv /\ [Next]_vars
        => PathInv' /\ MapsInv' /\ ScanExact' /\ HealthInv'
  BY PathStep, MapsStep, ScanStep
<1>3. MapsInv /\ ScanExact => HonestZero
  <2> SUFFICES ASSUME MapsInv, ScanExact, pc = "reported", liquidatable = << >>, changes = 0,
                      gaps \cap {"klend_main_market", "elevation groups", "reserve GPA",
                                 "no reserve priced", "obligation GPA"} = {}
               PROVE  truth.surely = {}
    BY DEF HonestZero
  <2>1. current
    BY DEF MapsInv, Read
  <2>2. DOMAIN liquidatable = {}
    BY EmptyDomain, Zenon
  <2>3. FoundAccounts = {}
    BY <2>2 DEF FoundAccounts
  <2> QED BY <2>1, <2>3 DEF ScanExact
<1> QED BY <1>1, <1>2, <1>3, PTL DEF Spec

-----------------------------------------------------------------------------
(* The order                                                               *)

\* The worst candidates on chain come first, wherever the cap falls, as far as an f64
\* tells and some collateral counts.
THEOREM WorstComeFirst == Spec => []WorstFirst
<1>1. Init => PathInv /\ RankInv /\ ResultsInv /\ MapsInv /\ ScanExact /\ HealthInv
  BY PathInit, RankInit, ResultsInit, MapsInit, ScanInit
<1>2. PathInv /\ RankInv /\ ResultsInv /\ MapsInv /\ ScanExact /\ HealthInv /\ [Next]_vars
        => PathInv' /\ RankInv' /\ ResultsInv' /\ MapsInv' /\ ScanExact' /\ HealthInv'
  BY PathStep, RankStep, ResultsStep, MapsStep, ScanStep
<1>3. RankInv /\ ResultsInv /\ HealthInv => WorstFirst
  <2> DEFINE simulated == {results[i].account : i \in KaminoAt(results)}
             least(o) == HealthLeast(chain.obl[o], chain.res, chain.market.groups)
             most(o) == HealthMost(chain.obl[o], chain.res, chain.market.groups)
             counts_(o) == CountsCollateral(chain.obl[o], chain.res, chain.market.groups)
             liq == liquidatable
  <2> SUFFICES ASSUME RankInv, ResultsInv, HealthInv, pc = "done", current
               PROVE  \A s \in simulated, o \in FoundAccounts \ simulated :
                         counts_(o) => least(s) <= most(o)
    BY Zenon DEF WorstFirst
  <2> SUFFICES ASSUME NEW s \in simulated, NEW o \in FoundAccounts \ simulated, counts_(o)
               PROVE  least(s) <= most(o)
    BY Zenon
  <2>1. /\ IsSeq(liq) /\ IsSeq(results) /\ planned \in Nat /\ planned <= Len(liq)
        /\ pc \in {"summarize", "done"}
    BY DEF RankInv, ResultsInv
  <2>2. DOMAIN liq = 1..Len(liq) /\ DOMAIN results = 1..Len(results) /\ Len(liq) \in Nat
    BY <2>1, SeqFacts
  <2>3. PICK j \in 1..Len(liq) : o = liq[j].account
    BY <2>2 DEF FoundAccounts
  <2>4. PICK n \in 1..Len(results) : results[n].protocol = "Kamino" /\ s = results[n].account
    BY <2>2 DEF KaminoAt
  <2>5. planned # 0
    <3> SUFFICES ASSUME planned = 0 PROVE FALSE
      OBVIOUS
    <3>1. Len(results) = 1 /\ results[1].protocol = "prove"
      BY <2>1 DEF ResultsInv
    <3> QED BY <2>4, <3>1
  <2>6. ResultsOf(results, liq, planned)
    BY <2>1, <2>5 DEF ResultsInv
  <2>7. n \in 1..planned /\ s = liq[n].account
    BY <2>4, <2>6 DEF ResultsOf
  <2>8. ~(j <= planned)
    <3> SUFFICES ASSUME j \in 1..planned PROVE FALSE
      BY <2>1, <2>2
    <3>1. /\ j \in DOMAIN results /\ results[j].protocol = "Kamino"
          /\ results[j].account = o
      BY <2>2, <2>3, <2>6 DEF ResultsOf
    <3>2. o \in simulated
      BY <3>1 DEF KaminoAt
    <3> QED BY <3>2
  <2>9. n \in 1..Len(liq) /\ n < j
    BY <2>1, <2>2, <2>7, <2>8
  <2>10. ~KeyLess(liq[j], liq[n])
    BY <2>9 DEF RankInv
  <2>11. HealthWithin(chain, liq[n]) /\ HealthWithin(chain, liq[j])
    BY <2>9 DEF HealthInv
  <2>12. PICK h : liq[n].health = {h} /\ Within(chain, chain.obl[s], h)
    BY <2>7, <2>11 DEF HealthWithin
  <2>13. PICK g : liq[j].health = {g} /\ Within(chain, chain.obl[o], g)
    BY <2>3, <2>11 DEF HealthWithin
  <2>14. ~(g < h)
    BY <2>10, <2>12, <2>13 DEF KeyLess
  <2>15. h \in Int /\ least(s) \in Int /\ least(s) <= h
    BY <2>12, Zenon DEF Within
  <2>16. g \in Int /\ most(o) \in Int /\ g <= most(o)
    BY <2>13, Zenon DEF Within
  <2> HIDE DEF least, most
  <2> QED BY <2>14, <2>15, <2>16
<1> QED BY <1>1, <1>2, <1>3, PTL DEF Spec
==============================================================================
