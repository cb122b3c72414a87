---------------------------- MODULE ReplayProofs ----------------------------
(***************************************************************************)
(* The two binaries of module Replay report the crossings of the file,     *)
(* whatever the file and the borrowers: an induction over the file that    *)
(* each binary's own steps carry.                                          *)
(***************************************************************************)
EXTENDS Replay, DataProofs

\* The shape of the state, as far as the argument needs it.
ReplayTypeOK ==
    /\ ticks \in TickFiles /\ borrowers \in BorrowerFiles
    /\ phase \in [Bins -> {"start", "recv", "done", "failed"}]
    /\ book \in [Bins -> [Assets -> Prices \cup {NoPrice}]]
    /\ at \in [Bins -> Nat]
    /\ pending \in [Bins -> SUBSET LoadedEntries]
    /\ \A b \in Bins : IsSeq(opportunities[b])
    /\ rx \in [Bins -> Seq(Nat)]
    /\ opportunities = [b \in Bins |-> opportunities[b]]

\* A binary that is past its start has read the file.
Going(b) == phase[b] \in {"recv", "done"}

\* Binary b has still to stream, in the order of the file, what comes after the last one.
StreamInv(b) ==
    /\ \A i \in DOMAIN ticks : ~IsFirst(i) /\ i > at[b] <=> \E k \in 1..Len(rx[b]) : rx[b][k] = i
    /\ \A k \in 1..Len(rx[b]) : rx[b][k] \in DOMAIN ticks
    /\ Increasing(rx[b])

\* What binary b has seen of an asset: the seed, and what it has streamed.
SeenOf(b, a) == {j \in OfAsset(a) : IsFirst(j) \/ j <= at[b]}

\* The book has the last price that was seen.
BookInv(b) ==
    \A a \in Assets : OfAsset(a) # {} =>
        \E j \in SeenOf(b, a) :
            /\ \A k \in SeenOf(b, a) : k <= j
            /\ book[b][a] = ticks[j].entry.decoded

PendingCrossings(b) == {[at |-> at[b], hit |-> h] : h \in pending[b]}

\* What has been printed and what is about to be are the crossings up to here, each once.
ReportInv(b) ==
    /\ IsFiniteSet(Reported(b)) /\ Cardinality(Reported(b)) = Len(opportunities[b])
    /\ Reported(b) \subseteq Crossings
    /\ PendingCrossings(b) \subseteq Crossings
    /\ Reported(b) \cap PendingCrossings(b) = {}
    /\ Going(b) => Reported(b) \cup PendingCrossings(b) = {c \in Crossings : c.at <= at[b]}

FileInv(b) ==
    /\ phase[b] = "start" => at[b] = 0 /\ pending[b] = {} /\ opportunities[b] = << >>
    /\ phase[b] = "done" => rx[b] = << >> /\ pending[b] = {}
    /\ Going(b) => ticks # NoFile /\ StreamInv(b) /\ BookInv(b)
    /\ ticks # NoFile => ReportInv(b)

ReplayInv == ReplayTypeOK /\ \A b \in Bins : FileInv(b)

-----------------------------------------------------------------------------
(* The file                                                                *)

\* A file that loads is a list of ticks.
LEMMA FileIsList ==
    ASSUME ticks \in TickFiles, ticks # NoFile
    PROVE  /\ Len(ticks) \in Nat /\ DOMAIN ticks = 1..Len(ticks)
           /\ \A i \in DOMAIN ticks : ticks[i].asset \in Assets
           /\ \A i \in DOMAIN ticks : ticks[i].entry.decoded \in Prices
           /\ \A i \in DOMAIN ticks : i \in Nat
<1>1. ticks \in Seq(Tick)
  BY ReplayAssumption
<1>2. Len(ticks) \in Nat /\ DOMAIN ticks = 1..Len(ticks) /\ \A i \in 1..Len(ticks) : ticks[i] \in Tick
  BY <1>1, LenProperties, ElementOfSeq
<1> QED BY <1>2 DEF Tick

\* A set of numbers up to a bound that is not empty has a greatest.
LEMMA GreatestOf ==
    ASSUME NEW n \in Nat, NEW S \in SUBSET (1..n), S # {}
    PROVE  \E i \in S : \A j \in S : j <= i
<1> DEFINE T == {n - i : i \in S}
<1>1. T \in SUBSET Nat /\ T # {}
  <2>1. \A i \in 1..n : n - i \in Nat
    OBVIOUS
  <2> QED BY <2>1
<1> HIDE DEF T
<1>2. PICK m \in T : \A k \in T : m <= k
  BY <1>1, LeastExists
<1>3. PICK i \in S : m = n - i
  BY <1>2 DEF T
<1>4. ASSUME NEW j \in S PROVE j <= i
  <2>1. n - j \in T
    BY DEF T
  <2>2. n - i <= n - j
    BY <1>2, <1>3, <2>1
  <2>3. i \in Int /\ j \in Int
    OBVIOUS
  <2> QED BY <2>2, <2>3
<1> QED BY <1>4

\* What the index holds are triggers: the last entry of an account in a file of finite
\* length exists.
LEMMA LoadedTyped ==
    ASSUME borrowers \in BorrowerFiles, NEW h \in LoadedEntries
    PROVE  /\ h.trigger.side \in Sides
           /\ h.trigger.trigger_price \in Prices
<1>1. borrowers \in Seq(Borrower)
  BY ReplayAssumption
<1>2. /\ Len(borrowers) \in Nat /\ DOMAIN borrowers = 1..Len(borrowers)
      /\ \A i \in 1..Len(borrowers) : borrowers[i] \in Borrower
  BY <1>1, LenProperties, ElementOfSeq
<1>3. PICK acc \in Accounts : h \in {[account |-> acc, trigger |-> t] : t \in Loaded(acc)}
  BY DEF LoadedEntries
<1>4. PICK t \in Loaded(acc) : h = [account |-> acc, trigger |-> t]
  BY <1>3
<1> DEFINE of_acc == {i \in DOMAIN borrowers : borrowers[i].account = acc}
           last == CHOOSE i \in of_acc : \A j \in of_acc : j <= i
<1>5. of_acc # {} /\ t \in borrowers[last].triggers
  BY <1>4 DEF Loaded
<1>6. of_acc \in SUBSET (1..Len(borrowers))
  BY <1>2
<1>7. last \in of_acc
  <2> HIDE DEF of_acc
  <2>1. \E i \in of_acc : \A j \in of_acc : j <= i
    BY <1>2, <1>5, <1>6, GreatestOf
  <2> QED BY <2>1
<1>8. borrowers[last] \in Borrower
  BY <1>2, <1>7
<1> HIDE DEF last
<1>9. t \in [asset : Assets, side : Sides, trigger_price : Prices]
  BY <1>5, <1>8 DEF Borrower
<1> QED BY <1>4, <1>9

\* An asset of the file has one first tick.
LEMMA FirstOfAsset ==
    ASSUME ticks \in TickFiles, ticks # NoFile, NEW a, OfAsset(a) # {}
    PROVE  /\ \E i \in OfAsset(a) : IsFirst(i)
           /\ \A i, j \in OfAsset(a) : IsFirst(i) /\ IsFirst(j) => i = j
           /\ \A i, j \in OfAsset(a) : IsFirst(i) => i <= j
<1>1. OfAsset(a) \in SUBSET Nat /\ \A i \in OfAsset(a) : ticks[i].asset = a
  BY FileIsList DEF OfAsset
<1>2. PICK i \in OfAsset(a) : \A j \in OfAsset(a) : i <= j
  <2> HIDE DEF OfAsset
  <2> QED BY <1>1, LeastExists
<1>3. \A j, k \in OfAsset(a) : IsFirst(j) => j <= k
  BY <1>1 DEF IsFirst
<1>4. IsFirst(i)
  BY <1>1, <1>2 DEF IsFirst
<1>5. ASSUME NEW j \in OfAsset(a), NEW k \in OfAsset(a), IsFirst(j), IsFirst(k) PROVE j = k
  <2>1. j <= k /\ k <= j /\ j \in Nat /\ k \in Nat
    BY <1>1, <1>3, <1>5
  <2> QED BY <2>1
<1> QED BY <1>2, <1>3, <1>4, <1>5

\* What is streamed: the ticks that did not seed, in their order.
LEMMA StreamFacts ==
    ASSUME ticks \in TickFiles, ticks # NoFile
    PROVE  /\ Stream \in Seq(Nat)
           /\ \A i \in DOMAIN ticks : ~IsFirst(i) <=> \E k \in 1..Len(Stream) : Stream[k] = i
           /\ \A k \in 1..Len(Stream) : Stream[k] \in DOMAIN ticks
           /\ Increasing(Stream)
<1> DEFINE n == Len(ticks)
           s == [i \in DOMAIN ticks |-> i]
           I == {i \in DOMAIN ticks : ~IsFirst(i)}
<1>1. n \in Nat /\ DOMAIN ticks = 1..n /\ I \in SUBSET (1..n) /\ \A i \in I : s[i] = i
  BY FileIsList
<1>2. I \subseteq DOMAIN ticks /\ (\A i \in DOMAIN ticks : i \in I <=> ~IsFirst(i))
      /\ \A i \in I : i \in Nat
  BY <1>1
<1>3. Stream = PickedFrom(s, I)
  BY DEF Stream
<1> HIDE DEF n, s, I
<1>4. IsSeq(PickedFrom(s, I))
  BY <1>1, PickedFromFacts
<1>5. \A i \in I : \E k \in 1..Len(PickedFrom(s, I)) : PickedFrom(s, I)[k] = s[i]
  BY <1>1, PickedFromFacts
<1>6. \A k \in 1..Len(PickedFrom(s, I)) : \E i \in I : PickedFrom(s, I)[k] = s[i]
  <2>1. PickedByRank(s, I)
    BY <1>1, PickedFromRank
  <2> QED BY <2>1 DEF PickedByRank
<1>7. Increasing(Stream)
  BY <1>1, <1>3, PickedFromOrder
<1>8. \A k \in 1..Len(Stream) : Stream[k] \in I
  BY <1>1, <1>3, <1>6
<1>9. Stream \in Seq(Nat)
  <2>1. Len(Stream) \in Nat /\ DOMAIN Stream = 1..Len(Stream) /\ Stream \in Seq({Stream[k] : k \in DOMAIN Stream})
    BY <1>3, <1>4, SeqFacts DEF IsSeq
  <2>2. {Stream[k] : k \in DOMAIN Stream} \subseteq Nat
    BY <1>2, <1>8, <2>1
  <2> QED BY <2>1, <2>2, SeqMonotonic
<1>10. \A i \in DOMAIN ticks : ~IsFirst(i) <=> \E k \in 1..Len(Stream) : Stream[k] = i
  <2>1. \A i \in I : \E k \in 1..Len(Stream) : Stream[k] = i
    BY <1>1, <1>3, <1>5
  <2> QED BY <1>2, <1>8, <2>1
<1> QED BY <1>2, <1>3, <1>7, <1>8, <1>9, <1>10

-----------------------------------------------------------------------------
(* Crossings                                                               *)

\* An update of the path finds the loaded triggers that the move of the price crosses: the
\* ranges that on_price_update scans hold them all.
LEMMA FoundAreCrossed ==
    ASSUME borrowers \in BorrowerFiles, NEW b \in Bins, NEW a, NEW p \in Prices, NEW q \in Prices
    PROVE  Path(b)!OnPriceUpdate(a, p, q)
             = {h \in LoadedEntries : h.trigger.asset = a /\ Path("replay")!Crosses(h.trigger, p, q)}
<1> DEFINE Ranged(h) ==
              \/ /\ q < p
                 /\ h.trigger.side = "CollateralDown"
                 /\ h.trigger.trigger_price \in q .. p
              \/ /\ q > p
                 /\ h.trigger.side = "DebtUp"
                 /\ h.trigger.trigger_price \in p .. q
           C(h) == Path("replay")!Crosses(h.trigger, p, q)
<1>1. Path(b)!OnPriceUpdate(a, p, q) = {h \in LoadedEntries : h.trigger.asset = a /\ Ranged(h) /\ C(h)}
  BY DEF Path!OnPriceUpdate, Path!Crosses
<1>2. ASSUME NEW h \in LoadedEntries, C(h) PROVE Ranged(h)
  <2> DEFINE t == h.trigger
             x == t.trigger_price
  <2>1. t.side \in Sides /\ x \in Nat /\ p \in Nat /\ q \in Nat
    BY LoadedTyped, ReplayAssumption
  <2>2. CASE t.side = "CollateralDown"
    <3>1. p > x /\ x >= q
      BY <1>2, <2>2 DEF Path!Crosses
    <3> HIDE DEF x
    <3>2. q < p /\ x \in q .. p
      BY <2>1, <3>1
    <3> QED BY <2>2, <3>2 DEF x
  <2>3. CASE t.side = "DebtUp"
    <3>1. p < x /\ x <= q
      BY <1>2, <2>3 DEF Path!Crosses
    <3> HIDE DEF x
    <3>2. q > p /\ x \in p .. q
      BY <2>1, <3>1
    <3> QED BY <2>3, <3>2 DEF x
  <2> QED BY <2>1, <2>2, <2>3 DEF Sides
<1> HIDE DEF Ranged, C
<1>3. Path(b)!OnPriceUpdate(a, p, q) = {h \in LoadedEntries : h.trigger.asset = a /\ C(h)}
  BY <1>1, <1>2
<1> QED BY <1>3 DEF C

\* A price that stays crosses nothing.
LEMMA StillCrossesNothing ==
    ASSUME borrowers \in BorrowerFiles, NEW h \in LoadedEntries, NEW p \in Prices
    PROVE  ~Path("replay")!Crosses(h.trigger, p, p)
<1> DEFINE t == h.trigger
           x == t.trigger_price
<1>1. t.side \in Sides /\ x \in Nat /\ p \in Nat
  BY LoadedTyped, ReplayAssumption
<1>2. CASE t.side = "CollateralDown"
  <2>1. Path("replay")!Crosses(t, p, p) <=> p > x /\ x >= p
    BY <1>2 DEF Path!Crosses
  <2> QED BY <1>1, <2>1
<1>3. CASE t.side = "DebtUp"
  <2>1. Path("replay")!Crosses(t, p, p) <=> p < x /\ x <= p
    BY <1>3 DEF Path!Crosses
  <2> QED BY <1>1, <2>1
<1> QED BY <1>1, <1>2, <1>3 DEF Sides

\* The ticks of the same asset before i.
Before(i) == {j \in OfAsset(ticks[i].asset) : j < i}

\* The crossings at i are measured from the latest tick before it.
LEMMA CrossingsAt ==
    ASSUME ticks \in TickFiles, ticks # NoFile, NEW i \in DOMAIN ticks,
           NEW j \in Before(i), \A k \in Before(i) : k <= j, NEW h
    PROVE  [at |-> i, hit |-> h] \in Crossings
             <=> /\ h \in LoadedEntries /\ h.trigger.asset = ticks[i].asset
                 /\ Path("replay")!Crosses(h.trigger, ticks[j].entry.decoded, ticks[i].entry.decoded)
<1>1. \A k \in Before(i) : k \in Nat
  BY FileIsList DEF Before, OfAsset
<1>2. (CHOOSE m \in Before(i) : \A k \in Before(i) : k <= m) = j
  <2>1. ASSUME NEW m \in Before(i), \A k \in Before(i) : k <= m PROVE m = j
    <3>1. m <= j /\ j <= m /\ m \in Nat /\ j \in Nat
      BY <1>1, <2>1
    <3> QED BY <3>1
  <2> QED BY <2>1
<1> DEFINE c == [at |-> i, hit |-> h]
<1>3. c \in [at : DOMAIN ticks, hit : LoadedEntries] <=> h \in LoadedEntries
  OBVIOUS
<1>4. c \in Crossings
        <=> /\ c \in [at : DOMAIN ticks, hit : LoadedEntries]
            /\ c.hit.trigger.asset = ticks[c.at].asset
            /\ Before(c.at) # {}
            /\ Path("replay")!Crosses(c.hit.trigger,
                   ticks[CHOOSE m \in Before(c.at) : \A k \in Before(c.at) : k <= m].entry.decoded,
                   ticks[c.at].entry.decoded)
  BY DEF Crossings, Before
<1>5. c.at = i /\ c.hit = h
  OBVIOUS
<1> QED BY <1>2, <1>3, <1>4, <1>5

\* A crossing is at a tick that does not come first.
LEMMA CrossingsHavePast ==
    ASSUME ticks \in TickFiles, ticks # NoFile, NEW c \in Crossings
    PROVE  c.at \in DOMAIN ticks /\ ~IsFirst(c.at) /\ c = [at |-> c.at, hit |-> c.hit]
<1>1. c \in [at : DOMAIN ticks, hit : LoadedEntries] /\ Before(c.at) # {}
  BY DEF Crossings, Before
<1>2. PICK j \in OfAsset(ticks[c.at].asset) : j < c.at
  BY <1>1 DEF Before
<1>3. c.at \in Nat /\ j \in Nat
  BY <1>1, FileIsList DEF OfAsset
<1> QED BY <1>1, <1>2, <1>3 DEF IsFirst

-----------------------------------------------------------------------------
(* Induction                                                               *)

\* The files stay, and with them what is computed from them.
LEMMA FilesStay ==
    ASSUME UNCHANGED files
    PROVE  /\ ticks' = ticks /\ borrowers' = borrowers
           /\ LoadedEntries' = LoadedEntries /\ Crossings' = Crossings /\ Stream' = Stream
           /\ \A a : OfAsset(a)' = OfAsset(a)
           /\ \A i : IsFirst(i)' = IsFirst(i)
<1>1. ticks' = ticks /\ borrowers' = borrowers
  BY DEF files
<1>2. \A a : OfAsset(a)' = OfAsset(a)
  BY <1>1 DEF OfAsset
<1>3. \A i : IsFirst(i)' = IsFirst(i)
  BY <1>1 DEF OfAsset, IsFirst
<1>4. Stream' = Stream
  BY <1>1 DEF Stream, OfAsset, IsFirst
<1>5. LoadedEntries' = LoadedEntries
  BY <1>1 DEF LoadedEntries, Loaded
<1>6. Crossings' = Crossings
  BY <1>1, <1>5 DEF Crossings, OfAsset, Path!Crosses
<1> QED BY <1>1, <1>2, <1>3, <1>4, <1>5, <1>6

\* A binary that does nothing keeps its part of the invariant.
LEMMA OtherStays ==
    ASSUME UNCHANGED files, NEW c \in Bins, FileInv(c),
           phase'[c] = phase[c], book'[c] = book[c], at'[c] = at[c], pending'[c] = pending[c],
           opportunities'[c] = opportunities[c], rx'[c] = rx[c]
    PROVE  FileInv(c)'
<1>1. /\ ticks' = ticks /\ Crossings' = Crossings
      /\ \A a : OfAsset(a)' = OfAsset(a)
      /\ \A i : IsFirst(i)' = IsFirst(i)
  BY FilesStay
<1>2. Going(c)' = Going(c)
  BY DEF Going
<1>3. StreamInv(c)' = StreamInv(c)
  BY <1>1 DEF StreamInv, Increasing
<1>4. BookInv(c)' = BookInv(c)
  BY <1>1 DEF BookInv, SeenOf
<1>5. Reported(c)' = Reported(c) /\ PendingCrossings(c)' = PendingCrossings(c)
  BY DEF Reported, PendingCrossings
<1>6. ReportInv(c)' = ReportInv(c)
  BY <1>1, <1>2, <1>5 DEF ReportInv
<1> QED BY <1>1, <1>2, <1>3, <1>4, <1>6 DEF FileInv

\* Nothing is printed at first.
LEMMA NothingReported ==
    ASSUME NEW b \in Bins, opportunities[b] = << >>, pending[b] = {}
    PROVE  /\ Reported(b) = {} /\ PendingCrossings(b) = {}
           /\ IsFiniteSet(Reported(b)) /\ Cardinality(Reported(b)) = Len(opportunities[b])
<1>1. DOMAIN opportunities[b] = {} /\ Len(opportunities[b]) = 0
  OBVIOUS
<1>2. Reported(b) = {}
  BY <1>1 DEF Reported
<1>3. PendingCrossings(b) = {}
  BY DEF PendingCrossings
<1> QED BY <1>1, <1>2, <1>3, FS_EmptySet

LEMMA ReplayInit == Init => ReplayInv
<1> SUFFICES ASSUME Init PROVE ReplayInv
  OBVIOUS
<1>1. ReplayTypeOK
  <2>1. IsSeq(<< >>) /\ << >> \in Seq(Nat)
    <3>1. << >> \in Seq(Nat) /\ << >> \in Seq({})
      OBVIOUS
    <3> QED BY <3>1, TypedIsSeq
  <2>2. opportunities \in [Bins -> {<< >>}] /\ \A b \in Bins : opportunities[b] = << >>
    BY DEF Init
  <2>3. \A b \in Bins : IsSeq(opportunities[b])
    BY <2>1, <2>2
  <2> QED BY <2>1, <2>2, <2>3 DEF Init, ReplayTypeOK
<1>2. ASSUME NEW b \in Bins PROVE FileInv(b)
  <2>1. phase[b] = "start" /\ at[b] = 0 /\ pending[b] = {} /\ opportunities[b] = << >>
    BY DEF Init
  <2>2. ~Going(b)
    BY <2>1 DEF Going
  <2>3. ReportInv(b)
    BY <2>1, <2>2, NothingReported DEF ReportInv
  <2> QED BY <2>1, <2>2, <2>3 DEF FileInv
<1> QED BY <1>1, <1>2 DEF ReplayInv

\* Loading the files: the book has the seeds, all others are still to be streamed, and
\* there is no crossing up to the seeds.
LEMMA StartStep ==
    ASSUME ReplayInv, NEW b \in Bins, Start(b)
    PROVE  ReplayInv'
<1>1. UNCHANGED <<files, at, pending, opportunities, rolling>> /\ phase[b] = "start"
  BY DEF Start
<1>2. /\ ticks' = ticks /\ Crossings' = Crossings /\ LoadedEntries' = LoadedEntries
      /\ \A a : OfAsset(a)' = OfAsset(a)
      /\ \A i : IsFirst(i)' = IsFirst(i)
  BY <1>1, FilesStay
<1>3. ReplayTypeOK /\ FileInv(b) /\ ticks \in TickFiles /\ borrowers \in BorrowerFiles
  BY DEF ReplayInv, ReplayTypeOK
<1>4. at[b] = 0 /\ pending[b] = {} /\ opportunities[b] = << >>
  BY <1>1, <1>3 DEF FileInv
<1>5. at'[b] = 0 /\ pending'[b] = {} /\ opportunities'[b] = << >>
  BY <1>1, <1>4
<1>6. /\ Reported(b)' = {} /\ PendingCrossings(b)' = {}
      /\ IsFiniteSet(Reported(b)') /\ Cardinality(Reported(b)') = Len(opportunities'[b])
  <2>1. Reported(b)' = Reported(b) /\ PendingCrossings(b)' = PendingCrossings(b)
    BY <1>1 DEF Reported, PendingCrossings
  <2> QED BY <1>1, <1>4, <2>1, NothingReported
<1>7. CASE ~FilesLoad \/ (b = "shadow" /\ ~dry_env)
  <2>1. phase' = [phase EXCEPT ![b] = "failed"] /\ UNCHANGED <<store, book, rx>>
    BY <1>7 DEF Start
  <2>2. ReplayTypeOK'
    BY <1>1, <1>2, <1>3, <2>1 DEF ReplayTypeOK, files
  <2>3. ASSUME NEW c \in Bins PROVE FileInv(c)'
    <3>1. CASE c # b
      <4>1. phase'[c] = phase[c]
        BY <2>1, <3>1
      <4>2. FileInv(c)
        BY DEF ReplayInv
      <4> QED BY <1>1, <2>1, <4>1, <4>2, OtherStays
    <3>2. CASE c = b
      <4>1. phase'[c] = "failed"
        BY <1>3, <2>1, <3>2 DEF ReplayTypeOK
      <4>2. ~Going(c)'
        BY <4>1 DEF Going
      <4>3. ReportInv(c)'
        BY <1>6, <3>2, <4>2 DEF ReportInv
      <4> QED BY <4>1, <4>2, <4>3 DEF FileInv
    <3> QED BY <3>1, <3>2
  <2> QED BY <2>2, <2>3 DEF ReplayInv
<1>8. CASE ~(~FilesLoad \/ (b = "shadow" /\ ~dry_env))
  <2>1. /\ phase' = [phase EXCEPT ![b] = "recv"]
        /\ book' = [book EXCEPT ![b] = SeededBook]
        /\ rx' = [rx EXCEPT ![b] = Stream]
    BY <1>8 DEF Start
  <2>2. ticks # NoFile
    BY <1>8 DEF FilesLoad
  <2>3. phase'[b] = "recv" /\ book'[b] = SeededBook /\ rx'[b] = Stream
    BY <1>3, <2>1 DEF ReplayTypeOK
  <2>4. SeededBook \in [Assets -> Prices \cup {NoPrice}]
        /\ \A a \in Assets : OfAsset(a) # {} =>
              \E i \in OfAsset(a) : IsFirst(i) /\ SeededBook[a] = ticks[i].entry.decoded
    <3>1. ASSUME NEW a \in Assets, OfAsset(a) # {}
          PROVE  \E i \in OfAsset(a) : IsFirst(i) /\ SeededBook[a] = ticks[i].entry.decoded
      <4>1. \E i \in OfAsset(a) : IsFirst(i)
        BY <1>3, <2>2, <3>1, FirstOfAsset
      <4>2. SeededBook[a] = ticks[CHOOSE i \in OfAsset(a) : IsFirst(i)].entry.decoded
        BY <3>1 DEF SeededBook
      <4> DEFINE i == CHOOSE i \in OfAsset(a) : IsFirst(i)
      <4>3. i \in OfAsset(a) /\ IsFirst(i)
        BY <4>1
      <4> HIDE DEF i
      <4> QED BY <4>2, <4>3 DEF i
    <3>2. ASSUME NEW a \in Assets PROVE SeededBook[a] \in Prices \cup {NoPrice}
      <4>1. CASE OfAsset(a) = {}
        BY <4>1 DEF SeededBook
      <4>2. CASE OfAsset(a) # {}
        <5>1. PICK i \in OfAsset(a) : SeededBook[a] = ticks[i].entry.decoded
          BY <3>1, <4>2
        <5>2. i \in DOMAIN ticks
          BY DEF OfAsset
        <5> QED BY <1>3, <2>2, <5>1, <5>2, FileIsList
      <4> QED BY <4>1, <4>2
    <3>3. SeededBook = [a \in Assets |-> SeededBook[a]]
      BY DEF SeededBook
    <3> HIDE DEF SeededBook
    <3> QED BY <3>1, <3>2, <3>3
  <2>5. /\ Stream \in Seq(Nat)
        /\ \A i \in DOMAIN ticks : ~IsFirst(i) <=> \E k \in 1..Len(Stream) : Stream[k] = i
        /\ \A k \in 1..Len(Stream) : Stream[k] \in DOMAIN ticks
        /\ Increasing(Stream)
        /\ \A i \in DOMAIN ticks : i \in Nat /\ i > 0
    <3>1. \A i \in DOMAIN ticks : i \in Nat /\ i > 0
      BY <1>3, <2>2, FileIsList
    <3> QED BY <1>3, <2>2, <3>1, StreamFacts
  <2> HIDE DEF Stream, SeededBook
  <2>6. ReplayTypeOK'
    <3>1. book' \in [Bins -> [Assets -> Prices \cup {NoPrice}]]
      BY <1>3, <2>1, <2>4 DEF ReplayTypeOK
    <3>2. rx' \in [Bins -> Seq(Nat)]
      BY <1>3, <2>1, <2>5 DEF ReplayTypeOK
    <3>3. phase' \in [Bins -> {"start", "recv", "done", "failed"}]
      BY <1>3, <2>1 DEF ReplayTypeOK
    <3> QED BY <1>1, <1>2, <1>3, <3>1, <3>2, <3>3 DEF ReplayTypeOK, files
  <2>7. StreamInv(b)'
    <3>1. \A i \in DOMAIN ticks : ~IsFirst(i) /\ i > 0 <=> \E k \in 1..Len(Stream) : Stream[k] = i
      BY <2>5
    <3> QED BY <1>2, <1>5, <2>3, <2>5, <3>1 DEF StreamInv
  <2>8. BookInv(b)'
    <3> SUFFICES ASSUME NEW a \in Assets, OfAsset(a) # {}
                 PROVE  \E j \in SeenOf(b, a)' :
                          /\ \A k \in SeenOf(b, a)' : k <= j
                          /\ book'[b][a] = ticks[j].entry.decoded
      BY <1>2 DEF BookInv
    <3>1. PICK i \in OfAsset(a) : IsFirst(i) /\ SeededBook[a] = ticks[i].entry.decoded
      BY <2>4
    <3>2. \A j \in OfAsset(a) : j \in DOMAIN ticks
      BY DEF OfAsset
    <3>3. SeenOf(b, a)' = {j \in OfAsset(a) : IsFirst(j) \/ j <= 0}
      BY <1>2, <1>5 DEF SeenOf
    <3>4. \A j \in SeenOf(b, a)' : j = i
      <4>1. \A j \in OfAsset(a) : ~(j <= 0)
        BY <2>5, <3>2
      <4>2. \A j \in OfAsset(a) : IsFirst(j) => j = i
        BY <1>3, <2>2, <3>1, FirstOfAsset
      <4> QED BY <3>3, <4>1, <4>2
    <3>5. i \in SeenOf(b, a)' /\ i <= i
      BY <2>5, <3>1, <3>2, <3>3
    <3> QED BY <2>3, <3>1, <3>4, <3>5
  <2>9. ReportInv(b)'
    <3>1. ASSUME NEW c \in Crossings, c.at <= 0 PROVE FALSE
      <4>1. c.at \in DOMAIN ticks
        BY <1>3, <2>2, CrossingsHavePast
      <4> QED BY <2>5, <3>1, <4>1
    <3>2. {c \in Crossings : c.at <= 0} = {}
      BY <3>1
    <3> QED BY <1>2, <1>5, <1>6, <3>2 DEF ReportInv
  <2>10. ASSUME NEW c \in Bins PROVE FileInv(c)'
    <3>1. CASE c # b
      <4>1. phase'[c] = phase[c] /\ book'[c] = book[c] /\ rx'[c] = rx[c]
        BY <2>1, <3>1
      <4>2. FileInv(c)
        BY DEF ReplayInv
      <4> QED BY <1>1, <4>1, <4>2, OtherStays
    <3>2. CASE c = b
      BY <1>2, <2>2, <2>3, <2>7, <2>8, <2>9, <3>2 DEF FileInv
    <3> QED BY <3>1, <3>2
  <2> QED BY <2>6, <2>10 DEF ReplayInv
<1> QED BY <1>7, <1>8

\* What is ahead of a binary: no tick of the asset of the next one lies between what has
\* been seen of it and that one.
LEMMA SeenIsBefore ==
    ASSUME ReplayTypeOK, NEW b \in Bins, ticks # NoFile, StreamInv(b), rx[b] # << >>
    PROVE  LET i == Head(rx[b])
           IN /\ i \in DOMAIN ticks /\ i > at[b] /\ ~IsFirst(i)
              /\ SeenOf(b, ticks[i].asset) = Before(i)
              /\ \A j \in DOMAIN ticks : ~IsFirst(j) /\ j > at[b] => i <= j
<1> DEFINE i == Head(rx[b])
           a == ticks[i].asset
<1>1. rx[b] \in Seq(Nat) /\ ticks \in TickFiles /\ at[b] \in Nat
  BY DEF ReplayTypeOK
<1>2. Len(rx[b]) \in Nat /\ 1 \in 1..Len(rx[b]) /\ i = rx[b][1]
  BY <1>1
<1>3. i \in DOMAIN ticks /\ i > at[b] /\ ~IsFirst(i)
  BY <1>2 DEF StreamInv
<1>4. \A j \in DOMAIN ticks : j \in Nat
  BY <1>1, FileIsList
<1>5. ASSUME NEW j \in DOMAIN ticks, ~IsFirst(j), j > at[b] PROVE i <= j
  <2>1. PICK k \in 1..Len(rx[b]) : rx[b][k] = j
    BY <1>5 DEF StreamInv
  <2>2. CASE k = 1
    BY <1>2, <1>3, <1>4, <2>1, <2>2
  <2>3. CASE 1 < k
    <3>1. rx[b][1] < rx[b][k]
      BY <1>2, <2>3 DEF StreamInv, Increasing
    <3>2. i < j
      BY <1>2, <2>1, <3>1
    <3> HIDE DEF i
    <3> QED BY <1>3, <1>4, <3>2
  <2> QED BY <1>2, <2>2, <2>3
<1> HIDE DEF i
<1>6. ASSUME NEW j \in OfAsset(a) PROVE (IsFirst(j) \/ j <= at[b]) <=> j < i
  <2>1. i \in OfAsset(a) /\ j \in DOMAIN ticks /\ i \in Nat /\ j \in Nat
    BY <1>3, <1>4 DEF OfAsset
  <2>2. ASSUME IsFirst(j) PROVE j < i
    <3>1. j <= i
      BY <1>1, <2>1, <2>2, FirstOfAsset
    <3>2. j # i
      BY <1>3, <2>2
    <3> QED BY <2>1, <3>1, <3>2
  <2>3. ASSUME ~IsFirst(j), j < i PROVE j <= at[b]
    <3>1. ~(j > at[b])
      BY <1>5, <2>1, <2>3
    <3> QED BY <1>1, <2>1, <3>1
  <2>4. ASSUME j <= at[b] PROVE j < i
    BY <1>1, <1>3, <2>1, <2>4
  <2> QED BY <2>2, <2>3, <2>4
<1>7. SeenOf(b, a) = Before(i)
  BY <1>6 DEF SeenOf, Before
<1> QED BY <1>3, <1>5, <1>7 DEF i

\* One tick further: the hits are the crossings at it, and the book has its price.
LEMMA RecvStep ==
    ASSUME ReplayInv, NEW b \in Bins, Recv(b)
    PROVE  ReplayInv'
<1> DEFINE i == Head(rx[b])
           a == ticks[i].asset
           e == ticks[i].entry
           q == e.decoded
<1>1. UNCHANGED <<files, phase, opportunities, rolling>>
      /\ phase[b] = "recv" /\ pending[b] = {} /\ rx[b] # << >>
  BY DEF Recv
<1>2. /\ ticks' = ticks /\ borrowers' = borrowers /\ Crossings' = Crossings
      /\ LoadedEntries' = LoadedEntries
      /\ \A x : OfAsset(x)' = OfAsset(x)
      /\ \A x : IsFirst(x)' = IsFirst(x)
  BY <1>1, FilesStay
<1>3. ReplayTypeOK /\ FileInv(b) /\ ticks \in TickFiles /\ borrowers \in BorrowerFiles
  BY DEF ReplayInv, ReplayTypeOK
<1>4. Going(b) /\ ticks # NoFile /\ StreamInv(b) /\ BookInv(b) /\ ReportInv(b)
  BY <1>1, <1>3 DEF FileInv, Going
<1>5. /\ at' = [at EXCEPT ![b] = i]
      /\ book' = [book EXCEPT ![b][a] = q]
      /\ pending' = [pending EXCEPT ![b] =
             IF Path(b)!Ignored(a, e) THEN {}
             ELSE Path(b)!OnPriceUpdate(a, Path(b)!PrevPrice(a, q), q)]
      /\ rx' = [rx EXCEPT ![b] = Tail(@)]
  BY DEF Recv
<1>6. /\ i \in DOMAIN ticks /\ i > at[b] /\ ~IsFirst(i)
      /\ SeenOf(b, a) = Before(i)
      /\ \A j \in DOMAIN ticks : ~IsFirst(j) /\ j > at[b] => i <= j
  BY <1>1, <1>3, <1>4, SeenIsBefore
<1>7. /\ a \in Assets /\ q \in Prices /\ i \in Nat
      /\ \A j \in DOMAIN ticks : j \in Nat /\ ticks[j].entry.decoded \in Prices
  BY <1>3, <1>4, <1>6, FileIsList
<1> HIDE DEF i
<1>8. PICK j \in Before(i) :
         (\A k \in Before(i) : k <= j) /\ book[b][a] = ticks[j].entry.decoded
  <2>1. OfAsset(a) # {}
    BY <1>6 DEF OfAsset
  <2> QED BY <1>4, <1>6, <1>7, <2>1 DEF BookInv
<1> DEFINE p == ticks[j].entry.decoded
<1>9. p \in Prices /\ p # NoPrice /\ book[b][a] = p
  <2>1. j \in DOMAIN ticks
    BY DEF Before, OfAsset
  <2> QED BY <1>7, <1>8, <2>1, ReplayAssumption
<1>10. pending'[b] = {h \in LoadedEntries : h.trigger.asset = a
                                            /\ Path("replay")!Crosses(h.trigger, p, q)}
  <2>1. CASE Path(b)!Ignored(a, e)
    <3>1. book[b][a] = q
      BY <2>1 DEF Path!Ignored
    <3>2. p = q
      BY <1>9, <3>1
    <3>3. \A h \in LoadedEntries : ~Path("replay")!Crosses(h.trigger, p, q)
      BY <1>3, <1>9, <3>2, StillCrossesNothing
    <3>4. pending'[b] = {}
      BY <1>3, <1>5, <2>1 DEF ReplayTypeOK
    <3> QED BY <3>3, <3>4
  <2>2. CASE ~Path(b)!Ignored(a, e)
    <3>1. Path(b)!PrevPrice(a, q) = p
      BY <1>9 DEF Path!PrevPrice
    <3>2. pending'[b] = Path(b)!OnPriceUpdate(a, p, q)
      BY <1>3, <1>5, <2>2, <3>1 DEF ReplayTypeOK
    <3> HIDE DEF p, q, a
    <3> QED BY <1>3, <1>7, <1>9, <3>2, FoundAreCrossed
  <2> QED BY <2>1, <2>2
<1>11. at'[b] = i
  BY <1>3, <1>5 DEF ReplayTypeOK
<1>12. \A h : [at |-> i, hit |-> h] \in Crossings <=> h \in pending'[b]
  <2>1. \A h : [at |-> i, hit |-> h] \in Crossings
                 <=> /\ h \in LoadedEntries /\ h.trigger.asset = a
                     /\ Path("replay")!Crosses(h.trigger, p, q)
    BY <1>3, <1>4, <1>6, <1>8, CrossingsAt
  <2> HIDE DEF p, q, a
  <2> QED BY <1>10, <2>1
<1> HIDE DEF p
<1>13. ReplayTypeOK'
  <2>1. at' \in [Bins -> Nat]
    BY <1>3, <1>5, <1>7 DEF ReplayTypeOK
  <2>2. book' \in [Bins -> [Assets -> Prices \cup {NoPrice}]]
    <3> HIDE DEF q, a
    <3>1. [book[b] EXCEPT ![a] = q] \in [Assets -> Prices \cup {NoPrice}]
      BY <1>3, <1>7 DEF ReplayTypeOK
    <3>2. book' = [book EXCEPT ![b] = [book[b] EXCEPT ![a] = q]]
      BY <1>5
    <3> QED BY <1>3, <3>1, <3>2 DEF ReplayTypeOK
  <2>3. rx' \in [Bins -> Seq(Nat)]
    <3>1. Tail(rx[b]) \in Seq(Nat)
      BY <1>1, <1>3 DEF ReplayTypeOK
    <3> QED BY <1>3, <1>5, <3>1 DEF ReplayTypeOK
  <2>4. pending' \in [Bins -> SUBSET LoadedEntries]
    <3>1. pending' = [pending EXCEPT ![b] = pending'[b]]
      BY <1>3, <1>5 DEF ReplayTypeOK
    <3>2. pending'[b] \in SUBSET LoadedEntries
      BY <1>10
    <3> QED BY <1>3, <3>1, <3>2 DEF ReplayTypeOK
  <2> QED BY <1>1, <1>2, <1>3, <2>1, <2>2, <2>3, <2>4 DEF ReplayTypeOK, files
<1>14. StreamInv(b)'
  <2> DEFINE s == rx[b]
             t == Tail(s)
  <2>1. rx'[b] = t
    BY <1>3, <1>5 DEF ReplayTypeOK
  <2>2. s \in Seq(Nat) /\ s # << >> /\ i = s[1]
    BY <1>1, <1>3 DEF ReplayTypeOK, i
  <2>3. /\ Len(s) \in Nat \ {0} /\ Len(t) = Len(s) - 1
        /\ \A k \in 1..Len(t) : k + 1 \in 1..Len(s) /\ t[k] = s[k + 1]
    BY <2>2
  <2>4. \A x \in DOMAIN ticks : ~IsFirst(x) /\ x > at[b] <=> \E k \in 1..Len(s) : s[k] = x
    BY <1>4 DEF StreamInv
  <2>5. (\A k \in 1..Len(s) : s[k] \in DOMAIN ticks) /\ Increasing(s)
    BY <1>4 DEF StreamInv
  <2> HIDE DEF s, t
  <2>6. \A k \in 1..Len(t) : t[k] \in DOMAIN ticks
    BY <2>3, <2>5
  <2>7. Increasing(t)
    <3> SUFFICES ASSUME NEW k \in 1..Len(t), NEW l \in 1..Len(t), k < l PROVE t[k] < t[l]
      BY DEF Increasing
    <3>1. k + 1 \in 1..Len(s) /\ l + 1 \in 1..Len(s) /\ k + 1 < l + 1
      BY <2>3
    <3>2. s[k + 1] < s[l + 1]
      BY <2>5, <3>1 DEF Increasing
    <3> QED BY <2>3, <3>2
  <2>8. ASSUME NEW x \in DOMAIN ticks, ~IsFirst(x), x > i PROVE \E k \in 1..Len(t) : t[k] = x
    <3>1. at[b] \in Nat /\ x \in Nat
      BY <1>3, <1>7 DEF ReplayTypeOK
    <3>2. x > at[b]
      BY <1>6, <1>7, <2>8, <3>1
    <3>3. PICK k \in 1..Len(s) : s[k] = x
      BY <2>4, <2>8, <3>2
    <3>4. k # 1
      BY <1>7, <2>2, <2>8, <3>3
    <3>5. k - 1 \in 1..Len(t) /\ (k - 1) + 1 = k
      BY <2>3, <3>4
    <3>6. t[k - 1] = x
      BY <2>3, <3>3, <3>5
    <3> QED BY <3>5, <3>6
  <2>9. ASSUME NEW k \in 1..Len(t) PROVE ~IsFirst(t[k]) /\ t[k] > i
    <3>1. k + 1 \in 1..Len(s) /\ 1 \in 1..Len(s) /\ 1 < k + 1 /\ t[k] = s[k + 1]
      BY <2>3
    <3>2. s[1] < s[k + 1]
      BY <2>5, <3>1 DEF Increasing
    <3>3. t[k] \in DOMAIN ticks /\ t[k] \in Nat
      BY <1>7, <2>6
    <3>4. ~IsFirst(t[k])
      BY <2>4, <3>1, <3>3
    <3> QED BY <1>7, <2>2, <3>1, <3>2, <3>3, <3>4
  <2>10. \A x \in DOMAIN ticks : ~IsFirst(x) /\ x > i <=> \E k \in 1..Len(t) : t[k] = x
    BY <2>8, <2>9
  <2> QED BY <1>2, <1>11, <2>1, <2>6, <2>7, <2>10 DEF StreamInv
<1>15. BookInv(b)'
  <2> SUFFICES ASSUME NEW x \in Assets, OfAsset(x) # {}
               PROVE  \E m \in SeenOf(b, x)' :
                        /\ \A k \in SeenOf(b, x)' : k <= m
                        /\ book'[b][x] = ticks[m].entry.decoded
    BY <1>2 DEF BookInv
  <2>1. SeenOf(b, x)' = {m \in OfAsset(x) : IsFirst(m) \/ m <= i}
    BY <1>2, <1>11 DEF SeenOf
  <2>2. \A m \in OfAsset(x) : m \in DOMAIN ticks /\ m \in Nat /\ ticks[m].asset = x
    BY <1>7 DEF OfAsset
  <2>3. CASE x = a
    <3>1. i \in OfAsset(x)
      BY <1>6, <2>3 DEF OfAsset
    <3>2. \A k \in OfAsset(x) : IsFirst(k) => k <= i
      BY <1>3, <1>4, <3>1, FirstOfAsset
    <3>3. \A k \in SeenOf(b, x)' : k <= i
      BY <2>1, <3>2
    <3>4. i \in SeenOf(b, x)'
      BY <1>7, <2>1, <3>1
    <3>5. book'[b][x] = q
      BY <1>3, <1>5, <1>7, <2>3 DEF ReplayTypeOK
    <3> QED BY <3>3, <3>4, <3>5
  <2>4. CASE x # a
    <3>1. book'[b][x] = book[b][x]
      BY <1>3, <1>5, <1>7, <2>4 DEF ReplayTypeOK
    <3>2. ASSUME NEW m \in OfAsset(x), ~IsFirst(m) PROVE m <= i <=> m <= at[b]
      <4>1. m \in DOMAIN ticks /\ m \in Nat /\ m # i /\ at[b] \in Nat
        BY <1>3, <2>2, <2>4 DEF ReplayTypeOK
      <4>2. m > at[b] => i <= m
        BY <1>6, <3>2, <4>1
      <4> QED BY <1>6, <1>7, <4>1, <4>2
    <3>3. SeenOf(b, x)' = SeenOf(b, x)
      BY <2>1, <3>2 DEF SeenOf
    <3> QED BY <1>4, <3>1, <3>3 DEF BookInv
  <2> QED BY <2>3, <2>4
<1>16. ReportInv(b)'
  <2> DEFINE R == Reported(b)
             P == {[at |-> i, hit |-> h] : h \in pending'[b]}
  <2>1. Reported(b)' = R /\ opportunities'[b] = opportunities[b]
    BY <1>1 DEF Reported
  <2>2. PendingCrossings(b)' = P
    BY <1>11 DEF PendingCrossings
  <2>3. /\ IsFiniteSet(R) /\ Cardinality(R) = Len(opportunities[b])
        /\ R = {c \in Crossings : c.at <= at[b]}
    <3>1. PendingCrossings(b) = {}
      BY <1>1 DEF PendingCrossings
    <3> QED BY <1>4, <3>1 DEF ReportInv
  <2>4. \A c \in Crossings : c.at \in DOMAIN ticks /\ ~IsFirst(c.at) /\ c = [at |-> c.at, hit |-> c.hit]
    BY <1>3, <1>4, CrossingsHavePast
  <2>5. P \subseteq Crossings
    BY <1>12
  <2>6. \A c \in P : c.at = i
    OBVIOUS
  <2>7. at[b] \in Nat
    BY <1>3 DEF ReplayTypeOK
  <2>8. ASSUME NEW c \in Crossings, c.at = i PROVE c \in P
    <3>1. c = [at |-> i, hit |-> c.hit]
      BY <2>4, <2>8
    <3>2. c.hit \in pending'[b]
      BY <1>12, <3>1
    <3> QED BY <3>1, <3>2
  <2> HIDE DEF P, R
  <2>9. R \cap P = {}
    <3> SUFFICES ASSUME NEW c \in R, c \in P PROVE FALSE
      OBVIOUS
    <3>1. c.at <= at[b] /\ c.at = i
      BY <2>3, <2>6
    <3> QED BY <1>6, <1>7, <2>7, <3>1
  <2>10. R \subseteq Crossings
    BY <2>3
  <2>11. R \cup P = {c \in Crossings : c.at <= i}
    <3>1. ASSUME NEW c \in Crossings, c.at <= i PROVE c \in R \cup P
      <4>1. c.at \in Nat /\ ~IsFirst(c.at) /\ c.at \in DOMAIN ticks
        BY <1>7, <2>4
      <4>2. CASE c.at > at[b]
        <5>1. i <= c.at
          BY <1>6, <4>1, <4>2
        <5>2. c.at = i
          BY <1>7, <3>1, <4>1, <5>1
        <5> QED BY <2>8, <5>2
      <4>3. CASE ~(c.at > at[b])
        <5>1. c.at <= at[b]
          BY <2>7, <4>1, <4>3
        <5> QED BY <2>3, <5>1
      <4> QED BY <4>2, <4>3
    <3>2. ASSUME NEW c \in R PROVE c.at <= i
      <4>1. c \in Crossings /\ c.at <= at[b]
        BY <2>3
      <4>2. c.at \in Nat
        BY <1>7, <2>4, <4>1
      <4> QED BY <1>6, <1>7, <2>7, <4>1, <4>2
    <3>3. \A c \in P : c.at <= i
      BY <1>7, <2>6
    <3> QED BY <2>5, <2>10, <3>1, <3>2, <3>3
  <2> QED BY <1>2, <1>11, <2>1, <2>2, <2>3, <2>5, <2>9, <2>10, <2>11 DEF ReportInv
<1>17. ASSUME NEW c \in Bins PROVE FileInv(c)'
  <2>1. CASE c # b
    <3>1. /\ phase'[c] = phase[c] /\ book'[c] = book[c] /\ rx'[c] = rx[c] /\ at'[c] = at[c]
          /\ pending'[c] = pending[c] /\ opportunities'[c] = opportunities[c]
      BY <1>1, <1>3, <1>5, <2>1 DEF ReplayTypeOK
    <3>2. FileInv(c)
      BY DEF ReplayInv
    <3> QED BY <1>1, <3>1, <3>2, OtherStays
  <2>2. CASE c = b
    <3>1. phase'[b] = "recv"
      BY <1>1
    <3> QED BY <1>2, <1>4, <1>14, <1>15, <1>16, <2>2, <3>1 DEF FileInv
  <2> QED BY <2>1, <2>2
<1> QED BY <1>13, <1>17 DEF ReplayInv

\* What a list of records says after one more.
LEMMA ReportedGrows ==
    ASSUME NEW b \in Bins, IsSeq(opportunities[b]), NEW o,
           opportunities'[b] = Append(opportunities[b], o)
    PROVE  /\ Reported(b)' = Reported(b) \cup {[at |-> o.at, hit |-> o.hit]}
           /\ IsSeq(opportunities'[b]) /\ Len(opportunities'[b]) = Len(opportunities[b]) + 1
<1> DEFINE s == opportunities[b]
           t == opportunities'[b]
           n == Len(s)
           S == {s[k] : k \in DOMAIN s} \cup {o}
<1>1. s \in Seq(S) /\ o \in S
  <2>1. s \in Seq({s[k] : k \in DOMAIN s})
    BY DEF IsSeq
  <2>2. {s[k] : k \in DOMAIN s} \subseteq S
    OBVIOUS
  <2> HIDE DEF s
  <2> QED BY <2>1, <2>2, SeqMonotonic
<1>2. t = Append(s, o)
  OBVIOUS
<1> HIDE DEF s, t, S
<1>3. /\ t \in Seq(S) /\ Len(t) = n + 1 /\ n \in Nat /\ DOMAIN t = 1 .. n + 1 /\ DOMAIN s = 1..n
      /\ \A k \in 1..n : t[k] = s[k]
      /\ t[n + 1] = o
  BY <1>1, <1>2, AppendProperties, LenProperties
<1>4. IsSeq(t)
  BY <1>3, TypedIsSeq
<1> DEFINE Of(r) == [at |-> r.at, hit |-> r.hit]
<1>5. Reported(b) = {Of(s[k]) : k \in 1..n}
  BY <1>3 DEF Reported, s
<1>6. Reported(b)' = {Of(t[k]) : k \in 1 .. n + 1}
  BY <1>3 DEF Reported, t
<1> HIDE DEF Of
<1>7. \A k \in 1 .. n + 1 : k \in 1..n \/ k = n + 1
  BY <1>3
<1>8. \A k \in 1..n : k \in 1 .. n + 1
  BY <1>3
<1>9. n + 1 \in 1 .. n + 1
  BY <1>3
<1> HIDE DEF n
<1>10. {Of(t[k]) : k \in 1 .. n + 1} = {Of(s[k]) : k \in 1..n} \cup {Of(o)}
  BY <1>3, <1>7, <1>8, <1>9
<1> QED BY <1>3, <1>4, <1>5, <1>6, <1>10 DEF Of, s, t, n

\* A hit is printed: it goes from the pending crossings to the reported ones.
LEMMA ReportStep ==
    ASSUME ReplayInv, NEW b \in Bins, Report(b)
    PROVE  ReplayInv'
<1>1. UNCHANGED <<files, store, book, rx, at>> /\ phase[b] = "recv"
  BY DEF Report
<1>2. PICK h \in pending[b] :
         /\ opportunities' = [opportunities EXCEPT ![b] = Append(@, Opportunity(b, h))]
         /\ pending' = [pending EXCEPT ![b] = @ \ {h}]
         /\ phase' = phase \/ phase' = [phase EXCEPT ![b] = "failed"]
  BY DEF Report
<1>3. /\ ticks' = ticks /\ borrowers' = borrowers /\ Crossings' = Crossings
      /\ LoadedEntries' = LoadedEntries
      /\ \A x : OfAsset(x)' = OfAsset(x)
      /\ \A x : IsFirst(x)' = IsFirst(x)
  BY <1>1, FilesStay
<1>4. ReplayTypeOK /\ FileInv(b)
  BY DEF ReplayInv
<1>5. Going(b) /\ ticks # NoFile /\ StreamInv(b) /\ BookInv(b) /\ ReportInv(b)
  BY <1>1, <1>4 DEF FileInv, Going
<1> DEFINE o == Opportunity(b, h)
           c == [at |-> at[b], hit |-> h]
<1>6. o.at = at[b] /\ o.hit = h
  BY DEF Opportunity
<1> HIDE DEF o
<1>7. /\ opportunities'[b] = Append(opportunities[b], o)
      /\ pending'[b] = pending[b] \ {h}
      /\ phase'[b] \in {"recv", "failed"}
      /\ at'[b] = at[b]
  BY <1>1, <1>2, <1>4 DEF ReplayTypeOK, o
<1>8. /\ Reported(b)' = Reported(b) \cup {c}
      /\ IsSeq(opportunities'[b]) /\ Len(opportunities'[b]) = Len(opportunities[b]) + 1
  <2>1. IsSeq(opportunities[b])
    BY <1>4 DEF ReplayTypeOK
  <2> QED BY <1>6, <1>7, <2>1, ReportedGrows
<1>9. PendingCrossings(b)' = PendingCrossings(b) \ {c} /\ c \in PendingCrossings(b)
  <2>1. PendingCrossings(b)' = {[at |-> at[b], hit |-> x] : x \in pending[b] \ {h}}
    BY <1>7 DEF PendingCrossings
  <2>2. \A x : [at |-> at[b], hit |-> x] = c => x = h
    OBVIOUS
  <2> QED BY <2>1, <2>2 DEF PendingCrossings
<1> HIDE DEF c
<1>10. ReplayTypeOK'
  <2>1. ASSUME NEW x \in Bins PROVE IsSeq(opportunities'[x])
    <3>1. CASE x = b
      BY <1>8, <3>1
    <3>2. CASE x # b
      <4>1. opportunities'[x] = opportunities[x]
        BY <1>2, <1>4, <3>2 DEF ReplayTypeOK
      <4>2. IsSeq(opportunities[x])
        BY <1>4 DEF ReplayTypeOK
      <4> QED BY <4>1, <4>2
    <3> QED BY <3>1, <3>2
  <2>2. opportunities' = [x \in Bins |-> opportunities'[x]]
    BY <1>2, <1>4 DEF ReplayTypeOK
  <2>3. pending' \in [Bins -> SUBSET LoadedEntries]
    BY <1>2, <1>4 DEF ReplayTypeOK
  <2>4. phase' \in [Bins -> {"start", "recv", "done", "failed"}]
    BY <1>2, <1>4 DEF ReplayTypeOK
  <2> QED BY <1>1, <1>3, <1>4, <2>1, <2>2, <2>3, <2>4 DEF ReplayTypeOK
<1>11. StreamInv(b)'
  BY <1>1, <1>3, <1>5 DEF StreamInv, Increasing
<1>12. BookInv(b)'
  BY <1>1, <1>3, <1>5 DEF BookInv, SeenOf
<1>13. ReportInv(b)'
  <2> DEFINE R == Reported(b)
             P == PendingCrossings(b)
  <2>1. /\ IsFiniteSet(R) /\ Cardinality(R) = Len(opportunities[b])
        /\ R \subseteq Crossings /\ P \subseteq Crossings /\ R \cap P = {}
        /\ R \cup P = {x \in Crossings : x.at <= at[b]}
    BY <1>5 DEF ReportInv
  <2> HIDE DEF R, P
  <2>2. Reported(b)' = R \cup {c} /\ PendingCrossings(b)' = P \ {c} /\ c \in P
    BY <1>8, <1>9 DEF R, P
  <2>3. c \notin R
    BY <2>1, <2>2
  <2>4. IsFiniteSet(R \cup {c}) /\ Cardinality(R \cup {c}) = Cardinality(R) + 1
    BY <2>1, <2>3, FS_AddElement
  <2>5. R \cup {c} \subseteq Crossings /\ P \ {c} \subseteq Crossings
        /\ (R \cup {c}) \cap (P \ {c}) = {} /\ (R \cup {c}) \cup (P \ {c}) = R \cup P
    BY <2>1, <2>2
  <2> QED BY <1>3, <1>7, <1>8, <2>1, <2>2, <2>4, <2>5 DEF ReportInv
<1>14. ASSUME NEW x \in Bins PROVE FileInv(x)'
  <2>1. CASE x # b
    <3>1. /\ phase'[x] = phase[x] /\ book'[x] = book[x] /\ rx'[x] = rx[x] /\ at'[x] = at[x]
          /\ pending'[x] = pending[x] /\ opportunities'[x] = opportunities[x]
      BY <1>1, <1>2, <1>4, <2>1 DEF ReplayTypeOK
    <3>2. FileInv(x)
      BY DEF ReplayInv
    <3> QED BY <1>1, <3>1, <3>2, OtherStays
  <2>2. CASE x = b
    BY <1>3, <1>5, <1>7, <1>11, <1>12, <1>13, <2>2 DEF FileInv
  <2> QED BY <2>1, <2>2
<1> QED BY <1>10, <1>14 DEF ReplayInv

\* The end of the stream: nothing is left to cross.
LEMMA FinishStep ==
    ASSUME ReplayInv, NEW b \in Bins, Finish(b)
    PROVE  ReplayInv'
<1>1. /\ UNCHANGED <<files, store, book, rx, at, pending, opportunities, rolling>>
      /\ phase[b] = "recv" /\ pending[b] = {} /\ rx[b] = << >>
      /\ phase' = [phase EXCEPT ![b] = "failed"] \/ phase' = [phase EXCEPT ![b] = "done"]
  BY DEF Finish
<1>2. /\ ticks' = ticks /\ borrowers' = borrowers /\ Crossings' = Crossings
      /\ LoadedEntries' = LoadedEntries
      /\ \A x : OfAsset(x)' = OfAsset(x)
      /\ \A x : IsFirst(x)' = IsFirst(x)
  BY <1>1, FilesStay
<1>3. ReplayTypeOK /\ FileInv(b)
  BY DEF ReplayInv
<1>4. Going(b) /\ ticks # NoFile /\ StreamInv(b) /\ BookInv(b) /\ ReportInv(b)
  BY <1>1, <1>3 DEF FileInv, Going
<1>5. phase'[b] \in {"failed", "done"}
  BY <1>1, <1>3 DEF ReplayTypeOK
<1>6. ReplayTypeOK'
  <2>1. phase' \in [Bins -> {"start", "recv", "done", "failed"}]
    BY <1>1, <1>3 DEF ReplayTypeOK
  <2> QED BY <1>1, <1>2, <1>3, <2>1 DEF ReplayTypeOK
<1>7. StreamInv(b)'
  BY <1>1, <1>2, <1>4 DEF StreamInv, Increasing
<1>8. BookInv(b)'
  BY <1>1, <1>2, <1>4 DEF BookInv, SeenOf
<1>9. ReportInv(b)'
  <2>1. Reported(b)' = Reported(b) /\ PendingCrossings(b)' = PendingCrossings(b)
    BY <1>1 DEF Reported, PendingCrossings
  <2> QED BY <1>1, <1>2, <1>4, <2>1 DEF ReportInv
<1>10. ASSUME NEW x \in Bins PROVE FileInv(x)'
  <2>1. CASE x # b
    <3>1. phase'[x] = phase[x]
      BY <1>1, <1>3, <2>1 DEF ReplayTypeOK
    <3>2. FileInv(x)
      BY DEF ReplayInv
    <3> QED BY <1>1, <3>1, <3>2, OtherStays
  <2>2. CASE x = b
    BY <1>1, <1>2, <1>4, <1>5, <1>7, <1>8, <1>9, <2>2 DEF FileInv
  <2> QED BY <2>1, <2>2
<1> QED BY <1>6, <1>10 DEF ReplayInv

\* A step that touches none of what the invariant is about.
LEMMA ReplayStutter ==
    ASSUME ReplayInv, UNCHANGED <<files, phase, store, book, rx, at, pending, opportunities>>
    PROVE  ReplayInv'
<1>1. ticks' = ticks /\ borrowers' = borrowers /\ LoadedEntries' = LoadedEntries
  BY FilesStay
<1>2. ReplayTypeOK'
  BY <1>1 DEF ReplayInv, ReplayTypeOK
<1>3. ASSUME NEW x \in Bins PROVE FileInv(x)'
  BY OtherStays DEF ReplayInv
<1> QED BY <1>2, <1>3 DEF ReplayInv

LEMMA ReplayStep == ReplayInv /\ [Next]_vars => ReplayInv'
<1> SUFFICES ASSUME ReplayInv, [Next]_vars PROVE ReplayInv'
  OBVIOUS
<1>1. CASE Age
  BY <1>1, ReplayStutter DEF Age
<1>2. CASE UNCHANGED vars
  BY <1>2, ReplayStutter DEF vars
<1>3. ASSUME NEW b \in Bins, Start(b) \/ Recv(b) \/ Report(b) \/ Finish(b) PROVE ReplayInv'
  BY <1>3, StartStep, RecvStep, ReportStep, FinishStep
<1> QED BY <1>1, <1>2, <1>3 DEF Next

\* At the end of the stream nothing is still to come.
LEMMA DoneReportsAll ==
    ASSUME ReplayTypeOK, NEW b \in Bins, FileInv(b), phase[b] = "done", ticks # NoFile
    PROVE  Reported(b) = Crossings
<1>1. Going(b) /\ rx[b] = << >> /\ pending[b] = {} /\ StreamInv(b) /\ ReportInv(b)
  BY DEF FileInv, Going
<1>2. Reported(b) = {c \in Crossings : c.at <= at[b]}
  <2>1. PendingCrossings(b) = {}
    BY <1>1 DEF PendingCrossings
  <2> QED BY <1>1, <2>1 DEF ReportInv
<1>3. ASSUME NEW c \in Crossings PROVE c.at <= at[b]
  <2>1. c.at \in DOMAIN ticks /\ ~IsFirst(c.at) /\ c.at \in Nat /\ at[b] \in Nat
    BY CrossingsHavePast, FileIsList DEF ReplayTypeOK
  <2>2. ~(c.at > at[b])
    <3>1. ~\E k \in 1..Len(rx[b]) : rx[b][k] = c.at
      BY <1>1
    <3> QED BY <1>1, <2>1, <3>1 DEF StreamInv
  <2> QED BY <2>1, <2>2
<1> QED BY <1>2, <1>3

\* Both binaries report the crossings of the file, each once, and no others: all of them
\* when they get to the end (the loops of replay and of shadow's fixture mode, seeds
\* included).
THEOREM BothReportCrossings == Spec => []ReportsCrossings
<1>1. Init => ReplayInv
  BY ReplayInit
<1>2. ReplayInv /\ [Next]_vars => ReplayInv'
  BY ReplayStep
<1>3. ReplayInv => ReportsCrossings
  <2> SUFFICES ASSUME ReplayInv, ticks # NoFile, NEW b \in Bins
               PROVE  /\ Reported(b) \subseteq Crossings
                      /\ Cardinality(Reported(b)) = Len(opportunities[b])
                      /\ phase[b] = "done" => Reported(b) = Crossings
    BY DEF ReportsCrossings
  <2>1. ReplayTypeOK /\ FileInv(b) /\ ReportInv(b)
    BY DEF ReplayInv, FileInv
  <2>2. phase[b] = "done" => Reported(b) = Crossings
    BY <2>1, DoneReportsAll
  <2> QED BY <2>1, <2>2 DEF ReportInv
<1> QED BY <1>1, <1>2, <1>3, PTL DEF Spec
=============================================================================
