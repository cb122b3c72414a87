------------------------------ MODULE MCShadow ------------------------------
(***************************************************************************)
(* Discovery and the shadow run on small chains.  Values are in dollars    *)
(* per unit; a share of a reserve is worth two of its tokens (3 + 2 - 1    *)
(* tokens, 2 shares), of the ragged reserve four thirds of a token.        *)
(***************************************************************************)
EXTENDS Shadow

Reserve(price, thr, bf, market, len) ==
    [len |-> len, market |-> market, market_price_sf |-> price, loan_to_value_pct |-> 70,
     liquidation_threshold_pct |-> thr, borrow_factor_pct |-> bf,
     total_available_amount |-> 3, borrowed_amount_sf |-> 2, fees_sf |-> 1,
     collateral_mint_total_supply |-> 2]

\* coll at one of two prices, debt with and without a borrow factor, and a reserve
\* that is opened while the discovery runs.
ReserveMaps ==
    {[coll |-> Reserve(p, 80, 0, "main", 8624), debt |-> Reserve(1, 80, bf, "main", 8624)] :
        p \in {1, 2}, bf \in {0, 120}}
Plain == [coll |-> Reserve(1, 80, 0, "main", 8624), debt |-> Reserve(1, 80, 0, "main", 8624)]
Ragged == [ragged |-> [Reserve(1, 10, 0, "main", 8624) EXCEPT !.loan_to_value_pct = 5,
                                                                !.collateral_mint_total_supply = 3],
           debt |-> Reserve(1, 80, 104, "main", 8624)]
NewReserve == [late |-> Reserve(1, 80, 0, "main", 8624)]

Slot(r, amount, mv) == [reserve |-> r, amount |-> amount, market_value_sf |-> mv]
Obligation(dep, bor, group) ==
    [len |-> 3344, market |-> "main", has_debt |-> bor # << >>, elevation_group |-> group,
     deposits |-> dep, borrows |-> bor]
Coll(n) == <<Slot("coll", n, 9), Slot(DefaultKey, 0, 0)>>
Debt(n) == <<Slot(DefaultKey, 0, 0), Slot("debt", n, 9)>>

\* Ten shares are twenty tokens: 16 at a price of 1 and a threshold of 80.
Sound == Obligation(Coll(10), Debt(13), 0)
OverMax == Obligation(Coll(10), Debt(15), 0)     \* above the LTV of 70, or liquidatable at 120
Unsound == Obligation(Coll(10), Debt(17), 0)
Dust == Obligation(Coll(1), Debt(2), 0)
Elevated == Obligation(Coll(10), Debt(17), 1)    \* sound thanks to its group: 18
Zeroed == Obligation(Coll(10), Debt(4), 2)       \* its group counts no collateral
Edge == Obligation(Coll(40), Debt(64), 0)        \* at its limit, to the last bit
Uneven == Obligation(<<Slot("ragged", 31, 9)>>, Debt(4), 0)  \* 416 hundredths, of ragged limit 413 1/3
Emptied == Obligation(<<Slot("coll", 0, 5)>>, << >>, 0)
Elsewhere == [Unsound EXCEPT !.market = "other"]
Late == Obligation(<<Slot("coll", 10, 9), Slot("late", 10, 0)>>, Debt(20), 0)

Groups == << [id |-> 0, ltv_pct |-> 0, liquidation_threshold_pct |-> 0],
             [id |-> 1, ltv_pct |-> 85, liquidation_threshold_pct |-> 90],
             [id |-> 2, ltv_pct |-> 0, liquidation_threshold_pct |-> 0] >>
Markets == {[len |-> 4664, groups |-> Groups]}
ShortMarkets == Markets \cup {[len |-> 2000, groups |-> Groups]}

Others == [marginfi |-> 2, banks |-> 1, save |-> <<0, 1, 0>>]

Chain(market, res, obl, known) ==
    [market |-> market, res |-> res, obl |-> obl, known |-> known,
     others |-> Others, funded |-> {"payer2"}]

Borrowers == [o1 : {Unsound, OverMax}, o2 : {Elevated, Dust, Zeroed}, o3 : {Unsound, Sound, Elsewhere}]
LateBorrowers == [o1 : {OverMax}, o2 : {Emptied}, o3 : {Late}]

\* All sets of borrowers with any prices; a market of another layout or without some
\* known account; and the states with the new reserve, for a chain to move to.
MCChains ==
    {Chain(m, r, o, KnownLabels) : m \in Markets, r \in ReserveMaps, o \in Borrowers}
    \cup {Chain(m, r, o, k) : m \in ShortMarkets, r \in ReserveMaps,
            o \in [o1 : {OverMax}, o2 : {Elevated, Zeroed}, o3 : {Sound}],
            k \in {KnownLabels, KnownLabels \ {"klend_main_market"}}}
    \cup {Chain(m, Plain, [o1 |-> Unsound, o2 |-> Edge, o3 |-> Unsound], KnownLabels) : m \in Markets}
    \cup {Chain(m, Ragged, [o1 |-> Uneven, o2 |-> Emptied], KnownLabels) : m \in Markets}
    \cup {Chain(m, r @@ NewReserve, o, KnownLabels) : m \in Markets, r \in ReserveMaps, o \in LateBorrowers}

\* Nothing but this happens: a reserve is opened and o3 deposits there and borrows.
RaceChains ==
    LET chain1(res, o3) == Chain([len |-> 4664, groups |-> Groups], res,
                                 [o1 |-> OverMax, o2 |-> Elevated, o3 |-> o3], KnownLabels)
    IN {chain1(Plain, Sound), chain1(Plain @@ NewReserve, Late)}

\* Instruction lists of an obligation: an account asked for read-only and then
\* writable, the payer as a plain account, a second signer, a program that is also an
\* account; one list that fills the table and one with more accounts than it holds.
Meta(k, s, w) == [pubkey |-> k, is_signer |-> s, is_writable |-> w]
Ix(p, metas) == [program_id |-> p, accounts |-> metas]
Budget == Ix("budget", << >>)
MCProveIxs == <<Budget, Budget>>
Full(o) ==
    <<Budget, Ix("klend", <<Meta(o, FALSE, TRUE), Meta("market", FALSE, FALSE)>>),
      Ix("klend", <<Meta("liquidator", TRUE, FALSE), Meta("reserve", FALSE, FALSE), Meta(o, FALSE, FALSE)>>)>>
Mixed(o) ==
    <<Ix("klend", <<Meta(o, FALSE, TRUE), Meta("payer2", FALSE, FALSE), Meta("klend", FALSE, FALSE)>>),
      Ix("ata", <<Meta("payer2", TRUE, TRUE), Meta("market", FALSE, TRUE)>>)>>
TooLarge(o) ==
    <<Ix("klend", <<Meta(o, FALSE, TRUE), Meta("a", TRUE, TRUE), Meta("b", FALSE, TRUE), Meta("c", FALSE, FALSE)>>),
      Ix("ata", <<Meta("d", FALSE, TRUE), Meta("e", FALSE, TRUE)>>)>>
MCPlans == [o1 |-> {Full("o1"), TooLarge("o1")}, o2 |-> {Mixed("o2")}, o3 |-> {Mixed("o3"), TooLarge("o3")}]
MCFeePayers == <<"payer1", "payer2">>
=============================================================================
