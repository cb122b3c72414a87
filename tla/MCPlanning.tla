----------------------------- MODULE MCPlanning -----------------------------
(***************************************************************************)
(* Planning over bounded inputs.  Money is in thousandths of a dollar and  *)
(* the gates are ProfitConfig's defaults in it, so that every gate is met, *)
(* just met and missed; the obligations have up to two positions a side.   *)
(***************************************************************************)
EXTENDS Planning

MCOpportunities ==
    [protocol : Protocols, gross : {-100, 900, 1399, 1400, 2700, 9000},
     swap_cost : {100, 1690}, chain_cost : {80}, tip : {50, 230},
     notional : {9999, 10000, 60000, 900000}, inventory : {0, 29999, 30000, 900000},
     flash_fee_bps : {9, 80}]

Sides == TupleOf(Reserves, 0) \cup TupleOf(Reserves, 1)
            \cup {s \in TupleOf(Reserves, 2) : s[1] # s[2]}

\* Up to two deposits in any order and up to one borrow, or two deposits and two
\* borrows; an obligation that has borrows may have a referrer.
MCChains ==
    {c \in [deposits : Sides, borrows : Sides, referrer : BOOLEAN] :
        /\ Len(c.borrows) = 2 => Len(c.deposits) = 2
        /\ c.referrer => c.borrows # << >>}
=============================================================================
