----------------------------- MODULE MCPosition -----------------------------
(***************************************************************************)
(* Module Position for TLC.  With scales of 40 for 10^6 and 10^4, 80 for   *)
(* 10^9 and 64 for 2^48, one percent is less than a unit and every         *)
(* division of the code truncates something in most states.                *)
(***************************************************************************)
EXTENDS Position, TLC

MCUnit == (Coll :> 100) @@ (Other :> 1) @@ (Debt :> 2)
MCLiqThreshold == (Coll :> 32) @@ (Other :> 26) @@ (Debt :> 0)   \* 80 %, 65 %
MCAssetWeight == (Coll :> 32) @@ (Other :> 26) @@ (Debt :> 0)
MCLiabWeight == (Coll :> 40) @@ (Other :> 40) @@ (Debt :> 44)    \* 110 %

\* The first two are at their trigger between two of the quotes.
MCHoldings == {[coll |-> 610, other |-> 2, debt |-> 13], [coll |-> 400, other |-> 0, debt |-> 8],
               [coll |-> 0, other |-> 5, debt |-> 9]}

MCQuotes == (Coll :> {None, 38, 39, 54}) @@ (Other :> {None, 71}) @@ (Debt :> {43, 80})

FeeAccount(short, max_fee, paused) == [short |-> short, max_fee |-> max_fee, paused |-> paused]

\* Not loaded; too short; negative; too large; paused; 1.25 and 2.5 basis points as fractions.
MCFeeAccounts == {None, FeeAccount(TRUE, 4, FALSE), FeeAccount(FALSE, -1, FALSE),
                  FeeAccount(FALSE, 999, FALSE),
                  FeeAccount(FALSE, 4, TRUE), FeeAccount(FALSE, 2, FALSE),
                  FeeAccount(FALSE, 4, FALSE)}

\* The instance is one that MarginNotWorse is about.
ASSUME MCRoom == RoomForBonus
=============================================================================
