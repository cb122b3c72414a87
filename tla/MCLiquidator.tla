---------------------------- MODULE MCLiquidator ----------------------------
EXTENDS Liquidator, TLC

CONSTANTS sol, a1, a2

MCAssets == {sol}

Down(p) == [asset |-> sol, side |-> "CollateralDown", trigger_price |-> p]

MCBorrowers == (a1 :> {Down(1), Down(2)}) @@ (a2 :> {Down(2)})

MCTriggerLists == {{}}

At(p, s) == [asset |-> sol, entry |-> [slot |-> s, write_version |-> 0, decoded |-> p]]

\* No tick, one, a fall, a fall and recovery that falls again, and a late old tick.
MCFeeds == {<< >>,
            <<At(3, 1)>>,
            <<At(3, 1), At(1, 2)>>,
            <<At(3, 1), At(1, 2), At(3, 3), At(2, 4)>>,
            <<At(3, 2), At(2, 4), At(1, 1)>>}
=============================================================================
