---------------------------- MODULE MCOraclePath ----------------------------
EXTENDS OraclePath

CONSTANT sol

MCAssets == {sol}

Down(p) == [asset |-> sol, side |-> "CollateralDown", trigger_price |-> p]
Up(p)   == [asset |-> sol, side |-> "DebtUp", trigger_price |-> p]

\* No trigger, one, and one of each side around the middle price.
MCTriggerLists == {{}, {Down(2)}, {Down(1), Up(2)}}
=============================================================================
