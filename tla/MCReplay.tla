------------------------------ MODULE MCReplay ------------------------------
(***************************************************************************)
(* Module Replay for TLC: every file of up to four ticks over two versions *)
(* of one asset and one of another, and four files of borrowers.           *)
(***************************************************************************)
EXTENDS Replay

CONSTANTS a1, a2, sol, usdc

MCTick(a, slot, price) ==
    [asset |-> a, entry |-> [slot |-> slot, write_version |-> 0, decoded |-> price]]

\* In order, late and with a repeated version of another price.
MCTicks == {MCTick(sol, 1, 3), MCTick(sol, 2, 1), MCTick(sol, 1, 2),
            MCTick(usdc, 1, 1), MCTick(usdc, 1, 2)}

MCTickFiles == {NoFile} \cup UNION {[1 .. n -> MCTicks] : n \in 0 .. 4}

Down(a, p) == [asset |-> a, side |-> "CollateralDown", trigger_price |-> p]
Up(a, p) == [asset |-> a, side |-> "DebtUp", trigger_price |-> p]

MCBorrower(acc, ts, gross, notional, valid) ==
    [account |-> acc, triggers |-> ts, valid |-> valid,
     plan |-> [gross |-> gross, capital |-> 0, notional |-> notional]]

\* Two with the same trigger; one account twice, with other triggers and another plan;
\* one that does not parse; a plan over the limit for one liquidation.
MCBorrowerFiles ==
    {<<MCBorrower(a1, {Down(sol, 2)}, 5, 2, TRUE),
       MCBorrower(a2, {Down(sol, 2), Up(usdc, 2)}, 4, 2, TRUE)>>,
     <<MCBorrower(a1, {Down(sol, 1)}, 5, 2, TRUE), MCBorrower(a2, {Up(sol, 3)}, 1, 2, TRUE),
       MCBorrower(a1, {Up(sol, 2)}, 1, 1, TRUE)>>,
     <<MCBorrower(a1, {Down(sol, 2)}, 5, 2, TRUE), MCBorrower(a2, {}, 5, 2, FALSE)>>,
     <<MCBorrower(a1, {Down(sol, 2)}, 5, 4, TRUE)>>}
=============================================================================
