\* Dry and live: a dry loop replays its feed up to the cap; live submissions fail.
CONSTANTS
    sol = sol
    a1 = a1
    a2 = a2
    Accounts = {a1, a2}
    Assets <- MCAssets
    Prices = {1, 2, 3}
    TriggerLists <- MCTriggerLists
    NoBand = NoBand
    Slots = {1, 2, 3, 4}
    WriteVersions = {0}
    NoEntry = NoEntry
    NoPrice = NoPrice
    MaxTicks = 5
    Feeds <- MCFeeds
    Borrowers <- MCBorrowers
    Notional = 1
    MaxNotionalPerWindow = 2
    MaxConsecutiveFailures = 3
SPECIFICATION LiqSpec
INVARIANT EndsAtCap AttemptsBounded
PROPERTY LoopEnds
\* The loop ends.
CHECK_DEADLOCK FALSE
