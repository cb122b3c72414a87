\* Live, an account whose best path is a rejected one.
CONSTANTS
    sol = sol
    a1 = a1
    a2 = a2
    Accounts = {a1, a2}
    Assets <- MCAssets
    Prices = {1, 2, 3}
    TriggerLists <- MCTriggerLists
    NoBand = NoBand
    Slots = {1, 2, 3, 4}
    WriteVersions = {0}
    NoEntry = NoEntry
    NoPrice = NoPrice
    MaxTicks = 5
    Feeds <- MCFeeds
    Borrowers <- MCBorrowers
    Notional = 1
    MaxNotionalPerWindow = 2
    MaxConsecutiveFailures = 3
SPECIFICATION LiqSpec
INVARIANT OnlyAcceptedBegin
\* The loop ends.
CHECK_DEADLOCK FALSE
