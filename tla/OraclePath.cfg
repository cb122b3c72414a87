\* One asset whose price moves over three values, two accounts, triggers on both
\* sides; updates repeated, also with another price, late and in order over two
\* slots.
CONSTANTS
    Accounts = {a1, a2}
    sol = sol
    Assets <- MCAssets
    Prices = {1, 2, 3}
    TriggerLists <- MCTriggerLists
    NoBand = NoBand
    Slots = {1, 2}
    WriteVersions = {0}
    NoEntry = NoEntry
    NoPrice = NoPrice
SPECIFICATION PathSpec
INVARIANT AwakeIffUnhealthySinceArmed BookFollowsStore TriggersIndexed BandsPartitionCandidates
PROPERTY NoSecondWake RemovedNeverWakes
