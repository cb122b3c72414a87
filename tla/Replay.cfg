\* Both binaries over every combination of the files; each of them ends, so the model
\* stops there.
CONSTANTS
    MinProfit = 2
    MinRoiBps = 1
    MaxCost = 5
    MinNotional = 1
    NoPath = NoPath
    a1 = a1
    a2 = a2
    sol = sol
    usdc = usdc
    Accounts = {a1, a2}
    Assets = {sol, usdc}
    Prices = {1, 2, 3}
    Slots = {1, 2}
    WriteVersions = {0}
    TickFiles <- MCTickFiles
    BorrowerFiles <- MCBorrowerFiles
    NoFile = NoFile
    NoEntry = NoEntry
    NoPrice = NoPrice
    NoBand = NoBand
    Costs = 1
    MaxNotionalPerLiq = 3
    MaxNotionalPerWindow = 3
SPECIFICATION Spec
INVARIANT ReportsCrossings
CHECK_DEADLOCK FALSE
