\* ProfitConfig::default() in thousandths of a dollar; two reserves on chain; one
\* change of the chain between the shadow's requests.
CONSTANTS
    MinProfit = 500
    MinRoiBps = 10
    MaxCost = 2000
    MinNotional = 10000
    NoPath = NoPath
    Reserves = {r1, r2}
    SeedRepay = SeedRepay
    SeedWithdraw = SeedWithdraw
    NoPositions = NoPositions
    NoAccounts = NoAccounts
    MaxChanges = 1
    Opportunities <- MCOpportunities
    Chains <- MCChains
SPECIFICATION Spec
INVARIANT BestIsMaxAccepted AcceptedPaysItsCosts LiquidatesIffGoodReads OpenedIsClosed RefreshedForLiquidation
\* Each behaviour plans one candidate and stops.
CHECK_DEADLOCK FALSE
