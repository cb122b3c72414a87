\* No request fails; a reserve is opened and used while the discovery runs.
CONSTANTS
    DefaultKey = DefaultKey
    Undecoded = Undecoded
    MinNotional = 3
    Precision = 5000
    KeyLimit = 7
    CandidateCap = 2
    MaxFaults = 0
    MaxChanges = 1
    PlanCap = 2
    EnvPayer = EnvPayer
    NoTx = NoTx
    Chains <- RaceChains
    Plans <- MCPlans
    ProveIxs <- MCProveIxs
    FeePayers <- MCFeePayers
SPECIFICATION Spec
INVARIANT OnlyTrulyLiquidatable
