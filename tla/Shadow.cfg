\* A hundred chains of two or three obligations; two failed requests and one move of
\* the chain in a run; caps of two and a table of seven accounts, so that each is met,
\* just met and exceeded; a Precision that only the values of Edge exceed.
CONSTANTS
    DefaultKey = DefaultKey
    Undecoded = Undecoded
    MinNotional = 3
    Precision = 5000
    KeyLimit = 7
    CandidateCap = 2
    MaxFaults = 2
    MaxChanges = 1
    PlanCap = 2
    EnvPayer = EnvPayer
    NoTx = NoTx
    Chains <- MCChains
    Plans <- MCPlans
    ProveIxs <- MCProveIxs
    FeePayers <- MCFeePayers
SPECIFICATION Spec
INVARIANT ScanExact HonestZero WorstFirst OneResultPerPlan WireFaithful SummaryTellsFurthest
