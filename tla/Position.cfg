\* One position per protocol and holding, three assets of different decimals whose
\* prices come in any order.
CONSTANTS
    Micro = 40
    PriceScale = 80
    Bps = 40
    FeeOne = 64
    U16 = 100
    U64 = 1000000
    None = None
    ConfidenceCap = 2
    LiquidatorPremium = 1
    InsurancePremium = 1
    DefaultMaxFee = 4
    Protocols = {"Kamino", "Save", "Project0"}
    Coll = coll
    Other = other
    Debt = debt
    Unit <- MCUnit
    LiqThreshold <- MCLiqThreshold
    AssetWeight <- MCAssetWeight
    LiabWeight <- MCLiabWeight
    CloseFactor = 20
    Bonus = 8
    Holdings <- MCHoldings
    Quotes <- MCQuotes
    Confidences = {None, 5}
    Wanted = {3, 7}
    Fills = {30}
    FeeAccounts <- MCFeeAccounts
    Unarmed = Unarmed
SPECIFICATION Spec
INVARIANT TriggerAgrees SplittingGainsNothing FeeWithinHalfBp
PROPERTY MarginNotWorse
