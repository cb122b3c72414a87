\* Two accounts on chain, one demo account, three writes over three slots: two writes
\* to an account may share a slot or not, and a snapshot may fall between them.
CONSTANTS
    Keys = {k1, k2, d1}
    LiveKeys = {k1, k2}
    DemoKeys = {d1}
    Values = {0, 1, 2, 3}
    Slots = {0, 1, 2, 3}
    WriteVersions = {0, 1, 2, 3}
    None = None
    MaxWrites = 3
    MaxSlot = 3
SPECIFICATION Spec
SYMMETRY Symmetry
INVARIANT NewestWins AsNewAsItsSlot DemoOrLive
PROPERTY NeverBackPastASlot
