CONSTANTS
    Nullifiers = {n1}
    Commitments = {c1, c2}
    MaxCommitments = 2
    MaxHeight = 2
    NoEntry = NoEntry
    NullRoot = NullRoot
SPECIFICATION Spec
INVARIANTS
    BestAnchorKnown
    DiskIsChain
    TipIsChain
    NoDoubleSpend
SYMMETRY Symmetry
