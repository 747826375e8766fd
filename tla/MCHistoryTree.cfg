CONSTANTS
    Branches = {b1, b2}
    Bases = {0, 1, 2, 3, 4, 5, 6, 7, 8, 9, 10, 11}
    Span = 3
    Activation = 12
    NoCache = NoCache
SPECIFICATION Spec
INVARIANTS
    AppendsCoverUpdate
    DiskHoldsChain
    ViewHoldsChain
SYMMETRY Symmetry
