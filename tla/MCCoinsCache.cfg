CONSTANTS
    Txids = {t1, t2}
    Outputs = {o1, o2}
    Blocks = {b1, b2}
    NullHash = NullHash
    NoEntry = NoEntry
SPECIFICATION Spec
INVARIANTS
    TypeOK
    FreshIsFresh
    CleanAgrees
    FlushAssertHolds
PROPERTY FlatSpec
SYMMETRY Symmetry
