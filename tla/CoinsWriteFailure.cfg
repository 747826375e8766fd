CONSTANTS
    Txids = {t1}
    Outputs = {o1}
    Blocks = {b1, b2}
    NullHash = NullHash
    NoEntry = NoEntry
SPECIFICATION SpecW
INVARIANT DiskIsOneState
