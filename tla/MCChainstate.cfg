SPECIFICATION Spec
CONSTANTS
  Txid <- MCTxid
  Coinbase <- MCCoinbase
  Vin <- MCVin
  Nullifiers <- MCNullifiers
  Vout <- MCVout
  CbHeight <- MCCbHeight
  Bodies <- MCBodies
  Maturity = 1
  MaxHeight = 3
  MaxBlocks = 4
  Erase = Erase
INVARIANTS UtxoIsChain UndoAvailable DisconnectsCleanly IndexesAgree
VIEW WithoutLostIndexes
