SPECIFICATION LiveSpec
CONSTANTS
  Block = {0, 1, 2, 3}
  Genesis = 0
  Thread = {t1, t2}
  Weight = {1, 3}
  MaxReorg = 1
  MaxAhead = 2
  MaxCommands = 2
  NoThread = nobody
INVARIANTS TypeOK CanReturn NoFailedActive TipIsBest IndexConsistent
PROPERTIES NoWorkLost ActivationEnds
ACTION_CONSTRAINT InOrder
