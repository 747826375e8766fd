SPECIFICATION Spec
CONSTANTS
  Commits <- MCCommits
  Mine <- MCMine
  ViewOnly <- MCViewOnly
  Spender <- MCSpender
  Others <- MCOthers
  Bodies <- MCBodies
  Relayed = {"n"}
  FirstChain <- MCFirstChain
  NewChain <- MCNewChain
  CacheSize = 3
  MaxRollbacks = 1
  MaxRestarts = 1
  AnyRestart = TRUE
INVARIANT BroughtUpToDate
