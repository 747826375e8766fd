SPECIFICATION Spec
CONSTANTS
  Commits <- MCCommits
  Mine <- MCMine
  ViewOnly <- MCViewOnly
  Spender <- MCSpender
  Others <- MCOthers
  Bodies <- MCBodies
  Relayed = {"n"}
  FirstChain <- MCFirstChain
  NewChain <- MCNewChain
  CacheSize = 2
  MaxRollbacks = 2
  MaxRestarts = 1
  AnyRestart = FALSE
INVARIANTS AbortsOnlyPastCache WitnessesRight NullifiersKnown
VIEW View
