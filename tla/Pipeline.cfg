SPECIFICATION Spec
CONSTANTS
  NumFd = 9
  Lines <- SignalledLines
  Statuses <- Statuses01
  Leftovers <- Leftovers0
  PipeCap = 1
  MaxSigs = 2
  MaxFails = 0
INVARIANTS StageIsolation StatusIsLastStage NoZombie BrokenPipeOnlyAfterReader
PROPERTIES EofOnlyAfterWriter KeepsPromise
