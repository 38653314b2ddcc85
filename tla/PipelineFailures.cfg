SPECIFICATION FairSpec
CONSTANTS
  NumFd = 9
  Lines <- FailingLines
  Statuses <- Statuses0
  Leftovers <- LeftoversMany
  PipeCap = 1
  MaxSigs = 0
  MaxFails = 1
INVARIANTS IInv TerminalKept NoDescriptorLeak
PROPERTY PromptReturns
