SPECIFICATION Spec
CONSTANTS
  NumFd = 8
  IntMax = 511
  LongMax = 1023
  Commands <- MCCommands
  RedirLists <- MCRedirLists
  Statuses <- Statuses01
  Leftovers <- MCLeftovers
  MaxSigs = 1
INVARIANTS BInv RunsOnItsFiles TerminalBack StatusOfLine
