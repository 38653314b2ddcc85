SPECIFICATION FairSpec
CONSTANTS
  NumFd = 7
  Lines <- MCLines
  MaxLines = 2
  MaxSigs = 3
  MaxFails = 2
INVARIANTS ExecutesOnTerminal FilesThere PromptIsClean WritesItsFile OnlyLastFilesLeft
PROPERTIES InterruptAbandons
