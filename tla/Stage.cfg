SPECIFICATION Spec
CONSTANTS
  NumFd = 7
  Commands <- MCCommands
  RedirLists <- MCRedirLists
  Paths <- MCPaths
  Statuses <- MCStatuses
  Leftovers <- MCLeftovers
  MaxChanges = 1
INVARIANTS SInv RunsOnLastFiles StatusOfStage
