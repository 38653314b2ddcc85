SPECIFICATION ParserSpec
CONSTANTS
  TokenLists <- MCTokenLists
  Statuses = {0}
INVARIANTS AcceptsTheGrammar CommandsAreTheLine
