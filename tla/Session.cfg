SPECIFICATION Spec
CONSTANTS
  Lines <- MCLines
  Values = {"word", "unset", "words", "heredoc"}
  Statuses = {1, 100, 200}
  TokenLists = {}
INVARIANTS ExecutesWhatItSays ShowsWhatWasLeft
