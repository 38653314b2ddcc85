SPECIFICATION LexerFairSpec
CONSTANTS
  Lines <- MCLines
  Values = {"word", "unset", "words", "led", "pipe", "in", "out", "append", "heredoc"}
  Statuses = {1}
INVARIANTS LexerTypeOK SplitsIntoWords QuotedIsText
PROPERTY Terminates
