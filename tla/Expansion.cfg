SPECIFICATION ExpansionSpec
CONSTANTS
  Words <- MCWords
  Margin = 3
INVARIANTS StaysInside ExpandsUpToUnset
