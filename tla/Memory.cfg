SPECIFICATION Spec
CONSTANTS
  Blocks <- MCBlocks
  NoBlock <- NULL
  Offers <- Lowest
  MaxKept = 2
INVARIANTS MInv NothingLeft
