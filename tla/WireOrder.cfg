CONSTANTS
  Strength = 3
  Where = {13}
  Worlds <- BranchWorlds
  Cells <- MCCells
  Placed <- MCPlaced
  MaxUses = 1
  Starts <- MCStarts
  Sites <- MCSites
  Blocks <- MCBlocks
  ChangeLimit = 2
  LocalPercent = 400
  MaxBatch = 3
  MaxEdits = 3
SPECIFICATION EitherSpec
INVARIANT SameOrder
CHECK_DEADLOCK FALSE
