CONSTANTS
  Strength = 3
  Where = {4}
  Worlds <- MCWorlds
  Cells <- MCCells
  Placed <- MCPlaced
  MaxUses = 4
  Starts <- MCStarts
  Sites <- MCSites
  Blocks <- MCBlocks
  ChangeLimit = 2
  LocalPercent = 400
  MaxBatch = 3
  MaxEdits = 3
SPECIFICATION EitherSpec
INVARIANTS SameOutcome Settled RuntimeMirrors GraphExact
CHECK_DEADLOCK FALSE
