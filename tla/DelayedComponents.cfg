\* Five circuits of three or four parts, signals to 2, a torch that burns out the third time in 8 game ticks.
\* Two lines of five blocks, two changes from outside.
SPECIFICATION EitherSpec
CONSTANTS
  Circuits <- SmallCircuits
  MaxPower = 2
  BurnLimit = 2
  BurnWindow = 8
  BurnDelay = 10
  ButtonDelay = 3
  Horizon = 5
  Length = 5
  Starts <- LineStarts
  Placed <- SetBlocks
  Contents <- SetContents
  Pasted <- PastedBlocks
  SideLevels = {0, 1}
  MaxEdits = 2
INVARIANTS Settled ComparatorsRight
PROPERTIES BurnsOutExactly PulsesKeepLength
