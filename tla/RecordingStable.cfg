\* Chunks of two columns, a view distance of 2 chunks, 50 ms for a tick and two
\* ticks with a timestamp; two idle ticks confirm stability.
SPECIFICATION EitherSpec
CONSTANTS
  Positions <- FourColumns
  Refused <- RefusedColumn
  Edge = 2
  Region <- OneChunk
  Cameras <- TwoCameras
  ViewDistance = 2
  Worlds <- FourWorlds
  MaxTick = 3
  TickMillis = 50
  MaxStamp = 100
  NoOutput = NoOutput
  Absent = Absent
  Scenarios <- SomeScenarios
  Names = {"a", "b", "c", "p", "q"}
  Values = {0, 1}
  Confirm = 2
  AtStart = AtStart
  Never = Never
  Count = 3
  Permits = 2
INVARIANT IdleAfterStable
CHECK_DEADLOCK FALSE
