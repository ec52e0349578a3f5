\* Three block events that may queue themselves forever, clocks that overflow at
\* different steps, failing callbacks. Three directions, two tasks per callback,
\* four tasks per chain.
SPECIFICATION EitherSpec
CONSTANTS
  Events = {e1, e2, e3}
  MaxClock = 4
  StartGame = 1
  StartOver = 2
  AdvanceTime = TRUE
  RecordEvents = TRUE
  MaxMade = 3
  MaxEntries = 4
  MayFail = TRUE
  None = None
  NumDirs = 3
  Burst = 2
  MaxBorn = 4
  Limit = 4
INVARIANTS QueueAgrees EventsFirst ClocksTogether
PROPERTIES QueuedEventsRun RefinesAgenda
