\* Two slots, delays past the wheel, a per-tick limit of one, failing callbacks.
SPECIFICATION Spec
CONSTANTS
  Keys = {k1, k2, k3}
  Priorities = {0, 1}
  WheelSize = 2
  MaxDelay = 3
  MaxTick = 5
  MaxOrder = 4
  Limit = 1
  MayFail = TRUE
SYMMETRY KeySymmetry
INVARIANTS WheelConsistent KeysAgree ExecutionStable BoundedLateness
PROPERTY RefinesScheduledTicks
CHECK_DEADLOCK FALSE
