\* Four frames at most, a tick or less apart.
SPECIFICATION Spec
CONSTANTS
  Sections <- ThreeSections
  Edge = 2
  Views = {"left", "right"}
  InView <- TwoInView
  Traces <- TwoTraces
  MaxFrames = 4
  MaxPause = 2
  Slots = 2
  Channel = 1
  CacheSize = 2
  NoView = NoView
INVARIANTS FramesExact
PROPERTY RenderingEnds
CHECK_DEADLOCK FALSE
