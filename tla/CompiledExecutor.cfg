SPECIFICATION Spec
CONSTANTS
  Window = 3
  Limit = 3
  MaxTick = 6
  MaxRecompilations = 5
INVARIANTS
  GraphFresh
  GraphOnlyWhereAllowed
  WindowExact
PROPERTY
  CompiledOrError
