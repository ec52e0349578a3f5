SPECIFICATION EitherSpec
CONSTANTS
  Places <- MCPlaces
  Kind <- MCKind
  SlotCount <- MCSlotCount
  Half = 1
  Items <- MCItems
  MaxStack <- MCMaxStack
  Fuel = {"coal"}
  Bottles = {}
  Ingredients = {}
  Playable = {"disc"}
  Books = {}
  Shulkers = {}
  Compost = {"bone_meal"}
  Disabled <- MCDisabled
  Drops = {"e1", "e2"}
  Plans <- MCPlans
  Capacity <- MCCapacity
  Launched = {"disc"}
  Ejected = {"coal"}
  Width = 6
  Height = 2
  PushLimit = 12
  MaxSwitches = 4
INVARIANTS ItemsConserved SameDelayInEitherOrder MovementConsistent StructureExact
PROPERTIES ChangesAreNotified NothingLost
