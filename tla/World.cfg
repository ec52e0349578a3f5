\* Two cells, air and two other states; an array of all three sections, of the
\* first and the third, or of one. Ids up to 9. Two positions with block
\* entities, each in a section of its own, three changes per callback.
SPECIFICATION EitherSpec
CONSTANTS
  p1 = p1  p2 = p2
  Positions = {p1, p2}
  SectionOf <- TwoSections
  MaxEdits = 3
  Sections <- SlantedSections
  Reach = 2
  Cells = {1, 2}
  States = {air, wire, lamp}
  Air = air
  None = None
  PaletteLimit = 2
  SlotsPerSection = 8
  MinSlots = 4
  MaxSlots = 24
  Points <- NearOrigin
  Edge = 2
  GivenIds = {1, 3, 4}
  MaxId = 9
  SpawnBound = 4
SYMMETRY StateSymmetry
INVARIANTS WellFormed RegistriesAgree DeltaComplete EntitiesIndexed
PROPERTY RefinesBlockMap
