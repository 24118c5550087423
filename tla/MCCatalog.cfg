SPECIFICATION Spec
CONSTANTS
  a = a
  b = b
  c = c
  v1 = v1
  v2 = v2
  renumbered = renumbered
  reused = reused
  doubled = doubled
  w1 = w1
  w2 = w2
  Names <- MCNames
  Width = 3
  Null = Null
  Legacy = {c}
  Implies <- MCImplies
  Workers = {w1, w2}
  Releases <- MCReleases
  Registry <- MCRegistry
  Required <- MCRequired
  MaxStops = 3
SYMMETRY Symmetry
INVARIANTS
  TypeOK
  MasksTravel
  OnlyRacesFailAStart
CHECK_DEADLOCK FALSE
