SPECIFICATION Spec
CONSTANTS
  Requests = {r1, r2, r3, r4}
  Limit = 2
  Window = 2
  Survival = {TRUE, FALSE}
  MaxTime = 5
  MaxFaults = 1
INVARIANTS
  TypeOK
  WithinLimit
  RefusalsAreEarned
SYMMETRY MCSymmetry
