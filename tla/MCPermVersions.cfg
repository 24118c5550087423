SPECIFICATION Spec
CONSTANTS
  p = p
  q = q
  Users = {u1}
  Roles = {a}
  RootRoles = {a}
  Permissions <- MCPermissions
  Ceilings <- MCCeilings
  Implies <- MCImplies
  Requests = {r1, r2}
  MaxVersion = 3
INVARIANTS
  TypeOK
  MaskMatchesUnlessOverlapped
  TokenIsHonest
SYMMETRY MCSymmetry
