SPECIFICATION MCSpec
CONSTANTS
  edit = edit
  read = read
  own = own
  Tenants = {t1}
  Users = {su, a, b}
  Superusers = {su}
  Permissions <- MCPermissions
  TenantPermissions <- MCTenantPermissions
  Implies <- MCImplies
  Gate <- MCGate
  Roles = {r1, r2}
  Workers = {w1, w2}
  MaxRequests = 3
  Null = Null
INVARIANTS
  TypeOK
  NoEscalation
  RootWithinCeiling
PROPERTIES
  NewPermissionsRespectCeiling
CHECK_DEADLOCK FALSE
SYMMETRY MCSymmetry
