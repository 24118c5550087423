SPECIFICATION FairSpec
CONSTANTS
  Users = {u1, u2}
  NoUser = NoUser
  Requests = {r1, r2}
  MaxTokens = 3
INVARIANTS
  TypeOK
  RotatedTokenIsDead
  OneSessionPerLogin
PROPERTIES
  RowLifecycle
  ImplementsSessions
  DeadRowsAreReclaimed
