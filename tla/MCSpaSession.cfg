SPECIFICATION FairSpec
CONSTANTS
  Users = {u1}
  NoUser = NoUser
  Requests = {r1, r2}
  MaxTokens = 2
  t1 = t1
  Tabs = {t1, t2}
  Calls = {c1, c2}
  Home <- MCHome
  Nobody = Nobody
INVARIANTS
  TypeOK
  NoFalseBreach
  SingleUse
PROPERTIES
  ImplementsRefreshTokens
  EveryCallIsAnswered
