SPECIFICATION Spec
CONSTANTS
  Users = {u1}
  NoUser = NoUser
  Requests = {r1, r2}
  MaxTokens = 3
  t1 = t1
  Tabs = {t1}
  Calls = {c1, c2}
  Home <- MCHome
  Nobody = Nobody
PROPERTY
  OnlyLoginStartsSession
