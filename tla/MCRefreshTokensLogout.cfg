SPECIFICATION Spec
CONSTANTS
  Users = {u1}
  NoUser = NoUser
  Requests = {r1}
  MaxTokens = 2
PROPERTY LogoutEndsSession
