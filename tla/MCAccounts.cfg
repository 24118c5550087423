SPECIFICATION FairSpec
CONSTANTS
  n1 = n1
  n2 = n2
  n3 = n3
  ChosenNames <- MCChosenNames
  Emails = {e1, e2}
  Usernames <- MCUsernames
  FirstPasswords = {p1}
  NewPasswords = {p2}
  None = None
  Suffixes = 3
  Candidates <- MCCandidates
  Requests = {r1, r2}
  LinkLife <- MCLinkLife
  MaxLinks = 2
INVARIANTS
  TypeOK
  OneAccountPerIdentity
  VerifiedIsVouched
  NoDanglingLink
PROPERTIES
  NothingUndone
  EveryRequestEnds
