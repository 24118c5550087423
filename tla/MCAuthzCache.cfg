SPECIFICATION FairSpec
CONSTANTS
  Users = {u1}
  Tenants = {t1}
  Workers = {w1}
  Requests = {r1, r2}
  Survival = {TRUE, FALSE}
  MaxMutations = 2
  MaxFaults = 2
INVARIANTS
  TypeOK
  NeverAnnounceUncommitted
  MirrorFollowsDatabase
PROPERTY
  CachesConvergeToMirror
