SPECIFICATION FairSpec
CONSTANTS
  Users = {u1}
  Tenants = {t1}
  Workers = {w1}
  Requests = {r1}
  Survival = {TRUE}
  MaxMutations = 1
  MaxFaults = 1
PROPERTY
  ResyncRecoversLostPublish
