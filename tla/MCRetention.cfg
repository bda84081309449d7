CONSTANTS
  Tickets = {1, 2}
  o1 = o1
  o2 = o2
  o3 = o3
  Objects = {o1, o2, o3}
  Legacy = {o3}
  InitialRows <- MCInitialRows
  Uploads = {u1}
  MaxFiles = 2
  Dates = {0, 2}
  None = None
  Events = {e1}
  Workers = {w1, w2}
  Policies <- MCAllPolicies
SPECIFICATION FairRetentionSpec
INVARIANTS
  NoForgottenObject
PROPERTIES
  OnlyExpiredDisposed
  CommittedIsCertified
  ObjectsFollowLifecycle
CHECK_DEADLOCK FALSE
