CONSTANTS
  Workers = {w1, w2}
  Requests <- MCWithCreate
  Grants <- MCGrants
  LockOrder <- MCLockOrder
  Recheck = Recheck
  ParentOf <- MCParentOf
  Nobody = Nobody
  u1 = u1
  u2 = u2
  group = group
  role = role
  parent = parent
  child = child
  w1 = w1
  w2 = w2
  w3 = w3
SPECIFICATION LockSpec
PROPERTY AuthorisedAtCommit
