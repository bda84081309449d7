CONSTANTS
  Workers = {w1, w2, w3}
  MaxSequence = 5
  CollisionRetries = 3
  Existing = {1, 2}
  InitialCounters = {0, Absent}
  Absent = Absent
  Nobody = Nobody
SPECIFICATION FairRefSpec
INVARIANTS
  CollidesOnlyWithExisting
PROPERTIES
  NeverReissued
  CreationGetsThrough
