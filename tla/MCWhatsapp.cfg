CONSTANTS
  Messages = {m1, m2}
  Ids = {i1, i2}
  MaxTime = 2
  MaxReports = 2
  None = None
SPECIFICATION FairWhatsappSpec
INVARIANTS
  MirrorAgrees
  RecordIsTrue
PROPERTIES
  ReportsGetThrough
  StatusNeverRegresses
CHECK_DEADLOCK FALSE
