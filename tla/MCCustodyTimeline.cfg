CONSTANTS
  Edges <- MCEdges
  Initial = "new"
  Terminal = {"closed"}
  Staff = {ann}
  Queues = {desk}
  Clocks = {resolution}
  Nobody = Nobody
  MaxTime = 4
  ann = ann
  desk = desk
  resolution = resolution
SPECIFICATION TimelineSpec
INVARIANTS
  ChainTellsDamage
  LedgerTellsTruth
  ProgressIsTrue
  ActivityShowsEachOnce
CHECK_DEADLOCK FALSE
