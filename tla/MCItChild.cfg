CONSTANTS
  Kinds <- MCKinds
  Target <- MCTarget
  EscalationPercent = 100
  TicksPerSecond = 1
  MaxTime = 1
  Horizon = 3
  Elapsed <- MCElapsed
  InitialStatus = "triage"
  Edges <- MCEdges
  Waiting <- MCParentWaiting
  Sweepers = {}
  Staff <- MCStaff
  Queues = {}
  Workflow <- MCParentWorkflow
  RequiredRole <- MCParentRole
  Roles <- MCRoles
  MayUpdate = {}
  MayReassign <- MCStaff
  MayRouteTo <- MCRouteTo
  EligibleIn <- MCEligible
  Supervisors <- MCStaff
  SupervisedStatuses = {"escalated"}
  Nobody = Nobody
  MaxVersion = 4
  Children <- MCChildren
  ItWorkflow <- MCItWorkflow
  TerminalCodes <- Terminal
  master = master
  c1 = c1
  c2 = c2
SPECIFICATION ItSpec
INVARIANTS
  ResolutionOnRecord
PROPERTIES
  ReturnResumesWork
  CustodyLedgerSpec
  ClockSpec
CHECK_DEADLOCK FALSE
