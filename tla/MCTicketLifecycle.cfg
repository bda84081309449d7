CONSTANTS
  Kinds <- MCKinds
  Target <- MCTarget
  EscalationPercent = 100
  TicksPerSecond = 1
  MaxTime = 1
  Horizon = 3
  Elapsed <- MCElapsed
  InitialStatus = "triage"
  Edges <- OperationalTransitions
  Waiting <- OperationalWaiting
  Sweepers = {w1}
  Staff <- MCStaff
  Queues <- MCQueues
  Workflow <- OperationalTransitions
  RequiredRole <- OperationalRequiredRole
  Roles <- MCRoles
  MayUpdate <- MCStaff
  MayReassign <- MCReassign
  MayRouteTo <- MCRouteTo
  EligibleIn <- MCEligible
  Supervisors <- MCSupervisors
  SupervisedStatuses = {"escalated"}
  Nobody = Nobody
  MaxVersion = 2
  agent = agent
  master = master
  front = front
SPECIFICATION TicketSpec
INVARIANTS
  LogsAgree
PROPERTIES
  NoLostUpdate
  CustodyLedgerSpec
CHECK_DEADLOCK FALSE
