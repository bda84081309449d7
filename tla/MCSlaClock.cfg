CONSTANTS
  Kinds <- MCKinds
  Target <- MCTarget
  EscalationPercent = 50
  TicksPerSecond = 2
  MaxTime = 4
  Horizon = 8
  Elapsed <- MCElapsed
  InitialStatus = "new"
  Edges <- MCEdges
  Waiting <- MCWaiting
  Sweepers = {w1, w2}
SPECIFICATION FairClockSpec
INVARIANTS
  EntitlementConserved
  VerdictsEarned
  EscalationEarnedOnce
  FrozenOnlyWhileWaiting
PROPERTIES
  OverdueIsNoticed
CHECK_DEADLOCK FALSE
