SPECIFICATION AccessSpec
CONSTANTS
  A = A  B = B  Elsewhere = Elsewhere  q1 = q1  q2 = q2
  Any = Any
  Malformed = Malformed
  Offices = {A, B}
  Queues <- MCQueues
  Assignments <- MCAssignments
  MaxAssignments = 2
  Configurations <- MCConfigurations
  Tokens <- MCTokens
  Tickets <- MCTickets
INVARIANTS UnqueueKeepsAuthority
CHECK_DEADLOCK FALSE
