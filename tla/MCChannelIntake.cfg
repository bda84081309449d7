SPECIFICATION FairIntakeSpec
CONSTANTS
  w1 = w1  w2 = w2  e1 = e1  e2 = e2  e3 = e3  e4 = e4  e5 = e5  a = a  b = b  c = c
  m1 = m1  m3 = m3  m4 = m4  m5 = m5  ma = ma  mb = mb  mc = mc
  ann = ann  bob = bob  n1 = n1
  None = None
  Workers = {w1, w2}
  Events = {e1, e2, e3, e4, e5, a, b, c}
  Mails = {m1, m3, m4, m5, ma, mb, mc}
  Senders = {ann, bob, n1}
  Numbers = {n1}
  Known = {bob}
  Mail <- MCMail
  Sender <- MCSender
  Domain <- MCDomain
  References <- MCReferences
  Token <- MCToken
  Scenarios <- MCScenarios
  MaxFaults = 2
INVARIANTS OneRecordEach AckedIsRecorded BounceIsTerminal
PROPERTIES IntakeGetsThrough MessagesAreFiled
CHECK_DEADLOCK FALSE
