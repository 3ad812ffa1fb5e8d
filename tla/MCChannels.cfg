CONSTANTS
  c1 = c1
  c2 = c2
  p1 = p1
  p2 = p2
  None = None
  Conns = {c1, c2}
  Ids = {p1, p2}
  Joins <- MCJoins
  MailboxCap = 1
  MaxCalls = 1
SPECIFICATION FairSpec
INVARIANT TypeOK
PROPERTIES
  BusSpec
  MailboxCallsReturn
  CallsReturn
CHECK_DEADLOCK FALSE
