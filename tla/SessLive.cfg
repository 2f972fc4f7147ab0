SPECIFICATION FairSpec
CONSTANTS
  Sid = {s1}
  Req = {r1, r2}
  Writes = {r2}
  Thread = {w1, w2, w3}
  None = None
  MaxSessions = 2
  Lapsing = {s1}
  BadName = {}
  Slow = {"resolve", "connect", "wait", "kinit"}
INVARIANTS
  TypeOK
  SessionServed
  OneThreadPerSession
  WrittenOnce
PROPERTIES
  NeverRevived
  LapsedTicketRemoved
  HandlersEnd
