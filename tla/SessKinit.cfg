SPECIFICATION Spec
CONSTANTS
  Sid = {s1}
  Req = {}
  Writes = {}
  Thread = {w1, w2, w3}
  None = None
  MaxSessions = 2
  Lapsing = {s1}
  BadName = {}
  Slow = {"kinit"}
SYMMETRY Symmetry
INVARIANTS
  NoStrayTicket
