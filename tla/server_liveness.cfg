SPECIFICATION FairSpec
CONSTANTS
  Users = {u1, u2}
  Passwords = {p1}
  Children = {c1, c2}
  Server = server
  None = None
  Blank = Blank
  MaxAid = 1
  MaxValue = 1
  Durations = {0, 1}
  MaxTime = 0
  TcpOps = {"OPA", "CLS", "BID", "SAS"}
  UdpOps = {"LST", "LOU"}
  Faults = {}
PROPERTIES LockReleased ServerReturns
