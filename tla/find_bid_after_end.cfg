SPECIFICATION Spec
CONSTANTS
  Users = {u1, u2}
  Passwords = {p1}
  Children = {c1}
  Server = server
  None = None
  Blank = Blank
  MaxAid = 1
  MaxValue = 1
  Durations = {1}
  MaxTime = 1
  TcpOps = {"OPA", "BID"}
  UdpOps = {"LST"}
  Faults = {}
PROPERTIES BidOnlyWhileOngoing
