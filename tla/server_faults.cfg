SPECIFICATION Spec
CONSTANTS
  Users = {u1, u2}
  Passwords = {p1}
  Children = {c1, c2}
  Server = server
  None = None
  Blank = Blank
  MaxAid = 2
  MaxValue = 0
  Durations = {1}
  MaxTime = 0
  TcpOps = {"OPA"}
  UdpOps = {"LST"}
  Faults = {"kill", "lock"}
SYMMETRY UserAndChildSymmetry
INVARIANTS ClosedWasOpened
PROPERTIES StartImmutable
