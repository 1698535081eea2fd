SPECIFICATION Spec
CONSTANTS
  Users = {u1, u2}
  Passwords = {p1}
  Children = {c1, c2}
  Server = server
  None = None
  Blank = Blank
  MaxAid = 1
  MaxValue = 2
  Durations = {0, 1}
  MaxTime = 1
  TcpOps = {"OPA", "CLS", "BID"}
  UdpOps = {"LIN", "UNR"}
  Faults = {"io"}
SYMMETRY UserAndChildSymmetry
PROPERTIES ImplementsOrderlyHouse BidsRise EndWriteOnce EndOnlyWhenOver
