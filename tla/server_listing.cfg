SPECIFICATION Spec
CONSTANTS
  Users = {u1, u2}
  Passwords = {p1}
  Children = {c1, c2}
  Server = server
  None = None
  Blank = Blank
  MaxAid = 1
  MaxValue = 2
  Durations = {1}
  MaxTime = 2
  TcpOps = {"OPA", "CLS", "BID", "SAS"}
  UdpOps = {"LMA", "LMB", "LST", "SRC"}
  Faults = {}
SYMMETRY UserAndChildSymmetry
INVARIANTS TypeOK MutualExclusion AcceptedBidStands BidderKnows NoSelfBid OneHost
PROPERTIES ImplementsHouse
