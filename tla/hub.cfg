SPECIFICATION Spec
CONSTANTS
  t1 = t1
  t2 = t2
  o1 = o1
  g1 = g1
  g2 = g2
  v1 = v1
  p1 = p1
  None = None
  Peer = Peer
  NullGroup = g2
  Orgs <- TwoOrgs
  Groups <- TwoGroups
  Values <- OneValue
  Posts <- OnePost
  PeerEvents <- TwoEvents
  ValuesOf <- AllV
  Ours <- NoEvents
  Unwanted <- NoEvents
  DefaultGroup = g1
  Tasks <- TwoTasks
  Trusts <- TrustTwo
  InitialTrust <- AllTwo
  Multiplied <- Plain
  PageSize = 1
  MaxPages = 2
  MaxTime = 2
  MaxTrouble = 1
INVARIANTS TypeOK PromotionSound PullSkipsNothing
SYMMETRY Alike
