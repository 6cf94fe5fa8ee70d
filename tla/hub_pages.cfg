SPECIFICATION Spec
CONSTANTS
  t1 = t1
  t2 = t2
  o1 = o1
  g1 = g1
  g2 = g2
  v1 = v1
  p1 = p1
  None = None
  Peer = Peer
  NullGroup = g2
  Orgs <- TwoOrgs
  Groups <- TwoGroups
  Values <- OneValue
  Posts <- NoEvents
  PeerEvents <- ThreeEvents
  ValuesOf <- AllV
  Ours <- NoEvents
  Unwanted <- NoEvents
  DefaultGroup = g1
  Tasks <- OneTask
  Trusts <- TrustTwo
  InitialTrust <- AllTwo
  Multiplied <- Plain
  PageSize = 2
  MaxPages = 3
  MaxTime = 2
  MaxTrouble = 0
INVARIANTS WatermarkKeepsUnpulled

