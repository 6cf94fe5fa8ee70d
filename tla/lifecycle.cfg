SPECIFICATION Spec
CONSTANTS
  s1 = s1
  s2 = s2
  u1 = u1
  u2 = u2
  g1 = g1
  m1 = m1
  m2 = m2
  r1 = r1
  None = None
  Cron = Cron
  Slots <- TwoSlots
  Users <- TwoUsers
  Groups <- OneGroup
  Mails <- OneMail
  Rules <- OneRule
  Kinds <- AllKinds
  MaxCreates = 1
  MaxFaults = 1
  MaxRules = 1
INVARIANTS TypeOK OwnerIsMember NothingLeftBehind
PROPERTY TrapStaysTrap
SYMMETRY Alike
CHECK_DEADLOCK FALSE
