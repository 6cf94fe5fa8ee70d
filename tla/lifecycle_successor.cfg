SPECIFICATION Spec
CONSTANTS
  s1 = s1
  s2 = s2
  u1 = u1
  u2 = u2
  g1 = g1
  m1 = m1
  m2 = m2
  r1 = r1
  None = None
  Cron = Cron
  Slots <- TwoSlots
  Users <- TwoUsers
  Groups <- NoGroups
  Mails <- OneMail
  Rules <- OneRule
  Kinds <- LifeKinds
  MaxCreates = 2
  MaxFaults = 0
  MaxRules = 1
PROPERTY SuccessorKeepsMail
