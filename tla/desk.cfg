SPECIFICATION Spec
CONSTANTS
  None = None
  NoThread = NoThread
INVARIANTS TypeOK WalkSound FoldersSound ClientHonest CasesTruthful SettingsSound IntelSound ScoringSound ReportsSound AgentSound
CHECK_DEADLOCK FALSE
