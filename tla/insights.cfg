SPECIFICATION InsightsSpec
CONSTANTS
  None = None
  Reader <- MCReader
  Scanner = {s1, s2}
  s1 = s1
  s2 = s2
  Kpis <- MCKpis
  Initiatives <- MCInitiatives
  Risks <- MCRisks
  EnterpriseDocuments <- MCEnterpriseDocuments
  Days = {0, 3, 20}
  TaskKind <- MCTaskKind
  MaxTasks = 5
  TaskWindow = 5
  ListLimit = 2
  MaxDismissals = 1
CONSTRAINT MCFocus
SYMMETRY MCSymmetry
INVARIANT InsightsTypeOK
 
CHECK_DEADLOCK FALSE
