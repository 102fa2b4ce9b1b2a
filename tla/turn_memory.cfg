SPECIFICATION Spec
CONSTANTS
  Null = Null
  TurnIds = {t1, t2, t3}
  Principals = {p1}
  Docs = {d1, d2}
  ModelCallLimit = 7
  RetrievalLimit = 1
  IterationLimit = 0
  RecordWeight = 2
  SummaryWeight = 1
  ContextLimit = 3
  MaxSubmissions = 3
  MaxScopeChanges = 2
  MaxCrashes = 0
  GrantsAllowed = FALSE
  OverlapAllowed = FALSE
  SubgraphsMayRaise = FALSE
PROPERTIES
  CommittedMaterialAuthorized
  UnauthorizedCompactionRolledBack
  LogSpec
  SmallestPrefixCommitted
SYMMETRY DocSymmetry
CHECK_DEADLOCK FALSE
