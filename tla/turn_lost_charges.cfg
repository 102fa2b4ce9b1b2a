SPECIFICATION Spec
CONSTANTS
  Null = Null
  TurnIds = {t1, t2}
  Principals = {p1}
  Docs = {d1}
  ModelCallLimit = 5
  RetrievalLimit = 1
  IterationLimit = 0
  RecordWeight = 3
  SummaryWeight = 1
  ContextLimit = 2
  MaxSubmissions = 1
  MaxScopeChanges = 0
  MaxCrashes = 0
  GrantsAllowed = FALSE
  OverlapAllowed = FALSE
  SubgraphsMayRaise = TRUE
INVARIANTS
  CallsCharged
CHECK_DEADLOCK FALSE
