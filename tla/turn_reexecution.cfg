SPECIFICATION Spec
CONSTANTS
  Null = Null
  TurnIds = {t1, t2}
  Principals = {p1}
  Docs = {d1}
  ModelCallLimit = 7
  RetrievalLimit = 1
  IterationLimit = 0
  RecordWeight = 3
  SummaryWeight = 1
  ContextLimit = 2
  MaxSubmissions = 3
  MaxScopeChanges = 0
  MaxCrashes = 0
  GrantsAllowed = FALSE
  OverlapAllowed = FALSE
  SubgraphsMayRaise = FALSE
INVARIANTS
  CompletedTurnNotReexecuted
CHECK_DEADLOCK FALSE
