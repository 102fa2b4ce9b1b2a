SPECIFICATION FairSpec
CONSTANTS
  Null = Null
  TurnIds = {t1, t2}
  Principals = {p1}
  Docs = {d1}
  ModelCallLimit = 5
  RetrievalLimit = 1
  IterationLimit = 0
  RecordWeight = 3
  SummaryWeight = 1
  ContextLimit = 2
  MaxSubmissions = 2
  MaxScopeChanges = 2
  MaxCrashes = 1
  GrantsAllowed = TRUE
  OverlapAllowed = FALSE
  SubgraphsMayRaise = TRUE
PROPERTIES
  AcceptedTurnCommits
CHECK_DEADLOCK FALSE
