SPECIFICATION Spec
CONSTANTS
  Null = Null
  TurnIds = {t1, t2}
  Principals = {p1, p2}
  Docs = {d1}
  ModelCallLimit = 5
  RetrievalLimit = 1
  IterationLimit = 0
  RecordWeight = 3
  SummaryWeight = 1
  ContextLimit = 2
  MaxSubmissions = 2
  MaxScopeChanges = 3
  MaxCrashes = 1
  GrantsAllowed = TRUE
  OverlapAllowed = TRUE
  SubgraphsMayRaise = TRUE
INVARIANTS
  TypeOK
  CheckpointAccepted
  ModelCallsBounded
PROPERTIES
  OnlyNewInputStrandsTurn
  ChargesKept
CHECK_DEADLOCK FALSE
