SPECIFICATION FairSpec
CONSTANTS
  Sources = {docs, runbooks}
  Paths = {p1}
  Revisions = {r1, r2}
  ModelCallLimit = 6
  RetrievalLimit = 2
  IterationLimit = 1
  ContextWindow = 1
  MaxChanges = 1
INVARIANTS
  TypeOK
  CallsCharged
  ContractKept
  EvidenceFresh
  LateResultsDiscarded
  FailureFailsClosed
PROPERTIES
  Terminates
CHECK_DEADLOCK FALSE
