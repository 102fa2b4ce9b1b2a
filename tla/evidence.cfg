SPECIFICATION Spec
CONSTANTS
  docs = docs
  runbooks = runbooks
  None = None
  Grantable = {1, 3}
  KnowledgeSources <- MCKnowledgeSources
  SourceOf <- MCSourceOf
  Lengths <- MCLengths
  Documents = {1, 2, 3}
  Revisions <- MCRevisions
  MatchLimit = 2
  FusionLimit = 1
  RerankLimit = 2
  ResultLimit = 2
  RrfK = 1
  Scale = 6
  ItemLimit = 2
  TokenLimit = 5
  ContextWindow = 1
  Requests = 2
  MaxChanges = 1
INVARIANTS
  TypeOK
  ItemsOfReportedCorpus
  NothingSilentlyDropped
  ProvenanceComplete
  TokensAccounted
PROPERTIES
  ExpandedEvidenceCurrent
CHECK_DEADLOCK FALSE
