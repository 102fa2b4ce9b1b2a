SPECIFICATION FairSpec
CONSTANTS
  Null = Null
  Sources = {docs}
  Paths = {p1, p2}
  Revisions = {r1, r2}
  ModelCallLimit = 5
  MaxChanges = 2
INVARIANTS
  TypeOK
  ContractKept
  AnswerWasJudged
  LateDraftWithheld
PROPERTIES
  LostEvidenceWithheld
  Terminates
CHECK_DEADLOCK FALSE
