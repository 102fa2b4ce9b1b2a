SPECIFICATION FairSpec
CONSTANTS
  s1 = s1
  s2 = s2
  c1 = c1
  c2 = c2
  Configuration <- MCConfiguration
  None = None
  Paths = {1, 2}
  Revisions = {a, b}
  Malformed = {b}
  Processings = {c1, c2}
  Runs = {s1, s2}
  MaxEdits = 1
  Grantable = {1}
INVARIANTS
  TypeOK
  CorpusWhole
PROPERTIES
  PublicationSpec
  ReadmittedUngranted
  QuietSyncPublishesDirectory
  EverySyncEnds
CHECK_DEADLOCK FALSE
