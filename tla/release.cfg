SPECIFICATION Spec
CONSTANTS
  happy = happy
  poisoned_fact = poisoned_fact
  None = None
  Damaged = Damaged
  Commands = {c1, c2}
  Checkouts = {k1, k2}
  ReleaseExamples <- MCReleaseExamples
  DiagnosticExamples <- MCDiagnosticExamples
  Measures <- MCMeasures
  Floor = 1
  Ceiling = 1
  MaxRegression = 0
  MaxIncrease = 15
  MaxPublishes = 2
  MaxExperiments = 2
  MaxAcceptances = 2
INVARIANTS
  TypeOK
  PublishedWhole
  ReportOfItsVersion
PROPERTIES
  
  AcceptedNeverRegresses
SYMMETRY ReleaseSymmetry
CHECK_DEADLOCK FALSE
