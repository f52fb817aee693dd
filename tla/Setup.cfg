SPECIFICATION FairSpec
CONSTANTS
  Reserved = 0
  Modes = {"docker", "local"}
  MaxMishaps = 2
  MaxWhims = 1
INVARIANTS TypeOK ConfigIsComplete SendersKnowTheirExtension VerifyIsExact
PROPERTIES TestsTellTheTruth EventuallyUsable
