SPECIFICATION FairSpec
CONSTANTS
  Machines = {m1, m2}
  Command = {"r", "R", "a", "p"}
  Resumes = {TRUE, FALSE}
  MaxMishaps = 4
  MaxReruns = 1
INVARIANTS TypeOK FreshSuccessMeansProduction OnlyALateCheckReverts RecordedStepsHappened
PROPERTIES EventuallyInProduction
CHECK_DEADLOCK FALSE
