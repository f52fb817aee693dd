SPECIFICATION FairSpec
CONSTANTS
  Machines = {m1}
  Command = {"r", "R", "a", "p"}
  Resumes = {TRUE}
  MaxMishaps = 2
  MaxReruns = 1
PROPERTIES EventuallyInProduction
CHECK_DEADLOCK FALSE
