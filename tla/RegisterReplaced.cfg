SPECIFICATION Spec
CONSTANTS
  Machines = {m1, m2}
  Command = {"r", "R", "a", "p"}
  Resumes = {TRUE, FALSE}
  MaxMishaps = 3
  MaxReruns = 1
INVARIANTS SuccessMeansProduction
CHECK_DEADLOCK FALSE
