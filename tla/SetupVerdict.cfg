SPECIFICATION Spec
CONSTANTS
  Reserved = 1
  Modes = {"docker"}
  MaxMishaps = 1
  MaxWhims = 1
INVARIANT AllConsistentMeansActive
