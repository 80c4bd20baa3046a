SPECIFICATION Spec
CONSTANTS
  Names <- MCNames
  Projects <- MCProjects
  Overrides = {"build"}
  Package <- MCPackage
  Candidate = "2.0.0"
  Archives <- MCLocked
  Verifications = {self, other}
  Self = self
  OthersFetch <- MCOthersFetch
  Nothing = Nothing
  WallTimes = {1}
  Rules <- MCRules
  MaxEdits = 0
  MaxRuns = 1
INVARIANTS
  BaselineIsCurrent
CHECK_DEADLOCK FALSE
