SPECIFICATION Spec
CONSTANTS
  Names <- MCNames
  Projects <- MCProjects
  Overrides = {"build"}
  Package <- MCPackage
  Candidate = "2.0.0"
  Archives <- MCArchives
  Verifications = {self, other}
  Self = self
  OthersFetch <- MCOthersFetch
  Nothing = Nothing
  WallTimes = {1}
  Rules <- MCRules
  MaxEdits = 1
  MaxRuns = 1
INVARIANTS
  TwinsAreEquivalent
CHECK_DEADLOCK FALSE
