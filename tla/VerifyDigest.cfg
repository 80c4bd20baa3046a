SPECIFICATION Spec
CONSTANTS
  Names <- MCNames
  Projects <- MCProjects
  Overrides = {"build"}
  Package <- MCPackage
  Candidate = "2.0.0"
  Archives <- MCArchives
  Verifications = {self, other}
  Self = self
  OthersFetch <- MCOthersFetch
  Nothing = Nothing
  WallTimes = {1, 2}
  Rules <- MCRules
  MaxEdits = 0
  MaxRuns = 2
PROPERTIES
  RepeatedRunsKeepDigest
CHECK_DEADLOCK FALSE
