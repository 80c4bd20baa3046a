\* Commands racing on the files, one foreign envelope.
SPECIFICATION Spec
CONSTANTS
  Generators = {"k1", "k2"}
  Evidence <- MCEvidence
  Conforms = {"written", "edited"}
  PurlsMatch = {"written", "outside"}
  CandidateOf <- MCCandidateOf
  Foreign <- MCForeign
  Nothing = Nothing
  Partial = Partial
  MaxForeign = 1
INVARIANTS
  TypeOK
  ValidIsSound
  JudgedIsAuthentic
  SignedVerifies
CHECK_DEADLOCK FALSE
