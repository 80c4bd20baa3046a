\* Two verifications that block the only thread, two failing operations.
SPECIFICATION FairSpec
CONSTANTS
  Requests <- MCRequests
  Wrapped <- MCRequests
  WithProof <- MCWithProof
  MayHave <- MCMayHave
  Certificates <- MCCertificates
  Absent = Absent
  Malformed = Malformed
  Issuer = "github"
  ExpectedRepository = "acme/app"
  ExpectedWorkflow <- MCWorkflow
  Genuine <- MCGenuine
  Threads = 1
  CosignTimeout = 2
  HttpTimeout = 3
  MaxFaults = 2
INVARIANTS
  TypeOK
  IdentityIsCosigns
  IdentityIsCoherent
  FlawedIsRefused
  NothingLeftBehind
  InTime
PROPERTIES
  EveryRequestAnswered
CHECK_DEADLOCK FALSE
