\* One walk, one aggregate request or one visit while evidence is ingested.
SPECIFICATION FairSpec
CONSTANTS
  Ids <- MCIds
  FromOf <- MCFromOf
  ToOf <- MCToOf
  From = 1
  To = 2
  SignerOf <- MCSignerOf
  ColumnOf <- MCColumnOf
  FindingsOf <- MCFindingsOf
  Limits <- MCLimits
  NoLimit = NoLimit
  DefaultLimit = 1
  MaxLimit = 2
  MaxFailures = 1
  Clients = {"walker", "reader", "navigator"}
INVARIANTS
  TypeOK
  WalkComplete
  GroupsCoverTotals
  AssuranceIsVerified
  LinksResolve
PROPERTIES
  WalkEnds
CHECK_DEADLOCK FALSE
