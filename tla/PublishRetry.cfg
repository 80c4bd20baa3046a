\* Two publishers, one lost message or server error, one rewriting of the file.
SPECIFICATION FairSpec
CONSTANTS
  Publishers <- MCPublishers
  Bodies <- MCBodies
  Partial = Partial
  Valid <- MCValid
  EnvelopeOf <- MCEnvelopeOf
  Bundles = {"proof", "proofReformatted"}
  NoBundle = NoBundle
  OffersOf <- MCOffersOf
  Accepts <- MCAccepts
  NoBody = NoBody
  NoSubmission = NoSubmission
  MaxWrites = 1
  MaxFaults = 1
INVARIANTS
  TypeOK
  OnlyVerifiedLeaves
  AnswersAreTrue
PROPERTIES
  PublisherIsTold
CHECK_DEADLOCK FALSE
