\* One pooled connection, colliding advisory keys, two faults: everybody finishes.
CONSTANTS
  Requests = {r1, r2}
  Bodies <- MCBodies
  Bundles <- MCBundles
  NoBundle = NoBundle
  NoRow = NoRow
  NoBody = NoBody
  Submissions <- TwoEnvelopes
  EnvelopeOf <- MCEnvelopeOf
  Admissible <- MCAdmissible
  Verifies <- MCVerifies
  Hash <- CollidingHash
  Facts <- MCFacts
  MaxConnections = 1
  MaxFaults = 2
SPECIFICATION FairSpec
PROPERTY EveryRequestEnds
