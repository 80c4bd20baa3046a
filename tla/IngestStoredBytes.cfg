\* A bundle accepted with a repetition, over other bytes than those stored.
CONSTANTS
  Requests = {r1, r2}
  Bodies <- MCBodies
  Bundles <- MCBundles
  NoBundle = NoBundle
  NoRow = NoRow
  NoBody = NoBody
  Submissions <- OneEnvelope
  EnvelopeOf <- MCEnvelopeOf
  Admissible <- MCAdmissible
  Verifies <- MCVerifies
  Hash <- DistinctHash
  Facts <- MCFacts
  MaxConnections = 2
  MaxFaults = 0
SPECIFICATION Spec
INVARIANT BundleCoversStoredBytes
