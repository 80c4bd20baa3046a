\* Three concurrent submissions of one or two envelopes, one fault.
CONSTANTS
  Requests = {r1, r2, r3}
  Bodies <- MCBodies
  Bundles <- MCBundles
  NoBundle = NoBundle
  NoRow = NoRow
  NoBody = NoBody
  Submissions <- RacingSubmissions
  EnvelopeOf <- MCEnvelopeOf
  Admissible <- MCAdmissible
  Verifies <- MCVerifies
  Hash <- DistinctHash
  Facts <- MCFacts
  MaxConnections = 3
  MaxFaults = 1
SPECIFICATION Spec
SYMMETRY Symmetry
INVARIANT TypeOK
INVARIANT OneAttestationPerEnvelope
INVARIANT EvidenceIsAtomic
INVARIANT AcceptedIsStored
INVARIANT CountsEverySubmission
INVARIANT NoSpuriousError
INVARIANT NoLockCycle
PROPERTY EvidenceIsImmutable
PROPERTY ImplementsStore
