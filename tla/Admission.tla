------------------------------- MODULE Admission -------------------------------
(***************************************************************************)
(* The checks a submission passes before it reaches the database, in the   *)
(* order depguard-server makes them: those of the request and of the       *)
(* attestation, and, after Cosign, those of the certificate's claims and   *)
(* of the deployment's identity policy.  The first that fails gives the    *)
(* answer.  A submission is the set of its flaws.                          *)
(*                                                                         *)
(* A claim is what the parsers of the code make of an extension: a value,  *)
(* Absent (no such extension, or no printable string), or Malformed.  A    *)
(* workflow URI is its repository, its file and the pieces of its text     *)
(* after the first "@", divided at every further "@"; a ref, which may     *)
(* contain an "@" as well, is the sequence of its own pieces.              *)
(***************************************************************************)
EXTENDS Naturals, Sequences, SequencesExt

CONSTANTS
  Absent,              \* no such claim, no such setting
  Malformed,           \* a claim its parser refuses
  Issuer,              \* GITHUB_ACTIONS_ISSUER
  ExpectedRepository,  \* DEPGUARD_SIGSTORE_REPOSITORY or Absent
  ExpectedWorkflow     \* DEPGUARD_SIGSTORE_WORKFLOW or Absent

None == "none"

(* The reason of the first check that fails. *)
FirstFailure(checks) ==
  LET failing == {i \in DOMAIN checks : checks[i].fails} IN
  IF failing = {} THEN None ELSE checks[Min(failing)].reason

Check(fails, reason) == [fails |-> fails, reason |-> reason]

(* ingest_submission: the wrapper, read before anything else *)
WrapperChecks(flaws) ==
  <<Check("wrapper" \in flaws, "MALFORMED_SUBMISSION"),
    Check("size" \in flaws, "ATTESTATION_TOO_LARGE"),
    Check("proof" \in flaws, "MALFORMED_IDENTITY_PROOF"),
    Check("proofSize" \in flaws, "IDENTITY_PROOF_TOO_LARGE")>>

(* ingest_attestation: rate limit, size, JSON, verify_envelope, privacy *)
AttestationChecks(flaws) ==
  <<Check("rate" \in flaws, "TOO_MANY_REQUESTS"),
    Check("size" \in flaws, "ATTESTATION_TOO_LARGE"),
    Check("json" \in flaws, "MALFORMED_DSSE"),
    Check("signature" \in flaws, "INVALID_SIGNATURE"),
    Check("privacy" \in flaws, "PRIVACY_VIOLATION")>>

Flaws == {"wrapper", "size", "proof", "proofSize", "rate", "json", "signature", "privacy"}

AdmissionReason(flaws, wrapped) ==
  FirstFailure((IF wrapped THEN WrapperChecks(flaws) ELSE << >>) \o AttestationChecks(flaws))

-----------------------------------------------------------------------------
(* The certificate: the workflow URIs of its subject alternative name in
   order, and its extensions, for some claims in a generic and a legacy one. *)

Known(claim) == claim \notin {Absent, Malformed}

(* extension: the first of the identifiers that has a string; the other is not
   looked at *)
Extension_LegacyFirst(pair) == IF pair.legacy # Absent THEN pair.legacy ELSE pair.generic
Extension(pair) == IF pair.generic # Absent THEN pair.generic ELSE pair.legacy

CertificateIdentity(c) == IF c.sans = << >> THEN Absent ELSE Head(c.sans)

(* workflow_identity is the certificate's own workflow and in the repository the
   sources came from, and its URI ends in "@" and the ref they came from.  What
   stands before that ref in the URI may contain an "@" too. *)
Coherent(c) ==
  LET repository == Extension(c.repository)
      ref == Extension(c.ref) IN
  /\ Known(c.workflow) /\ Known(repository) /\ Known(ref)
  /\ c.workflow = CertificateIdentity(c)
  /\ c.workflow.repository = repository
  /\ ref \in Suffixes(c.workflow.at)

(* identity_from_verified_bundle *)
ClaimChecks(c) ==
  <<Check(~c.readable, "MALFORMED_IDENTITY_PROOF"),
    Check(CertificateIdentity(c) = Absent, "INVALID_SIGSTORE_IDENTITY"),
    Check(c.issuer # Issuer, "UNTRUSTED_OIDC_ISSUER"),
    Check(~Known(Extension(c.repository)), "INVALID_SIGSTORE_IDENTITY"),
    Check(~Known(c.workflow), "INVALID_SIGSTORE_IDENTITY"),
    Check(~Known(Extension(c.revision)), "INVALID_SIGSTORE_IDENTITY"),
    Check(~Known(Extension(c.ref)), "INVALID_SIGSTORE_IDENTITY"),
    Check(~Known(c.event), "INVALID_SIGSTORE_IDENTITY"),
    Check(~Coherent(c), "INVALID_SIGSTORE_IDENTITY")>>

(* IdentityPolicy::validate *)
PolicyChecks(c) ==
  <<Check(ExpectedRepository \notin {Absent, Extension(c.repository)}, "SIGSTORE_IDENTITY_POLICY_REJECTED"),
    Check(ExpectedWorkflow \notin {Absent, c.workflow}, "SIGSTORE_IDENTITY_POLICY_REJECTED")>>

IdentityReason(c) == FirstFailure(ClaimChecks(c) \o PolicyChecks(c))
=============================================================================
