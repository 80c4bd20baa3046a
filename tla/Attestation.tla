----------------------------- MODULE Attestation -----------------------------
(***************************************************************************)
(* The local attestation protocol and the commands that use it: key-       *)
(* generate writes a key pair into two files, attest signs an evidence     *)
(* file, attest-verify checks an attestation against a public key file and *)
(* publish against the key the envelope names.  The commands meet in the   *)
(* files only, which std::fs::write truncates and then fills.              *)
(***************************************************************************)
EXTENDS Naturals, Sequences, FiniteSetsExt

CONSTANTS
  Generators,  \* runs of key-generate; each makes a key of its own, named after it
  Evidence,    \* evidence files
  Conforms,    \* evidence that passes the JSON schema
  PurlsMatch,  \* evidence whose PURLs are those of its package and versions
  CandidateOf, \* the candidate of each: its PURL and the digest of its artifact
  Foreign,     \* envelopes that reach the attestation file from elsewhere
  Nothing,     \* no file, nothing read
  Partial,     \* a file being written
  MaxForeign   \* bound on arriving foreign envelopes

VARIABLES
  private, public,    \* the files of the key pair
  attestation,        \* the attestation file
  generate,           \* where each key-generate is
  attest,             \* attest: step, evidence and key it read
  signed,             \* every envelope attest wrote
  verifier,           \* attest-verify or publish: mode, step, what it read, verdict
  arrived             \* foreign envelopes so far

keyFiles == <<private, public>>
vars == <<private, public, attestation, generate, attest, signed, verifier, arrived>>

ASSUME FilesAssumption ==
  /\ Nothing # Partial
  /\ {Nothing, Partial} \cap (Generators \cup Evidence) = {}
  /\ Conforms \subseteq Evidence /\ PurlsMatch \subseteq Evidence
  /\ DOMAIN CandidateOf = Evidence
  /\ MaxForeign \in Nat

-----------------------------------------------------------------------------
(* Envelopes *)

(* verify, in its order: what it finds wrong, and the error it returns.
   "signature" is a key ID or a signature that is not the verifier's key's. *)
Checks_StatementFirst == <<
  <<"payloadType",   "UNSUPPORTED_PAYLOAD_TYPE">>,
  <<"payload64",     "MALFORMED_DSSE">>,
  <<"signatures",    "MALFORMED_DSSE">>,
  <<"signature64",   "MALFORMED_DSSE">>,
  <<"json",          "INVALID_STATEMENT">>,
  <<"signature",     "INVALID_SIGNATURE">>,
  <<"noEvidence",    "INVALID_STATEMENT">>,
  <<"schema",        "UNSUPPORTED_SCHEMA">>,
  <<"methodology",   "UNSUPPORTED_METHODOLOGY">>,
  <<"rawSchema",     "SCHEMA_VALIDATION_FAILED">>,
  <<"unknownField",  "INVALID_STATEMENT">>,
  <<"statementType", "INVALID_STATEMENT">>,
  <<"predicateType", "UNSUPPORTED_PREDICATE">>,
  <<"assurance",     "INVALID_STATEMENT">>,
  <<"purl",          "INVALID_ARTIFACT_RELATIONSHIP">>,
  <<"digest",        "INVALID_EVIDENCE_DIGEST">>,
  <<"subject",       "INVALID_SUBJECT">> >>
Checks == <<
  <<"payloadType",   "UNSUPPORTED_PAYLOAD_TYPE">>,
  <<"payload64",     "MALFORMED_DSSE">>,
  <<"signatures",    "MALFORMED_DSSE">>,
  <<"signature64",   "MALFORMED_DSSE">>,
  <<"signature",     "INVALID_SIGNATURE">>,
  <<"json",          "INVALID_STATEMENT">>,
  <<"noEvidence",    "INVALID_STATEMENT">>,
  <<"schema",        "UNSUPPORTED_SCHEMA">>,
  <<"methodology",   "UNSUPPORTED_METHODOLOGY">>,
  <<"rawSchema",     "SCHEMA_VALIDATION_FAILED">>,
  <<"unknownField",  "INVALID_STATEMENT">>,
  <<"statementType", "INVALID_STATEMENT">>,
  <<"predicateType", "UNSUPPORTED_PREDICATE">>,
  <<"assurance",     "INVALID_STATEMENT">>,
  <<"purl",          "INVALID_ARTIFACT_RELATIONSHIP">>,
  <<"digest",        "INVALID_EVIDENCE_DIGEST">>,
  <<"subject",       "INVALID_SUBJECT">> >>

(* What else may be wrong with an envelope than what its fields tell: a check
   it fails whoever verifies it, a payload or a signature changed after
   signing, a key ID in upper case or one that is no key at all. *)
Flaws == ({Checks[i][1] : i \in DOMAIN Checks} \ {"signature", "rawSchema", "purl", "digest", "subject"})
           \cup {"changed", "keyidUppercase", "keyidMalformed"}

(* An envelope: the evidence in it, the evidence it gives the digest of, the
   candidate its subject is, who signed it, whom its key ID names. *)
Envelopes == [evidence : Evidence, digest : Evidence, subject : {CandidateOf[e] : e \in Evidence},
              signer : Generators, keyid : Generators, flaws : SUBSET Flaws]

ASSUME ForeignAssumption == Foreign \subseteq Envelopes

Sign(e, k) ==
  [evidence |-> e, digest |-> e, subject |-> CandidateOf[e], signer |-> k, keyid |-> k, flaws |-> {}]

SignatureFails_KeyidIgnored(env, k) == env.signer # k \/ "changed" \in env.flaws
SignatureFails(env, k) ==
  \/ env.keyid # k \/ env.flaws \cap {"keyidUppercase", "keyidMalformed"} # {}
  \/ env.signer # k \/ "changed" \in env.flaws

Fails(check, env, k) ==
  \/ check \in env.flaws
  \/ check = "signature" /\ SignatureFails(env, k)
  \/ check = "rawSchema" /\ env.evidence \notin Conforms
  \/ check = "purl" /\ env.evidence \notin PurlsMatch
  \/ check = "digest" /\ env.digest # env.evidence
  \/ check = "subject" /\ env.subject # CandidateOf[env.evidence]

Failing(env, k) == {i \in DOMAIN Checks : Fails(Checks[i][1], env, k)}

(* verify: the first check that fails decides. *)
Verify(env, k) ==
  IF Failing(env, k) = {} THEN "VALID" ELSE Checks[Min(Failing(env, k))][2]

(* verify_envelope: the key comes from the key ID, upper case or not. *)
VerifyEnvelope(env) ==
  IF env.flaws \cap {"signatures", "keyidMalformed"} # {}
  THEN "MALFORMED_DSSE" ELSE Verify(env, env.keyid)

ExitCode(verdict) ==
  CASE verdict = "VALID" -> 0
    [] verdict = "ERROR" -> 40
    [] verdict = "MALFORMED_DSSE" -> 41
    [] verdict = "INVALID_SIGNATURE" -> 42
    [] verdict \in {"UNSUPPORTED_PAYLOAD_TYPE", "UNSUPPORTED_PREDICATE",
                    "UNSUPPORTED_SCHEMA", "UNSUPPORTED_METHODOLOGY"} -> 43
    [] OTHER -> 44

-----------------------------------------------------------------------------

IdleAttest == [step |-> "idle", evidence |-> Nothing, key |-> Nothing]
IdleVerifier == [mode |-> "none", step |-> "idle", envelope |-> Nothing,
                 key |-> Nothing, verdict |-> "none"]

Init ==
  /\ private = Nothing /\ public = Nothing
  /\ attestation = Nothing
  /\ generate = [g \in Generators |-> "idle"]
  /\ attest = IdleAttest
  /\ signed = {}
  /\ verifier = IdleVerifier
  /\ arrived = 0

(* key-generate: the private file, then the public file *)
Advance(g, from, to) == generate[g] = from /\ generate' = [generate EXCEPT ![g] = to]

GenerateStep(g) ==
  /\ \/ Advance(g, "idle", "opened") /\ private' = Partial /\ UNCHANGED public
     \/ Advance(g, "opened", "private") /\ private' = g /\ UNCHANGED public
     \/ Advance(g, "private", "opened2") /\ public' = Partial /\ UNCHANGED private
     \/ Advance(g, "opened2", "done") /\ public' = g /\ UNCHANGED private
  /\ UNCHANGED <<attestation, attest, signed, verifier, arrived>>

Crash(g) ==
  /\ generate[g] \notin {"idle", "done", "dead"}
  /\ generate' = [generate EXCEPT ![g] = "dead"]
  /\ UNCHANGED <<keyFiles, attestation, attest, signed, verifier, arrived>>

(* attest: what is read must be in the schema and parse, or the command ends
   with an error.  The schema asks of a PURL that it begins with "pkg:" only. *)
ReadEvidence_Unchecked(e) ==
  /\ attest.step = "idle"
  /\ attest' = [IdleAttest EXCEPT !.step = "read", !.evidence = e]
  /\ UNCHANGED <<keyFiles, attestation, generate, signed, verifier, arrived>>
ReadEvidence(e) ==
  /\ attest.step = "idle"
  /\ e \in Conforms
  /\ attest' = [IdleAttest EXCEPT !.step = "read", !.evidence = e]
  /\ UNCHANGED <<keyFiles, attestation, generate, signed, verifier, arrived>>

ReadPrivateKey_Unchecked ==
  /\ attest.step = "read"
  /\ attest' = [attest EXCEPT !.step = "signed", !.key = private]
  /\ UNCHANGED <<keyFiles, attestation, generate, signed, verifier, arrived>>
ReadPrivateKey ==
  /\ attest.step = "read"
  /\ attest' = IF private \in Generators
               THEN [attest EXCEPT !.step = "signed", !.key = private] ELSE IdleAttest
  /\ UNCHANGED <<keyFiles, attestation, generate, signed, verifier, arrived>>

OpenAttestation ==
  /\ attest.step = "signed"
  /\ attestation' = Partial
  /\ attest' = [attest EXCEPT !.step = "opened"]
  /\ UNCHANGED <<keyFiles, generate, signed, verifier, arrived>>

WriteAttestation ==
  /\ attest.step = "opened"
  /\ attestation' = Sign(attest.evidence, attest.key)
  /\ signed' = signed \cup {attestation'}
  /\ attest' = IdleAttest
  /\ UNCHANGED <<keyFiles, generate, verifier, arrived>>

(* Another envelope takes the place of the file: downloaded, edited, or made
   by another implementation of the protocol. *)
Arrive(env) ==
  /\ arrived < MaxForeign
  /\ attest.step # "opened"
  /\ attestation' = env
  /\ arrived' = arrived + 1
  /\ UNCHANGED <<keyFiles, generate, attest, signed, verifier>>

(* attest-verify and publish: the attestation first, then the key *)
ReadAttestation(mode) ==
  /\ verifier.step = "idle"
  /\ attestation # Nothing
  /\ verifier' =
       IF attestation = Partial
       THEN [IdleVerifier EXCEPT !.mode = mode, !.step = "ended", !.verdict = "MALFORMED_DSSE"]
       ELSE [IdleVerifier EXCEPT !.mode = mode, !.step = "read", !.envelope = attestation]
  /\ UNCHANGED <<keyFiles, attestation, generate, attest, signed, arrived>>

Judge ==
  /\ verifier.step = "read"
  /\ verifier' =
       LET env == verifier.envelope
           End(k, verdict) == [verifier EXCEPT !.step = "ended", !.key = k, !.verdict = verdict]
       IN IF verifier.mode = "publish" THEN End(env.keyid, VerifyEnvelope(env))
          ELSE IF public \in Generators THEN End(public, Verify(env, public))
          ELSE End(Nothing, "ERROR")
  /\ UNCHANGED <<keyFiles, attestation, generate, attest, signed, arrived>>

NextCommand ==
  /\ verifier.step = "ended"
  /\ verifier' = IdleVerifier
  /\ UNCHANGED <<keyFiles, attestation, generate, attest, signed, arrived>>

Next ==
  \/ \E g \in Generators : GenerateStep(g) \/ Crash(g)
  \/ \E e \in Evidence : ReadEvidence(e)
  \/ ReadPrivateKey \/ OpenAttestation \/ WriteAttestation
  \/ \E env \in Foreign : Arrive(env)
  \/ \E mode \in {"attest-verify", "publish"} : ReadAttestation(mode)
  \/ Judge \/ NextCommand

Spec == Init /\ [][Next]_vars

-----------------------------------------------------------------------------
(* Properties *)

Verdicts == {Checks[i][2] : i \in DOMAIN Checks} \cup {"none", "VALID", "ERROR"}

(* Every variable has its type; attest signs with a complete key only. *)
TypeOK ==
  /\ {private, public} \subseteq Generators \cup {Nothing, Partial}
  /\ attestation \in Envelopes \cup {Nothing, Partial}
  /\ generate \in [Generators -> {"idle", "opened", "private", "opened2", "done", "dead"}]
  /\ attest.evidence \in Evidence \cup {Nothing} /\ attest.key \in Generators \cup {Nothing}
  /\ attest.step \in {"signed", "opened"} => attest.key # Nothing
  /\ signed \subseteq Envelopes
  /\ verifier.envelope \in Envelopes \cup {Nothing}
  /\ verifier.verdict \in Verdicts
  /\ verifier.step = "ended" <=> verifier.verdict # "none"
  /\ arrived \in 0 .. MaxForeign

(* Whatever happens to the files between its reads, VALID is said only of an
   envelope with nothing wrong in it that names, and was signed with, the key
   the verifier read (attest-verify) or the key ID (publish). *)
ValidIsSound ==
  verifier.verdict = "VALID" =>
    LET env == verifier.envelope IN
    /\ env.flaws = {} /\ env.evidence \in Conforms \cap PurlsMatch
    /\ env.digest = env.evidence /\ env.subject = CandidateOf[env.evidence]
    /\ env.keyid = verifier.key /\ env.signer = verifier.key

(* The contents of an envelope are judged only when they are authentic: exit
   code 44 is never about a payload the key did not sign (verify checks the
   signature before it parses the statement). *)
JudgedIsAuthentic ==
  verifier.step = "ended" /\ ExitCode(verifier.verdict) = 44 =>
    /\ verifier.envelope.signer = verifier.key
    /\ "changed" \notin verifier.envelope.flaws

(* What attest wrote, verify judges by two things only, whatever happens to the
   files in between.  The key: another than the one that signed makes it
   INVALID_SIGNATURE, which a key-generate that races with another, is
   interrupted, or runs between attest and attest-verify can bring about, but
   nothing does for publish, which takes the key the envelope names.  And the
   PURLs of the evidence: attest checks the schema (main.rs:195), not that they
   are those of the package and its versions, so it signs evidence that verify
   then refuses with INVALID_ARTIFACT_RELATIONSHIP, exit code 44.  Everything
   else verify asks for holds of all that passed attest's schema check. *)
SignedVerifies ==
  LET env == verifier.envelope IN
  verifier.step = "ended" /\ env \in signed /\ verifier.key # Nothing =>
    /\ verifier.mode = "publish" => verifier.key = env.signer
    /\ verifier.verdict =
         IF verifier.key # env.signer THEN "INVALID_SIGNATURE"
         ELSE IF env.evidence \in PurlsMatch THEN "VALID" ELSE "INVALID_ARTIFACT_RELATIONSHIP"
=============================================================================
