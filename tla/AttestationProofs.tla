-------------------------- MODULE AttestationProofs --------------------------
(***************************************************************************)
(* Proofs about Attestation, for any number of key-generates, evidence     *)
(* files and foreign envelopes.  First what verify returns is related to   *)
(* the checks an envelope fails: the order of the checks matters only      *)
(* here.  Then one inductive invariant carries the three properties        *)
(* through the commands.                                                   *)
(***************************************************************************)
EXTENDS Attestation, WellFoundedInduction, TLAPS

-----------------------------------------------------------------------------
(* Verify *)

(* The least element that Min chooses exists. *)
LEMMA LeastElement ==
  ASSUME NEW F \in SUBSET Nat, F # {}
  PROVE  Min(F) \in F /\ \A j \in F : Min(F) <= j
<1>1. \E i \in F : \A j \in F : <<j, i>> \notin OpToRel(<, Nat)
  BY NatLessThanWellFounded, WFMin
<1>2. PICK i \in F : \A j \in F : <<j, i>> \notin OpToRel(<, Nat)
  BY <1>1
<1>3. ASSUME NEW j \in F PROVE i <= j
  <2>1. i \in Nat /\ j \in Nat
    BY <1>2
  <2>2. <<j, i>> \notin OpToRel(<, Nat)
    BY <1>2
  <2>3. ~(j < i)
    BY <2>1, <2>2, Zenon DEF OpToRel
  <2> QED
    BY <2>1, <2>3
<1> QED
  BY <1>3 DEF Min

(* What the table of checks says: the signature is checked fifth, no check
   reports VALID, and none up to the fifth blames the contents. *)
LEMMA ChecksTable ==
  /\ DOMAIN Checks = 1 .. 17
  /\ Checks[5] = <<"signature", "INVALID_SIGNATURE">>
  /\ \A i \in 1 .. 17 : Checks[i][2] # "VALID" /\ Checks[i][2] # "none"
  /\ \A i \in 1 .. 17 : Checks[i][1] = "signature" => i = 5
  /\ \A i \in 1 .. 17 : Checks[i][1] = "purl" => i = 15
  /\ Checks[15] = <<"purl", "INVALID_ARTIFACT_RELATIONSHIP">>
  /\ Checks[10][1] = "rawSchema" /\ Checks[16][1] = "digest" /\ Checks[17][1] = "subject"
  /\ \A i \in 1 .. 5 : ExitCode(Checks[i][2]) # 44
BY DEF Checks, ExitCode

LEMMA FailingRange ==
  ASSUME NEW env, NEW k
  PROVE  Failing(env, k) \in SUBSET Nat /\ Failing(env, k) \subseteq 1 .. 17
BY ChecksTable DEF Failing

(* An envelope that fails a check is not VALID: the first failure is told. *)
LEMMA VerifyTellsFirst ==
  ASSUME NEW env, NEW k, Failing(env, k) # {}
  PROVE  \E i \in Failing(env, k) :
           /\ Verify(env, k) = Checks[i][2]
           /\ \A j \in Failing(env, k) : i <= j
BY LeastElement, FailingRange DEF Verify

(* VALID is returned exactly for flawless envelopes of the key. *)
LEMMA VerifyValid ==
  ASSUME NEW env \in Envelopes, NEW k, Verify(env, k) = "VALID"
  PROVE  /\ env.flaws = {} /\ env.evidence \in Conforms \cap PurlsMatch
         /\ env.digest = env.evidence /\ env.subject = CandidateOf[env.evidence]
         /\ env.keyid = k /\ env.signer = k
<1>1. Failing(env, k) = {}
  BY VerifyTellsFirst, FailingRange, ChecksTable
<1>2. \A i \in 1 .. 17 : ~Fails(Checks[i][1], env, k)
  BY <1>1, ChecksTable DEF Failing
<1>3. /\ ~Fails("signature", env, k) /\ ~Fails("rawSchema", env, k) /\ ~Fails("purl", env, k)
      /\ ~Fails("digest", env, k) /\ ~Fails("subject", env, k)
  BY <1>2, ChecksTable
<1>4. /\ ~SignatureFails(env, k) /\ env.evidence \in Conforms \cap PurlsMatch
      /\ env.digest = env.evidence /\ env.subject = CandidateOf[env.evidence]
  BY <1>3 DEF Fails
<1>5. env.flaws = {}
  <2>1. SUFFICES ASSUME NEW f \in env.flaws PROVE FALSE
    OBVIOUS
  <2>2. f \in Flaws
    BY <2>1 DEF Envelopes
  <2>3. f \notin {"changed", "keyidUppercase", "keyidMalformed"}
    BY <1>4, <2>1 DEF SignatureFails
  <2>4. PICK i \in DOMAIN Checks : Checks[i][1] = f
    BY <2>2, <2>3 DEF Flaws
  <2>5. Fails(f, env, k)
    BY <2>1 DEF Fails
  <2> QED
    BY <1>2, <2>4, <2>5, ChecksTable
<1> QED
  BY <1>4, <1>5 DEF SignatureFails

(* Contents are blamed only after the signature was found good. *)
LEMMA VerifyJudges ==
  ASSUME NEW env \in Envelopes, NEW k, ExitCode(Verify(env, k)) = 44
  PROVE  env.signer = k /\ "changed" \notin env.flaws
<1>1. Failing(env, k) # {}
  <2>1. ExitCode("VALID") # 44
    BY DEF ExitCode
  <2> QED
    BY <2>1 DEF Verify
<1>2. PICK i \in Failing(env, k) :
        Verify(env, k) = Checks[i][2] /\ \A j \in Failing(env, k) : i <= j
  BY <1>1, VerifyTellsFirst
<1>3. i \notin 1 .. 5
  BY <1>2, ChecksTable
<1>4. 5 \notin Failing(env, k)
  BY <1>2, <1>3, FailingRange
<1>5. ~SignatureFails(env, k)
  BY <1>4, ChecksTable DEF Failing, Fails
<1> QED
  BY <1>5 DEF SignatureFails

(* The right verdict on an envelope attest makes of evidence e with key s: its
   key and the PURLs of the evidence decide. *)
VerdictOnSigned(e, s, k) ==
  IF k # s THEN "INVALID_SIGNATURE"
  ELSE IF e \in PurlsMatch THEN "VALID" ELSE "INVALID_ARTIFACT_RELATIONSHIP"

(* Verify finds nothing wrong with what sign makes of evidence in the schema
   but another key, which it reports first, and the PURLs. *)
LEMMA VerifySigned ==
  ASSUME NEW e \in Conforms, NEW s, NEW k
  PROVE  Verify(Sign(e, s), k) = VerdictOnSigned(e, s, k)
<1> DEFINE env == Sign(e, s)
<1>1. /\ env.flaws = {} /\ env.evidence = e /\ env.signer = s /\ env.keyid = s
      /\ env.digest = e /\ env.subject = CandidateOf[e]
  BY DEF Sign
<1>2. SignatureFails(env, k) <=> k # s
  BY <1>1 DEF SignatureFails
<1> HIDE DEF env
<1>3. \A check : Fails(check, env, k) <=>
        \/ check = "signature" /\ k # s
        \/ check = "purl" /\ e \notin PurlsMatch
  BY <1>1, <1>2 DEF Fails
<1>4. Failing(env, k) \subseteq {5, 15}
  BY <1>3, ChecksTable DEF Failing
<1>5. 5 \in Failing(env, k) <=> k # s
  BY <1>3, ChecksTable DEF Failing
<1>6. 15 \in Failing(env, k) <=> e \notin PurlsMatch
  BY <1>3, ChecksTable DEF Failing
<1>7. CASE k # s
  <2>1. Verify(env, k) = Checks[5][2]
    BY <1>4, <1>5, <1>7, VerifyTellsFirst
  <2> QED
    BY <1>7, <2>1, ChecksTable DEF VerdictOnSigned, env
<1>8. CASE k = s /\ e \notin PurlsMatch
  <2>1. Verify(env, k) = Checks[15][2]
    BY <1>4, <1>5, <1>6, <1>8, VerifyTellsFirst
  <2> QED
    BY <1>8, <2>1, ChecksTable DEF VerdictOnSigned, env
<1>9. CASE k = s /\ e \in PurlsMatch
  <2>1. Failing(env, k) = {}
    BY <1>4, <1>5, <1>6, <1>9
  <2> QED
    BY <1>9, <2>1 DEF Verify, VerdictOnSigned, env
<1> QED
  BY <1>7, <1>8, <1>9

-----------------------------------------------------------------------------
(* The commands *)

(* The records of the two commands, with what each step has read. *)
Shapes ==
  /\ attest \in [step : {"idle", "read", "signed", "opened"},
                 evidence : Conforms \cup {Nothing}, key : Generators \cup {Nothing}]
  /\ attest.step # "idle" => attest.evidence # Nothing
  /\ attest.step \in {"signed", "opened"} => attest.key # Nothing
  /\ verifier \in [mode : {"none", "attest-verify", "publish"}, step : {"idle", "read", "ended"},
                   envelope : Envelopes \cup {Nothing}, key : Generators \cup {Nothing},
                   verdict : Verdicts]
  /\ verifier.step = "read" => verifier.envelope \in Envelopes
  /\ verifier.step = "ended" <=> verifier.verdict # "none"

FilesTyped ==
  /\ private \in Generators \cup {Nothing, Partial}
  /\ public \in Generators \cup {Nothing, Partial}
  /\ attestation \in Envelopes \cup {Nothing, Partial}
  /\ generate \in [Generators -> {"idle", "opened", "private", "opened2", "done", "dead"}]
  /\ arrived \in 0 .. MaxForeign

(* attest writes nothing but what sign makes of evidence in the schema. *)
SignedOnly == signed \subseteq {Sign(e, s) : e \in Conforms, s \in Generators}

(* SignedVerifies of every envelope attest could have written, whether it did
   or the envelope came from elsewhere: writing one more cannot falsify it. *)
SignedRight ==
  \A e \in Conforms, s \in Generators :
    verifier.step = "ended" /\ verifier.envelope = Sign(e, s) /\ verifier.key # Nothing =>
      /\ verifier.mode = "publish" => verifier.key = s
      /\ verifier.verdict = VerdictOnSigned(e, s, verifier.key)

VerdictRight == ValidIsSound /\ JudgedIsAuthentic /\ SignedRight

IInv == FilesTyped /\ Shapes /\ SignedOnly /\ VerdictRight

LEMMA SignTyped ==
  ASSUME NEW e \in Conforms, NEW k \in Generators
  PROVE  Sign(e, k) \in Envelopes
BY FilesAssumption DEF Sign, Envelopes

LEMMA IInvTypes == IInv => TypeOK
<1>1. SignedOnly => signed \subseteq Envelopes
  BY SignTyped DEF SignedOnly
<1> QED
  BY <1>1, FilesAssumption DEF IInv, FilesTyped, Shapes, TypeOK

LEMMA IInvSigned == IInv => SignedVerifies
<1> SUFFICES ASSUME IInv, verifier.step = "ended", verifier.envelope \in signed, verifier.key # Nothing
             PROVE  LET env == verifier.envelope IN
                    /\ verifier.mode = "publish" => verifier.key = env.signer
                    /\ verifier.verdict =
                         IF verifier.key # env.signer THEN "INVALID_SIGNATURE"
                         ELSE IF env.evidence \in PurlsMatch
                              THEN "VALID" ELSE "INVALID_ARTIFACT_RELATIONSHIP"
  BY DEF SignedVerifies
<1>1. PICK e \in Conforms, s \in Generators : verifier.envelope = Sign(e, s)
  BY DEF IInv, SignedOnly
<1>2. verifier.envelope.signer = s /\ verifier.envelope.evidence = e
  BY <1>1 DEF Sign
<1> QED
  BY <1>1, <1>2 DEF IInv, VerdictRight, SignedRight, VerdictOnSigned

LEMMA VerdictsContain ==
  /\ {"none", "VALID", "ERROR", "MALFORMED_DSSE"} \subseteq Verdicts
  /\ \A env, k : Verify(env, k) \in Verdicts \ {"none"}
<1>1. \A i \in 1 .. 17 : Checks[i][2] \in Verdicts
  BY ChecksTable DEF Verdicts
<1>2. "MALFORMED_DSSE" = Checks[2][2]
  BY DEF Checks
<1>3. ASSUME NEW env, NEW k PROVE Verify(env, k) \in Verdicts \ {"none"}
  <2>1. CASE Failing(env, k) = {}
    BY <2>1 DEF Verify, Verdicts
  <2>2. CASE Failing(env, k) # {}
    BY <1>1, <2>2, VerifyTellsFirst, FailingRange, ChecksTable
  <2> QED
    BY <2>1, <2>2
<1>4. "MALFORMED_DSSE" \in Verdicts
  BY <1>1, <1>2
<1>5. {"none", "VALID", "ERROR"} \subseteq Verdicts
  BY DEF Verdicts
<1> QED
  BY <1>3, <1>4, <1>5

(* Steps that leave the verifier alone keep its verdicts. *)
LEMMA VerdictKept == VerdictRight /\ UNCHANGED verifier => VerdictRight'
BY DEF VerdictRight, ValidIsSound, JudgedIsAuthentic, SignedRight

(* A verifier without a verdict has nothing to be wrong about. *)
LEMMA NoVerdict ==
  ASSUME verifier'.step # "ended", verifier'.verdict = "none"
  PROVE  VerdictRight'
BY DEF VerdictRight, ValidIsSound, JudgedIsAuthentic, SignedRight

LEMMA InitIInv == Init => IInv
<1> SUFFICES ASSUME Init PROVE IInv
  OBVIOUS
<1>1. FilesTyped
  BY FilesAssumption DEF Init, FilesTyped
<1>2. Shapes
  BY VerdictsContain DEF Init, Shapes, IdleAttest, IdleVerifier
<1>3. VerdictRight
  BY DEF Init, IdleVerifier, VerdictRight, ValidIsSound, JudgedIsAuthentic, SignedRight
<1>4. SignedOnly
  BY DEF Init, SignedOnly
<1> QED
  BY <1>1, <1>2, <1>3, <1>4 DEF IInv

(* The verdict of attest-verify and of publish is right when it is given. *)
LEMMA JudgeRight == IInv /\ Judge => Shapes' /\ VerdictRight'
<1> SUFFICES ASSUME IInv, Judge PROVE Shapes' /\ VerdictRight'
  OBVIOUS
<1> DEFINE env == verifier.envelope
<1>1. /\ env \in Envelopes /\ verifier.step = "read"
      /\ UNCHANGED attest /\ UNCHANGED signed
      /\ env.keyid \in Generators
  BY DEF IInv, Shapes, Judge, Envelopes
<1>2. verifier \in [mode : {"none", "attest-verify", "publish"}, step : {"idle", "read", "ended"},
                    envelope : Envelopes \cup {Nothing}, key : Generators \cup {Nothing},
                    verdict : Verdicts]
  BY DEF IInv, Shapes
<1>3. ASSUME NEW k \in Generators, NEW verdict,
             verdict = Verify(env, k),
             verifier' = [verifier EXCEPT !.step = "ended", !.key = k, !.verdict = verdict],
             verifier.mode = "publish" => k = env.keyid
      PROVE  Shapes' /\ VerdictRight'
  <2>1. /\ verifier'.step = "ended" /\ verifier'.envelope = env /\ verifier'.key = k
        /\ verifier'.verdict = Verify(env, k)
    BY <1>2, <1>3
  <2>2. Shapes'
    <3>1. verdict \in Verdicts /\ verdict # "none"
      BY <1>3, VerdictsContain
    <3> QED
      BY <1>1, <1>2, <1>3, <2>1, <3>1 DEF IInv, Shapes
  <2>3. ValidIsSound'
    BY <1>1, <2>1, VerifyValid DEF ValidIsSound
  <2>4. JudgedIsAuthentic'
    BY <1>1, <2>1, VerifyJudges DEF JudgedIsAuthentic
  <2>5. SignedRight'
    <3>1. ASSUME NEW e \in Conforms, NEW s \in Generators, env = Sign(e, s)
          PROVE  /\ verifier'.mode = "publish" => k = s
                 /\ Verify(env, k) = VerdictOnSigned(e, s, k)
      BY <1>2, <1>3, <3>1, VerifySigned DEF Sign
    <3> QED
      BY <2>1, <3>1 DEF SignedRight
  <2> QED
    BY <2>2, <2>3, <2>4, <2>5 DEF VerdictRight
<1>4. CASE verifier.mode = "publish"
  <2>1. verifier' = [verifier EXCEPT !.step = "ended", !.key = env.keyid, !.verdict = VerifyEnvelope(env)]
    BY <1>4 DEF Judge
  <2>2. CASE env.flaws \cap {"signatures", "keyidMalformed"} = {}
    <3>1. VerifyEnvelope(env) = Verify(env, env.keyid)
      BY <2>2 DEF VerifyEnvelope
    <3> QED
      BY <1>1, <1>3, <2>1, <3>1
  <2>3. CASE env.flaws \cap {"signatures", "keyidMalformed"} # {}
    <3>1. VerifyEnvelope(env) = "MALFORMED_DSSE"
      BY <2>3 DEF VerifyEnvelope
    <3>2. /\ verifier'.step = "ended" /\ verifier'.envelope = env
          /\ verifier'.verdict = "MALFORMED_DSSE"
      BY <1>2, <2>1, <3>1
    <3>3. Shapes'
      BY <1>1, <1>2, <2>1, <3>1, <3>2, VerdictsContain DEF IInv, Shapes
    <3>4. ExitCode("MALFORMED_DSSE") = 41
      BY DEF ExitCode
    <3>5. env.flaws # {}
      BY <2>3
    <3>6. VerdictRight'
      BY <3>2, <3>4, <3>5 DEF VerdictRight, ValidIsSound, JudgedIsAuthentic, SignedRight, Sign
    <3> QED
      BY <3>3, <3>6
  <2> QED
    BY <2>2, <2>3
<1>5. CASE verifier.mode # "publish" /\ public \in Generators
  <2>1. verifier' = [verifier EXCEPT !.step = "ended", !.key = public, !.verdict = Verify(env, public)]
    BY <1>5 DEF Judge
  <2> QED
    BY <1>3, <1>5, <2>1
<1>6. CASE verifier.mode # "publish" /\ public \notin Generators
  <2>1. verifier' = [verifier EXCEPT !.step = "ended", !.key = Nothing, !.verdict = "ERROR"]
    BY <1>6 DEF Judge
  <2>2. verifier'.step = "ended" /\ verifier'.key = Nothing /\ verifier'.verdict = "ERROR"
    BY <1>2, <2>1
  <2>3. Shapes'
    BY <1>1, <1>2, <2>1, <2>2, VerdictsContain DEF IInv, Shapes
  <2>4. ExitCode("ERROR") = 40
    BY DEF ExitCode
  <2>5. VerdictRight'
    BY <2>2, <2>4 DEF VerdictRight, ValidIsSound, JudgedIsAuthentic, SignedRight
  <2> QED
    BY <2>3, <2>5
<1> QED
  BY <1>4, <1>5, <1>6

LEMMA NextIInv == IInv /\ [Next]_vars => IInv'
<1> SUFFICES ASSUME IInv, [Next]_vars PROVE IInv'
  OBVIOUS
<1> USE DEF IInv
<1>0. SignedOnly /\ UNCHANGED signed => SignedOnly'
  BY DEF SignedOnly
<1>1. ASSUME NEW g \in Generators, GenerateStep(g) PROVE IInv'
  <2>1. FilesTyped'
    BY <1>1 DEF FilesTyped, GenerateStep, Advance
  <2>2. UNCHANGED <<attest, signed, verifier>>
    BY <1>1 DEF GenerateStep
  <2> QED
    BY <2>1, <2>2, <1>0, VerdictKept DEF Shapes
<1>2. ASSUME NEW g \in Generators, Crash(g) PROVE IInv'
  <2>1. FilesTyped'
    BY <1>2 DEF FilesTyped, Crash, keyFiles
  <2>2. UNCHANGED <<attest, signed, verifier>>
    BY <1>2 DEF Crash
  <2> QED
    BY <2>1, <2>2, <1>0, VerdictKept DEF Shapes
<1>3. ASSUME NEW e \in Evidence, ReadEvidence(e) PROVE IInv'
  <2>1. UNCHANGED <<private, public, attestation, generate, signed, verifier, arrived>>
    BY <1>3 DEF ReadEvidence, keyFiles
  <2>2. e \in Conforms /\ attest' = [step |-> "read", evidence |-> e, key |-> Nothing]
    BY <1>3 DEF ReadEvidence, IdleAttest
  <2>3. e # Nothing
    BY FilesAssumption
  <2> QED
    BY <2>1, <2>2, <2>3, <1>0, VerdictKept DEF FilesTyped, Shapes
<1>4. ASSUME ReadPrivateKey PROVE IInv'
  <2>1. UNCHANGED <<private, public, attestation, generate, signed, verifier, arrived>>
    BY <1>4 DEF ReadPrivateKey, keyFiles
  <2>2. attest.step = "read"
    BY <1>4 DEF ReadPrivateKey
  <2>3. CASE private \in Generators
    <3>1. attest' = [attest EXCEPT !.step = "signed", !.key = private]
      BY <1>4, <2>3 DEF ReadPrivateKey
    <3>2. private # Nothing
      BY <2>3, FilesAssumption
    <3> QED
      BY <2>1, <2>2, <2>3, <3>1, <3>2, <1>0, VerdictKept DEF FilesTyped, Shapes
  <2>4. CASE private \notin Generators
    <3>1. attest' = IdleAttest
      BY <1>4, <2>4 DEF ReadPrivateKey
    <3> QED
      BY <2>1, <3>1, <1>0, VerdictKept DEF FilesTyped, Shapes, IdleAttest
  <2> QED
    BY <2>3, <2>4
<1>5. ASSUME OpenAttestation PROVE IInv'
  <2>1. UNCHANGED <<private, public, generate, signed, verifier, arrived>> /\ attestation' = Partial
    BY <1>5 DEF OpenAttestation, keyFiles
  <2>2. attest.step = "signed" /\ attest' = [attest EXCEPT !.step = "opened"]
    BY <1>5 DEF OpenAttestation
  <2> QED
    BY <2>1, <2>2, <1>0, VerdictKept DEF FilesTyped, Shapes
<1>6. ASSUME WriteAttestation PROVE IInv'
  <2>1. UNCHANGED <<private, public, generate, verifier, arrived>>
    BY <1>6 DEF WriteAttestation, keyFiles
  <2>2. attest.evidence \in Conforms /\ attest.key \in Generators
    BY <1>6 DEF WriteAttestation, Shapes
  <2>3. attestation' \in Envelopes
    BY <1>6, <2>2, SignTyped DEF WriteAttestation
  <2>4. attest' = IdleAttest
    BY <1>6 DEF WriteAttestation
  <2>5. SignedOnly'
    BY <1>6, <2>2 DEF WriteAttestation, SignedOnly
  <2> QED
    BY <2>1, <2>3, <2>4, <2>5, VerdictKept DEF FilesTyped, Shapes, IdleAttest
<1>7. ASSUME NEW env \in Foreign, Arrive(env) PROVE IInv'
  <2>1. UNCHANGED <<private, public, generate, attest, signed, verifier>>
    BY <1>7 DEF Arrive, keyFiles
  <2>2. attestation' \in Envelopes /\ arrived' \in 0 .. MaxForeign
    BY <1>7, ForeignAssumption, FilesAssumption DEF Arrive, FilesTyped
  <2> QED
    BY <2>1, <2>2, <1>0, VerdictKept DEF FilesTyped, Shapes
<1>8. ASSUME NEW mode \in {"attest-verify", "publish"}, ReadAttestation(mode) PROVE IInv'
  <2>1. UNCHANGED <<private, public, attestation, generate, attest, signed, arrived>>
    BY <1>8 DEF ReadAttestation, keyFiles
  <2>2. CASE attestation = Partial
    <3>1. verifier' = [mode |-> mode, step |-> "ended", envelope |-> Nothing,
                       key |-> Nothing, verdict |-> "MALFORMED_DSSE"]
      BY <1>8, <2>2 DEF ReadAttestation, IdleVerifier
    <3>2. ExitCode("MALFORMED_DSSE") = 41
      BY DEF ExitCode
    <3>3. VerdictRight'
      BY <3>1, <3>2 DEF VerdictRight, ValidIsSound, JudgedIsAuthentic, SignedRight
    <3> QED
      BY <2>1, <3>1, <3>3, <1>0, VerdictsContain DEF FilesTyped, Shapes
  <2>3. CASE attestation # Partial
    <3>1. verifier' = [mode |-> mode, step |-> "read", envelope |-> attestation,
                       key |-> Nothing, verdict |-> "none"]
      BY <1>8, <2>3 DEF ReadAttestation, IdleVerifier
    <3>2. attestation \in Envelopes
      BY <1>8, <2>3 DEF ReadAttestation, FilesTyped
    <3>3. VerdictRight'
      BY <3>1, NoVerdict
    <3> QED
      BY <2>1, <3>1, <3>2, <3>3, <1>0, VerdictsContain DEF FilesTyped, Shapes
  <2> QED
    BY <2>2, <2>3
<1>9. ASSUME Judge PROVE IInv'
  <2>1. FilesTyped'
    BY <1>9 DEF Judge, keyFiles, FilesTyped
  <2>2. UNCHANGED signed
    BY <1>9 DEF Judge
  <2> QED
    BY <1>9, <2>1, <2>2, <1>0, JudgeRight
<1>10. ASSUME NextCommand PROVE IInv'
  <2>1. UNCHANGED <<private, public, attestation, generate, attest, signed, arrived>>
    BY <1>10 DEF NextCommand, keyFiles
  <2>2. verifier' = [mode |-> "none", step |-> "idle", envelope |-> Nothing,
                     key |-> Nothing, verdict |-> "none"]
    BY <1>10 DEF NextCommand, IdleVerifier
  <2>3. VerdictRight'
    BY <2>2, NoVerdict
  <2> QED
    BY <2>1, <2>2, <2>3, <1>0, VerdictsContain DEF FilesTyped, Shapes
<1>11. CASE UNCHANGED vars
  BY <1>11, <1>0, VerdictKept DEF vars, FilesTyped, Shapes
<1> QED
  BY <1>1, <1>2, <1>3, <1>4, <1>5, <1>6, <1>7, <1>8, <1>9, <1>10, <1>11 DEF Next

LEMMA Inductive == Spec => []IInv
BY InitIInv, NextIInv, PTL DEF Spec

(* The files and the commands keep their types; attest never signs with a key
   file that is being written. *)
THEOREM TypeCorrect == Spec => []TypeOK
BY Inductive, IInvTypes, PTL

(* VALID is said only of a flawless envelope of the key that was read, however
   key-generate, attest and foreign envelopes change the files meanwhile. *)
THEOREM ValidVerdicts == Spec => []ValidIsSound
<1>1. IInv => ValidIsSound
  BY DEF IInv, VerdictRight
<1> QED
  BY <1>1, Inductive, PTL

(* Exit code 44 is never about a payload the key did not sign. *)
THEOREM ContentsAuthentic == Spec => []JudgedIsAuthentic
<1>1. IInv => JudgedIsAuthentic
  BY DEF IInv, VerdictRight
<1> QED
  BY <1>1, Inductive, PTL

(* What attest wrote is INVALID_SIGNATURE for any key but the one that signed
   it, which publish always takes.  For that key it is VALID when its PURLs are
   those of its package and versions, and INVALID_ARTIFACT_RELATIONSHIP when
   they are not, which attest does not check before it signs; the rest of what
   verify asks for follows from the schema check attest makes. *)
THEOREM SignedAttestations == Spec => []SignedVerifies
BY Inductive, IInvSigned, PTL
=============================================================================
