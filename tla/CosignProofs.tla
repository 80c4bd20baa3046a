----------------------------- MODULE CosignProofs -----------------------------
(***************************************************************************)
(* Proofs about CosignVerifier, for any number of requests, threads and    *)
(* faults, any timeouts, flaws and certificates.  What can be said of a    *)
(* request at each point of its handler is inductive, one request at a     *)
(* time: no step of one request touches another's child or directory.  How *)
(* long a request waits is about all of them: the threads they share.      *)
(***************************************************************************)
EXTENDS CosignVerifier, TLAPS, WellFoundedInduction, FiniteSetTheorems

-----------------------------------------------------------------------------
(* Admission: the first failing check decides, so an admission without a
   reason failed no check. *)

LEMMA MinExists == ASSUME NEW F \in SUBSET Nat, F # {} PROVE Min(F) \in F
<1>1. IsWellFoundedOn(OpToRel(<, Nat), Nat)
  BY NatLessThanWellFounded
<1>2. PICK m \in F : \A y \in F : ~(<<y, m>> \in OpToRel(<, Nat))
  BY <1>1, WFMin
<1>3. \A y \in F : m <= y
  <2> TAKE y \in F
  <2>1. ~(y < m)
    BY <1>2 DEF OpToRel
  <2> QED
    BY <2>1
<1> QED
  BY <1>3 DEF Min

LEMMA InSequence == ASSUME NEW S, NEW s \in Seq(S) PROVE \A i \in DOMAIN s : s[i] \in S
OBVIOUS

LEMMA Passed == ASSUME NEW b \in BOOLEAN, NEW reason, ~Check(b, reason).fails PROVE ~b
BY DEF Check

LEMMA Concatenated ==
  ASSUME NEW S, NEW s \in Seq(S), NEW t \in Seq(S)
  PROVE  /\ s \o t \in Seq(S)
         /\ DOMAIN (s \o t) = 1 .. Len(s) + Len(t)
         /\ \A i \in 1 .. Len(s) : (s \o t)[i] = s[i]
         /\ \A i \in 1 .. Len(t) : (s \o t)[Len(s) + i] = t[i]
OBVIOUS

Checks(R) == Seq([fails : BOOLEAN, reason : R])

LEMMA FirstFailureIsReason ==
  ASSUME NEW R, NEW checks \in Checks(R)
  PROVE  /\ FirstFailure(checks) \in R \cup {None}
         /\ None \notin R /\ FirstFailure(checks) = None => \A i \in DOMAIN checks : ~checks[i].fails
<1> DEFINE failing == {i \in DOMAIN checks : checks[i].fails}
<1>1. CASE failing = {}
  BY <1>1 DEF FirstFailure
<1>2. CASE failing # {}
  <2>1. failing \in SUBSET Nat
    BY DEF Checks
  <2>2. Min(failing) \in DOMAIN checks
    BY <1>2, <2>1, MinExists
  <2>3. checks[Min(failing)] \in [fails : BOOLEAN, reason : R]
    <3>1. \A i \in DOMAIN checks : checks[i] \in [fails : BOOLEAN, reason : R]
      BY InSequence DEF Checks
    <3> HIDE DEF failing
    <3> QED
      BY <2>2, <3>1
  <2>4. FirstFailure(checks) = checks[Min(failing)].reason
    BY <1>2 DEF FirstFailure
  <2> HIDE DEF failing
  <2>5. FirstFailure(checks) \in R
    BY <2>3, <2>4
  <2> QED
    BY <2>5
<1> QED
  BY <1>1, <1>2

Reasons == {"MALFORMED_SUBMISSION", "ATTESTATION_TOO_LARGE", "MALFORMED_IDENTITY_PROOF",
            "IDENTITY_PROOF_TOO_LARGE", "TOO_MANY_REQUESTS", "MALFORMED_DSSE", "INVALID_SIGNATURE",
            "PRIVACY_VIOLATION"}

LEMMA AdmissionTyped ==
  ASSUME NEW f, NEW w
  PROVE  AdmissionReason(f, w) \in Reasons \cup {None}
<1>1. AttestationChecks(f) \in Checks(Reasons) /\ WrapperChecks(f) \in Checks(Reasons)
  BY DEF AttestationChecks, WrapperChecks, Check, Reasons, Checks
<1>2. (IF w THEN WrapperChecks(f) ELSE << >>) \o AttestationChecks(f) \in Checks(Reasons)
  BY <1>1 DEF Checks
<1> QED
  BY <1>2, FirstFailureIsReason DEF AdmissionReason

IdentityReasons == {"MALFORMED_IDENTITY_PROOF", "INVALID_SIGSTORE_IDENTITY", "UNTRUSTED_OIDC_ISSUER",
                    "SIGSTORE_IDENTITY_POLICY_REJECTED"}

LEMMA IdentityTyped == ASSUME NEW c PROVE IdentityReason(c) \in IdentityReasons \cup {None}
<1>1. ClaimChecks(c) \in Checks(IdentityReasons) /\ PolicyChecks(c) \in Checks(IdentityReasons)
  BY DEF ClaimChecks, PolicyChecks, Check, IdentityReasons, Checks
<1>2. ClaimChecks(c) \o PolicyChecks(c) \in Checks(IdentityReasons)
  BY <1>1 DEF Checks
<1> QED
  BY <1>2, FirstFailureIsReason DEF IdentityReason

(* No reason against a certificate: its claims agree and meet the policy. *)
LEMMA ClaimsHold ==
  ASSUME NEW c, IdentityReason(c) = None
  PROVE  /\ c.issuer = Issuer /\ Coherent(c)
         /\ ExpectedRepository \in {Absent, Extension(c.repository)}
         /\ ExpectedWorkflow \in {Absent, c.workflow}
<1> DEFINE all == ClaimChecks(c) \o PolicyChecks(c)
<1>1. ClaimChecks(c) \in Checks(IdentityReasons) /\ PolicyChecks(c) \in Checks(IdentityReasons)
  BY DEF ClaimChecks, PolicyChecks, Check, IdentityReasons, Checks
<1>2. all \in Checks(IdentityReasons)
  BY <1>1 DEF Checks
<1>3. \A i \in DOMAIN all : ~all[i].fails
  <2>1. None \notin IdentityReasons
    BY DEF None, IdentityReasons
  <2> QED
    BY <1>2, <2>1, FirstFailureIsReason DEF IdentityReason
<1>4. Len(ClaimChecks(c)) = 9 /\ Len(PolicyChecks(c)) = 2
  BY DEF ClaimChecks, PolicyChecks
<1>5. /\ DOMAIN all = 1 .. Len(ClaimChecks(c)) + Len(PolicyChecks(c))
      /\ \A i \in 1 .. Len(ClaimChecks(c)) : all[i] = ClaimChecks(c)[i]
      /\ \A i \in 1 .. Len(PolicyChecks(c)) : all[Len(ClaimChecks(c)) + i] = PolicyChecks(c)[i]
  BY <1>1, Concatenated DEF Checks
<1> HIDE DEF all
<1>6. /\ {3, 9, 10, 11} \subseteq DOMAIN all
      /\ all[3] = ClaimChecks(c)[3] /\ all[9] = ClaimChecks(c)[9]
      /\ all[10] = PolicyChecks(c)[1] /\ all[11] = PolicyChecks(c)[2]
  <2>1. 10 = 9 + 1 /\ 11 = 9 + 2
    OBVIOUS
  <2> QED
    BY <1>4, <1>5, <2>1
<1>7. /\ ~ClaimChecks(c)[3].fails /\ ~ClaimChecks(c)[9].fails
      /\ ~PolicyChecks(c)[1].fails /\ ~PolicyChecks(c)[2].fails
  BY <1>3, <1>6
<1>8. /\ ClaimChecks(c)[3] = Check(c.issuer # Issuer, "UNTRUSTED_OIDC_ISSUER")
      /\ ClaimChecks(c)[9] = Check(~Coherent(c), "INVALID_SIGSTORE_IDENTITY")
      /\ PolicyChecks(c)[1] = Check(ExpectedRepository \notin {Absent, Extension(c.repository)},
                                    "SIGSTORE_IDENTITY_POLICY_REJECTED")
      /\ PolicyChecks(c)[2] = Check(ExpectedWorkflow \notin {Absent, c.workflow},
                                    "SIGSTORE_IDENTITY_POLICY_REJECTED")
  BY DEF ClaimChecks, PolicyChecks
<1>9. ~(c.issuer # Issuer) /\ ~~Coherent(c)
  BY <1>7, <1>8, Passed
<1>10. /\ ~(ExpectedRepository \notin {Absent, Extension(c.repository)})
       /\ ~(ExpectedWorkflow \notin {Absent, c.workflow})
  BY <1>7, <1>8, Passed
<1> QED
  BY <1>9, <1>10

-----------------------------------------------------------------------------
(* The request handlers *)

Pcs == {"absent", "ready", "prepare", "spawn", "poll", "kill", "wait", "database", "done"}
Children == {"none", "running", "good", "bad", "killed", "reaped", "abandoned"}
AllAnswers == Errors \cup Refusals \cup {"none", "ACCEPTED", "ACCEPTED_WITH_IDENTITY", "REQUEST_TIMEOUT"}

Typed ==
  /\ flaws \in [Requests -> SUBSET Flaws]
  /\ certificate \in [Requests -> Certificates \cup {Absent}]
  /\ pc \in [Requests -> Pcs]
  /\ child \in [Requests -> Children]
  /\ files \in [Requests -> BOOLEAN]
  /\ answer \in [Requests -> AllAnswers]

(* The child and the directory of a request, by where its handler is. *)
Held(r) ==
  /\ pc[r] \in {"absent", "ready", "prepare"} => child[r] = "none" /\ ~files[r]
  /\ pc[r] = "spawn" => child[r] = "none" /\ files[r]
  /\ pc[r] \in {"poll", "kill"} => child[r] \in {"running", "good", "bad"} /\ files[r]
  /\ pc[r] = "wait" => child[r] \in {"good", "bad", "killed"} /\ files[r]
  /\ pc[r] \in {"database", "done"} => child[r] \in {"none", "reaped", "abandoned"} /\ ~files[r]

(* What Cosign found, and what was made of it. *)
Found(r) ==
  /\ child[r] = "good" => r \in Genuine
  /\ child[r] = "bad" => r \notin Genuine
  /\ pc[r] = "database" /\ r \in WithProof => r \in Genuine /\ child[r] = "reaped"
  /\ answer[r] = "ACCEPTED_WITH_IDENTITY" => r \in Genuine /\ child[r] = "reaped" /\ pc[r] = "done"
  /\ answer[r] = "INVALID_SIGSTORE_IDENTITY" => r \notin Genuine \/ certificate[r] # Absent
  /\ r \in WithProof /\ (pc[r] = "database" \/ answer[r] = "ACCEPTED_WITH_IDENTITY") =>
       certificate[r] \in Certificates /\ IdentityReason(certificate[r]) = None

Reason(r) == AdmissionReason(flaws[r], r \in Wrapped)

(* What admission made of its flaws. *)
Admitted(r) ==
  /\ pc[r] \in {"absent", "ready"} => answer[r] = "none" /\ certificate[r] = Absent
  /\ pc[r] \notin {"absent", "ready", "done"} => Reason(r) = None
  /\ Reason(r) # None =>
       child[r] = "none" /\ certificate[r] = Absent /\ answer[r] \in Refusals \cup {"none"}

IInv == Typed /\ \A r \in Requests : Held(r) /\ Found(r) /\ Admitted(r)

LEMMA InitIInv == Init => IInv
<1> SUFFICES ASSUME Init PROVE IInv
  OBVIOUS
<1>1. Typed
  BY DEF Init, Typed, Pcs, Children, AllAnswers
<1>2. \A r \in Requests : Held(r) /\ Found(r) /\ Admitted(r)
  BY DEF Init, Held, Found, Admitted
<1> QED
  BY <1>1, <1>2 DEF IInv

(* A step of q that leaves the other requests alone keeps what is known of
   them; what it makes of q is left to show. *)
LEMMA OneRequest ==
  ASSUME IInv, NEW q \in Requests, Typed', Held(q)', Found(q)', Admitted(q)',
         \A r \in Requests \ {q} :
           /\ pc'[r] = pc[r] /\ child'[r] = child[r] /\ files'[r] = files[r]
           /\ answer'[r] = answer[r] /\ certificate'[r] = certificate[r] /\ flaws'[r] = flaws[r]
  PROVE  IInv'
<1> SUFFICES ASSUME NEW r \in Requests \ {q} PROVE Held(r)' /\ Found(r)' /\ Admitted(r)'
  BY DEF IInv
<1>1. Held(r) /\ Found(r) /\ Admitted(r)
  BY DEF IInv
<1>2. Held(r)'
  BY <1>1 DEF Held
<1>3. Found(r)'
  BY <1>1 DEF Found
<1>4. Reason(r)' = Reason(r)
  BY DEF Reason
<1>5. Admitted(r)'
  BY <1>1, <1>4 DEF Admitted
<1> QED
  BY <1>2, <1>3, <1>5

(* The new values a step gives to the request it is about, once it arrived. *)
Moved(q, p, c, f, a, s) ==
  /\ pc' = [pc EXCEPT ![q] = p]
  /\ child' = [child EXCEPT ![q] = c]
  /\ files' = [files EXCEPT ![q] = f]
  /\ answer' = [answer EXCEPT ![q] = a]
  /\ certificate' = [certificate EXCEPT ![q] = s]
  /\ flaws' = flaws

(* ... and when they keep what is known of it. *)
Fits(q, p, c, f, a, s) ==
  /\ p \in Pcs \ {"absent", "ready"} /\ c \in Children /\ f \in BOOLEAN
  /\ a \in AllAnswers /\ s \in Certificates \cup {Absent}
  /\ p = "prepare" => c = "none" /\ ~f
  /\ p = "spawn" => c = "none" /\ f
  /\ p \in {"poll", "kill"} => c \in {"running", "good", "bad"} /\ f
  /\ p = "wait" => c \in {"good", "bad", "killed"} /\ f
  /\ p \in {"database", "done"} => c \in {"none", "reaped", "abandoned"} /\ ~f
  /\ c = "good" => q \in Genuine
  /\ c = "bad" => q \notin Genuine
  /\ p = "database" /\ q \in WithProof => q \in Genuine /\ c = "reaped"
  /\ a = "ACCEPTED_WITH_IDENTITY" => q \in Genuine /\ c = "reaped" /\ p = "done"
  /\ a = "INVALID_SIGSTORE_IDENTITY" => q \notin Genuine \/ s # Absent
  /\ q \in WithProof /\ (p = "database" \/ a = "ACCEPTED_WITH_IDENTITY") =>
       s \in Certificates /\ IdentityReason(s) = None
  /\ Reason(q) # None => p = "done" /\ c = "none" /\ s = Absent /\ a \in Refusals

LEMMA MovedKeeps ==
  ASSUME IInv, NEW q \in Requests, NEW p, NEW c, NEW f, NEW a, NEW s,
         Moved(q, p, c, f, a, s), Fits(q, p, c, f, a, s)
  PROVE  IInv'
<1>1. Typed'
  BY DEF IInv, Typed, Moved, Fits
<1>2. /\ pc'[q] = p /\ child'[q] = c /\ files'[q] = f /\ answer'[q] = a
      /\ certificate'[q] = s /\ Reason(q)' = Reason(q)
  BY DEF IInv, Typed, Moved, Reason
<1>3. \A r \in Requests \ {q} :
        /\ pc'[r] = pc[r] /\ child'[r] = child[r] /\ files'[r] = files[r]
        /\ answer'[r] = answer[r] /\ certificate'[r] = certificate[r] /\ flaws'[r] = flaws[r]
  BY DEF IInv, Typed, Moved
<1>4. Held(q)'
  BY <1>2 DEF Held, Fits
<1>5. Found(q)'
  BY <1>2 DEF Found, Fits
<1>6. Admitted(q)'
  BY <1>2 DEF Admitted, Fits
<1> QED
  BY <1>1, <1>3, <1>4, <1>5, <1>6, OneRequest

LEMMA Facts ==
  ASSUME IInv, NEW q \in Requests
  PROVE  /\ pc[q] \in Pcs /\ child[q] \in Children /\ files[q] \in BOOLEAN /\ answer[q] \in AllAnswers
         /\ certificate[q] \in Certificates \cup {Absent}
         /\ Held(q) /\ Found(q) /\ Admitted(q)
         /\ pc = [pc EXCEPT ![q] = pc[q]] /\ child = [child EXCEPT ![q] = child[q]]
         /\ files = [files EXCEPT ![q] = files[q]] /\ answer = [answer EXCEPT ![q] = answer[q]]
         /\ certificate = [certificate EXCEPT ![q] = certificate[q]]
BY DEF IInv, Typed

(* The names the steps use are in their sets. *)
LEMMA Names ==
  /\ {"prepare", "spawn", "poll", "kill", "wait", "database", "done"} \subseteq Pcs \ {"absent", "ready"}
  /\ {"none", "running", "good", "bad", "killed", "reaped", "abandoned"} \subseteq Children
  /\ {"SIGSTORE_VERIFICATION_FAILED", "SIGSTORE_VERIFIER_UNAVAILABLE", "SIGSTORE_VERIFICATION_TIMEOUT",
      "INVALID_SIGSTORE_IDENTITY", "none", "ACCEPTED", "ACCEPTED_WITH_IDENTITY", "REQUEST_TIMEOUT"}
       \subseteq AllAnswers
  /\ Refusals \subseteq AllAnswers /\ IdentityReasons \subseteq AllAnswers
BY DEF Pcs, Children, AllAnswers, Errors, IdentityReasons

LEMMA ArriveKeeps == ASSUME IInv, NEW q \in Requests, Arrive(q) PROVE IInv'
<1>1. PICK w \in MayHave[q] : flaws' = [flaws EXCEPT ![q] = w]
  BY DEF Arrive
<1>2. w \in SUBSET Flaws
  BY RequestsAssumption
<1>3. /\ pc[q] = "absent" /\ pc' = [pc EXCEPT ![q] = "ready"]
      /\ UNCHANGED <<certificate, child, files, answer>>
  BY DEF Arrive, Goto
<1>4. Typed'
  BY <1>1, <1>2, <1>3 DEF IInv, Typed, Pcs
<1>5. child[q] = "none" /\ ~files[q] /\ answer[q] = "none" /\ certificate[q] = Absent
  BY <1>3, Facts DEF Held, Admitted
<1>6. pc'[q] = "ready"
  BY <1>3 DEF IInv, Typed
<1>7. Held(q)' /\ Found(q)' /\ Admitted(q)'
  BY <1>3, <1>5, <1>6 DEF Held, Found, Admitted
<1>8. \A r \in Requests \ {q} : pc'[r] = pc[r] /\ flaws'[r] = flaws[r]
  BY <1>1, <1>3 DEF IInv, Typed
<1> QED
  BY <1>3, <1>4, <1>7, <1>8, OneRequest

LEMMA TakeUpKeeps == ASSUME IInv, NEW q \in Requests, TakeUp(q) PROVE IInv'
<1>0. /\ pc[q] = "ready" /\ child[q] = "none" /\ files[q] = FALSE
      /\ answer[q] = "none" /\ certificate[q] = Absent
  BY Facts DEF TakeUp, Held, Admitted
<1>1. CASE Reason(q) # None
  <2>1. Moved(q, "done", "none", FALSE, Reason(q), Absent)
    BY <1>0, <1>1, Facts DEF TakeUp, Answer, Goto, Moved, Reason, inputs
  <2>2. Reason(q) \in Refusals
    BY <1>1, AdmissionTyped DEF Reason, Reasons, Refusals
  <2>3. Reason(q) # "ACCEPTED_WITH_IDENTITY" /\ Reason(q) # "INVALID_SIGSTORE_IDENTITY"
    BY <2>2 DEF Refusals
  <2>9. Fits(q, "done", "none", FALSE, Reason(q), Absent)
    BY <2>1, <2>2, <2>3, Names DEF Fits
  <2> QED
    BY <2>1, <2>2, <2>3, <2>9, MovedKeeps
<1>2. CASE Reason(q) = None /\ q \in WithProof
  <2>1. Moved(q, "prepare", "none", FALSE, "none", Absent)
    BY <1>0, <1>2, Facts DEF TakeUp, Goto, Moved, Reason, inputs
  <2>9. Fits(q, "prepare", "none", FALSE, "none", Absent)
    BY <1>2, <2>1, Names DEF Fits
  <2> QED
    BY <1>2, <2>1, <2>9, MovedKeeps
<1>3. CASE Reason(q) = None /\ q \notin WithProof
  <2>1. Moved(q, "database", "none", FALSE, "none", Absent)
    BY <1>0, <1>3, Facts DEF TakeUp, Goto, Moved, Reason, inputs
  <2>9. Fits(q, "database", "none", FALSE, "none", Absent)
    BY <1>3, <2>1, Names DEF Fits
  <2> QED
    BY <1>3, <2>1, <2>9, MovedKeeps
<1> QED
  BY <1>1, <1>2, <1>3

LEMMA ReapKeeps == ASSUME IInv, NEW q \in Requests, Reap(q) PROVE IInv'
<1>0. /\ pc[q] = "poll" /\ child[q] \in {"good", "bad"} /\ Reason(q) = None
      /\ certificate[q] \in Certificates \cup {Absent} /\ answer[q] \in AllAnswers
      /\ answer[q] # "ACCEPTED_WITH_IDENTITY"
  BY Facts DEF Reap, Admitted, Found
<1>1. CASE child[q] = "good"
  <2>1. q \in Genuine
    BY <1>1, Facts DEF Found
  <2>2. PICK c \in Certificates :
          /\ certificate' = [certificate EXCEPT ![q] = c]
          /\ IF IdentityReason(c) = None THEN Verified(q) ELSE Reject(q, IdentityReason(c))
    BY <1>1 DEF Reap
  <2>3. c # Absent
    BY CertificatesAssumption
  <2>4. child' = [child EXCEPT ![q] = "reaped"] /\ flaws' = flaws
    BY DEF Reap
  <2>5. CASE IdentityReason(c) # None
    <3>1. Moved(q, "done", "reaped", FALSE, IdentityReason(c), c)
      BY <2>2, <2>4, <2>5 DEF Reject, Answer, Goto, Moved
    <3>2. IdentityReason(c) \in IdentityReasons
      BY <2>5, IdentityTyped
    <3>3. IdentityReason(c) # "ACCEPTED_WITH_IDENTITY"
      BY <3>2 DEF IdentityReasons
    <3>4. IdentityReason(c) \in AllAnswers
      BY <3>2, Names
    <3>9. Fits(q, "done", "reaped", FALSE, IdentityReason(c), c)
      BY <1>0, <2>3, <3>1, <3>3, <3>4, Names DEF Fits
    <3> QED
      BY <1>0, <2>3, <3>1, <3>3, <3>4, <3>9, MovedKeeps
  <2>6. CASE IdentityReason(c) = None
    <3>1. \/ Moved(q, "database", "reaped", FALSE, answer[q], c)
          \/ Moved(q, "done", "reaped", FALSE, "REQUEST_TIMEOUT", c)
      BY <2>2, <2>4, <2>6, Facts DEF Verified, Goto, Answer, Moved
    <3>2. CASE Moved(q, "database", "reaped", FALSE, answer[q], c)
      <4>1. Fits(q, "database", "reaped", FALSE, answer[q], c)
        BY <1>0, <2>1, <2>3, <2>6, <3>2, Names DEF Fits
      <4> QED
        BY <3>2, <4>1, MovedKeeps
    <3>3. CASE Moved(q, "done", "reaped", FALSE, "REQUEST_TIMEOUT", c)
      <4>1. Fits(q, "done", "reaped", FALSE, "REQUEST_TIMEOUT", c)
        BY <1>0, <3>3, Names DEF Fits
      <4> QED
        BY <3>3, <4>1, MovedKeeps
    <3> QED
      BY <3>1, <3>2, <3>3
  <2> QED
    BY <2>5, <2>6
<1>2. CASE child[q] = "bad"
  <2>1. Moved(q, "done", "reaped", FALSE, "INVALID_SIGSTORE_IDENTITY", certificate[q])
    BY <1>2, Facts DEF Reap, Reject, Answer, Goto, Moved
  <2>2. q \notin Genuine
    BY <1>2, Facts DEF Found
  <2>9. Fits(q, "done", "reaped", FALSE, "INVALID_SIGSTORE_IDENTITY", certificate[q])
    BY <1>0, <2>1, <2>2, Names DEF Fits
  <2> QED
    BY <1>0, <2>1, <2>2, <2>9, MovedKeeps
<1> QED
  BY <1>0, <1>1, <1>2

LEMMA ChildExitsKeeps == ASSUME IInv, NEW q \in Requests, ChildExits(q) PROVE IInv'
<1>1. child[q] = "running" /\ pc[q] \in {"poll", "kill", "wait"} /\ files[q] = TRUE
  BY Facts DEF ChildExits, Held, Pcs
<1>2. /\ answer[q] # "ACCEPTED_WITH_IDENTITY" /\ Reason(q) = None
      /\ answer[q] = "INVALID_SIGSTORE_IDENTITY" => q \notin Genuine \/ certificate[q] # Absent
      /\ answer[q] \in AllAnswers /\ certificate[q] \in Certificates \cup {Absent}
  BY <1>1, Facts DEF Found, Admitted
<1>3. ASSUME NEW p \in {"poll", "kill", "wait"}, p = pc[q] PROVE IInv'
  <2>1. CASE q \in Genuine
    <3>1. Moved(q, p, "good", TRUE, answer[q], certificate[q])
      BY <1>1, <1>3, <2>1, Facts DEF ChildExits, Moved, inputs
    <3>9. Fits(q, p, "good", TRUE, answer[q], certificate[q])
      BY <1>2, <2>1, <3>1, Names DEF Fits
    <3> QED
      BY <1>2, <2>1, <3>1, <3>9, MovedKeeps
  <2>2. CASE q \notin Genuine
    <3>1. Moved(q, p, "bad", TRUE, answer[q], certificate[q])
      BY <1>1, <1>3, <2>2, Facts DEF ChildExits, Moved, inputs
    <3>9. Fits(q, p, "bad", TRUE, answer[q], certificate[q])
      BY <1>2, <2>2, <3>1, Names DEF Fits
    <3> QED
      BY <1>2, <2>2, <3>1, <3>9, MovedKeeps
  <2> QED
    BY <2>1, <2>2
<1> QED
  BY <1>1, <1>3

LEMMA HandlerSteps ==
  ASSUME IInv, NEW q \in Requests,
         Arrive(q) \/ Handle(q) \/ Persisted(q) \/ TryWaitFails(q) \/ ChildExits(q)
  PROVE  IInv'
<1>1. CASE Prepare(q)
  <2>1. pc[q] = "prepare" /\ child[q] = "none"
    BY <1>1, Facts DEF Prepare, Held
  <2>2. \/ Moved(q, "spawn", "none", TRUE, answer[q], certificate[q])
        \/ Moved(q, "done", "none", FALSE, "SIGSTORE_VERIFICATION_FAILED", certificate[q])
    BY <1>1, <2>1, Facts DEF Prepare, Goto, Reject, Answer, Moved, inputs
  <2>9. /\ Fits(q, "spawn", "none", TRUE, answer[q], certificate[q])
        /\ Fits(q, "done", "none", FALSE, "SIGSTORE_VERIFICATION_FAILED", certificate[q])
    BY <2>1, <2>2, Facts, Names DEF Fits, Found, Admitted
  <2> QED
    BY <2>1, <2>2, <2>9, MovedKeeps
<1>2. CASE Spawn(q)
  <2>1. pc[q] = "spawn" /\ child[q] = "none" /\ files[q] = TRUE
    BY <1>2, Facts DEF Spawn, Held
  <2>2. \/ Moved(q, "poll", "running", TRUE, answer[q], certificate[q])
        \/ Moved(q, "done", "none", FALSE, "SIGSTORE_VERIFIER_UNAVAILABLE", certificate[q])
    BY <1>2, <2>1, Facts DEF Spawn, Goto, Reject, Answer, Moved, inputs
  <2>9. /\ Fits(q, "poll", "running", TRUE, answer[q], certificate[q])
        /\ Fits(q, "done", "none", FALSE, "SIGSTORE_VERIFIER_UNAVAILABLE", certificate[q])
    BY <2>1, <2>2, Facts, Names DEF Fits, Found, Admitted
  <2> QED
    BY <2>1, <2>2, <2>9, MovedKeeps
<1>3. CASE Late(q)
  <2>1. pc[q] = "poll" /\ child[q] \in {"running", "good", "bad"} /\ files[q] = TRUE
    BY <1>3, Facts DEF Late, Held
  <2>2. Moved(q, "kill", child[q], TRUE, answer[q], certificate[q])
    BY <1>3, <2>1, Facts DEF Late, Goto, Moved, inputs
  <2>9. Fits(q, "kill", child[q], TRUE, answer[q], certificate[q])
    BY <2>1, <2>2, Facts, Names DEF Fits, Found, Admitted
  <2> QED
    BY <2>1, <2>2, <2>9, MovedKeeps
<1>4. CASE Kill(q)
  <2>1. pc[q] = "kill" /\ child[q] \in {"running", "good", "bad"} /\ files[q] = TRUE
    BY <1>4, Facts DEF Kill, Held
  <2>2. PICK c \in {"good", "bad", "killed"} :
          /\ c = IF child[q] = "running" THEN "killed" ELSE child[q]
          /\ Moved(q, "wait", c, TRUE, answer[q], certificate[q])
    BY <1>4, <2>1, Facts DEF Kill, Goto, Moved, inputs
  <2>9. Fits(q, "wait", c, TRUE, answer[q], certificate[q])
    BY <2>1, <2>2, Facts, Names DEF Fits, Found, Admitted
  <2> QED
    BY <2>1, <2>2, <2>9, MovedKeeps
<1>5. CASE Wait(q)
  <2>1. pc[q] = "wait" /\ Moved(q, "done", "reaped", FALSE, "SIGSTORE_VERIFICATION_TIMEOUT", certificate[q])
    BY <1>5, Facts DEF Wait, Reject, Answer, Goto, Moved, inputs
  <2>9. Fits(q, "done", "reaped", FALSE, "SIGSTORE_VERIFICATION_TIMEOUT", certificate[q])
    BY <2>1, Facts, Names DEF Fits, Found, Admitted
  <2> QED
    BY <2>1, <2>9, MovedKeeps
<1>6. CASE TimesOut(q)
  <2>1. pc[q] = "database" /\ child[q] \in {"none", "reaped", "abandoned"} /\ files[q] = FALSE
    BY <1>6, Facts DEF TimesOut, Held
  <2>2. Moved(q, "done", child[q], FALSE, "REQUEST_TIMEOUT", certificate[q])
    BY <1>6, <2>1, Facts DEF TimesOut, Answer, Goto, Moved, inputs
  <2>9. Fits(q, "done", child[q], FALSE, "REQUEST_TIMEOUT", certificate[q])
    BY <2>1, <2>2, Facts, Names DEF Fits, Found, Admitted
  <2> QED
    BY <2>1, <2>2, <2>9, MovedKeeps
<1>7. CASE Persisted(q)
  <2>1. pc[q] = "database" /\ child[q] \in {"none", "reaped", "abandoned"} /\ files[q] = FALSE
    BY <1>7, Facts DEF Persisted, Held
  <2>2. CASE q \in WithProof
    <3>1. Moved(q, "done", child[q], FALSE, "ACCEPTED_WITH_IDENTITY", certificate[q])
      BY <1>7, <2>1, <2>2, Facts DEF Persisted, Answer, Goto, Moved, inputs
    <3>9. Fits(q, "done", child[q], FALSE, "ACCEPTED_WITH_IDENTITY", certificate[q])
      BY <2>1, <2>2, <3>1, Facts, Names DEF Fits, Found, Admitted
    <3> QED
      BY <2>1, <2>2, <3>1, <3>9, MovedKeeps
  <2>3. CASE q \notin WithProof
    <3>1. Moved(q, "done", child[q], FALSE, "ACCEPTED", certificate[q])
      BY <1>7, <2>1, <2>3, Facts DEF Persisted, Answer, Goto, Moved, inputs
    <3>9. Fits(q, "done", child[q], FALSE, "ACCEPTED", certificate[q])
      BY <2>1, <3>1, Facts, Names DEF Fits, Found, Admitted
    <3> QED
      BY <2>1, <3>1, <3>9, MovedKeeps
  <2> QED
    BY <2>2, <2>3
<1>8. CASE TryWaitFails(q)
  <2>1. pc[q] = "poll" /\ Moved(q, "done", "abandoned", FALSE, "SIGSTORE_VERIFICATION_FAILED", certificate[q])
    BY <1>8, Facts DEF TryWaitFails, Reject, Answer, Goto, Moved, inputs
  <2>9. Fits(q, "done", "abandoned", FALSE, "SIGSTORE_VERIFICATION_FAILED", certificate[q])
    BY <2>1, Facts, Names DEF Fits, Found, Admitted
  <2> QED
    BY <2>1, <2>9, MovedKeeps
<1> QED
  BY <1>1, <1>2, <1>3, <1>4, <1>5, <1>6, <1>7, <1>8, ArriveKeeps, TakeUpKeeps, ReapKeeps, ChildExitsKeeps
     DEF Handle

LEMMA NextIInv == IInv /\ [Next]_vars => IInv'
<1> SUFFICES ASSUME IInv, [Next]_vars PROVE IInv'
  OBVIOUS
<1>1. CASE \E r \in Requests : Arrive(r) \/ Handle(r) \/ Persisted(r) \/ TryWaitFails(r) \/ ChildExits(r)
  BY <1>1, HandlerSteps
<1>2. CASE Tick \/ UNCHANGED vars
  <2>1. UNCHANGED <<flaws, certificate, pc, child, files, answer>>
    BY <1>2 DEF Tick, vars, inputs
  <2> QED
    BY <2>1 DEF IInv, Typed, Held, Found, Admitted, Reason
<1> QED
  BY <1>1, <1>2 DEF Next

LEMMA Inductive == Spec => []IInv
BY InitIInv, NextIInv, PTL DEF Spec

(* An identity is accepted only after Cosign exited with success, and a genuine
   bundle is called invalid only for its claims, whatever exits, fails or is
   late when. *)
THEOREM IdentityProved == Spec => []IdentityIsCosigns
<1>1. ASSUME IInv PROVE IdentityIsCosigns
  <2>1. SUFFICES ASSUME NEW r \in WithProof
        PROVE  /\ pc[r] = "database" \/ answer[r] = "ACCEPTED_WITH_IDENTITY" =>
                    r \in Genuine /\ child[r] = "reaped"
               /\ answer[r] = "INVALID_SIGSTORE_IDENTITY" => r \notin Genuine \/ certificate[r] # Absent
    BY DEF IdentityIsCosigns
  <2>2. r \in Requests
    BY <2>1, RequestsAssumption
  <2> QED
    BY <1>1, <2>1, <2>2 DEF IInv, Found
<1> QED
  BY <1>1, Inductive, PTL

(* Whatever the certificate, an accepted identity is the workflow it is named
   for, the issuer is GitHub's and the policy of the deployment is met.  The
   repository and the ref the workflow's URI is held against are those of the
   generic extensions or, where there is none, of the legacy ones: the URI names
   that repository and ends in that ref.  Nothing is said of a legacy claim
   beside a generic one, which the code does not read. *)
THEOREM CoherenceProved == Spec => []IdentityIsCoherent
<1>1. ASSUME IInv PROVE IdentityIsCoherent
  <2>1. SUFFICES ASSUME NEW r \in WithProof, pc[r] = "database" \/ answer[r] = "ACCEPTED_WITH_IDENTITY"
        PROVE  LET c == certificate[r]
                   workflow == CertificateIdentity(c) IN
               /\ c.issuer = Issuer
               /\ c.workflow = workflow
               /\ c.repository.generic \in {Absent, workflow.repository}
               /\ c.repository.generic = Absent => c.repository.legacy = workflow.repository
               /\ c.ref.generic \in Suffixes(workflow.at) \cup {Absent}
               /\ c.ref.generic = Absent => c.ref.legacy \in Suffixes(workflow.at)
               /\ ExpectedRepository \in {Absent, workflow.repository}
               /\ ExpectedWorkflow \in {Absent, workflow}
    BY DEF IdentityIsCoherent
  <2> DEFINE c == certificate[r]
  <2>2. IdentityReason(c) = None
    BY <1>1, <2>1, RequestsAssumption DEF IInv, Found
  <2>3. /\ c.issuer = Issuer /\ Coherent(c)
        /\ ExpectedRepository \in {Absent, Extension(c.repository)}
        /\ ExpectedWorkflow \in {Absent, c.workflow}
    BY <2>2, ClaimsHold
  <2>4. /\ c.workflow = CertificateIdentity(c)
        /\ c.workflow.repository = Extension(c.repository)
        /\ Extension(c.ref) \in Suffixes(c.workflow.at)
    BY <2>3 DEF Coherent
  <2> HIDE DEF c
  <2>5. /\ CertificateIdentity(c).repository = Extension(c.repository)
        /\ Extension(c.ref) \in Suffixes(CertificateIdentity(c).at)
    BY <2>4
  <2>6. ASSUME NEW pair
        PROVE  Extension(pair) = IF pair.generic # Absent THEN pair.generic ELSE pair.legacy
    BY DEF Extension
  <2> QED
    BY <2>3, <2>4, <2>5, <2>6 DEF c
<1> QED
  BY <1>1, Inductive, PTL

(* A submission with a flaw starts no process, leaves no file and gets the
   answer of admission, whatever its proof. *)
THEOREM RefusalProved == Spec => []FlawedIsRefused
<1>1. ASSUME IInv PROVE FlawedIsRefused
  <2> SUFFICES ASSUME NEW r \in Requests, Reason(r) # None
        PROVE  /\ child[r] = "none" /\ ~files[r] /\ certificate[r] = Absent
               /\ answer[r] \in Refusals \cup {"none"}
    BY DEF FlawedIsRefused, Reason
  <2>1. pc[r] \in {"absent", "ready", "done"}
    BY <1>1 DEF IInv, Admitted
  <2> QED
    BY <1>1, <2>1 DEF IInv, Held, Admitted
<1> QED
  BY <1>1, Inductive, PTL

(* No handler leaves a process or a directory behind, except a child it could
   not wait for, and no process outlives its directory. *)
THEOREM CleanedUp == Spec => []NothingLeftBehind
<1>1. ASSUME IInv PROVE NothingLeftBehind
  BY <1>1 DEF IInv, Typed, Held, Pcs, NothingLeftBehind, Verifying
<1> QED
  BY <1>1, Inductive, PTL

-----------------------------------------------------------------------------
(* Time *)

(* Handle can only be taken when it is due. *)
LEMMA OnlyWhenDue == ASSUME NEW r \in Requests, Handle(r) PROVE Due(r)
BY DEF Handle, TakeUp, Prepare, Spawn, Reap, Late, Kill, Wait, TimesOut, Due

Clocks ==
  /\ spent \in [Requests -> 0 .. CosignTimeout]
  /\ age \in [Requests -> 0 .. Longest]
  /\ faults \in 0 .. MaxFaults

Busy == {r \in Requests : Verifying(r)}

(* Only a request with a proof starts a child, once, and it has a thread. *)
OnThreads ==
  /\ Cardinality(Busy) <= Threads
  /\ \A r \in Requests :
       /\ Verifying(r) => r \in WithProof
       /\ child[r] = "none" => spent[r] = 0

(* Every thread was taken for t ticks.  In each CosignTimeout of these ticks
   other requests hold the threads than in the ones before: b times Threads of
   them were started, the last of them e ticks ago. *)
Waited(t, c, s) ==
  \E U \in SUBSET WithProof, b \in Nat, e \in 0 .. CosignTimeout :
    /\ Threads * b <= Cardinality(U)
    /\ t + CosignTimeout <= CosignTimeout * b + e
    /\ \A q \in U : c[q] # "none" /\ (c[q] = "running" => s[q] >= e)

Blocked == CosignTimeout * (Cardinality(WithProof) \div Threads)

Aged(r) ==
  /\ pc[r] = "absent" => age[r] = 0
  /\ pc[r] = "ready" => Waited(age[r], child, spent)
  /\ Verifying(r) => age[r] <= Blocked + spent[r]
  /\ pc[r] = "database" => age[r] <= HttpTimeout \/ Waited(age[r] - HttpTimeout, child, spent)

TimeInv == Clocks /\ OnThreads /\ \A r \in Requests : Aged(r)

LEMMA ConstantTypes ==
  /\ Threads \in Nat /\ Threads > 0 /\ CosignTimeout \in Nat /\ CosignTimeout > 0
  /\ HttpTimeout \in Nat /\ MaxFaults \in Nat /\ CosignTimeout <= HttpTimeout
  /\ IsFiniteSet(Requests) /\ IsFiniteSet(WithProof) /\ Cardinality(WithProof) \in Nat
  /\ WithProof \subseteq Requests
<1>1. WithProof \subseteq Requests /\ IsFiniteSet(Requests)
  BY RequestsAssumption
<1>2. IsFiniteSet(WithProof) /\ Cardinality(WithProof) \in Nat
  BY <1>1, FS_Subset, FS_CardinalityType
<1> QED
  BY <1>1, <1>2, BoundsAssumption

LEMMA Times ==
  ASSUME NEW m \in Nat, NEW n \in Nat
  PROVE  /\ m * n \in Nat
         /\ m * (n + 1) = m * n + m
         /\ \A l \in Nat : l <= n => m * l <= m * n
<1>1. m * n \in Nat /\ m * (n + 1) = m * n + m
  OBVIOUS
<1>2. ASSUME NEW l \in Nat, l <= n PROVE m * l <= m * n
  <2>1. PICK d \in Nat : n = l + d
    <3>1. n - l \in Nat /\ n = l + (n - l)
      BY <1>2
    <3> QED
      BY <3>1
  <2>2. m * n = m * l + m * d /\ m * d \in Nat /\ m * l \in Nat
    BY <2>1
  <2> QED
    BY <2>2
<1> QED
  BY <1>1, <1>2

LEMMA DivBound ==
  ASSUME NEW k \in Nat, k > 0, NEW b \in Nat, NEW n \in Nat, k * b <= n
  PROVE  n \div k \in Nat /\ b <= n \div k
<1> DEFINE d == n \div k
<1>1. d \in Nat /\ n < k * (d + 1)
  BY SMTT(30)
<1> HIDE DEF d
<1>2. ~(d + 1 <= b)
  <2>1. ASSUME d + 1 <= b PROVE FALSE
    <3>1. k * (d + 1) <= k * b
      BY <1>1, <2>1, Times
    <3>2. k * (d + 1) \in Nat /\ k * b \in Nat
      BY <1>1, Times
    <3> QED
      BY <1>1, <3>1, <3>2
  <2> QED
    BY <2>1
<1>3. d \in Nat /\ b <= d
  BY <1>1, <1>2
<1> QED
  BY <1>3 DEF d

LEMMA LongestType == Blocked \in Nat /\ Longest = HttpTimeout + Blocked /\ Longest \in Nat
<1>1. Cardinality(WithProof) \div Threads \in Nat
  <2>1. Threads * 0 <= Cardinality(WithProof)
    BY ConstantTypes
  <2> QED
    BY <2>1, ConstantTypes, DivBound
<1>2. Blocked \in Nat
  BY <1>1, ConstantTypes, Times DEF Blocked
<1> QED
  BY <1>2, ConstantTypes DEF Longest, Blocked

(* All threads cannot be taken for longer. *)
LEMMA WaitedBound ==
  ASSUME NEW t \in Nat, NEW c, NEW s, Waited(t, c, s)
  PROVE  t <= Blocked
<1>1. PICK U \in SUBSET WithProof, b \in Nat, e \in 0 .. CosignTimeout :
        /\ Threads * b <= Cardinality(U)
        /\ t + CosignTimeout <= CosignTimeout * b + e
  BY DEF Waited
<1> DEFINE d == Cardinality(WithProof) \div Threads
<1>2. Cardinality(U) \in Nat /\ Cardinality(U) <= Cardinality(WithProof)
  BY ConstantTypes, FS_Subset, FS_CardinalityType
<1>3. Threads * b <= Cardinality(WithProof)
  <2>1. Threads * b \in Nat
    BY ConstantTypes, Times
  <2> QED
    BY <1>1, <1>2, <2>1, ConstantTypes
<1>4. d \in Nat /\ b <= d
  BY <1>3, ConstantTypes, DivBound
<1> HIDE DEF d
<1>5. CosignTimeout * b <= CosignTimeout * d /\ CosignTimeout * b \in Nat /\ CosignTimeout * d \in Nat
  BY <1>4, ConstantTypes, Times
<1>6. t <= CosignTimeout * d
  BY <1>1, <1>5, ConstantTypes
<1> QED
  BY <1>6 DEF d, Blocked

LEMMA WaitedLess ==
  ASSUME NEW t \in Nat, NEW u \in Nat, u <= t, Waited(t, child, spent)
  PROVE  Waited(u, child, spent)
<1>1. PICK U \in SUBSET WithProof, b \in Nat, e \in 0 .. CosignTimeout :
        /\ Threads * b <= Cardinality(U)
        /\ t + CosignTimeout <= CosignTimeout * b + e
        /\ \A q \in U : child[q] # "none" /\ (child[q] = "running" => spent[q] >= e)
  BY DEF Waited
<1>2. CosignTimeout * b \in Nat
  BY ConstantTypes, Times
<1>3. u + CosignTimeout <= CosignTimeout * b + e
  BY <1>1, <1>2, ConstantTypes
<1> QED
  BY <1>1, <1>3 DEF Waited

LEMMA WaitedZero == Waited(0, child, spent)
<1>1. {} \in SUBSET WithProof /\ Threads * 0 <= Cardinality({}) /\ 0 \in Nat
  BY FS_EmptySet, ConstantTypes
<1>2. CosignTimeout \in 0 .. CosignTimeout /\ 0 + CosignTimeout <= CosignTimeout * 0 + CosignTimeout
  BY ConstantTypes
<1> QED
  BY <1>1, <1>2 DEF Waited

(* Between ticks a child may start or end: what was waited for stays. *)
LEMMA WaitedKept ==
  ASSUME NEW t, Waited(t, child, spent), spent' = spent,
         \A q \in Requests : /\ child[q] # "none" => child'[q] # "none"
                             /\ child[q] # "none" /\ child'[q] = "running" => child[q] = "running"
  PROVE  Waited(t, child', spent')
<1>1. PICK U \in SUBSET WithProof, b \in Nat, e \in 0 .. CosignTimeout :
        /\ Threads * b <= Cardinality(U)
        /\ t + CosignTimeout <= CosignTimeout * b + e
        /\ \A q \in U : child[q] # "none" /\ (child[q] = "running" => spent[q] >= e)
  BY DEF Waited
<1>2. \A q \in U : child'[q] # "none" /\ (child'[q] = "running" => spent'[q] >= e)
  BY <1>1, ConstantTypes
<1> QED
  BY <1>1, <1>2 DEF Waited

LEMMA InitTime == Init => TimeInv
<1> SUFFICES ASSUME Init PROVE TimeInv
  OBVIOUS
<1>1. Clocks
  BY ConstantTypes, LongestType DEF Init, Clocks
<1>2. OnThreads
  <2>1. Busy = {}
    BY DEF Busy, Verifying, Init
  <2> QED
    BY <2>1, FS_EmptySet, ConstantTypes DEF OnThreads, Init, Verifying
<1>3. \A r \in Requests : Aged(r)
  BY DEF Init, Aged, Verifying
<1> QED
  BY <1>1, <1>2, <1>3 DEF TimeInv

LEMMA BusyIsFinite == IsFiniteSet(Busy) /\ Cardinality(Busy) \in Nat
<1>1. Busy \in SUBSET Requests
  BY DEF Busy
<1> QED
  BY <1>1, ConstantTypes, FS_Subset, FS_CardinalityType

InVerify == {"prepare", "spawn", "poll", "kill", "wait"}

(* What every step but a tick does to time: it takes one request to p, and
   takes a thread for a verification only when one is free. *)
Step(q, p) ==
  /\ pc' = [pc EXCEPT ![q] = p]
  /\ UNCHANGED <<spent, age>>
  /\ faults' \in 0 .. MaxFaults
  /\ \A r \in Requests \ {q} : child'[r] = child[r]
  /\ child[q] # "none" => child'[q] # "none" /\ (child'[q] = "running" => child[q] = "running")
  /\ p \in InVerify => pc[q] \in InVerify \/ (pc[q] = "ready" /\ ThreadFree /\ q \in WithProof)
  /\ p = "ready" => pc[q] = "absent"
  /\ p = "database" => pc[q] = "ready" \/ age[q] < HttpTimeout
  /\ p # "absent"

LEMMA StepKeepsThreads == ASSUME IInv, TimeInv, NEW q \in Requests, NEW p, Step(q, p) PROVE OnThreads'
<1> USE DEF InVerify
<1>1. pc \in [Requests -> Pcs]
  BY DEF IInv, Typed
<1>2. pc'[q] = p /\ \A r \in Requests \ {q} : pc'[r] = pc[r]
  BY <1>1 DEF Step
<1>3. Cardinality(Busy') <= Threads
  <2>1. CASE p \in InVerify /\ pc[q] \notin InVerify
    <3>1. Busy' = Busy \cup {q}
      BY <1>2, <2>1 DEF Busy, Verifying
    <3>2. Cardinality(Busy) < Threads
      BY <2>1 DEF Step, ThreadFree, Busy
    <3>3. Cardinality(Busy') <= Cardinality(Busy) + 1 /\ Cardinality(Busy') \in Nat
      BY <3>1, BusyIsFinite, FS_AddElement
    <3> QED
      BY <3>2, <3>3, BusyIsFinite, ConstantTypes
  <2>2. CASE ~(p \in InVerify /\ pc[q] \notin InVerify)
    <3>1. Busy' \in SUBSET Busy
      BY <1>2, <2>2 DEF Busy, Verifying
    <3>2. Cardinality(Busy') <= Cardinality(Busy) /\ Cardinality(Busy') \in Nat
      BY <3>1, BusyIsFinite, FS_Subset, FS_CardinalityType
    <3> QED
      BY <3>2, BusyIsFinite, ConstantTypes DEF TimeInv, OnThreads
  <2> QED
    BY <2>1, <2>2
<1>4. ASSUME NEW r \in Requests PROVE Verifying(r)' => r \in WithProof
  BY <1>2 DEF TimeInv, OnThreads, Verifying, Step
<1>5. ASSUME NEW r \in Requests, child'[r] = "none" PROVE spent'[r] = 0
  <2>1. child[r] = "none" /\ spent' = spent
    BY <1>5 DEF Step
  <2> QED
    BY <2>1 DEF TimeInv, OnThreads
<1> QED
  BY <1>3, <1>4, <1>5 DEF OnThreads

LEMMA AgeTypes ==
  ASSUME TimeInv, NEW r \in Requests
  PROVE  /\ age[r] \in Nat /\ age[r] <= Longest /\ spent[r] \in Nat /\ spent[r] <= CosignTimeout
         /\ HttpTimeout <= age[r] => age[r] - HttpTimeout \in Nat
BY ConstantTypes, LongestType DEF TimeInv, Clocks

(* What was waited before a request reached the database counts as waited there. *)
LEMMA WaitedBefore ==
  ASSUME TimeInv, NEW r \in Requests, Waited(age[r], child, spent)
  PROVE  age[r] <= HttpTimeout \/ Waited(age[r] - HttpTimeout, child, spent)
<1> SUFFICES ASSUME ~(age[r] <= HttpTimeout) PROVE Waited(age[r] - HttpTimeout, child, spent)
  OBVIOUS
<1>1. age[r] - HttpTimeout \in Nat /\ age[r] - HttpTimeout <= age[r]
  BY AgeTypes, ConstantTypes
<1> QED
  BY <1>1, AgeTypes, WaitedLess

LEMMA StepKeepsTime == ASSUME IInv, TimeInv, NEW q \in Requests, NEW p, Step(q, p) PROVE TimeInv'
<1>1. pc'[q] = p /\ \A r \in Requests \ {q} : pc'[r] = pc[r]
  BY DEF IInv, Typed, Step
<1>2. spent' = spent /\ age' = age
  BY DEF Step
<1>3. Clocks'
  <2>1. Longest' = Longest
    BY DEF Longest
  <2> QED
    BY <1>2, <2>1 DEF TimeInv, Clocks, Step
<1>4. ASSUME NEW t, Waited(t, child, spent) PROVE Waited(t, child', spent')
  BY <1>2, <1>4, WaitedKept DEF Step
<1>5. ASSUME NEW r \in Requests PROVE Aged(r)'
  <2>0. Aged(r) /\ Blocked' = Blocked
    BY DEF TimeInv, Blocked
  <2>1. CASE r # q
    <3>1. pc'[r] = pc[r]
      BY <1>1, <2>1
    <3>2. pc[r] = "ready" => Waited(age'[r], child', spent')
      BY <1>2, <1>4, <2>0 DEF Aged
    <3>3. pc[r] = "database" => age'[r] <= HttpTimeout \/ Waited(age'[r] - HttpTimeout, child', spent')
      BY <1>2, <1>4, <2>0 DEF Aged
    <3> QED
      BY <1>2, <2>0, <3>1, <3>2, <3>3 DEF Aged, Verifying
  <2>2. CASE r = q
    <3>1. p = "ready" => Waited(age'[r], child', spent')
      <4> SUFFICES ASSUME p = "ready" PROVE Waited(age'[r], child', spent')
        OBVIOUS
      <4>1. age[r] = 0
        BY <2>0, <2>2 DEF Aged, Step
      <4>2. Waited(age[r], child, spent)
        BY <4>1, WaitedZero
      <4> QED
        BY <1>2, <1>4, <4>2
    <3>2. p \in InVerify => age'[r] <= Blocked + spent'[r]
      <4> SUFFICES ASSUME p \in InVerify PROVE age[r] <= Blocked + spent[r]
        BY <1>2
      <4>1. CASE pc[r] \in InVerify
        BY <2>0, <4>1 DEF Aged, Verifying, InVerify
      <4>2. CASE pc[r] = "ready"
        <5>1. age[r] <= Blocked
          BY <2>0, <4>2, AgeTypes, WaitedBound DEF Aged
        <5> QED
          BY <5>1, AgeTypes, LongestType
      <4> QED
        BY <2>2, <4>1, <4>2 DEF Step
    <3>3. p = "database" => age'[r] <= HttpTimeout \/ Waited(age'[r] - HttpTimeout, child', spent')
      <4> SUFFICES ASSUME p = "database" PROVE age[r] <= HttpTimeout \/ Waited(age[r] - HttpTimeout, child', spent')
        BY <1>2
      <4>1. CASE pc[r] = "ready"
        <5>1. age[r] <= HttpTimeout \/ Waited(age[r] - HttpTimeout, child, spent)
          BY <2>0, <4>1, WaitedBefore DEF Aged
        <5> QED
          BY <1>4, <5>1
      <4>2. CASE age[r] < HttpTimeout
        BY <4>2, AgeTypes, ConstantTypes
      <4> QED
        BY <2>2, <4>1, <4>2 DEF Step
    <3> QED
      BY <1>1, <2>2, <3>1, <3>2, <3>3 DEF Aged, Verifying, InVerify, Step
  <2> QED
    BY <2>1, <2>2
<1> QED
  BY <1>3, <1>5, StepKeepsThreads DEF TimeInv

LEMMA HandlerKeepsTime ==
  ASSUME IInv, TimeInv, NEW q \in Requests,
         Arrive(q) \/ Handle(q) \/ Persisted(q) \/ TryWaitFails(q) \/ ChildExits(q)
  PROVE  TimeInv'
<1> USE DEF InVerify
<1>1. /\ pc \in [Requests -> Pcs] /\ child \in [Requests -> Children] /\ Held(q)
      /\ faults \in 0 .. MaxFaults /\ MaxFaults \in Nat
  BY ConstantTypes DEF IInv, Typed, TimeInv, Clocks
<1>2. Fault => faults' \in 0 .. MaxFaults
  BY <1>1 DEF Fault
<1>3. CASE Arrive(q)
  <2>1. Step(q, "ready")
    BY <1>1, <1>3 DEF Arrive, Goto, Step
  <2> QED
    BY <2>1, StepKeepsTime
<1>4. CASE TakeUp(q)
  <2>1. PICK p \in {"prepare", "database", "done"} : Step(q, p)
    BY <1>1, <1>4 DEF TakeUp, Goto, Answer, Step, inputs
  <2> QED
    BY <2>1, StepKeepsTime
<1>5. CASE Prepare(q)
  <2>1. PICK p \in {"spawn", "done"} : Step(q, p)
    BY <1>1, <1>2, <1>5 DEF Prepare, Goto, Reject, Answer, Step, inputs
  <2> QED
    BY <2>1, StepKeepsTime
<1>6. CASE Spawn(q)
  <2>1. PICK p \in {"poll", "done"} : Step(q, p)
    BY <1>1, <1>2, <1>6 DEF Spawn, Goto, Reject, Answer, Step, inputs, Held
  <2> QED
    BY <2>1, StepKeepsTime
<1>7. CASE Reap(q)
  <2>1. PICK p \in {"database", "done"} : Step(q, p)
    BY <1>1, <1>7 DEF Reap, Verified, Goto, Reject, Answer, Step
  <2> QED
    BY <2>1, StepKeepsTime
<1>8. CASE Late(q)
  <2>1. Step(q, "kill")
    BY <1>1, <1>8 DEF Late, Goto, Step, inputs
  <2> QED
    BY <2>1, StepKeepsTime
<1>9. CASE Kill(q)
  <2>1. Step(q, "wait")
    BY <1>1, <1>9 DEF Kill, Goto, Step, inputs
  <2> QED
    BY <2>1, StepKeepsTime
<1>10. CASE Wait(q)
  <2>1. Step(q, "done")
    BY <1>1, <1>10 DEF Wait, Reject, Answer, Goto, Step, inputs
  <2> QED
    BY <2>1, StepKeepsTime
<1>11. CASE TimesOut(q) \/ Persisted(q)
  <2>1. Step(q, "done")
    BY <1>1, <1>11 DEF TimesOut, Persisted, Answer, Goto, Step, inputs
  <2> QED
    BY <2>1, StepKeepsTime
<1>12. CASE TryWaitFails(q)
  <2>1. Step(q, "done")
    BY <1>1, <1>2, <1>12 DEF TryWaitFails, Reject, Answer, Goto, Step, inputs
  <2> QED
    BY <2>1, StepKeepsTime
<1>13. CASE ChildExits(q)
  <2>1. Step(q, pc[q])
    BY <1>1, <1>13 DEF ChildExits, Step, inputs, Held
  <2> QED
    BY <2>1, StepKeepsTime
<1> QED
  BY <1>3, <1>4, <1>5, <1>6, <1>7, <1>8, <1>9, <1>10, <1>11, <1>12, <1>13 DEF Handle

(* At a tick every verification polls a child that is not overdue. *)
LEMMA TickFinds ==
  ASSUME IInv, TimeInv, Tick
  PROVE  \A r \in Busy : /\ r \in WithProof /\ pc[r] = "poll"
                        /\ child[r] = "running" /\ spent[r] < CosignTimeout
<1> SUFFICES ASSUME NEW r \in Busy
             PROVE  /\ r \in WithProof /\ pc[r] = "poll"
                    /\ child[r] = "running" /\ spent[r] < CosignTimeout
  OBVIOUS
<1>1. r \in Requests /\ Verifying(r) /\ r \in WithProof /\ ~Due(r) /\ Held(r)
  BY DEF Busy, TimeInv, OnThreads, Tick, IInv
<1>2. pc[r] = "poll"
  BY <1>1 DEF Due, Verifying, Held
<1>3. child[r] = "running" /\ ~Overdue(r)
  BY <1>1, <1>2 DEF Due, Held
<1>4. spent[r] < CosignTimeout
  BY <1>1, <1>3, AgeTypes, ConstantTypes DEF Overdue
<1> QED
  BY <1>1, <1>2, <1>3, <1>4

LEMMA TickCounts ==
  ASSUME IInv, TimeInv, Tick
  PROVE  /\ UNCHANGED <<pc, child, faults>>
         /\ \A r \in Requests :
              /\ child[r] = "running" => r \in Busy /\ spent'[r] = spent[r] + 1
              /\ child[r] # "running" => spent'[r] = spent[r]
              /\ age'[r] = IF pc[r] \in {"absent", "done"} THEN age[r] ELSE age[r] + 1
<1>1. UNCHANGED <<pc, child, faults>>
  BY DEF Tick
<1> SUFFICES ASSUME NEW r \in Requests
             PROVE  /\ child[r] = "running" => r \in Busy /\ spent'[r] = spent[r] + 1
                    /\ child[r] # "running" => spent'[r] = spent[r]
                    /\ age'[r] = IF pc[r] \in {"absent", "done"} THEN age[r] ELSE age[r] + 1
  BY <1>1
<1>2. child[r] = "running" => r \in Busy
  BY DEF IInv, Typed, Held, Pcs, Busy, Verifying
<1>3. Later(age[r], Longest) = age[r] + 1 /\ Later(spent[r], CosignTimeout) = spent[r] + 1
  BY AgeTypes, LongestType, ConstantTypes DEF Later
<1>4. /\ age'[r] = IF pc[r] \in {"absent", "done"} THEN age[r] ELSE Later(age[r], Longest)
      /\ spent'[r] = IF child[r] = "running" THEN Later(spent[r], CosignTimeout) ELSE spent[r]
  BY DEF Tick
<1> QED
  BY <1>2, <1>3, <1>4

(* A tick at which no thread is free is one more tick waited. *)
LEMMA TickWaits ==
  ASSUME IInv, TimeInv, Tick, ~ThreadFree, NEW t \in Nat, Waited(t, child, spent)
  PROVE  Waited(t + 1, child', spent')
<1>1. PICK U \in SUBSET WithProof, b \in Nat, e \in 0 .. CosignTimeout :
        /\ Threads * b <= Cardinality(U)
        /\ t + CosignTimeout <= CosignTimeout * b + e
        /\ \A q \in U : child[q] # "none" /\ (child[q] = "running" => spent[q] >= e)
  BY DEF Waited
<1>2. CosignTimeout * b \in Nat /\ CosignTimeout * (b + 1) = CosignTimeout * b + CosignTimeout
      /\ Threads * b \in Nat /\ Threads * (b + 1) = Threads * b + Threads
  BY ConstantTypes, Times
<1>3. child' = child
  BY TickCounts
<1>4. CASE e < CosignTimeout
  <2>1. e + 1 \in 0 .. CosignTimeout /\ t + 1 + CosignTimeout <= CosignTimeout * b + (e + 1)
    BY <1>1, <1>2, <1>4, ConstantTypes
  <2>2. \A q \in U : child'[q] # "none" /\ (child'[q] = "running" => spent'[q] >= e + 1)
    <3> SUFFICES ASSUME NEW q \in U, child[q] = "running" PROVE spent'[q] >= e + 1
      BY <1>1, <1>3
    <3>1. q \in Requests /\ spent[q] >= e
      BY <1>1, ConstantTypes
    <3>2. spent'[q] = spent[q] + 1
      BY <3>1, TickCounts
    <3> QED
      BY <3>1, <3>2, AgeTypes
  <2> QED
    BY <1>1, <2>1, <2>2 DEF Waited
<1>5. CASE e = CosignTimeout
  <2> DEFINE V == U \cup Busy
  <2>1. V \in SUBSET WithProof
    BY TickFinds
  <2>2. U \cap Busy = {}
    <3> SUFFICES ASSUME NEW q \in U, q \in Busy PROVE FALSE
      OBVIOUS
    <3>1. child[q] = "running" /\ spent[q] < CosignTimeout
      BY TickFinds
    <3>2. spent[q] >= CosignTimeout /\ q \in Requests
      BY <1>1, <1>5, <3>1, ConstantTypes
    <3> QED
      BY <3>1, <3>2, AgeTypes, ConstantTypes
  <2>3. IsFiniteSet(U) /\ Cardinality(U) \in Nat
    BY ConstantTypes, FS_Subset, FS_CardinalityType
  <2>4. Cardinality(V) = Cardinality(U) + Cardinality(Busy)
    <3>1. Cardinality(U \cap Busy) = 0
      BY <2>2, FS_EmptySet
    <3>2. Cardinality(V) = Cardinality(U) + Cardinality(Busy) - Cardinality(U \cap Busy)
      BY <2>3, BusyIsFinite, FS_Union
    <3> QED
      BY <2>3, <3>1, <3>2, BusyIsFinite
  <2>5. Cardinality(Busy) >= Threads
    BY BusyIsFinite, ConstantTypes DEF ThreadFree, Busy
  <2>6. Threads * (b + 1) <= Cardinality(V)
    BY <1>1, <1>2, <2>3, <2>4, <2>5, BusyIsFinite, ConstantTypes
  <2>7. 1 \in 0 .. CosignTimeout /\ t + 1 + CosignTimeout <= CosignTimeout * (b + 1) + 1
    BY <1>1, <1>2, <1>5, ConstantTypes
  <2>8. \A q \in V : child'[q] # "none" /\ (child'[q] = "running" => spent'[q] >= 1)
    <3> SUFFICES ASSUME NEW q \in V PROVE child[q] # "none" /\ (child[q] = "running" => spent'[q] >= 1)
      BY <1>3
    <3>1. child[q] # "none"
      BY <1>1, TickFinds
    <3>2. ASSUME child[q] = "running" PROVE spent'[q] >= 1
      <4>1. q \in Requests
        BY <2>1, ConstantTypes
      <4>2. spent'[q] = spent[q] + 1
        BY <3>2, <4>1, TickCounts
      <4> QED
        BY <4>1, <4>2, AgeTypes
    <3> QED
      BY <3>1, <3>2
  <2>9. b + 1 \in Nat
    OBVIOUS
  <2> HIDE DEF V
  <2> QED
    BY <2>1, <2>6, <2>7, <2>8, <2>9 DEF Waited
<1> QED
  BY <1>4, <1>5, ConstantTypes

(* After a tick a request is no older than its place in the handler allows. *)
LEMMA TickAges ==
  ASSUME IInv, TimeInv, Tick, NEW r \in Requests
  PROVE  Aged(r)' /\ age'[r] \in 0 .. Longest
<1>1. Aged(r) /\ pc[r] \in Pcs /\ ~Due(r) /\ Blocked' = Blocked
  BY DEF TimeInv, IInv, Typed, Tick, Blocked
<1>2. pc'[r] = pc[r]
  BY TickCounts
<1>3. CASE pc[r] \in {"absent", "done"}
  <2>1. age'[r] = age[r]
    BY <1>3, TickCounts
  <2> QED
    BY <1>1, <1>2, <1>3, <2>1, AgeTypes DEF Aged, Verifying
<1>4. CASE pc[r] = "ready"
  <2>1. age'[r] = age[r] + 1 /\ ~ThreadFree
    BY <1>1, <1>4, TickCounts DEF Due
  <2>2. Waited(age'[r], child', spent')
    BY <1>1, <1>4, <2>1, AgeTypes, TickWaits DEF Aged
  <2>3. age'[r] \in Nat
    BY <2>1, AgeTypes
  <2>4. age'[r] <= Blocked
    BY <2>2, <2>3, WaitedBound
  <2>5. age'[r] \in 0 .. Longest
    BY <2>3, <2>4, LongestType, ConstantTypes
  <2> QED
    BY <1>2, <1>4, <2>2, <2>5 DEF Aged, Verifying
<1>5. CASE Verifying(r)
  <2>1. r \in Busy
    BY <1>5 DEF Busy
  <2>2. pc[r] = "poll" /\ child[r] = "running" /\ spent[r] < CosignTimeout
    BY <2>1, TickFinds
  <2>3. age'[r] = age[r] + 1 /\ spent'[r] = spent[r] + 1
    BY <2>2, TickCounts
  <2>4. age[r] <= Blocked + spent[r]
    BY <1>1, <1>5 DEF Aged
  <2>5. age'[r] <= Blocked + spent'[r] /\ age'[r] \in 0 .. Longest
    BY <2>2, <2>3, <2>4, AgeTypes, LongestType, ConstantTypes
  <2> QED
    BY <1>1, <1>2, <2>2, <2>5 DEF Aged, Verifying
<1>6. CASE pc[r] = "database"
  <2>1. age'[r] = age[r] + 1
    BY <1>6, TickCounts
  <2>2. CASE age[r] < HttpTimeout
    <3>1. age'[r] <= HttpTimeout /\ age'[r] \in 0 .. Longest
      BY <2>1, <2>2, AgeTypes, LongestType, ConstantTypes
    <3> QED
      BY <1>2, <1>6, <3>1 DEF Aged, Verifying
  <2>3. CASE age[r] >= HttpTimeout
    <3> DEFINE t == age[r] - HttpTimeout
    <3>1. ~ThreadFree
      BY <1>1, <1>6, <2>3 DEF Due
    <3>2. t \in Nat
      BY <2>3, AgeTypes, ConstantTypes
    <3>3. Waited(t, child, spent)
      <4>1. CASE age[r] <= HttpTimeout
        <5>1. t = 0
          BY <2>3, <4>1, AgeTypes, ConstantTypes
        <5> QED
          BY <5>1, WaitedZero
      <4>2. CASE ~(age[r] <= HttpTimeout)
        BY <1>1, <1>6, <4>2 DEF Aged
      <4> QED
        BY <4>1, <4>2
    <3>4. t + 1 = age'[r] - HttpTimeout
      BY <2>1, <3>2, AgeTypes, ConstantTypes
    <3> HIDE DEF t
    <3>5. Waited(t + 1, child', spent')
      BY <3>1, <3>2, <3>3, TickWaits
    <3>6. t + 1 <= Blocked
      BY <3>2, <3>5, WaitedBound
    <3>7. age'[r] \in 0 .. Longest
      BY <2>1, <3>4, <3>6, AgeTypes, LongestType, ConstantTypes
    <3>8. Waited(age'[r] - HttpTimeout, child', spent')
      BY <3>4, <3>5
    <3> QED
      BY <1>2, <1>6, <3>7, <3>8 DEF Aged, Verifying
  <2> QED
    BY <2>2, <2>3, AgeTypes, ConstantTypes
<1> QED
  BY <1>1, <1>3, <1>4, <1>5, <1>6 DEF Pcs, Verifying

LEMMA TickKeepsTime == ASSUME IInv, TimeInv, Tick PROVE TimeInv'
<1>1. pc' = pc /\ child' = child /\ faults' = faults
  BY TickCounts
<1>2. OnThreads'
  <2>1. Busy' = Busy
    BY <1>1 DEF Busy, Verifying
  <2>2. ASSUME NEW r \in Requests, child'[r] = "none" PROVE spent'[r] = 0
    BY <1>1, <2>2, TickCounts DEF TimeInv, OnThreads
  <2> QED
    BY <1>1, <2>1, <2>2 DEF TimeInv, OnThreads, Verifying
<1>3. Clocks'
  <2>1. Longest' = Longest
    BY DEF Longest
  <2>2. age' \in [Requests -> 0 .. Longest]
    <3>1. age' = [r \in Requests |-> age'[r]]
      BY DEF Tick
    <3> QED
      BY <3>1, TickAges
  <2>3. spent' \in [Requests -> 0 .. CosignTimeout]
    <3>1. spent' = [r \in Requests |-> spent'[r]]
      BY DEF Tick
    <3>2. ASSUME NEW r \in Requests PROVE spent'[r] \in 0 .. CosignTimeout
      <4>1. CASE child[r] = "running"
        <5>1. spent'[r] = spent[r] + 1 /\ spent[r] < CosignTimeout
          BY <4>1, TickCounts, TickFinds
        <5> QED
          BY <5>1, AgeTypes, ConstantTypes
      <4>2. CASE child[r] # "running"
        <5>1. spent'[r] = spent[r]
          BY <4>2, TickCounts
        <5> QED
          BY <5>1, AgeTypes, ConstantTypes
      <4> QED
        BY <4>1, <4>2
    <3> QED
      BY <3>1, <3>2
  <2> QED
    BY <1>1, <2>1, <2>2, <2>3 DEF TimeInv, Clocks
<1> QED
  BY <1>2, <1>3, TickAges DEF TimeInv

LEMMA TimeInductive == Spec => [](IInv /\ TimeInv)
<1>1. Init => IInv /\ TimeInv
  BY InitIInv, InitTime
<1>2. ASSUME IInv, TimeInv, [Next]_vars PROVE IInv' /\ TimeInv'
  <2>1. IInv'
    BY <1>2, NextIInv
  <2>2. CASE \E r \in Requests : Arrive(r) \/ Handle(r) \/ Persisted(r) \/ TryWaitFails(r) \/ ChildExits(r)
    BY <1>2, <2>1, <2>2, HandlerKeepsTime
  <2>3. CASE Tick
    BY <1>2, <2>1, <2>3, TickKeepsTime
  <2>4. CASE UNCHANGED vars
    <3>1. UNCHANGED <<pc, child, spent, age, faults>>
      BY <2>4 DEF vars
    <3> QED
      BY <1>2, <2>1, <3>1 DEF TimeInv, Clocks, OnThreads, Aged, Busy, Verifying, Waited, Blocked, Longest
  <2> QED
    BY <1>2, <2>1, <2>2, <2>3, <2>4 DEF Next
<1> QED
  BY <1>1, <1>2, PTL DEF Spec

(* Every variable keeps its type, and no more processes of Cosign run than the
   runtime has threads, those that try_wait failed for not counted. *)
THEOREM TypeCorrect == Spec => []TypeOK
<1>1. ASSUME IInv, TimeInv PROVE TypeOK
  <2>1. {r \in Requests : child[r] = "running"} \in SUBSET Busy
    BY <1>1 DEF IInv, Typed, Held, Pcs, Busy, Verifying
  <2>2. Cardinality({r \in Requests : child[r] = "running"}) <= Threads
    <3>1. /\ Cardinality({r \in Requests : child[r] = "running"}) <= Cardinality(Busy)
          /\ Cardinality({r \in Requests : child[r] = "running"}) \in Nat
      BY <2>1, BusyIsFinite, FS_Subset, FS_CardinalityType
    <3> QED
      BY <1>1, <3>1, BusyIsFinite, ConstantTypes DEF TimeInv, OnThreads
  <2>3. spent \in [Requests -> 0 .. CosignTimeout + 1] /\ age \in [Requests -> 0 .. Longest + 1]
    BY <1>1, ConstantTypes, LongestType DEF TimeInv, Clocks
  <2> QED
    BY <1>1, <2>2, <2>3 DEF TypeOK, IInv, Typed, TimeInv, Clocks, Pcs, Children, AllAnswers
<1> QED
  BY <1>1, TimeInductive, PTL

(* Cosign never runs longer than its deadline while verify attends to it (a child
   that try_wait failed for has none), and a request is answered within the
   request timeout and the verifications that can hold all threads. *)
THEOREM InTimeProved == Spec => []InTime
<1>1. ASSUME IInv, TimeInv PROVE InTime
  BY <1>1, AgeTypes DEF InTime
<1> QED
  BY <1>1, TimeInductive, PTL
=============================================================================
