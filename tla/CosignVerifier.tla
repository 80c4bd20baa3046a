---------------------------- MODULE CosignVerifier ----------------------------
(***************************************************************************)
(* Admission of a submission and identity verification inside the request  *)
(* handlers of depguard-server.                                            *)
(* verify runs Cosign as a child process and polls it on the worker thread *)
(* of the runtime it was called on; no other request moves on that thread  *)
(* meanwhile, and the timer of the request timeout does not fire on it     *)
(* either.  Time passes in ticks; one action is one step between two looks *)
(* at the child or two await points.                                       *)
(***************************************************************************)
EXTENDS Naturals, FiniteSets, Admission

CONSTANTS
  Requests,       \* submissions
  Wrapped,        \* those to /v1/submissions
  WithProof,      \* those of them that carry an identity proof
  MayHave,        \* the sets of flaws a submission may have
  Certificates,   \* the certificates a good bundle may have
  Genuine,        \* those whose bundle Cosign finds good, given the time
  Threads,        \* worker threads of the runtime
  CosignTimeout,  \* COSIGN_TIMEOUT, in ticks
  HttpTimeout,    \* the TimeoutLayer, in ticks
  MaxFaults       \* bound on failing file operations, spawns and waits

ASSUME RequestsAssumption ==
  /\ Genuine \subseteq WithProof /\ WithProof \subseteq Wrapped /\ Wrapped \subseteq Requests
  /\ IsFiniteSet(Requests)
  /\ MayHave \in [Requests -> SUBSET SUBSET Flaws]
ASSUME CertificatesAssumption == Absent \notin Certificates
ASSUME BoundsAssumption ==
  /\ Threads \in Nat \ {0} /\ CosignTimeout \in Nat \ {0}
  /\ HttpTimeout \in Nat /\ MaxFaults \in Nat
  /\ CosignTimeout <= HttpTimeout   \* 10 s and 15 s

VARIABLES
  flaws,        \* what is wrong with each submission
  certificate,  \* the certificate read from its bundle
  pc,      \* where the handler of each request is
  child,   \* its Cosign process: running, exited by itself ("good", "bad"), killed, reaped
  files,   \* its private directory exists
  spent,   \* ticks since its child was spawned
  age,     \* ticks since the request arrived, until it is answered
  answer,  \* what its client is told
  faults

inputs == <<flaws, certificate>>
vars == <<flaws, certificate, pc, child, files, spent, age, answer, faults>>

Init ==
  /\ flaws = [r \in Requests |-> {}]
  /\ certificate = [r \in Requests |-> Absent]
  /\ pc = [r \in Requests |-> "absent"]
  /\ child = [r \in Requests |-> "none"]
  /\ files = [r \in Requests |-> FALSE]
  /\ spent = [r \in Requests |-> 0]
  /\ age = [r \in Requests |-> 0]
  /\ answer = [r \in Requests |-> "none"]
  /\ faults = 0

(* verify never awaits: from its first line to its last it has the thread. *)
Verifying(r) == pc[r] \in {"prepare", "spawn", "poll", "kill", "wait"}
ThreadFree_OffByOne == Cardinality({r \in Requests : Verifying(r)}) <= Threads
ThreadFree == Cardinality({r \in Requests : Verifying(r)}) < Threads

Goto(r, part) == pc' = [pc EXCEPT ![r] = part]
Fault == faults < MaxFaults /\ faults' = faults + 1

Answer(r, a) ==
  /\ Goto(r, "done")
  /\ answer' = [answer EXCEPT ![r] = a]

(* verify returns an error: its directory is removed, the request rejected,
   however late it is. *)
Reject(r, reason) ==
  /\ Answer(r, reason)
  /\ files' = [files EXCEPT ![r] = FALSE]

-----------------------------------------------------------------------------

Arrive(r) ==
  /\ pc[r] = "absent"
  /\ \E f \in MayHave[r] : flaws' = [flaws EXCEPT ![r] = f]
  /\ Goto(r, "ready")
  /\ UNCHANGED <<certificate, child, files, spent, age, answer, faults>>

(* A thread takes up the request and makes every check of admission without an
   await; a submission without a proof then awaits the database. *)
TakeUp_ProofFirst(r) ==
  /\ pc[r] = "ready"
  /\ ThreadFree
  /\ LET reason == AdmissionReason(flaws[r], r \in Wrapped) IN
     IF reason = None \/ r \in WithProof
     THEN Goto(r, IF r \in WithProof THEN "prepare" ELSE "database") /\ UNCHANGED answer
     ELSE Answer(r, reason)
  /\ UNCHANGED <<inputs, child, files, spent, age, faults>>
TakeUp(r) ==
  /\ pc[r] = "ready"
  /\ ThreadFree
  /\ LET reason == AdmissionReason(flaws[r], r \in Wrapped) IN
     IF reason = None
     THEN Goto(r, IF r \in WithProof THEN "prepare" ELSE "database") /\ UNCHANGED answer
     ELSE Answer(r, reason)
  /\ UNCHANGED <<inputs, child, files, spent, age, faults>>

Prepare(r) ==
  /\ pc[r] = "prepare"
  /\ \/ /\ Goto(r, "spawn")
        /\ files' = [files EXCEPT ![r] = TRUE]
        /\ UNCHANGED <<answer, faults>>
     \/ Fault /\ Reject(r, "SIGSTORE_VERIFICATION_FAILED")
  /\ UNCHANGED <<inputs, child, spent, age>>

Spawn(r) ==
  /\ pc[r] = "spawn"
  /\ \/ /\ Goto(r, "poll")
        /\ child' = [child EXCEPT ![r] = "running"]
        /\ UNCHANGED <<files, answer, faults>>
     \/ Fault /\ Reject(r, "SIGSTORE_VERIFIER_UNAVAILABLE") /\ UNCHANGED child
  /\ UNCHANGED <<inputs, spent, age>>

(* After verify succeeded the handler begins its transaction; at that await
   the timeout is looked at for the first time since the request was taken up. *)
Verified(r) ==
  /\ IF age[r] < HttpTimeout THEN Goto(r, "database") /\ UNCHANGED answer
     ELSE Answer(r, "REQUEST_TIMEOUT")
  /\ files' = [files EXCEPT ![r] = FALSE]

(* try_wait finds that the child exited; after a success the certificate of the
   bundle is read and the policy of the deployment applied. *)
Reap_AnyStatus(r) ==
  /\ pc[r] = "poll"
  /\ child[r] \in {"good", "bad"}
  /\ child' = [child EXCEPT ![r] = "reaped"]
  /\ \E c \in Certificates :
       /\ certificate' = [certificate EXCEPT ![r] = c]
       /\ IF IdentityReason(c) = None THEN Verified(r) ELSE Reject(r, IdentityReason(c))
  /\ UNCHANGED <<flaws, spent, age, faults>>
Reap(r) ==
  /\ pc[r] = "poll"
  /\ child[r] \in {"good", "bad"}
  /\ child' = [child EXCEPT ![r] = "reaped"]
  /\ \/ /\ child[r] = "good"
        /\ \E c \in Certificates :
             /\ certificate' = [certificate EXCEPT ![r] = c]
             /\ IF IdentityReason(c) = None THEN Verified(r) ELSE Reject(r, IdentityReason(c))
     \/ child[r] = "bad" /\ Reject(r, "INVALID_SIGSTORE_IDENTITY") /\ UNCHANGED certificate
  /\ UNCHANGED <<flaws, spent, age, faults>>

(* Instant::now() >= deadline *)
Overdue_Strict(r) == spent[r] > CosignTimeout
Overdue(r) == spent[r] >= CosignTimeout

(* try_wait finds it running and the deadline has passed. *)
Late(r) ==
  /\ pc[r] = "poll"
  /\ child[r] = "running"
  /\ Overdue(r)
  /\ Goto(r, "kill")
  /\ UNCHANGED <<inputs, child, files, spent, age, answer, faults>>

(* kill has no effect on a child that exited since it was looked at. *)
Kill_Forgotten(r) ==
  /\ pc[r] = "kill"
  /\ Goto(r, "wait")
  /\ UNCHANGED <<inputs, child, files, spent, age, answer, faults>>
Kill(r) ==
  /\ pc[r] = "kill"
  /\ child' = [child EXCEPT ![r] = IF @ = "running" THEN "killed" ELSE @]
  /\ Goto(r, "wait")
  /\ UNCHANGED <<inputs, files, spent, age, answer, faults>>

(* wait blocks until the child is gone; its status is not looked at. *)
Wait_Dropped(r) ==
  /\ pc[r] = "wait"
  /\ Reject(r, "SIGSTORE_VERIFICATION_TIMEOUT")
  /\ UNCHANGED <<inputs, child, spent, age, faults>>
Wait(r) ==
  /\ pc[r] = "wait"
  /\ child[r] # "running"
  /\ child' = [child EXCEPT ![r] = "reaped"]
  /\ Reject(r, "SIGSTORE_VERIFICATION_TIMEOUT")
  /\ UNCHANGED <<inputs, spent, age, faults>>

(* try_wait fails: verify returns and leaves the child to itself. *)
TryWaitFails(r) ==
  /\ pc[r] = "poll"
  /\ Fault
  /\ child' = [child EXCEPT ![r] = "abandoned"]
  /\ Reject(r, "SIGSTORE_VERIFICATION_FAILED")
  /\ UNCHANGED <<inputs, spent, age>>

-----------------------------------------------------------------------------

(* The transaction commits; module Ingest has its steps. *)
Persisted(r) ==
  /\ pc[r] = "database"
  /\ ThreadFree
  /\ Answer(r, IF r \in WithProof THEN "ACCEPTED_WITH_IDENTITY" ELSE "ACCEPTED")
  /\ UNCHANGED <<inputs, child, files, spent, age, faults>>

(* TimeoutLayer drops the handler at an await. *)
TimesOut(r) ==
  /\ pc[r] = "database"
  /\ age[r] >= HttpTimeout
  /\ ThreadFree
  /\ Answer(r, "REQUEST_TIMEOUT")
  /\ UNCHANGED <<inputs, child, files, spent, age, faults>>

(* Cosign exits by itself, or hangs. *)
ChildExits(r) ==
  /\ child[r] = "running"
  /\ child' = [child EXCEPT ![r] = IF r \in Genuine THEN "good" ELSE "bad"]
  /\ UNCHANGED <<inputs, pc, files, spent, age, answer, faults>>

Handle(r) ==
  \/ TakeUp(r) \/ Prepare(r) \/ Spawn(r) \/ Reap(r) \/ Late(r) \/ Kill(r) \/ Wait(r)
  \/ TimesOut(r)

(* Handle(r) can be taken. *)
Due(r) ==
  \/ pc[r] \in {"prepare", "spawn", "kill"}
  \/ pc[r] = "ready" /\ ThreadFree
  \/ pc[r] = "poll" /\ (child[r] \in {"good", "bad"} \/ Overdue(r))
  \/ pc[r] = "wait" /\ child[r] # "running"
  \/ pc[r] = "database" /\ age[r] >= HttpTimeout /\ ThreadFree

(* The longest a request can take: the request timeout, and the time for which
   all threads can be taken by verifications, each up to its deadline.  The timer
   of the TimeoutLayer starts when a thread calls the service, age when the
   request arrives: the code can time out later than the model, by the time the
   request waited for a thread, which is one of those Longest counts already. *)
Longest == HttpTimeout + CosignTimeout * (Cardinality(WithProof) \div Threads)
Later(t, most) == IF t > most THEN t ELSE t + 1

(* A tick is long against the 10 ms between two looks at the child and against
   every step of a handler, so a tick passes only when none is possible.
   Clocks stop one tick past what the properties tell apart. *)
Tick ==
  /\ \A r \in Requests : ~Due(r)
  /\ \E r \in Requests : pc[r] \notin {"absent", "done"}
  /\ age' = [r \in Requests |-> IF pc[r] \in {"absent", "done"} THEN age[r] ELSE Later(age[r], Longest)]
  /\ spent' = [r \in Requests |-> IF child[r] = "running" THEN Later(spent[r], CosignTimeout) ELSE spent[r]]
  /\ UNCHANGED <<inputs, pc, child, files, answer, faults>>

Next ==
  \/ \E r \in Requests : Arrive(r) \/ Handle(r) \/ Persisted(r) \/ TryWaitFails(r) \/ ChildExits(r)
  \/ Tick

Spec == Init /\ [][Next]_vars

(* Threads go on, time passes; Cosign and the database may hang. *)
FairSpec == Spec /\ WF_vars(Tick) /\ \A r \in Requests : WF_vars(Handle(r))
-----------------------------------------------------------------------------
(* Properties *)

Refusals == {"MALFORMED_SUBMISSION", "ATTESTATION_TOO_LARGE", "MALFORMED_IDENTITY_PROOF",
             "IDENTITY_PROOF_TOO_LARGE", "TOO_MANY_REQUESTS", "MALFORMED_DSSE", "INVALID_SIGNATURE",
             "PRIVACY_VIOLATION"}
Errors == {"SIGSTORE_VERIFICATION_FAILED", "SIGSTORE_VERIFIER_UNAVAILABLE",
           "SIGSTORE_VERIFICATION_TIMEOUT", "MALFORMED_IDENTITY_PROOF", "INVALID_SIGSTORE_IDENTITY",
           "UNTRUSTED_OIDC_ISSUER", "SIGSTORE_IDENTITY_POLICY_REJECTED"}

(* Every variable has its type, and no more children run than there are threads,
   not counting a child that try_wait failed for: it may run on unattended. *)
TypeOK ==
  /\ flaws \in [Requests -> SUBSET Flaws]
  /\ certificate \in [Requests -> Certificates \cup {Absent}]
  /\ pc \in [Requests -> {"absent", "ready", "prepare", "spawn", "poll", "kill", "wait", "database", "done"}]
  /\ child \in [Requests -> {"none", "running", "good", "bad", "killed", "reaped", "abandoned"}]
  /\ files \in [Requests -> BOOLEAN]
  /\ spent \in [Requests -> 0 .. CosignTimeout + 1] /\ age \in [Requests -> 0 .. Longest + 1]
  /\ answer \in [Requests -> Errors \cup Refusals \cup {"none", "ACCEPTED", "ACCEPTED_WITH_IDENTITY", "REQUEST_TIMEOUT"}]
  /\ faults \in 0 .. MaxFaults
  /\ Cardinality({r \in Requests : child[r] = "running"}) <= Threads

(* An identity is taken from a bundle only after Cosign itself exited with
   success, also when it exits while it is being killed for being late; and a
   bundle it finds good is called invalid only for the claims read from it. *)
IdentityIsCosigns ==
  \A r \in WithProof :
    /\ pc[r] = "database" \/ answer[r] = "ACCEPTED_WITH_IDENTITY" =>
         r \in Genuine /\ child[r] = "reaped"
    /\ answer[r] = "INVALID_SIGSTORE_IDENTITY" => r \notin Genuine \/ certificate[r] # Absent

(* network-mvp.md:57, as far as the code goes: under the GitHub issuer and within
   the deployment's policy, an accepted identity is the workflow the certificate
   is named for, in the repository claimed, with a URI that ends in the ref
   claimed.  A claim is that of the generic extension, of the legacy one only
   where the generic is absent: a legacy claim beside a generic one may
   contradict it.  And one workflow URI can end in two refs (of the branches main
   and v1@refs/heads/main), so the ref is one of those, not the one. *)
IdentityIsCoherent ==
  \A r \in WithProof :
    pc[r] = "database" \/ answer[r] = "ACCEPTED_WITH_IDENTITY" =>
      LET c == certificate[r]
          workflow == CertificateIdentity(c) IN
      /\ c.issuer = Issuer
      /\ c.workflow = workflow
      /\ c.repository.generic \in {Absent, workflow.repository}
      /\ c.repository.generic = Absent => c.repository.legacy = workflow.repository
      /\ c.ref.generic \in Suffixes(workflow.at) \cup {Absent}
      /\ c.ref.generic = Absent => c.ref.legacy \in Suffixes(workflow.at)
      /\ ExpectedRepository \in {Absent, workflow.repository}
      /\ ExpectedWorkflow \in {Absent, workflow}

(* lib.rs:32 and 263: the limits come before any process is started or file
   written, and no proof rescues a submission that has a flaw, whatever its
   proof is worth and whatever fails meanwhile. *)
FlawedIsRefused ==
  \A r \in Requests :
    AdmissionReason(flaws[r], r \in Wrapped) # None =>
      /\ child[r] = "none" /\ ~files[r] /\ certificate[r] = Absent
      /\ answer[r] \in Refusals \cup {"none"}

(* A handler that left verify leaves no process and no private directory
   behind, and no process works on a directory that was removed; a child that
   could not be waited for is the exception. *)
NothingLeftBehind ==
  \A r \in Requests :
    /\ child[r] \in {"running", "good", "bad", "killed"} => files[r]
    /\ files[r] => Verifying(r)

(* While verify attends to it, Cosign runs at most for its ten seconds; a child
   that try_wait failed for has no deadline any more and its clock stops.  A
   request takes at most Longest: fifteen seconds plus the time verifications
   hold all threads. *)
InTime == \A r \in Requests : spent[r] <= CosignTimeout /\ age[r] <= Longest

(* Every request is answered though Cosign or the database hangs. *)
EveryRequestAnswered == \A r \in Requests : pc[r] = "ready" ~> pc[r] = "done"
=============================================================================
