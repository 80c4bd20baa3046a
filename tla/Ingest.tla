-------------------------------- MODULE Ingest --------------------------------
(***************************************************************************)
(* Concurrent ingestion of attestations by depguard-server.  Every HTTP    *)
(* request runs ingest_attestation: it checks the submission, verifies an  *)
(* optional Sigstore identity, and persists both in one PostgreSQL         *)
(* transaction (READ COMMITTED).  One action is one statement of that      *)
(* transaction; requests interleave between statements, wait for each      *)
(* other's locks and share a bounded connection pool.  A request may be    *)
(* cut off by the timeout layer, by a failing database connection or by a  *)
(* crash of the server, and its transaction then ends on its own.          *)
(***************************************************************************)
EXTENDS Naturals, FiniteSets, Sequences

CONSTANTS
  Requests,        \* HTTP requests; a client's retry is another request
  Bodies,          \* the attestation byte strings clients send
  Bundles,         \* the Sigstore bundles clients send
  NoBundle,        \* a submission without an identity proof
  NoRow,           \* no attestation row (abstract store: no submission)
  NoBody,          \* no bytes kept for an envelope (abstract store only)
  Submissions,     \* the submissions clients make: [body, bundle] records
  EnvelopeOf,      \* the DSSE envelope (RFC 8785 form) of a byte string
  Admissible,      \* bodies that pass the size, parse, signature and privacy checks
  Verifies,        \* <<bundle, body>>: Cosign and the policy accept the bundle over the bytes
  Hash,            \* hashtext of an evidence id: the advisory lock key, which may collide
  Facts,           \* the database rows an envelope's evidence refers to
  MaxConnections,  \* size of the connection pool
  MaxFaults        \* bound on timeouts, connection failures and crashes

Envelopes == {EnvelopeOf[b] : b \in Bodies}

ASSUME SubmissionsAssumption ==
  /\ EnvelopeOf \in [Bodies -> Envelopes]
  /\ Submissions \subseteq [body : Bodies, bundle : Bundles \cup {NoBundle}]
  /\ NoBundle \notin Bundles
  /\ NoRow \notin Requests \cup Submissions
  /\ NoBody \notin Bodies
ASSUME FiniteAssumption == IsFiniteSet(Requests)
ASSUME BoundsAssumption == MaxConnections \in Nat \ {0} /\ MaxFaults \in Nat

(* Tables holding one row per ingested attestation, and everything one
   transaction may write: those rows, a CI identity, a submission count. *)
Tables == {"attestations", "verification_runs", "evidence_submissions", "findings"}
Writes == Tables \cup {"verified_ci_identities", "submission_count"}

VARIABLES
  submission,       \* what each request carries
  pc,               \* the statement or check each request is at
  handler,          \* "live", "dropped" (future cancelled) or "lost" (connection gone)
  answer,           \* the HTTP answer
  row,              \* the attestation row id the transaction works on; an inserting
                    \* request stands for the id its INSERT returns
  upserted,         \* how many shared rows the transaction has upserted
  wrote,            \* its uncommitted writes
  held,             \* the locks it holds
  stored,           \* committed rows of each table, by attestation row id
  submissionCount,  \* committed evidence_submissions.submission_count
  identity,         \* committed verified_ci_identities.bundle
  applied,          \* requests whose COMMIT PostgreSQL has processed
  faults            \* timeouts, failures and crashes so far

requestVars == <<submission, pc, handler, answer>>
txVars == <<row, upserted, wrote, held>>
dbVars == <<stored, submissionCount, identity, applied>>
vars == <<submission, pc, handler, answer, row, upserted, wrote, held,
          stored, submissionCount, identity, applied, faults>>

Statements == {"lock", "select", "upsert", "insertAttestation", "insertRun",
               "insertSubmission", "selectIdentity", "insertIdentity",
               "insertFindings", "updateCount", "commit", "rollback"}
Phases == Statements \cup {"idle", "admission", "verifyIdentity", "begin", "committed", "done"}
Answers == {"none", "ACCEPTED_NEW", "ACCEPTED_DUPLICATE", "REJECTED",
            "PERSISTENCE_ERROR", "TIMEOUT"}

Init ==
  /\ submission \in [Requests -> Submissions]
  /\ pc = [r \in Requests |-> "idle"]
  /\ handler = [r \in Requests |-> "live"]
  /\ answer = [r \in Requests |-> "none"]
  /\ row = [r \in Requests |-> NoRow]
  /\ upserted = [r \in Requests |-> 0]
  /\ wrote = [r \in Requests |-> {}]
  /\ held = [r \in Requests |-> {}]
  /\ stored = [t \in Tables |-> {}]
  /\ submissionCount = [r \in Requests |-> 0]
  /\ identity = [r \in Requests |-> NoBundle]
  /\ applied = {}
  /\ faults = 0

-----------------------------------------------------------------------------
(* Evidence ids and locks *)

(* evidence_id: the digest of the canonical envelope, not of the bytes. *)
EvidenceId_RawBytes(b) == b
EvidenceId(b) == EnvelopeOf[b]

Id(r) == EvidenceId(submission[r].body)
Bundle(r) == submission[r].bundle

AdvisoryKey_PerRequest(r) == <<"advisory", r>>
AdvisoryKey(r) == <<"advisory", Hash[EnvelopeOf[submission[r].body]]>>

(* The shared rows a new attestation upserts, in the order persist does. *)
UpsertRows_PackageOnlyRead(e) ==
  LET f == Facts[e] IN
  << <<"signers", f.signer>>,
     <<"package_versions", f.package, f.from>>,
     <<"package_versions", f.package, f.to>>,
     <<"version_transitions", f.package, f.from, f.to>>,
     <<"environments", f.environment>>,
     <<"methodology_versions", f.methodology>> >>
UpsertRows(e) ==
  LET f == Facts[e] IN
  << <<"signers", f.signer>>,
     <<"packages", f.package>>,
     <<"package_versions", f.package, f.from>>,
     <<"package_versions", f.package, f.to>>,
     <<"version_transitions", f.package, f.from, f.to>>,
     <<"environments", f.environment>>,
     <<"methodology_versions", f.methodology>> >>

(* The lock the statement a request is at must be granted first: the
   advisory lock, the row an upsert or update locks, the unique-index entry
   an insert waits for. *)
Wants(r) ==
  CASE pc[r] = "lock"              -> {AdvisoryKey(r)}
    [] pc[r] = "upsert"            -> {UpsertRows(EnvelopeOf[submission[r].body])[upserted[r] + 1]}
    [] pc[r] = "insertAttestation" -> {<<"attestations", Id(r)>>}
    [] pc[r] = "insertIdentity"    -> {<<"verified_ci_identities", row[r]>>}
    [] pc[r] = "updateCount"       -> {<<"evidence_submissions", row[r]>>}
    [] OTHER                       -> {}

Granted(r) == \A q \in Requests \ {r} : Wants(r) \cap held[q] = {}

(* A live request executes the statement it is at, waiting for its lock. *)
Executes(r, statement) ==
  /\ handler[r] = "live"
  /\ pc[r] = statement
  /\ Granted(r)
  /\ held' = [held EXCEPT ![r] = @ \cup Wants(r)]

Goto(r, phase) == pc' = [pc EXCEPT ![r] = phase]

-----------------------------------------------------------------------------
(* ingest_attestation before persist *)

Receive(r) ==
  /\ pc[r] = "idle"
  /\ Goto(r, "admission")
  /\ UNCHANGED <<submission, handler, answer, txVars, dbVars, faults>>

(* Everything that needs only the bytes: limits, JSON, DSSE verification,
   the evidence schema, the public privacy rules.  There is no await. *)
Admit(r) ==
  /\ pc[r] = "admission"
  /\ IF submission[r].body \in Admissible
     THEN /\ Goto(r, IF Bundle(r) = NoBundle THEN "begin" ELSE "verifyIdentity")
          /\ UNCHANGED answer
     ELSE /\ Goto(r, "done")
          /\ answer' = [answer EXCEPT ![r] = "REJECTED"]
  /\ UNCHANGED <<submission, handler, txVars, dbVars, faults>>

(* Cosign runs to completion inside the handler.  A bundle that verifies may
   still be refused: the verifier is missing or takes longer than its limit. *)
IdentityAccepted(r) == <<Bundle(r), submission[r].body>> \in Verifies

VerifyIdentity(r) ==
  /\ pc[r] = "verifyIdentity"
  /\ \/ /\ IdentityAccepted(r)
        /\ Goto(r, "begin")
        /\ UNCHANGED answer
     \/ /\ Goto(r, "done")
        /\ answer' = [answer EXCEPT ![r] = "REJECTED"]
  /\ UNCHANGED <<submission, handler, txVars, dbVars, faults>>

-----------------------------------------------------------------------------
(* persist: one transaction *)

(* A pooled connection is in use until its transaction has ended, also when
   the request's future was dropped; a lost connection is not pooled. *)
Connected(r) == pc[r] \in Statements /\ handler[r] # "lost"
ConnectionsInUse == Cardinality({r \in Requests : Connected(r)})

Begin(r) ==
  /\ pc[r] = "begin"
  /\ ConnectionsInUse < MaxConnections
  /\ Goto(r, "lock")
  /\ UNCHANGED <<submission, handler, answer, txVars, dbVars, faults>>

AdvisoryLock(r) ==
  /\ Executes(r, "lock")
  /\ Goto(r, "select")
  /\ UNCHANGED <<submission, handler, answer, row, upserted, wrote, dbVars, faults>>

(* Committed attestation rows with a given evidence id. *)
RowsWithId(i) == {a \in stored["attestations"] : Id(a) = i}

SelectAttestation(r) ==
  /\ Executes(r, "select")
  /\ IF RowsWithId(Id(r)) = {}
     THEN /\ Goto(r, "upsert")
          /\ UNCHANGED row
     ELSE /\ Goto(r, IF Bundle(r) = NoBundle THEN "updateCount" ELSE "selectIdentity")
          /\ row' = [row EXCEPT ![r] = CHOOSE a \in RowsWithId(Id(r)) : TRUE]
  /\ UNCHANGED <<submission, handler, answer, upserted, wrote, dbVars, faults>>

(* INSERT ... ON CONFLICT DO UPDATE leaves the row locked either way. *)
Upsert_OffByOne(r) ==
  /\ Executes(r, "upsert")
  /\ upserted' = [upserted EXCEPT ![r] = @ + 1]
  /\ Goto(r, IF upserted[r] = Len(UpsertRows(EnvelopeOf[submission[r].body]))
             THEN "insertAttestation" ELSE "upsert")
  /\ UNCHANGED <<submission, handler, answer, row, wrote, dbVars, faults>>
Upsert(r) ==
  /\ Executes(r, "upsert")
  /\ upserted' = [upserted EXCEPT ![r] = @ + 1]
  /\ Goto(r, IF upserted[r] + 1 = Len(UpsertRows(EnvelopeOf[submission[r].body]))
             THEN "insertAttestation" ELSE "upsert")
  /\ UNCHANGED <<submission, handler, answer, row, wrote, dbVars, faults>>

(* The handler returns an error: the client is answered at once, the dropped
   transaction is rolled back afterwards. *)
Fail(r) ==
  /\ answer' = [answer EXCEPT ![r] = "PERSISTENCE_ERROR"]
  /\ handler' = [handler EXCEPT ![r] = "dropped"]
  /\ Goto(r, "rollback")

(* UNIQUE(evidence_id) refuses a second row. *)
InsertAttestation(r) ==
  /\ Executes(r, "insertAttestation")
  /\ IF RowsWithId(Id(r)) = {}
     THEN /\ row' = [row EXCEPT ![r] = r]
          /\ wrote' = [wrote EXCEPT ![r] = @ \cup {"attestations"}]
          /\ Goto(r, "insertRun")
          /\ UNCHANGED <<handler, answer>>
     ELSE Fail(r) /\ UNCHANGED <<row, wrote>>
  /\ UNCHANGED <<submission, upserted, dbVars, faults>>

(* An insert into a table keyed by the new attestation. *)
InsertOwn(r, statement, table, next) ==
  /\ Executes(r, statement)
  /\ wrote' = [wrote EXCEPT ![r] = @ \cup {table}]
  /\ Goto(r, next)
  /\ UNCHANGED <<submission, handler, answer, row, upserted, dbVars, faults>>

InsertRun_OnPool(r) ==
  /\ Executes(r, "insertRun")
  /\ stored' = [stored EXCEPT !["verification_runs"] = @ \cup {r}]
  /\ Goto(r, "insertSubmission")
  /\ UNCHANGED <<submission, handler, answer, row, upserted, wrote,
                 submissionCount, identity, applied, faults>>
InsertRun(r) == InsertOwn(r, "insertRun", "verification_runs", "insertSubmission")

InsertSubmission(r) ==
  InsertOwn(r, "insertSubmission", "evidence_submissions",
            IF Bundle(r) = NoBundle THEN "insertFindings" ELSE "selectIdentity")

AfterIdentity_NotCounted(r) == IF row[r] = r THEN "insertFindings" ELSE "commit"
AfterIdentity(r) == IF row[r] = r THEN "insertFindings" ELSE "updateCount"

(* persist_identity: a bundle already bound must be this bundle. *)
SelectIdentity_Replaces(r) ==
  /\ Executes(r, "selectIdentity")
  /\ wrote' = [wrote EXCEPT ![r] = @ \cup {"verified_ci_identities"}]
  /\ Goto(r, AfterIdentity(r))
  /\ UNCHANGED <<submission, handler, answer, row, upserted, dbVars, faults>>
SelectIdentity_FirstStays(r) ==
  /\ Executes(r, "selectIdentity")
  /\ Goto(r, IF identity[row[r]] = NoBundle THEN "insertIdentity" ELSE AfterIdentity(r))
  /\ UNCHANGED <<submission, handler, answer, row, upserted, wrote, dbVars, faults>>
SelectIdentity(r) ==
  /\ Executes(r, "selectIdentity")
  /\ \/ /\ identity[row[r]] = NoBundle
        /\ Goto(r, "insertIdentity")
        /\ UNCHANGED <<handler, answer>>
     \/ /\ identity[row[r]] = Bundle(r)
        /\ Goto(r, AfterIdentity(r))
        /\ UNCHANGED <<handler, answer>>
     \/ /\ identity[row[r]] \notin {NoBundle, Bundle(r)}
        /\ Fail(r)
  /\ UNCHANGED <<submission, row, upserted, wrote, dbVars, faults>>

(* UNIQUE(attestation_id) refuses a second identity. *)
InsertIdentity(r) ==
  /\ Executes(r, "insertIdentity")
  /\ IF identity[row[r]] = NoBundle
     THEN /\ wrote' = [wrote EXCEPT ![r] = @ \cup {"verified_ci_identities"}]
          /\ Goto(r, AfterIdentity(r))
          /\ UNCHANGED <<handler, answer>>
     ELSE Fail(r) /\ UNCHANGED wrote
  /\ UNCHANGED <<submission, row, upserted, dbVars, faults>>

(* Behaviour, policy and security findings of the new run. *)
InsertFindings_NoCommit(r) == InsertOwn(r, "insertFindings", "findings", "committed")
InsertFindings(r) == InsertOwn(r, "insertFindings", "findings", "commit")

UpdateCount(r) ==
  /\ Executes(r, "updateCount")
  /\ wrote' = [wrote EXCEPT ![r] = @ \cup {"submission_count"}]
  /\ Goto(r, "commit")
  /\ UNCHANGED <<submission, handler, answer, row, upserted, dbVars, faults>>

(* PostgreSQL processes the COMMIT of a live request, or the one a cut-off
   request had already sent. *)
Commit(r) ==
  /\ pc[r] = "commit"
  /\ stored' = [t \in Tables |-> IF t \in wrote[r] THEN stored[t] \cup {row[r]} ELSE stored[t]]
  /\ submissionCount' = [submissionCount EXCEPT ![row[r]] =
       IF "evidence_submissions" \in wrote[r] THEN 1
       ELSE IF "submission_count" \in wrote[r] THEN @ + 1 ELSE @]
  /\ identity' = [identity EXCEPT ![row[r]] =
       IF "verified_ci_identities" \in wrote[r] THEN Bundle(r) ELSE @]
  /\ applied' = applied \cup {r}
  /\ held' = [held EXCEPT ![r] = {}]
  /\ wrote' = [wrote EXCEPT ![r] = {}]
  /\ Goto(r, IF handler[r] = "live" THEN "committed" ELSE "done")
  /\ UNCHANGED <<submission, handler, answer, row, upserted, faults>>

(* PostgreSQL ends a transaction its request no longer drives.  The statement
   in flight finishes first, so it still waits for its lock. *)
Rollback_OnErrorOnly(r) ==
  /\ pc[r] = "rollback"
  /\ held' = [held EXCEPT ![r] = {}]
  /\ wrote' = [wrote EXCEPT ![r] = {}]
  /\ Goto(r, "done")
  /\ UNCHANGED <<submission, handler, answer, row, upserted, dbVars, faults>>
Rollback(r) ==
  /\ handler[r] # "live"
  /\ pc[r] \in Statements
  /\ Granted(r)
  /\ held' = [held EXCEPT ![r] = {}]
  /\ wrote' = [wrote EXCEPT ![r] = {}]
  /\ Goto(r, "done")
  /\ UNCHANGED <<submission, handler, answer, row, upserted, dbVars, faults>>

Respond(r) ==
  /\ pc[r] = "committed"
  /\ answer' = [answer EXCEPT ![r] =
       IF row[r] = r THEN "ACCEPTED_NEW" ELSE "ACCEPTED_DUPLICATE"]
  /\ Goto(r, "done")
  /\ UNCHANGED <<submission, handler, txVars, dbVars, faults>>

-----------------------------------------------------------------------------
(* Faults *)

(* Whatever cuts a request off, a transaction it has open is left to end on
   its own; without one the request is over. *)
CutOff(r) == IF pc[r] \in Statements THEN pc[r] ELSE "done"

AtAwait(r) == handler[r] = "live" /\ pc[r] \in Statements \cup {"begin", "committed"}

(* TimeoutLayer drops the handler's future at an await and answers 408. *)
Timeout(r) ==
  /\ faults < MaxFaults
  /\ AtAwait(r)
  /\ Goto(r, CutOff(r))
  /\ handler' = [handler EXCEPT ![r] = "dropped"]
  /\ answer' = [answer EXCEPT ![r] = "TIMEOUT"]
  /\ faults' = faults + 1
  /\ UNCHANGED <<submission, txVars, dbVars>>

(* A statement, the COMMIT included, fails because the connection is lost. *)
ConnectionLost(r) ==
  /\ faults < MaxFaults
  /\ handler[r] = "live"
  /\ pc[r] \in Statements \cup {"committed"}
  /\ Goto(r, CutOff(r))
  /\ handler' = [handler EXCEPT ![r] = "lost"]
  /\ answer' = [answer EXCEPT ![r] = "PERSISTENCE_ERROR"]
  /\ faults' = faults + 1
  /\ UNCHANGED <<submission, txVars, dbVars>>

(* The server process dies and is started again: its clients get no answer. *)
Crash ==
  /\ faults < MaxFaults
  /\ pc' = [r \in Requests |-> IF pc[r] = "idle" THEN "idle" ELSE CutOff(r)]
  /\ handler' = [r \in Requests |-> IF pc[r] \in {"idle", "done"} THEN handler[r] ELSE "lost"]
  /\ faults' = faults + 1
  /\ UNCHANGED <<submission, answer, txVars, dbVars>>

-----------------------------------------------------------------------------

Serve(r) ==
  \/ Receive(r) \/ Admit(r) \/ VerifyIdentity(r)
  \/ Begin(r) \/ AdvisoryLock(r) \/ SelectAttestation(r)
  \/ Upsert(r) \/ InsertAttestation(r) \/ InsertRun(r) \/ InsertSubmission(r)
  \/ SelectIdentity(r) \/ InsertIdentity(r) \/ InsertFindings(r) \/ UpdateCount(r)
  \/ Commit(r) \/ Rollback(r) \/ Respond(r)

Finished == (\A r \in Requests : pc[r] = "done") /\ UNCHANGED vars

Next ==
  \/ \E r \in Requests : Serve(r) \/ Timeout(r) \/ ConnectionLost(r)
  \/ Crash
  \/ Finished

Spec == Init /\ [][Next]_vars

(* tokio polls every request and PostgreSQL executes every statement whose
   lock is granted; nothing forces a client, a timeout or a failure. *)
Fairness == \A r \in Requests : WF_vars(Serve(r) /\ pc[r] # "idle")
FairSpec == Spec /\ Fairness

-----------------------------------------------------------------------------
(* Properties *)

Types ==
  /\ submission \in [Requests -> Submissions]
  /\ pc \in [Requests -> Phases]
  /\ handler \in [Requests -> {"live", "dropped", "lost"}]
  /\ answer \in [Requests -> Answers]
  /\ row \in [Requests -> Requests \cup {NoRow}]
  /\ upserted \in [Requests -> Nat]
  /\ wrote \in [Requests -> SUBSET Writes]
  /\ held = [r \in Requests |-> held[r]]
  /\ stored \in [Tables -> SUBSET Requests]
  /\ submissionCount \in [Requests -> Nat]
  /\ identity \in [Requests -> Bundles \cup {NoBundle}]
  /\ applied \subseteq Requests
  /\ faults \in 0 .. MaxFaults

(* The cursor of the upsert loop is at a row to upsert. *)
CursorInRange ==
  \A r \in Requests :
    /\ pc[r] \in {"idle", "admission", "verifyIdentity", "begin", "lock", "select"} => upserted[r] = 0
    /\ pc[r] = "upsert" => upserted[r] < Len(UpsertRows(EnvelopeOf[submission[r].body]))

(* Every variable has its type, and persist never indexes past the rows of the
   evidence it upserts. *)
TypeOK == Types /\ CursorInRange

SameEnvelope(q, r) == EnvelopeOf[submission[q].body] = EnvelopeOf[submission[r].body]

(* A DSSE envelope has at most one attestation, however many requests submit
   it at once and however its bytes are formatted (canonical_envelope_id and
   the advisory lock of persist). *)
OneAttestationPerEnvelope ==
  \A a, b \in stored["attestations"] : SameEnvelope(a, b) => a = b

(* The rows of one ingested attestation become visible together: readers never
   find an attestation without its run, its submission record or its findings
   (the single transaction of persist). *)
EvidenceIsAtomic == \A t \in Tables : stored[t] = stored["attestations"]

(* A client is told ACCEPTED only of committed evidence, and exactly one of
   the accepted submissions of an envelope is told it was new. *)
AcceptedIsStored ==
  /\ \A r \in Requests : answer[r] \in {"ACCEPTED_NEW", "ACCEPTED_DUPLICATE"} =>
       /\ r \in applied
       /\ \E a \in stored["attestations"] : SameEnvelope(a, r)
  /\ \A q, r \in Requests :
       answer[q] = "ACCEPTED_NEW" /\ answer[r] = "ACCEPTED_NEW" /\ SameEnvelope(q, r) => q = r

(* submission_count counts every committed submission of the envelope once,
   those whose client got a timeout or an error instead of the answer too. *)
CountsEverySubmission ==
  \A a \in stored["attestations"] :
    submissionCount[a] = Cardinality({r \in applied : SameEnvelope(a, r)})

(* A valid submission is refused with PERSISTENCE_ERROR only when its
   connection failed or when another bundle is bound to the envelope: requests
   that race on the same envelope never fail each other on a unique key. *)
NoSpuriousError ==
  \A r \in Requests : answer[r] = "PERSISTENCE_ERROR" =>
    \/ handler[r] = "lost"
    \/ \E a \in stored["attestations"] :
         SameEnvelope(a, r) /\ identity[a] \notin {NoBundle, Bundle(r)}

(* PostgreSQL never has to break a cycle of transactions waiting for each
   other: all of them take the advisory lock and then the shared rows in one
   order. *)
NoLockCycle ==
  \A S \in SUBSET Requests : S = {} \/
    \E r \in S : \A q \in S \ {r} : Wants(r) \cap held[q] = {}

(* Evidence is append-only: no step removes a row, changes the identity bound
   to it or lowers its submission count. *)
EvidenceIsImmutable ==
  [][/\ \A t \in Tables : stored[t] \subseteq stored'[t]
     /\ \A a \in Requests : /\ identity[a] # NoBundle => identity'[a] = identity[a]
                            /\ submissionCount[a] <= submissionCount'[a]]_vars

(* Every request that reached the server is over eventually, and without a
   fault it has been answered. *)
EveryRequestEnds ==
  \A r \in Requests : (pc[r] # "idle") ~> (pc[r] = "done" /\ held[r] = {}
                                           /\ (answer[r] # "none" \/ handler[r] = "lost"))

-----------------------------------------------------------------------------
(* The inductive invariant behind the safety properties *)

BeforeRow == {"idle", "admission", "verifyIdentity", "begin", "lock", "select",
              "upsert", "insertAttestation"}
Serialized == Statements \ {"lock"}
OwnRows == {"attestations", "verification_runs", "evidence_submissions"}

(* What a transaction has written when it reaches each statement. *)
TransactionShape(r) ==
  /\ pc[r] \in BeforeRow => row[r] = NoRow /\ wrote[r] = {}
  /\ pc[r] = "insertRun" => row[r] = r /\ wrote[r] = {"attestations"}
  /\ pc[r] = "insertSubmission" => row[r] = r /\ wrote[r] = {"attestations", "verification_runs"}
  /\ pc[r] \in {"selectIdentity", "insertIdentity"} =>
       /\ row[r] \in Requests
       /\ wrote[r] = IF row[r] = r THEN OwnRows ELSE {}
  /\ pc[r] = "insertFindings" =>
       row[r] = r /\ wrote[r] \ {"verified_ci_identities"} = OwnRows
  /\ pc[r] = "updateCount" =>
       row[r] \in Requests \ {r} /\ wrote[r] \subseteq {"verified_ci_identities"}
  /\ pc[r] = "commit" =>
       /\ row[r] \in Requests
       /\ wrote[r] \ {"verified_ci_identities"} = IF row[r] = r THEN Tables ELSE {"submission_count"}
  /\ pc[r] \in {"committed", "done"} => wrote[r] = {}
  /\ pc[r] = "committed" => row[r] \in Requests

(* A request whose attestation is visible has committed. *)
PublishedIsOver == \A a \in stored["attestations"] : pc[a] \in {"committed", "done"}

Shape == (\A r \in Requests : TransactionShape(r)) /\ PublishedIsOver

(* No lock has two holders, and from its first SELECT to its end a transaction
   holds the advisory lock of its envelope. *)
LocksHeld ==
  /\ \A q, r \in Requests : q # r => held[q] \cap held[r] = {}
  /\ \A r \in Requests : pc[r] \in Serialized => AdvisoryKey(r) \in held[r]

(* While a transaction inserts an attestation its envelope has none; the row
   a repetition works on is the attestation of its envelope. *)
RowsMatch ==
  /\ \A r \in Requests :
       \/ pc[r] \in {"upsert", "insertAttestation"}
       \/ pc[r] \in Serialized \ {"rollback"} /\ row[r] = r
       => RowsWithId(Id(r)) = {}
  /\ \A r \in Requests : row[r] \notin {r, NoRow} =>
       row[r] \in stored["attestations"] /\ SameEnvelope(row[r], r)
  /\ \A a \in stored["attestations"] : a \in applied /\ row[a] = a
  /\ \A r \in applied :
       /\ pc[r] \in {"committed", "done"}
       /\ row[r] \in stored["attestations"]
       /\ SameEnvelope(row[r], r)
  /\ \A r \in Requests : pc[r] = "committed" => r \in applied

(* docs/network-mvp.md: SIGSTORE_KEYLESS_CI is assigned only after a Cosign
   bundle was verified over the exact immutable attestation bytes that the
   server keeps for the evidence. *)
BundleCoversStoredBytes ==
  \A a \in stored["attestations"] :
    identity[a] # NoBundle => <<identity[a], submission[a].body>> \in Verifies

(* The abstract store: attestations by envelope, effects and answers. *)
RowOf(e) == CHOOSE a \in stored["attestations"] : EnvelopeOf[submission[a].body] = e
IsStored(e) == \E a \in stored["attestations"] : EnvelopeOf[submission[a].body] = e

Store == INSTANCE EvidenceStore WITH
  NoSubmission <- NoRow,
  original <- [e \in Envelopes |-> IF IsStored(e) THEN submission[RowOf(e)].body ELSE NoBody],
  count <- [e \in Envelopes |-> IF IsStored(e) THEN submissionCount[RowOf(e)] ELSE 0],
  proof <- [e \in Envelopes |-> IF IsStored(e) THEN identity[RowOf(e)] ELSE NoBundle],
  effect <- [r \in Requests |->
    IF r \notin applied THEN "none" ELSE IF row[r] = r THEN "new" ELSE "duplicate"],
  answer <- [r \in Requests |->
    IF answer[r] \in {"PERSISTENCE_ERROR", "TIMEOUT"} THEN "UNKNOWN" ELSE answer[r]]

(* Ingestion implements the abstract evidence store: concurrency, locks and
   faults are invisible to clients. *)
ImplementsStore == Store!Spec
=============================================================================
