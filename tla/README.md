# DepGuard in TLA+

DepGuard compares a project with one dependency at its current version and at a
candidate version, writes what it saw as *Compatibility Evidence V1*, signs it as
a DSSE attestation and, if asked to, publishes it to an Evidence Network server
backed by PostgreSQL. This directory specifies the parts of it whose correctness
depends on the order in which things happen. Every definition is translated from
the Rust sources; `PROJECT.json` names the lines each one stands for.

## 1. Inventory

| component (crate) | state | operations | hard behaviour | what makes it correct |
|---|---|---|---|---|
| ingestion (`depguard-server`) | tables `attestations`, `verification_runs`, `evidence_submissions`, `findings`, `verified_ci_identities` and the shared `signers`, `packages`, `package_versions`, `version_transitions`, `environments`, `methodology_versions` | `POST /v1/evidence`, `/v1/submissions`: checks, Cosign, one transaction `persist` | concurrent requests, lock order, pool limit, 15 s timeout, lost connection, crash, client retries | one attestation per envelope, all rows or none, truthful answers, each committed submission counted, no deadlock |
| admission and identity verification (`depguard-server`, Cosign) | child process, temporary files | checks of a submission, `CosignCliVerifier::verify`, `identity_from_verified_bundle`, `IdentityPolicy::validate` | child that hangs, blocking a runtime thread, missing binary, claims that contradict each other | flawed submissions cost nothing, an identity is bound only if it was verified, and is one workflow in the repository it claims, with a URI that ends in the ref it claims |
| public queries (`depguard-server`) | none of its own | packages, versions, paginated evidence, aggregates of a transition, raw evidence | several statements without a transaction while ingestion goes on | walks neither skip nor repeat evidence, aggregates account for what they count, links of an answer resolve |
| worker (`depguard-worker`), migrations | materialised summaries | connect, migrate, `rebuild_aggregates` | none: `rebuild_aggregates` does nothing yet | - |
| `depguard verify` (`depguard-cli`) | twin workspaces, evidence file | resolve, copy, prepare, execute, check, evaluate, write | the project changes meanwhile, any step fails, a repeated run | evidence only for a valid comparison, statuses that say what happened |
| sandbox (`depguard-sandbox`) | a detached Docker container | `run`: start, poll, kill, logs, exit code, remove | container, clock and docker commands race; docker fails; the CLI is killed | the status is what the command did, no container left behind, `run` returns |
| twins (`depguard-resolver`) | temporary copies | `prepare_twins` | copies of a live tree | both twins come from one project |
| npm adapter (`depguard-npm`) | artifact cache in the project | `current_direct_version`, metadata, `fetch`, `verify_sri`, lock graph | a cache file written in part, two verifications in one cache, a registry that changes an archive | the artifact used is the one digested, the baseline is the version in use |
| attestation (`depguard-attestation`; commands `key-generate`, `attest`, `attest-verify`) | key files, evidence file, attestation file | `generate_key`, `sign`, `verify`, `verify_envelope` | commands meeting in the files, order of the checks, checks that only one of attest and verify makes | what is signed verifies with its key if its PURLs are those of its package, what verifies was signed, contents are judged only when authentic |
| `depguard publish` (`depguard-network-client`) | none; reads the attestation file | POST, decode the answer | lost answers, retries | accepted means stored |
| evidence, core (`depguard-evidence`, `depguard-core`) | none | `project`, canonical digest, schema | - | statuses map one to one |
| policy, config, diff, observer, provenance, security | none | pure functions, one OSV request | OSV unavailable | a denial exactly for what is to be denied |
| legacy bootstrap (`src/*.js`) | - | not reached by `bin/depguard.js`, which starts the Rust CLI | - | - |

The CLI calls resolver, sandbox, npm, policy and evidence in sequence. The client
sends an attestation file to the server over HTTP. Requests of the server meet
only in PostgreSQL: in row locks, an advisory lock and the connection pool. The
queries see committed rows.

## 2. Plan

In this order, the most important behaviour first:

1. `Ingest`, with `EvidenceStore`, the abstract specification it implements: the
   shared state of the system. *Done, with proofs.*
2. `TransitionQuery`: the read side against ingestion. *Done, with proofs.*
3. `Sandbox`: the verdict on a command. *Done, with proofs.*
4. `Verify`: from the developer's project to evidence and its classification.
   *Done, with proofs.*
5. `Publish`: the CLI and the network client over a connection that loses
   messages, composed with `EvidenceStore` as the server. *Done, with proofs.*
6. `Attestation`: the ordered checks of `verify` and the commands that share the
   key and attestation files. *Done, with proofs.*
7. `Admission` and `CosignVerifier`: the order of the checks, the claims of a
   certificate, child processes, deadlines and the worker threads they block.
   *Done, with proofs.*
8. `NpmProject` and `ArtifactCache`: what a project pins, and several `verify` in
   one project, interrupted at any point (`depguard-npm`), composed with `Verify`.
   *Done, with proofs for the cache.*
9. Left: what `EvidenceStore` promises of its own state (counts against effects), proved
   for the abstract specification and so for everything that implements it.

Composition: `Ingest` instantiates `EvidenceStore` under a refinement mapping;
`Publish` instantiates `EvidenceStore` and drives its actions, so it sees the
server through what `Ingest` was shown to implement. `CosignVerifier` extends `Admission`, which decides
what a handler answers. `Verify` extends `ArtifactCache`, whose steps its fetches
and those of another verification are, instantiates `NpmProject`, and takes from
`Sandbox` the three statuses a command may end with. Modules with theorems and those they
use declare no recursive operator.

## 3. The modules and the code

Every module follows one convention: a variable is a piece of state of the code
(or of the environment), an action is what the code does between two points
where somebody else can act (a statement sent to PostgreSQL, a docker command, a
system call on a file, an await), and an action carries everything the code does
in between. Failures and crashes are actions counted by `MaxFaults` or a bound
named after what it bounds.

### `EvidenceStore`
What the network promises: an envelope is stored once with the bytes that came
first, repetitions are counted, the first bundle accepted stays bound, a
submission takes effect at most once, and an answer says what happened or
`UNKNOWN`. No requests in flight, no locks.

### `Ingest` - `depguard-server`, `ingest_attestation` and `persist`
`pc[r]` is the statement a request is at; `row`, `wrote`, `upserted` are the local
variables and uncommitted writes of its transaction; `held` its row, index and
advisory locks; `stored`, `submissionCount`, `identity` the committed tables.
`Admit` is every check that needs only the bytes; `VerifyIdentity` the Cosign
call; `Begin` takes a pooled connection; `AdvisoryLock` to `Commit` are the
statements of `persist` in order, each waiting for the lock it takes
(`Wants`, `Granted`). `READ COMMITTED` appears as: a `SELECT` reads `stored`, writes
stay in `wrote` until `Commit`. `Timeout` drops the future at an await: the
transaction it left is rolled back, unless its `COMMIT` was already sent.
`ConnectionLost` and `Crash` leave the same choice to PostgreSQL.
A request that inserts stands for the row id its `INSERT` returns.

### `TransitionQuery` - the read routes
`runs` and `certified` are what ingestion committed, `walk` a client following
`nextCursor`, `lookup` the aggregate handler between its queries. `FetchPage` is one
request with the extra row that tells whether there is more; `ReadTotals`,
`ReadGroup`, `Reply` are the statements of one aggregate reply, which runs outside
a transaction. `Groups` are all eight, in the order of the handler. Six count the runs by a
column (`ColumnOf`), the last by assurance through a `LEFT JOIN`; `behaviorFindings`, the
seventh, joins `behavior_findings` and so counts findings (`FindingsOf`, `Findings`): a run
without any does not count, one with three counts three times, though the field is
named `runs` there too. A failing group becomes `Null` in the reply, as in the code. `visit` is
what a client following links (`Follow`) has in hand: the package's versions, a
version's transitions, a transition's evidence, the evidence. In each
behaviour one client is at work, since the queries do not affect each other.

### `Sandbox` - `depguard_sandbox::run`, `parse_timeout`
`cfg` is the sandbox section of `depguard.yaml`; `ParseTimeout` multiplies minutes as a
release build does, in integers of a fixed width (`Modulus`).
`pc` walks through start, inspect, deadline, kill, logs, exit code, remove.
`container`, `exitCode` and `elapsed` belong to Docker and the clock, which move
between any two docker commands. Each docker command may fail in the way the code
reacts to: not spawned (the `?` returns) or an unsuccessful exit that is ignored.

### `Verify` - `depguard verify`, `prepare_twins`, `execute`, `evaluate`, `project`
`Resolve` reads the version the project depends on (`NpmProject`), `Fetch` are the
steps of `ArtifactCache`, `CopyBaseline` and `CopyCandidate` copy the live tree, and
`PrepareBaseline` and `PrepareCandidate` give each copy its archive from the cache.
`Other` is another verification in the same cache, which may fetch the archives this one
needs (`OthersFetch`, any set of archives in the proofs).
The twins remember which contents they were copied from; `RunCommand` is one
iteration of `execute` with every status a sandbox run may have; `CheckInstalled`
the comparison of versions; `Write` evaluates the policy, projects the evidence and
writes the file. `Classify` is what the server derives from that evidence. `Edit` is
the developer, `Abort` any failing step, `Again` another verification over the same
evidence file.

### `NpmProject` - `current_direct_version`, `prepare_world`
A JSON document is a function from paths to values and a key a sequence of the
segments its `/` separate, which is all it takes to tell a JSON pointer from the
lookup of a key. `LockedVersion` is what npm makes of the same lockfile.

### `ArtifactCache` - `NpmRegistry::fetch`
`cache` maps a digest to the file under its name, with the archive it was opened for
and who still has to fill it; `step` and `archive` are the local state of each `fetch`.
`Exists` looks at the name only, `Open` truncates, `Fill` completes: when two
verifications write at the same time either may be the one that completes the file.
`GiveUp` is an error or a kill at any step.

### `Publish` - `depguard publish` and `depguard-network-client`
Per publisher: read the file, verify the bytes, post them, decode the reply. The
file is truncated and rewritten by others meanwhile (`Truncate`, `Rewrite`). The
server is `EvidenceStore`; a request it has may take effect after its publisher
gave up. `Answer` uses `UNKNOWN` for what the code answers with
`PERSISTENCE_ERROR` or without JSON, where the client cannot know whether the
evidence was stored.

### `Attestation` - `depguard-attestation`, `key-generate`, `attest`, `attest-verify`
`Checks` is the table of the checks of `verify` in the order of the code with the
verdict of each; the first that fails decides, and `Fails` says when a check does. An
envelope is its evidence, the evidence whose digest it gives, the candidate its subject
is, its signer, the key ID it names and a set of flaws of its form, so Ed25519, base64
and RFC 8785 are abstracted to *who signed what*. What attest checks before it signs
(`Conforms`, the schema) and what verify asks of the same evidence (`Conforms` and
`PurlsMatch`) are apart, as in the code. The commands read and write the files in the
code's steps; `std::fs::write` is a truncation and then the contents.

### `Admission` - `ingest_submission`, `identity_from_verified_bundle`, `IdentityPolicy`
Tables of checks in the order of the code; the first that fails gives the answer
(`FirstFailure`). A submission is the set of its flaws. A claim of the certificate is
a value, absent or malformed, with the generic and the legacy extension apart where
the code knows two; what an extension's number means is taken from the code's comments.
A workflow URI keeps the pieces of its text behind each "@", because the code compares
it with the ref by `ends_with`, and a branch name may contain an "@".

### `CosignVerifier` - `CosignCliVerifier::verify`, `run_cosign_with_timeout`
`TakeUp` makes every check of `Admission` in one step, since no await comes between
them; after a successful Cosign `Reap` reads the certificate and applies the policy.
`verify` never awaits, so a handler in it has its worker thread to itself
(`ThreadFree`); `Reap`, `Late`, `Kill`, `Wait` are the poll loop, `TimesOut` the request
timeout, which fires only when a thread is free to poll it. Cosign may exit
between any two looks, or hang. Which of the free threads takes a request (tokio's
queues) is left open. Time passes in ticks, and a tick waits for handlers that can
move: the work between two ticks is short against the seconds of the timeouts.
`Due` says when that is, condition by condition, so that it can be reasoned about
without `ENABLED`. `age` counts from the arrival of a request, the timer of the
`TimeoutLayer` from its take-up; the wait between the two is part of `Longest`.

## 4. Runs

| run | what it asks | bounds | result |
|---|---|---|---|
| `ingest_races` | racing submissions of one envelope in two formattings with any proofs, or of the downgrade of the same package; the run also checks the refinement `ImplementsStore` | 3 requests, 3 connections, 1 fault | holds |
| `ingest_liveness` | does every request end | 2 requests, 1 connection, colliding advisory keys, 2 faults | holds |
| `ingest_stored_bytes` | does a bound bundle cover the stored bytes | 2 requests, no fault | violated, finding 1 |
| `transition_reads` | walks, aggregates and links during ingestion | 4 pieces of evidence of 2 transitions with 0, 1 and 3 findings, page limits -1, 0, 7 and none against a default of 1 and a maximum of 2, 1 failing query | holds |
| `sandbox_run` | the verdict, the container, termination | timeouts of 0 s, 3 s, 2, 4 and 5 min with 2 ticks to the minute and integers below 8, exit codes 0 and 1, 2 faults | holds |
| `verify_runs` | evidence, its classification, the cache | 3 commands, 3 project contents, 3 archives (two served for one version), 2 policy rules, 1 edit, 2 verifications in sequence and another beside them, which fetches the baseline's archive or the candidate's | holds |
| `verify_baseline` | is the baseline the version in use | the same, a locked version, no edit | violated, finding 2 |
| `verify_twins` | are the twins equivalent | as above, 1 verification | violated, finding 3 |
| `verify_digest` | does a repeated run keep the digest | 2 durations, 2 verifications, no edit | violated, finding 4 |
| `publish_retry` | what publishers are told, with lost messages | 2 publishers, 2 tries each, 3 byte strings, 1 rewriting, 1 fault | holds |
| `attestation_files` | commands racing on the files, foreign envelopes | 2 keys, 3 evidence files (one good, one with edited PURLs, one outside the schema), 1 foreign envelope with up to two flaws, a wrong key ID, digest or candidate | holds |
| `cosign_times` | what verifications do to each other and to a submission without proof | 3 requests with up to two flaws, 23 certificates, 1 thread, Cosign limit 2 ticks, request limit 3 ticks, 2 faults | holds |

Why these bounds are enough to be interesting:

- *Ingest.* Two requests race on an envelope; the third sees what both left, or
  brings a third lock order. `up` and `down` upsert the same package versions in
  opposite order, which is where a lock cycle could come from. `MCVerifies` has a
  bundle for each formatting, so a repetition may bring the same, another, or a
  worthless proof. One fault reaches a cut-off at every statement, two (in
  `ingest_liveness`) a cut-off of both transactions. With one connection and a
  colliding hash everybody waits for everybody.
- *TransitionQuery.* Three rows of the transition that is walked give walks of one to
  three pages with evidence arriving below, between and beyond the cursor, and one row
  of another transition, from the version the first ends at, must stay out of them; the limits are below
  and above the bounds of `bounded_limit` and those bounds, whose 50 and 100 are scaled to 1 and 2.
  The nine statements of one aggregate reply interleave with the ingestion of runs
  without a finding, with one, and with three of two kinds.
- *Sandbox.* Three seconds or two minutes let the command end before, at and after
  the deadline, zero seconds leave it no time, four and five minutes overflow; two faults combine a failing poll with a failing removal or kill.
- *Verify.* One content pins a version, one has a range only, one does not depend on
  the package; the registry changes an archive between two fetches. The `test` script comes and goes with edits, so each world can skip a
  command the other runs; the rules `newlyAdded` and `high` reach review and denial.
- *Publish.* One lost message before or after the server has the request, then a
  repetition, against another publisher of the same envelope with another proof.
- *Attestation.* The order of two checks is visible with two flaws; two key pairs
  can be interleaved file by file. The edited evidence is signed by attest and refused
  by verify, the one outside the schema reaches verify in foreign envelopes only.
- *Cosign.* With one thread and two proofs `InTime` is tight: a request can take
  exactly `Longest` ticks. Every claim is missing or contradicted in some certificate,
  the ref also where only the legacy extension makes it, and a flaw of the attestation
  comes with one of the proof. The branch has an "@" in its name, so the usual workflow
  URI ends in two refs, and both are accepted.

Symmetry is used in `ingest_races` only: requests are interchangeable, no
liveness is checked there, and the `CHOOSE` of a row picks from a set with at most one
element (`OneAttestationPerEnvelope`). `CHECK_DEADLOCK FALSE` stands in the runs whose system really
stops: a command that has returned, files nobody touches, clients that are served.
`Ingest` has an explicit `Finished` instead, so there TLC looks for deadlocks too.

### Properties worth a remark

- `NoSpuriousError`: a valid submission gets `PERSISTENCE_ERROR` only if its
  connection failed or another bundle is bound; this depends on the advisory lock
  being taken before the first `SELECT`.
- A repetition with another valid bundle is such a case: it is refused, rolled back and
  therefore not counted, so `CountsEverySubmission` counts committed submissions.
- `NoLockCycle` is about the waits-for graph itself, so it does not depend on
  PostgreSQL's deadlock detection.
- `EvidenceNamesArchives` holds although the cache is shared, may hold a part of a file
  and is never read back by `fetch`: files are named by the digest of the bytes, and npm
  does not take a part of an archive. `PartialHasCause` says where parts come from.
  Such a part stays: every later verification finds it and fails until it is removed.
- `FlawedIsRefused` is about order: no proof is looked at before the attestation is.
- `IdentityIsCoherent` says what the code ensures of `docs/network-mvp.md:57` ("mutually
  consistent"), which is less than it may suggest. Repository and ref are read from the
  generic extension, from the legacy one only if there is no generic one; a legacy
  claim beside a generic one is not read and may contradict it. The ref is held against
  the workflow URI by its end, so a workflow at the branch `v1@refs/heads/main` also
  passes with the ref `refs/heads/main`. Which extension is which is the code's comments'.
- `SignedVerifies` has one verdict other than the key's: attest signs whatever is in the
  schema, and the schema asks of a PURL that it begins with `pkg:`. Evidence whose PURLs are not
  those of its package and versions is signed and then refused with
  `INVALID_ARTIFACT_RELATIONSHIP`, exit code 44.
- `GroupsCoverTotals`: the groups of an aggregate count runs, but `behaviorFindings`
  counts the findings of runs by an inner join, so a run without findings is not
  counted and one with several more than once; the property says so group by group.
- `LinksResolve` depends on the transition and its versions being committed with the
  evidence that first names them, and on `version_lookup` looking at both ends.
- `EvidenceIsComparable` speaks of a `verify` that succeeded. A failed one leaves
  an older evidence file in place.
- `OutcomeIsHonest` holds although the project may be edited between the copies: it
  says what may be concluded from the commands' results, `TwinsAreEquivalent` says
  what these results may be compared for.
- `VerdictMatchesCommand` and `NothingLeftBehind` (`Sandbox`) name their exceptions:
  a failing `docker inspect` is taken for a stopped container,
  a timeout in minutes that overflows becomes a short one (a debug build panics instead),
  and a container is left behind when docker could not be called, `docker rm`
  failed or the CLI was killed.
- `AnswersAreTrue` excludes `PERSISTENCE_ERROR`, which carries the status
  `REJECTED` although the evidence may have been committed.
- `PublisherIsTold` excludes an envelope bound to another proof: the server answers
  with the generic error there, and a publisher who repeats the command never
  learns why.
- `InTime`: the request timeout of 15 s is no bound for a request; verifications
  that hold every thread come on top. A child that `try_wait` failed for is no longer
  attended to: it may run on, and neither `InTime`, the bound on children in `TypeOK`
  nor `NothingLeftBehind` (`CosignVerifier`) speaks of it.

## 5. Findings

1. `BundleCoversStoredBytes`, `docs/network-mvp.md:30-31`: "`SIGSTORE_KEYLESS_CI` is
   assigned only by the server after it verifies a Cosign blob bundle over those
   exact immutable attestation bytes". A repetition may be formatted differently;
   its bundle is verified over its own bytes and bound to the row that keeps the
   first submission's bytes.
2. `BaselineIsCurrent`, `main.rs:279`: the baseline is the "existing dependency state".
   `current_direct_version` (`depguard-npm/src/lib.rs:167`) looks for the locked version
   with the JSON pointer `/packages/node_modules/<package>/version`; a lockfile has the one
   key `node_modules/<package>` there, whose `/` a pointer escapes as `~1`. The lookup
   never succeeds, and the baseline is the range of `package.json` without its operator: `1.0.0`
   for `^1.0.0`, whatever is locked. For the same reason a scoped package is not found in the
   manifest either and refused as "not a direct dependency". `src/src/project.js:21`, the
   predecessor, reads the key.
3. `TwinsAreEquivalent`, `README.md:3`: "It creates equivalent baseline and candidate
   project twins". The live tree is copied twice; a file saved in between reaches
   one twin only.
4. `RepeatedRunsKeepDigest`, `docs/protocol/verification-methodology-v1.md:7`: "Run
   IDs, timestamps, raw durations, [...] are outside the canonical object". The
   summed wall time is inside it.

## 6. Fairness

- `Ingest!FairSpec`: weak fairness for every request that was received. tokio polls
  every live handler, PostgreSQL executes a statement once its lock is granted and
  rolls back what an abandoned connection left. Clients need not send anything;
  timeouts, lost connections and crashes need not happen.
- `TransitionQuery!FairSpec`: a client that began a walk goes on, a handler runs its
  queries. Ingestion is not fair.
- `Sandbox!FairSpec`: every docker command returns and time passes. The command in
  the container need not exit.
- `Publish!FairSpec`: the command goes on, publishers repeat it, the server answers or
  the connection breaks. The client has no timeout, so without this assumption a silent server
  keeps `publish` forever (listed as a hazard).
- `CosignVerifier!FairSpec`: time passes and a handler that can move moves. Neither
  Cosign nor the database need ever finish.
- `Verify` and `Attestation` state safety only.

## 7. Proofs

Eight modules hold theorems, checked by TLAPS from the assumptions named in the
modules (`SubmissionsAssumption`, `FiniteAssumption`, `BoundsAssumption`, ...), which
ask for no more than that constants have their types, special values are
distinct and Cosign's deadline is not longer than the request timeout (10 s and 15 s
in the code). There is no bound on requests, envelopes, threads, files or faults.

- `IngestProofs`. `TypeCorrect` carries `Shape`: what a transaction has written when
  it reaches a statement, one conjunct per statement. `LocksCorrect` shows that no
  lock has two holders and that a transaction past its first statement holds the
  advisory lock of its envelope. `RowsCorrect` uses both: since two transactions of one
  envelope are never past the lock together, the answer of the first `SELECT` stays true
  until `Commit`. From `RowsMatch` follow `UniqueAttestations` (`Commit` is the only step
  that adds a row, and none with the id was there), `AtomicEvidence` (from `Shape`:
  a transaction that commits wrote all tables or none), `AcceptedEvidence` (with
  `AnswersMatch`, what an answer says of its request) and `SubmissionsCounted`
  (`Commit` adds one request to the finite set whose cardinality the count is). None of these is inductive
  alone: uniqueness needs the locks, the locks need the order of the statements.
  `IdentitiesCorrect` (`Unbound`) is the same argument for identities: two transactions
  past their advisory locks never work on one row (`RowsDiffer`), so a row found without
  an identity has none until `Commit`. From it follow `ImmutableEvidence` and
  `ErrorsAreReal` (the unique keys never refuse an insert; an excuse for an error stays
  true). `Refinement` shows `Spec => Store!Spec`: `RowOf` is a function by uniqueness and
  does not move (`RowStays`), a `Commit` is `Store` or `Replay` on its envelope
  and leaves the others alone (`CommitMoves`), a request is answered once, with what it
  did (`TellStep`, `AnsweredOnce`), and everything else is a stuttering step (`Unmoved`).
  `NoDeadlock` needs an invariant about locks alone: `HeldByProgress`, a transaction holds
  nothing before its advisory lock, then only that, the shared rows it has upserted and rows
  of its own. Of any transactions that wait, look first for one past the upserts: what it
  waits for belongs to its envelope, whose advisory lock it has (`OwnRowsAreFree`). If there
  is none, those before their advisory lock hold nothing, and of those at an upsert the one
  furthest on waits for nothing the others hold (`AheadIsFree`): the tables are taken in one
  order, and the only rows that two transactions take in opposite orders, those of the two
  versions, come after the row of their package (`RowsAt`).
- `TransitionQueryProofs`. Everything rests on `StoreGrows`: rows are added, never changed.
  `WalksComplete` from `WalkInv`, the argument about the cursor: of the rows that were there
  at the beginning, a walk has received all those up to the cursor, since `ORDER BY` and
  `LIMIT` return an initial part of the rows behind it (`FirstRowsOf`), and a page that is not
  full is all of them. `GroupsCovered` and `AssuranceProved` count: the groups of a query
  divide the rows of its join (`CountsAddUp`), so their sum is the number of runs, for
  `behaviorFindings` of findings, in the state in which the query ran (`GroupCounts`). `LinksProved` from `VisitInv`: every
  name a client holds was made from a row that is still there.
- `SandboxProofs`. `TypeCorrect` for every configuration the code accepts, in integers of any
  width. `VerdictSound` from `VerdictInv`: what the container, the clock and
  the CLI know of each other at each step; in particular that a container found
  exited without a timeout exited by itself, and that a recorded timeout is the one of
  the configuration unless that overflows. `NoContainerLeft` from `LeakInv`: before
  `docker run` there is no container, and after the return one is left only with a
  recorded cause; it is the inductive core of the property.
- `PublishProofs`. `IInv` relates the bytes a command read and verified, those it sent
  and what the server holds of its request: a request belongs to one command and
  carries what was verified, what took effect stays, and an answer on its way says what
  took effect. `VerifiedLeaves` and `TrueAnswers` follow. `NetworkImplemented` states the
  composition: publishers, their files and the connection together implement
  `EvidenceStore`, as `Ingest` does (`Refinement`), so the two meet in one specification.
- `AttestationProofs`. The lemmas `VerifyValid`, `VerifyJudges` and `VerifySigned` say
  what the table of checks implies, whatever the envelope: `VerifyJudges` is the
  argument about order (a verdict with exit code 44 stands behind the signature
  in the table, and the first failing check decides), `VerifySigned` the one about what
  attest writes: of all checks only the key's and the PURLs' can fail on it. One
  inductive invariant `IInv`, which says this of every envelope attest could write
  (`SignedRight`) so that writing one more does not disturb it, then gives `TypeCorrect`, `ValidVerdicts`, `ContentsAuthentic`, `SignedAttestations`.
- `ArtifactCacheProofs`. `CacheIsWhole`: the property is inductive together with the
  types, since it speaks of files, of who fills them and of what each verification has in
  hand; one lemma per step shows which files the step can disturb.
- `VerifyProofs`. The invariant of the cache is lifted to `Verify` (`CacheMoves`: every
  step of verify is a step of the cache or leaves it alone; `FilesStay`: a file once there
  stays) and strengthened by what each part of verify can rely on: `Ran` (results follow
  the plan and stop at the first failure; past the baseline nothing failed in it),
  `Archived` (from its fetch on, the file a world's digest names is in the cache; a twin
  holds that archive) and `Written` (what a file with evidence says). None of the three
  theorems holds by itself: `EvidenceNamesArchives` needs that a whole file in the cache is
  the archive of its name, `OutcomeIsHonest` that the two result lists are aligned
  (`SameEntries`, `Regression`), which `EvidenceCompared` derives from `Ran` when the file
  is written. `CacheImplemented` is the refinement behind the first step, `Spec => CacheSpec`,
  and `CachedUnderVerify` what it gives.
- `CosignProofs`. First lemmas about the tables of checks of `Admission`: the failing check with
  the least index exists (`MinExists`, by well-foundedness of the naturals), so the answer is a
  reason of the table or `None`, and `None` only if no check fails (`FirstFailureIsReason`).
  Hence a certificate without a reason against it has coherent claims (`ClaimsHold`).
  Then the handlers: `Held` (child and directory by position of the handler) and `Found`
  (what was concluded from the child) are invariant request by request; `IdentityProved`
  and `CleanedUp` follow. `CoherenceProved` adds that the certificate of a request past
  `Reap` passed its checks (`ClaimsHold`), for whatever generic and legacy claims, `RefusalProved` that a flawed request is in no
  position but the first two and the last (`Admitted`).
  `InTimeProved` is about all requests at once. `Waited(t)` is the reason a request may have
  waited `t` ticks: at each of these ticks all threads were in a verification that polls
  (`TickFinds`), and none lasts longer than `CosignTimeout`, so that many ticks later other
  verifications hold the threads. Hence `t` ticks take `Threads` verifications for every
  `CosignTimeout` of them or a part (`TickWaits`), and there are only so many
  (`WaitedBound`). What a request waited before its timeout is part of its 15 s already
  (`WaitedBefore`), which is why `Longest` counts the verifications once. The argument
  is by batches because the sum of all running times gives a weaker bound than `Longest`.

Every invariant, action property and refinement that a passing run checks is stated by a
theorem. Model-checked only: what needs fairness (`EveryRequestEnds`, `WalkEnds`,
`RunReturns`, `PublisherIsTold`, `EveryRequestAnswered`), which is outside the prover's
reach, and one half of what `Due` stands for. `OnlyWhenDue` proves that a handler only
moves when it is due; that it can move then is a matter of `ENABLED`, and
`EveryRequestAnswered` depends on it, since time would stop at a handler that is due
and cannot move. The four properties of the runs that expect a violation are false of
the code.

## 8. Not modelled

- npm: of the metadata only whether a version is published; `lock_graph` and
  `metadata_delta` compute data that is reported and digested, and no step depends on it.
- Twins: which files `copy_project` leaves out, and what npm writes into the lockfiles.
- Sandbox: `collect_processes` samples `docker top` for the report, `doctor` asks docker
  for its version; no verdict depends on either.
- Configuration: `licenses.deny`, the `behavior` section and
  `privacy.publish_evidence` are parsed and used nowhere in the code.
- `verify_attestation` (server) keeps no state and calls what `Attestation` models.
- Worker and migrations: `rebuild_aggregates` does nothing yet.
- `depguard-ecosystem`: a trait without implementation or caller. The JavaScript
  under `src/` is not reached from `bin/depguard.js`.
- Parsing and rendering: YAML, command lines, reports, JSON schemas, RFC 8785
  bytes, base64, Ed25519. What the properties need of them is a constant
  (`EnvelopeOf`, `Admissible`, `Valid`, `Verifies`) or equality of records.
- Snapshots of files and processes (`depguard-observer`, `depguard-diff`): pure data
  reported next to the verdict; the policy sees what it uses of them.
