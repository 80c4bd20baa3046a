-------------------------------- MODULE Verify --------------------------------
(***************************************************************************)
(* depguard verify: find the version the project depends on, fetch its     *)
(* archive and the candidate's, copy the project twice, give each copy its *)
(* archive, run the same commands in both copies, and turn what happened   *)
(* into Compatibility Evidence V1, which the network classifies.  A        *)
(* command is one step with the statuses module Sandbox allows.  The       *)
(* developer may edit the project meanwhile, another verification of the   *)
(* project may use the artifact cache, any step may fail, and the command  *)
(* may be run again with the same --evidence-out.                          *)
(***************************************************************************)
EXTENDS Naturals, Sequences, FiniteSets, SequencesExt, ArtifactCache

CONSTANTS
  Names,       \* the command names in plan order, "install" first
  Projects,    \* contents the project may have: scripts, manifest, lock
  Overrides,   \* the commands depguard.yaml gives itself, a set of names
  Package,     \* the dependency, as a key of NpmProject
  Candidate,   \* the version to verify
  Self,        \* this verification, one of Verifications
  OthersFetch, \* the archives the other verifications fetch
  WallTimes,   \* durations a verification may take
  Rules,       \* rules of policy configured in depguard.yaml
  MaxEdits,    \* bound on edits of the project
  MaxRuns      \* bound on verifications

Worlds == {"baseline", "candidate"}
NoEvidence == [state |-> "missing"]    \* no file at --evidence-out
Truncated == [state |-> "truncated"]   \* a file there that was written in part
Statuses == {"Passed", "Failed", "TimedOut"}   \* what depguard_sandbox::run returns

ASSUME NamesAssumption == Names \in Seq(STRING) /\ Names # << >> /\ Names[1] = "install"
ASSUME ProjectsAssumption ==
  /\ \A p \in Projects : p.scripts \subseteq ToSet(Names)
  /\ Overrides \subseteq ToSet(Names) \ {"install"}
ASSUME SelfAssumption == Self \in Verifications /\ OthersFetch \subseteq Archives
ASSUME RulesAssumption ==
  Rules \subseteq {"newlyAdded", "invalid", "newNetworkDestination", "high"}
ASSUME BoundsAssumption == MaxEdits \in Nat /\ MaxRuns \in Nat \ {0}

VARIABLES
  project,    \* what the developer's tree holds
  edits,      \* how often it was edited
  pc,         \* the part of verify being executed
  from,       \* the version the baseline stands for
  artifacts,  \* the archive fetched for each world
  copied,     \* the content each twin was copied from
  twins,      \* the archive each twin was given
  results,    \* command results of each world
  installed,  \* the version found installed in each twin
  exit,       \* what the command ended with: 0 is success, 40 failure
  file,       \* the file at --evidence-out
  runs        \* verifications begun

Project == INSTANCE NpmProject WITH Missing <- Nothing

envVars == <<project, edits>>
inputVars == <<from, artifacts>>
preparedVars == <<envVars, inputVars, cacheVars, copied, twins>>
vars == <<envVars, inputVars, cacheVars, pc, copied, twins, results, installed, exit, file, runs>>

Init ==
  /\ project \in Projects
  /\ edits = 0
  /\ CacheInit
  /\ pc = "resolve"
  /\ from = Nothing
  /\ artifacts = [w \in Worlds |-> Nothing]
  /\ copied = [w \in Worlds |-> project]
  /\ twins = [w \in Worlds |-> Nothing]
  /\ results = [w \in Worlds |-> << >>]
  /\ installed = [w \in Worlds |-> "none"]
  /\ exit = "none"
  /\ file = NoEvidence
  /\ runs = 1

Goto(part) == pc' = part

-----------------------------------------------------------------------------
(* Preparation *)

Exit_GoesOn(code) == exit' = code /\ UNCHANGED pc
Exit(code) == exit' = code /\ Goto("done")

VersionOf(w) == IF w = "baseline" THEN from ELSE Candidate
Published(version) == \E a \in Archives : a.version = version

(* The version the project depends on, and the registry's metadata of both. *)
Resolve ==
  /\ pc = "resolve"
  /\ from' = Project!CurrentDirectVersion(project)
  /\ IF Published(from') /\ Published(Candidate)
     THEN Goto("fetchBaseline") /\ UNCHANGED exit
     ELSE Exit("failure")
  /\ UNCHANGED <<envVars, artifacts, cacheVars, copied, twins, results, installed, file, runs>>

FetchPart(w) == IF w = "baseline" THEN "fetchBaseline" ELSE "fetchCandidate"

(* fetch of one world's archive, step by step ... *)
Fetch(w) ==
  /\ pc = FetchPart(w)
  /\ \E a \in Archives, declared \in Archives \cup {Nothing} :
       a.version = VersionOf(w) /\ CacheStep(Self, a, declared)
  /\ UNCHANGED <<envVars, inputVars, pc, copied, twins, results, installed, exit, file, runs>>

(* ... and the artifact it returns. *)
Fetched(w) ==
  /\ pc = FetchPart(w)
  /\ Return(Self)
  /\ artifacts' = [artifacts EXCEPT ![w] = archive[Self]]
  /\ Goto(IF w = "baseline" THEN "fetchCandidate" ELSE "copyBaseline")
  /\ UNCHANGED <<envVars, from, copied, twins, results, installed, exit, file, runs>>

(* prepare_twins copies the live tree once for each world ... *)
Copy(w, part, next) ==
  /\ pc = part
  /\ copied' = [copied EXCEPT ![w] = project]
  /\ Goto(next)
  /\ UNCHANGED <<envVars, inputVars, cacheVars, twins, results, installed, exit, file, runs>>
CopyBaseline == Copy("baseline", "copyBaseline", "copyCandidate")
CopyCandidate == Copy("candidate", "copyCandidate", "prepareBaseline")

(* ... and prepare_world gives each copy the cached archive, points its
   manifest at it and has npm lock it, which reads the archive. *)
Prepare(w, part, next) ==
  /\ pc = part
  /\ LET cached == cache[CachePath(artifacts[w])] IN
     IF Project!IsDirect(copied[w]) /\ cached.writer = Nothing
     THEN /\ twins' = [twins EXCEPT ![w] = cached.archive]
          /\ Goto(next) /\ UNCHANGED exit
     ELSE Exit("failure") /\ UNCHANGED twins
  /\ UNCHANGED <<envVars, inputVars, cacheVars, copied, results, installed, file, runs>>
PrepareBaseline == Prepare("baseline", "prepareBaseline", "prepareCandidate")
PrepareCandidate == Prepare("candidate", "prepareCandidate", "baseline")

(* Another verification fetches an archive into the same cache, perhaps one that
   this one fetches too, or is killed doing so.  Its steps matter only while this
   one uses the cache. *)
UsesCache == pc \in {"fetchBaseline", "fetchCandidate", "copyBaseline", "copyCandidate",
                     "prepareBaseline", "prepareCandidate"}
Other ==
  /\ UsesCache
  /\ \E p \in Verifications \ {Self} :
       \/ \E a \in OthersFetch : CacheStep(p, a, a)
       \/ Return(p)
       \/ GiveUp(p)
  /\ UNCHANGED <<envVars, inputVars, pc, copied, twins, results, installed, exit, file, runs>>

(* The command plan is read from the baseline twin and used for both. *)
Given(i) == i = 1 \/ Names[i] \in Overrides
Configured(i) == Given(i) \/ Names[i] \in copied["baseline"].scripts

-----------------------------------------------------------------------------
(* execute *)

Stops(status) == status \notin {"Passed", "NotConfigured"}
Executed(w) ==
  \/ Len(results[w]) = Len(Names)
  \/ results[w] # << >> /\ Stops(Last(results[w]).status)

(* npm run of a script the twin does not have fails. *)
StatusesOf(w, i) ==
  IF ~Configured(i) THEN {"NotConfigured"}
  ELSE IF Given(i) \/ Names[i] \in copied[w].scripts THEN Statuses
  ELSE {"Failed"}

RunCommand(w) ==
  /\ pc = w
  /\ ~Executed(w)
  /\ LET i == Len(results[w]) + 1 IN
     \E status \in StatusesOf(w, i) :
       results' = [results EXCEPT ![w] = Append(@, [name |-> Names[i], status |-> status])]
  /\ UNCHANGED <<preparedVars, pc, installed, exit, file, runs>>

HasStatus(rs, S) == \E i \in DOMAIN rs : rs[i].status \in S

BaselineInvalid_IgnoresTimeouts == HasStatus(results["baseline"], {"Failed", "InfrastructureFailure"})
BaselineInvalid == HasStatus(results["baseline"], {"Failed", "TimedOut", "InfrastructureFailure"})

BaselineExecuted ==
  /\ pc = "baseline" /\ Executed("baseline")
  /\ IF BaselineInvalid THEN Exit("failure") ELSE Goto("candidate") /\ UNCHANGED exit
  /\ UNCHANGED <<preparedVars, results, installed, file, runs>>

CandidateExecuted ==
  /\ pc = "candidate" /\ Executed("candidate")
  /\ Goto("installed")
  /\ UNCHANGED <<preparedVars, results, installed, exit, file, runs>>

(* installed_version of each twin: there may be none after a failed install,
   and a script may have installed another version. *)
MayHold(w) ==
  {VersionOf(w), "another"} \cup (IF Stops(results[w][1].status) THEN {"none"} ELSE {})

CheckInstalled ==
  /\ pc = "installed"
  /\ \E b \in MayHold("baseline"), c \in MayHold("candidate") :
       /\ installed' = [w \in Worlds |-> IF w = "baseline" THEN b ELSE c]
       /\ IF b = VersionOf("baseline") /\ c = VersionOf("candidate")
          THEN Goto("write") /\ UNCHANGED exit
          ELSE Exit("failure")
  /\ UNCHANGED <<preparedVars, results, file, runs>>

-----------------------------------------------------------------------------
(* Policy and evidence *)

(* No network is observed (network is always empty in both observations) and
   inspect_npm reports provenance as unavailable, never as invalid. *)
NewNetwork == FALSE
Provenance == "unavailable"

(* evaluate; a query of OSV that failed has no findings. *)
PolicyFindings(osv, lifecycle) ==
  {r \in Rules : \/ r = "newlyAdded" /\ lifecycle
                 \/ r = "invalid" /\ Provenance = "invalid"
                 \/ r = "newNetworkDestination" /\ NewNetwork
                 \/ r = "high" /\ osv = "vulnerable"}
PolicyOutcome_ReviewFirst(findings) ==
  IF findings \cap {"newlyAdded", "newNetworkDestination"} # {} THEN "REVIEW_REQUIRED"
  ELSE IF findings = {} THEN "NO_POLICY_FINDING" ELSE "POLICY_DENIED"
PolicyOutcome(findings) ==
  IF findings \cap {"invalid", "high"} # {} THEN "POLICY_DENIED"
  ELSE IF findings = {} THEN "NO_POLICY_FINDING" ELSE "REVIEW_REQUIRED"

PublicStatus(status) ==
  CASE status = "Passed"                -> "PASSED"
    [] status = "Failed"                -> "FAILED"
    [] status = "NotConfigured"         -> "NOT_CONFIGURED"
    [] status = "TimedOut"              -> "TIMEOUT"
    [] status = "InfrastructureFailure" -> "ERROR"

(* project: what becomes Compatibility Evidence V1.  Lockfiles, graphs and the
   file system snapshot follow from the copied contents. *)
Evidence(osv, lifecycle, wallTime) ==
  [versions     |-> [w \in Worlds |-> VersionOf(w)],
   artifacts    |-> artifacts,
   sources      |-> copied,
   verification |-> [w \in Worlds |->
     [i \in DOMAIN results[w] |->
       [name |-> results[w][i].name, status |-> PublicStatus(results[w][i].status)]]],
   osv          |-> osv,
   policy       |-> LET findings == PolicyFindings(osv, lifecycle) IN
                   [findings |-> findings, outcome |-> PolicyOutcome(findings)],
   wallTime     |-> wallTime]

(* The candidate may add lifecycle scripts, OSV know it, and the commands take
   any time.  The file is written over an earlier one. *)
Write ==
  /\ pc = "write"
  /\ \E osv \in {"unavailable", "clean", "vulnerable"}, lifecycle \in BOOLEAN, t \in WallTimes :
       file' = Evidence(osv, lifecycle, t)
  /\ Exit("success")
  /\ UNCHANGED <<preparedVars, results, installed, runs>>

-----------------------------------------------------------------------------
(* The network's classification of an accepted run *)

Classify_TimeoutUnseen(e) ==
  LET baseline == e.verification["baseline"]
      candidate == e.verification["candidate"] IN
  IF HasStatus(baseline, {"FAILED", "TIMEOUT", "ERROR"}) THEN "BASELINE_INVALID"
  ELSE IF e.policy.outcome = "POLICY_DENIED" THEN "POLICY_DENIAL"
  ELSE IF e.policy.outcome = "REVIEW_REQUIRED" THEN "REVIEW_REQUIRED_FINDING"
  ELSE IF HasStatus(candidate, {"ERROR"}) THEN "VERIFICATION_INFRASTRUCTURE_ERROR"
  ELSE IF HasStatus(candidate, {"FAILED"}) THEN "CANDIDATE_REGRESSION_OBSERVED"
  ELSE IF HasStatus(candidate, {"PASSED"}) THEN "CONFIGURED_CHECKS_PASSED"
  ELSE "REVIEW_REQUIRED_FINDING"
Classify(e) ==
  LET baseline == e.verification["baseline"]
      candidate == e.verification["candidate"] IN
  IF HasStatus(baseline, {"FAILED", "TIMEOUT", "ERROR"}) THEN "BASELINE_INVALID"
  ELSE IF e.policy.outcome = "POLICY_DENIED" THEN "POLICY_DENIAL"
  ELSE IF e.policy.outcome = "REVIEW_REQUIRED" THEN "REVIEW_REQUIRED_FINDING"
  ELSE IF HasStatus(candidate, {"ERROR"}) THEN "VERIFICATION_INFRASTRUCTURE_ERROR"
  ELSE IF HasStatus(candidate, {"FAILED", "TIMEOUT"}) THEN "CANDIDATE_REGRESSION_OBSERVED"
  ELSE IF HasStatus(candidate, {"PASSED"}) THEN "CONFIGURED_CHECKS_PASSED"
  ELSE "REVIEW_REQUIRED_FINDING"

-----------------------------------------------------------------------------
(* Failures, edits and repetition *)

(* A step returns an error: docker, the registry, npm, a file.  A write that
   fails leaves a part of the file. *)
Abort ==
  /\ pc # "done"
  /\ Exit("failure")
  /\ file' \in IF pc = "write" THEN {file, Truncated} ELSE {file}
  /\ IF step[Self] = "idle" THEN UNCHANGED cacheVars ELSE GiveUp(Self)
  /\ UNCHANGED <<envVars, inputVars, copied, twins, results, installed, runs>>

(* Edits matter while the project may still be read. *)
Edit ==
  /\ edits < MaxEdits
  /\ pc \in {"resolve", "fetchBaseline", "fetchCandidate", "copyBaseline", "copyCandidate", "done"}
  /\ \E p \in Projects \ {project} : project' = p
  /\ edits' = edits + 1
  /\ UNCHANGED <<inputVars, cacheVars, pc, copied, twins, results, installed,
                 exit, file, runs>>

Again ==
  /\ pc = "done" /\ runs < MaxRuns
  /\ Goto("resolve")
  /\ runs' = runs + 1
  /\ exit' = "none"
  /\ results' = [w \in Worlds |-> << >>]
  /\ installed' = [w \in Worlds |-> "none"]
  /\ from' = Nothing
  /\ artifacts' = [w \in Worlds |-> Nothing]
  /\ twins' = [w \in Worlds |-> Nothing]
  /\ copied' = [w \in Worlds |-> project]
  /\ UNCHANGED <<envVars, cacheVars, file>>

Verification ==
  \/ Resolve
  \/ \E w \in Worlds : Fetch(w) \/ Fetched(w)
  \/ CopyBaseline \/ CopyCandidate \/ PrepareBaseline \/ PrepareCandidate
  \/ \E w \in Worlds : RunCommand(w)
  \/ BaselineExecuted \/ CandidateExecuted \/ CheckInstalled \/ Write

Next == Verification \/ Other \/ Abort \/ Edit \/ Again

Spec == Init /\ [][Next]_vars

-----------------------------------------------------------------------------
(* Properties *)

HasEvidence == file \notin {NoEvidence, Truncated}

(* Every variable has its type; results follow the plan. *)
TypeOK ==
  /\ project \in Projects /\ edits \in 0 .. MaxEdits
  /\ pc \in {"resolve", "fetchBaseline", "fetchCandidate", "copyBaseline", "copyCandidate",
             "prepareBaseline", "prepareCandidate", "installed", "write", "done"} \cup Worlds
  /\ CacheTypeOK
  /\ from = Nothing \/ pc = "done" \/ Published(from)
  /\ copied \in [Worlds -> Projects]
  /\ \A w \in Worlds :
       /\ {artifacts[w], twins[w]} \subseteq Archives \cup {Nothing}
       /\ DOMAIN results[w] \subseteq DOMAIN Names
       /\ \A i \in DOMAIN results[w] : results[w][i].name = Names[i]
       /\ installed[w] \in {"none", VersionOf(w), "another"}
  /\ exit \in {"none", "success", "failure"} /\ (exit # "none" <=> pc = "done")
  /\ runs \in 1 .. MaxRuns

(* verify succeeds, and writes evidence, only for a comparison: the baseline
   ran its whole plan without a failure, the candidate ran the same commands
   up to its first failure, and each twin held the version it stands for. *)
EvidenceIsComparable ==
  exit = "success" =>
    /\ HasEvidence
    /\ \A w \in Worlds : installed[w] = VersionOf(w)
    /\ LET b == file.verification["baseline"]
           c == file.verification["candidate"] IN
       /\ [i \in DOMAIN b |-> b[i].name] = Names
       /\ \A i \in DOMAIN b : b[i].status \in {"PASSED", "NOT_CONFIGURED"}
       /\ \A i \in DOMAIN c : /\ c[i].name = b[i].name
                              /\ i < Len(c) => c[i].status = b[i].status

(* The digests in the evidence name what the twins ran: the archive under that
   digest in the cache, which is one the registry served for the version. *)
EvidenceNamesArchives ==
  exit = "success" => \A w \in Worlds :
    /\ twins[w] = file.artifacts[w]
    /\ twins[w].version = file.versions[w]

(* What the network concludes from evidence verify wrote: passed only if every
   configured command passed in both twins and no policy rule had a finding, a
   regression only if one command passed in the baseline and not in the
   candidate, a denial exactly if a known vulnerability is to be denied - and
   never an invalid baseline or an infrastructure error, which verify does not
   turn into evidence. *)
OutcomeIsHonest ==
  HasEvidence =>
    LET b == file.verification["baseline"]
        c == file.verification["candidate"]
        outcome == Classify(file) IN
    /\ outcome \notin {"BASELINE_INVALID", "VERIFICATION_INFRASTRUCTURE_ERROR"}
    /\ outcome = "CONFIGURED_CHECKS_PASSED" => c = b /\ file.policy.findings = {}
    /\ outcome = "CANDIDATE_REGRESSION_OBSERVED" =>
         \E i \in DOMAIN c : b[i].status = "PASSED" /\ c[i].status # "PASSED"
    /\ outcome = "POLICY_DENIAL" <=> (file.osv = "vulnerable" /\ "high" \in file.policy.findings)
    /\ file.osv = "vulnerable" /\ "high" \in Rules => outcome = "POLICY_DENIAL"

(* README.md: verify creates equivalent baseline and candidate twins: before
   anything runs both hold the same project. *)
TwinsAreEquivalent ==
  pc \in {"prepareBaseline", "prepareCandidate"} \cup Worlds => copied["baseline"] = copied["candidate"]

(* main.rs:279 and README.md:5: the baseline is the existing dependency state,
   an exact version: the one the project's lockfile pins, if there is one. *)
BaselineIsCurrent ==
  HasEvidence =>
    LET locked == Project!LockedVersion(file.sources["baseline"]) IN
    locked # Nothing => file.versions["baseline"] = locked

Facts(e) == [f \in DOMAIN e \ {"wallTime"} |-> e[f]]

(* docs/protocol/verification-methodology-v1.md: raw durations are outside the
   canonical object, so repeated runs with the same facts keep their digest
   (the digest identifies the canonical bytes, here the record itself). *)
RepeatedRunsKeepDigest ==
  [][HasEvidence /\ HasEvidence' /\ Facts(file) = Facts(file') => file' = file]_vars
=============================================================================
