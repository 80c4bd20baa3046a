----------------------------- MODULE VerifyProofs -----------------------------
(***************************************************************************)
(* What a verification guarantees: evidence is written for a comparison    *)
(* that was one, it names the archives that were run, and what the network *)
(* concludes from it is what happened.                                     *)
(***************************************************************************)
EXTENDS Verify, ArtifactCacheProofs, SequenceTheorems

Early == {"resolve", "fetchBaseline", "fetchCandidate", "copyBaseline", "copyCandidate",
          "prepareBaseline", "prepareCandidate"}
Parts == Early \cup Worlds \cup {"installed", "write", "done"}
AllStatuses == Statuses \cup {"NotConfigured"}
Result == [name : STRING, status : AllStatuses]

Typed ==
  /\ project \in Projects /\ pc \in Parts
  /\ copied \in [Worlds -> Projects]
  /\ artifacts \in [Worlds -> Archives \cup {Nothing}]
  /\ twins \in [Worlds -> Archives \cup {Nothing}]
  /\ results \in [Worlds -> Seq(Result)]
  /\ DOMAIN installed = Worlds
  /\ exit \in {"none", "success", "failure"} /\ (exit # "none" <=> pc = "done")

(* The results of a world follow the plan and stop at the first failure. *)
Planned(w) ==
  /\ Len(results[w]) <= Len(Names)
  /\ \A i \in 1 .. Len(results[w]) :
       /\ results[w][i].name = Names[i]
       /\ results[w][i].status = "NotConfigured" <=> ~Configured(i)
       /\ i < Len(results[w]) => ~Stops(results[w][i].status)

(* How far execution is at each part of verify. *)
Ran ==
  /\ \A w \in Worlds : Planned(w)
  /\ pc \in Early => \A w \in Worlds : results[w] = << >>
  /\ pc \in {"candidate", "installed", "write"} => Executed("baseline") /\ ~BaselineInvalid
  /\ pc \in {"installed", "write"} => Executed("candidate")
  /\ pc = "write" \/ exit = "success" => \A w \in Worlds : installed[w] = VersionOf(w)

AfterFetch(w) ==
  Parts \ ({"resolve", "fetchBaseline", "done"} \cup (IF w = "candidate" THEN {"fetchCandidate"} ELSE {}))
AfterPrepare(w) ==
  Worlds \cup {"installed", "write"} \cup (IF w = "baseline" THEN {"prepareCandidate"} ELSE {})

(* Where the archives of the two worlds are at each part. *)
Archived ==
  /\ step[Self] # "idle" =>
       \E w \in Worlds : pc = FetchPart(w) /\ archive[Self].version = VersionOf(w)
  /\ \A w \in Worlds :
       /\ pc \in AfterFetch(w) => /\ artifacts[w] \in Archives
                                  /\ artifacts[w].version = VersionOf(w)
                                  /\ cache[artifacts[w]] # Nothing
       /\ pc \in AfterPrepare(w) => twins[w] = artifacts[w]

BaselineEntries == [name : STRING, status : {"PASSED", "NOT_CONFIGURED"}]
CandidateEntries == [name : STRING, status : {"PASSED", "FAILED", "NOT_CONFIGURED", "TIMEOUT"}]

(* What a file with evidence says of the two worlds, b and c. *)
Compared(b, c) ==
  /\ b \in Seq(BaselineEntries)
  /\ c \in Seq(CandidateEntries)
  /\ Len(b) = Len(Names) /\ Len(c) \in 1 .. Len(Names)
  /\ \A i \in 1 .. Len(b) : b[i].name = Names[i]
  /\ \A i \in 1 .. Len(c) :
       /\ c[i].name = b[i].name
       /\ c[i].status = "NOT_CONFIGURED" <=> b[i].status = "NOT_CONFIGURED"
       /\ i < Len(c) => c[i].status = b[i].status
  /\ Len(c) = Len(Names) \/ c[Len(c)].status \in {"FAILED", "TIMEOUT"}

Written ==
  /\ HasEvidence =>
       /\ Compared(file.verification["baseline"], file.verification["candidate"])
       /\ \E lifecycle \in BOOLEAN :
            LET findings == PolicyFindings(file.osv, lifecycle) IN
            file.policy = [findings |-> findings, outcome |-> PolicyOutcome(findings)]
  /\ exit = "success" =>
       /\ HasEvidence
       /\ \A w \in Worlds : /\ file.versions[w] = VersionOf(w)
                            /\ file.artifacts[w] = twins[w]
                            /\ twins[w].version = VersionOf(w)

IInv == Typed /\ CInv /\ Ran /\ Archived /\ Written

-----------------------------------------------------------------------------
(* The cache *)

(* A step of verify is one of the cache or leaves it alone. *)
LEMMA CacheMoves == Next => [CacheNext]_cacheVars
<1> SUFFICES ASSUME Next PROVE [CacheNext]_cacheVars
  OBVIOUS
<1>1. CASE \E w \in Worlds : Fetch(w)
  BY <1>1, SelfAssumption DEF Fetch, CacheNext
<1>2. CASE \E w \in Worlds : Fetched(w)
  BY <1>2, SelfAssumption DEF Fetched, CacheNext
<1>3. CASE Other
  BY <1>3, SelfAssumption DEF Other, CacheNext
<1>4. CASE Abort
  BY <1>4, SelfAssumption DEF Abort, CacheNext
<1>5. CASE Resolve \/ CopyBaseline \/ CopyCandidate \/ PrepareBaseline \/ PrepareCandidate
  BY <1>5 DEF Resolve, CopyBaseline, CopyCandidate, Copy, PrepareBaseline, PrepareCandidate, Prepare
<1>6. CASE \/ \E w \in Worlds : RunCommand(w)
           \/ BaselineExecuted \/ CandidateExecuted \/ CheckInstalled \/ Write
  BY <1>6 DEF RunCommand, BaselineExecuted, CandidateExecuted, CheckInstalled, Write, preparedVars
<1>7. CASE Edit \/ Again
  BY <1>7 DEF Edit, Again
<1> QED
  BY <1>1, <1>2, <1>3, <1>4, <1>5, <1>6, <1>7 DEF Next, Verification

(* A file, once there, is never removed. *)
LEMMA FilesStay ==
  ASSUME CacheTypeOK, [CacheNext]_cacheVars, NEW path \in Archives, cache[path] # Nothing
  PROVE  cache'[path] # Nothing
<1>1. ASSUME NEW p \in Verifications, Open(p) PROVE cache'[path] # Nothing
  BY <1>1, NothingIsNoFile DEF Open, Opened, CacheTypeOK, Step
<1>2. ASSUME NEW p \in Verifications, Fill(p) PROVE cache'[path] # Nothing
  BY <1>2, NothingIsNoFile DEF Fill, Whole, File, CachePath, CacheTypeOK, Step
<1>3. CASE UNCHANGED cache
  BY <1>3
<1> QED
  BY <1>1, <1>2, <1>3 DEF CacheNext, CacheStep, Download, Exists, Return, GiveUp, Leave, cacheVars

-----------------------------------------------------------------------------
(* What the invariant implies *)

LEMMA Worldly == Worlds = {"baseline", "candidate"} /\ "baseline" \in Worlds /\ "candidate" \in Worlds
BY DEF Worlds

(* The entries of a comparison. *)
LEMMA Entries ==
  ASSUME NEW b, NEW c, Compared(b, c)
  PROVE  /\ \A i \in 1 .. Len(b) :
              b[i] \in BaselineEntries
         /\ \A i \in 1 .. Len(c) :
              /\ i \in 1 .. Len(b)
              /\ c[i] \in CandidateEntries
         /\ DOMAIN b = 1 .. Len(b) /\ DOMAIN c = 1 .. Len(c)
<1>1. Len(b) \in Nat /\ Len(c) \in Nat /\ Len(c) <= Len(b)
  BY NamesAssumption DEF Compared
<1>2. \A i \in 1 .. Len(b) : b[i] \in BaselineEntries
  BY ElementOfSeq DEF Compared
<1>3. \A i \in 1 .. Len(c) :
        c[i] \in CandidateEntries
  BY ElementOfSeq DEF Compared
<1>4. DOMAIN b = 1 .. Len(b) /\ DOMAIN c = 1 .. Len(c)
  BY DEF Compared
<1> QED BY <1>1, <1>2, <1>3, <1>4

(* If nothing failed in the candidate, both did the same. *)
LEMMA SameEntries ==
  ASSUME NEW b, NEW c, Compared(b, c), ~HasStatus(c, {"FAILED", "TIMEOUT"})
  PROVE  c = b
<1>1. Len(c) = Len(b) /\ \A i \in 1 .. Len(c) : c[i].status \notin {"FAILED", "TIMEOUT"}
  <2>1. \A i \in 1 .. Len(c) : c[i].status \notin {"FAILED", "TIMEOUT"}
    BY Entries DEF HasStatus
  <2> QED BY <2>1, NamesAssumption DEF Compared
<1>2. ASSUME NEW i \in 1 .. Len(c) PROVE c[i] = b[i]
  <2>1. c[i].name = b[i].name /\ (c[i].status = "NOT_CONFIGURED" <=> b[i].status = "NOT_CONFIGURED")
    BY DEF Compared
  <2>2. /\ c[i] \in CandidateEntries
        /\ b[i] \in BaselineEntries
    BY <1>1, Entries
  <2>3. c[i].status \notin {"FAILED", "TIMEOUT"}
    BY <1>1
  <2>4. c[i].status = b[i].status
    BY <2>1, <2>2, <2>3 DEF BaselineEntries, CandidateEntries
  <2> QED BY <2>1, <2>2, <2>4 DEF BaselineEntries, CandidateEntries
<1>3. b \in Seq(BaselineEntries) /\ c \in Seq(CandidateEntries) /\ BaselineEntries \subseteq CandidateEntries
  BY DEF Compared, BaselineEntries, CandidateEntries
<1>4. b \in Seq(CandidateEntries)
  BY <1>3, SeqMonotonic
<1> QED BY <1>1, <1>2, <1>3, <1>4, SeqEqual

(* A failure of the candidate is one of a command that passed in the baseline. *)
LEMMA Regression ==
  ASSUME NEW b, NEW c, Compared(b, c), HasStatus(c, {"FAILED", "TIMEOUT"})
  PROVE  \E i \in DOMAIN c : b[i].status = "PASSED" /\ c[i].status # "PASSED"
<1>1. PICK i \in 1 .. Len(c) : c[i].status \in {"FAILED", "TIMEOUT"}
  BY Entries DEF HasStatus
<1>2. b[i].status # "NOT_CONFIGURED"
  BY <1>1 DEF Compared
<1>3. b[i] \in BaselineEntries
  BY Entries
<1> QED BY <1>1, <1>2, <1>3, Entries DEF BaselineEntries

LEMMA ComparableHolds == IInv => EvidenceIsComparable
<1> SUFFICES ASSUME IInv, exit = "success" PROVE EvidenceIsComparable
  BY DEF EvidenceIsComparable
<1> DEFINE b == file.verification["baseline"]
           c == file.verification["candidate"]
<1>1. HasEvidence /\ Compared(b, c)
  BY DEF IInv, Written
<1>2. \A w \in Worlds : installed[w] = VersionOf(w)
  BY DEF IInv, Ran
<1> HIDE DEF b, c
<1>3. [i \in DOMAIN b |-> b[i].name] = Names
  BY <1>1, Entries, NamesAssumption DEF Compared
<1>4. \A i \in DOMAIN b : b[i].status \in {"PASSED", "NOT_CONFIGURED"}
  BY <1>1, Entries DEF BaselineEntries
<1>5. \A i \in DOMAIN c : c[i].name = b[i].name /\ (i < Len(c) => c[i].status = b[i].status)
  BY <1>1, Entries DEF Compared
<1> QED
  BY <1>1, <1>2, <1>3, <1>4, <1>5 DEF EvidenceIsComparable, b, c

LEMMA ArchivesNamed == IInv => EvidenceNamesArchives
BY DEF IInv, Written, EvidenceNamesArchives

LEMMA HonestHolds == IInv => OutcomeIsHonest
<1> SUFFICES ASSUME IInv, HasEvidence PROVE OutcomeIsHonest
  BY DEF OutcomeIsHonest
<1> DEFINE b == file.verification["baseline"]
           c == file.verification["candidate"]
           outcome == Classify(file)
           findings == file.policy.findings
<1>1. Compared(b, c)
  BY DEF IInv, Written
<1>2. PICK lifecycle \in BOOLEAN :
        file.policy = [findings |-> PolicyFindings(file.osv, lifecycle),
                       outcome  |-> PolicyOutcome(PolicyFindings(file.osv, lifecycle))]
  BY DEF IInv, Written
<1>3. findings = PolicyFindings(file.osv, lifecycle) /\ file.policy.outcome = PolicyOutcome(findings)
  BY <1>2
<1>4. /\ findings \subseteq {"newlyAdded", "newNetworkDestination", "high", "invalid"}
      /\ "invalid" \notin findings
      /\ "high" \in findings <=> "high" \in Rules /\ file.osv = "vulnerable"
  BY <1>3, RulesAssumption DEF PolicyFindings, Provenance
<1>5. /\ file.policy.outcome = "POLICY_DENIED" <=> "high" \in findings
      /\ file.policy.outcome \notin {"POLICY_DENIED", "REVIEW_REQUIRED"} => findings = {}
  BY <1>3, <1>4 DEF PolicyOutcome
<1>6. ~HasStatus(b, {"FAILED", "TIMEOUT", "ERROR"}) /\ ~HasStatus(c, {"ERROR"})
  <2> HIDE DEF b, c
  <2> QED BY <1>1, Entries DEF HasStatus, BaselineEntries, CandidateEntries
<1>7. outcome = IF file.policy.outcome = "POLICY_DENIED" THEN "POLICY_DENIAL"
                ELSE IF file.policy.outcome = "REVIEW_REQUIRED" THEN "REVIEW_REQUIRED_FINDING"
                ELSE IF HasStatus(c, {"FAILED", "TIMEOUT"}) THEN "CANDIDATE_REGRESSION_OBSERVED"
                ELSE IF HasStatus(c, {"PASSED"}) THEN "CONFIGURED_CHECKS_PASSED"
                ELSE "REVIEW_REQUIRED_FINDING"
  BY <1>6 DEF Classify
<1> HIDE DEF outcome
<1>8. outcome = "CONFIGURED_CHECKS_PASSED" => c = b
  BY <1>1, <1>7, SameEntries
<1>9. outcome = "CANDIDATE_REGRESSION_OBSERVED" =>
        \E i \in DOMAIN c : b[i].status = "PASSED" /\ c[i].status # "PASSED"
  BY <1>1, <1>7, Regression
<1> HIDE DEF b, c
<1>10. outcome \notin {"BASELINE_INVALID", "VERIFICATION_INFRASTRUCTURE_ERROR"}
  BY <1>7
<1>11. outcome = "CONFIGURED_CHECKS_PASSED" => findings = {}
  BY <1>5, <1>7
<1>12. /\ outcome = "POLICY_DENIAL" <=> (file.osv = "vulnerable" /\ "high" \in findings)
       /\ file.osv = "vulnerable" /\ "high" \in Rules => outcome = "POLICY_DENIAL"
  BY <1>4, <1>5, <1>7
<1> QED
  BY <1>8, <1>9, <1>10, <1>11, <1>12 DEF OutcomeIsHonest, outcome, b, c
-----------------------------------------------------------------------------
(* Steps that leave a part of the invariant alone *)

LEMMA EarlyRan ==
  ASSUME IInv, pc \in Early, results' = results, pc' \in Early \cup {"baseline", "done"},
         exit' # "success"
  PROVE  Ran'
<1>1. \A w \in Worlds : results[w] = << >>
  BY DEF IInv, Ran
<1>2. \A w \in Worlds : Planned(w)'
  BY <1>1, NamesAssumption DEF Planned
<1>3. pc' \notin {"candidate", "installed", "write"}
  BY DEF Early
<1> QED BY <1>1, <1>2, <1>3 DEF Ran

LEMMA LateArchived ==
  ASSUME IInv, UNCHANGED <<inputVars, cacheVars, twins>>, pc \in Worlds \cup {"installed", "write"},
         pc' \in Worlds \cup {"installed", "write", "done"}
  PROVE  Archived'
<1>1. step[Self] = "idle"
  BY DEF IInv, Archived, FetchPart, Worlds
<1>2. \A w \in Worlds : pc \in AfterFetch(w) /\ pc \in AfterPrepare(w)
  BY DEF AfterFetch, AfterPrepare, Parts, Early, Worlds
<1> QED BY <1>1, <1>2 DEF IInv, Archived, inputVars, cacheVars, AfterFetch, AfterPrepare, VersionOf

LEMMA WrittenKept ==
  ASSUME IInv, file' \in {file, Truncated}, exit' # "success"
  PROVE  Written'
BY DEF IInv, Written, HasEvidence

(* Between the parts of verify the files of the cache stay. *)
LEMMA CacheKept ==
  ASSUME IInv, Next
  PROVE  CInv' /\ \A path \in Archives : cache[path] # Nothing => cache'[path] # Nothing
BY CacheMoves, FilesStay, NextCache DEF IInv, CInv

-----------------------------------------------------------------------------
(* The invariant holds initially and every step keeps it *)

LEMMA InitIInv == Init => IInv
<1> SUFFICES ASSUME Init PROVE IInv
  OBVIOUS
<1>1. CInv
  BY InitCache DEF Init
<1>2. Typed
  BY DEF Init, Typed, Parts, Early, Worlds
<1>3. Ran
  BY NamesAssumption DEF Init, Ran, Planned, Worlds, Early
<1>4. Archived
  BY SelfAssumption DEF Init, CacheInit, Archived, AfterFetch, AfterPrepare, Worlds
<1>5. Written
  BY DEF Init, Written, HasEvidence
<1> QED BY <1>1, <1>2, <1>3, <1>4, <1>5 DEF IInv

LEMMA ResolveStep ==
  ASSUME IInv, CInv', Resolve
  PROVE  IInv'
<1>1. pc \in Early /\ pc' \in {"fetchBaseline", "done"} /\ exit' # "success"
  BY DEF Resolve, Goto, Exit, Early, IInv, Typed
<1>2. Typed'
  BY <1>1 DEF Resolve, Goto, Exit, IInv, Typed, Parts, Early, envVars
<1>3. Ran'
  BY <1>1, EarlyRan DEF Resolve, Early
<1>4. Archived'
  BY <1>1 DEF Resolve, cacheVars, IInv, Archived, AfterFetch, AfterPrepare, FetchPart, Worlds
<1>5. Written'
  BY <1>1, WrittenKept DEF Resolve
<1> QED BY <1>2, <1>3, <1>4, <1>5 DEF IInv

LEMMA FetchStep ==
  ASSUME IInv, Next, CInv', NEW w \in Worlds, Fetch(w)
  PROVE  IInv'
<1>1. pc \in Early /\ pc' = pc /\ exit' # "success"
  BY DEF Fetch, Early, FetchPart, IInv, Typed
<1>2. Typed'
  BY <1>1 DEF Fetch, IInv, Typed, inputVars, envVars
<1>3. Ran'
  BY <1>1, EarlyRan DEF Fetch
<1>4. step'[Self] # "idle" => archive'[Self].version = VersionOf(w)
  <2>1. PICK a \in Archives, declared \in Archives \cup {Nothing} :
          a.version = VersionOf(w) /\ CacheStep(Self, a, declared)
    BY DEF Fetch
  <2>2. CASE Download(Self, a, declared)
    BY <2>1, <2>2, SelfAssumption DEF Download, IInv, CInv, CacheTypeOK
  <2>3. CASE Exists(Self) \/ Open(Self) \/ Fill(Self)
    <3>1. step[Self] # "idle" /\ archive' = archive
      BY <2>3 DEF Exists, Open, Fill, Step
    <3>2. PICK v \in Worlds : pc = FetchPart(v) /\ archive[Self].version = VersionOf(v)
      BY <3>1 DEF IInv, Archived
    <3>3. v = w
      BY <3>2 DEF Fetch, FetchPart, Worlds
    <3> QED BY <3>1, <3>2, <3>3
  <2> QED BY <2>1, <2>2, <2>3 DEF CacheStep
<1>5. \A v \in Worlds : VersionOf(v)' = VersionOf(v)
  BY DEF Fetch, inputVars, VersionOf
<1>6. Archived'
  <2>1. pc' = FetchPart(w)
    BY <1>1 DEF Fetch
  <2> QED BY <1>1, <1>4, <1>5, <2>1, CacheKept DEF Fetch, inputVars, IInv, Archived, AfterFetch, AfterPrepare
<1>7. Written'
  BY <1>1, WrittenKept DEF Fetch
<1> QED BY <1>2, <1>3, <1>6, <1>7 DEF IInv

LEMMA FetchedStep ==
  ASSUME IInv, Next, CInv', NEW w \in Worlds, Fetched(w)
  PROVE  IInv'
<1>1. pc \in Early /\ pc' \in Early /\ exit' # "success"
  BY DEF Fetched, Goto, Early, FetchPart, IInv, Typed
<1>2. /\ archive[Self] \in Archives /\ archive[Self].version = VersionOf(w)
      /\ cache[archive[Self]] # Nothing
  <2>1. step[Self] = "fetched" /\ pc = FetchPart(w)
    BY DEF Fetched, Return
  <2>2. archive[Self].version = VersionOf(w)
    BY <2>1 DEF IInv, Archived, FetchPart, Worlds
  <2> QED BY <2>1, <2>2, SelfAssumption DEF IInv, CInv, CacheTypeOK, PartialHasCause, File, CachePath
<1>3. Typed'
  BY <1>1, <1>2 DEF Fetched, Goto, IInv, Typed, envVars, Parts, Early
<1>4. Ran'
  BY <1>1, EarlyRan DEF Fetched
<1>5. step'[Self] = "idle" /\ cache' = cache
  BY SelfAssumption DEF Fetched, Return, Leave, IInv, CInv, CacheTypeOK
<1>6. Archived'
  <2>1. \A v \in Worlds : VersionOf(v)' = VersionOf(v)
    BY DEF Fetched, VersionOf
  <2>2. ASSUME NEW v \in Worlds, pc' \in AfterFetch(v)
        PROVE  /\ artifacts'[v] \in Archives /\ artifacts'[v].version = VersionOf(v)
               /\ cache[artifacts'[v]] # Nothing
    <3>1. CASE v = w
      BY <1>2, <3>1 DEF Fetched, IInv, Typed
    <3>2. CASE v # w
      <4>1. artifacts'[v] = artifacts[v]
        BY <3>2 DEF Fetched, IInv, Typed
      <4>2. w = "candidate" /\ v = "baseline"
        BY <2>2, <3>2 DEF Fetched, Goto, AfterFetch, Worlds
      <4>3. pc \in AfterFetch(v)
        BY <4>2 DEF Fetched, FetchPart, AfterFetch, Parts, Early
      <4> QED BY <4>1, <4>3 DEF IInv, Archived
    <3> QED BY <3>1, <3>2
  <2>3. \A v \in Worlds : pc' \notin AfterPrepare(v)
    BY DEF Fetched, Goto, AfterPrepare, Worlds
  <2> QED BY <1>5, <2>1, <2>2, <2>3 DEF Archived, AfterFetch, VersionOf
<1>7. Written'
  BY <1>1, WrittenKept DEF Fetched
<1> QED BY <1>3, <1>4, <1>6, <1>7 DEF IInv

LEMMA CopyStep ==
  ASSUME IInv, CInv', CopyBaseline \/ CopyCandidate
  PROVE  IInv'
<1>1. /\ pc \in {"copyBaseline", "copyCandidate"}
      /\ pc' \in {"copyCandidate", "prepareBaseline"}
      /\ UNCHANGED <<inputVars, cacheVars, twins, results, exit, file>>
      /\ exit # "success"
  BY DEF CopyBaseline, CopyCandidate, Copy, Goto, IInv, Typed
<1>2. Typed'
  BY <1>1 DEF CopyBaseline, CopyCandidate, Copy, envVars, inputVars, IInv, Typed, Parts, Early
<1>3. Ran'
  BY <1>1, EarlyRan DEF Early
<1>4. Archived'
  <2>1. \A w \in Worlds : pc \in AfterFetch(w) /\ pc' \notin AfterPrepare(w)
    BY <1>1 DEF AfterFetch, AfterPrepare, Parts, Early, Worlds
  <2>2. step[Self] = "idle"
    BY <1>1 DEF IInv, Archived, FetchPart
  <2> QED BY <1>1, <2>1, <2>2 DEF inputVars, cacheVars, VersionOf, IInv, Archived
<1>5. Written'
  BY <1>1, WrittenKept
<1> QED BY <1>2, <1>3, <1>4, <1>5 DEF IInv

(* A twin is given the archive whose digest the metadata of its world have. *)
LEMMA PrepareStep ==
  ASSUME IInv, CInv', NEW w \in Worlds, NEW part, NEW next, Prepare(w, part, next),
         \/ w = "baseline" /\ part = "prepareBaseline" /\ next = "prepareCandidate"
         \/ w = "candidate" /\ part = "prepareCandidate" /\ next = "baseline"
  PROVE  IInv'
<1>1. /\ pc = part /\ pc \in Early /\ pc' \in {next, "done"} /\ exit' # "success"
      /\ UNCHANGED <<envVars, inputVars, cacheVars, copied, results, installed, file>>
  BY DEF Prepare, Goto, Exit, Early, IInv, Typed
<1>2. /\ artifacts[w] \in Archives
      /\ cache[artifacts[w]].writer = Nothing => cache[artifacts[w]].archive = artifacts[w]
  <2>1. pc \in AfterFetch(w)
    BY <1>1 DEF AfterFetch, Parts, Early
  <2> QED BY <2>1 DEF IInv, Archived, CInv, PartialHasCause, CachePath
<1>3. pc' = next => twins' = [twins EXCEPT ![w] = artifacts[w]]
  BY <1>2 DEF Prepare, Goto, Exit, CachePath
<1>4. pc' = "done" => twins' = twins
  BY DEF Prepare, Goto, Exit
<1>5. (exit' # "none" <=> pc' = "done") /\ exit' \in {"none", "failure"}
  BY DEF Prepare, Goto, Exit, IInv, Typed
<1>6. Typed'
  BY <1>1, <1>2, <1>3, <1>4, <1>5 DEF envVars, inputVars, IInv, Typed, Parts, Early, Worlds
<1>7. Ran'
  BY <1>1, EarlyRan DEF Early
<1>8. Archived'
  <2>1. step[Self] = "idle" /\ \A v \in Worlds : pc \in AfterFetch(v)
    BY <1>1 DEF IInv, Archived, FetchPart, AfterFetch, Parts, Early, Worlds
  <2>2. ASSUME NEW v \in Worlds, pc' \in AfterPrepare(v) PROVE twins'[v] = artifacts[v]
    <3>1. pc' = next
      BY <1>1, <2>2 DEF AfterPrepare, Worlds
    <3>2. CASE v = w
      BY <1>3, <3>1, <3>2 DEF IInv, Typed
    <3>3. CASE v # w
      <4>1. v = "baseline" /\ pc \in AfterPrepare(v)
        BY <1>1, <2>2, <3>1, <3>3 DEF AfterPrepare, Worlds
      <4> QED BY <1>3, <3>1, <3>3, <4>1 DEF IInv, Typed, Archived
    <3> QED BY <3>2, <3>3
  <2> QED BY <1>1, <2>1, <2>2 DEF inputVars, cacheVars, VersionOf, IInv, Archived, AfterPrepare
<1>9. Written'
  BY <1>1, WrittenKept
<1> QED BY <1>6, <1>7, <1>8, <1>9 DEF IInv

LEMMA OtherStep ==
  ASSUME IInv, Next, CInv', Other
  PROVE  IInv'
<1>1. /\ pc \in Early /\ exit # "success"
      /\ UNCHANGED <<envVars, inputVars, pc, copied, twins, results, installed, exit, file>>
  BY DEF Other, UsesCache, Early, IInv, Typed
<1>2. Typed'
  BY <1>1 DEF envVars, inputVars, IInv, Typed
<1>3. Ran'
  BY <1>1, EarlyRan DEF Early
<1>4. step'[Self] = step[Self] /\ archive'[Self] = archive[Self]
  <2>1. PICK p \in Verifications \ {Self} :
          \/ \E a \in Archives : CacheStep(p, a, a)
          \/ Return(p) \/ GiveUp(p)
    BY SelfAssumption DEF Other
  <2> QED BY <2>1, SelfAssumption DEF CacheStep, Download, Exists, Open, Fill, Step, Return, GiveUp, Leave,
                                      IInv, CInv, CacheTypeOK
<1>5. Archived'
  BY <1>1, <1>4, CacheKept DEF inputVars, VersionOf, IInv, Archived, AfterFetch, AfterPrepare
<1>6. Written'
  BY <1>1, WrittenKept
<1> QED BY <1>2, <1>3, <1>5, <1>6 DEF IInv

(* A command runs only after those before it did not stop the world. *)
LEMMA RunCommandStep ==
  ASSUME IInv, CInv', NEW w \in Worlds, RunCommand(w)
  PROVE  IInv'
<1> DEFINE n == Len(results[w]) + 1
<1>1. /\ pc = w /\ pc' = pc /\ exit = "none"
      /\ UNCHANGED <<envVars, inputVars, cacheVars, copied, twins, installed, exit, file>>
  <2>1. /\ pc = w /\ pc # "done"
        /\ UNCHANGED <<preparedVars, pc, installed, exit, file>>
    BY DEF RunCommand, Worlds
  <2>2. exit = "none"
    BY <2>1 DEF IInv, Typed
  <2> QED BY <2>1, <2>2 DEF preparedVars
<1>2. results[w] \in Seq(Result) /\ Len(results[w]) \in Nat
  BY LenProperties DEF IInv, Typed
<1>3. Len(results[w]) < Len(Names) /\ (results[w] # << >> => ~Stops(results[w][Len(results[w])].status))
  <2>1. Len(results[w]) <= Len(Names) /\ Len(Names) \in Nat
    BY NamesAssumption DEF IInv, Ran, Planned
  <2> QED BY <1>2, <2>1 DEF RunCommand, Executed, Last
<1>4. n \in 1 .. Len(Names) /\ Names[n] \in STRING
  BY <1>2, <1>3, NamesAssumption, ElementOfSeq
<1>5. PICK status \in StatusesOf(w, n) :
        results' = [results EXCEPT ![w] = Append(results[w], [name |-> Names[n], status |-> status])]
  BY DEF RunCommand
<1>6. status \in AllStatuses /\ (status = "NotConfigured" <=> ~Configured(n))
  BY <1>5 DEF StatusesOf, AllStatuses, Statuses, Configured
<1>7. [name |-> Names[n], status |-> status] \in Result
  BY <1>4, <1>6 DEF Result
<1>8. Append(results[w], [name |-> Names[n], status |-> status]) \in Seq(Result)
  BY <1>2, <1>7
<1>9. results' \in [Worlds -> Seq(Result)]
  BY <1>5, <1>8 DEF IInv, Typed
<1>10. Typed'
  BY <1>1, <1>9 DEF envVars, inputVars, IInv, Typed
<1>11. \A i : Configured(i)' <=> Configured(i)
  BY <1>1 DEF Configured
<1>12. ASSUME NEW v \in Worlds PROVE Planned(v)'
  <2>1. CASE v # w
    <3>1. results'[v] = results[v]
      BY <1>5, <2>1 DEF IInv, Typed
    <3> QED BY <1>11, <3>1 DEF IInv, Ran, Planned
  <2>2. CASE v = w
    <3>1. results'[w] = Append(results[w], [name |-> Names[n], status |-> status])
      BY <1>5 DEF IInv, Typed
    <3>2. /\ Len(results'[w]) = n
          /\ results'[w][n] = [name |-> Names[n], status |-> status]
          /\ \A i \in 1 .. Len(results[w]) : results'[w][i] = results[w][i]
      BY <1>2, <3>1
    <3>3. Planned(w)
      BY DEF IInv, Ran
    <3>4. ASSUME NEW i \in 1 .. n
          PROVE  /\ results'[w][i].name = Names[i]
                 /\ results'[w][i].status = "NotConfigured" <=> ~Configured(i)
                 /\ i < n => ~Stops(results'[w][i].status)
      <4>1. CASE i = n
        BY <1>6, <3>2, <4>1
      <4>2. CASE i < n
        <5>1. i \in 1 .. Len(results[w]) /\ results[w] # << >>
          BY <1>2, <4>2
        <5>2. ~Stops(results[w][i].status)
          BY <1>2, <1>3, <3>3, <5>1 DEF Planned
        <5> QED BY <3>2, <3>3, <5>1, <5>2 DEF Planned
      <4> QED BY <1>2, <4>1, <4>2
    <3> QED BY <1>4, <1>11, <2>2, <3>2, <3>4 DEF Planned
  <2> QED BY <2>1, <2>2
<1>13. Ran'
  <2>1. pc' \notin Early /\ pc' \notin {"installed", "write"} /\ exit' # "success"
    BY <1>1 DEF Early, Worlds
  <2>2. CASE pc' = "candidate"
    <3>1. results'["baseline"] = results["baseline"]
      BY <1>1, <1>5, <2>2 DEF IInv, Typed, Worlds
    <3>2. Executed("baseline") /\ ~BaselineInvalid
      BY <1>1, <2>2 DEF IInv, Ran
    <3> QED BY <1>12, <2>1, <3>1, <3>2 DEF Ran, Executed, BaselineInvalid, HasStatus
  <2>3. CASE pc' # "candidate"
    BY <1>12, <2>1, <2>3 DEF Ran
  <2> QED BY <2>2, <2>3
<1>14. Archived'
  BY <1>1, LateArchived
<1>15. Written'
  BY <1>1, WrittenKept
<1> QED BY <1>10, <1>13, <1>14, <1>15 DEF IInv

(* Going on from one part of execution to the next, or ending the command. *)
LEMMA LateRan ==
  ASSUME IInv, UNCHANGED <<inputVars, copied, results>>,
         pc' \in {"candidate", "installed", "write"} => Executed("baseline") /\ ~BaselineInvalid,
         pc' \in {"installed", "write"} => Executed("candidate"),
         pc' \notin Early,
         pc' = "write" \/ exit' = "success" => \A w \in Worlds : installed'[w] = VersionOf(w)
  PROVE  Ran'
<1>1. \A w \in Worlds : Planned(w)'
  BY DEF IInv, Ran, Planned, Configured
<1>2. \A w \in Worlds : VersionOf(w)' = VersionOf(w)
  BY DEF inputVars, VersionOf
<1> QED BY <1>1, <1>2 DEF Ran, Executed, BaselineInvalid, HasStatus

LEMMA ExecutedStep ==
  ASSUME IInv, CInv', BaselineExecuted \/ CandidateExecuted
  PROVE  IInv'
<1>1. /\ pc \in Worlds /\ pc' \in {"candidate", "installed", "done"} /\ exit' # "success"
      /\ exit' \in {"none", "failure"} /\ (exit' # "none" <=> pc' = "done")
      /\ UNCHANGED <<envVars, inputVars, cacheVars, copied, twins, results, installed, file>>
  BY DEF BaselineExecuted, CandidateExecuted, Goto, Exit, preparedVars, IInv, Typed, Worlds
<1>2. Typed'
  BY <1>1 DEF envVars, inputVars, IInv, Typed, Parts, Worlds
<1>3. Ran'
  <2>1. pc' \in {"candidate", "installed"} => Executed("baseline") /\ ~BaselineInvalid
    BY DEF BaselineExecuted, CandidateExecuted, Goto, Exit, IInv, Ran
  <2>2. pc' = "installed" => Executed("candidate")
    BY DEF BaselineExecuted, CandidateExecuted, Goto, Exit
  <2> QED BY <1>1, <2>1, <2>2, LateRan DEF Early
<1>4. Archived'
  BY <1>1, LateArchived DEF Worlds
<1>5. Written'
  BY <1>1, WrittenKept
<1> QED BY <1>2, <1>3, <1>4, <1>5 DEF IInv

LEMMA CheckInstalledStep ==
  ASSUME IInv, CInv', CheckInstalled
  PROVE  IInv'
<1>1. PICK b \in MayHold("baseline"), c \in MayHold("candidate") :
        /\ installed' = [w \in Worlds |-> IF w = "baseline" THEN b ELSE c]
        /\ IF b = VersionOf("baseline") /\ c = VersionOf("candidate")
           THEN Goto("write") /\ UNCHANGED exit
           ELSE Exit("failure")
  BY DEF CheckInstalled
<1>2. /\ pc = "installed" /\ pc' \in {"write", "done"} /\ exit' # "success"
      /\ exit' \in {"none", "failure"} /\ (exit' # "none" <=> pc' = "done")
      /\ UNCHANGED <<envVars, inputVars, cacheVars, copied, twins, results, file>>
  BY <1>1 DEF CheckInstalled, Goto, Exit, preparedVars, IInv, Typed
<1>3. Typed'
  BY <1>1, <1>2 DEF envVars, inputVars, IInv, Typed, Parts
<1>4. Ran'
  <2>1. pc' = "write" => \A w \in Worlds : installed'[w] = VersionOf(w)
    BY <1>1 DEF Goto, Exit, Worlds
  <2>2. Executed("baseline") /\ ~BaselineInvalid /\ Executed("candidate")
    BY <1>2 DEF IInv, Ran
  <2> QED BY <1>2, <2>1, <2>2, LateRan DEF Early
<1>5. Archived'
  BY <1>2, LateArchived
<1>6. Written'
  BY <1>2, WrittenKept
<1> QED BY <1>3, <1>4, <1>5, <1>6 DEF IInv

(* The results of a world, as they are written. *)
Projected(rs) == [i \in DOMAIN rs |-> [name |-> rs[i].name, status |-> PublicStatus(rs[i].status)]]

LEMMA EvidenceCompared ==
  ASSUME Typed, Ran, pc = "write"
  PROVE  Compared(Projected(results["baseline"]), Projected(results["candidate"]))
<1> DEFINE r == results["baseline"]
           s == results["candidate"]
           b == Projected(r)
           c == Projected(s)
<1>1. /\ r \in Seq(Result) /\ Len(r) \in Nat /\ DOMAIN r = 1 .. Len(r)
      /\ s \in Seq(Result) /\ Len(s) \in Nat /\ DOMAIN s = 1 .. Len(s)
  BY DEF Typed, Worlds
<1>2. /\ \A i \in 1 .. Len(r) : r[i] \in Result
      /\ \A i \in 1 .. Len(s) : s[i] \in Result
  BY <1>1, ElementOfSeq
<1>3. Planned("baseline") /\ Planned("candidate") /\ Len(Names) \in Nat \ {0}
  BY NamesAssumption DEF Ran, Worlds
<1>4. \A i \in 1 .. Len(r) : r[i].status \in {"Passed", "NotConfigured"}
  BY <1>1, <1>2 DEF Ran, BaselineInvalid, HasStatus, Result, AllStatuses, Statuses
<1>5. Len(r) = Len(Names)
  <2> SUFFICES ASSUME r # << >>, Stops(r[Len(r)].status) PROVE FALSE
    BY DEF Ran, Executed, Last
  <2>1. Len(r) \in 1 .. Len(r)
    BY <1>1
  <2> QED BY <1>4, <2>1 DEF Stops
<1>6. Len(s) \in 1 .. Len(Names) /\ (Len(s) = Len(Names) \/ Stops(s[Len(s)].status))
  BY <1>1, <1>3 DEF Ran, Executed, Last, Planned
<1> HIDE DEF r, s
<1>7. /\ DOMAIN b = 1 .. Len(r)
      /\ \A i \in 1 .. Len(r) : b[i] = [name |-> r[i].name, status |-> PublicStatus(r[i].status)]
      /\ DOMAIN c = 1 .. Len(s)
      /\ \A i \in 1 .. Len(s) : c[i] = [name |-> s[i].name, status |-> PublicStatus(s[i].status)]
  BY <1>1 DEF Projected
<1>8. /\ \A i \in 1 .. Len(r) : b[i] \in BaselineEntries
      /\ \A i \in 1 .. Len(s) : c[i] \in CandidateEntries
  BY <1>2, <1>4, <1>7 DEF PublicStatus, BaselineEntries, CandidateEntries, Result, AllStatuses, Statuses
<1>9. b \in [1 .. Len(r) -> BaselineEntries] /\ c \in [1 .. Len(s) -> CandidateEntries]
  BY <1>1, <1>7, <1>8 DEF Projected
<1>10. b \in Seq(BaselineEntries) /\ Len(b) = Len(r) /\ c \in Seq(CandidateEntries) /\ Len(c) = Len(s)
  <2> HIDE DEF b, c
  <2>1. b \in Seq(BaselineEntries) /\ c \in Seq(CandidateEntries)
    BY <1>1, <1>9, SeqDef
  <2> QED BY <1>1, <1>7, <2>1, LenProperties
<1> HIDE DEF b, c
<1>11. \A i \in 1 .. Len(b) : b[i].name = Names[i]
  <2>1. \A i \in 1 .. Len(r) : r[i].name = Names[i]
    BY <1>3 DEF Planned, r
  <2> QED BY <1>7, <1>10, <2>1
<1>12. ASSUME NEW i \in 1 .. Len(c)
       PROVE  /\ c[i].name = b[i].name
              /\ c[i].status = "NOT_CONFIGURED" <=> b[i].status = "NOT_CONFIGURED"
              /\ i < Len(c) => c[i].status = b[i].status
  <2>1. i \in 1 .. Len(s) /\ i \in 1 .. Len(r)
    <3>1. i \in 1 .. Len(s)
      BY <1>10
    <3> QED BY <3>1, <1>3, <1>5, <1>6
  <2>2. /\ r[i].name = s[i].name
        /\ r[i].status = "NotConfigured" <=> s[i].status = "NotConfigured"
        /\ i < Len(s) => ~Stops(s[i].status)
    BY <1>3, <2>1 DEF Planned, r, s
  <2>3. r[i].status \in {"Passed", "NotConfigured"} /\ s[i].status \in AllStatuses
    BY <1>2, <1>4, <2>1 DEF Result
  <2>4. /\ b[i].name = r[i].name /\ b[i].status = PublicStatus(r[i].status)
        /\ c[i].name = s[i].name /\ c[i].status = PublicStatus(s[i].status)
    BY <1>7, <2>1
  <2> QED BY <1>10, <2>2, <2>3, <2>4 DEF PublicStatus, Stops, AllStatuses, Statuses
<1>13. Len(c) = Len(Names) \/ c[Len(c)].status \in {"FAILED", "TIMEOUT"}
  <2> SUFFICES ASSUME Stops(s[Len(s)].status) PROVE c[Len(c)].status \in {"FAILED", "TIMEOUT"}
    BY <1>6, <1>10
  <2>1. Len(s) \in 1 .. Len(s) /\ s[Len(s)].status \in {"Failed", "TimedOut"}
    BY <1>1, <1>2, <1>6 DEF Stops, Result, AllStatuses, Statuses
  <2>2. c[Len(s)].status = PublicStatus(s[Len(s)].status)
    BY <1>7, <2>1
  <2>3. PublicStatus(s[Len(s)].status) \in {"FAILED", "TIMEOUT"}
    BY <2>1 DEF PublicStatus
  <2>4. Len(c) = Len(s)
    BY <1>10
  <2> QED BY <2>2, <2>3, <2>4
<1>14. Len(b) = Len(Names) /\ Len(c) \in 1 .. Len(Names)
  BY <1>5, <1>6, <1>10
<1>15. Compared(b, c)
  BY <1>10, <1>11, <1>12, <1>13, <1>14 DEF Compared
<1> QED BY <1>15 DEF b, c, r, s

LEMMA WriteStep ==
  ASSUME IInv, CInv', Write
  PROVE  IInv'
<1>1. /\ pc = "write" /\ pc' = "done" /\ exit' = "success"
      /\ UNCHANGED <<envVars, inputVars, cacheVars, copied, twins, results, installed>>
  BY DEF Write, Exit, Goto, preparedVars
<1>2. Typed'
  BY <1>1 DEF envVars, inputVars, IInv, Typed, Parts
<1>3. Ran'
  BY <1>1, LateRan DEF Early, IInv, Ran, inputVars
<1>4. Archived'
  BY <1>1, LateArchived
<1>5. PICK osv \in {"unavailable", "clean", "vulnerable"}, lifecycle \in BOOLEAN, t \in WallTimes :
        file' = Evidence(osv, lifecycle, t)
  BY DEF Write
<1>6. HasEvidence'
  <2>1. "versions" \in DOMAIN file'
    BY <1>5 DEF Evidence
  <2> QED BY <2>1 DEF HasEvidence, NoEvidence, Truncated
<1>7. Compared(file'.verification["baseline"], file'.verification["candidate"])
  <2>1. /\ file'.verification["baseline"] = Projected(results["baseline"])
        /\ file'.verification["candidate"] = Projected(results["candidate"])
    BY <1>5 DEF Evidence, Projected, Worlds
  <2> QED BY <1>1, <2>1, EvidenceCompared DEF IInv
<1>8. LET findings == PolicyFindings(file'.osv, lifecycle) IN
      file'.policy = [findings |-> findings, outcome |-> PolicyOutcome(findings)]
  BY <1>5 DEF Evidence
<1>9. ASSUME NEW w \in Worlds
      PROVE  /\ file'.versions[w] = VersionOf(w)'
             /\ file'.artifacts[w] = twins'[w]
             /\ twins'[w].version = VersionOf(w)'
  <2>1. file'.versions[w] = VersionOf(w) /\ file'.artifacts = artifacts
    BY <1>5 DEF Evidence
  <2>2. VersionOf(w)' = VersionOf(w)
    BY <1>1 DEF inputVars, VersionOf
  <2>3. twins[w] = artifacts[w] /\ artifacts[w].version = VersionOf(w)
    BY <1>1 DEF IInv, Archived, AfterFetch, AfterPrepare, Parts, Early
  <2> QED BY <1>1, <2>1, <2>2, <2>3
<1>10. Written'
  BY <1>6, <1>7, <1>8, <1>9 DEF Written
<1> QED BY <1>2, <1>3, <1>4, <1>10 DEF IInv

LEMMA AbortStep ==
  ASSUME IInv, CInv', Abort
  PROVE  IInv'
<1>1. /\ pc' = "done" /\ exit' = "failure" /\ file' \in {file, Truncated}
      /\ UNCHANGED <<envVars, inputVars, copied, twins, results, installed>>
  BY DEF Abort, Exit, Goto
<1>2. Typed'
  BY <1>1 DEF envVars, inputVars, IInv, Typed, Parts
<1>3. Ran'
  BY <1>1, LateRan DEF Early, Worlds
<1>4. step'[Self] = "idle"
  BY SelfAssumption DEF Abort, cacheVars, GiveUp, Leave, IInv, CInv, CacheTypeOK
<1>5. Archived'
  BY <1>1, <1>4 DEF Archived, AfterFetch, AfterPrepare, Worlds
<1>6. Written'
  BY <1>1, WrittenKept
<1> QED BY <1>2, <1>3, <1>5, <1>6 DEF IInv

LEMMA EditStep ==
  ASSUME IInv, CInv', Edit
  PROVE  IInv'
<1>1. /\ project' \in Projects
      /\ UNCHANGED <<inputVars, cacheVars, pc, copied, twins, results, installed, exit, file>>
  BY DEF Edit
<1>2. Typed'
  BY <1>1 DEF inputVars, IInv, Typed
<1>3. \A w \in Worlds : VersionOf(w)' = VersionOf(w)
  BY <1>1 DEF inputVars, VersionOf
<1>4. Ran'
  BY <1>1, <1>3 DEF IInv, Ran, Planned, Configured, Executed, BaselineInvalid, HasStatus
<1>5. Archived'
  BY <1>1, <1>3 DEF inputVars, cacheVars, IInv, Archived, AfterFetch, AfterPrepare
<1>6. Written'
  BY <1>1, <1>3 DEF IInv, Written, HasEvidence
<1> QED BY <1>2, <1>4, <1>5, <1>6 DEF IInv

LEMMA AgainStep ==
  ASSUME IInv, CInv', Again
  PROVE  IInv'
<1>1. /\ pc = "done" /\ pc' = "resolve" /\ exit' = "none"
      /\ results' = [w \in Worlds |-> << >>] /\ installed' = [w \in Worlds |-> "none"]
      /\ artifacts' = [w \in Worlds |-> Nothing] /\ twins' = [w \in Worlds |-> Nothing]
      /\ copied' = [w \in Worlds |-> project]
      /\ UNCHANGED <<envVars, cacheVars, file>>
  BY DEF Again, Goto
<1>2. Typed'
  BY <1>1 DEF envVars, IInv, Typed, Parts, Early
<1>3. Ran'
  BY <1>1, NamesAssumption DEF Ran, Planned
<1>4. step[Self] = "idle"
  BY <1>1 DEF IInv, Archived, FetchPart
<1>5. Archived'
  BY <1>1, <1>4 DEF cacheVars, Archived, AfterFetch, AfterPrepare, Worlds
<1>6. Written'
  BY <1>1, WrittenKept
<1> QED BY <1>2, <1>3, <1>5, <1>6 DEF IInv

LEMMA NextIInv == IInv /\ [Next]_vars => IInv'
<1> SUFFICES ASSUME IInv, [Next]_vars PROVE IInv'
  OBVIOUS
<1>1. CASE UNCHANGED vars
  <2>1. CInv'
    BY <1>1, NextCache DEF vars, IInv
  <2>2. \A w \in Worlds : VersionOf(w)' = VersionOf(w)
    BY <1>1 DEF vars, inputVars, VersionOf
  <2>3. Typed'
    BY <1>1 DEF vars, envVars, inputVars, IInv, Typed
  <2>4. Ran'
    BY <1>1, <2>2 DEF vars, IInv, Ran, Planned, Configured, Executed, BaselineInvalid, HasStatus
  <2>5. Archived'
    BY <1>1, <2>2 DEF vars, inputVars, cacheVars, IInv, Archived, AfterFetch, AfterPrepare
  <2>6. Written'
    BY <1>1, <2>2 DEF vars, IInv, Written, HasEvidence
  <2> QED BY <2>1, <2>3, <2>4, <2>5, <2>6 DEF IInv
<1>2. CASE Next
  <2>1. CInv'
    BY <1>2, CacheKept
  <2>2. ASSUME NEW w \in Worlds, Fetch(w) \/ Fetched(w) \/ RunCommand(w) PROVE IInv'
    BY <1>2, <2>1, <2>2, FetchStep, FetchedStep, RunCommandStep
  <2>3. CASE CopyBaseline \/ CopyCandidate
    BY <2>1, <2>3, CopyStep
  <2>4. CASE PrepareBaseline
    BY <2>1, <2>4, Worldly, PrepareStep DEF PrepareBaseline
  <2>5. CASE PrepareCandidate
    BY <2>1, <2>5, Worldly, PrepareStep DEF PrepareCandidate
  <2>6. CASE BaselineExecuted \/ CandidateExecuted
    BY <2>1, <2>6, ExecutedStep
  <2>7. CASE Resolve \/ CheckInstalled \/ Write
    BY <2>1, <2>7, ResolveStep, CheckInstalledStep, WriteStep
  <2>8. CASE Other \/ Abort \/ Edit \/ Again
    BY <1>2, <2>1, <2>8, OtherStep, AbortStep, EditStep, AgainStep
  <2> QED BY <1>2, <2>2, <2>3, <2>4, <2>5, <2>6, <2>7, <2>8 DEF Next, Verification
<1> QED BY <1>1, <1>2

LEMMA Invariant == Spec => []IInv
BY InitIInv, NextIInv, PTL DEF Spec

-----------------------------------------------------------------------------

(* main.rs, verify: evidence is written only after a baseline that ran its
   whole plan without a failure and a candidate that ran the same commands up
   to its first failure, with the two versions installed. *)
THEOREM Comparable == Spec => []EvidenceIsComparable
BY Invariant, ComparableHolds, PTL

(* The digests in the evidence are those of the archives the twins were given,
   whatever other verifications do with the cache. *)
THEOREM DigestsAreOfTwins == Spec => []EvidenceNamesArchives
BY Invariant, ArchivesNamed, PTL

(* depguard_core::classify, applied to evidence verify wrote, tells what
   happened. *)
THEOREM Honest == Spec => []OutcomeIsHonest
BY Invariant, HonestHolds, PTL

(* Under verify a file in the cache is the archive its digest names, and whole
   unless someone is filling it or gave up. *)
THEOREM CachedUnderVerify == Spec => []PartialHasCause
<1>1. IInv => PartialHasCause
  BY DEF IInv, CInv
<1> QED BY <1>1, Invariant, PTL

-----------------------------------------------------------------------------
(* Types *)

(* What the types need besides the invariant above: the version the baseline
   stands for is chosen before anything is installed. *)
Counted ==
  /\ edits \in 0 .. MaxEdits /\ runs \in 1 .. MaxRuns
  /\ from = Nothing \/ pc = "done" \/ Published(from)
  /\ \A w \in Worlds : installed[w] \in {"none", VersionOf(w), "another"}
  /\ pc = "resolve" => \A w \in Worlds : installed[w] = "none"

LEMMA InitCounted == Init => Counted
BY BoundsAssumption DEF Init, Counted

LEMMA StepCounted == Counted /\ [Next]_vars => Counted'
<1> SUFFICES ASSUME Counted, [Next]_vars PROVE Counted'
  OBVIOUS
<1>1. CASE Resolve
  <2>1. edits' = edits /\ runs' = runs /\ installed' = installed /\ pc = "resolve"
    BY <1>1 DEF Resolve, envVars
  <2>2. pc' \in {"fetchBaseline", "done"} /\ (Published(from') \/ pc' = "done")
    BY <1>1 DEF Resolve, Exit, Goto
  <2> QED
    BY <2>1, <2>2 DEF Counted, Published
<1>2. CASE \E w \in Worlds : Fetch(w)
  BY <1>2 DEF Fetch, envVars, inputVars, Counted, VersionOf, Published
<1>3. CASE \E w \in Worlds : Fetched(w)
  BY <1>3 DEF Fetched, FetchPart, Goto, envVars, Counted, VersionOf, Published
<1>4. CASE CopyBaseline \/ CopyCandidate
  BY <1>4 DEF CopyBaseline, CopyCandidate, Copy, Goto, envVars, inputVars, Counted, VersionOf, Published
<1>5. CASE PrepareBaseline \/ PrepareCandidate
  BY <1>5 DEF PrepareBaseline, PrepareCandidate, Prepare, Goto, Exit, envVars, inputVars, Counted, VersionOf, Published
<1>6. CASE \E w \in Worlds : RunCommand(w)
  BY <1>6 DEF RunCommand, preparedVars, envVars, inputVars, Counted, VersionOf, Published
<1>7. CASE BaselineExecuted \/ CandidateExecuted \/ Write
  BY <1>7 DEF BaselineExecuted, CandidateExecuted, Write, Goto, Exit, preparedVars, envVars, inputVars, Counted,
              VersionOf, Published
<1>8. CASE CheckInstalled
  <2>1. PICK b \in MayHold("baseline"), c \in MayHold("candidate") :
          installed' = [w \in Worlds |-> IF w = "baseline" THEN b ELSE c]
    BY <1>8 DEF CheckInstalled
  <2>2. \A w \in Worlds : installed'[w] \in {"none", VersionOf(w), "another"}
    BY <2>1 DEF MayHold, Worlds
  <2>3. pc' \in {"write", "done"} /\ pc = "installed"
        /\ UNCHANGED <<edits, runs, from>>
    BY <1>8 DEF CheckInstalled, Goto, Exit, preparedVars, envVars, inputVars
  <2> QED
    BY <2>2, <2>3 DEF Counted, VersionOf, Published
<1>9. CASE Other
  BY <1>9 DEF Other, envVars, inputVars, Counted, VersionOf, Published
<1>10. CASE Abort
  BY <1>10 DEF Abort, Exit, Goto, envVars, inputVars, Counted, VersionOf, Published
<1>11. CASE Edit
  <2>1. edits' \in 0 .. MaxEdits
    BY <1>11, BoundsAssumption DEF Edit, Counted
  <2> QED
    BY <1>11, <2>1 DEF Edit, inputVars, Counted, VersionOf, Published
<1>12. CASE Again
  <2>1. runs' \in 1 .. MaxRuns
    BY <1>12, BoundsAssumption DEF Again, Counted
  <2> QED
    BY <1>12, <2>1 DEF Again, Goto, envVars, Counted
<1>13. CASE UNCHANGED vars
  BY <1>13 DEF vars, envVars, inputVars, Counted, VersionOf, Published
<1> QED
  BY <1>1, <1>2, <1>3, <1>4, <1>5, <1>6, <1>7, <1>8, <1>9, <1>10, <1>11, <1>12, <1>13 DEF Next, Verification

(* The results of each twin follow the plan, an archive is one of the
   registry's, what is installed is nothing, the version or another, and a
   verification has ended exactly when it has an exit code. *)
THEOREM TypeCorrect == Spec => []TypeOK
<1>1. ASSUME IInv, Counted PROVE TypeOK
  <2>1. \A w \in Worlds : /\ DOMAIN results[w] = 1 .. Len(results[w])
                          /\ Len(results[w]) \in Nat /\ Len(results[w]) <= Len(Names)
                          /\ \A i \in 1 .. Len(results[w]) : results[w][i].name = Names[i]
    <3> SUFFICES ASSUME NEW w \in Worlds
                 PROVE  /\ DOMAIN results[w] = 1 .. Len(results[w])
                        /\ Len(results[w]) \in Nat /\ Len(results[w]) <= Len(Names)
                        /\ \A i \in 1 .. Len(results[w]) : results[w][i].name = Names[i]
      OBVIOUS
    <3>1. results[w] \in Seq(Result)
      BY <1>1 DEF IInv, Typed
    <3>2. Planned(w)
      BY <1>1 DEF IInv, Ran
    <3> QED
      BY <3>1, <3>2 DEF Planned
  <2>2. DOMAIN Names = 1 .. Len(Names) /\ Len(Names) \in Nat
    BY NamesAssumption
  <2>3. \A w \in Worlds : /\ DOMAIN results[w] \subseteq DOMAIN Names
                          /\ \A i \in DOMAIN results[w] : results[w][i].name = Names[i]
    BY <2>1, <2>2
  <2>4. \A w \in Worlds : {artifacts[w], twins[w]} \subseteq Archives \cup {Nothing}
    BY <1>1 DEF IInv, Typed
  <2> QED
    BY <1>1, <2>3, <2>4 DEF TypeOK, IInv, Typed, CInv, Counted, Parts, Early
<1>2. Spec => []Counted
  BY InitCounted, StepCounted, PTL DEF Spec
<1> QED
  BY <1>1, <1>2, Invariant, PTL

(* Everything verify does to the artifact cache, in its own steps and in those
   of the other verifications, is a behaviour of module ArtifactCache. *)
THEOREM CacheImplemented == Spec => CacheSpec
<1>1. Init => CacheInit
  BY DEF Init
<1>2. [Next]_vars => [CacheNext]_cacheVars
  BY CacheMoves DEF vars, cacheVars
<1> QED
  BY <1>1, <1>2, PTL DEF Spec, CacheSpec
=============================================================================
