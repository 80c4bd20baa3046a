--------------------------- MODULE TransitionQuery ---------------------------
(***************************************************************************)
(* The public read side of depguard-server for one package.  A client      *)
(* walks the evidence list of a version transition page by page            *)
(* (transition_evidence), another asks for the transition's aggregates     *)
(* (transition_lookup), a third follows the links from the package down to *)
(* a piece of evidence.  Every query is a statement of its own on the      *)
(* pool, with no transaction around them: ingestion commits evidence and   *)
(* binds CI identities between the pages of a walk, between the queries of *)
(* one aggregate reply and between two links.                              *)
(***************************************************************************)
EXTENDS Integers, Sequences, FiniteSets, FiniteSetsExt, Functions

CONSTANTS
  Ids,           \* evidence ids in the order of their text; the default cursor is below them
  FromOf,        \* the versions the run of each evidence id moved between
  ToOf,
  From,          \* the transition that is walked and asked about
  To,
  SignerOf,      \* the signer of each evidence id
  ColumnOf,      \* for each grouped column, its value in the run of each evidence id
  FindingsOf,    \* the kinds of the behavior findings of that run, one for each row
  Limits,        \* page sizes clients ask for, NoLimit when the parameter is absent
  NoLimit,
  DefaultLimit,  \* 50 in the code
  MaxLimit,      \* 100 in the code
  MaxFailures,   \* bound on failing queries
  Clients        \* whom a behaviour may serve: a "walker", a "reader" of aggregates, a "navigator"

NoCursor == 0

(* The columns of a run, or of what each run has exactly one of (its
   environment, its methodology), that a query groups by. *)
Columns == {"runtime", "os", "architecture", "outcome", "methodology", "process"}

(* The kinds of rows ingestion puts into behavior_findings. *)
Kinds == {"FILESYSTEM_PATH", "PROCESS_PATTERN"}

ASSUME IdsAssumption == Ids \subseteq Nat \ {NoCursor} /\ IsFiniteSet(Ids)
ASSUME AttributesAssumption ==
  /\ DOMAIN FromOf = Ids /\ DOMAIN ToOf = Ids
  /\ DOMAIN SignerOf = Ids
  /\ DOMAIN ColumnOf = Columns /\ \A g \in Columns : DOMAIN ColumnOf[g] = Ids
  /\ FindingsOf \in [Ids -> Seq(Kinds)]
ASSUME LimitsAssumption ==
  /\ Limits \ {NoLimit} \subseteq Int
  /\ MaxLimit \in Nat \ {0} /\ DefaultLimit \in 1 .. MaxLimit /\ MaxFailures \in Nat

VARIABLES
  runs,      \* committed evidence of the package
  certified, \* the part of it with a verified CI identity
  walk,      \* the client's walk: phase, limit asked for, cursor, ids received, whether any was repeated
  initial,   \* evidence of the transition committed when the walk began
  lookup,    \* the aggregate request: phase, and what its queries returned so far
  asked,     \* what the totals' statement saw and did not count: certified runs, behavior findings
  visit,     \* what the navigator knows: the links of its last page, whether one was broken
  failures   \* failed queries so far

storeVars == <<runs, certified>>
walkVars == <<walk, initial>>
lookupVars == <<lookup, asked>>
vars == <<runs, certified, walk, initial, lookup, asked, visit, failures>>

(* The grouping queries after the totals, in the order the handler runs them. *)
Groups == <<"runtime", "os", "architecture", "outcome", "methodology", "process", "behavior", "assurance">>
Null == [failed |-> TRUE]

Package == [page |-> "package"]

(* The clients only read, so a behaviour has one of them. *)
Init ==
  /\ runs = {}
  /\ certified = {}
  /\ \E client \in Clients :
       /\ walk \in [phase : {IF client = "walker" THEN "idle" ELSE "absent"},
                    limit : IF client = "walker" THEN Limits ELSE {NoLimit},
                    cursor : {NoCursor}, seen : {{}}, repeated : {FALSE}]
       /\ lookup = [phase |-> IF client = "reader" THEN "idle" ELSE "absent",
                    runs |-> 0, evidence |-> 0, signers |-> 0, groups |-> << >>]
       /\ visit = [links |-> IF client = "navigator" THEN {Package} ELSE {}, broken |-> FALSE]
  /\ initial = {}
  /\ asked = [certified |-> 0, findings |-> 0]
  /\ failures = 0

-----------------------------------------------------------------------------
(* Ingestion, as its transactions appear to readers *)

Publish(e) ==
  /\ e \notin runs
  /\ runs' = runs \cup {e}
  /\ certified' \in {certified, certified \cup {e}}
  /\ UNCHANGED <<walkVars, lookupVars, visit, failures>>

BindIdentity(e) ==
  /\ e \in runs \ certified
  /\ certified' = certified \cup {e}
  /\ UNCHANGED <<runs, walkVars, lookupVars, visit, failures>>

(* A query fails: the request ends with 500, or the group it is for is null. *)
QueryFails == failures < MaxFailures /\ failures' = failures + 1

(* WHERE r.transition_id = ... *)
OfTransition(from, to) == {e \in runs : FromOf[e] = from /\ ToOf[e] = to}
Ours == OfTransition(From, To)

(* behavior_findings b JOIN verification_runs r: a row for each finding of the
   transition's runs, so none for a run that has no findings. *)
Findings == UNION {{e} \X DOMAIN FindingsOf[e] : e \in Ours}

(* transition_id: the transition row is committed with its first evidence. *)
TransitionExists == Ours # {}

-----------------------------------------------------------------------------
(* transition_evidence *)

BoundedLimit_ZeroAllowed(l) ==
  IF l = NoLimit THEN DefaultLimit ELSE IF l > MaxLimit THEN MaxLimit ELSE IF l < 0 THEN 0 ELSE l
BoundedLimit(l) ==
  IF l = NoLimit THEN DefaultLimit ELSE IF l > MaxLimit THEN MaxLimit ELSE IF l < 1 THEN 1 ELSE l

(* ... ORDER BY evidence_id LIMIT k *)
FirstRows(S, k) == {x \in S : Cardinality({y \in S : y <= x}) <= k}

After_Inclusive(cursor) == {e \in Ours : e >= cursor}
After(cursor) == {e \in Ours : e > cursor}

(* One row more than the page is asked for, to know whether there is another;
   the cursor of the next page is the last row that was kept. *)
Page_NextIsExtraRow(cursor, limit) ==
  LET rows == FirstRows(After(cursor), limit + 1)
      more == Cardinality(rows) > limit
  IN [rows |-> IF more THEN rows \ {Max(rows)} ELSE rows,
      next |-> IF more THEN Max(rows) ELSE NoCursor]
Page(cursor, limit) ==
  LET rows == FirstRows(After(cursor), limit + 1)
      more == Cardinality(rows) > limit
      page == IF more THEN rows \ {Max(rows)} ELSE rows
  IN [rows |-> page,
      next |-> IF more /\ page # {} THEN Max(page) ELSE NoCursor]

(* The first page of a walk: 404 before the transition has evidence. *)
StartWalk ==
  /\ walk.phase = "idle"
  /\ TransitionExists
  /\ walk' = [walk EXCEPT !.phase = "walking"]
  /\ initial' = Ours
  /\ UNCHANGED <<storeVars, lookupVars, visit, failures>>

(* One request of the walk; its client repeats one that failed. *)
FetchPage ==
  /\ walk.phase = "walking"
  /\ LET p == Page(walk.cursor, BoundedLimit(walk.limit)) IN
     walk' = [walk EXCEPT !.seen = @ \cup p.rows,
                          !.repeated = @ \/ p.rows \cap walk.seen # {},
                          !.cursor = IF p.next = NoCursor THEN @ ELSE p.next,
                          !.phase = IF p.next = NoCursor THEN "done" ELSE "walking"]
  /\ UNCHANGED <<storeVars, initial, lookupVars, visit, failures>>

PageFails ==
  /\ walk.phase = "walking"
  /\ QueryFails
  /\ UNCHANGED <<storeVars, walkVars, lookupVars, visit>>

-----------------------------------------------------------------------------
(* transition_lookup *)

ReadTotals ==
  /\ lookup.phase = "idle"
  /\ TransitionExists
  /\ lookup' = [phase |-> "grouping",
                runs |-> Cardinality(Ours),
                evidence |-> Cardinality(Ours),
                signers |-> Cardinality({SignerOf[e] : e \in Ours}),
                groups |-> << >>]
  /\ asked' = [certified |-> Cardinality(Ours \cap certified), findings |-> Cardinality(Findings)]
  /\ UNCHANGED <<storeVars, walkVars, visit, failures>>

TotalsFail ==
  /\ lookup.phase = "idle"
  /\ TransitionExists
  /\ QueryFails
  /\ lookup' = [lookup EXCEPT !.phase = "error"]
  /\ UNCHANGED <<storeVars, walkVars, asked, visit>>

(* SELECT value, count of rows ... GROUP BY value, over the rows of a join *)
CountBy(valueOf, rows) ==
  [v \in {valueOf[x] : x \in rows} |-> Cardinality({x \in rows : valueOf[x] = v})]

(* Evidence without a verified identity counts as a local development key:
   the identities are joined with LEFT JOIN. *)
Assurance_DefaultsToCi(e) == IF e \in runs THEN "SIGSTORE_KEYLESS_CI" ELSE "LOCAL_DEVELOPMENT_KEY"
Assurance(e) == IF e \in certified THEN "SIGSTORE_KEYLESS_CI" ELSE "LOCAL_DEVELOPMENT_KEY"

(* behaviorFindings is not a count of runs, though its field is named so: a
   run counts once for each of its findings. *)
GroupBy_InnerJoin(g) ==
  CASE g \in Columns   -> CountBy(ColumnOf[g], Ours)
    [] g = "behavior"  -> CountBy([b \in Findings |-> FindingsOf[b[1]][b[2]]], Findings)
    [] g = "assurance" -> CountBy([e \in Ours \cap certified |-> Assurance(e)], Ours \cap certified)
GroupBy(g) ==
  CASE g \in Columns   -> CountBy(ColumnOf[g], Ours)
    [] g = "behavior"  -> CountBy([b \in Findings |-> FindingsOf[b[1]][b[2]]], Findings)
    [] g = "assurance" -> CountBy([e \in Ours |-> Assurance(e)], Ours)

NextGroup == Len(lookup.groups) + 1

ReadGroup ==
  /\ lookup.phase = "grouping"
  /\ NextGroup <= Len(Groups)
  /\ lookup' = [lookup EXCEPT !.groups = Append(@, GroupBy(Groups[NextGroup]))]
  /\ UNCHANGED <<storeVars, walkVars, asked, visit, failures>>

GroupFails ==
  /\ lookup.phase = "grouping"
  /\ NextGroup <= Len(Groups)
  /\ QueryFails
  /\ lookup' = [lookup EXCEPT !.groups = Append(@, Null)]
  /\ UNCHANGED <<storeVars, walkVars, asked, visit>>

Reply ==
  /\ lookup.phase = "grouping"
  /\ NextGroup > Len(Groups)
  /\ lookup' = [lookup EXCEPT !.phase = "replied"]
  /\ UNCHANGED <<storeVars, walkVars, asked, visit, failures>>

-----------------------------------------------------------------------------
(* package_lookup, version_lookup, transition_evidence and raw_evidence, each
   giving the client the names the next request is made of *)

Version(v) == [page |-> "version", version |-> v]
Transition(e) == [page |-> "transition", from |-> FromOf[e], to |-> ToOf[e]]
Evidence(e) == [page |-> "evidence", id |-> e]

(* version_lookup: transitions from the version and to it *)
OfVersion_FromOnly(v) == {e \in runs : v = FromOf[e]}
OfVersion(v) == {e \in runs : v \in {FromOf[e], ToOf[e]}}

(* The committed evidence a page is made from: without any it is 404. *)
Rows(link) ==
  CASE link.page = "package" -> runs
    [] link.page = "version" -> OfVersion(link.version)
    [] link.page = "transition" -> OfTransition(link.from, link.to)
    [] link.page = "evidence" -> runs \cap {link.id}

LinksOf(link) ==
  CASE link.page = "package" -> {Version(v) : v \in Range(Restrict(FromOf, runs)) \cup Range(Restrict(ToOf, runs))}
    [] link.page = "version" -> {Transition(e) : e \in Rows(link)}
    [] link.page = "transition" -> {Evidence(e) : e \in FirstRows(Rows(link), DefaultLimit)}
    [] link.page = "evidence" -> {}

Follow ==
  /\ \E link \in visit.links :
       /\ link = Package => runs # {}
       /\ visit' = [links |-> LinksOf(link), broken |-> Rows(link) = {}]
  /\ UNCHANGED <<storeVars, walkVars, lookupVars, failures>>

FollowFails ==
  /\ visit.links # {}
  /\ QueryFails
  /\ UNCHANGED <<storeVars, walkVars, lookupVars, visit>>

-----------------------------------------------------------------------------

Ingestion == \E e \in Ids : Publish(e) \/ BindIdentity(e)
Walk == StartWalk \/ FetchPage
Lookup == ReadTotals \/ ReadGroup \/ Reply
Failure == PageFails \/ TotalsFail \/ GroupFails \/ FollowFails

Next == Ingestion \/ Walk \/ Lookup \/ Follow \/ Failure

Spec == Init /\ [][Next]_vars

(* A client that began a walk asks for its next page and the handler runs its
   queries to the end; nothing forces ingestion, a first request or a failure. *)
FairSpec == Spec /\ WF_vars(FetchPage) /\ WF_vars(ReadGroup \/ Reply)

-----------------------------------------------------------------------------
(* Properties *)

(* Every variable has its type, and a walk never leaves the evidence of its
   transition. *)
TypeOK ==
  /\ certified \subseteq runs /\ runs \subseteq Ids
  /\ walk.phase \in {"absent", "idle", "walking", "done"}
  /\ walk.limit \in Limits \cup {NoLimit}
  /\ walk.cursor \in walk.seen \cup {NoCursor}
  /\ walk.seen \subseteq Ours
  /\ walk.repeated \in BOOLEAN
  /\ initial \subseteq Ours
  /\ lookup.phase \in {"absent", "idle", "grouping", "replied", "error"}
  /\ Len(lookup.groups) <= Len(Groups)
  /\ asked \in [certified : 0 .. Cardinality(Ours \cap certified), findings : 0 .. Cardinality(Findings)]
  /\ visit.broken \in BOOLEAN /\ Cardinality(visit.links) <= 2 * Cardinality(runs) + 1
  /\ failures \in 0 .. MaxFailures

(* However ingestion and failures interleave with a walk, no row is returned
   twice, and a finished walk returned all the evidence that was there when it
   began, for every page size a client can ask for (bounded_limit, the extra
   row, the cursor that is the last row returned). *)
WalkComplete ==
  /\ ~walk.repeated
  /\ walk.phase = "done" => initial \subseteq walk.seen

(* A walk ends: ingestion behind and ahead of the cursor never makes it loop. *)
WalkEnds == (walk.phase = "walking") ~> (walk.phase = "done")

Answered(i) == i \in DOMAIN lookup.groups /\ lookup.groups[i] # Null

Total(i) == SumFunction(lookup.groups[i])

(* The numbers of one aggregate reply may be apart by what was ingested between
   its queries and by nothing else.  A group of runs, which is each but
   behaviorFindings, accounts for at least the runs of the totals and of the
   groups of runs read before it, and only for committed runs, so they agree
   when nothing was ingested.  behaviorFindings adds up to findings, not runs:
   all that the runs of the totals have, and only those of committed runs. *)
GroupsCoverTotals ==
  \A i \in 1 .. Len(lookup.groups) : Answered(i) =>
    IF Groups[i] = "behavior" THEN Total(i) \in asked.findings .. Cardinality(Findings)
    ELSE /\ Total(i) \in lookup.runs .. Cardinality(Ours)
         /\ \A j \in 1 .. i : Answered(j) /\ Groups[j] # "behavior" => Total(j) <= Total(i)

(* signerAssurance counts as CI identities only verified ones, and all that
   were bound when the request began. *)
AssuranceIsVerified ==
  Answered(Len(Groups)) =>
    LET counts == lookup.groups[Len(Groups)]
        ci == IF "SIGSTORE_KEYLESS_CI" \in DOMAIN counts THEN counts["SIGSTORE_KEYLESS_CI"] ELSE 0
    IN ci \in asked.certified .. Cardinality(Ours \cap certified)

(* The names one answer gives can be asked for whatever was ingested since: a
   version that a package lists has transitions, whether something moved from
   it or to it, each transition has evidence, and all evidence can be had. *)
LinksResolve == ~visit.broken
=============================================================================
