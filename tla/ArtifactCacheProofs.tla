-------------------------- MODULE ArtifactCacheProofs --------------------------
(***************************************************************************)
(* What the artifact cache guarantees however many verifications use it.   *)
(***************************************************************************)
EXTENDS ArtifactCache, TLAPS

CInv == CacheTypeOK /\ PartialHasCause

Steps == {"idle", "downloaded", "missing", "writing", "fetched"}

LEMMA InitCache == CacheInit => CInv
BY NothingAssumption DEF CacheInit, CInv, CacheTypeOK, PartialHasCause, File, CachePath

(* A step of fetch that leaves the files alone, under which a verification
   returns nothing it has not seen in the cache and gives up no write. *)
LEMMA QuietStep ==
  ASSUME CInv, NEW p \in Verifications, NEW s \in Steps, NEW a \in Archives \cup {Nothing},
         step' = [step EXCEPT ![p] = s], archive' = [archive EXCEPT ![p] = a],
         UNCHANGED cache, interrupted \subseteq interrupted', interrupted' \subseteq Archives,
         s # "idle" => a \in Archives,
         s \in {"writing", "fetched"} => cache[a] # Nothing,
         step[p] = "writing" => CachePath(archive[p]) \in interrupted' \/ cache[archive[p]].writer # p
  PROVE  CInv'
<1>1. CacheTypeOK' BY DEF CInv, CacheTypeOK, Steps
<1>2. \A q \in Verifications \ {p} : step'[q] = step[q] /\ archive'[q] = archive[q]
  BY DEF CInv, CacheTypeOK
<1>3. ASSUME NEW path \in Archives, cache'[path] # Nothing
      PROVE  /\ CachePath(cache'[path].archive) = path
             /\ \/ cache'[path].writer = Nothing
                \/ path \in interrupted'
                \/ LET writer == cache'[path].writer IN
                   step'[writer] = "writing" /\ CachePath(archive'[writer]) = path
  <2>1. cache'[path] \in [archive : Archives, writer : Verifications \cup {Nothing}]
    BY <1>3, <1>1 DEF CacheTypeOK
  <2>2. CASE cache[path].writer # p
    BY <1>2, <1>3, <2>1, <2>2 DEF CInv, PartialHasCause
  <2>3. CASE cache[path].writer = p
    BY <1>3, <2>1, <2>3 DEF CInv, PartialHasCause, CachePath
  <2> QED BY <2>2, <2>3
<1>4. ASSUME NEW q \in Verifications, step'[q] \in {"writing", "fetched"}
      PROVE  File(q)' # Nothing
  <2>1. CASE q = p
    BY <1>4, <2>1 DEF CInv, CacheTypeOK, File, CachePath
  <2>2. CASE q # p
    BY <1>2, <1>4, <2>2 DEF CInv, PartialHasCause, File, CachePath
  <2> QED BY <2>1, <2>2
<1> QED BY <1>1, <1>3, <1>4 DEF CInv, PartialHasCause

LEMMA DownloadStep ==
  ASSUME CInv, NEW p \in Verifications, NEW a \in Archives, NEW declared \in Archives \cup {Nothing},
         Download(p, a, declared)
  PROVE  CInv'
BY QuietStep DEF Download, Step, Steps, CInv, CacheTypeOK

LEMMA ExistsStep ==
  ASSUME CInv, NEW p \in Verifications, Exists(p)
  PROVE  CInv'
<1>1. PICK next \in {"missing", "fetched"} :
        Step(p, "downloaded", next) /\ (next = "missing" <=> File(p) = Nothing)
  BY DEF Exists
<1>2. archive[p] \in Archives /\ archive' = [archive EXCEPT ![p] = archive[p]]
  BY <1>1 DEF Exists, Step, CInv, CacheTypeOK
<1>3. interrupted' = interrupted /\ cache' = cache /\ interrupted \subseteq Archives
  BY DEF Exists, CInv, CacheTypeOK
<1>4. next = "fetched" => cache[archive[p]] # Nothing
  BY <1>1 DEF File, CachePath
<1> QED BY <1>1, <1>2, <1>3, <1>4, QuietStep DEF Step, Steps

LEMMA OpenStep ==
  ASSUME CInv, NEW p \in Verifications, Open(p)
  PROVE  CInv'
<1>1. archive[p] \in Archives /\ step[p] = "missing" /\ step' = [step EXCEPT ![p] = "writing"]
  BY DEF Open, Step, CInv, CacheTypeOK
<1>2. cache' = [cache EXCEPT ![archive[p]] = [archive |-> archive[p], writer |-> p]]
  BY DEF Open, CachePath, Opened
<1>3. CacheTypeOK'
  <2>1. [archive |-> archive[p], writer |-> p] \in [archive : Archives, writer : Verifications \cup {Nothing}]
    BY <1>1
  <2>2. cache' \in [Archives -> {Nothing} \cup [archive : Archives, writer : Verifications \cup {Nothing}]]
    BY <1>2, <2>1 DEF CInv, CacheTypeOK
  <2> QED BY <1>1, <2>2 DEF Open, CInv, CacheTypeOK
<1>4. ASSUME NEW path \in Archives, cache'[path] # Nothing
      PROVE  /\ CachePath(cache'[path].archive) = path
             /\ \/ cache'[path].writer = Nothing
                \/ path \in interrupted'
                \/ LET writer == cache'[path].writer IN
                   step'[writer] = "writing" /\ CachePath(archive'[writer]) = path
  <2>1. CASE path = archive[p]
    BY <1>1, <1>2, <2>1 DEF Open, CInv, CacheTypeOK, CachePath
  <2>2. CASE path # archive[p]
    <3>1. cache'[path] = cache[path] BY <1>2, <2>2 DEF CInv, CacheTypeOK
    <3>2. cache[path].writer \in Verifications \cup {Nothing}
      BY <1>4, <3>1 DEF CInv, CacheTypeOK
    <3> QED BY <1>1, <1>4, <3>1, <3>2 DEF Open, CInv, PartialHasCause, CacheTypeOK
  <2> QED BY <2>1, <2>2
<1>5. ASSUME NEW q \in Verifications, step'[q] \in {"writing", "fetched"}
      PROVE  File(q)' # Nothing
  <2>1. archive' = archive /\ archive[q] \in Archives
    BY <1>1, <1>5 DEF Open, CInv, CacheTypeOK
  <2>2. CASE archive[q] = archive[p]
    <3>1. cache'[archive'[q]] = [archive |-> archive[p], writer |-> p]
      BY <1>1, <1>2, <2>1, <2>2 DEF CInv, CacheTypeOK
    <3>2. cache'[archive'[q]] # Nothing
      BY <3>1, <1>1, NothingIsNoFile
    <3> QED BY <3>2 DEF File, CachePath
  <2>3. CASE archive[q] # archive[p]
    BY <1>1, <1>2, <1>5, <2>1, <2>3 DEF CInv, PartialHasCause, CacheTypeOK, File, CachePath
  <2> QED BY <2>2, <2>3
<1> QED BY <1>3, <1>4, <1>5 DEF CInv, PartialHasCause

LEMMA FillStep ==
  ASSUME CInv, NEW p \in Verifications, Fill(p)
  PROVE  CInv'
<1>1. /\ archive[p] \in Archives /\ step[p] = "writing"
      /\ step' = [step EXCEPT ![p] = "fetched"]
      /\ archive' = archive /\ interrupted' = interrupted
  BY DEF Fill, Step, CInv, CacheTypeOK
<1> DEFINE path == archive[p]
           whole == [archive |-> path, writer |-> Nothing]
<1>2. PICK file : /\ cache' = [cache EXCEPT ![path] = file]
                  /\ file = whole \/ (file = cache[path] /\ cache[path].writer # p)
  BY DEF Fill, Whole, File, CachePath
<1>3. cache[path] # Nothing /\ cache[path] \in [archive : Archives, writer : Verifications \cup {Nothing}]
  BY <1>1 DEF CInv, CacheTypeOK, PartialHasCause, File, CachePath
<1>4. file # Nothing /\ file \in [archive : Archives, writer : Verifications \cup {Nothing}]
  BY <1>1, <1>2, <1>3, NothingIsNoFile
<1>5. CacheTypeOK' BY <1>1, <1>2, <1>4 DEF CInv, CacheTypeOK
<1>6. \A other \in Archives \ {path} : cache'[other] = cache[other]
  BY <1>2 DEF CInv, CacheTypeOK
<1>7. cache'[path] = file BY <1>1, <1>2 DEF CInv, CacheTypeOK
<1>8. ASSUME NEW some \in Archives, cache'[some] # Nothing
      PROVE  /\ CachePath(cache'[some].archive) = some
             /\ \/ cache'[some].writer = Nothing
                \/ some \in interrupted'
                \/ LET writer == cache'[some].writer IN
                   step'[writer] = "writing" /\ CachePath(archive'[writer]) = some
  <2>1. CASE some = path /\ file = whole
    BY <1>7, <2>1 DEF CachePath
  <2>2. CASE ~(some = path /\ file = whole)
    <3>1. cache'[some] = cache[some] BY <1>2, <1>6, <1>7, <2>2
    <3>2. cache[some].writer \in Verifications \cup {Nothing}
      BY <1>8, <3>1 DEF CInv, CacheTypeOK
    <3>3. cache[some].writer = p => some = path \/ some \in interrupted
      BY <1>8, <3>1, NothingAssumption DEF CInv, PartialHasCause, CachePath
    <3>4. some = path => cache[some].writer # p BY <1>2, <2>2
    <3> QED BY <1>1, <1>8, <3>1, <3>2, <3>3, <3>4 DEF CInv, PartialHasCause, CacheTypeOK
  <2> QED BY <2>1, <2>2
<1>9. ASSUME NEW q \in Verifications, step'[q] \in {"writing", "fetched"}
      PROVE  File(q)' # Nothing
  <2>1. step[q] \in {"writing", "fetched"} /\ archive[q] \in Archives
    BY <1>1, <1>9 DEF CInv, CacheTypeOK
  <2>2. cache[archive[q]] # Nothing BY <2>1 DEF CInv, PartialHasCause, File, CachePath
  <2> QED BY <1>1, <1>4, <1>6, <1>7, <2>1, <2>2 DEF File, CachePath
<1> QED BY <1>5, <1>8, <1>9 DEF CInv, PartialHasCause

LEMMA ReturnStep ==
  ASSUME CInv, NEW p \in Verifications, Return(p)
  PROVE  CInv'
BY QuietStep DEF Return, Leave, Steps, CInv, CacheTypeOK

LEMMA GiveUpStep ==
  ASSUME CInv, NEW p \in Verifications, GiveUp(p)
  PROVE  CInv'
<1>1. interrupted \subseteq interrupted' /\ (step[p] = "writing" => CachePath(archive[p]) \in interrupted')
  BY DEF GiveUp
<1>2. interrupted' \subseteq Archives BY DEF GiveUp, CachePath, CInv, CacheTypeOK
<1> QED BY <1>1, <1>2, QuietStep DEF GiveUp, Leave, Steps

LEMMA NextCache == CInv /\ [CacheNext]_cacheVars => CInv'
<1> SUFFICES ASSUME CInv, [CacheNext]_cacheVars PROVE CInv' OBVIOUS
<1>1. CASE UNCHANGED cacheVars
  BY <1>1 DEF cacheVars, CInv, CacheTypeOK, PartialHasCause, File, CachePath
<1>2. CASE CacheNext
  <2>1. PICK p \in Verifications :
          \/ \E a \in Archives, declared \in Archives \cup {Nothing} : CacheStep(p, a, declared)
          \/ Return(p) \/ GiveUp(p)
    BY <1>2 DEF CacheNext
  <2> QED BY <2>1, DownloadStep, ExistsStep, OpenStep, FillStep, ReturnStep, GiveUpStep DEF CacheStep
<1> QED BY <1>1, <1>2

(* fetch, under any number of verifications: a file in the cache is the archive
   its name says, and whole unless someone is filling it or gave up. *)
THEOREM CacheIsWhole == CacheSpec => [](CacheTypeOK /\ PartialHasCause)
BY InitCache, NextCache, PTL DEF CacheSpec, CInv
=============================================================================
