----------------------------- MODULE ArtifactCache -----------------------------
(***************************************************************************)
(* NpmRegistry::fetch: the archive of a version is downloaded, compared    *)
(* with the integrity the registry declares, and kept in the project's     *)
(* .depguard/cache under its digest unless a file of that name exists.     *)
(* The write truncates the file first and fills it afterwards; it may be   *)
(* interrupted in between, and another verification of the same project    *)
(* may be doing the same.  The digest of an archive identifies it, so that *)
(* an archive stands for its own digest.                                   *)
(***************************************************************************)
CONSTANTS
  Verifications,  \* processes that verify this project
  Archives,       \* what the registry may serve
  Nothing         \* no file, no archive, no integrity

ASSUME NothingAssumption == Nothing \notin Archives \cup Verifications
ASSUME NothingIsNoFile ==
  \A a \in Archives, p \in Verifications \cup {Nothing} : Nothing # [archive |-> a, writer |-> p]

VARIABLES
  cache,       \* the file at each path: Nothing, or its archive and who still has to fill it
  step,        \* how far fetch is in each verification
  archive,     \* the archive it downloaded
  interrupted  \* paths whose write was given up

cacheVars == <<cache, step, archive, interrupted>>

(* cache_root/sha256/<digest>/package.tgz *)
CachePath_ByVersion(a) == CHOOSE b \in Archives : b.version = a.version
CachePath(a) == a

Whole(a) == [archive |-> a, writer |-> Nothing]
Opened(a, p) == [archive |-> a, writer |-> p]

CacheInit ==
  /\ cache = [path \in Archives |-> Nothing]
  /\ step = [p \in Verifications |-> "idle"]
  /\ archive = [p \in Verifications |-> Nothing]
  /\ interrupted = {}

Step(p, from, to) == step[p] = from /\ step' = [step EXCEPT ![p] = to]

(* verify_sri, if the metadata declare an integrity *)
SriHolds(declared, a) == declared \in {Nothing, a}

(* The response; an integrity that does not hold ends fetch with an error. *)
Download(p, a, declared) ==
  /\ SriHolds(declared, a)
  /\ Step(p, "idle", "downloaded")
  /\ archive' = [archive EXCEPT ![p] = a]
  /\ UNCHANGED <<cache, interrupted>>

File(p) == cache[CachePath(archive[p])]

(* artifact_path.exists(): the file found is not read. *)
Exists(p) ==
  /\ \E next \in {"missing", "fetched"} :
       Step(p, "downloaded", next) /\ (next = "missing" <=> File(p) = Nothing)
  /\ UNCHANGED <<cache, archive, interrupted>>

(* tokio::fs::write opens the file, which truncates it ... *)
Open(p) ==
  /\ Step(p, "missing", "writing")
  /\ cache' = [cache EXCEPT ![CachePath(archive[p])] = Opened(archive[p], p)]
  /\ UNCHANGED <<archive, interrupted>>

(* ... and fills it.  Bytes written before another verification truncated the
   file are lost: the file may be completed by this write or by the other's. *)
Fill_NotAwaited(p) ==
  /\ Step(p, "writing", "fetched")
  /\ UNCHANGED <<cache, archive, interrupted>>
Fill(p) ==
  /\ Step(p, "writing", "fetched")
  /\ LET whole == Whole(archive[p]) IN
     \E file \in IF File(p).writer = p THEN {whole} ELSE {File(p), whole} :
       cache' = [cache EXCEPT ![CachePath(archive[p])] = file]
  /\ UNCHANGED <<archive, interrupted>>

(* fetch ends: with its artifact, with an error, or with the process. *)
Leave(p) ==
  /\ step' = [step EXCEPT ![p] = "idle"]
  /\ archive' = [archive EXCEPT ![p] = Nothing]
Return(p) == step[p] = "fetched" /\ Leave(p) /\ UNCHANGED <<cache, interrupted>>
GiveUp(p) ==
  /\ step[p] # "idle" /\ Leave(p)
  /\ interrupted' = interrupted \cup (IF step[p] = "writing" THEN {CachePath(archive[p])} ELSE {})
  /\ UNCHANGED cache

CacheStep(p, a, declared) == Download(p, a, declared) \/ Exists(p) \/ Open(p) \/ Fill(p)

CacheNext ==
  \E p \in Verifications :
    \/ \E a \in Archives, declared \in Archives \cup {Nothing} : CacheStep(p, a, declared)
    \/ Return(p) \/ GiveUp(p)

CacheSpec == CacheInit /\ [][CacheNext]_cacheVars

-----------------------------------------------------------------------------
(* Properties *)

(* Every variable has its type. *)
CacheTypeOK ==
  /\ cache \in [Archives -> {Nothing} \cup [archive : Archives, writer : Verifications \cup {Nothing}]]
  /\ step \in [Verifications -> {"idle", "downloaded", "missing", "writing", "fetched"}]
  /\ archive \in [Verifications -> Archives \cup {Nothing}]
  /\ interrupted \subseteq Archives
  /\ \A p \in Verifications : step[p] # "idle" => archive[p] \in Archives

(* What fetch leaves under a digest: the archive with that digest, and all of
   it - unless a verification is filling the file at this moment, or one gave
   up doing so.  The archive fetch returns exists in the cache. *)
PartialHasCause ==
  /\ \A path \in Archives :
       cache[path] # Nothing =>
         /\ CachePath(cache[path].archive) = path
         /\ \/ cache[path].writer = Nothing
            \/ path \in interrupted
            \/ LET writer == cache[path].writer IN
               step[writer] = "writing" /\ CachePath(archive[writer]) = path
  /\ \A p \in Verifications : step[p] \in {"writing", "fetched"} => File(p) # Nothing
=============================================================================
