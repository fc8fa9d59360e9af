------------------------------ MODULE OwlUpdate ------------------------------
(***************************************************************************)
(* The life of the FOLIO ontology in one server: startup, the periodic     *)
(* check and its update, the admin's check, update and rollback, and the   *)
(* pipeline runs that read what the updater replaces under them            *)
(* (main.py, owl_updater.py, owl_cache.py, folio_service.py,               *)
(* embedding/service.py, embedding/folio_index.py).                        *)
(*                                                                         *)
(* An update is a coroutine that hands its blocking parts to worker        *)
(* threads: each file operation, each request to GitHub and each rebinding *)
(* of a field of the service is a step, and everybody else may move in     *)
(* between.  A crash stops all of it and starts the server again; the      *)
(* files stay.                                                             *)
(*                                                                         *)
(* Abstractions.  In memory the service is two fields: the graph, and the  *)
(* labels, which stand for the caches built from it (labels, multi labels, *)
(* property labels; they and the branch map are rebound before the graph). *)
(* Of the two embedding indexes the FAISS one is kept, with its file per   *)
(* hash; a hash of the file is the version in it.  Texts of errors and     *)
(* times of checks are left out; automatic updates are on.  A pipeline run *)
(* is its reads of the two fields.                                         *)
(***************************************************************************)
EXTENDS OwlCache, FiniteSets

CONSTANTS
    Jobs,                           \* pipeline runs
    Warmups,                        \* the warm-up thread, if any: reads, is no job
    Probers,                        \* callers of check()
    Updaters,                       \* callers of apply() and rollback()
    Periodic,                       \* the periodic task, one of both
    MaxPolls,                       \* 300 s of waiting, in polls of 5 s
    MaxMishaps,                     \* bound on failures and crashes
    MaxRollbacks                    \* bound on rollbacks

ASSUME ActorsAssumption ==
    /\ Periodic \in Probers \cap Updaters
    /\ Warmups \cap Jobs = {}

ASSUME BoundsAssumption ==
    /\ MaxPolls \in Nat \ {0}
    /\ MaxMishaps \in Nat
    /\ MaxRollbacks \in Nat

VARIABLES
    remote,      \* the version GitHub serves
    disk,        \* the files of owl_cache.py
    indexCache,  \* file name (a hash) -> version of the concepts embedded in it
    mem,         \* the FolioService and the FAISS index in memory
    status,      \* OWLUpdateStatus: update_available, update_in_progress
    upd,         \* the updates, rollbacks and the startup under way
    probe,       \* the checks under way
    reader,      \* the pipeline runs and the warm-up
    overlapped,  \* history: somebody was reading while a reload rebound fields
    count        \* the mishaps and rollbacks so far

vars == <<remote, disk, indexCache, mem, status, upd, probe, reader,
          overlapped, count>>

Readers == Jobs \cup Warmups

Kinds == {"none", "startup", "apply", "rollback"}
UpdatePcs == {"idle", "metadata", "head", "get", "drop", "backup", "install",
              "stamp", "date", "dateSave", "wait", "aside", "restore",
              "discard", "forget", "load", "publish", "swap", "hash", "cold",
              "index", "finish"}
Updates == [kind: Kinds, pc: UpdatePcs, etag: MaybeVersions,
            version: MaybeVersions, hash: MaybeVersions, waited: 0 .. MaxPolls]
NoUpdate == [kind |-> "none", pc |-> "idle", etag |-> None,
             version |-> None, hash |-> None, waited |-> 0]

Probes == [pc: {"idle", "head", "date", "dateSave", "done"},
           etag: MaybeVersions, answer: {"none", "current", "stale", "failed"}]
NoProbe == [pc |-> "idle", etag |-> None, answer |-> "none"]

(* built: the version whose labels this reader is computing.  Two history  *)
(* fields: late, the run began after an update had counted no active job;  *)
(* seen, the versions it has read.                                         *)
ReaderStates == [running: BOOLEAN, counted: BOOLEAN, late: BOOLEAN,
                 built: MaybeVersions, seen: SUBSET Versions]
NoRun == [running |-> FALSE, counted |-> FALSE, late |-> FALSE,
          built |-> None, seen |-> {}]

Counters == [mishaps: 0 .. MaxMishaps, rollbacks: 0 .. MaxRollbacks]

(* Requests are served only after the startup.                             *)
Up == upd[Periodic].kind # "startup"

EmptyMemory == [graph |-> None, labels |-> None, index |-> None]
Quiet == [available |-> FALSE, inProgress |-> FALSE]
Startup == [u \in Updaters |->
              IF u = Periodic
              THEN [NoUpdate EXCEPT !.kind = "startup", !.pc = "metadata"]
              ELSE NoUpdate]

Init ==
    /\ remote = 1
    /\ disk = EmptyDisk
    /\ indexCache = [v \in Versions |-> None]
    /\ mem = EmptyMemory
    /\ status = Quiet
    /\ upd = Startup
    /\ probe = [p \in Probers |-> NoProbe]
    /\ reader = [r \in Readers |-> NoRun]
    /\ overlapped = FALSE
    /\ count = [mishaps |-> 0, rollbacks |-> 0]

(***************************************************************************)
(* How an update goes on, ends and fails.                                  *)
(***************************************************************************)
At(u, pc) == upd[u].pc = pc
Goto(u, pc) == upd' = [upd EXCEPT ![u].pc = pc]

(* An update entering a phase that uses nothing it remembered before.      *)
Begun(kind, pc) == [NoUpdate EXCEPT !.kind = kind, !.pc = pc]
GotoPhase(u, pc) == upd' = [upd EXCEPT ![u] = Begun(upd[u].kind, pc)]

WarmingUp == [NoRun EXCEPT !.running = TRUE]

(* The end of apply and rollback, good or bad: the flag falls.  After the  *)
(* startup, good or bad, the warm-up thread starts.                        *)
Leave(u) ==
    /\ upd' = [upd EXCEPT ![u] = NoUpdate]
    /\ reader' = IF upd[u].kind = "startup"
                 THEN [r \in Readers |-> IF r \in Warmups THEN WarmingUp
                                         ELSE reader[r]]
                 ELSE reader

Mishap ==
    /\ count.mishaps < MaxMishaps
    /\ count' = [count EXCEPT !.mishaps = @ + 1]

(* An exception out of the update: network, HTTP status, XML, a full disk, *)
(* a graph that does not load.                                             *)
Raise(u) ==
    /\ Mishap
    /\ Leave(u)
    /\ status' = [status EXCEPT !.inProgress = FALSE]
    /\ UNCHANGED <<remote, disk, indexCache, mem, probe, overlapped>>

(* One operation on the files by the worker thread of an update.           *)
FileStep(u, from, to, after) ==
    /\ At(u, from)
    /\ disk' = after
    /\ IF to \in {"date", "wait", "hash", "load"} THEN GotoPhase(u, to)
       ELSE Goto(u, to)
    /\ UNCHANGED <<remote, indexCache, mem, status, probe, reader, overlapped,
                   count>>

(***************************************************************************)
(* ensure_owl_fresh, in a worker thread.                                   *)
(***************************************************************************)
AfterEnsure(u) == IF upd[u].kind = "startup" THEN "hash" ELSE "wait"

ReadMetadata(u) ==
    /\ At(u, "metadata")
    /\ upd' = [upd EXCEPT ![u].pc = "head", ![u].etag = Condition(disk)]
    /\ UNCHANGED <<remote, disk, indexCache, mem, status, probe, reader,
                   overlapped, count>>

(* Mutant of Head: the new ETag is saved as soon as it is known.           *)
HeadSaving(u) ==
    \/ /\ NotModified(upd[u].etag, remote)
       /\ FileStep(u, "head", AfterEnsure(u), WithEtag(disk, upd[u].etag))
    \/ /\ At(u, "head")
       /\ ~ NotModified(upd[u].etag, remote)
       /\ upd' = [upd EXCEPT ![u].pc = "get", ![u].etag = remote]
       /\ disk' = WithEtag(disk, remote)
       /\ UNCHANGED <<remote, indexCache, mem, status, probe, reader,
                      overlapped, count>>
    \/ At(u, "head") /\ Raise(u)

Head(u) ==
    \/ /\ NotModified(upd[u].etag, remote)
       /\ FileStep(u, "head", AfterEnsure(u), WithEtag(disk, upd[u].etag))
    \/ /\ At(u, "head")
       /\ ~ NotModified(upd[u].etag, remote)
       /\ upd' = [upd EXCEPT ![u].pc = "get", ![u].etag = remote]
       /\ UNCHANGED <<remote, disk, indexCache, mem, status, probe, reader,
                      overlapped, count>>
    \/ At(u, "head") /\ Raise(u)

(* A second request: it may bring a newer version than the HEAD announced. *)
Get(u) ==
    /\ At(u, "get")
    /\ \/ /\ upd' = [upd EXCEPT ![u].pc = "drop", ![u].version = remote]
          /\ UNCHANGED <<remote, disk, indexCache, mem, status, probe, reader,
                         overlapped, count>>
       \/ Raise(u)

DropBackup(u) == FileStep(u, "drop", "backup", BackupDropped(disk))
BackUp(u) == FileStep(u, "backup", "install", BackedUp(disk))

(* The write of the temporary file may fail, with the cache already moved. *)
Install(u) ==
    \/ FileStep(u, "install", "stamp", Installed(disk, upd[u].version))
    \/ At(u, "install") /\ Raise(u)

Stamp(u) == FileStep(u, "stamp", "date", WithEtag(disk, upd[u].etag))

(* _fetch_source_commit_date reads the metadata and saves it with a date   *)
(* in it; when GitHub does not answer it does neither.                     *)
ReadDate(u) ==
    /\ At(u, "date")
    /\ \/ upd' = [upd EXCEPT ![u].pc = "dateSave", ![u].etag = disk.etag]
       \/ GotoPhase(u, AfterEnsure(u))
    /\ UNCHANGED <<remote, disk, indexCache, mem, status, probe, reader,
                   overlapped, count>>

SaveDate(u) ==
    FileStep(u, "dateSave", AfterEnsure(u), WithEtag(disk, upd[u].etag))

EnsureFresh(u) ==
    \/ ReadMetadata(u)
    \/ Head(u)
    \/ Get(u)
    \/ DropBackup(u)
    \/ BackUp(u)
    \/ Install(u)
    \/ Stamp(u)
    \/ ReadDate(u)
    \/ SaveDate(u)

(***************************************************************************)
(* rollback_owl, in a worker thread.                                       *)
(***************************************************************************)
Aside(u) ==
    \/ /\ disk.previous # None
       /\ FileStep(u, "aside", "restore", SetAside(disk))
    \/ /\ At(u, "aside")
       /\ disk.previous = None            \* FileNotFoundError
       /\ Leave(u)
       /\ status' = [status EXCEPT !.inProgress = FALSE]
       /\ UNCHANGED <<remote, disk, indexCache, mem, probe, overlapped, count>>

Restore(u) == FileStep(u, "restore", "discard", BroughtBack(disk))
Discard(u) == FileStep(u, "discard", "forget", Discarded(disk))
Forget(u) == FileStep(u, "forget", "load", WithEtag(disk, None))

RollBack(u) ==
    \/ Aside(u)
    \/ Restore(u)
    \/ Discard(u)
    \/ Forget(u)

(***************************************************************************)
(* The wait for an idle pipeline.  count_active first fails the jobs it    *)
(* finds stale: their pipelines go on uncounted.                           *)
(***************************************************************************)
Active == {j \in Jobs : reader[j].running /\ reader[j].counted}

(* Mutant of Poll: it waits until the pipeline is idle, however long.      *)
PollForever(u) ==
    /\ At(u, "wait")
    /\ IF Active = {} THEN GotoPhase(u, "load") ELSE UNCHANGED upd
    /\ UNCHANGED <<remote, disk, indexCache, mem, status, probe, reader,
                   overlapped, count>>

Poll(u) ==
    /\ At(u, "wait")
    /\ \E stale \in SUBSET Active :
         /\ reader' = [r \in Readers |->
                         IF r \in stale THEN [reader[r] EXCEPT !.counted = FALSE]
                         ELSE reader[r]]
         /\ \/ /\ Active = stale
               /\ GotoPhase(u, "load")
               /\ UNCHANGED status
            \/ /\ Active # stale
               /\ upd[u].waited + 1 < MaxPolls
               /\ upd' = [upd EXCEPT ![u].waited = @ + 1]
               /\ UNCHANGED status
            \/ /\ Active # stale          \* deferred: the update is given up
               /\ upd[u].waited + 1 = MaxPolls
               /\ upd' = [upd EXCEPT ![u] = NoUpdate]
               /\ status' = [status EXCEPT !.inProgress = FALSE]
    /\ UNCHANGED <<remote, disk, indexCache, mem, probe, overlapped, count>>

(***************************************************************************)
(* Loading the graph.  Without a cache file folio-python downloads one     *)
(* itself and writes it there.                                             *)
(***************************************************************************)
LibraryCache == IF disk.cache = None THEN remote ELSE disk.cache

(* The new fields are built aside and rebound one by one under _load_lock: *)
(* the caches first, the graph last.                                       *)
Load(u) ==
    /\ At(u, "load")
    /\ \/ /\ upd' = [upd EXCEPT ![u].pc = "publish", ![u].version = LibraryCache]
          /\ disk' = Installed(disk, LibraryCache)
          /\ UNCHANGED <<remote, indexCache, mem, status, probe, reader,
                         overlapped, count>>
       \/ Raise(u)

SomebodyReads == \E r \in Readers : reader[r].running

(* Mutant of Publish: the labels are left to be rebuilt by their readers.  *)
PublishLeavingLabels(u) ==
    /\ At(u, "publish")
    /\ overlapped' = SomebodyReads
    /\ Goto(u, "swap")
    /\ UNCHANGED <<remote, disk, indexCache, mem, status, probe, reader, count>>

Publish(u) ==
    /\ At(u, "publish")
    /\ mem' = [mem EXCEPT !.labels = upd[u].version]
    /\ overlapped' = SomebodyReads
    /\ Goto(u, "swap")
    /\ UNCHANGED <<remote, disk, indexCache, status, probe, reader, count>>

Swap(u) ==
    /\ At(u, "swap")
    /\ mem' = [mem EXCEPT !.graph = upd[u].version]
    /\ GotoPhase(u, "hash")
    /\ UNCHANGED <<remote, disk, indexCache, status, probe, reader, overlapped,
                   count>>

LoadLockFree == \A u \in Updaters : upd[u].pc \notin {"publish", "swap"}

(* The startup has no graph yet and loads it like any first reader.        *)
Cold(u) ==
    /\ At(u, "cold")
    /\ LoadLockFree
    /\ \/ /\ mem' = [mem EXCEPT !.graph = LibraryCache]
          /\ disk' = Installed(disk, LibraryCache)
          /\ Goto(u, "index")
          /\ UNCHANGED <<remote, indexCache, status, probe, reader, overlapped,
                         count>>
       \/ Raise(u)

Reload(u) ==
    \/ Load(u)
    \/ Publish(u)
    \/ Swap(u)
    \/ Cold(u)

(***************************************************************************)
(* The new index: from the file of this hash if there is one, else         *)
(* computed from the graph and saved under the hash.  A failure is logged  *)
(* and the old index stays.                                                *)
(***************************************************************************)
(* Mutant of Hash: the ETag names the index file instead of the content.   *)
HashOfEtag(u) ==
    /\ At(u, "hash")
    /\ upd' = [upd EXCEPT ![u].hash = disk.etag,
                          ![u].pc = IF upd[u].kind = "startup" THEN "cold"
                                    ELSE "index"]
    /\ UNCHANGED <<remote, disk, indexCache, mem, status, probe, reader,
                   overlapped, count>>

Hash(u) ==
    /\ At(u, "hash")
    /\ upd' = [upd EXCEPT ![u].hash = disk.cache,
                          ![u].pc = IF upd[u].kind = "startup" THEN "cold"
                                    ELSE "index"]
    /\ UNCHANGED <<remote, disk, indexCache, mem, status, probe, reader,
                   overlapped, count>>

Embedded(hash) ==
    IF hash # None /\ indexCache[hash] # None THEN indexCache[hash]
    ELSE mem.graph

Index(u) ==
    /\ At(u, "index")
    /\ \/ /\ mem' = [mem EXCEPT !.index = Embedded(upd[u].hash)]
          /\ indexCache' = [h \in Versions |->
                              IF h = upd[u].hash THEN Embedded(h)
                              ELSE indexCache[h]]
          /\ UNCHANGED count
       \/ /\ Mishap
          /\ UNCHANGED <<mem, indexCache>>
    /\ GotoPhase(u, "finish")
    /\ UNCHANGED <<remote, disk, status, probe, reader, overlapped>>

Finish(u) ==
    /\ At(u, "finish")
    /\ Leave(u)
    /\ status' = Quiet
    /\ UNCHANGED <<remote, disk, indexCache, mem, probe, overlapped, count>>

UpdateStep(u) ==
    \/ EnsureFresh(u)
    \/ RollBack(u)
    \/ Poll(u)
    \/ Reload(u)
    \/ Hash(u)
    \/ Index(u)
    \/ Finish(u)

(***************************************************************************)
(* The admin's POST apply and POST rollback: the flag is read and raised   *)
(* without a suspension in between.                                        *)
(***************************************************************************)
MayUpdate(u) == upd[u] = NoUpdate /\ ~ status.inProgress

StartApply(u) ==
    /\ Up
    /\ u # Periodic
    /\ MayUpdate(u)
    /\ upd' = [upd EXCEPT ![u] = Begun("apply", "metadata")]
    /\ status' = [status EXCEPT !.inProgress = TRUE]
    /\ UNCHANGED <<remote, disk, indexCache, mem, probe, reader, overlapped,
                   count>>

StartRollback(u) ==
    /\ Up
    /\ u # Periodic
    /\ MayUpdate(u)
    /\ count.rollbacks < MaxRollbacks
    /\ count' = [count EXCEPT !.rollbacks = @ + 1]
    /\ upd' = [upd EXCEPT ![u] = Begun("rollback", "aside")]
    /\ status' = [status EXCEPT !.inProgress = TRUE]
    /\ UNCHANGED <<remote, disk, indexCache, mem, probe, reader, overlapped>>

(***************************************************************************)
(* check(), whose file reads and saves take place in a worker thread and   *)
(* know nothing of update_in_progress.  The periodic one applies what it   *)
(* finds, unless an update is in progress.                                 *)
(***************************************************************************)
StartProbe(p) ==
    /\ Up
    /\ probe[p].pc = "idle"
    /\ p = Periodic => upd[p] = NoUpdate
    /\ probe' = [probe EXCEPT ![p] = [NoProbe EXCEPT !.pc = "head",
                                                     !.etag = Condition(disk)]]
    /\ UNCHANGED <<remote, disk, indexCache, mem, status, upd, reader,
                   overlapped, count>>

Answered(p, pc, answer) ==
    probe' = [probe EXCEPT ![p] = [pc |-> pc, etag |-> None, answer |-> answer]]

(* 304: the metadata read before the request is saved back.                *)
ProbeHead(p) ==
    /\ probe[p].pc = "head"
    /\ \/ /\ NotModified(probe[p].etag, remote)
          /\ disk' = WithEtag(disk, probe[p].etag)
          /\ \E pc \in {"date", "done"} : Answered(p, pc, "current")
          /\ UNCHANGED count
       \/ /\ ~ NotModified(probe[p].etag, remote)
          /\ Answered(p, "date", "stale")
          /\ UNCHANGED <<disk, count>>
       \/ /\ Mishap
          /\ Answered(p, "done", "failed")
          /\ UNCHANGED disk
    /\ UNCHANGED <<remote, indexCache, mem, status, upd, reader, overlapped>>

ProbeReadDate(p) ==
    /\ probe[p].pc = "date"
    /\ \/ probe' = [probe EXCEPT ![p].pc = "dateSave", ![p].etag = disk.etag]
       \/ Answered(p, "done", probe[p].answer)
    /\ UNCHANGED <<remote, disk, indexCache, mem, status, upd, reader,
                   overlapped, count>>

ProbeSaveDate(p) ==
    /\ probe[p].pc = "dateSave"
    /\ disk' = WithEtag(disk, probe[p].etag)
    /\ Answered(p, "done", probe[p].answer)
    /\ UNCHANGED <<remote, indexCache, mem, status, upd, reader, overlapped,
                   count>>

FinishProbe(p) ==
    /\ probe[p].pc = "done"
    /\ probe' = [probe EXCEPT ![p] = NoProbe]
    /\ LET stale == probe[p].answer = "stale"
           apply == p = Periodic /\ stale /\ MayUpdate(p)
       IN  /\ status' = [available |-> stale,
                         inProgress |-> status.inProgress \/ apply]
           /\ upd' = IF apply
                     THEN [upd EXCEPT ![p] = Begun("apply", "metadata")]
                     ELSE upd
    /\ UNCHANGED <<remote, disk, indexCache, mem, reader, overlapped, count>>

ProbeStep(p) ==
    \/ ProbeHead(p)
    \/ ProbeReadDate(p)
    \/ ProbeSaveDate(p)
    \/ FinishProbe(p)

(***************************************************************************)
(* The readers.  A run reads graph and labels in any order and as often as *)
(* it likes; the first to need the labels builds them from the graph it    *)
(* saw, without a lock.  What the warm-up sees is not recorded.            *)
(***************************************************************************)
InProgressPcs == {"load", "publish", "swap"}

StartJob(j) ==
    /\ Up
    /\ ~ reader[j].running
    /\ reader' = [reader EXCEPT ![j] =
         [NoRun EXCEPT !.running = TRUE, !.counted = TRUE,
            !.late = \E u \in Updaters : /\ upd[u].kind = "apply"
                                         /\ upd[u].pc \in InProgressPcs]]
    /\ overlapped' = (overlapped \/ \E u \in Updaters : At(u, "swap"))
    /\ UNCHANGED <<remote, disk, indexCache, mem, status, upd, probe, count>>

Seen(r, version) ==
    IF r \in Jobs THEN reader[r].seen \cup {version} ELSE reader[r].seen

ReadField(r, version) ==
    /\ reader[r].running
    /\ version # None
    /\ reader' = [reader EXCEPT ![r].seen = Seen(r, version)]
    /\ UNCHANGED <<remote, disk, indexCache, mem, status, upd, probe,
                   overlapped, count>>

ReadGraph(r) == ReadField(r, mem.graph)
ReadLabels(r) == ReadField(r, mem.labels)

(* _get_folio of a service without a graph, after a startup that failed.   *)
LoadFirst(r) ==
    /\ reader[r].running
    /\ mem.graph = None
    /\ LoadLockFree
    /\ mem' = [mem EXCEPT !.graph = LibraryCache]
    /\ disk' = Installed(disk, LibraryCache)
    /\ reader' = [reader EXCEPT ![r].seen = Seen(r, LibraryCache)]
    /\ UNCHANGED <<remote, indexCache, status, upd, probe, overlapped, count>>

BuildLabels(r) ==
    /\ reader[r].running
    /\ mem.labels = None
    /\ mem.graph # None
    /\ reader[r].built = None
    /\ reader' = [reader EXCEPT ![r].built = mem.graph,
                                ![r].seen = Seen(r, mem.graph)]
    /\ UNCHANGED <<remote, disk, indexCache, mem, status, upd, probe,
                   overlapped, count>>

KeepLabels(r) ==
    /\ reader[r].built # None
    /\ mem' = [mem EXCEPT !.labels = reader[r].built]
    /\ reader' = [reader EXCEPT ![r].built = None]
    /\ UNCHANGED <<remote, disk, indexCache, status, upd, probe, overlapped,
                   count>>

EndRun(r) ==
    /\ reader[r].running
    /\ reader[r].built = None
    /\ reader' = [reader EXCEPT ![r] = NoRun]
    /\ UNCHANGED <<remote, disk, indexCache, mem, status, upd, probe,
                   overlapped, count>>

Read(r) ==
    \/ ReadGraph(r)
    \/ ReadLabels(r)
    \/ LoadFirst(r)
    \/ BuildLabels(r)
    \/ KeepLabels(r)
    \/ EndRun(r)

(***************************************************************************)
(* GitHub and crashes.                                                     *)
(***************************************************************************)
PublishVersion ==
    /\ remote < MaxVersion
    /\ remote' = remote + 1
    /\ UNCHANGED <<disk, indexCache, mem, status, upd, probe, reader,
                   overlapped, count>>

Crash ==
    /\ Mishap
    /\ mem' = EmptyMemory
    /\ status' = Quiet
    /\ upd' = Startup
    /\ probe' = [p \in Probers |-> NoProbe]
    /\ reader' = [r \in Readers |-> NoRun]
    /\ overlapped' = FALSE
    /\ UNCHANGED <<remote, disk, indexCache>>

Next ==
    \/ \E u \in Updaters : UpdateStep(u) \/ StartApply(u) \/ StartRollback(u)
    \/ \E p \in Probers : StartProbe(p) \/ ProbeStep(p)
    \/ \E j \in Jobs : StartJob(j)
    \/ \E r \in Readers : Read(r)
    \/ PublishVersion
    \/ Crash

(* The event loop and the worker threads go on, requests to GitHub time    *)
(* out, the periodic task comes round.  Nothing is assumed of pipelines,   *)
(* of the admin and of GitHub.                                             *)
Fairness ==
    /\ \A u \in Updaters : WF_vars(UpdateStep(u))
    /\ \A p \in Probers : WF_vars(ProbeStep(p))
    /\ WF_vars(StartProbe(Periodic))

Spec == Init /\ [][Next]_vars /\ Fairness

(***************************************************************************)
(* Properties.                                                             *)
(***************************************************************************)

(* The type of every variable; the index cache and the flag with it.       *)
TypeOK ==
    /\ remote \in Versions
    /\ disk \in Disks
    /\ indexCache \in [Versions -> MaybeVersions]
    /\ mem \in [graph: MaybeVersions, labels: MaybeVersions, index: MaybeVersions]
    /\ status \in [available: BOOLEAN, inProgress: BOOLEAN]
    /\ upd \in [Updaters -> Updates]
    /\ probe \in [Probers -> Probes]
    /\ reader \in [Readers -> ReaderStates]
    /\ overlapped \in BOOLEAN
    /\ count \in Counters

(* The renames of owl_cache.py (lines 211-219, 250-256) never leave the    *)
(* server without any version to go back to: once a version has been       *)
(* stored, one of the files holds one, whatever crashes or fails between   *)
(* two renames.                                                            *)
SomeVersionKept == [][Stored(disk) # {} => Stored(disk') # {}]_vars

(* As long as nobody rolls back, the stored ETag is never newer than the   *)
(* cached file, whatever checks and updates overlap or die half-way: a 304 *)
(* can be believed (owl_cache.py:118-136).                                 *)
EtagNotAhead ==
    count.rollbacks = 0 /\ disk.cache # None => disk.etag <= disk.cache

(* An index file holds the vectors of the version its name hashes: the     *)
(* hash is taken of the file (folio_index.py:77), the vectors are computed *)
(* from the graph in memory, and a load checks no more than the number of  *)
(* concepts (folio_index.py:141).                                          *)
IndexCacheSound == \A h \in Versions : indexCache[h] \in {None, h}

(* From its last rebinding to its end a reload leaves in memory what is on *)
(* disk, although check, other updates and readers go on                   *)
(* (owl_updater.py:127-157, folio_service.py:287-301).                     *)
ReloadedIsCached ==
    \A u \in Updaters :
        /\ upd[u].kind \in {"apply", "rollback"}
        /\ upd[u].pc \in {"hash", "index", "finish"}
        => mem.graph = disk.cache

(* "3. Wait for idle pipeline" (owl_updater.py:6): an update rebinds       *)
(* fields under no run but those that began after it had counted and those *)
(* the count had given up as stale.                                        *)
QuietReload ==
    \A u \in Updaters :
        upd[u].kind = "apply" /\ upd[u].pc \in InProgressPcs =>
            \A j \in Jobs : reader[j].running =>
                               reader[j].late \/ ~ reader[j].counted

(* No run mixes two versions of the ontology unless somebody was reading   *)
(* while fields were rebound: labels kept too late by one reader are the   *)
(* only way a later run gets to see two (folio_service.py:131-179).        *)
MixOnlyUnderReload ==
    (\E j \in Jobs : Cardinality(reader[j].seen) > 1) => overlapped

(* What is in memory, under updates, rollbacks, runs and crashes at once:  *)
(* a reload leaves what is on disk, an update rebinds under no run it had   *)
(* to wait for, and no run sees two versions unless fields were rebound     *)
(* while it read (owl_updater.py:84-157, folio_service.py:268-316).         *)
MemorySound == ReloadedIsCached /\ QuietReload /\ MixOnlyUnderReload

(* Every update, rollback and startup ends, with update_in_progress        *)
(* lowered, although jobs may run for ever (owl_updater.py:84-125).        *)
UpdateEnds ==
    \A u \in Updaters : upd[u].kind # "none" ~> upd[u].kind = "none"

(* If nobody rolls back, the last published version is downloaded and      *)
(* stays among the files, through failures, crashes, overlapping checks    *)
(* and downloads of the same version once more (main.py:76-94).            *)
EventuallyDownloaded == <>[](remote \in Stored(disk) \/ count.rollbacks > 0)

(* Both: whatever fails, each update ends and the last version arrives.    *)
UpdatesProgress == UpdateEnds /\ EventuallyDownloaded

(* What POST check and the log line "OWL update deferred"                  *)
(* (owl_updater.py:124) lead an admin to believe: when a check finds       *)
(* nothing to update and no update is in progress, the version in memory   *)
(* is the version on disk.                                                 *)
UpToDateIsLoaded ==
    \A p \in Probers :
        /\ probe[p].answer = "current"
        /\ ~ status.inProgress
        /\ mem.graph # None
        => mem.graph = disk.cache
=============================================================================
