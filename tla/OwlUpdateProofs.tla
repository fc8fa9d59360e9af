-------------------------- MODULE OwlUpdateProofs --------------------------
(* Type correctness of OwlUpdate; updates exclude each other; no file         *)
(* operation loses the last version; ETag, index files and memory agree with  *)
(* the cache.  For any number of versions, jobs, updaters and checks, and     *)
(* any number of crashes, failures and rollbacks.                             *)
EXTENDS OwlUpdate, FiniteSetTheorems, TLAPS

-----------------------------------------------------------------------------
(* The inductive invariant, in parts.                                         *)

\* The steps each kind of update passes through.
PhasesOf(kind) ==
    CASE kind = "none" -> {"idle"}
      [] kind = "startup" -> {"metadata", "head", "get", "drop", "backup",
                              "install", "stamp", "date", "dateSave", "hash",
                              "cold", "index", "finish"}
      [] kind = "apply" -> {"metadata", "head", "get", "drop", "backup",
                            "install", "stamp", "date", "dateSave", "wait",
                            "load", "publish", "swap", "hash", "index", "finish"}
      [] OTHER -> {"aside", "restore", "discard", "forget", "load", "publish",
                   "swap", "hash", "index", "finish"}

\* One update, rollback or startup at a time; during the startup nobody reads.
OneAtATime ==
    /\ \A u \in Updaters : upd[u].pc \in PhasesOf(upd[u].kind)
    /\ \A u, v \in Updaters :
         upd[u].kind # "none" /\ upd[v].kind # "none" => u = v
    /\ \A u \in Updaters : upd[u].kind \in {"apply", "rollback"} => status.inProgress
    /\ \A u \in Updaters :
         upd[u].kind = "startup" =>
            u = Periodic /\ \A r \in Readers : ~ reader[r].running
    /\ \A u \in Updaters : upd[u].kind = "rollback" => count.rollbacks > 0

\* What an update relies on between two of its file operations.
InHand(u) ==
    /\ upd[u].pc \in {"drop", "backup", "install"} => upd[u].version # None
    /\ upd[u].pc = "restore" => disk.previous # None
    /\ upd[u].pc = "discard" => disk.cache # None

\* From its load to its end an update has in hand, then in memory, what is
\* on disk, and its index file is named after that.
Loaded(u) ==
    /\ upd[u].pc \in {"publish", "swap"} =>
         upd[u].version = disk.cache /\ disk.cache # None
    /\ upd[u].pc \in {"hash", "index", "finish"} /\ upd[u].kind # "startup" =>
         mem.graph = disk.cache /\ disk.cache # None
    /\ upd[u].pc = "cold" => upd[u].hash = disk.cache
    /\ upd[u].pc = "index" =>
         mem.graph # None /\ (upd[u].hash # None => mem.graph = upd[u].hash)

ControlInv ==
    /\ OneAtATime
    /\ \A u \in Updaters : InHand(u) /\ Loaded(u)
    /\ IndexCacheSound

\* An ETag somebody holds may be stored at any moment: it is not newer than
\* the cache, than what is about to be installed, than what GitHub serves.
Storable(etag) ==
    /\ etag <= remote
    /\ disk.cache # None => etag <= disk.cache
    /\ \A u \in Updaters :
         upd[u].pc \in {"drop", "backup", "install"} => etag <= upd[u].version

EtagsInHand ==
    /\ disk.cache <= remote
    /\ Storable(disk.etag)
    /\ \A p \in Probers : Storable(probe[p].etag)
    /\ \A u \in Updaters :
         /\ upd[u].pc = "get" => upd[u].etag <= remote
         /\ upd[u].pc \in {"drop", "backup", "install"} =>
              upd[u].etag <= upd[u].version /\ upd[u].version <= remote
         /\ upd[u].pc \notin {"get", "drop", "backup", "install"} =>
              Storable(upd[u].etag)

EtagInv == count.rollbacks = 0 => EtagsInHand

\* While fields are rebound nobody reads, or the run is marked; at other times
\* graph, labels, labels being built and all that was seen are one version.
OneVersion ==
    \A r \in Readers :
        /\ reader[r].seen \subseteq {mem.graph}
        /\ mem.labels \in {None, mem.graph}
        /\ reader[r].built \in {None, mem.graph}

MixInv ==
    /\ \A r \in Readers :
         ~ reader[r].running => reader[r].seen = {} /\ reader[r].built = None
    /\ \A u \in Updaters : upd[u].kind = "startup" => mem.labels = None
    /\ \/ overlapped
       \/ /\ \E u \in Updaters : upd[u].pc = "swap" /\ mem.labels = upd[u].version
          /\ \A r \in Readers : ~ reader[r].running
       \/ /\ \A u \in Updaters : upd[u].pc # "swap"
          /\ OneVersion

-----------------------------------------------------------------------------
(* What the file operations do to the fields of a disk.                       *)

LEMMA DiskFields ==
  ASSUME NEW d \in Disks, NEW v \in MaybeVersions
  PROVE  /\ WithEtag(d, v) \in Disks
         /\ WithEtag(d, v).cache = d.cache /\ WithEtag(d, v).previous = d.previous
         /\ WithEtag(d, v).failed = d.failed /\ WithEtag(d, v).etag = v
         /\ Installed(d, v) \in Disks
         /\ Installed(d, v).cache = v /\ Installed(d, v).previous = d.previous
         /\ Installed(d, v).failed = d.failed /\ Installed(d, v).etag = d.etag
BY DEF Disks, WithEtag, Installed

LEMMA RotatedFields ==
  ASSUME NEW d \in Disks
  PROVE  /\ BackupDropped(d) \in Disks
         /\ BackupDropped(d).cache = d.cache /\ BackupDropped(d).etag = d.etag
         /\ BackupDropped(d).failed = d.failed
         /\ d.cache = None => BackupDropped(d) = d
         /\ BackedUp(d) \in Disks /\ BackedUp(d).etag = d.etag
         /\ d.cache = None => BackedUp(d) = d
         /\ d.cache # None => BackedUp(d).cache = None /\ BackedUp(d).previous = d.cache
<1>1. d.cache = None => BackupDropped(d) = d /\ BackedUp(d) = d
  BY DEF BackupDropped, BackedUp
<1>2. CASE d.cache = None  BY <1>1, <1>2
<1>3. CASE d.cache # None
  <2>1. None \in MaybeVersions /\ d.cache \in MaybeVersions
    BY VersionAssumption DEF Disks, MaybeVersions, None
  <2>2. BackupDropped(d) = [d EXCEPT !.previous = None]
    BY <1>3 DEF BackupDropped
  <2>3. BackedUp(d) = [d EXCEPT !.previous = d.cache, !.cache = None]
    BY <1>3 DEF BackedUp
  <2>4. QED  BY <1>3, <2>1, <2>2, <2>3 DEF Disks
<1>4. QED  BY <1>2, <1>3

LEMMA RolledBackFields ==
  ASSUME NEW d \in Disks
  PROVE  /\ SetAside(d) \in Disks /\ SetAside(d).previous = d.previous
         /\ BroughtBack(d) \in Disks /\ BroughtBack(d).cache = d.previous
         /\ BroughtBack(d).failed = d.failed
         /\ Discarded(d) \in Disks /\ Discarded(d).cache = d.cache
         /\ Discarded(d).previous = d.previous
<1>1. None \in MaybeVersions  BY VersionAssumption DEF MaybeVersions, None
<1>2. SetAside(d) \in Disks /\ SetAside(d).previous = d.previous
  <2>1. CASE d.cache = None  BY <2>1 DEF SetAside
  <2>2. CASE d.cache # None
    <3>1. SetAside(d) = [d EXCEPT !.failed = d.cache, !.cache = None]
      BY <2>2 DEF SetAside
    <3>2. QED  BY <1>1, <3>1 DEF Disks
  <2>3. QED  BY <2>1, <2>2
<1>3. QED  BY <1>1, <1>2 DEF Disks, BroughtBack, Discarded

LEMMA VersionTypes ==
  ASSUME TypeOK
  PROVE  /\ remote \in Versions /\ remote \in MaybeVersions /\ remote \in Nat
         /\ remote # None /\ None \in MaybeVersions
         /\ disk.cache \in MaybeVersions /\ disk.previous \in MaybeVersions
         /\ disk.failed \in MaybeVersions /\ disk.etag \in MaybeVersions
         /\ Condition(disk) \in MaybeVersions /\ LibraryCache \in Versions
         /\ MaybeVersions = Versions \cup {None} /\ MaybeVersions \subseteq Nat
BY VersionAssumption DEF TypeOK, Disks, Versions, MaybeVersions, None, Condition, LibraryCache

\* The fields of an update, and what a change of some of them makes of it.
LEMMA UpdateTypes ==
  ASSUME TypeOK, NEW u \in Updaters
  PROVE  /\ upd[u] \in Updates /\ upd[u].kind \in Kinds /\ upd[u].pc \in UpdatePcs
         /\ upd[u].etag \in MaybeVersions /\ upd[u].version \in MaybeVersions
         /\ upd[u].hash \in MaybeVersions /\ upd[u].waited \in 0 .. MaxPolls
BY DEF TypeOK, Updates

\* The updates after one update has moved on.
LEMMA PhaseTypes ==
  ASSUME TypeOK, NEW u \in Updaters, NEW pc \in UpdatePcs
  PROVE  /\ [upd EXCEPT ![u].pc = pc] \in [Updaters -> Updates]
         /\ [upd EXCEPT ![u] = NoUpdate] \in [Updaters -> Updates]
         /\ [upd EXCEPT ![u] = Begun(upd[u].kind, pc)] \in [Updaters -> Updates]
         /\ [upd EXCEPT ![u] = Begun("apply", pc)] \in [Updaters -> Updates]
         /\ [upd EXCEPT ![u] = Begun("rollback", pc)] \in [Updaters -> Updates]
<1>1. upd \in [Updaters -> Updates] /\ upd[u].kind \in Kinds
  BY UpdateTypes DEF TypeOK
<1>2. NoUpdate \in Updates
  <2>1. "none" \in Kinds /\ "idle" \in UpdatePcs /\ None \in MaybeVersions
        /\ 0 \in 0 .. MaxPolls
    BY BoundsAssumption, VersionAssumption DEF Kinds, UpdatePcs, MaybeVersions, None
  <2>2. QED  BY <2>1 DEF NoUpdate, Updates
<1>3. \A kind \in Kinds : Begun(kind, pc) \in Updates
  BY <1>2 DEF Begun, Updates
<1>4. "apply" \in Kinds /\ "rollback" \in Kinds  BY DEF Kinds
<1>5. [upd EXCEPT ![u].pc = pc] \in [Updaters -> Updates]  BY <1>1 DEF Updates
<1>6. QED  BY <1>1, <1>2, <1>3, <1>4, <1>5

LEMMA MovedTypes ==
  ASSUME TypeOK, NEW u \in Updaters, NEW pc \in UpdatePcs, NEW v \in MaybeVersions
  PROVE  /\ [upd EXCEPT ![u].pc = pc, ![u].etag = v] \in [Updaters -> Updates]
         /\ [upd EXCEPT ![u].pc = pc, ![u].version = v] \in [Updaters -> Updates]
         /\ [upd EXCEPT ![u].hash = v, ![u].pc = pc] \in [Updaters -> Updates]
<1>1. upd \in [Updaters -> Updates]  BY DEF TypeOK
<1>2. QED  BY <1>1 DEF Updates

LEMMA ReaderTypes ==
  ASSUME TypeOK, NEW r \in Readers
  PROVE  /\ reader[r] \in ReaderStates /\ reader[r].seen \subseteq Versions
         /\ reader[r].built \in MaybeVersions
         /\ NoRun \in ReaderStates /\ WarmingUp \in ReaderStates
<1>1. None \in MaybeVersions  BY VersionTypes
<1>2. reader[r] \in ReaderStates  BY DEF TypeOK
<1>3. NoRun \in ReaderStates  BY <1>1 DEF NoRun, ReaderStates
<1>4. WarmingUp \in ReaderStates  BY <1>3 DEF WarmingUp, ReaderStates
<1>5. QED  BY <1>2, <1>3, <1>4 DEF ReaderStates

LEMMA LeaveTypes ==
  ASSUME TypeOK, NEW u \in Updaters, Leave(u)
  PROVE  upd' \in [Updaters -> Updates] /\ reader' \in [Readers -> ReaderStates]
<1>1. upd' = [upd EXCEPT ![u] = NoUpdate]  BY DEF Leave
<1>2. "idle" \in UpdatePcs  BY DEF UpdatePcs
<1>3. upd' \in [Updaters -> Updates]  BY <1>1, <1>2, PhaseTypes
<1>4. \A r \in Readers : reader[r] \in ReaderStates /\ WarmingUp \in ReaderStates
  BY ReaderTypes
<1>5. reader \in [Readers -> ReaderStates]  BY DEF TypeOK
<1>6. reader' = IF upd[u].kind = "startup"
                THEN [r \in Readers |-> IF r \in Warmups THEN WarmingUp
                                        ELSE reader[r]]
                ELSE reader
  BY DEF Leave
<1>7. reader' \in [Readers -> ReaderStates]  BY <1>4, <1>5, <1>6
<1>8. QED  BY <1>3, <1>7

LEMMA CounterTypes ==
  ASSUME TypeOK
  PROVE  /\ Mishap => count' \in Counters /\ count'.rollbacks = count.rollbacks
         /\ count.rollbacks < MaxRollbacks =>
              [count EXCEPT !.rollbacks = @ + 1] \in Counters
         /\ count.rollbacks \in Nat
<1>1. count \in Counters /\ count.mishaps \in 0 .. MaxMishaps
      /\ count.rollbacks \in 0 .. MaxRollbacks
  BY DEF TypeOK, Counters
<1>2. count.mishaps < MaxMishaps => count.mishaps + 1 \in 0 .. MaxMishaps
  BY <1>1, BoundsAssumption
<1>3. count.rollbacks < MaxRollbacks => count.rollbacks + 1 \in 0 .. MaxRollbacks
  BY <1>1, BoundsAssumption
<1>4. Mishap => count' \in Counters /\ count'.rollbacks = count.rollbacks
  BY <1>1, <1>2 DEF Mishap, Counters
<1>5. count.rollbacks < MaxRollbacks => [count EXCEPT !.rollbacks = @ + 1] \in Counters
  BY <1>1, <1>3 DEF Counters
<1>6. QED  BY <1>1, <1>4, <1>5, BoundsAssumption

LEMMA StatusTypes ==
  ASSUME TypeOK
  PROVE  /\ Quiet \in [available: BOOLEAN, inProgress: BOOLEAN]
         /\ \A b \in BOOLEAN : [status EXCEPT !.inProgress = b]
                                 \in [available: BOOLEAN, inProgress: BOOLEAN]
         /\ status.inProgress \in BOOLEAN
BY DEF TypeOK, Quiet

LEMMA RaiseType ==
  ASSUME TypeOK, NEW u \in Updaters, Raise(u)
  PROVE  TypeOK'
<1>1. upd' \in [Updaters -> Updates] /\ reader' \in [Readers -> ReaderStates]
  BY LeaveTypes DEF Raise
<1>2. count' \in Counters  BY CounterTypes DEF Raise
<1>3. status' \in [available: BOOLEAN, inProgress: BOOLEAN]
  BY StatusTypes DEF Raise
<1>4. QED  BY <1>1, <1>2, <1>3 DEF Raise, TypeOK

\* One operation on the files.
LEMMA FileStepType ==
  ASSUME TypeOK, NEW u \in Updaters, NEW from, NEW to \in UpdatePcs,
         NEW after \in Disks, FileStep(u, from, to, after)
  PROVE  TypeOK'
<1>1. upd' \in [Updaters -> Updates]
  <2>1. upd' = [upd EXCEPT ![u] = Begun(upd[u].kind, to)]
        \/ upd' = [upd EXCEPT ![u].pc = to]
    BY DEF FileStep, Goto, GotoPhase
  <2>2. /\ [upd EXCEPT ![u] = Begun(upd[u].kind, to)] \in [Updaters -> Updates]
        /\ [upd EXCEPT ![u].pc = to] \in [Updaters -> Updates]
    BY PhaseTypes
  <2>3. QED  BY <2>1, <2>2
<1>2. QED  BY <1>1 DEF FileStep, TypeOK

LEMMA EnsureType ==
  ASSUME TypeOK, NEW u \in Updaters, EnsureFresh(u)
  PROVE  TypeOK'
<1>1. /\ AfterEnsure(u) \in UpdatePcs
      /\ {"head", "get", "drop", "backup", "install", "stamp", "date", "dateSave"}
           \subseteq UpdatePcs
  BY DEF AfterEnsure, UpdatePcs
<1>2. disk \in Disks  BY DEF TypeOK
<1>3. CASE ReadMetadata(u)
  <2>1. upd' \in [Updaters -> Updates]
    BY <1>1, <1>3, MovedTypes, VersionTypes DEF ReadMetadata
  <2>2. QED  BY <1>3, <2>1 DEF ReadMetadata, TypeOK
<1>4. CASE Head(u)
  <2>1. CASE FileStep(u, "head", AfterEnsure(u), WithEtag(disk, upd[u].etag))
    BY <1>1, <1>2, <2>1, DiskFields, UpdateTypes, FileStepType
  <2>2. CASE /\ upd' = [upd EXCEPT ![u].pc = "get", ![u].etag = remote]
             /\ UNCHANGED <<remote, disk, indexCache, mem, status, probe, reader,
                            overlapped, count>>
    <3>1. upd' \in [Updaters -> Updates]
      BY <1>1, <2>2, MovedTypes, VersionTypes
    <3>2. QED  BY <2>2, <3>1 DEF TypeOK
  <2>3. CASE Raise(u)  BY <2>3, RaiseType
  <2>4. QED  BY <1>4, <2>1, <2>2, <2>3 DEF Head
<1>5. CASE Get(u)
  <2>1. CASE /\ upd' = [upd EXCEPT ![u].pc = "drop", ![u].version = remote]
             /\ UNCHANGED <<remote, disk, indexCache, mem, status, probe, reader,
                            overlapped, count>>
    <3>1. upd' \in [Updaters -> Updates]
      BY <1>1, <2>1, MovedTypes, VersionTypes
    <3>2. QED  BY <2>1, <3>1 DEF TypeOK
  <2>2. CASE Raise(u)  BY <2>2, RaiseType
  <2>3. QED  BY <1>5, <2>1, <2>2 DEF Get
<1>6. CASE DropBackup(u)
  BY <1>1, <1>2, <1>6, RotatedFields, FileStepType DEF DropBackup
<1>7. CASE BackUp(u)
  BY <1>1, <1>2, <1>7, RotatedFields, FileStepType DEF BackUp
<1>8. CASE Install(u)
  <2>1. Installed(disk, upd[u].version) \in Disks  BY <1>2, DiskFields, UpdateTypes
  <2>2. QED  BY <1>1, <1>8, <2>1, FileStepType, RaiseType DEF Install
<1>9. CASE Stamp(u)
  <2>1. WithEtag(disk, upd[u].etag) \in Disks  BY <1>2, DiskFields, UpdateTypes
  <2>2. QED  BY <1>1, <1>9, <2>1, FileStepType DEF Stamp
<1>10. CASE ReadDate(u)
  <2>1. upd' \in [Updaters -> Updates]
    <3>1. /\ [upd EXCEPT ![u] = Begun(upd[u].kind, AfterEnsure(u))]
               \in [Updaters -> Updates]
          /\ [upd EXCEPT ![u].pc = "dateSave", ![u].etag = disk.etag]
               \in [Updaters -> Updates]
      BY <1>1, MovedTypes, PhaseTypes, VersionTypes
    <3>2. QED  BY <1>10, <3>1 DEF ReadDate, GotoPhase
  <2>2. QED  BY <1>10, <2>1 DEF ReadDate, TypeOK
<1>11. CASE SaveDate(u)
  <2>1. WithEtag(disk, upd[u].etag) \in Disks  BY <1>2, DiskFields, UpdateTypes
  <2>2. QED  BY <1>1, <1>11, <2>1, FileStepType DEF SaveDate
<1>12. QED
  BY <1>3, <1>4, <1>5, <1>6, <1>7, <1>8, <1>9, <1>10, <1>11 DEF EnsureFresh

LEMMA RollBackType ==
  ASSUME TypeOK, NEW u \in Updaters, RollBack(u)
  PROVE  TypeOK'
<1>1. {"restore", "discard", "forget", "load"} \subseteq UpdatePcs  BY DEF UpdatePcs
<1>2. disk \in Disks /\ None \in MaybeVersions  BY VersionTypes DEF TypeOK
<1>3. CASE Aside(u)
  <2>1. CASE FileStep(u, "aside", "restore", SetAside(disk))
    BY <1>1, <1>2, <2>1, RolledBackFields, FileStepType
  <2>2. CASE /\ Leave(u)
             /\ status' = [status EXCEPT !.inProgress = FALSE]
             /\ UNCHANGED <<remote, disk, indexCache, mem, probe, overlapped, count>>
    BY <2>2, LeaveTypes, StatusTypes DEF TypeOK
  <2>3. QED  BY <1>3, <2>1, <2>2 DEF Aside
<1>4. CASE Restore(u)
  BY <1>1, <1>2, <1>4, RolledBackFields, FileStepType DEF Restore
<1>5. CASE Discard(u)
  BY <1>1, <1>2, <1>5, RolledBackFields, FileStepType DEF Discard
<1>6. CASE Forget(u)
  BY <1>1, <1>2, <1>6, DiskFields, FileStepType DEF Forget
<1>7. QED  BY <1>3, <1>4, <1>5, <1>6 DEF RollBack

LEMMA PollType ==
  ASSUME TypeOK, NEW u \in Updaters, Poll(u)
  PROVE  TypeOK'
<1>1. "load" \in UpdatePcs  BY DEF UpdatePcs
<1>2. upd \in [Updaters -> Updates] /\ upd[u].waited \in 0 .. MaxPolls
  BY UpdateTypes DEF TypeOK
<1>3. PICK stale \in SUBSET Active :
        reader' = [r \in Readers |->
                     IF r \in stale THEN [reader[r] EXCEPT !.counted = FALSE]
                     ELSE reader[r]]
  BY DEF Poll
<1>4. \A r \in Readers : /\ reader[r] \in ReaderStates
                         /\ [reader[r] EXCEPT !.counted = FALSE] \in ReaderStates
  BY ReaderTypes DEF ReaderStates
<1>5. reader' \in [Readers -> ReaderStates]  BY <1>3, <1>4
<1>6. CASE upd[u].waited + 1 < MaxPolls /\ upd' = [upd EXCEPT ![u].waited = @ + 1]
  <2>1. upd[u].waited + 1 \in 0 .. MaxPolls  BY <1>2, <1>6, BoundsAssumption
  <2>2. upd' \in [Updaters -> Updates]  BY <1>2, <1>6, <2>1 DEF Updates
  <2>3. QED
    BY <1>5, <2>2, StatusTypes DEF Poll, TypeOK
<1>7. CASE GotoPhase(u, "load") \/ upd' = [upd EXCEPT ![u] = NoUpdate]
  <2>1. /\ [upd EXCEPT ![u] = Begun(upd[u].kind, "load")] \in [Updaters -> Updates]
        /\ [upd EXCEPT ![u] = NoUpdate] \in [Updaters -> Updates]
    BY <1>1, PhaseTypes
  <2>2. upd' \in [Updaters -> Updates]  BY <1>7, <2>1 DEF GotoPhase
  <2>3. QED  BY <1>5, <2>2, StatusTypes DEF Poll, TypeOK
<1>8. QED  BY <1>6, <1>7 DEF Poll

\* The graph, the labels and the index in memory.
LEMMA MemoryTypes ==
  ASSUME TypeOK, NEW v \in MaybeVersions
  PROVE  LET memories == [graph: MaybeVersions, labels: MaybeVersions,
                          index: MaybeVersions]
         IN  /\ [mem EXCEPT !.graph = v] \in memories
             /\ [mem EXCEPT !.labels = v] \in memories
             /\ [mem EXCEPT !.index = v] \in memories
             /\ mem.graph \in MaybeVersions /\ mem.labels \in MaybeVersions
BY DEF TypeOK

LEMMA ReloadType ==
  ASSUME TypeOK, NEW u \in Updaters, Reload(u)
  PROVE  TypeOK'
<1>1. {"publish", "swap", "hash", "index"} \subseteq UpdatePcs  BY DEF UpdatePcs
<1>2. LibraryCache \in MaybeVersions /\ upd[u].version \in MaybeVersions
  BY VersionTypes, UpdateTypes
<1>3. Installed(disk, LibraryCache) \in Disks  BY <1>2, DiskFields DEF TypeOK
<1>4. CASE Load(u)
  <2>1. CASE Raise(u)  BY <2>1, RaiseType
  <2>2. CASE upd' = [upd EXCEPT ![u].pc = "publish", ![u].version = LibraryCache]
    <3>1. upd' \in [Updaters -> Updates]  BY <1>1, <1>2, <2>2, MovedTypes
    <3>2. CASE disk' = Installed(disk, LibraryCache)
               /\ UNCHANGED <<remote, indexCache, mem, status, probe, reader,
                              overlapped, count>>
      BY <1>3, <3>1, <3>2 DEF TypeOK
    <3>3. QED  BY <1>4, <2>1, <3>2 DEF Load
  <2>3. QED  BY <1>4, <2>1, <2>2 DEF Load
<1>5. CASE Publish(u)
  <2>1. upd' \in [Updaters -> Updates] /\ overlapped' \in BOOLEAN
    BY <1>1, <1>5, PhaseTypes DEF Publish, Goto, SomebodyReads
  <2>2. QED  BY <1>2, <1>5, <2>1, MemoryTypes DEF Publish, TypeOK
<1>6. CASE Swap(u)
  <2>1. upd' \in [Updaters -> Updates]  BY <1>1, <1>6, PhaseTypes DEF Swap, GotoPhase
  <2>2. QED  BY <1>2, <1>6, <2>1, MemoryTypes DEF Swap, TypeOK
<1>7. CASE Cold(u)
  <2>1. CASE Raise(u)  BY <2>1, RaiseType
  <2>2. CASE /\ mem' = [mem EXCEPT !.graph = LibraryCache]
             /\ disk' = Installed(disk, LibraryCache)
             /\ Goto(u, "index")
             /\ UNCHANGED <<remote, indexCache, status, probe, reader, overlapped,
                            count>>
    <3>1. upd' \in [Updaters -> Updates]  BY <1>1, <2>2, PhaseTypes DEF Goto
    <3>2. QED  BY <1>2, <1>3, <2>2, <3>1, MemoryTypes DEF TypeOK
  <2>3. QED  BY <1>7, <2>1, <2>2 DEF Cold
<1>8. QED  BY <1>4, <1>5, <1>6, <1>7 DEF Reload

LEMMA EmbeddedType ==
  ASSUME TypeOK, NEW hash \in MaybeVersions
  PROVE  Embedded(hash) \in MaybeVersions
BY VersionTypes, MemoryTypes DEF TypeOK, Embedded

LEMMA IndexingType ==
  ASSUME TypeOK, NEW u \in Updaters, Hash(u) \/ Index(u) \/ Finish(u)
  PROVE  TypeOK'
<1>1. {"cold", "index", "finish"} \subseteq UpdatePcs  BY DEF UpdatePcs
<1>2. CASE Hash(u)
  <2>1. upd' \in [Updaters -> Updates]
    BY <1>1, <1>2, MovedTypes, VersionTypes DEF Hash
  <2>2. QED  BY <1>2, <2>1 DEF Hash, TypeOK
<1>3. CASE Index(u)
  <2>1. upd' \in [Updaters -> Updates]
    BY <1>1, <1>3, PhaseTypes DEF Index, GotoPhase
  <2>2. mem' \in [graph: MaybeVersions, labels: MaybeVersions, index: MaybeVersions]
    BY <1>3, EmbeddedType, MemoryTypes, UpdateTypes DEF Index, TypeOK
  <2>3. indexCache' \in [Versions -> MaybeVersions]
    <3>1. \A h \in Versions : /\ Embedded(h) \in MaybeVersions
                              /\ indexCache[h] \in MaybeVersions
      BY EmbeddedType, VersionTypes DEF TypeOK
    <3>2. \/ indexCache' = [h \in Versions |->
                              IF h = upd[u].hash THEN Embedded(h)
                              ELSE indexCache[h]]
          \/ indexCache' = indexCache
      BY <1>3 DEF Index
    <3>3. QED  BY <3>1, <3>2 DEF TypeOK
  <2>4. count' \in Counters  BY <1>3, CounterTypes DEF Index, TypeOK
  <2>5. QED  BY <1>3, <2>1, <2>2, <2>3, <2>4 DEF Index, TypeOK
<1>4. CASE Finish(u)
  BY <1>4, LeaveTypes, StatusTypes DEF Finish, TypeOK
<1>5. QED  BY <1>2, <1>3, <1>4

LEMMA UpdateStepType ==
  ASSUME TypeOK, NEW u \in Updaters, UpdateStep(u)
  PROVE  TypeOK'
BY EnsureType, RollBackType, PollType, ReloadType, IndexingType DEF UpdateStep

LEMMA StartType ==
  ASSUME TypeOK, NEW u \in Updaters, StartApply(u) \/ StartRollback(u)
  PROVE  TypeOK'
<1>1. {"metadata", "aside"} \subseteq UpdatePcs  BY DEF UpdatePcs
<1>2. /\ [upd EXCEPT ![u] = Begun("apply", "metadata")] \in [Updaters -> Updates]
      /\ [upd EXCEPT ![u] = Begun("rollback", "aside")] \in [Updaters -> Updates]
  BY <1>1, PhaseTypes
<1>3. [status EXCEPT !.inProgress = TRUE] \in [available: BOOLEAN, inProgress: BOOLEAN]
  BY StatusTypes
<1>4. CASE StartApply(u)  BY <1>2, <1>3, <1>4 DEF StartApply, TypeOK
<1>5. CASE StartRollback(u)
  BY <1>2, <1>3, <1>5, CounterTypes DEF StartRollback, TypeOK
<1>6. QED  BY <1>4, <1>5

LEMMA ProbeType ==
  ASSUME TypeOK, NEW p \in Probers, StartProbe(p) \/ ProbeStep(p)
  PROVE  TypeOK'
<1>1. /\ None \in MaybeVersions /\ Condition(disk) \in MaybeVersions
      /\ disk.etag \in MaybeVersions
  BY VersionTypes
<1>2. probe \in [Probers -> Probes] /\ probe[p].etag \in MaybeVersions
  BY DEF TypeOK, Probes
<1>3. WithEtag(disk, probe[p].etag) \in Disks  BY <1>2, DiskFields DEF TypeOK
<1>4. \A pc \in {"date", "done"} : \A answer \in {"none", "current", "stale", "failed"} :
        Answered(p, pc, answer) => probe' \in [Probers -> Probes]
  BY <1>1, <1>2 DEF Answered, Probes
<1>5. CASE StartProbe(p)
  <2>1. [NoProbe EXCEPT !.pc = "head", !.etag = Condition(disk)] \in Probes
    BY <1>1 DEF NoProbe, Probes
  <2>2. QED  BY <1>2, <1>5, <2>1 DEF StartProbe, TypeOK
<1>6. CASE ProbeHead(p)
  <2>1. probe' \in [Probers -> Probes]  BY <1>4, <1>6 DEF ProbeHead
  <2>2. disk' \in Disks  BY <1>3, <1>6 DEF ProbeHead, TypeOK
  <2>3. count' \in Counters  BY <1>6, CounterTypes DEF ProbeHead, TypeOK
  <2>4. QED  BY <1>6, <2>1, <2>2, <2>3 DEF ProbeHead, TypeOK
<1>7. CASE ProbeReadDate(p)
  <2>1. [probe EXCEPT ![p].pc = "dateSave", ![p].etag = disk.etag]
           \in [Probers -> Probes]
    BY <1>1, <1>2 DEF Probes
  <2>2. probe[p].answer \in {"none", "current", "stale", "failed"}
    BY <1>2 DEF Probes
  <2>3. probe' \in [Probers -> Probes]  BY <1>4, <1>7, <2>1, <2>2 DEF ProbeReadDate
  <2>4. QED  BY <1>7, <2>3 DEF ProbeReadDate, TypeOK
<1>8. CASE ProbeSaveDate(p)
  <2>1. probe[p].answer \in {"none", "current", "stale", "failed"}
    BY <1>2 DEF Probes
  <2>2. probe' \in [Probers -> Probes]  BY <1>4, <1>8, <2>1 DEF ProbeSaveDate
  <2>3. QED  BY <1>3, <1>8, <2>2 DEF ProbeSaveDate, TypeOK
<1>9. CASE FinishProbe(p)
  <2>1. probe' \in [Probers -> Probes]
    <3>1. NoProbe \in Probes  BY <1>1 DEF NoProbe, Probes
    <3>2. QED  BY <1>2, <1>9, <3>1 DEF FinishProbe
  <2>2. upd' \in [Updaters -> Updates]
    <3>1. CASE p = Periodic
      <4>1. p \in Updaters /\ "metadata" \in UpdatePcs
        BY <3>1, ActorsAssumption DEF UpdatePcs
      <4>2. [upd EXCEPT ![p] = Begun("apply", "metadata")] \in [Updaters -> Updates]
        BY <4>1, PhaseTypes
      <4>3. QED  BY <1>9, <4>2 DEF FinishProbe, TypeOK
    <3>2. CASE p # Periodic  BY <1>9, <3>2 DEF FinishProbe, TypeOK
    <3>3. QED  BY <3>1, <3>2
  <2>3. status' \in [available: BOOLEAN, inProgress: BOOLEAN]
    BY <1>9 DEF FinishProbe
  <2>4. QED  BY <1>9, <2>1, <2>2, <2>3 DEF FinishProbe, TypeOK
<1>10. QED  BY <1>5, <1>6, <1>7, <1>8, <1>9 DEF ProbeStep

LEMMA ReadType ==
  ASSUME TypeOK, NEW r \in Readers, Read(r)
  PROVE  TypeOK'
<1>1. /\ reader \in [Readers -> ReaderStates] /\ reader[r] \in ReaderStates
      /\ NoRun \in ReaderStates
  BY ReaderTypes DEF TypeOK
<1>2. MaybeVersions = Versions \cup {None} /\ LibraryCache \in Versions
      /\ mem.graph \in MaybeVersions /\ mem.labels \in MaybeVersions
  BY VersionTypes DEF TypeOK
<1>3. ASSUME NEW v \in Versions
      PROVE  [reader EXCEPT ![r].seen = Seen(r, v)] \in [Readers -> ReaderStates]
  BY <1>1 DEF ReaderStates, Seen
<1>4. CASE ReadGraph(r)
  BY <1>2, <1>3, <1>4 DEF ReadGraph, ReadField, TypeOK
<1>5. CASE ReadLabels(r)
  BY <1>2, <1>3, <1>5 DEF ReadLabels, ReadField, TypeOK
<1>6. CASE LoadFirst(r)
  <2>1. Installed(disk, LibraryCache) \in Disks  BY <1>2, DiskFields DEF TypeOK
  <2>2. QED  BY <1>2, <1>3, <1>6, <2>1, MemoryTypes DEF LoadFirst, TypeOK
<1>7. CASE BuildLabels(r)
  <2>1. mem.graph \in Versions  BY <1>2, <1>7 DEF BuildLabels
  <2>2. [reader EXCEPT ![r].built = mem.graph, ![r].seen = Seen(r, mem.graph)]
           \in [Readers -> ReaderStates]
    BY <1>1, <1>2, <2>1 DEF ReaderStates, Seen
  <2>3. QED  BY <1>7, <2>2 DEF BuildLabels, TypeOK
<1>8. CASE KeepLabels(r)
  <2>1. [reader EXCEPT ![r].built = None] \in [Readers -> ReaderStates]
    BY <1>1, <1>2 DEF ReaderStates
  <2>2. QED  BY <1>8, <2>1, MemoryTypes, ReaderTypes DEF KeepLabels, TypeOK
<1>9. CASE EndRun(r)  BY <1>1, <1>9 DEF EndRun, TypeOK
<1>10. QED  BY <1>4, <1>5, <1>6, <1>7, <1>8, <1>9 DEF Read

LEMMA EnvironmentType ==
  ASSUME TypeOK, PublishVersion \/ Crash \/ \E j \in Jobs : StartJob(j)
  PROVE  TypeOK'
<1>1. CASE PublishVersion
  <2>1. remote' \in Versions
    BY <1>1, VersionAssumption DEF PublishVersion, TypeOK, Versions
  <2>2. QED  BY <1>1, <2>1 DEF PublishVersion, TypeOK
<1>2. CASE Crash
  <2>1. None \in MaybeVersions  BY VersionTypes
  <2>2. upd' \in [Updaters -> Updates] /\ count' \in Counters
    <3>1. NoUpdate \in Updates
          /\ [NoUpdate EXCEPT !.kind = "startup", !.pc = "metadata"] \in Updates
      <4>1. {"none", "startup"} \subseteq Kinds /\ {"idle", "metadata"} \subseteq UpdatePcs
            /\ 0 \in 0 .. MaxPolls
        BY BoundsAssumption DEF Kinds, UpdatePcs
      <4>2. QED  BY <2>1, <4>1 DEF NoUpdate, Updates
    <3>2. QED  BY <1>2, <3>1, CounterTypes DEF Crash, Startup
  <2>3. mem' \in [graph: MaybeVersions, labels: MaybeVersions, index: MaybeVersions]
    BY <1>2, <2>1 DEF Crash, EmptyMemory
  <2>4. probe' \in [Probers -> Probes]  BY <1>2, <2>1 DEF Crash, NoProbe, Probes
  <2>5. reader' \in [Readers -> ReaderStates]
    BY <1>2, <2>1 DEF Crash, NoRun, ReaderStates
  <2>6. QED  BY <1>2, <2>2, <2>3, <2>4, <2>5, StatusTypes DEF Crash, TypeOK
<1>3. CASE \E j \in Jobs : StartJob(j)
  <2>1. PICK j \in Jobs : StartJob(j)  BY <1>3
  <2>2. j \in Readers /\ NoRun \in ReaderStates  BY ReaderTypes DEF Readers
  <2>3. reader' \in [Readers -> ReaderStates]
    BY <2>1, <2>2 DEF StartJob, TypeOK, ReaderStates
  <2>4. QED  BY <2>1, <2>3 DEF StartJob, TypeOK
<1>4. QED  BY <1>1, <1>2, <1>3

LEMMA InitType == Init => TypeOK
<1> SUFFICES ASSUME Init
             PROVE  TypeOK
  OBVIOUS
<1>1. None \in MaybeVersions /\ 1 \in Versions
  BY VersionAssumption DEF MaybeVersions, Versions, None
<1>2. NoUpdate \in Updates
      /\ [NoUpdate EXCEPT !.kind = "startup", !.pc = "metadata"] \in Updates
  <2>1. {"none", "startup"} \subseteq Kinds /\ {"idle", "metadata"} \subseteq UpdatePcs
        /\ 0 \in 0 .. MaxPolls
    BY BoundsAssumption DEF Kinds, UpdatePcs
  <2>2. QED  BY <1>1, <2>1 DEF NoUpdate, Updates
<1>3. upd \in [Updaters -> Updates]  BY <1>2 DEF Init, Startup
<1>4. disk \in Disks /\ mem \in [graph: MaybeVersions, labels: MaybeVersions,
                                 index: MaybeVersions]
  BY <1>1 DEF Init, EmptyDisk, Disks, EmptyMemory
<1>5. probe \in [Probers -> Probes] /\ reader \in [Readers -> ReaderStates]
  BY <1>1 DEF Init, NoProbe, Probes, NoRun, ReaderStates
<1>6. count \in Counters /\ status \in [available: BOOLEAN, inProgress: BOOLEAN]
  BY BoundsAssumption DEF Init, Counters, Quiet
<1>7. QED  BY <1>1, <1>3, <1>4, <1>5, <1>6 DEF Init, TypeOK

LEMMA NextType == TypeOK /\ [Next]_vars => TypeOK'
<1> SUFFICES ASSUME TypeOK, [Next]_vars
             PROVE  TypeOK'
  OBVIOUS
<1>1. CASE \E u \in Updaters : UpdateStep(u) \/ StartApply(u) \/ StartRollback(u)
  BY <1>1, UpdateStepType, StartType
<1>2. CASE \E p \in Probers : StartProbe(p) \/ ProbeStep(p)
  BY <1>2, ProbeType
<1>3. CASE \E r \in Readers : Read(r)  BY <1>3, ReadType
<1>4. CASE PublishVersion \/ Crash \/ \E j \in Jobs : StartJob(j)
  BY <1>4, EnvironmentType
<1>5. CASE UNCHANGED vars  BY <1>5 DEF vars, TypeOK
<1>6. QED  BY <1>1, <1>2, <1>3, <1>4, <1>5 DEF Next

\* TypeOK holds in every reachable state (all of OwlUpdate's steps).
THEOREM OntologyTypeCorrect == Spec => []TypeOK
BY InitType, NextType, PTL DEF Spec

-----------------------------------------------------------------------------
(* One update at a time.                                                      *)

\* Where a kind of update may be.
LEMMA Phases ==
  ASSUME TypeOK, OneAtATime, NEW u \in Updaters
  PROVE  /\ upd[u].kind = "none" <=> upd[u].pc = "idle"
         /\ upd[u].pc \in {"metadata", "head", "get", "drop", "backup", "install",
                           "stamp", "date", "dateSave"} =>
              upd[u].kind \in {"startup", "apply"}
         /\ upd[u].pc = "wait" => upd[u].kind = "apply"
         /\ upd[u].pc \in {"aside", "restore", "discard", "forget"} =>
              upd[u].kind = "rollback"
         /\ upd[u].pc \in {"load", "publish", "swap"} =>
              upd[u].kind \in {"apply", "rollback"}
         /\ upd[u].pc = "cold" => upd[u].kind = "startup"
         /\ upd[u].pc \in {"hash", "index", "finish"} => upd[u].kind # "none"
<1>1. upd[u].pc \in PhasesOf(upd[u].kind)  BY DEF OneAtATime
<1>2. upd[u].kind \in {"none", "startup", "apply", "rollback"}
  BY UpdateTypes DEF Kinds
<1>3. CASE upd[u].kind = "none"  BY <1>1, <1>3 DEF PhasesOf
<1>4. CASE upd[u].kind = "startup"  BY <1>1, <1>4 DEF PhasesOf
<1>5. CASE upd[u].kind = "apply"  BY <1>1, <1>5 DEF PhasesOf
<1>6. CASE upd[u].kind = "rollback"  BY <1>1, <1>6 DEF PhasesOf
<1>7. QED  BY <1>2, <1>3, <1>4, <1>5, <1>6

\* A step of an update moves that update on within its phases, or ends it.
Moves(u) ==
    /\ upd'[u].kind = upd[u].kind
    /\ upd'[u].pc \in PhasesOf(upd[u].kind)
    /\ status' = status
    /\ \A r \in Readers : ~ reader[r].running => ~ reader'[r].running

Ends(u) == upd'[u] = NoUpdate /\ status'.inProgress = FALSE

Alone(u) ==
    /\ upd[u].kind # "none"
    /\ \A v \in Updaters \ {u} : upd'[v] = upd[v]
    /\ count'.rollbacks = count.rollbacks
    /\ remote' = remote
    /\ Moves(u) \/ Ends(u)

\* What a step that assigns to one update leaves of the others.
LEMMA OneAssigned ==
  ASSUME TypeOK, NEW u \in Updaters
  PROVE  /\ \A pc \in UpdatePcs : Goto(u, pc) =>
              /\ upd'[u] = [upd[u] EXCEPT !.pc = pc]
              /\ upd'[u].kind = upd[u].kind /\ upd'[u].pc = pc
              /\ \A v \in Updaters \ {u} : upd'[v] = upd[v]
         /\ \A pc \in UpdatePcs : GotoPhase(u, pc) =>
              /\ upd'[u] = Begun(upd[u].kind, pc)
              /\ upd'[u].kind = upd[u].kind /\ upd'[u].pc = pc
              /\ \A v \in Updaters \ {u} : upd'[v] = upd[v]
         /\ Leave(u) => /\ upd'[u] = NoUpdate
                        /\ \A v \in Updaters \ {u} : upd'[v] = upd[v]
<1>1. upd \in [Updaters -> Updates] /\ upd[u] \in Updates  BY DEF TypeOK
<1>2. ASSUME NEW pc \in UpdatePcs, Goto(u, pc)
      PROVE  /\ upd'[u] = [upd[u] EXCEPT !.pc = pc]
             /\ upd'[u].kind = upd[u].kind /\ upd'[u].pc = pc
             /\ \A v \in Updaters \ {u} : upd'[v] = upd[v]
  BY <1>1, <1>2 DEF Goto, Updates
<1>3. ASSUME NEW pc \in UpdatePcs, GotoPhase(u, pc)
      PROVE  /\ upd'[u] = Begun(upd[u].kind, pc)
             /\ upd'[u].kind = upd[u].kind /\ upd'[u].pc = pc
             /\ \A v \in Updaters \ {u} : upd'[v] = upd[v]
  <2>1. upd'[u] = Begun(upd[u].kind, pc) /\ \A v \in Updaters \ {u} : upd'[v] = upd[v]
    BY <1>1, <1>3 DEF GotoPhase
  <2>2. QED  BY <2>1 DEF Begun, NoUpdate
<1>4. Leave(u) => /\ upd'[u] = NoUpdate
                  /\ \A v \in Updaters \ {u} : upd'[v] = upd[v]
  BY <1>1 DEF Leave
<1>5. QED  BY <1>2, <1>3, <1>4

LEMMA RaiseAlone ==
  ASSUME TypeOK, NEW u \in Updaters, upd[u].kind # "none", Raise(u)
  PROVE  Alone(u)
<1>1. upd'[u] = NoUpdate /\ \A v \in Updaters \ {u} : upd'[v] = upd[v]
  BY OneAssigned DEF Raise
<1>2. status'.inProgress = FALSE  BY DEF Raise, TypeOK
<1>3. count'.rollbacks = count.rollbacks  BY CounterTypes DEF Raise
<1>4. QED  BY <1>1, <1>2, <1>3 DEF Raise, Alone, Ends

LEMMA FileStepAlone ==
  ASSUME TypeOK, OneAtATime, NEW u \in Updaters, NEW from, from # "idle",
         NEW to \in UpdatePcs, to \in PhasesOf(upd[u].kind), NEW after,
         FileStep(u, from, to, after)
  PROVE  Alone(u)
<1>1. upd[u].kind # "none"  BY Phases DEF FileStep, At
<1>2. /\ upd'[u].kind = upd[u].kind /\ upd'[u].pc = to
      /\ \A v \in Updaters \ {u} : upd'[v] = upd[v]
  <2>1. CASE GotoPhase(u, to)  BY <2>1, OneAssigned
  <2>2. CASE Goto(u, to)  BY <2>2, OneAssigned
  <2>3. QED  BY <2>1, <2>2 DEF FileStep
<1>3. QED  BY <1>1, <1>2 DEF FileStep, Alone, Moves

LEMMA EnsureAlone ==
  ASSUME TypeOK, OneAtATime, NEW u \in Updaters, EnsureFresh(u)
  PROVE  Alone(u)
<1>1. upd \in [Updaters -> Updates] /\ upd[u] \in Updates  BY DEF TypeOK
<1>2. upd[u].pc \in {"metadata", "head", "get", "drop", "backup", "install",
                     "stamp", "date", "dateSave"}
  BY DEF EnsureFresh, ReadMetadata, Head, Get, DropBackup, BackUp, Install, Stamp,
         ReadDate, SaveDate, FileStep, At
<1>3. upd[u].kind \in {"startup", "apply"} /\ upd[u].kind # "none"
  BY <1>2, Phases
<1>4. /\ {"head", "get", "drop", "backup", "install", "stamp", "date", "dateSave",
          AfterEnsure(u)} \subseteq PhasesOf(upd[u].kind)
      /\ {"head", "get", "drop", "backup", "install", "stamp", "date", "dateSave",
          AfterEnsure(u)} \subseteq UpdatePcs
  BY <1>3 DEF PhasesOf, AfterEnsure, UpdatePcs
<1>5. CASE Raise(u)  BY <1>3, <1>5, RaiseAlone
<1>6. CASE \E from \in {"head", "drop", "backup", "install", "stamp", "dateSave"} :
             \E to \in {"backup", "install", "stamp", "date", AfterEnsure(u)} :
                \E after : FileStep(u, from, to, after)
  BY <1>4, <1>6, FileStepAlone
<1>7. CASE /\ \/ upd' = [upd EXCEPT ![u].pc = "head", ![u].etag = Condition(disk)]
              \/ upd' = [upd EXCEPT ![u].pc = "get", ![u].etag = remote]
              \/ upd' = [upd EXCEPT ![u].pc = "drop", ![u].version = remote]
              \/ upd' = [upd EXCEPT ![u].pc = "dateSave", ![u].etag = disk.etag]
           /\ UNCHANGED <<remote, status, reader, count>>
  <2>1. /\ upd'[u].kind = upd[u].kind
        /\ upd'[u].pc \in {"head", "get", "drop", "dateSave"}
        /\ \A v \in Updaters \ {u} : upd'[v] = upd[v]
    BY <1>1, <1>7 DEF Updates
  <2>2. QED  BY <1>3, <1>4, <1>7, <2>1 DEF Alone, Moves
<1>8. CASE GotoPhase(u, AfterEnsure(u)) /\ UNCHANGED <<remote, status, reader, count>>
  BY <1>3, <1>4, <1>8, OneAssigned DEF Alone, Moves
<1>9. CASE ReadMetadata(u)  BY <1>7, <1>9 DEF ReadMetadata
<1>10. CASE Head(u)  BY <1>5, <1>6, <1>7, <1>10 DEF Head
<1>11. CASE Get(u)  BY <1>5, <1>7, <1>11 DEF Get
<1>12. CASE DropBackup(u)  BY <1>6, <1>12 DEF DropBackup
<1>13. CASE BackUp(u)  BY <1>6, <1>13 DEF BackUp
<1>14. CASE Install(u)  BY <1>5, <1>6, <1>14 DEF Install
<1>15. CASE Stamp(u)  BY <1>6, <1>15 DEF Stamp
<1>16. CASE ReadDate(u)  BY <1>7, <1>8, <1>16 DEF ReadDate
<1>17. CASE SaveDate(u)  BY <1>6, <1>17 DEF SaveDate
<1>18. QED
  BY <1>9, <1>10, <1>11, <1>12, <1>13, <1>14, <1>15, <1>16, <1>17 DEF EnsureFresh

LEMMA RollBackAlone ==
  ASSUME TypeOK, OneAtATime, NEW u \in Updaters, RollBack(u)
  PROVE  Alone(u)
<1>1. upd[u].pc \in {"aside", "restore", "discard", "forget"}
  BY DEF RollBack, Aside, Restore, Discard, Forget, FileStep, At
<1>2. upd[u].kind = "rollback"  BY <1>1, Phases
<1>3. /\ {"restore", "discard", "forget", "load"} \subseteq PhasesOf(upd[u].kind)
      /\ {"restore", "discard", "forget", "load"} \subseteq UpdatePcs
  BY <1>2 DEF PhasesOf, UpdatePcs
<1>4. CASE \E from \in {"aside", "restore", "discard", "forget"} :
             \E to \in {"restore", "discard", "forget", "load"} :
                \E after : FileStep(u, from, to, after)
  BY <1>3, <1>4, FileStepAlone
<1>5. CASE /\ Leave(u)
           /\ status' = [status EXCEPT !.inProgress = FALSE]
           /\ UNCHANGED <<remote, count>>
  <2>1. status'.inProgress = FALSE  BY <1>5 DEF TypeOK
  <2>2. upd'[u] = NoUpdate /\ \A v \in Updaters \ {u} : upd'[v] = upd[v]
    BY <1>5, OneAssigned
  <2>3. QED  BY <1>2, <1>5, <2>1, <2>2 DEF Alone, Ends
<1>6. QED  BY <1>4, <1>5 DEF RollBack, Aside, Restore, Discard, Forget

LEMMA PollAlone ==
  ASSUME TypeOK, OneAtATime, NEW u \in Updaters, Poll(u)
  PROVE  Alone(u)
<1>1. upd \in [Updaters -> Updates] /\ upd[u] \in Updates  BY DEF TypeOK
<1>2. upd[u].kind = "apply" /\ upd[u].pc = "wait"  BY Phases DEF Poll, At
<1>3. /\ {"wait", "load"} \subseteq PhasesOf(upd[u].kind)
      /\ {"wait", "load"} \subseteq UpdatePcs
  BY <1>2 DEF PhasesOf, UpdatePcs
<1>4. PICK stale \in SUBSET Active :
        reader' = [r \in Readers |->
                     IF r \in stale THEN [reader[r] EXCEPT !.counted = FALSE]
                     ELSE reader[r]]
  BY DEF Poll
<1>5. \A r \in Readers : reader'[r].running = reader[r].running
  BY <1>4, ReaderTypes DEF ReaderStates
<1>6. CASE /\ upd' = [upd EXCEPT ![u].waited = @ + 1]
           /\ UNCHANGED status
  <2>1. /\ upd'[u].kind = upd[u].kind /\ upd'[u].pc = "wait"
        /\ \A v \in Updaters \ {u} : upd'[v] = upd[v]
    BY <1>1, <1>2, <1>6 DEF Updates
  <2>2. QED  BY <1>2, <1>3, <1>5, <1>6, <2>1 DEF Poll, Alone, Moves
<1>7. CASE GotoPhase(u, "load") /\ UNCHANGED status
  BY <1>2, <1>3, <1>5, <1>7, OneAssigned DEF Poll, Alone, Moves
<1>8. CASE /\ upd' = [upd EXCEPT ![u] = NoUpdate]
           /\ status' = [status EXCEPT !.inProgress = FALSE]
  <2>1. status'.inProgress = FALSE  BY <1>8 DEF TypeOK
  <2>2. QED  BY <1>1, <1>2, <1>8, <2>1 DEF Poll, Alone, Ends
<1>9. QED  BY <1>6, <1>7, <1>8 DEF Poll

LEMMA ReloadAlone ==
  ASSUME TypeOK, OneAtATime, NEW u \in Updaters, Reload(u)
  PROVE  Alone(u)
<1>1. upd \in [Updaters -> Updates] /\ upd[u] \in Updates  BY DEF TypeOK
<1>2. {"publish", "swap", "hash", "index"} \subseteq UpdatePcs  BY DEF UpdatePcs
<1>3. CASE Raise(u) /\ upd[u].kind # "none"  BY <1>3, RaiseAlone
<1>4. CASE Load(u)
  <2>1. upd[u].kind \in {"apply", "rollback"}  BY <1>4, Phases DEF Load, At
  <2>2. "publish" \in PhasesOf(upd[u].kind)  BY <2>1 DEF PhasesOf
  <2>3. CASE /\ upd' = [upd EXCEPT ![u].pc = "publish", ![u].version = LibraryCache]
             /\ UNCHANGED <<remote, status, reader, count>>
    <3>1. /\ upd'[u].kind = upd[u].kind /\ upd'[u].pc = "publish"
          /\ \A v \in Updaters \ {u} : upd'[v] = upd[v]
      BY <1>1, <2>3 DEF Updates
    <3>2. QED  BY <2>1, <2>2, <2>3, <3>1 DEF Alone, Moves
  <2>4. QED  BY <1>3, <1>4, <2>1, <2>3 DEF Load
<1>5. CASE Publish(u)
  <2>1. upd[u].kind \in {"apply", "rollback"}  BY <1>5, Phases DEF Publish, At
  <2>2. "swap" \in PhasesOf(upd[u].kind)  BY <2>1 DEF PhasesOf
  <2>3. QED  BY <1>2, <1>5, <2>1, <2>2, OneAssigned DEF Publish, Alone, Moves
<1>6. CASE Swap(u)
  <2>1. upd[u].kind \in {"apply", "rollback"}  BY <1>6, Phases DEF Swap, At
  <2>2. "hash" \in PhasesOf(upd[u].kind)  BY <2>1 DEF PhasesOf
  <2>3. QED  BY <1>2, <1>6, <2>1, <2>2, OneAssigned DEF Swap, Alone, Moves
<1>7. CASE Cold(u)
  <2>1. upd[u].kind = "startup"  BY <1>7, Phases DEF Cold, At
  <2>2. "index" \in PhasesOf(upd[u].kind)  BY <2>1 DEF PhasesOf
  <2>3. CASE Goto(u, "index") /\ UNCHANGED <<remote, status, reader, count>>
    BY <1>2, <2>1, <2>2, <2>3, OneAssigned DEF Alone, Moves
  <2>4. QED  BY <1>3, <1>7, <2>1, <2>3 DEF Cold
<1>8. QED  BY <1>4, <1>5, <1>6, <1>7 DEF Reload

LEMMA IndexingAlone ==
  ASSUME TypeOK, OneAtATime, NEW u \in Updaters, Hash(u) \/ Index(u) \/ Finish(u)
  PROVE  Alone(u)
<1>1. upd \in [Updaters -> Updates] /\ upd[u] \in Updates  BY DEF TypeOK
<1>2. /\ upd[u].kind # "none"
      /\ upd[u].kind = "startup" => "cold" \in PhasesOf(upd[u].kind)
      /\ {"index", "finish"} \subseteq PhasesOf(upd[u].kind)
  <2>1. upd[u].kind \in Kinds \ {"none"}
    BY Phases, UpdateTypes DEF Hash, Index, Finish, At
  <2>2. QED  BY <2>1 DEF Kinds, PhasesOf
<1>3. CASE Hash(u)
  <2>1. /\ upd'[u].kind = upd[u].kind
        /\ upd'[u].pc = IF upd[u].kind = "startup" THEN "cold" ELSE "index"
        /\ \A v \in Updaters \ {u} : upd'[v] = upd[v]
    BY <1>1, <1>3 DEF Hash, Updates
  <2>2. QED  BY <1>2, <1>3, <2>1 DEF Hash, Alone, Moves
<1>4. CASE Index(u)
  <2>1. /\ upd'[u].kind = upd[u].kind /\ upd'[u].pc = "finish"
        /\ \A v \in Updaters \ {u} : upd'[v] = upd[v]
    BY <1>4, OneAssigned DEF Index, UpdatePcs
  <2>2. count'.rollbacks = count.rollbacks  BY <1>4, CounterTypes DEF Index
  <2>3. QED  BY <1>2, <1>4, <2>1, <2>2 DEF Index, Alone, Moves
<1>5. CASE Finish(u)
  <2>1. upd'[u] = NoUpdate /\ \A v \in Updaters \ {u} : upd'[v] = upd[v]
    BY <1>5, OneAssigned DEF Finish
  <2>2. status'.inProgress = FALSE  BY <1>5 DEF Finish, Quiet
  <2>3. QED  BY <1>2, <1>5, <2>1, <2>2 DEF Finish, Alone, Ends
<1>6. QED  BY <1>3, <1>4, <1>5

LEMMA UpdateStepAlone ==
  ASSUME TypeOK, OneAtATime, NEW u \in Updaters, UpdateStep(u)
  PROVE  Alone(u)
BY EnsureAlone, RollBackAlone, PollAlone, ReloadAlone, IndexingAlone DEF UpdateStep

\* After such a step all the other updates are still idle.
LEMMA OthersIdle ==
  ASSUME TypeOK, OneAtATime, NEW u \in Updaters, Alone(u), NEW v \in Updaters \ {u}
  PROVE  upd'[v] = upd[v] /\ upd[v].kind = "none" /\ upd[v].pc = "idle"
BY Phases DEF Alone, OneAtATime

LEMMA AloneKeeps ==
  ASSUME TypeOK, OneAtATime, NEW u \in Updaters, Alone(u)
  PROVE  OneAtATime'
<1>1. \A v \in Updaters \ {u} : upd'[v] = upd[v] /\ upd[v].kind = "none"
                                /\ upd[v].pc = "idle"
  BY OthersIdle
<1>2. \A v \in Updaters \ {u} : upd'[v].pc \in PhasesOf(upd'[v].kind)
  BY <1>1 DEF OneAtATime
<1>3. CASE Moves(u)
  <2>1. \A v \in Updaters : upd'[v].kind = upd[v].kind
    BY <1>1, <1>3 DEF Moves
  <2>2. \A v \in Updaters : upd'[v].pc \in PhasesOf(upd'[v].kind)
    BY <1>2, <1>3 DEF Moves
  <2>3. count'.rollbacks = count.rollbacks  BY DEF Alone
  <2>4. \A r \in Readers : ~ reader[r].running => ~ reader'[r].running
    BY <1>3 DEF Moves
  <2>5. QED  BY <1>3, <2>1, <2>2, <2>3, <2>4 DEF OneAtATime, Moves
<1>4. CASE Ends(u)
  <2>1. upd'[u].kind = "none" /\ upd'[u].pc = "idle"
    BY <1>4 DEF Ends, NoUpdate
  <2>2. \A v \in Updaters : upd'[v].kind = "none"  BY <1>1, <2>1
  <2>3. upd'[u].pc \in PhasesOf(upd'[u].kind)  BY <2>1 DEF PhasesOf
  <2>4. QED  BY <1>2, <2>2, <2>3 DEF OneAtATime
<1>5. QED  BY <1>3, <1>4 DEF Alone

\* An update begins only when there is none.
LEMMA NoneUnderWay ==
  ASSUME TypeOK, OneAtATime, Up, ~ status.inProgress
  PROVE  \A u \in Updaters : upd[u].kind = "none" /\ upd[u].pc = "idle"
<1> TAKE u \in Updaters
<1>1. upd[u].kind \notin {"apply", "rollback"}  BY DEF OneAtATime
<1>2. upd[u].kind # "startup"  BY DEF OneAtATime, Up
<1>3. QED  BY <1>1, <1>2, UpdateTypes, Phases DEF Kinds

\* The checks serve nobody during the startup; an update they start is alone.
LEMMA BeginKeeps ==
  ASSUME TypeOK, OneAtATime, NEW u \in Updaters, Up, ~ status.inProgress,
         NEW kind \in {"apply", "rollback"}, NEW pc \in {"metadata", "aside"},
         pc = IF kind = "apply" THEN "metadata" ELSE "aside",
         upd' = [upd EXCEPT ![u] = Begun(kind, pc)],
         status'.inProgress = TRUE,
         kind = "rollback" => count'.rollbacks > 0
  PROVE  OneAtATime'
<1>1. \A v \in Updaters : upd[v].kind = "none" /\ upd[v].pc = "idle"
  BY NoneUnderWay
<1>2. upd \in [Updaters -> Updates]  BY DEF TypeOK
<1>3. upd'[u].kind = kind /\ upd'[u].pc = pc  BY <1>2 DEF Begun, NoUpdate
<1>4. \A v \in Updaters \ {u} : upd'[v] = upd[v]  BY <1>2
<1>5. pc \in PhasesOf(kind)  BY DEF PhasesOf
<1>6. \A v \in Updaters : upd'[v].pc \in PhasesOf(upd'[v].kind)
  BY <1>3, <1>4, <1>5 DEF OneAtATime
<1>7. QED  BY <1>1, <1>3, <1>4, <1>6 DEF OneAtATime

\* Nobody holds on to anything when the server starts.
LEMMA StartupKeeps ==
  ASSUME upd = Startup, reader = [r \in Readers |-> NoRun]
  PROVE  OneAtATime /\ \A u \in Updaters : InHand(u) /\ Loaded(u)
<1>1. \A u \in Updaters :
        /\ upd[u].kind = IF u = Periodic THEN "startup" ELSE "none"
        /\ upd[u].pc = IF u = Periodic THEN "metadata" ELSE "idle"
  BY DEF Startup, NoUpdate
<1>2. \A u \in Updaters : upd[u].pc \in PhasesOf(upd[u].kind)
  BY <1>1 DEF PhasesOf
<1>3. \A r \in Readers : ~ reader[r].running  BY DEF NoRun
<1>4. OneAtATime  BY <1>1, <1>2, <1>3 DEF OneAtATime
<1>5. \A u \in Updaters : InHand(u) /\ Loaded(u)
  BY <1>1 DEF InHand, Loaded
<1>6. QED  BY <1>4, <1>5

LEMMA CrashKeeps ==
  ASSUME Crash
  PROVE  OneAtATime' /\ \A u \in Updaters : InHand(u)' /\ Loaded(u)'
<1>1. upd' = Startup /\ reader' = [r \in Readers |-> NoRun]  BY DEF Crash
<1>2. \A u \in Updaters :
        /\ upd'[u].kind = IF u = Periodic THEN "startup" ELSE "none"
        /\ upd'[u].pc = IF u = Periodic THEN "metadata" ELSE "idle"
  BY <1>1 DEF Startup, NoUpdate
<1>3. \A u \in Updaters : upd'[u].pc \in PhasesOf(upd'[u].kind)
  BY <1>2 DEF PhasesOf
<1>4. \A r \in Readers : ~ reader'[r].running  BY <1>1 DEF NoRun
<1>5. OneAtATime'  BY <1>2, <1>3, <1>4 DEF OneAtATime
<1>6. QED  BY <1>2, <1>5 DEF InHand, Loaded

LEMMA FinishProbeOne ==
  ASSUME TypeOK, OneAtATime, NEW p \in Probers, FinishProbe(p)
  PROVE  \/ UNCHANGED <<upd, count, reader>> /\ status'.inProgress = status.inProgress
         \/ /\ p \in Updaters /\ Up /\ ~ status.inProgress
            /\ upd' = [upd EXCEPT ![p] = Begun("apply", "metadata")]
            /\ status'.inProgress = TRUE
            /\ UNCHANGED <<count, reader>>
<1>1. status.inProgress \in BOOLEAN  BY StatusTypes
<1>2. CASE p = Periodic /\ probe[p].answer = "stale" /\ MayUpdate(p)
  <2>1. p \in Updaters  BY <1>2, ActorsAssumption
  <2>2. upd[Periodic].kind = "none" /\ ~ status.inProgress
    BY <1>2 DEF MayUpdate, NoUpdate
  <2>3. upd' = [upd EXCEPT ![p] = Begun("apply", "metadata")]
    BY <1>2 DEF FinishProbe
  <2>4. status'.inProgress = TRUE  BY <1>1, <1>2 DEF FinishProbe
  <2>5. QED  BY <2>1, <2>2, <2>3, <2>4 DEF FinishProbe, Up
<1>3. CASE ~ (p = Periodic /\ probe[p].answer = "stale" /\ MayUpdate(p))
  <2>1. upd' = upd  BY <1>3 DEF FinishProbe
  <2>2. status'.inProgress = status.inProgress  BY <1>1, <1>3 DEF FinishProbe
  <2>3. QED  BY <2>1, <2>2 DEF FinishProbe
<1>4. QED  BY <1>2, <1>3

\* The steps that leave the updates alone and start no reader in the startup.
LEMMA QuietKeeps ==
  ASSUME OneAtATime, UNCHANGED <<upd, status>>, count'.rollbacks = count.rollbacks,
         \/ Up
         \/ \A r \in Readers : ~ reader[r].running => ~ reader'[r].running
  PROVE  OneAtATime'
<1>1. \A u \in Updaters : upd[u].kind = "startup" =>
         u = Periodic /\ \A r \in Readers : ~ reader'[r].running
  BY DEF OneAtATime, Up
<1>2. QED  BY <1>1 DEF OneAtATime

LEMMA ReadRunning ==
  ASSUME TypeOK, NEW r \in Readers, Read(r)
  PROVE  \A q \in Readers : ~ reader[q].running => ~ reader'[q].running
BY DEF TypeOK, ReaderStates, Read, ReadGraph, ReadLabels, ReadField, LoadFirst,
       BuildLabels, KeepLabels, EndRun, NoRun

LEMMA ReadLeaves ==
  ASSUME NEW r \in Readers, Read(r)
  PROVE  UNCHANGED <<upd, status, count, remote, probe, indexCache, overlapped>>
BY DEF Read, ReadGraph, ReadLabels, ReadField, LoadFirst, BuildLabels, KeepLabels,
       EndRun

LEMMA ProbeLeaves ==
  ASSUME TypeOK, NEW p \in Probers, StartProbe(p) \/ ProbeStep(p)
  PROVE  /\ FinishProbe(p) \/ UNCHANGED <<upd, status>>
         /\ UNCHANGED <<remote, indexCache, mem, reader, overlapped>>
         /\ count'.rollbacks = count.rollbacks
         /\ disk'.cache = disk.cache /\ disk'.previous = disk.previous
         /\ disk'.failed = disk.failed
<1>1. disk \in Disks /\ probe[p].etag \in MaybeVersions  BY DEF TypeOK, Probes
<1>2. count'.rollbacks = count.rollbacks
  BY CounterTypes
  DEF StartProbe, ProbeStep, ProbeHead, ProbeReadDate, ProbeSaveDate, FinishProbe
<1>3. \/ UNCHANGED disk
      \/ disk' = WithEtag(disk, probe[p].etag)
  BY DEF StartProbe, ProbeStep, ProbeHead, ProbeReadDate, ProbeSaveDate, FinishProbe
<1>4. disk'.cache = disk.cache /\ disk'.previous = disk.previous
      /\ disk'.failed = disk.failed
  BY <1>1, <1>3, DiskFields
<1>5. QED
  BY <1>2, <1>4
  DEF StartProbe, ProbeStep, ProbeHead, ProbeReadDate, ProbeSaveDate, FinishProbe

LEMMA NextOneAtATime ==
  ASSUME TypeOK, OneAtATime, [Next]_vars
  PROVE  OneAtATime'
<1>1. ASSUME NEW u \in Updaters, UpdateStep(u)
      PROVE  OneAtATime'
  BY <1>1, UpdateStepAlone, AloneKeeps
<1>2. ASSUME NEW u \in Updaters, StartApply(u)
      PROVE  OneAtATime'
  <2>1. status'.inProgress = TRUE  BY <1>2 DEF StartApply, TypeOK
  <2>2. QED  BY <1>2, <2>1, BeginKeeps DEF StartApply, MayUpdate
<1>3. ASSUME NEW u \in Updaters, StartRollback(u)
      PROVE  OneAtATime'
  <2>1. status'.inProgress = TRUE  BY <1>3 DEF StartRollback, TypeOK
  <2>2. count.rollbacks \in Nat  BY CounterTypes
  <2>3. count'.rollbacks > 0
    BY <1>3, <2>2 DEF StartRollback, TypeOK, Counters
  <2>4. QED  BY <1>3, <2>1, <2>3, BeginKeeps DEF StartRollback, MayUpdate
<1>4. ASSUME NEW p \in Probers, StartProbe(p) \/ ProbeStep(p)
      PROVE  OneAtATime'
  <2>1. UNCHANGED reader /\ count'.rollbacks = count.rollbacks
    BY <1>4, ProbeLeaves
  <2>2. CASE UNCHANGED <<upd, status>>
    BY <2>1, <2>2, QuietKeeps
  <2>3. CASE FinishProbe(p)
    <3>1. CASE UNCHANGED <<upd, count, reader>>
               /\ status'.inProgress = status.inProgress
      BY <3>1 DEF OneAtATime
    <3>2. QED  BY <2>3, <3>1, FinishProbeOne, BeginKeeps
  <2>4. QED  BY <1>4, <2>2, <2>3, ProbeLeaves
<1>5. ASSUME NEW r \in Readers, Read(r)
      PROVE  OneAtATime'
  BY <1>5, ReadLeaves, ReadRunning, QuietKeeps
<1>6. ASSUME NEW j \in Jobs, StartJob(j)
      PROVE  OneAtATime'
  BY <1>6, QuietKeeps DEF StartJob
<1>7. CASE PublishVersion  BY <1>7, QuietKeeps DEF PublishVersion
<1>8. CASE Crash  BY <1>8, CrashKeeps
<1>9. CASE UNCHANGED vars  BY <1>9 DEF vars, OneAtATime
<1>10. QED
  BY <1>1, <1>2, <1>3, <1>4, <1>5, <1>6, <1>7, <1>8, <1>9 DEF Next

-----------------------------------------------------------------------------
(* What an update has in hand and what it has loaded.                         *)

\* An update between two phases that say nothing.
LEMMA NothingToKeep ==
  ASSUME NEW u \in Updaters,
         \/ upd'[u].pc \in {"idle", "metadata", "head", "get", "stamp", "date",
                            "dateSave", "wait", "aside", "forget", "load"}
         \/ upd'[u].pc \in {"hash", "finish"} /\ upd'[u].kind = "startup"
  PROVE  InHand(u)' /\ Loaded(u)'
BY DEF InHand, Loaded

\* A step that changes neither files nor graph keeps it.
LEMMA UntouchedKeeps ==
  ASSUME NEW u \in Updaters, InHand(u), Loaded(u), upd'[u] = upd[u],
         disk'.cache = disk.cache, disk'.previous = disk.previous,
         mem'.graph = mem.graph
  PROVE  InHand(u)' /\ Loaded(u)'
BY DEF InHand, Loaded

\* Idle updates need nothing, so a step keeps what it keeps for its own.
LEMMA OwnSuffices ==
  ASSUME TypeOK, OneAtATime, NEW u \in Updaters, UpdateStep(u),
         InHand(u)' /\ Loaded(u)'
  PROVE  \A v \in Updaters : InHand(v)' /\ Loaded(v)'
<1>1. \A v \in Updaters \ {u} : upd'[v].pc = "idle"
  BY UpdateStepAlone, OthersIdle
<1>2. QED  BY <1>1, NothingToKeep

LEMMA EnsureInHand ==
  ASSUME TypeOK, OneAtATime, NEW u \in Updaters, InHand(u), EnsureFresh(u)
  PROVE  InHand(u)' /\ Loaded(u)'
<1>1. upd \in [Updaters -> Updates] /\ upd[u] \in Updates /\ disk \in Disks
      /\ remote # None
  BY VersionTypes DEF TypeOK
<1>2. {"head", "get", "drop", "backup", "install", "stamp", "date", "dateSave",
       AfterEnsure(u)} \subseteq UpdatePcs
  BY DEF AfterEnsure, UpdatePcs
<1>3. /\ AfterEnsure(u) \in {"wait", "hash"}
      /\ AfterEnsure(u) = "hash" => upd[u].kind = "startup"
  BY DEF AfterEnsure
<1>4. CASE Raise(u)
  <2>1. upd'[u] = NoUpdate  BY <1>4, OneAssigned DEF Raise
  <2>2. QED  BY <2>1, NothingToKeep DEF NoUpdate
<1>5. CASE \E from, after : FileStep(u, from, AfterEnsure(u), after)
  <2>1. upd'[u].kind = upd[u].kind /\ upd'[u].pc = AfterEnsure(u)
    BY <1>2, <1>3, <1>5, OneAssigned DEF FileStep
  <2>2. QED  BY <1>3, <2>1, NothingToKeep
<1>6. CASE ReadMetadata(u)
  <2>1. upd'[u].pc = "head"  BY <1>1, <1>6 DEF ReadMetadata, Updates
  <2>2. QED  BY <2>1, NothingToKeep
<1>7. CASE Head(u)
  <2>1. CASE upd' = [upd EXCEPT ![u].pc = "get", ![u].etag = remote]
    <3>1. upd'[u].pc = "get"  BY <1>1, <2>1 DEF Updates
    <3>2. QED  BY <3>1, NothingToKeep
  <2>2. QED  BY <1>4, <1>5, <1>7, <2>1 DEF Head
<1>8. CASE Get(u)
  <2>1. CASE upd' = [upd EXCEPT ![u].pc = "drop", ![u].version = remote]
    <3>1. upd'[u].pc = "drop" /\ upd'[u].version = remote
      BY <1>1, <2>1 DEF Updates
    <3>2. QED  BY <1>1, <3>1 DEF InHand, Loaded
  <2>2. QED  BY <1>4, <1>8, <2>1 DEF Get
<1>9. CASE DropBackup(u) \/ BackUp(u)
  <2>1. upd[u].pc \in {"drop", "backup"} /\ upd[u].version # None
    BY <1>9 DEF DropBackup, BackUp, FileStep, At, InHand
  <2>2. upd'[u] = [upd[u] EXCEPT !.pc = "backup"]
        \/ upd'[u] = [upd[u] EXCEPT !.pc = "install"]
    BY <1>2, <1>9, OneAssigned DEF DropBackup, BackUp, FileStep
  <2>3. upd'[u].version # None /\ upd'[u].pc \in {"backup", "install"}
    BY <1>1, <2>1, <2>2 DEF Updates
  <2>4. QED  BY <2>3 DEF InHand, Loaded
<1>10. CASE Install(u)
  <2>1. CASE FileStep(u, "install", "stamp", Installed(disk, upd[u].version))
    <3>1. upd'[u].pc = "stamp"  BY <1>2, <2>1, OneAssigned DEF FileStep
    <3>2. QED  BY <3>1, NothingToKeep
  <2>2. QED  BY <1>4, <1>10, <2>1 DEF Install
<1>11. CASE Stamp(u)
  <2>1. upd'[u].pc = "date"  BY <1>2, <1>11, OneAssigned DEF Stamp, FileStep
  <2>2. QED  BY <2>1, NothingToKeep
<1>12. CASE ReadDate(u)
  <2>1. CASE GotoPhase(u, AfterEnsure(u))
    <3>1. upd'[u].kind = upd[u].kind /\ upd'[u].pc = AfterEnsure(u)
      BY <1>2, <2>1, OneAssigned
    <3>2. QED  BY <1>3, <3>1, NothingToKeep
  <2>2. CASE upd' = [upd EXCEPT ![u].pc = "dateSave", ![u].etag = disk.etag]
    <3>1. upd'[u].pc = "dateSave"  BY <1>1, <2>2 DEF Updates
    <3>2. QED  BY <3>1, NothingToKeep
  <2>3. QED  BY <1>12, <2>1, <2>2 DEF ReadDate
<1>13. CASE SaveDate(u)  BY <1>5, <1>13 DEF SaveDate
<1>14. QED
  BY <1>6, <1>7, <1>8, <1>9, <1>10, <1>11, <1>12, <1>13 DEF EnsureFresh

LEMMA RollBackInHand ==
  ASSUME TypeOK, OneAtATime, NEW u \in Updaters, InHand(u), RollBack(u)
  PROVE  InHand(u)' /\ Loaded(u)'
<1>1. disk \in Disks /\ {"restore", "discard", "forget", "load"} \subseteq UpdatePcs
  BY DEF TypeOK, UpdatePcs
<1>2. CASE Aside(u)
  <2>1. CASE FileStep(u, "aside", "restore", SetAside(disk)) /\ disk.previous # None
    <3>1. upd'[u].pc = "restore"  BY <1>1, <2>1, OneAssigned DEF FileStep
    <3>2. disk'.previous # None  BY <1>1, <2>1, RolledBackFields DEF FileStep
    <3>3. QED  BY <3>1, <3>2 DEF InHand, Loaded
  <2>2. CASE Leave(u)
    <3>1. upd'[u] = NoUpdate  BY <2>2, OneAssigned
    <3>2. QED  BY <3>1, NothingToKeep DEF NoUpdate
  <2>3. QED  BY <1>2, <2>1, <2>2 DEF Aside
<1>3. CASE Restore(u)
  <2>1. upd'[u].pc = "discard"  BY <1>1, <1>3, OneAssigned DEF Restore, FileStep
  <2>2. disk.previous # None  BY <1>3 DEF Restore, FileStep, At, InHand
  <2>3. disk'.cache # None
    BY <1>1, <1>3, <2>2, RolledBackFields DEF Restore, FileStep
  <2>4. QED  BY <2>1, <2>3 DEF InHand, Loaded
<1>4. CASE Discard(u) \/ Forget(u)
  <2>1. upd'[u].pc \in {"forget", "load"}
    BY <1>1, <1>4, OneAssigned DEF Discard, Forget, FileStep
  <2>2. QED  BY <2>1, NothingToKeep
<1>5. QED  BY <1>2, <1>3, <1>4 DEF RollBack

LEMMA ReloadInHand ==
  ASSUME TypeOK, OneAtATime, NEW u \in Updaters, Loaded(u), Reload(u)
  PROVE  InHand(u)' /\ Loaded(u)'
<1>1. /\ upd \in [Updaters -> Updates] /\ upd[u] \in Updates /\ disk \in Disks
      /\ LibraryCache \in Versions /\ LibraryCache \in MaybeVersions
      /\ LibraryCache # None
  BY VersionTypes DEF TypeOK, Versions, None
<1>2. {"publish", "swap", "hash", "index"} \subseteq UpdatePcs  BY DEF UpdatePcs
<1>3. CASE Raise(u)
  <2>1. upd'[u] = NoUpdate  BY <1>3, OneAssigned DEF Raise
  <2>2. QED  BY <2>1, NothingToKeep DEF NoUpdate
<1>4. CASE Load(u)
  <2>1. CASE /\ upd' = [upd EXCEPT ![u].pc = "publish", ![u].version = LibraryCache]
             /\ disk' = Installed(disk, LibraryCache)
    <3>1. upd'[u].pc = "publish" /\ upd'[u].version = LibraryCache
      BY <1>1, <2>1 DEF Updates
    <3>2. disk'.cache = LibraryCache  BY <1>1, <2>1, DiskFields
    <3>3. QED  BY <1>1, <3>1, <3>2 DEF InHand, Loaded
  <2>2. QED  BY <1>3, <1>4, <2>1 DEF Load
<1>5. CASE Publish(u)
  <2>1. upd'[u] = [upd[u] EXCEPT !.pc = "swap"] /\ upd[u].pc = "publish"
        /\ disk' = disk
    BY <1>2, <1>5, OneAssigned DEF Publish, At
  <2>2. upd'[u].pc = "swap" /\ upd'[u].version = upd[u].version
    BY <1>1, <2>1 DEF Updates
  <2>3. QED  BY <2>1, <2>2 DEF InHand, Loaded
<1>6. CASE Swap(u)
  <2>1. upd'[u].pc = "hash" /\ upd[u].pc = "swap" /\ disk' = disk
    BY <1>2, <1>6, OneAssigned DEF Swap, At
  <2>2. mem'.graph = upd[u].version  BY <1>6 DEF Swap, TypeOK
  <2>3. QED  BY <2>1, <2>2 DEF InHand, Loaded
<1>7. CASE Cold(u)
  <2>1. upd[u].pc = "cold" /\ upd[u].kind = "startup" /\ upd[u].hash = disk.cache
    BY <1>7, Phases DEF Cold, At, Loaded
  <2>2. CASE /\ mem' = [mem EXCEPT !.graph = LibraryCache]
             /\ disk' = Installed(disk, LibraryCache)
             /\ Goto(u, "index")
    <3>0. upd'[u] = [upd[u] EXCEPT !.pc = "index"]  BY <1>2, <2>2, OneAssigned
    <3>1. upd'[u].pc = "index" /\ upd'[u].hash = upd[u].hash
          /\ upd'[u].kind = "startup"
      BY <1>1, <2>1, <3>0 DEF Updates
    <3>2. mem'.graph = LibraryCache  BY <2>2 DEF TypeOK
    <3>3. upd[u].hash # None => LibraryCache = upd[u].hash
      BY <2>1 DEF LibraryCache
    <3>4. QED  BY <1>1, <3>1, <3>2, <3>3 DEF InHand, Loaded
  <2>3. QED  BY <1>3, <1>7, <2>2 DEF Cold
<1>8. QED  BY <1>4, <1>5, <1>6, <1>7 DEF Reload

LEMMA IndexingInHand ==
  ASSUME TypeOK, OneAtATime, NEW u \in Updaters, Loaded(u),
         Hash(u) \/ Index(u) \/ Finish(u)
  PROVE  InHand(u)' /\ Loaded(u)'
<1>1. upd \in [Updaters -> Updates] /\ upd[u] \in Updates  BY DEF TypeOK
<1>2. CASE Hash(u)
  <2>1. /\ upd[u].pc = "hash" /\ upd'[u].hash = disk.cache
        /\ upd'[u].kind = upd[u].kind
        /\ upd'[u].pc = IF upd[u].kind = "startup" THEN "cold" ELSE "index"
        /\ disk' = disk /\ mem' = mem
    BY <1>1, <1>2 DEF Hash, At, Updates
  <2>2. QED  BY <2>1 DEF InHand, Loaded
<1>3. CASE Index(u)
  <2>1. upd[u].pc = "index" /\ upd'[u].pc = "finish" /\ upd'[u].kind = upd[u].kind
        /\ disk' = disk
    BY <1>3, OneAssigned DEF Index, At, UpdatePcs
  <2>2. mem'.graph = mem.graph  BY <1>3 DEF Index, TypeOK
  <2>3. QED  BY <2>1, <2>2 DEF InHand, Loaded
<1>4. CASE Finish(u)
  <2>1. upd'[u] = NoUpdate  BY <1>4, OneAssigned DEF Finish
  <2>2. QED  BY <2>1, NothingToKeep DEF NoUpdate
<1>5. QED  BY <1>2, <1>3, <1>4

LEMMA PollInHand ==
  ASSUME TypeOK, OneAtATime, NEW u \in Updaters, Poll(u)
  PROVE  InHand(u)' /\ Loaded(u)'
<1>1. upd \in [Updaters -> Updates] /\ upd[u] \in Updates /\ upd[u].pc = "wait"
  BY DEF TypeOK, Poll, At
<1>2. upd'[u].pc \in {"wait", "load", "idle"}
  <2>1. CASE GotoPhase(u, "load")  BY <2>1, OneAssigned DEF UpdatePcs
  <2>2. CASE upd' = [upd EXCEPT ![u].waited = @ + 1]  BY <1>1, <2>2 DEF Updates
  <2>3. CASE upd' = [upd EXCEPT ![u] = NoUpdate]  BY <1>1, <2>3 DEF NoUpdate
  <2>4. QED  BY <2>1, <2>2, <2>3 DEF Poll
<1>3. QED  BY <1>2, NothingToKeep

LEMMA ReadInHand ==
  ASSUME TypeOK, OneAtATime, NEW r \in Readers, Read(r),
         NEW u \in Updaters, InHand(u), Loaded(u)
  PROVE  InHand(u)' /\ Loaded(u)'
<1>1. upd' = upd  BY ReadLeaves
<1>2. CASE LoadFirst(r)
  <2>1. LibraryCache \in MaybeVersions /\ LibraryCache # None /\ disk \in Disks
    BY VersionTypes DEF TypeOK, Versions, None
  <2>2. disk'.cache # None /\ disk'.previous = disk.previous
    BY <1>2, <2>1, DiskFields DEF LoadFirst
  <2>3. mem.graph = None /\ reader[r].running  BY <1>2 DEF LoadFirst
  <2>4. upd[u].kind # "startup"  BY <2>3 DEF OneAtATime
  <2>5. upd[u].pc \notin {"publish", "swap"}  BY <1>2 DEF LoadFirst, LoadLockFree
  <2>6. upd[u].pc \notin {"cold", "hash", "index", "finish"}
    BY <2>3, <2>4, Phases DEF Loaded
  <2>7. QED  BY <1>1, <2>2, <2>5, <2>6 DEF InHand, Loaded
<1>3. CASE ~ LoadFirst(r)
  <2>1. disk' = disk /\ mem'.graph = mem.graph
    BY <1>3 DEF Read, ReadGraph, ReadLabels, ReadField, BuildLabels, KeepLabels,
                EndRun, TypeOK
  <2>2. QED  BY <1>1, <2>1, UntouchedKeeps
<1>4. QED  BY <1>2, <1>3

\* The index files: only Index writes one.
LEMMA IndexSound ==
  ASSUME TypeOK, NEW u \in Updaters, Loaded(u), IndexCacheSound, Index(u)
  PROVE  IndexCacheSound'
<1>1. upd[u].pc = "index"  BY DEF Index, At
<1>2. CASE indexCache' = [h \in Versions |-> IF h = upd[u].hash THEN Embedded(h)
                                             ELSE indexCache[h]]
  <2>1. ASSUME NEW h \in Versions
        PROVE  indexCache'[h] \in {None, h}
    <3>1. h # None  BY DEF Versions, None
    <3>2. indexCache[h] \in {None, h}  BY DEF IndexCacheSound
    <3>3. h = upd[u].hash => Embedded(h) \in {None, h}
      BY <1>1, <3>1, <3>2 DEF Embedded, Loaded
    <3>4. QED  BY <1>2, <3>2, <3>3
  <2>2. QED  BY <2>1 DEF IndexCacheSound
<1>3. CASE indexCache' = indexCache  BY <1>3 DEF IndexCacheSound
<1>4. QED  BY <1>2, <1>3 DEF Index

LEMMA UpdateStepInHand ==
  ASSUME TypeOK, ControlInv, NEW u \in Updaters, UpdateStep(u)
  PROVE  (\A v \in Updaters : InHand(v)' /\ Loaded(v)') /\ IndexCacheSound'
<1>1. OneAtATime /\ InHand(u) /\ Loaded(u) /\ IndexCacheSound  BY DEF ControlInv
<1>2. InHand(u)' /\ Loaded(u)'
  BY <1>1, EnsureInHand, RollBackInHand, PollInHand, ReloadInHand, IndexingInHand
  DEF UpdateStep
<1>3. \A v \in Updaters : InHand(v)' /\ Loaded(v)'  BY <1>1, <1>2, OwnSuffices
<1>4. CASE Index(u)  BY <1>1, <1>3, <1>4, IndexSound
<1>5. CASE ~ Index(u)
  <2>1. indexCache' = indexCache
    BY <1>5 DEF UpdateStep, EnsureFresh, ReadMetadata, Head, Get, DropBackup, BackUp,
                Install, Stamp, ReadDate, SaveDate, RollBack, Aside, Restore, Discard,
                Forget, Poll, Reload, Load, Publish, Swap, Cold, Hash, Finish,
                FileStep, Raise
  <2>2. QED  BY <1>1, <1>3, <2>1 DEF IndexCacheSound
<1>6. QED  BY <1>4, <1>5

\* A step that begins an update or none at all.
LEMMA BegunInHand ==
  ASSUME TypeOK, ControlInv, NEW u \in Updaters, NEW kind, NEW pc \in {"metadata", "aside"},
         upd' = [upd EXCEPT ![u] = Begun(kind, pc)],
         disk'.cache = disk.cache, disk'.previous = disk.previous, mem' = mem,
         indexCache' = indexCache
  PROVE  (\A v \in Updaters : InHand(v)' /\ Loaded(v)') /\ IndexCacheSound'
<1>1. upd \in [Updaters -> Updates]  BY DEF TypeOK
<1>2. upd'[u].pc = pc  BY <1>1 DEF Begun, NoUpdate
<1>3. InHand(u)' /\ Loaded(u)'  BY <1>2, NothingToKeep
<1>4. \A v \in Updaters \ {u} : InHand(v)' /\ Loaded(v)'
  BY <1>1, UntouchedKeeps DEF ControlInv
<1>5. IndexCacheSound'  BY DEF ControlInv, IndexCacheSound
<1>6. QED  BY <1>3, <1>4, <1>5

LEMMA CalmInHand ==
  ASSUME ControlInv, upd' = upd, disk'.cache = disk.cache,
         disk'.previous = disk.previous, mem'.graph = mem.graph,
         indexCache' = indexCache
  PROVE  (\A v \in Updaters : InHand(v)' /\ Loaded(v)') /\ IndexCacheSound'
BY UntouchedKeeps DEF ControlInv, IndexCacheSound

LEMMA NextControl == TypeOK /\ ControlInv /\ [Next]_vars => ControlInv'
<1> SUFFICES ASSUME TypeOK, ControlInv, [Next]_vars
             PROVE  (\A v \in Updaters : InHand(v)' /\ Loaded(v)') /\ IndexCacheSound'
  BY NextOneAtATime DEF ControlInv
<1>1. ASSUME NEW u \in Updaters, UpdateStep(u)
      PROVE  (\A v \in Updaters : InHand(v)' /\ Loaded(v)') /\ IndexCacheSound'
  BY <1>1, UpdateStepInHand
<1>2. ASSUME NEW u \in Updaters, StartApply(u) \/ StartRollback(u)
      PROVE  (\A v \in Updaters : InHand(v)' /\ Loaded(v)') /\ IndexCacheSound'
  BY <1>2, BegunInHand DEF StartApply, StartRollback
<1>3. ASSUME NEW p \in Probers, StartProbe(p) \/ ProbeStep(p)
      PROVE  (\A v \in Updaters : InHand(v)' /\ Loaded(v)') /\ IndexCacheSound'
  <2>1. /\ FinishProbe(p) \/ UNCHANGED upd
        /\ UNCHANGED <<mem, indexCache>>
        /\ disk'.cache = disk.cache /\ disk'.previous = disk.previous
    BY <1>3, ProbeLeaves
  <2>2. CASE UNCHANGED upd  BY <2>1, <2>2, CalmInHand
  <2>3. CASE FinishProbe(p)
    <3>1. \/ upd' = upd
          \/ p \in Updaters /\ upd' = [upd EXCEPT ![p] = Begun("apply", "metadata")]
      BY <2>3, FinishProbeOne DEF ControlInv
    <3>2. QED  BY <2>1, <2>2, <3>1, BegunInHand
  <2>4. QED  BY <2>1, <2>2, <2>3
<1>4. ASSUME NEW r \in Readers, Read(r)
      PROVE  (\A v \in Updaters : InHand(v)' /\ Loaded(v)') /\ IndexCacheSound'
  <2>1. indexCache' = indexCache  BY <1>4, ReadLeaves
  <2>2. \A v \in Updaters : InHand(v)' /\ Loaded(v)'
    BY <1>4, ReadInHand DEF ControlInv
  <2>3. QED  BY <2>1, <2>2 DEF ControlInv, IndexCacheSound
<1>5. CASE PublishVersion \/ \E j \in Jobs : StartJob(j)
  BY <1>5, CalmInHand DEF PublishVersion, StartJob
<1>6. CASE Crash
  <2>1. indexCache' = indexCache  BY <1>6 DEF Crash
  <2>2. QED  BY <1>6, <2>1, CrashKeeps DEF ControlInv, IndexCacheSound
<1>7. CASE UNCHANGED vars  BY <1>7, CalmInHand DEF vars
<1>8. QED  BY <1>1, <1>2, <1>3, <1>4, <1>5, <1>6, <1>7 DEF Next

LEMMA InitControl == Init => ControlInv
<1> SUFFICES ASSUME Init
             PROVE  ControlInv
  OBVIOUS
<1>1. OneAtATime /\ \A u \in Updaters : InHand(u) /\ Loaded(u)
  BY StartupKeeps DEF Init
<1>2. IndexCacheSound  BY DEF Init, IndexCacheSound
<1>3. QED  BY <1>1, <1>2 DEF ControlInv

\* ControlInv holds in every reachable state: one update at a time, with in
\* hand what its next file operation needs and in memory what it has loaded
\* (owl_updater.py:84-157).
THEOREM ControlHolds == Spec => []ControlInv
BY InitControl, NextControl, OntologyTypeCorrect, PTL DEF Spec

\* IndexCacheSound holds in every reachable state: no index file ever holds
\* the vectors of another version than the one its name hashes.
THEOREM IndexFilesSound == Spec => []IndexCacheSound
<1>1. ControlInv => IndexCacheSound  BY DEF ControlInv
<1>2. QED  BY <1>1, ControlHolds, PTL

\* ReloadedIsCached holds in every reachable state: a reload that has rebound
\* its fields leaves in memory what is on disk until the update ends.
THEOREM ReloadsAreCached == Spec => []ReloadedIsCached
<1>1. ControlInv => ReloadedIsCached  BY DEF ControlInv, Loaded, ReloadedIsCached
<1>2. QED  BY <1>1, ControlHolds, PTL

-----------------------------------------------------------------------------
(* A version is kept.                                                         *)

LEMMA RotationKeeps ==
  ASSUME NEW d \in Disks, Stored(d) # {}
  PROVE  /\ Stored(BackupDropped(d)) # {} /\ Stored(BackedUp(d)) # {}
         /\ \A v \in MaybeVersions : Stored(WithEtag(d, v)) # {}
         /\ \A v \in MaybeVersions \ {None} : Stored(Installed(d, v)) # {}
         /\ Stored(SetAside(d)) # {}
         /\ d.previous # None => Stored(BroughtBack(d)) # {}
         /\ d.cache # None => Stored(Discarded(d)) # {}
<1>1. d.cache # None \/ d.previous # None \/ d.failed # None  BY DEF Stored
<1>2. Stored(BackupDropped(d)) # {} /\ Stored(BackedUp(d)) # {}
  BY <1>1, RotatedFields DEF Stored
<1>3. \A v \in MaybeVersions : Stored(WithEtag(d, v)) # {}
  BY <1>1, DiskFields DEF Stored
<1>4. \A v \in MaybeVersions \ {None} : Stored(Installed(d, v)) # {}
  BY DiskFields DEF Stored
<1>5. Stored(SetAside(d)) # {}
  <2>1. CASE d.cache = None  BY <2>1 DEF SetAside
  <2>2. CASE d.cache # None
    <3>1. SetAside(d).failed = d.cache  BY <2>2 DEF SetAside, Disks
    <3>2. QED  BY <2>2, <3>1 DEF Stored
  <2>3. QED  BY <2>1, <2>2
<1>6. d.previous # None => Stored(BroughtBack(d)) # {}
  BY RolledBackFields DEF Stored
<1>7. d.cache # None => Stored(Discarded(d)) # {}
  BY RolledBackFields DEF Stored
<1>8. QED  BY <1>2, <1>3, <1>4, <1>5, <1>6, <1>7

LEMMA StepKeepsVersion ==
  ASSUME TypeOK, ControlInv, Next, Stored(disk) # {}
  PROVE  Stored(disk') # {}
<1>1. disk \in Disks /\ MaybeVersions = Versions \cup {None}
      /\ LibraryCache \in MaybeVersions \ {None}
  BY VersionTypes DEF TypeOK, Versions, None
<1>2. ASSUME NEW u \in Updaters, UpdateStep(u)
      PROVE  Stored(disk') # {}
  <2>1. upd[u].etag \in MaybeVersions /\ upd[u].version \in MaybeVersions
    BY UpdateTypes
  <2>2. InHand(u)  BY DEF ControlInv
  <2>3. CASE disk' = disk  BY <2>3
  <2>4. CASE disk' = WithEtag(disk, upd[u].etag) \/ disk' = WithEtag(disk, None)
    BY <1>1, <2>1, <2>4, RotationKeeps
  <2>5. CASE disk' = Installed(disk, LibraryCache)  BY <1>1, <2>5, RotationKeeps
  <2>6. CASE DropBackup(u) \/ BackUp(u)
    BY <1>1, <2>6, RotationKeeps DEF DropBackup, BackUp, FileStep
  <2>7. CASE At(u, "install") /\ disk' = Installed(disk, upd[u].version)
    BY <1>1, <2>1, <2>2, <2>7, RotationKeeps DEF At, InHand
  <2>8. CASE RollBack(u)
    <3>1. CASE disk' = SetAside(disk)  BY <1>1, <3>1, RotationKeeps
    <3>2. CASE Restore(u)
      BY <1>1, <2>2, <3>2, RotationKeeps DEF Restore, FileStep, At, InHand
    <3>3. CASE Discard(u)
      BY <1>1, <2>2, <3>3, RotationKeeps DEF Discard, FileStep, At, InHand
    <3>4. QED  BY <2>3, <2>4, <2>8, <3>1, <3>2, <3>3 DEF RollBack, Aside, Forget, FileStep
  <2>9. CASE EnsureFresh(u)
    BY <2>3, <2>4, <2>6, <2>7, <2>9
    DEF EnsureFresh, ReadMetadata, Head, Get, Install, Stamp, ReadDate, SaveDate,
        FileStep, Raise
  <2>10. CASE Poll(u) \/ Reload(u) \/ Hash(u) \/ Index(u) \/ Finish(u)
    BY <2>3, <2>5, <2>10
    DEF Poll, Reload, Load, Publish, Swap, Cold, Hash, Index, Finish, Raise
  <2>11. QED  BY <1>2, <2>8, <2>9, <2>10 DEF UpdateStep
<1>3. ASSUME NEW p \in Probers, StartProbe(p) \/ ProbeStep(p)
      PROVE  Stored(disk') # {}
  BY <1>3, ProbeLeaves DEF Stored
<1>4. ASSUME NEW r \in Readers, Read(r)
      PROVE  Stored(disk') # {}
  <2>1. disk' = disk \/ disk' = Installed(disk, LibraryCache)
    BY <1>4 DEF Read, ReadGraph, ReadLabels, ReadField, LoadFirst, BuildLabels,
                KeepLabels, EndRun
  <2>2. QED  BY <1>1, <2>1, RotationKeeps
<1>5. ASSUME disk' = disk
      PROVE  Stored(disk') # {}
  BY <1>5
<1>6. ASSUME NEW u \in Updaters, StartApply(u) \/ StartRollback(u)
      PROVE  disk' = disk
  BY <1>6 DEF StartApply, StartRollback
<1>7. ASSUME PublishVersion \/ Crash \/ \E j \in Jobs : StartJob(j)
      PROVE  disk' = disk
  BY <1>7 DEF PublishVersion, Crash, StartJob
<1>8. QED  BY <1>2, <1>3, <1>4, <1>5, <1>6, <1>7 DEF Next

\* SomeVersionKept holds of every behaviour: no step, and so no crash between
\* two steps, loses the last stored version (owl_cache.py:211-219, 250-256).
THEOREM LastVersionKept == Spec => SomeVersionKept
<1>1. TypeOK /\ ControlInv /\ [Next]_vars => [Stored(disk) # {} => Stored(disk') # {}]_vars
  BY StepKeepsVersion
<1>2. QED  BY <1>1, OntologyTypeCorrect, ControlHolds, PTL DEF Spec, SomeVersionKept

-----------------------------------------------------------------------------
(* The wait for an idle pipeline.                                             *)

\* Where a download goes, and that it leaves the runs alone.
LEMMA EnsureGoes ==
  ASSUME TypeOK, OneAtATime, NEW u \in Updaters, EnsureFresh(u)
  PROVE  /\ upd'[u].pc \in {"idle", "head", "get", "drop", "backup", "install",
                            "stamp", "date", "dateSave", "wait", "hash"}
         /\ UNCHANGED <<mem, overlapped>>
<1>1. upd \in [Updaters -> Updates] /\ upd[u] \in Updates  BY DEF TypeOK
<1>2. AfterEnsure(u) \in {"wait", "hash"}  BY DEF AfterEnsure
<1>3. {"head", "get", "drop", "backup", "install", "stamp", "date", "dateSave",
       AfterEnsure(u)} \subseteq UpdatePcs
  BY <1>2 DEF UpdatePcs
<1>4. CASE Raise(u)
  <2>1. upd'[u] = NoUpdate  BY <1>4, OneAssigned DEF Raise
  <2>2. QED  BY <1>4, <2>1 DEF NoUpdate, Raise
<1>5. CASE \E from, after :
             \E to \in {"backup", "install", "stamp", "date", AfterEnsure(u)} :
                FileStep(u, from, to, after)
  <2>1. PICK from, after :
          \E to \in {"backup", "install", "stamp", "date", AfterEnsure(u)} :
             FileStep(u, from, to, after)
    BY <1>5
  <2>2. PICK to \in {"backup", "install", "stamp", "date", AfterEnsure(u)} :
          FileStep(u, from, to, after)
    BY <2>1
  <2>3. to \in UpdatePcs  BY <1>3
  <2>4. GotoPhase(u, to) \/ Goto(u, to)  BY <2>2 DEF FileStep
  <2>5. upd'[u].pc = to  BY <2>3, <2>4, OneAssigned
  <2>6. QED  BY <1>2, <2>2, <2>5 DEF FileStep
<1>6. CASE /\ \/ upd' = [upd EXCEPT ![u].pc = "head", ![u].etag = Condition(disk)]
              \/ upd' = [upd EXCEPT ![u].pc = "get", ![u].etag = remote]
              \/ upd' = [upd EXCEPT ![u].pc = "drop", ![u].version = remote]
              \/ upd' = [upd EXCEPT ![u].pc = "dateSave", ![u].etag = disk.etag]
           /\ UNCHANGED <<mem, overlapped>>
  BY <1>1, <1>6 DEF Updates
<1>7. CASE GotoPhase(u, AfterEnsure(u)) /\ UNCHANGED <<mem, overlapped>>
  BY <1>2, <1>3, <1>7, OneAssigned
<1>8. QED
  BY <1>4, <1>5, <1>6, <1>7
  DEF EnsureFresh, ReadMetadata, Head, Get, DropBackup, BackUp, Install, Stamp,
      ReadDate, SaveDate

\* An update enters its reload by a poll, a rollback by its last save.
LEMMA EntersReload ==
  ASSUME TypeOK, OneAtATime, NEW u \in Updaters, UpdateStep(u), ~ Poll(u),
         upd'[u].kind = "apply", upd'[u].pc \in InProgressPcs
  PROVE  upd[u].kind = "apply" /\ upd[u].pc \in InProgressPcs /\ reader' = reader
<1>1. upd'[u] # NoUpdate  BY DEF NoUpdate
<1>2. upd[u].kind = "apply"  BY <1>1, UpdateStepAlone DEF Alone, Moves, Ends
<1>3. ~ EnsureFresh(u)  BY EnsureGoes DEF InProgressPcs
<1>4. ~ RollBack(u)
  BY <1>2, Phases DEF RollBack, Aside, Restore, Discard, Forget, FileStep, At
<1>5. ~ Hash(u)
  <2>1. ASSUME Hash(u)
        PROVE  upd'[u].pc \in {"cold", "index"}
    BY <2>1 DEF Hash, TypeOK, Updates
  <2>2. QED  BY <2>1 DEF InProgressPcs
<1>6. ~ Index(u)
  <2>1. Index(u) => upd'[u].pc = "finish"  BY OneAssigned DEF Index, UpdatePcs
  <2>2. QED  BY <2>1 DEF InProgressPcs
<1>7. ~ Finish(u) /\ ~ Raise(u)
  BY <1>1, OneAssigned DEF Finish, Raise
<1>8. Reload(u)  BY <1>3, <1>4, <1>5, <1>6, <1>7 DEF UpdateStep
<1>9. ~ Cold(u)  BY <1>2, Phases DEF Cold, At
<1>10. QED
  BY <1>2, <1>7, <1>8, <1>9 DEF Reload, Load, Publish, Swap, At, InProgressPcs

LEMMA PollQuiet ==
  ASSUME TypeOK, NEW u \in Updaters, Poll(u), upd'[u].pc \in InProgressPcs,
         NEW j \in Jobs, reader'[j].running
  PROVE  ~ reader'[j].counted
<1>1. upd \in [Updaters -> Updates] /\ upd[u] \in Updates /\ upd[u].pc = "wait"
  BY DEF TypeOK, Poll, At
<1>2. PICK stale \in SUBSET Active :
        /\ reader' = [r \in Readers |->
                        IF r \in stale THEN [reader[r] EXCEPT !.counted = FALSE]
                        ELSE reader[r]]
        /\ \/ Active = stale
           \/ upd' = [upd EXCEPT ![u].waited = @ + 1]
           \/ upd' = [upd EXCEPT ![u] = NoUpdate]
  BY DEF Poll
<1>3. Active = stale
  BY <1>1, <1>2 DEF Updates, NoUpdate, InProgressPcs
<1>4. j \in Readers /\ reader[j] \in ReaderStates  BY ReaderTypes DEF Readers
<1>5. CASE j \in stale  BY <1>2, <1>4, <1>5 DEF ReaderStates
<1>6. CASE j \notin stale
  <2>1. reader'[j] = reader[j]  BY <1>2, <1>4, <1>6
  <2>2. QED  BY <1>3, <1>6, <2>1 DEF Active
<1>7. QED  BY <1>5, <1>6

LEMMA NextQuiet == TypeOK /\ ControlInv /\ QuietReload /\ [Next]_vars => QuietReload'
<1> SUFFICES ASSUME TypeOK, ControlInv, QuietReload, [Next]_vars,
                    NEW u \in Updaters, upd'[u].kind = "apply",
                    upd'[u].pc \in InProgressPcs,
                    NEW j \in Jobs, reader'[j].running
             PROVE  reader'[j].late \/ ~ reader'[j].counted
  BY DEF QuietReload
<1> USE DEF ControlInv
<1>1. upd \in [Updaters -> Updates] /\ j \in Readers /\ reader[j] \in ReaderStates
      /\ reader \in [Readers -> ReaderStates]
  BY ReaderTypes DEF TypeOK, Readers
<1>2. ASSUME upd'[u] = upd[u],
             reader'[j].running => reader[j].running,
             reader'[j].late = reader[j].late, reader'[j].counted = reader[j].counted
      PROVE  reader'[j].late \/ ~ reader'[j].counted
  BY <1>2 DEF QuietReload
<1>3. ASSUME NEW v \in Updaters, UpdateStep(v)
      PROVE  reader'[j].late \/ ~ reader'[j].counted
  <2>1. u = v
    <3>1. upd'[u].kind # "none"  OBVIOUS
    <3>2. QED  BY <1>3, <3>1, UpdateStepAlone, OthersIdle
  <2>2. CASE Poll(u)  BY <2>2, PollQuiet
  <2>3. CASE ~ Poll(u)
    <3>1. upd[u].kind = "apply" /\ upd[u].pc \in InProgressPcs /\ reader' = reader
      BY <1>3, <2>1, <2>3, EntersReload
    <3>2. QED  BY <3>1 DEF QuietReload
  <2>4. QED  BY <2>2, <2>3
<1>4. ASSUME NEW v \in Updaters, NEW kind, NEW pc \in {"metadata", "aside"},
             upd' = [upd EXCEPT ![v] = Begun(kind, pc)], reader' = reader
      PROVE  reader'[j].late \/ ~ reader'[j].counted
  <2>1. upd'[v].pc = pc  BY <1>1, <1>4 DEF Begun, NoUpdate
  <2>2. u # v  BY <2>1 DEF InProgressPcs
  <2>3. upd'[u] = upd[u]  BY <1>1, <1>4, <2>2
  <2>4. QED  BY <1>2, <1>4, <2>3
<1>5. ASSUME NEW v \in Updaters, StartApply(v) \/ StartRollback(v)
      PROVE  reader'[j].late \/ ~ reader'[j].counted
  BY <1>4, <1>5 DEF StartApply, StartRollback
<1>6. ASSUME NEW p \in Probers, StartProbe(p) \/ ProbeStep(p)
      PROVE  reader'[j].late \/ ~ reader'[j].counted
  <2>1. reader' = reader /\ (FinishProbe(p) \/ UNCHANGED upd)
    BY <1>6, ProbeLeaves
  <2>2. CASE UNCHANGED upd  BY <1>2, <2>1, <2>2
  <2>3. CASE FinishProbe(p)
    <3>1. \/ upd' = upd
          \/ p \in Updaters /\ upd' = [upd EXCEPT ![p] = Begun("apply", "metadata")]
      BY <2>3, FinishProbeOne
    <3>2. QED  BY <1>2, <1>4, <2>1, <3>1
  <2>4. QED  BY <2>1, <2>2, <2>3
<1>7. ASSUME NEW r \in Readers, Read(r)
      PROVE  reader'[j].late \/ ~ reader'[j].counted
  <2>1. upd' = upd /\ (~ reader[j].running => ~ reader'[j].running)
    BY <1>1, <1>7, ReadLeaves, ReadRunning
  <2>2. reader[j].running  BY <2>1
  <2>3. CASE r # j
    <3>1. reader'[j] = reader[j]
      BY <1>1, <1>7, <2>3 DEF Read, ReadGraph, ReadLabels, ReadField, LoadFirst,
                              BuildLabels, KeepLabels, EndRun
    <3>2. QED  BY <1>2, <2>1, <3>1
  <2>4. CASE EndRun(r) /\ r = j
    BY <1>1, <2>4 DEF EndRun, NoRun
  <2>5. CASE ~ EndRun(r) /\ r = j
    <3>1. reader'[j].late = reader[j].late /\ reader'[j].counted = reader[j].counted
      BY <1>1, <1>7, <2>5 DEF Read, ReadGraph, ReadLabels, ReadField, LoadFirst,
                              BuildLabels, KeepLabels, ReaderStates
    <3>2. QED  BY <1>2, <2>1, <2>2, <3>1
  <2>6. QED  BY <2>3, <2>4, <2>5
<1>8. ASSUME NEW i \in Jobs, StartJob(i)
      PROVE  reader'[j].late \/ ~ reader'[j].counted
  <2>1. upd' = upd  BY <1>8 DEF StartJob
  <2>2. CASE i = j
    <3>1. reader'[j].late = \E v \in Updaters : /\ upd[v].kind = "apply"
                                                /\ upd[v].pc \in InProgressPcs
      BY <1>1, <1>8, <2>2 DEF StartJob, NoRun
    <3>2. QED  BY <2>1, <3>1
  <2>3. CASE i # j
    <3>1. reader'[j] = reader[j]  BY <1>1, <1>8, <2>3 DEF StartJob
    <3>2. QED  BY <1>2, <2>1, <3>1
  <2>4. QED  BY <2>2, <2>3
<1>9. CASE PublishVersion  BY <1>2, <1>9 DEF PublishVersion
<1>10. CASE Crash  BY <1>1, <1>10 DEF Crash, NoRun
<1>11. CASE UNCHANGED vars  BY <1>2, <1>11 DEF vars
<1>12. QED
  BY <1>3, <1>5, <1>6, <1>7, <1>8, <1>9, <1>10, <1>11 DEF Next

\* QuietReload holds in every reachable state: an update reloads only over runs
\* that began after its count or that the count had given up (owl_updater.py:6).
THEOREM ReloadsAreQuiet == Spec => []QuietReload
<1>1. Init => QuietReload
  BY DEF Init, QuietReload, NoRun, Readers
<1>2. QED  BY <1>1, NextQuiet, OntologyTypeCorrect, ControlHolds, PTL DEF Spec

-----------------------------------------------------------------------------
(* The stored ETag.                                                           *)

Installing == {"drop", "backup", "install"}

LEMMA Numbers ==
  ASSUME TypeOK
  PROVE  /\ remote \in Nat /\ disk.cache \in Nat /\ disk.etag \in Nat
         /\ \A u \in Updaters : upd[u].version \in Nat /\ upd[u].etag \in Nat
         /\ \A p \in Probers : probe[p].etag \in Nat
BY VersionTypes, UpdateTypes DEF TypeOK, Probes

LEMMA NoneStorable ==
  ASSUME TypeOK
  PROVE  Storable(None)
BY Numbers DEF Storable, None

\* What a step may do to the files and the downloads for an ETag that could be
\* stored before it to be storable after it.
Harmless ==
    /\ remote' >= remote
    /\ \/ disk'.cache \in {disk.cache, None, remote}
       \/ \E u \in Updaters : upd[u].pc = "install" /\ disk'.cache = upd[u].version
    /\ \A u \in Updaters : upd'[u].pc \in Installing =>
         \/ upd[u].pc \in Installing /\ upd'[u].version = upd[u].version
         \/ upd'[u].version = remote

LEMMA StorableStays ==
  ASSUME TypeOK, TypeOK', Harmless, NEW e \in Nat, Storable(e)
  PROVE  Storable(e)'
<1>1. remote \in Nat /\ remote' \in Nat /\ e <= remote
  BY Numbers, VersionAssumption DEF TypeOK, Versions, Storable
<1>2. e <= remote'  BY <1>1 DEF Harmless
<1>3. disk'.cache # None => e <= disk'.cache
  BY <1>1 DEF Harmless, Storable
<1>4. \A u \in Updaters : upd'[u].pc \in Installing => e <= upd'[u].version
  BY <1>1 DEF Harmless, Storable, Installing
<1>5. QED  BY <1>2, <1>3, <1>4 DEF Storable, Installing

\* The ETag an update holds after a step.
Held(u) ==
    \/ upd'[u].pc = "get" /\ upd'[u].etag = remote
    \/ upd'[u].pc \in Installing /\ upd'[u].etag <= upd'[u].version
                                 /\ upd'[u].version <= remote
    \/ upd'[u].pc \notin Installing \cup {"get"} /\ Storable(upd'[u].etag)
    \/ /\ upd[u].pc = "install" /\ upd'[u].pc = "stamp"
       /\ upd'[u].etag = upd[u].etag /\ disk'.cache = upd[u].version
       /\ \A v \in Updaters \ {u} : upd[v].pc \notin Installing

LEMMA StepHolds ==
  ASSUME TypeOK, TypeOK', EtagsInHand, Harmless, NEW u \in Updaters,
         \A v \in Updaters \ {u} : upd'[v] = upd[v],
         \A p \in Probers : Storable(probe'[p].etag),
         Storable(disk'.etag), Held(u), remote' = remote
  PROVE  EtagsInHand'
<1>1. /\ disk'.etag \in Nat /\ upd'[u].etag \in Nat
      /\ \A p \in Probers : probe'[p].etag \in Nat
      /\ \A v \in Updaters : upd[v].etag \in Nat /\ upd[v].version \in Nat
      /\ remote \in Nat
  <2>1. MaybeVersions \subseteq Nat /\ remote \in Nat  BY VersionTypes
  <2>2. disk'.etag \in MaybeVersions /\ upd'[u].etag \in MaybeVersions
    BY DEF TypeOK, Disks, Updates
  <2>3. \A p \in Probers : probe'[p].etag \in MaybeVersions  BY DEF TypeOK, Probes
  <2>4. QED  BY <2>1, <2>2, <2>3, Numbers
<1>2. disk'.cache <= remote'
  <2>1. disk.cache <= remote /\ disk.cache \in Nat  BY Numbers DEF EtagsInHand
  <2>2. \A v \in Updaters : upd[v].pc = "install" => upd[v].version <= remote
    BY DEF EtagsInHand
  <2>3. QED  BY <1>1, <2>1, <2>2 DEF Harmless, None
<1>3. Storable(disk.etag)' /\ \A p \in Probers : Storable(probe[p].etag)'
  BY <1>1, StorableStays
<1>4. /\ upd'[u].pc = "get" => upd'[u].etag <= remote'
      /\ upd'[u].pc \in Installing =>
           upd'[u].etag <= upd'[u].version /\ upd'[u].version <= remote'
      /\ upd'[u].pc \notin Installing \cup {"get"} => Storable(upd[u].etag)'
  <2>1. CASE Storable(upd'[u].etag) /\ upd'[u].pc \notin Installing \cup {"get"}
    <3>1. Storable(upd[u].etag)'  BY <1>1, <2>1, StorableStays
    <3>2. QED  BY <2>1, <3>1
  <2>2. CASE /\ upd[u].pc = "install" /\ upd'[u].pc = "stamp"
             /\ upd'[u].etag = upd[u].etag /\ disk'.cache = upd[u].version
             /\ \A v \in Updaters \ {u} : upd[v].pc \notin Installing
    <3>1. upd[u].etag <= upd[u].version /\ upd[u].version <= remote
      BY <2>2 DEF EtagsInHand
    <3>2. upd'[u].etag <= remote' /\ upd'[u].etag <= disk'.cache
      BY <1>1, <2>2, <3>1
    <3>3. \A v \in Updaters : upd'[v].pc \notin Installing
      BY <2>2 DEF Installing
    <3>4. Storable(upd[u].etag)'  BY <3>2, <3>3 DEF Storable, Installing
    <3>5. QED  BY <2>2, <3>4 DEF Installing
  <2>3. QED  BY <1>1, <2>1, <2>2 DEF Held, Installing
<1>5. \A v \in Updaters \ {u} :
        /\ upd'[v].pc = "get" => upd'[v].etag <= remote'
        /\ upd'[v].pc \in Installing =>
             upd'[v].etag <= upd'[v].version /\ upd'[v].version <= remote'
        /\ upd'[v].pc \notin Installing \cup {"get"} => Storable(upd[v].etag)'
  <2> TAKE v \in Updaters \ {u}
  <2>1. upd'[v] = upd[v]  OBVIOUS
  <2>2. CASE upd'[v].pc \notin Installing \cup {"get"}
    <3>1. Storable(upd'[v].etag) /\ upd'[v].etag \in Nat
      BY <1>1, <2>1, <2>2 DEF EtagsInHand, Installing
    <3>2. Storable(upd[v].etag)'  BY <3>1, StorableStays
    <3>3. QED  BY <2>2, <3>2
  <2>3. CASE upd'[v].pc \in Installing \cup {"get"}
    BY <2>1, <2>3 DEF EtagsInHand, Installing
  <2>4. QED  BY <2>2, <2>3
<1>6. QED  BY <1>2, <1>3, <1>4, <1>5 DEF EtagsInHand, Installing

LEMMA OwnHarmless ==
  ASSUME TypeOK, OneAtATime, NEW u \in Updaters, Alone(u),
         \/ disk'.cache \in {disk.cache, None, remote}
         \/ upd[u].pc = "install" /\ disk'.cache = upd[u].version,
         upd'[u].pc \in Installing =>
           \/ upd[u].pc \in Installing /\ upd'[u].version = upd[u].version
           \/ upd'[u].version = remote
  PROVE  Harmless
<1>1. remote' = remote /\ remote \in Nat  BY Numbers DEF Alone
<1>2. \A v \in Updaters \ {u} : upd'[v].pc \notin Installing
  BY OthersIdle DEF Installing
<1>3. \A v \in Updaters : upd'[v].pc \in Installing =>
         \/ upd[v].pc \in Installing /\ upd'[v].version = upd[v].version
         \/ upd'[v].version = remote
  BY <1>2
<1>4. \/ disk'.cache \in {disk.cache, None, remote}
      \/ \E v \in Updaters : upd[v].pc = "install" /\ disk'.cache = upd[v].version
  OBVIOUS
<1>5. QED  BY <1>1, <1>3, <1>4 DEF Harmless

\* A step of an update that installs nothing and holds an ETag that could be
\* stored before.
LEMMA CalmStep ==
  ASSUME TypeOK, OneAtATime, NEW u \in Updaters, Alone(u), Storable(disk'.etag),
         disk'.cache \in {disk.cache, None, remote},
         upd'[u].pc \notin Installing \cup {"get"},
         upd'[u].etag = None \/ Storable(upd'[u].etag)
  PROVE  Harmless /\ Storable(disk'.etag) /\ Held(u)
<1>1. Harmless  BY OwnHarmless
<1>2. Storable(upd'[u].etag)  BY NoneStorable
<1>3. QED  BY <1>1, <1>2 DEF Held

LEMMA RaiseHolds ==
  ASSUME TypeOK, OneAtATime, EtagsInHand, NEW u \in Updaters, Alone(u),
         disk' = disk, upd'[u] = NoUpdate
  PROVE  Harmless /\ Storable(disk'.etag) /\ Held(u)
<1>1. upd'[u].pc = "idle" /\ upd'[u].etag = None  BY DEF NoUpdate
<1>2. Storable(disk'.etag)  BY DEF EtagsInHand
<1>3. QED  BY <1>1, <1>2, CalmStep DEF Installing

\* A file operation at the end of a phase saves the ETag in hand.
LEMMA SaveHolds ==
  ASSUME TypeOK, OneAtATime, EtagsInHand, NEW u \in Updaters, Alone(u),
         NEW from \in {"head", "stamp", "dateSave"}, NEW to \in {"date", "wait", "hash"},
         FileStep(u, from, to, WithEtag(disk, upd[u].etag))
  PROVE  Harmless /\ Storable(disk'.etag) /\ Held(u)
<1>1. disk'.cache = disk.cache /\ disk'.etag = upd[u].etag
  <2>1. disk \in Disks /\ upd[u].etag \in MaybeVersions
    BY UpdateTypes DEF TypeOK
  <2>2. disk' = WithEtag(disk, upd[u].etag)  BY DEF FileStep
  <2>3. QED  BY <2>1, <2>2, DiskFields
<1>2. Storable(disk'.etag)
  <2>1. upd[u].pc \notin {"get", "drop", "backup", "install"}
    BY DEF FileStep, At
  <2>2. Storable(upd[u].etag)  BY <2>1 DEF EtagsInHand
  <2>3. QED  BY <1>1, <2>2
<1>3. upd'[u].pc = to /\ upd'[u].etag = None
  <2>1. to \in UpdatePcs /\ GotoPhase(u, to)  BY DEF UpdatePcs, FileStep
  <2>2. upd'[u] = Begun(upd[u].kind, to)  BY <2>1, OneAssigned
  <2>3. QED  BY <2>2 DEF Begun, NoUpdate
<1>4. QED  BY <1>1, <1>2, <1>3, CalmStep DEF Installing

LEMMA EnsureHolds ==
  ASSUME TypeOK, OneAtATime, EtagsInHand, NEW u \in Updaters, Alone(u),
         EnsureFresh(u)
  PROVE  Harmless /\ Storable(disk'.etag) /\ Held(u)
<1>1. /\ upd \in [Updaters -> Updates] /\ upd[u] \in Updates /\ disk \in Disks
      /\ AfterEnsure(u) \in {"wait", "hash"} /\ AfterEnsure(u) \in UpdatePcs
      /\ upd[u].etag \in Nat /\ upd[u].version \in Nat
  BY Numbers DEF TypeOK, AfterEnsure, UpdatePcs
<1>2. /\ remote' = remote /\ remote \in Nat
      /\ \A v \in Updaters \ {u} : upd[v].pc = "idle" /\ upd'[v].pc = "idle"
  BY Numbers, OthersIdle DEF Alone
<1>3. Storable(disk.etag)  BY DEF EtagsInHand
<1>4. CASE Raise(u)
  <2>1. upd'[u] = NoUpdate /\ disk' = disk  BY <1>4, OneAssigned DEF Raise
  <2>2. QED  BY <2>1, RaiseHolds
<1>5. CASE ReadMetadata(u)
  <2>1. /\ upd'[u].pc = "head" /\ upd'[u].etag \in {None, disk.etag} /\ disk' = disk
    BY <1>1, <1>5 DEF ReadMetadata, Condition, Updates
  <2>2. QED  BY <1>3, <2>1, CalmStep DEF Installing
<1>6. CASE Head(u)
  <2>1. CASE FileStep(u, "head", AfterEnsure(u), WithEtag(disk, upd[u].etag))
    BY <1>1, <2>1, SaveHolds
  <2>2. CASE upd' = [upd EXCEPT ![u].pc = "get", ![u].etag = remote] /\ disk' = disk
    <3>1. upd'[u].pc = "get" /\ upd'[u].etag = remote  BY <1>1, <2>2 DEF Updates
    <3>2. Harmless  BY <2>2, <3>1, OwnHarmless DEF Installing
    <3>3. Held(u)  BY <3>1 DEF Held
    <3>4. QED  BY <1>3, <2>2, <3>2, <3>3
  <2>3. QED  BY <1>4, <1>6, <2>1, <2>2 DEF Head
<1>7. CASE Get(u)
  <2>1. CASE upd' = [upd EXCEPT ![u].pc = "drop", ![u].version = remote] /\ disk' = disk
    <3>1. upd'[u].pc = "drop" /\ upd'[u].version = remote /\ upd'[u].etag = upd[u].etag
      BY <1>1, <2>1 DEF Updates
    <3>2. upd[u].etag <= remote  BY <1>7 DEF Get, At, EtagsInHand
    <3>3. Harmless  BY <2>1, <3>1, OwnHarmless
    <3>4. Held(u)  BY <1>2, <3>1, <3>2 DEF Held, Installing
    <3>5. QED  BY <1>3, <2>1, <3>3, <3>4
  <2>2. QED  BY <1>4, <1>7, <2>1 DEF Get
<1>8. CASE DropBackup(u) \/ BackUp(u)
  <2>1. upd[u].pc \in {"drop", "backup"}
    BY <1>8 DEF DropBackup, BackUp, FileStep, At
  <2>2. upd'[u] = [upd[u] EXCEPT !.pc = "backup"]
        \/ upd'[u] = [upd[u] EXCEPT !.pc = "install"]
    BY <1>8, OneAssigned DEF DropBackup, BackUp, FileStep, UpdatePcs
  <2>3. upd'[u].version = upd[u].version /\ upd'[u].etag = upd[u].etag
        /\ upd'[u].pc \in Installing /\ upd[u].pc \in Installing
    BY <1>1, <2>1, <2>2 DEF Updates, Installing
  <2>4. disk'.etag = disk.etag /\ disk'.cache \in {disk.cache, None}
    BY <1>1, <1>8, RotatedFields DEF DropBackup, BackUp, FileStep
  <2>5. upd[u].etag <= upd[u].version /\ upd[u].version <= remote
    BY <2>1 DEF EtagsInHand
  <2>6. Harmless  BY <2>3, <2>4, OwnHarmless
  <2>7. Held(u)  BY <2>3, <2>5 DEF Held
  <2>8. QED  BY <1>3, <2>4, <2>6, <2>7
<1>9. CASE Install(u)
  <2>1. CASE FileStep(u, "install", "stamp", Installed(disk, upd[u].version))
    <3>1. upd[u].pc = "install" /\ upd'[u] = [upd[u] EXCEPT !.pc = "stamp"]
      BY <2>1, OneAssigned DEF FileStep, At, UpdatePcs
    <3>2. upd'[u].pc = "stamp" /\ upd'[u].etag = upd[u].etag
      BY <1>1, <3>1 DEF Updates
    <3>3. disk'.etag = disk.etag /\ disk'.cache = upd[u].version
      BY <1>1, <2>1, DiskFields DEF FileStep, Updates
    <3>4. Harmless  BY <3>1, <3>2, <3>3, OwnHarmless DEF Installing
    <3>5. Held(u)  BY <1>2, <3>1, <3>2, <3>3 DEF Held, Installing
    <3>6. QED  BY <1>3, <3>3, <3>4, <3>5
  <2>2. QED  BY <1>4, <1>9, <2>1 DEF Install
<1>10. CASE Stamp(u)  BY <1>10, SaveHolds DEF Stamp
<1>11. CASE ReadDate(u)
  <2>1. CASE GotoPhase(u, AfterEnsure(u))
    <3>1. upd'[u] = Begun(upd[u].kind, AfterEnsure(u))  BY <1>1, <2>1, OneAssigned
    <3>2. upd'[u].pc = AfterEnsure(u) /\ upd'[u].etag = None
      BY <3>1 DEF Begun, NoUpdate
    <3>3. disk' = disk  BY <1>11 DEF ReadDate
    <3>4. QED  BY <1>1, <1>3, <3>2, <3>3, CalmStep DEF Installing
  <2>2. CASE upd' = [upd EXCEPT ![u].pc = "dateSave", ![u].etag = disk.etag]
    <3>1. upd'[u].pc = "dateSave" /\ upd'[u].etag = disk.etag
      BY <1>1, <2>2 DEF Updates
    <3>2. disk' = disk  BY <1>11 DEF ReadDate
    <3>3. QED  BY <1>3, <3>1, <3>2, CalmStep DEF Installing
  <2>3. QED  BY <1>11, <2>1, <2>2 DEF ReadDate
<1>12. CASE SaveDate(u)  BY <1>1, <1>12, SaveHolds DEF SaveDate
<1>13. QED
  BY <1>5, <1>6, <1>7, <1>8, <1>9, <1>10, <1>11, <1>12 DEF EnsureFresh

LEMMA ReloadHolds ==
  ASSUME TypeOK, OneAtATime, EtagsInHand, NEW u \in Updaters, Alone(u),
         Reload(u) \/ Hash(u) \/ Index(u) \/ Finish(u) \/ Poll(u)
  PROVE  Harmless /\ Storable(disk'.etag) /\ Held(u)
<1>1. /\ upd \in [Updaters -> Updates] /\ upd[u] \in Updates /\ disk \in Disks
      /\ LibraryCache \in MaybeVersions
      /\ LibraryCache \in {disk.cache, remote}
  BY VersionTypes DEF TypeOK, LibraryCache
<1>2. Storable(disk.etag)  BY DEF EtagsInHand
<1>3. Installed(disk, LibraryCache).cache = LibraryCache
      /\ Installed(disk, LibraryCache).etag = disk.etag
  BY <1>1, DiskFields
<1>4. /\ upd[u].pc \in {"load", "publish", "swap", "cold", "hash", "index", "finish",
                        "wait"}
  BY DEF Reload, Load, Publish, Swap, Cold, Hash, Index, Finish, Poll, At
<1>5. Storable(upd[u].etag)  BY <1>4 DEF EtagsInHand
<1>6. disk'.etag = disk.etag /\ disk'.cache \in {disk.cache, remote}
  <2>1. disk' = disk \/ disk' = Installed(disk, LibraryCache)
    BY DEF Reload, Load, Publish, Swap, Cold, Hash, Index, Finish, Poll, Raise
  <2>2. QED  BY <1>1, <1>3, <2>1
<1>7. /\ upd'[u].pc \in {"publish", "swap", "cold", "hash", "index", "finish", "wait",
                         "load", "idle"}
      /\ upd'[u].etag \in {None, upd[u].etag}
  <2>1. ASSUME NEW pc \in {"publish", "swap", "hash", "index", "finish", "load"},
               \/ upd'[u] = [upd[u] EXCEPT !.pc = pc]
               \/ upd'[u] = Begun(upd[u].kind, pc)
        PROVE  /\ upd'[u].pc \in {"publish", "swap", "cold", "hash", "index", "finish",
                                "wait", "load", "idle"}
               /\ upd'[u].etag \in {None, upd[u].etag}
    BY <1>1, <2>1 DEF Updates, Begun, NoUpdate
  <2>2. CASE upd'[u] = NoUpdate  BY <2>2 DEF NoUpdate
  <2>3. \A pc \in {"publish", "swap", "hash", "index", "finish", "load"} :
          /\ Goto(u, pc) => upd'[u] = [upd[u] EXCEPT !.pc = pc]
          /\ GotoPhase(u, pc) => upd'[u] = Begun(upd[u].kind, pc)
    <3> TAKE pc \in {"publish", "swap", "hash", "index", "finish", "load"}
    <3>1. pc \in UpdatePcs  BY DEF UpdatePcs
    <3>2. Goto(u, pc) => upd'[u] = [upd[u] EXCEPT !.pc = pc]
      BY <3>1, OneAssigned
    <3>3. GotoPhase(u, pc) => upd'[u] = Begun(upd[u].kind, pc)
      BY <3>1, OneAssigned
    <3>4. QED  BY <3>2, <3>3
  <2>4. CASE Raise(u)  BY <2>2, <2>4, OneAssigned DEF Raise
  <2>5. CASE Load(u)
    <3>1. upd' = [upd EXCEPT ![u].pc = "publish", ![u].version = LibraryCache]
          \/ Raise(u)
      BY <2>5 DEF Load
    <3>2. QED  BY <1>1, <2>4, <3>1 DEF Updates
  <2>6. CASE Publish(u) \/ Swap(u)
    BY <2>1, <2>3, <2>6 DEF Publish, Swap
  <2>7. CASE Cold(u)  BY <2>1, <2>3, <2>4, <2>7 DEF Cold
  <2>8. CASE Hash(u)  BY <1>1, <2>8 DEF Hash, Updates
  <2>9. CASE Index(u)  BY <2>1, <2>3, <2>9 DEF Index
  <2>10. CASE Finish(u)  BY <2>2, <2>10, OneAssigned DEF Finish
  <2>11. CASE Poll(u)
    <3>1. CASE GotoPhase(u, "load")  BY <2>1, <2>3, <3>1
    <3>2. CASE upd' = [upd EXCEPT ![u].waited = @ + 1]
      <4>1. upd'[u].pc = upd[u].pc /\ upd'[u].etag = upd[u].etag
        BY <1>1, <3>2 DEF Updates
      <4>2. upd[u].pc = "wait"  BY <2>11 DEF Poll, At
      <4>3. QED  BY <4>1, <4>2
    <3>3. CASE upd' = [upd EXCEPT ![u] = NoUpdate]
      BY <1>1, <2>2, <3>3
    <3>4. QED  BY <2>11, <3>1, <3>2, <3>3 DEF Poll
  <2>12. QED
    BY <2>5, <2>6, <2>7, <2>8, <2>9, <2>10, <2>11 DEF Reload
<1>8. Storable(disk'.etag)  BY <1>2, <1>6
<1>9. upd'[u].pc \notin Installing \cup {"get"}  BY <1>7 DEF Installing
<1>10. upd'[u].etag = None \/ Storable(upd'[u].etag)  BY <1>5, <1>7
<1>11. QED  BY <1>6, <1>8, <1>9, <1>10, CalmStep

\* Steps of the others: they touch no update but to begin one.
LEMMA OthersHold ==
  ASSUME TypeOK, TypeOK', EtagsInHand, remote' >= remote,
         disk'.cache \in {disk.cache, None, remote}, Storable(disk'.etag),
         \A p \in Probers : Storable(probe'[p].etag),
         \A v \in Updaters :
            \/ upd'[v] = upd[v]
            \/ upd'[v].pc \in {"idle", "metadata", "aside"} /\ upd'[v].etag = None
  PROVE  EtagsInHand'
<1>1. /\ disk'.etag \in Nat /\ disk.cache \in Nat
      /\ \A p \in Probers : probe'[p].etag \in Nat
      /\ \A v \in Updaters : upd[v].etag \in Nat /\ upd[v].version \in Nat
      /\ remote \in Nat /\ remote' \in Nat /\ None \in Nat
  <2>1. MaybeVersions \subseteq Nat /\ remote \in Nat /\ None \in MaybeVersions
    BY VersionTypes
  <2>2. disk'.etag \in MaybeVersions /\ remote' \in Nat
    BY VersionAssumption DEF TypeOK, Disks, Versions
  <2>3. \A p \in Probers : probe'[p].etag \in MaybeVersions  BY DEF TypeOK, Probes
  <2>4. QED  BY <2>1, <2>2, <2>3, Numbers
<1>2. Harmless
  <2>1. \A v \in Updaters : upd'[v].pc \in Installing =>
           upd[v].pc \in Installing /\ upd'[v].version = upd[v].version
    BY DEF Installing
  <2>2. QED  BY <2>1 DEF Harmless
<1>3. disk'.cache <= remote'
  <2>1. disk.cache <= remote  BY DEF EtagsInHand
  <2>2. QED  BY <1>1, <2>1 DEF None
<1>4. Storable(disk.etag)' /\ \A p \in Probers : Storable(probe[p].etag)'
  BY <1>1, <1>2, StorableStays
<1>5. Storable(None)'
  <2>1. Storable(None)  BY NoneStorable
  <2>2. QED  BY <1>1, <1>2, <2>1, StorableStays
<1>6. \A v \in Updaters :
        /\ upd'[v].pc = "get" => upd'[v].etag <= remote'
        /\ upd'[v].pc \in Installing =>
             upd'[v].etag <= upd'[v].version /\ upd'[v].version <= remote'
        /\ upd'[v].pc \notin Installing \cup {"get"} => Storable(upd[v].etag)'
  <2> TAKE v \in Updaters
  <2>1. CASE upd'[v].pc \in {"idle", "metadata", "aside"} /\ upd'[v].etag = None
    <3>1. Storable(upd[v].etag)'  BY <1>5, <2>1
    <3>2. QED  BY <2>1, <3>1 DEF Installing
  <2>2. CASE upd'[v] = upd[v] /\ upd[v].pc \notin Installing \cup {"get"}
    <3>1. Storable(upd'[v].etag) /\ upd'[v].etag \in Nat
      BY <1>1, <2>2 DEF EtagsInHand, Installing
    <3>2. Storable(upd[v].etag)'  BY <1>2, <3>1, StorableStays
    <3>3. QED  BY <2>2, <3>2
  <2>3. CASE upd'[v] = upd[v] /\ upd[v].pc \in Installing \cup {"get"}
    <3>1. /\ upd[v].pc = "get" => upd[v].etag <= remote
          /\ upd[v].pc \in Installing =>
               upd[v].etag <= upd[v].version /\ upd[v].version <= remote
      BY DEF EtagsInHand, Installing
    <3>2. QED  BY <1>1, <2>3, <3>1 DEF Installing
  <2>4. QED  BY <2>1, <2>2, <2>3
<1>7. QED  BY <1>3, <1>4, <1>6 DEF EtagsInHand, Installing

LEMMA ProbeHolds ==
  ASSUME TypeOK, EtagsInHand, NEW p \in Probers, StartProbe(p) \/ ProbeStep(p)
  PROVE  Storable(disk'.etag) /\ \A q \in Probers : Storable(probe'[q].etag)
<1>1. probe \in [Probers -> Probes] /\ disk \in Disks /\ probe[p] \in Probes
      /\ probe[p].etag \in MaybeVersions
  BY DEF TypeOK, Probes
<1>2. /\ Storable(disk.etag) /\ Storable(None)
      /\ \A q \in Probers : Storable(probe[q].etag)
  BY NoneStorable DEF EtagsInHand
<1>3. WithEtag(disk, probe[p].etag).etag = probe[p].etag  BY <1>1, DiskFields
<1>4. disk' = disk \/ disk' = WithEtag(disk, probe[p].etag)
  BY DEF StartProbe, ProbeStep, ProbeHead, ProbeReadDate, ProbeSaveDate, FinishProbe
<1>5. Storable(disk'.etag)
  <2>1. disk'.etag = disk.etag \/ disk'.etag = probe[p].etag  BY <1>3, <1>4
  <2>2. QED  BY <1>2, <2>1
<1>6. /\ \A q \in Probers \ {p} : probe'[q] = probe[q]
      /\ probe'[p].etag \in {None, disk.etag}
  <2>1. ASSUME NEW pc, NEW answer, Answered(p, pc, answer)
        PROVE  /\ \A q \in Probers \ {p} : probe'[q] = probe[q]
               /\ probe'[p].etag \in {None, disk.etag}
    BY <1>1, <2>1 DEF Answered
  <2>2. CASE StartProbe(p)
    <3>1. probe'[p] = [NoProbe EXCEPT !.pc = "head", !.etag = Condition(disk)]
          /\ \A q \in Probers \ {p} : probe'[q] = probe[q]
      BY <1>1, <2>2 DEF StartProbe
    <3>2. QED  BY <3>1 DEF NoProbe, Condition
  <2>3. CASE ProbeHead(p)  BY <2>1, <2>3 DEF ProbeHead
  <2>4. CASE ProbeReadDate(p)
    <3>1. CASE probe' = [probe EXCEPT ![p].pc = "dateSave", ![p].etag = disk.etag]
      BY <1>1, <3>1 DEF Probes
    <3>2. QED  BY <2>1, <2>4, <3>1 DEF ProbeReadDate
  <2>5. CASE ProbeSaveDate(p)  BY <2>1, <2>5 DEF ProbeSaveDate
  <2>6. CASE FinishProbe(p)
    BY <1>1, <2>6 DEF FinishProbe, NoProbe
  <2>7. QED  BY <2>2, <2>3, <2>4, <2>5, <2>6 DEF ProbeStep
<1>7. Storable(probe'[p].etag)  BY <1>2, <1>6
<1>8. ASSUME NEW q \in Probers \ {p}
      PROVE  Storable(probe'[q].etag)
  <2>1. probe'[q] = probe[q] /\ Storable(probe[q].etag)  BY <1>2, <1>6
  <2>2. QED  BY <2>1
<1>9. QED  BY <1>5, <1>7, <1>8

LEMMA UpdateStepLeaves ==
  ASSUME NEW u \in Updaters, UpdateStep(u)
  PROVE  probe' = probe /\ remote' = remote
BY DEF UpdateStep, EnsureFresh, ReadMetadata, Head, Get, DropBackup, BackUp,
       Install, Stamp, ReadDate, SaveDate, RollBack, Aside, Restore, Discard,
       Forget, Poll, Reload, Load, Publish, Swap, Cold, Hash, Index, Finish,
       FileStep, Raise

LEMMA ReadCache ==
  ASSUME TypeOK, NEW r \in Readers, Read(r)
  PROVE  disk'.etag = disk.etag /\ disk'.cache \in {disk.cache, remote}
<1>1. CASE LoadFirst(r)
  <2>1. LibraryCache \in MaybeVersions /\ disk \in Disks
        /\ LibraryCache \in {disk.cache, remote}
    BY VersionTypes DEF TypeOK, LibraryCache
  <2>2. Installed(disk, LibraryCache).etag = disk.etag
        /\ Installed(disk, LibraryCache).cache = LibraryCache
    BY <2>1, DiskFields
  <2>3. QED  BY <1>1, <2>1, <2>2 DEF LoadFirst
<1>2. CASE ~ LoadFirst(r)
  BY <1>2 DEF Read, ReadGraph, ReadLabels, ReadField, BuildLabels, KeepLabels, EndRun
<1>3. QED  BY <1>1, <1>2

\* Rollbacks are only ever counted up.
LEMMA NoRollbackYet ==
  ASSUME TypeOK, OneAtATime, [Next]_vars, count'.rollbacks = 0
  PROVE  count.rollbacks = 0
<1>1. count.rollbacks \in Nat /\ count \in Counters
  BY CounterTypes DEF TypeOK
<1>2. ASSUME NEW u \in Updaters, UpdateStep(u) \/ StartApply(u)
      PROVE  count'.rollbacks = count.rollbacks
  BY <1>2, UpdateStepAlone DEF Alone, StartApply
<1>3. ASSUME NEW u \in Updaters, StartRollback(u)
      PROVE  count'.rollbacks = count.rollbacks + 1
  BY <1>1, <1>3 DEF StartRollback, Counters
<1>4. ASSUME NEW p \in Probers, StartProbe(p) \/ ProbeStep(p)
      PROVE  count'.rollbacks = count.rollbacks
  BY <1>4, ProbeLeaves
<1>5. ASSUME NEW r \in Readers, Read(r)
      PROVE  count'.rollbacks = count.rollbacks
  BY <1>5, ReadLeaves
<1>6. CASE Crash  BY <1>6, CounterTypes DEF Crash
<1>7. CASE PublishVersion \/ (\E j \in Jobs : StartJob(j)) \/ UNCHANGED vars
  BY <1>7 DEF PublishVersion, StartJob, vars
<1>8. QED  BY <1>1, <1>2, <1>3, <1>4, <1>5, <1>6, <1>7 DEF Next

LEMMA NextEtag == TypeOK /\ ControlInv /\ EtagInv /\ [Next]_vars => EtagInv'
<1> SUFFICES ASSUME TypeOK, ControlInv, EtagInv, [Next]_vars, count'.rollbacks = 0
             PROVE  EtagsInHand'
  BY DEF EtagInv
<1>1. TypeOK' /\ OneAtATime /\ remote \in Nat
  BY NextType, Numbers DEF ControlInv
<1>2. count.rollbacks = 0 /\ EtagsInHand  BY <1>1, NoRollbackYet DEF EtagInv
<1>3. /\ Storable(disk.etag) /\ Storable(None)
      /\ \A p \in Probers : Storable(probe[p].etag)
  BY <1>2, NoneStorable DEF EtagsInHand
<1>4. ASSUME NEW u \in Updaters, UpdateStep(u)
      PROVE  EtagsInHand'
  <2>1. Alone(u)  BY <1>1, <1>4, UpdateStepAlone
  <2>2. probe' = probe /\ remote' = remote  BY <1>4, UpdateStepLeaves
  <2>3. ~ RollBack(u)
    <3>1. upd[u].kind # "rollback"  BY <1>1, <1>2 DEF OneAtATime
    <3>2. upd[u].pc \notin {"aside", "restore", "discard", "forget"}
      BY <1>1, <3>1, Phases
    <3>3. QED
      BY <3>2 DEF RollBack, Aside, Restore, Discard, Forget, FileStep, At
  <2>4. Harmless /\ Storable(disk'.etag) /\ Held(u)
    BY <1>1, <1>2, <1>4, <2>1, <2>3, EnsureHolds, ReloadHolds DEF UpdateStep
  <2>5. \A v \in Updaters \ {u} : upd'[v] = upd[v]  BY <2>1 DEF Alone
  <2>6. \A p \in Probers : Storable(probe'[p].etag)  BY <1>3, <2>2
  <2>7. QED  BY <1>1, <1>2, <2>2, <2>4, <2>5, <2>6, StepHolds
<1>5. ASSUME NEW u \in Updaters, NEW pc \in {"metadata", "aside"}, NEW kind,
             upd' = [upd EXCEPT ![u] = Begun(kind, pc)]
      PROVE  \A v \in Updaters :
               \/ upd'[v] = upd[v]
               \/ upd'[v].pc \in {"idle", "metadata", "aside"} /\ upd'[v].etag = None
  BY <1>5 DEF TypeOK, Begun, NoUpdate
<1>6. ASSUME NEW u \in Updaters, StartApply(u) \/ StartRollback(u)
      PROVE  EtagsInHand'
  <2>1. UNCHANGED <<remote, disk, probe>>  BY <1>6 DEF StartApply, StartRollback
  <2>2. \A v \in Updaters :
           \/ upd'[v] = upd[v]
           \/ upd'[v].pc \in {"idle", "metadata", "aside"} /\ upd'[v].etag = None
    BY <1>5, <1>6 DEF StartApply, StartRollback
  <2>3. QED  BY <1>1, <1>2, <1>3, <2>1, <2>2, OthersHold
<1>7. ASSUME NEW p \in Probers, StartProbe(p) \/ ProbeStep(p)
      PROVE  EtagsInHand'
  <2>1. remote' = remote /\ disk'.cache = disk.cache
        /\ (FinishProbe(p) \/ upd' = upd)
    BY <1>7, ProbeLeaves
  <2>2. \A v \in Updaters :
           \/ upd'[v] = upd[v]
           \/ upd'[v].pc \in {"idle", "metadata", "aside"} /\ upd'[v].etag = None
    <3>1. CASE upd' = upd  BY <3>1
    <3>2. CASE /\ p \in Updaters
               /\ upd' = [upd EXCEPT ![p] = Begun("apply", "metadata")]
      BY <1>5, <3>2
    <3>3. QED  BY <1>1, <2>1, <3>1, <3>2, FinishProbeOne
  <2>3. Storable(disk'.etag) /\ \A q \in Probers : Storable(probe'[q].etag)
    BY <1>2, <1>7, ProbeHolds
  <2>4. QED  BY <1>1, <1>2, <2>1, <2>2, <2>3, OthersHold
<1>8. ASSUME NEW r \in Readers, Read(r)
      PROVE  EtagsInHand'
  <2>1. UNCHANGED <<upd, remote, probe>>  BY <1>8, ReadLeaves
  <2>2. disk'.etag = disk.etag /\ disk'.cache \in {disk.cache, remote}
    BY <1>8, ReadCache
  <2>3. QED  BY <1>1, <1>2, <1>3, <2>1, <2>2, OthersHold
<1>9. CASE PublishVersion
  <2>1. UNCHANGED <<upd, disk, probe>> /\ remote' >= remote
    BY <1>1, <1>9 DEF PublishVersion
  <2>2. QED  BY <1>1, <1>2, <1>3, <2>1, OthersHold
<1>10. CASE Crash
  <2>1. UNCHANGED <<remote, disk>> /\ upd' = Startup
        /\ probe' = [p \in Probers |-> NoProbe]
    BY <1>10 DEF Crash
  <2>2. \A v \in Updaters : upd'[v].pc \in {"idle", "metadata"} /\ upd'[v].etag = None
    BY <2>1 DEF Startup, NoUpdate
  <2>3. \A p \in Probers : Storable(probe'[p].etag)
    <3>1. \A p \in Probers : probe'[p].etag = None  BY <2>1 DEF NoProbe
    <3>2. QED  BY <1>3, <3>1
  <2>4. QED  BY <1>1, <1>2, <1>3, <2>1, <2>2, <2>3, OthersHold
<1>11. CASE (\E j \in Jobs : StartJob(j)) \/ UNCHANGED vars
  <2>1. UNCHANGED <<remote, upd, disk, probe>>  BY <1>11 DEF StartJob, vars
  <2>2. QED  BY <1>1, <1>2, <1>3, <2>1, OthersHold
<1>12. QED  BY <1>4, <1>6, <1>7, <1>8, <1>9, <1>10, <1>11 DEF Next

LEMMA InitEtag == Init => EtagInv
<1> SUFFICES ASSUME Init
             PROVE  EtagsInHand
  BY DEF EtagInv
<1>1. \A u \in Updaters : upd[u].pc \in {"idle", "metadata"} /\ upd[u].etag = None
  BY DEF Init, Startup, NoUpdate
<1>2. \A p \in Probers : probe[p].etag = None  BY DEF Init, NoProbe
<1>3. disk.cache = None /\ disk.etag = None /\ remote = 1
  BY DEF Init, EmptyDisk
<1>4. Storable(None)  BY <1>1, <1>3 DEF Storable, None
<1>5. disk.cache <= remote  BY <1>3 DEF None
<1>6. QED  BY <1>1, <1>2, <1>3, <1>4, <1>5 DEF EtagsInHand

\* EtagNotAhead holds in every reachable state: until somebody rolls back, the
\* stored ETag is not newer than the cached file (owl_cache.py:118-136).
THEOREM EtagsCanBeBelieved == Spec => []EtagNotAhead
<1>1. EtagInv => EtagNotAhead  BY DEF EtagInv, EtagsInHand, Storable, EtagNotAhead
<1>2. QED  BY <1>1, InitEtag, NextEtag, OntologyTypeCorrect, ControlHolds, PTL DEF Spec

-----------------------------------------------------------------------------
(* Versions mixed by a run.                                                   *)

\* What a step may do to a run without showing it another version.
SameRun(r) ==
    /\ reader'[r].running = reader[r].running
    /\ reader'[r].seen = reader[r].seen
    /\ reader'[r].built = reader[r].built

FreshRun(r) == reader'[r].seen = {} /\ reader'[r].built = None

NoSwap == \A u \in Updaters : upd[u].pc # "swap"

LEMMA MixCalm ==
  ASSUME MixInv, mem'.graph = mem.graph, mem'.labels = mem.labels,
         overlapped' = overlapped,
         \A r \in Readers : SameRun(r) \/ (FreshRun(r) /\ NoSwap),
         \A u \in Updaters :
            /\ upd'[u].pc = "swap" <=> upd[u].pc = "swap"
            /\ upd'[u].pc = "swap" => upd'[u].version = upd[u].version
            /\ upd'[u].kind = "startup" => upd[u].kind = "startup"
  PROVE  MixInv'
<1>1. \A r \in Readers : ~ reader'[r].running =>
         reader'[r].seen = {} /\ reader'[r].built = None
  BY DEF MixInv, SameRun, FreshRun
<1>2. \A u \in Updaters : upd'[u].kind = "startup" => mem'.labels = None
  BY DEF MixInv
<1>3. CASE overlapped  BY <1>1, <1>2, <1>3 DEF MixInv
<1>4. CASE /\ \E u \in Updaters : upd[u].pc = "swap" /\ mem.labels = upd[u].version
           /\ \A r \in Readers : ~ reader[r].running
  <2>1. \A r \in Readers : ~ reader'[r].running
    BY <1>4 DEF SameRun, NoSwap
  <2>2. \E u \in Updaters : upd'[u].pc = "swap" /\ mem'.labels = upd'[u].version
    BY <1>4
  <2>3. QED  BY <1>1, <1>2, <2>1, <2>2 DEF MixInv
<1>5. CASE NoSwap /\ OneVersion
  <2>1. \A u \in Updaters : upd'[u].pc # "swap"  BY <1>5 DEF NoSwap
  <2>2. mem.labels \in {None, mem.graph} \/ Readers = {}
    BY <1>5 DEF OneVersion
  <2>3. ASSUME NEW r \in Readers
        PROVE  /\ reader'[r].seen \subseteq {mem'.graph}
               /\ mem'.labels \in {None, mem'.graph}
               /\ reader'[r].built \in {None, mem'.graph}
    BY <1>5 DEF OneVersion, SameRun, FreshRun
  <2>4. OneVersion'  BY <2>3 DEF OneVersion
  <2>5. QED  BY <1>1, <1>2, <2>1, <2>4 DEF MixInv
<1>6. QED  BY <1>3, <1>4, <1>5 DEF MixInv, NoSwap

\* After a startup nobody is running yet, so the warm-up is a fresh run.
LEMMA LeaveRuns ==
  ASSUME TypeOK, OneAtATime, MixInv, NEW u \in Updaters, Leave(u),
         upd[u].pc # "swap", upd[u].kind # "none"
  PROVE  \A r \in Readers : SameRun(r) \/ (FreshRun(r) /\ NoSwap)
<1>1. CASE upd[u].kind = "startup"
  <2>1. NoSwap
    <3>1. \A v \in Updaters \ {u} : upd[v].kind = "none"  BY <1>1 DEF OneAtATime
    <3>2. \A v \in Updaters \ {u} : upd[v].pc # "swap"  BY <3>1, Phases
    <3>3. QED  BY <3>2 DEF NoSwap
  <2>2. \A r \in Readers : reader'[r] = reader[r] \/ reader'[r] = WarmingUp
    BY <1>1 DEF Leave
  <2>3. WarmingUp.seen = {} /\ WarmingUp.built = None
    BY DEF WarmingUp, NoRun
  <2>4. QED  BY <2>1, <2>2, <2>3 DEF SameRun, FreshRun
<1>2. CASE upd[u].kind # "startup"
  BY <1>2 DEF Leave, SameRun
<1>3. QED  BY <1>1, <1>2

\* The steps of an update that rebind no field.
LEMMA BindsNothing ==
  ASSUME TypeOK, OneAtATime, MixInv, NEW u \in Updaters, UpdateStep(u),
         ~ Publish(u), ~ Swap(u), ~ Cold(u)
  PROVE  /\ upd[u].pc # "swap" /\ upd'[u].pc # "swap"
         /\ mem'.graph = mem.graph /\ mem'.labels = mem.labels
         /\ overlapped' = overlapped
         /\ \A r \in Readers : SameRun(r) \/ (FreshRun(r) /\ NoSwap)
<1>1. upd \in [Updaters -> Updates] /\ upd[u] \in Updates
      /\ upd[u].kind # "none"
  BY UpdateStepAlone DEF TypeOK, Alone
<1>2. EnsureFresh(u) \/ RollBack(u) \/ Poll(u) \/ Load(u) \/ Hash(u) \/ Index(u)
      \/ Finish(u)
  BY DEF UpdateStep, Reload
<1>3. upd[u].pc # "swap"
  BY <1>2
  DEF EnsureFresh, ReadMetadata, Head, Get, DropBackup, BackUp, Install, Stamp,
      ReadDate, SaveDate, RollBack, Aside, Restore, Discard, Forget, Poll, Load,
      Hash, Index, Finish, FileStep, At
<1>4. mem'.graph = mem.graph /\ mem'.labels = mem.labels /\ overlapped' = overlapped
  <2>1. mem' = mem \/ mem' = [mem EXCEPT !.index = Embedded(upd[u].hash)]
    BY <1>2
    DEF EnsureFresh, ReadMetadata, Head, Get, DropBackup, BackUp, Install, Stamp,
        ReadDate, SaveDate, RollBack, Aside, Restore, Discard, Forget, Poll, Load,
        Hash, Index, Finish, FileStep, Raise
  <2>2. overlapped' = overlapped
    BY <1>2
    DEF EnsureFresh, ReadMetadata, Head, Get, DropBackup, BackUp, Install, Stamp,
        ReadDate, SaveDate, RollBack, Aside, Restore, Discard, Forget, Poll, Load,
        Hash, Index, Finish, FileStep, Raise
  <2>3. QED  BY <2>1, <2>2 DEF TypeOK
<1>5. \A r \in Readers : SameRun(r) \/ (FreshRun(r) /\ NoSwap)
  <2>1. CASE reader' = reader  BY <2>1 DEF SameRun
  <2>2. CASE Leave(u)  BY <1>1, <1>3, <2>2, LeaveRuns
  <2>3. CASE Poll(u)
    <3>1. PICK stale \in SUBSET Active :
            reader' = [r \in Readers |->
                         IF r \in stale THEN [reader[r] EXCEPT !.counted = FALSE]
                         ELSE reader[r]]
      BY <2>3 DEF Poll
    <3>2. \A r \in Readers : reader[r] \in ReaderStates  BY DEF TypeOK
    <3>3. QED  BY <3>1, <3>2 DEF SameRun, ReaderStates
  <2>4. QED
    BY <1>2, <2>1, <2>2, <2>3
    DEF EnsureFresh, ReadMetadata, Head, Get, DropBackup, BackUp, Install, Stamp,
        ReadDate, SaveDate, RollBack, Aside, Restore, Discard, Forget, Load,
        Hash, Index, Finish, FileStep, Raise
<1>6. upd'[u].pc # "swap"
  <2>1. CASE EnsureFresh(u)  BY <2>1, EnsureGoes
  <2>2. CASE upd'[u] = NoUpdate  BY <2>2 DEF NoUpdate
  <2>3. \A pc \in {"restore", "discard", "forget", "load", "finish"} :
           Goto(u, pc) \/ GotoPhase(u, pc) => upd'[u].pc = pc
    <3> TAKE pc \in {"restore", "discard", "forget", "load", "finish"}
    <3>1. pc \in UpdatePcs  BY DEF UpdatePcs
    <3>2. QED  BY <3>1, OneAssigned
  <2>4. CASE Leave(u)  BY <2>2, <2>4, OneAssigned
  <2>5. CASE RollBack(u)
    BY <2>3, <2>4, <2>5 DEF RollBack, Aside, Restore, Discard, Forget, FileStep
  <2>6. CASE Poll(u)
    <3>1. CASE GotoPhase(u, "load")  BY <2>3, <3>1
    <3>2. CASE upd' = [upd EXCEPT ![u].waited = @ + 1]
      BY <1>1, <1>3, <3>2 DEF Updates
    <3>3. CASE upd' = [upd EXCEPT ![u] = NoUpdate]  BY <1>1, <2>2, <3>3
    <3>4. QED  BY <2>6, <3>1, <3>2, <3>3 DEF Poll
  <2>7. CASE Load(u)
    <3>1. CASE Raise(u)  BY <2>4, <3>1 DEF Raise
    <3>2. CASE upd' = [upd EXCEPT ![u].pc = "publish", ![u].version = LibraryCache]
      BY <1>1, <3>2 DEF Updates
    <3>3. QED  BY <2>7, <3>1, <3>2 DEF Load
  <2>8. CASE Hash(u)  BY <1>1, <2>8 DEF Hash, Updates
  <2>9. CASE Index(u)  BY <2>3, <2>9 DEF Index
  <2>10. CASE Finish(u)  BY <2>4, <2>10 DEF Finish
  <2>11. QED  BY <1>2, <2>1, <2>5, <2>6, <2>7, <2>8, <2>9, <2>10
<1>7. QED  BY <1>3, <1>4, <1>5, <1>6

LEMMA BindingMix ==
  ASSUME TypeOK, OneAtATime, MixInv, NEW u \in Updaters,
         Publish(u) \/ Swap(u) \/ Cold(u)
  PROVE  MixInv'
<1>1. /\ upd \in [Updaters -> Updates] /\ upd[u] \in Updates
      /\ mem.graph \in MaybeVersions /\ Alone(u)
      /\ \A r \in Readers : ~ reader[r].running =>
            reader[r].seen = {} /\ reader[r].built = None
  BY VersionTypes, ReloadAlone DEF TypeOK, Reload, MixInv
<1>2. \A v \in Updaters \ {u} :
         upd'[v] = upd[v] /\ upd[v].kind = "none" /\ upd[v].pc = "idle"
  BY <1>1, OthersIdle
<1>3. CASE Publish(u)
  <2>1. upd[u].pc = "publish" /\ upd'[u] = [upd[u] EXCEPT !.pc = "swap"]
        /\ reader' = reader
    BY <1>3, OneAssigned DEF Publish, At, UpdatePcs
  <2>2. upd[u].kind \in {"apply", "rollback"}  BY <2>1, Phases
  <2>3. upd'[u].pc = "swap" /\ upd'[u].version = upd[u].version
        /\ upd'[u].kind = upd[u].kind
    BY <1>1, <2>1 DEF Updates
  <2>4. mem'.labels = upd[u].version  BY <1>3 DEF Publish, TypeOK
  <2>5. \A v \in Updaters : upd'[v].kind # "startup"  BY <1>2, <2>2, <2>3
  <2>6. overlapped' \/ \A r \in Readers : ~ reader'[r].running
    BY <1>3, <2>1 DEF Publish, SomebodyReads
  <2>7. QED  BY <1>1, <2>1, <2>3, <2>4, <2>5, <2>6 DEF MixInv
<1>4. CASE Swap(u)
  <2>1. upd[u].pc = "swap" /\ upd'[u].pc = "hash" /\ upd'[u].kind = upd[u].kind
        /\ reader' = reader /\ overlapped' = overlapped
    BY <1>4, OneAssigned DEF Swap, At, UpdatePcs
  <2>2. upd[u].kind \in {"apply", "rollback"}  BY <2>1, Phases
  <2>3. \A v \in Updaters : upd'[v].kind # "startup" /\ upd'[v].pc # "swap"
    BY <1>2, <2>1, <2>2
  <2>4. mem'.graph = upd[u].version /\ mem'.labels = mem.labels
    BY <1>4 DEF Swap, TypeOK
  <2>5. overlapped \/ OneVersion'
    <3>1. overlapped \/ \E v \in Updaters : upd[v].pc = "swap" /\ mem.labels = upd[v].version
          /\ \A r \in Readers : ~ reader[r].running
      BY <2>1 DEF MixInv
    <3>2. overlapped \/ (/\ mem.labels = upd[u].version
                         /\ \A r \in Readers : ~ reader[r].running)
      BY <1>2, <3>1
    <3>3. QED  BY <1>1, <2>1, <2>4, <3>2 DEF OneVersion
  <2>6. QED  BY <1>1, <2>1, <2>3, <2>5 DEF MixInv
<1>5. CASE Cold(u)
  <2>1. upd[u].pc = "cold" /\ upd[u].kind = "startup"
    BY <1>5, Phases DEF Cold, At
  <2>2. /\ \A r \in Readers : ~ reader[r].running
        /\ mem.labels = None
    BY <2>1 DEF OneAtATime, MixInv
  <2>3. CASE Raise(u)
    <3>1. upd'[u] = NoUpdate /\ mem' = mem /\ overlapped' = overlapped
      BY <2>3, OneAssigned DEF Raise
    <3>2. \A r \in Readers : SameRun(r) \/ (FreshRun(r) /\ NoSwap)
      BY <2>1, <2>3, LeaveRuns DEF Raise
    <3>3. QED  BY <1>2, <2>1, <3>1, <3>2, MixCalm DEF NoUpdate
  <2>4. CASE mem' = [mem EXCEPT !.graph = LibraryCache] /\ Goto(u, "index")
             /\ reader' = reader /\ overlapped' = overlapped
    <3>1. upd'[u].pc = "index"  BY <2>4, OneAssigned DEF UpdatePcs
    <3>2. mem'.labels = None  BY <2>2, <2>4 DEF TypeOK
    <3>3. OneVersion'  BY <1>1, <2>2, <2>4, <3>2 DEF OneVersion
    <3>4. \A v \in Updaters : upd'[v].pc # "swap"  BY <1>2, <3>1
    <3>5. QED  BY <1>1, <2>4, <3>2, <3>3, <3>4 DEF MixInv
  <2>5. QED  BY <1>5, <2>3, <2>4 DEF Cold
<1>6. QED  BY <1>3, <1>4, <1>5

LEMMA ReadMix ==
  ASSUME TypeOK, OneAtATime, MixInv, NEW r \in Readers, Read(r)
  PROVE  MixInv'
<1>1. UNCHANGED <<upd, overlapped>>  BY ReadLeaves
<1>2. reader \in [Readers -> ReaderStates] /\ reader[r] \in ReaderStates
      /\ reader[r].seen \subseteq Versions
  BY ReaderTypes DEF TypeOK
<1>3. /\ \A q \in Readers : ~ reader[q].running =>
            reader[q].seen = {} /\ reader[q].built = None
      /\ \A u \in Updaters : upd[u].kind = "startup" => mem.labels = None
  BY DEF MixInv
<1>4. reader[r].running
  BY <1>3 DEF Read, ReadGraph, ReadLabels, ReadField, LoadFirst, BuildLabels,
              KeepLabels, EndRun
<1>5. \A u \in Updaters : upd[u].kind # "startup"  BY <1>4 DEF OneAtATime
<1>6. \A q \in Readers : ~ reader'[q].running =>
         reader'[q].seen = {} /\ reader'[q].built = None
  <2>1. \A q \in Readers \ {r} : reader'[q] = reader[q]
    BY <1>2 DEF Read, ReadGraph, ReadLabels, ReadField, LoadFirst, BuildLabels,
                KeepLabels, EndRun
  <2>2. reader'[r].running \/ reader'[r] = NoRun
    BY <1>2, <1>4 DEF Read, ReadGraph, ReadLabels, ReadField, LoadFirst, BuildLabels,
                KeepLabels, EndRun, ReaderStates
  <2>3. NoRun.seen = {} /\ NoRun.built = None  BY DEF NoRun
  <2>4. QED  BY <1>3, <2>1, <2>2, <2>3
<1>7. CASE overlapped  BY <1>1, <1>5, <1>6, <1>7 DEF MixInv
<1>8. CASE ~ overlapped
  <2>1. NoSwap /\ OneVersion  BY <1>4, <1>8 DEF MixInv, NoSwap
  <2>2. \A q \in Readers \ {r} : reader'[q] = reader[q]
    BY <1>2 DEF Read, ReadGraph, ReadLabels, ReadField, LoadFirst, BuildLabels,
                KeepLabels, EndRun
  <2>3. ASSUME NEW v \in {mem.graph}
        PROVE  Seen(r, v) \subseteq {mem.graph}
    BY <2>1 DEF Seen, OneVersion
  <2>4. /\ reader[r].seen \subseteq {mem.graph}
        /\ mem.labels \in {None, mem.graph}
        /\ reader[r].built \in {None, mem.graph}
    BY <2>1 DEF OneVersion
  <2>5. CASE ReadGraph(r) \/ ReadLabels(r)
    <3>1. reader'[r].seen \subseteq {mem.graph} /\ reader'[r].built = reader[r].built
          /\ mem' = mem
      BY <1>2, <2>3, <2>4, <2>5 DEF ReadGraph, ReadLabels, ReadField, ReaderStates
    <3>2. OneVersion'  BY <2>1, <2>2, <2>4, <3>1 DEF OneVersion
    <3>3. QED  BY <1>1, <1>5, <1>6, <2>1, <3>2 DEF MixInv, NoSwap
  <2>6. CASE LoadFirst(r)
    <3>1. mem.graph = None /\ mem'.graph = LibraryCache /\ mem'.labels = mem.labels
      BY <2>6 DEF LoadFirst, TypeOK
    <3>2. \A q \in Readers : reader[q].seen = {} /\ reader[q].built = None
      <4>1. \A q \in Readers : reader[q].seen \subseteq Versions
        BY ReaderTypes
      <4>2. None \notin Versions  BY DEF None, Versions
      <4>3. \A q \in Readers : reader[q].seen \subseteq {None}
                               /\ reader[q].built \in {None}
        BY <2>1, <3>1 DEF OneVersion
      <4>4. QED  BY <4>1, <4>2, <4>3
    <3>3. reader'[r].seen \subseteq {LibraryCache} /\ reader'[r].built = None
      BY <1>2, <2>6, <3>2 DEF LoadFirst, Seen, ReaderStates
    <3>4. mem.labels = None  BY <2>4, <3>1
    <3>5. OneVersion'  BY <2>2, <3>1, <3>2, <3>3, <3>4 DEF OneVersion
    <3>6. QED  BY <1>1, <1>5, <1>6, <2>1, <3>5 DEF MixInv, NoSwap
  <2>7. CASE BuildLabels(r)
    <3>1. reader'[r].seen \subseteq {mem.graph} /\ reader'[r].built = mem.graph
          /\ mem' = mem
      BY <1>2, <2>3, <2>7 DEF BuildLabels, ReaderStates
    <3>2. OneVersion'  BY <2>1, <2>2, <2>4, <3>1 DEF OneVersion
    <3>3. QED  BY <1>1, <1>5, <1>6, <2>1, <3>2 DEF MixInv, NoSwap
  <2>8. CASE KeepLabels(r)
    <3>1. /\ reader'[r].seen = reader[r].seen /\ reader'[r].built = None
          /\ mem'.graph = mem.graph /\ mem'.labels \in {None, mem.graph}
      BY <1>2, <2>4, <2>8 DEF KeepLabels, ReaderStates, TypeOK
    <3>2. OneVersion'  BY <2>1, <2>2, <2>4, <3>1 DEF OneVersion
    <3>3. QED  BY <1>1, <1>5, <1>6, <2>1, <3>2 DEF MixInv, NoSwap
  <2>9. CASE EndRun(r)
    <3>1. reader'[r] = NoRun /\ mem' = mem  BY <1>2, <2>9 DEF EndRun
    <3>2. reader'[r].seen = {} /\ reader'[r].built = None  BY <3>1 DEF NoRun
    <3>3. OneVersion'  BY <2>1, <2>2, <2>4, <3>1, <3>2 DEF OneVersion
    <3>4. QED  BY <1>1, <1>5, <1>6, <2>1, <3>3 DEF MixInv, NoSwap
  <2>10. QED  BY <2>5, <2>6, <2>7, <2>8, <2>9 DEF Read
<1>9. QED  BY <1>7, <1>8

LEMMA NextMix == TypeOK /\ ControlInv /\ MixInv /\ [Next]_vars => MixInv'
<1> SUFFICES ASSUME TypeOK, ControlInv, MixInv, [Next]_vars
             PROVE  MixInv'
  OBVIOUS
<1>1. OneAtATime /\ upd \in [Updaters -> Updates]  BY DEF ControlInv, TypeOK
<1>2. ASSUME NEW u \in Updaters, UpdateStep(u)
      PROVE  MixInv'
  <2>1. CASE Publish(u) \/ Swap(u) \/ Cold(u)  BY <1>1, <2>1, BindingMix
  <2>2. CASE ~ (Publish(u) \/ Swap(u) \/ Cold(u))
    <3>1. Alone(u)  BY <1>1, <1>2, UpdateStepAlone
    <3>2. \A v \in Updaters \ {u} : upd'[v] = upd[v]  BY <3>1 DEF Alone
    <3>3. upd'[u].kind = upd[u].kind \/ upd'[u].kind = "none"
      BY <3>1 DEF Alone, Moves, Ends, NoUpdate
    <3>4. /\ upd[u].pc # "swap" /\ upd'[u].pc # "swap"
          /\ mem'.graph = mem.graph /\ mem'.labels = mem.labels
          /\ overlapped' = overlapped
          /\ \A r \in Readers : SameRun(r) \/ (FreshRun(r) /\ NoSwap)
      BY <1>1, <1>2, <2>2, BindsNothing
    <3>5. QED  BY <3>2, <3>3, <3>4, MixCalm
  <2>3. QED  BY <2>1, <2>2
<1>3. ASSUME NEW u \in Updaters, NEW kind \in {"apply", "rollback"},
             NEW pc \in {"metadata", "aside"}, upd[u].kind = "none",
             upd' = [upd EXCEPT ![u] = Begun(kind, pc)],
             UNCHANGED <<mem, reader, overlapped>>
      PROVE  MixInv'
  <2>1. upd'[u].kind = kind /\ upd'[u].pc = pc  BY <1>1, <1>3 DEF Begun, NoUpdate
  <2>2. \A v \in Updaters \ {u} : upd'[v] = upd[v]  BY <1>1, <1>3
  <2>3. upd[u].pc # "swap"  BY <1>1, <1>3, Phases
  <2>4. QED  BY <1>3, <2>1, <2>2, <2>3, MixCalm DEF SameRun
<1>4. ASSUME UNCHANGED <<upd, mem, reader, overlapped>>
      PROVE  MixInv'
  BY <1>4, MixCalm DEF SameRun
<1>5. ASSUME NEW u \in Updaters, StartApply(u) \/ StartRollback(u)
      PROVE  MixInv'
  <2>1. upd[u].kind = "none"
    BY <1>5 DEF StartApply, StartRollback, MayUpdate, NoUpdate
  <2>2. QED  BY <1>3, <1>5, <2>1 DEF StartApply, StartRollback
<1>6. ASSUME NEW p \in Probers, StartProbe(p) \/ ProbeStep(p)
      PROVE  MixInv'
  <2>1. (FinishProbe(p) \/ UNCHANGED upd) /\ UNCHANGED <<mem, reader, overlapped>>
    BY <1>6, ProbeLeaves
  <2>2. CASE FinishProbe(p) /\ upd' # upd
    <3>1. /\ p \in Updaters /\ Up /\ ~ status.inProgress
          /\ upd' = [upd EXCEPT ![p] = Begun("apply", "metadata")]
      BY <1>1, <2>2, FinishProbeOne
    <3>2. upd[p].kind = "none"  BY <1>1, <3>1, NoneUnderWay
    <3>3. QED  BY <1>3, <2>1, <3>1, <3>2
  <2>3. QED  BY <1>4, <2>1, <2>2
<1>7. ASSUME NEW j \in Jobs, StartJob(j)
      PROVE  MixInv'
  <2>1. CASE NoSwap
    <3>1. overlapped' = overlapped /\ UNCHANGED <<upd, mem>>
      <4>1. overlapped \in BOOLEAN  BY DEF TypeOK
      <4>2. ~ \E u \in Updaters : At(u, "swap")  BY <2>1 DEF NoSwap, At
      <4>3. overlapped' = (overlapped \/ \E u \in Updaters : At(u, "swap"))
        BY <1>7 DEF StartJob
      <4>4. overlapped' = overlapped  BY <4>1, <4>2, <4>3
      <4>5. QED  BY <1>7, <4>4 DEF StartJob
    <3>2. j \in Readers /\ reader \in [Readers -> ReaderStates]
      BY DEF Readers, TypeOK
    <3>3. FreshRun(j) /\ \A r \in Readers \ {j} : reader'[r] = reader[r]
      BY <1>7, <3>2 DEF StartJob, FreshRun, NoRun
    <3>4. QED  BY <2>1, <3>1, <3>3, MixCalm DEF SameRun
  <2>2. CASE ~ NoSwap
    <3>1. overlapped' /\ UNCHANGED <<upd, mem>>
      BY <1>7, <2>2 DEF StartJob, NoSwap, At
    <3>2. j \in Readers /\ reader \in [Readers -> ReaderStates]
      BY DEF Readers, TypeOK
    <3>3. FreshRun(j) /\ \A r \in Readers \ {j} : reader'[r] = reader[r]
      BY <1>7, <3>2 DEF StartJob, FreshRun, NoRun
    <3>4. QED  BY <3>1, <3>3 DEF MixInv, FreshRun
  <2>3. QED  BY <2>1, <2>2
<1>8. ASSUME NEW r \in Readers, Read(r)
      PROVE  MixInv'
  BY <1>1, <1>8, ReadMix
<1>9. CASE PublishVersion \/ UNCHANGED vars
  BY <1>4, <1>9 DEF PublishVersion, vars
<1>10. CASE Crash
  <2>1. /\ upd' = Startup /\ reader' = [r \in Readers |-> NoRun] /\ mem' = EmptyMemory
    BY <1>10 DEF Crash
  <2>2. \A u \in Updaters : upd'[u].pc # "swap"  BY <2>1 DEF Startup, NoUpdate
  <2>3. \A r \in Readers : reader'[r].seen = {} /\ reader'[r].built = None
    BY <2>1 DEF NoRun
  <2>4. mem'.labels = None  BY <2>1 DEF EmptyMemory
  <2>5. QED  BY <2>2, <2>3, <2>4 DEF MixInv, OneVersion
<1>11. QED
  BY <1>2, <1>5, <1>6, <1>7, <1>8, <1>9, <1>10 DEF Next

LEMMA InitMix == Init => MixInv
<1> SUFFICES ASSUME Init
             PROVE  MixInv
  OBVIOUS
<1>1. \A u \in Updaters : upd[u].pc # "swap"  BY DEF Init, Startup, NoUpdate
<1>2. \A r \in Readers : reader[r].seen = {} /\ reader[r].built = None
  BY DEF Init, NoRun
<1>3. mem.labels = None  BY DEF Init, EmptyMemory
<1>4. QED  BY <1>1, <1>2, <1>3 DEF MixInv, OneVersion

\* MixOnlyUnderReload holds in every reachable state: a run has seen two
\* versions only if somebody was reading while a reload rebound the fields
\* (folio_service.py:131-179, 287-301).
THEOREM MixesOnlyUnderReload == Spec => []MixOnlyUnderReload
<1>1. TypeOK /\ MixInv => MixOnlyUnderReload
  <2> SUFFICES ASSUME TypeOK, MixInv, ~ overlapped, NEW j \in Jobs
               PROVE  ~ (Cardinality(reader[j].seen) > 1)
    BY DEF MixOnlyUnderReload
  <2>1. j \in Readers  BY DEF Readers
  <2>2. reader[j].seen \subseteq {mem.graph}  BY <2>1 DEF MixInv, OneVersion
  <2>3. IsFiniteSet({mem.graph}) /\ Cardinality({mem.graph}) = 1
    BY FS_Singleton
  <2>4. Cardinality(reader[j].seen) \in Nat /\ Cardinality(reader[j].seen) <= 1
    BY <2>2, <2>3, FS_Subset, FS_CardinalityType
  <2>5. QED  BY <2>4
<1>2. QED
  BY <1>1, InitMix, NextMix, OntologyTypeCorrect, ControlHolds, PTL DEF Spec

-----------------------------------------------------------------------------
\* MemorySound holds in every reachable state: its three parts do.
THEOREM MemoryStaysSound == Spec => []MemorySound
<1>1. ReloadedIsCached /\ QuietReload /\ MixOnlyUnderReload => MemorySound
  BY DEF MemorySound
<1>2. QED  BY <1>1, ReloadsAreCached, ReloadsAreQuiet, MixesOnlyUnderReload, PTL
=============================================================================
