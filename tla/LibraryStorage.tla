--------------------------- MODULE LibraryStorage ---------------------------
(***************************************************************************)
(* How an upload becomes a library file (internal/app/storage.go and the   *)
(* import part of library.go).  A handler stages a copy, flushes and       *)
(* probes it, links it under its library name without replacing anything,  *)
(* removes the staging name and flushes both directories; when that fails  *)
(* it takes the library name back.  Startup and maintenance sweep what     *)
(* interrupted imports left behind.                                        *)
(*                                                                         *)
(* A file is one identity (inode, size and modification time) that never   *)
(* returns once it has gone.  Each directory entry has the states in which *)
(* a power failure may leave it: those since its directory was last        *)
(* flushed.  A directory need not be flushed by the call that reports it:  *)
(* a file system may not take the call (EINVAL, ENOTSUP), and a directory  *)
(* the bot made may itself not be on disk yet.  The names whose entries a  *)
(* reported flush makes durable are an input (lasting).                    *)
(* The other half of an import, the scan, is in LibraryScan.               *)
(***************************************************************************)
EXTENDS Naturals, FiniteSets

CONSTANTS Names,       \* library names: paths below the loop and music directories
          Files,       \* file identities
          Uploaders,   \* handlers that may be in ImportLibraryUpload
          Nothing,     \* no file, nobody
          SweepBatch,  \* stagingSweepBatchSize
          MaxFaults    \* bound: failing file operations (with the failures of the
                       \* cleanup that follows), crashes and power failures

ASSUME StorageAssumption ==
  /\ Nothing \notin Files \cup Uploaders \cup Names
  /\ SweepBatch \in Nat \ {0}
  /\ MaxFaults \in Nat

VARIABLES
  dir,        \* the file each library name shows, or Nothing
  dirDisk,    \* what each library name may show after a power failure
  staging,    \* files with a name in .tg-obs-bot-staging
  stagingDisk,\* files that may have a name there after a power failure
  made,       \* how far each file has come
  storageMu,  \* the handler that holds storageMu
  at,         \* where each handler stands
  upload,     \* each handler's library name and staged file
  running,    \* whether the process has finished its startup sweep
  reported,   \* the file an import reported as stored under each name
  faults,     \* faults so far
  lasting     \* names whose entries are on disk once syncDirectory has
              \* reported success: their file system flushes directories, and
              \* the directory's own entry is on disk

storageVars == <<dir, dirDisk, staging, stagingDisk, made, storageMu, at, upload, running,
                 reported, faults, lasting>>
fsVars == <<dir, dirDisk, staging, stagingDisk, made>>

MaybeFile == Files \cup {Nothing}
NoUpload == [name |-> Nothing, file |-> Nothing]
StorageSteps == {"idle", "lock", "create", "flush", "probe", "link",
                 "unlink", "sync", "rollback", "resync"}
\* What becomes of a file: an outsider's is complete at once, the bot's is
\* copied, flushed and found acceptable by ffprobe and the limits.
Makes == {"unused", "written", "flushed", "checked", "foreign"}

StorageTypeOK ==
  /\ dir \in [Names -> MaybeFile]
  /\ dirDisk \in [Names -> SUBSET MaybeFile]
  /\ staging \subseteq Files
  /\ stagingDisk \subseteq Files
  /\ made \in [Files -> Makes]
  /\ storageMu \in Uploaders \cup {Nothing}
  /\ upload \in [Uploaders -> [name : Names \cup {Nothing}, file : MaybeFile]]
  /\ running \in BOOLEAN
  /\ reported \in [Names -> MaybeFile]
  /\ faults \in 0..MaxFaults
  /\ lasting \subseteq Names

StorageInit ==
  /\ dir = [n \in Names |-> Nothing]
  /\ dirDisk = [n \in Names |-> {Nothing}]
  /\ staging = {}
  /\ stagingDisk = {}
  /\ made = [f \in Files |-> "unused"]
  /\ storageMu = Nothing
  /\ upload = [u \in Uploaders |-> NoUpload]
  /\ running = FALSE
  /\ reported = [n \in Names |-> Nothing]
  /\ faults = 0
  /\ lasting \in SUBSET Names

-----------------------------------------------------------------------------
(* Directory operations.                                                    *)

Show(n, f) ==
  /\ dir' = [dir EXCEPT ![n] = f]
  /\ dirDisk' = [dirDisk EXCEPT ![n] = @ \cup {f}]

Stage(f) ==
  /\ staging' = staging \cup {f}
  /\ stagingDisk' = stagingDisk \cup {f}

Unstage(S) ==
  /\ staging' = staging \ S
  /\ UNCHANGED stagingDisk

\* syncDirectory without an error: whether the entries are on disk then is up to
\* the file system.
Flushed(n, f) == IF n \in lasting THEN {f} ELSE dirDisk[n] \cup {f}

SyncStaging == stagingDisk' \in {staging, stagingDisk}
\* Mutant: only the staging directory is flushed.
SyncLibraryNot == UNCHANGED dirDisk
SyncLibrary == dirDisk' = [n \in Names |-> Flushed(n, dir[n])]

\* A file operation fails, or the process or the machine.
Fault == /\ faults < MaxFaults
         /\ faults' = faults + 1

-----------------------------------------------------------------------------
(* copyOpenedFileAtomicWith, under storageMu.                               *)

Goto(u, step) == at' = [at EXCEPT ![u] = step]

\* The import is over with an error: storageMu is released.
GiveUp(u) ==
  /\ Goto(u, "idle")
  /\ upload' = [upload EXCEPT ![u] = NoUpload]
  /\ storageMu' = Nothing

\* The deferred os.Remove of the staged file; its own failure is ignored.
Discard(u) ==
  \/ /\ Unstage({upload[u].file})
     /\ UNCHANGED faults
  \/ /\ Fault
     /\ UNCHANGED <<staging, stagingDisk>>

\* ImportLibraryUpload with a name that follows the naming rules.
StartImport(u) ==
  /\ running
  /\ at[u] = "idle"
  /\ \E n \in Names : upload' = [upload EXCEPT ![u].name = n]
  /\ Goto(u, "lock")
  /\ UNCHANGED <<fsVars, storageMu, running, reported, faults>>

\* The handler takes storageMu, and its library name is still free.
Admit(u) ==
  /\ at[u] = "lock"
  /\ storageMu = Nothing
  /\ dir[upload[u].name] = Nothing
  /\ storageMu' = u
  /\ Goto(u, "create")
  /\ UNCHANGED <<fsVars, upload, running, reported, faults>>

\* The name is in use or the directory has no room for another entry: both are
\* checked under storageMu.  How full a directory is is an input.
RefuseImport(u) ==
  /\ at[u] = "lock"
  /\ storageMu = Nothing
  /\ GiveUp(u)
  /\ UNCHANGED <<fsVars, running, reported, faults>>

\* The temporary file is there from its creation on, whole or not.
CreateTemp(u) ==
  /\ at[u] = "create"
  /\ \E f \in Files :
       /\ made[f] = "unused"
       /\ made' = [made EXCEPT ![f] = "written"]
       /\ Stage(f)
       /\ upload' = [upload EXCEPT ![u].file = f]
  /\ Goto(u, "flush")
  /\ UNCHANGED <<dir, dirDisk, storageMu, running, reported, faults>>

\* Creating, copying, flushing, probing and linking can each fail (write
\* errors, a source that changes or is too big, cancellation, a file ffprobe
\* rejects, a library name taken meanwhile) and leave nothing in the library.
StepFails(u) ==
  /\ at[u] \in {"create", "flush", "probe", "link"}
  /\ Discard(u)
  /\ GiveUp(u)
  /\ UNCHANGED <<dir, dirDisk, made, running, reported>>

\* The copy is complete: its mode is set and the file is flushed.
FlushFile(u) ==
  /\ at[u] = "flush"
  /\ made' = [made EXCEPT ![upload[u].file] = "flushed"]
  /\ Goto(u, "probe")
  /\ UNCHANGED <<dir, dirDisk, staging, stagingDisk, storageMu,
                 upload, running, reported, faults>>

ProbeStaged(u) ==
  /\ at[u] = "probe"
  /\ made' = [made EXCEPT ![upload[u].file] = "checked"]
  /\ Goto(u, "link")
  /\ UNCHANGED <<dir, dirDisk, staging, stagingDisk, storageMu, upload, running,
                 reported, faults>>

\* publishFileNoReplace: os.Link is the publication; a name in use refuses it.
Link(u) ==
  LET n == upload[u].name IN
  /\ at[u] = "link"
  /\ dir[n] = Nothing
  /\ Show(n, upload[u].file)
  /\ Goto(u, "unlink")
  /\ UNCHANGED <<staging, stagingDisk, made, storageMu, upload,
                 running, reported, faults>>

UnlinkStaged(u) ==
  /\ at[u] = "unlink"
  /\ Unstage({upload[u].file})
  /\ Goto(u, "sync")
  /\ UNCHANGED <<dir, dirDisk, made, storageMu, upload, running, reported, faults>>

\* The staging name cannot be removed: the library name is taken back, which
\* may fail as well, and the deferred os.Remove tries again.
UnlinkFails(u) ==
  /\ at[u] = "unlink"
  /\ Fault
  /\ \/ Show(upload[u].name, Nothing)
     \/ UNCHANGED <<dir, dirDisk>>
  /\ \/ Unstage({upload[u].file})
     \/ UNCHANGED <<staging, stagingDisk>>
  /\ GiveUp(u)
  /\ UNCHANGED <<made, running, reported>>

\* Both directories report that they are flushed: the import is reported as stored, and its
\* handler goes on to scan the library.
SyncDirs(u) ==
  /\ at[u] = "sync"
  /\ SyncStaging
  /\ SyncLibrary
  /\ storageMu' = Nothing
  /\ Goto(u, "gate")
  /\ reported' = [reported EXCEPT ![upload[u].name] = upload[u].file]
  /\ UNCHANGED <<dir, staging, made, upload, running, faults>>

\* syncDirectories tries both and reports either failure.
SyncSome ==
  \/ SyncStaging /\ UNCHANGED dirDisk
  \/ SyncLibrary /\ UNCHANGED stagingDisk
  \/ UNCHANGED <<dirDisk, stagingDisk>>

SyncFails(u) ==
  /\ at[u] = "sync"
  /\ Fault
  /\ SyncSome
  /\ Goto(u, "rollback")
  /\ UNCHANGED <<dir, staging, made, storageMu, upload, running, reported>>

\* The library name is taken back and both directories are flushed again, as
\* far as either works; both may go on failing.
Rollback(u) ==
  /\ at[u] = "rollback"
  /\ Show(upload[u].name, Nothing) \/ UNCHANGED <<dir, dirDisk>>
  /\ Goto(u, "resync")
  /\ UNCHANGED <<staging, stagingDisk, made, storageMu, upload, running,
                 reported, faults>>

Resync(u) ==
  /\ at[u] = "resync"
  /\ SyncSome \/ (SyncStaging /\ SyncLibrary)
  /\ GiveUp(u)
  /\ UNCHANGED <<dir, staging, made, running, reported, faults>>

Store(u) ==
  \/ Admit(u) \/ RefuseImport(u) \/ CreateTemp(u) \/ FlushFile(u) \/ ProbeStaged(u)
  \/ StepFails(u) \/ Link(u) \/ UnlinkStaged(u) \/ UnlinkFails(u)
  \/ SyncDirs(u) \/ SyncFails(u) \/ Rollback(u) \/ Resync(u)

-----------------------------------------------------------------------------
(* The sweep of interrupted imports.                                        *)

\* What one pass may remove: it reads at most SweepBatch entries, in no
\* particular order, and spares those younger than staleLibraryImportAge.  A
\* removal that fails leaves its entry to a later pass.
Sweepable == {S \in SUBSET staging : Cardinality(S) <= SweepBatch}

SweepPass ==
  /\ \E gone \in Sweepable : Unstage(gone)
  /\ UNCHANGED <<dir, dirDisk, made, faults>>

\* recoverStartupState, before any worker starts; a failure ends the process.
Boot ==
  /\ ~running
  /\ SweepPass
  /\ running' \in BOOLEAN
  /\ UNCHANGED <<storageMu, at, upload, reported>>

\* trySweepStaleLibraryImportTemps: deferred while an import holds the lock.
MaintenanceSweep ==
  /\ running
  /\ storageMu = Nothing
  /\ SweepPass
  /\ UNCHANGED <<storageMu, at, upload, running, reported>>

-----------------------------------------------------------------------------
(* Outsiders and crashes.                                                   *)

\* Names a handler has published and not yet confirmed or taken back.
InPublication == {upload[u].name : u \in {v \in Uploaders :
                                            at[v] \in {"unlink", "sync", "rollback", "resync"}}}

\* Somebody puts a new file under a name, over another or not, or removes it,
\* and flushes the directory.  Nobody does so to a name just being published.
Changed(n, f) ==
  /\ n \notin InPublication
  /\ dir' = [dir EXCEPT ![n] = f]
  /\ dirDisk' = [dirDisk EXCEPT ![n] = Flushed(n, f)]
  /\ reported' = [reported EXCEPT ![n] = Nothing]
  /\ UNCHANGED <<staging, stagingDisk, storageMu, at, upload, running, faults>>

OutsiderPuts(n, f) ==
  /\ made[f] = "unused"
  /\ made' = [made EXCEPT ![f] = "foreign"]
  /\ Changed(n, f)

OutsiderRemoves(n) ==
  /\ dir[n] # Nothing
  /\ Changed(n, Nothing)
  /\ UNCHANGED made

\* The process dies; with a power failure every entry falls back to one of the
\* states its directory may have on disk.
ProcessLost ==
  /\ running
  /\ Fault
  /\ running' = FALSE
  /\ storageMu' = Nothing
  /\ upload' = [u \in Uploaders |-> NoUpload]
  /\ UNCHANGED made

DiskKept == UNCHANGED <<dir, dirDisk, staging, stagingDisk, reported>>

DiskFallsBack ==
  /\ dir' \in [Names -> MaybeFile]
  /\ \A n \in Names : dir'[n] \in dirDisk[n]
  /\ staging' \in SUBSET stagingDisk
  /\ dirDisk' = [n \in Names |-> {dir'[n]}]
  /\ stagingDisk' = staging'
  /\ UNCHANGED reported

=============================================================================
