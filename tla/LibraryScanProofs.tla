-------------------------- MODULE LibraryScanProofs --------------------------
(***************************************************************************)
(* Proofs about LibraryScan, for any number of names, files, uploaders and *)
(* scanners:                                                               *)
(*   - scans take turns (Turns): a step that moves a process between two   *)
(*     places where it holds no gate, or between two where it does, keeps  *)
(*     it (StaysOutside, StaysInside); the other steps are taking the      *)
(*     gate, returning, and losing the process;                            *)
(*   - what the library shows is whole, and what is reported stays         *)
(*     (StorageInv): where each upload is (Hand, Apart), what each name    *)
(*     shows now and on disk (Shelf), and that what it shows has been put  *)
(*     there already and is in no handler's hand any more (Spent);         *)
(*   - verdicts belong to the files they were reached on (VerdictInv),     *)
(*     since a spent file that has left a name never shows again           *)
(*     (NoneReturns);                                                      *)
(*   - reported imports are in the snapshot (ShowInv): the scan under way  *)
(*     has seen every one of them.                                         *)
(***************************************************************************)
EXTENDS LibraryScan, TLAPS

Places == StorageSteps \cup ScanSteps
\* Where a scan holds the gate, and where a process does not.
Holding == ScanSteps \ {"gate"}
Outside == StorageSteps \cup {"gate"}

Turns ==
  /\ at \in [Procs -> Places]
  /\ ScansTakeTurns

-----------------------------------------------------------------------------

LEMMA PlacesSplit ==
  /\ Places = Outside \cup Holding
  /\ Outside \cap Holding = {}
  /\ \A p \in Procs : p # Nothing
<1>1. Places = Outside \cup Holding /\ Outside \cap Holding = {}
  BY DEF Places, Outside, Holding, StorageSteps, ScanSteps
<1>2. \A p \in Procs : p # Nothing
  BY StorageAssumption, ScanAssumption DEF Procs
<1> QED
  BY <1>1, <1>2

LEMMA TurnsStart == Init => Turns
  BY PlacesSplit DEF Init, Turns, ScansTakeTurns, Places, StorageSteps, ScanSteps

LEMMA StaysOutside ==
  ASSUME Turns, NEW p \in Procs, NEW step \in Outside,
         at[p] \in Outside, Goto(p, step), scanGate' = scanGate
  PROVE  Turns'
  BY PlacesSplit DEF Turns, ScansTakeTurns, Goto, Holding

LEMMA StaysInside ==
  ASSUME Turns, NEW p \in Procs, NEW step \in Holding,
         at[p] \in Holding, Goto(p, step), scanGate' = scanGate
  PROVE  Turns'
  BY PlacesSplit DEF Turns, ScansTakeTurns, Goto, Holding

\* Whoever returns held the gate, and nobody does afterwards.
LEMMA Returns ==
  ASSUME Turns, NEW p \in Procs, at[p] \in Holding, Return(p)
  PROVE  Turns'
<1>1. "idle" \in Outside /\ "idle" \in Places
  BY DEF Outside, Places, StorageSteps
<1> QED
  BY <1>1, PlacesSplit DEF Turns, ScansTakeTurns, Return, Goto, Holding

LEMMA Keeps ==
  ASSUME Turns, UNCHANGED <<at, scanGate>>
  PROVE  Turns'
  BY DEF Turns, ScansTakeTurns

-----------------------------------------------------------------------------
(* The steps of an import hold no gate.                                     *)

LEMMA TurnsFile ==
  ASSUME Turns, NEW u \in Uploaders, StartImport(u) \/ Store(u), UNCHANGED scanVars
  PROVE  Turns'
<1>1. u \in Procs /\ scanGate' = scanGate
  BY DEF Procs, scanVars
<1>2. at[u] \in Outside
  BY DEF StartImport, Store, Admit, RefuseImport, CreateTemp, FlushFile, ProbeStaged,
         StepFails, Link, UnlinkStaged, UnlinkFails, SyncDirs, SyncFails, Rollback, Resync,
         Outside, StorageSteps
<1>3. PICK step \in Outside : Goto(u, step)
  <2>1. CASE StartImport(u) \/ Admit(u) \/ CreateTemp(u) \/ FlushFile(u) \/ ProbeStaged(u)
             \/ Link(u) \/ UnlinkStaged(u)
    BY <2>1 DEF StartImport, Admit, CreateTemp, FlushFile, ProbeStaged, Link, UnlinkStaged,
                Outside, StorageSteps
  <2>2. CASE RefuseImport(u) \/ StepFails(u) \/ UnlinkFails(u) \/ Resync(u)
    BY <2>2 DEF RefuseImport, StepFails, UnlinkFails, Resync, GiveUp, Outside, StorageSteps
  <2>3. CASE SyncDirs(u) \/ SyncFails(u) \/ Rollback(u)
    BY <2>3 DEF SyncDirs, SyncFails, Rollback, Outside, StorageSteps
  <2> QED
    BY <2>1, <2>2, <2>3 DEF Store
<1> QED
  BY <1>1, <1>2, <1>3, StaysOutside

LEMMA TurnsScan ==
  ASSUME Turns, NEW p \in Procs, Scan(p)
  PROVE  Turns'
<1>1. CASE AcquireGate(p)
  <2>1. scanGate = Nothing /\ scanGate' = p /\ Goto(p, "list")
    BY <1>1 DEF AcquireGate
  <2>2. "list" \in Holding /\ "list" \in Places
    BY DEF Holding, Places, ScanSteps
  <2> QED
    BY <2>1, <2>2, PlacesSplit DEF Turns, ScansTakeTurns, Goto, Holding
<1>2. CASE GateCancelled(p)
  <2>1. at[p] \in Outside /\ "idle" \in Outside
    BY <1>2 DEF GateCancelled, Outside, StorageSteps
  <2> QED
    BY <1>2, <2>1, StaysOutside DEF GateCancelled, scanVars
<1>3. CASE List(p) \/ Recall(p) \/ Restamp(p)
  <2>1. /\ at[p] \in Holding /\ scanGate' = scanGate
        /\ \E step \in Holding : Goto(p, step)
    BY <1>3 DEF List, Recall, Restamp, Holding, ScanSteps
  <2> QED
    BY <2>1, StaysInside
<1>4. CASE ChooseAsset(p) \/ ProbeAsset(p)
  <2>1. /\ at[p] \in Holding /\ scanGate' = scanGate
        /\ UNCHANGED at \/ \E step \in Holding : Goto(p, step)
    BY <1>4 DEF ChooseAsset, ProbeAsset, Holding, ScanSteps
  <2> QED
    BY <2>1, StaysInside, Keeps
<1>5. CASE Publish(p) \/ ScanFails(p)
  <2>1. at[p] \in Holding /\ Return(p)
    BY <1>5 DEF Publish, ScanFails, Holding, ScanSteps
  <2> QED
    BY <2>1, Returns
<1> QED
  BY <1>1, <1>2, <1>3, <1>4, <1>5 DEF Scan

LEMMA TurnsStep ==
  ASSUME Turns, [Next]_vars
  PROVE  Turns'
<1>1. CASE FileStep /\ UNCHANGED scanVars
  <2>1. CASE Boot \/ MaintenanceSweep
    BY <1>1, <2>1, Keeps DEF Boot, MaintenanceSweep, scanVars
  <2> QED
    BY <1>1, <2>1, TurnsFile DEF FileStep
<1>2. CASE ScanStep
  <2>1. ASSUME NEW p \in Scanners, StartScan(p)
        PROVE  Turns'
    <3>1. p \in Procs /\ at[p] \in Outside /\ "gate" \in Outside
      BY <2>1 DEF StartScan, Procs, Outside, StorageSteps
    <3> QED
      BY <2>1, <3>1, StaysOutside DEF StartScan, scanVars
  <2>2. CASE ProbePlayed \/ RestampPlayed \/ CondemnPlayed
    BY <2>2, Keeps DEF ProbePlayed, RestampPlayed, CondemnPlayed
  <2>3. ASSUME NEW n \in Names, EnsurePlayable(n) \/ ObsRejects(n)
        PROVE  Turns'
    BY <2>3, Keeps DEF EnsurePlayable, ObsRejects
  <2> QED
    BY <1>2, <2>1, <2>2, <2>3, TurnsScan DEF ScanStep
<1>3. ASSUME NEW n \in Names, OutsiderActs(n)
      PROVE  Turns'
  BY <1>3, Keeps DEF OutsiderActs, OutsiderRemoves, OutsiderPuts, Changed
<1>4. CASE Crash \/ PowerFails
  <2>1. Forget
    BY <1>4 DEF Crash, PowerFails
  <2> QED
    BY <2>1, PlacesSplit DEF Forget, Turns, ScansTakeTurns, Places, StorageSteps, ScanSteps
<1>5. CASE UNCHANGED vars
  BY <1>5, Keeps DEF vars, storageVars, scanVars
<1> QED
  BY <1>1, <1>2, <1>3, <1>4, <1>5 DEF Next

\* Scans take turns: libraryScanGate is held exactly by the scan under way, and
\* every path out of a scan, failed or cancelled, gives it back
\* (scanLibraryWithProgress, releaseLibraryScan).
THEOREM TurnsAreTaken == Spec => []ScansTakeTurns
<1>1. Turns => ScansTakeTurns
  BY DEF Turns
<1> QED
  BY <1>1, TurnsStart, TurnsStep, PTL DEF Spec

-----------------------------------------------------------------------------
(* The storage.  storageMu serialises the imports, so that a handler's file *)
(* is in no other hand, and a file that has left a library name never comes *)
(* back to one (Spent).                                                     *)

Critical   == {"create", "flush", "probe", "link", "unlink", "sync", "rollback", "resync"}
Raw        == {"flush", "probe", "link"}
Publishing == {"unlink", "sync", "rollback", "resync"}

\* A file that no handler can link any more.
Spent(f) == made[f] # "unused" /\ \A u \in Uploaders : at[u] \in Raw => upload[u].file # f

\* A handler's upload at each place of its import.
Hand(u) ==
  /\ at[u] \in Critical <=> storageMu = u
  /\ at[u] # "idle" => upload[u].name \in Names
  /\ upload[u].file = Nothing <=> at[u] \in {"idle", "lock", "create"}
  /\ at[u] = "flush" => made[upload[u].file] = "written"
  /\ at[u] = "probe" => made[upload[u].file] = "flushed"
  /\ at[u] = "link"  => made[upload[u].file] = "checked"
  /\ at[u] \in {"unlink", "sync"} => dir[upload[u].name] = upload[u].file
  /\ at[u] \in {"rollback", "resync"} => dir[upload[u].name] \in {upload[u].file, Nothing}
  /\ at[u] \in Publishing /\ upload[u].name \in lasting => reported[upload[u].name] = Nothing
  /\ at[u] \notin Raw /\ upload[u].file # Nothing => Spent(upload[u].file)

\* No two handlers have one file.
Apart ==
  \A u, v \in Uploaders : u # v /\ upload[u].file = upload[v].file => upload[u].file = Nothing

\* The library as it is and as a power failure may leave it.
Shelf(n) ==
  /\ dir[n] \in dirDisk[n]
  /\ dir[n] # Nothing => Spent(dir[n])
  /\ \A f \in dirDisk[n] \ {Nothing} : made[f] \in {"checked", "foreign"}
  /\ n \in lasting /\ reported[n] # Nothing => dir[n] = reported[n] /\ dirDisk[n] = {dir[n]}

StorageInv ==
  /\ Turns /\ StorageTypeOK /\ Apart
  /\ \A u \in Uploaders : Hand(u)
  /\ \A n \in Names : Shelf(n)

\* What a step of a handler leaves of the others.
Neighbours(u) ==
  /\ storageMu \in {u, Nothing} /\ storageMu' \in {u, Nothing}
  /\ \A v \in Uploaders \ {u} : at'[v] = at[v] /\ upload'[v] = upload[v] /\ at[v] \notin Critical

LEMMA Handlers ==
  ASSUME StorageInv, NEW u \in Uploaders
  PROVE  /\ u \in Procs /\ u # Nothing /\ at[u] \in Places /\ Hand(u)
         /\ upload[u].name \in Names \cup {Nothing} /\ upload[u].file \in MaybeFile
         /\ at[u] \in Critical => storageMu = u
         /\ at[u] \notin {"idle", "lock", "create"} => upload[u].file \in Files
         /\ Raw \subseteq Critical /\ Publishing \subseteq Critical
<1>1. u \in Procs /\ u # Nothing
  BY StorageAssumption DEF Procs
<1>2. at[u] \in Places /\ upload[u] \in [name : Names \cup {Nothing}, file : MaybeFile] /\ Hand(u)
  BY <1>1 DEF StorageInv, Turns, StorageTypeOK
<1>3. Raw \subseteq Critical /\ Publishing \subseteq Critical
  BY DEF Raw, Publishing, Critical
<1> QED
  BY <1>1, <1>2, <1>3 DEF Hand, MaybeFile

LEMMA StoreNeighbours ==
  ASSUME StorageInv, NEW u \in Uploaders, Store(u)
  PROVE  Neighbours(u)
<1>1. storageMu \in {u, Nothing}
  <2>1. CASE Admit(u) \/ RefuseImport(u)
    BY <2>1 DEF Admit, RefuseImport
  <2>2. CASE ~(Admit(u) \/ RefuseImport(u))
    <3>1. at[u] \in Critical
      BY <2>2 DEF Store, CreateTemp, FlushFile, ProbeStaged, StepFails, Link, UnlinkStaged, UnlinkFails,
                  SyncDirs, SyncFails, Rollback, Resync, Critical
    <3> QED
      BY <3>1, Handlers
  <2> QED
    BY <2>1, <2>2
<1>2. storageMu' \in {u, Nothing}
  BY <1>1 DEF Store, Admit, RefuseImport, CreateTemp, FlushFile, ProbeStaged, StepFails, Link,
              UnlinkStaged, UnlinkFails, SyncDirs, SyncFails, Rollback, Resync, GiveUp
<1>3. \A v \in Uploaders \ {u} : at[v] \notin Critical
  BY <1>1, Handlers
<1>4. /\ \E step \in Places : Goto(u, step)
      /\ upload' = upload \/ \E x : upload' = [upload EXCEPT ![u] = x]
  <2>1. CASE Admit(u) \/ RefuseImport(u) \/ FlushFile(u) \/ ProbeStaged(u) \/ StepFails(u) \/ Link(u)
             \/ UnlinkStaged(u) \/ UnlinkFails(u)
    BY <2>1 DEF Admit, RefuseImport, FlushFile, ProbeStaged, StepFails, Link, UnlinkStaged,
                UnlinkFails, GiveUp, Places, StorageSteps
  <2>2. CASE SyncDirs(u) \/ SyncFails(u) \/ Rollback(u) \/ Resync(u)
    BY <2>2 DEF SyncDirs, SyncFails, Rollback, Resync, GiveUp, Places, StorageSteps, ScanSteps
  <2>3. CASE CreateTemp(u)
    <3>1. PICK f \in Files : upload' = [upload EXCEPT ![u].file = f]
      BY <2>3 DEF CreateTemp
    <3> QED
      BY <2>3, <3>1 DEF CreateTemp, Places, StorageSteps
  <2> QED
    BY <2>1, <2>2, <2>3 DEF Store
<1>5. \A v \in Uploaders \ {u} : at'[v] = at[v] /\ upload'[v] = upload[v]
  BY <1>4, Handlers DEF StorageInv, Turns, StorageTypeOK, Goto
<1> QED
  BY <1>1, <1>2, <1>3, <1>5 DEF Neighbours

\* Whoever is spent stays so.
LEMMA SpentByStore ==
  ASSUME StorageInv, NEW u \in Uploaders, Store(u), NEW f \in Files, Spent(f)
  PROVE  Spent(f)'
<1>1. /\ \A v \in Uploaders \ {u} : at'[v] \notin Raw
      /\ made[f] # "unused" /\ (at[u] \in Raw => upload[u].file # f)
      /\ u \in Procs /\ at \in [Procs -> Places] /\ made \in [Files -> Makes]
      /\ upload \in [Uploaders -> [name : Names \cup {Nothing}, file : MaybeFile]]
  BY StoreNeighbours, Handlers DEF Neighbours, Spent, StorageInv, Turns, StorageTypeOK
<1>2. CASE CreateTemp(u)
  <2>1. PICK g \in Files : /\ made[g] = "unused" /\ made' = [made EXCEPT ![g] = "written"]
                           /\ upload' = [upload EXCEPT ![u].file = g]
    BY <1>2 DEF CreateTemp
  <2>2. g # f /\ made'[f] = made[f] /\ upload'[u].file = g
    BY <1>1, <2>1
  <2> QED
    BY <1>1, <2>2 DEF Spent
<1>3. CASE FlushFile(u) \/ ProbeStaged(u)
  <2>1. at[u] \in Raw /\ made'[f] = made[f] /\ upload' = upload
    BY <1>1, <1>3 DEF FlushFile, ProbeStaged, Raw
  <2> QED
    BY <1>1, <2>1 DEF Spent
<1>4. CASE ~(CreateTemp(u) \/ FlushFile(u) \/ ProbeStaged(u))
  <2>1. made' = made
    BY <1>4 DEF Store, Admit, RefuseImport, StepFails, Link, UnlinkStaged, UnlinkFails, SyncDirs,
                SyncFails, Rollback, Resync, fsVars
  <2>2. at'[u] \notin Raw
    BY <1>1, <1>4 DEF Store, Admit, RefuseImport, StepFails, Link, UnlinkStaged, UnlinkFails, SyncDirs,
                      SyncFails, Rollback, Resync, GiveUp, Goto, Raw
  <2> QED
    BY <1>1, <2>1, <2>2 DEF Spent
<1> QED
  BY <1>2, <1>3, <1>4

\* The other handlers' uploads.
LEMMA NeighboursHands ==
  ASSUME StorageInv, NEW u \in Uploaders, Neighbours(u), NEW v \in Uploaders \ {u},
         \A f \in Files : Spent(f) => Spent(f)'
  PROVE  Hand(v)'
<1>1. at'[v] = at[v] /\ upload'[v] = upload[v] /\ at[v] \notin Critical /\ storageMu' # v
  BY Handlers DEF Neighbours
<1>2. at[v] \notin {"flush", "probe", "link", "unlink", "sync", "rollback", "resync"}
      /\ at[v] \notin Publishing
  BY <1>1 DEF Critical, Publishing
<1>3. at'[v] \notin Raw /\ upload'[v].file # Nothing => Spent(upload[v].file)'
  <2>1. CASE upload'[v].file # Nothing
    <3>1. PICK f \in Files : f = upload[v].file /\ Spent(f)
      BY <1>1, <1>2, <2>1, Handlers DEF Hand, Raw, MaybeFile
    <3>2. Spent(f)' /\ upload'[v].file = f
      BY <1>1, <3>1
    <3> QED
      BY <3>2 DEF Spent
  <2> QED
    BY <2>1
<1>4. Hand(v)
  BY Handlers
<1> QED
  BY <1>1, <1>2, <1>3, <1>4 DEF Hand

\* A handler's own upload.
LEMMA OwnHand ==
  ASSUME StorageInv, NEW u \in Uploaders, Store(u), UNCHANGED lasting
  PROVE  Hand(u)'
<1>0. /\ Hand(u) /\ at \in [Procs -> Places] /\ u \in Procs /\ u # Nothing
      /\ upload \in [Uploaders -> [name : Names \cup {Nothing}, file : MaybeFile]]
      /\ made \in [Files -> Makes] /\ dir \in [Names -> MaybeFile]
      /\ upload[u].file \in MaybeFile
      /\ \A f \in Files : Spent(f) => Spent(f)'
      /\ Nothing \notin Files
  BY Handlers, SpentByStore, StorageAssumption DEF StorageInv, Turns, StorageTypeOK
<1> USE DEF Critical, Raw, Publishing, Goto, MaybeFile
<1>1. CASE Admit(u)
  <2>1. at'[u] = "create" /\ at[u] = "lock" /\ upload' = upload /\ storageMu' = u
    BY <1>0, <1>1 DEF Admit
  <2> QED
    BY <1>0, <2>1 DEF Hand
<1>2. CASE RefuseImport(u) \/ StepFails(u) \/ UnlinkFails(u) \/ Resync(u)
  <2>1. at'[u] = "idle" /\ upload'[u] = NoUpload /\ storageMu' = Nothing
    BY <1>0, <1>2 DEF RefuseImport, StepFails, UnlinkFails, Resync, GiveUp
  <2> QED
    BY <1>0, <2>1 DEF Hand, NoUpload
<1>3. CASE CreateTemp(u)
  <2>1. PICK g \in Files : /\ made[g] = "unused" /\ made' = [made EXCEPT ![g] = "written"]
                           /\ upload' = [upload EXCEPT ![u].file = g]
    BY <1>3 DEF CreateTemp
  <2>2. at'[u] = "flush" /\ at[u] = "create" /\ upload'[u].file = g /\ upload'[u].name = upload[u].name
        /\ storageMu' = storageMu /\ made'[g] = "written"
    BY <1>0, <1>3, <2>1 DEF CreateTemp
  <2> QED
    BY <1>0, <2>1, <2>2 DEF Hand
<1>4. CASE FlushFile(u)
  <2>1. at'[u] = "probe" /\ at[u] = "flush" /\ upload' = upload /\ storageMu' = storageMu
        /\ upload[u].file \in Files /\ made' = [made EXCEPT ![upload[u].file] = "flushed"]
    BY <1>0, <1>4 DEF FlushFile, Hand
  <2> QED
    BY <1>0, <2>1 DEF Hand
<1>5. CASE ProbeStaged(u)
  <2>1. at'[u] = "link" /\ at[u] = "probe" /\ upload' = upload /\ storageMu' = storageMu
        /\ upload[u].file \in Files /\ made' = [made EXCEPT ![upload[u].file] = "checked"]
    BY <1>0, <1>5 DEF ProbeStaged, Hand
  <2> QED
    BY <1>0, <2>1 DEF Hand
<1>6. CASE Link(u)
  <2>1. /\ at'[u] = "unlink" /\ at[u] = "link" /\ upload' = upload /\ storageMu' = storageMu
        /\ upload[u].file \in Files /\ upload[u].name \in Names /\ made' = made /\ reported' = reported
        /\ dir[upload[u].name] = Nothing /\ dir' = [dir EXCEPT ![upload[u].name] = upload[u].file]
    BY <1>0, <1>6 DEF Link, Show, Hand
  <2>2. upload[u].name \in lasting => reported[upload[u].name] = Nothing
    BY <2>1 DEF StorageInv, Shelf
  <2>3. Spent(upload[u].file)'
    <3>1. \A v \in Uploaders \ {u} : at'[v] \notin Raw
      BY <1>6, StoreNeighbours DEF Neighbours, Store
    <3> QED
      BY <1>0, <2>1, <3>1 DEF Spent, Hand
  <2> QED
    BY <1>0, <2>1, <2>2, <2>3 DEF Hand
<1>7. CASE UnlinkStaged(u)
  <2>1. at'[u] = "sync" /\ at[u] = "unlink" /\ UNCHANGED <<upload, storageMu, dir, reported>>
        /\ upload[u].file \in Files
    BY <1>0, <1>7 DEF UnlinkStaged, Hand
  <2> QED
    BY <1>0, <2>1 DEF Hand
<1>8. CASE SyncDirs(u)
  <2>1. at'[u] = "gate" /\ at[u] = "sync" /\ upload' = upload /\ storageMu' = Nothing
        /\ upload[u].file \in Files
    BY <1>0, <1>8 DEF SyncDirs, Hand
  <2> QED
    BY <1>0, <2>1 DEF Hand
<1>9. CASE SyncFails(u)
  <2>1. at'[u] = "rollback" /\ at[u] = "sync" /\ UNCHANGED <<upload, storageMu, dir, reported>>
        /\ upload[u].file \in Files
    BY <1>0, <1>9 DEF SyncFails, Hand
  <2> QED
    BY <1>0, <2>1 DEF Hand
<1>10. CASE Rollback(u)
  <2>1. at'[u] = "resync" /\ at[u] = "rollback" /\ UNCHANGED <<upload, storageMu, reported>>
        /\ upload[u].file \in Files /\ upload[u].name \in Names
        /\ (dir' = dir \/ dir' = [dir EXCEPT ![upload[u].name] = Nothing])
    BY <1>0, <1>10 DEF Rollback, Show, Hand
  <2>2. dir'[upload[u].name] \in {dir[upload[u].name], Nothing}
    BY <1>0, <2>1
  <2> QED
    BY <1>0, <2>1, <2>2 DEF Hand
<1> QED
  BY <1>1, <1>2, <1>3, <1>4, <1>5, <1>6, <1>7, <1>8, <1>9, <1>10 DEF Store

\* No file comes into two hands.
LEMMA ApartStore ==
  ASSUME StorageInv, NEW u \in Uploaders, Store(u)
  PROVE  Apart'
<1>0. /\ upload \in [Uploaders -> [name : Names \cup {Nothing}, file : MaybeFile]]
      /\ Apart /\ \A v \in Uploaders : upload[v].file # Nothing => made[upload[v].file] # "unused"
  <2>1. ASSUME NEW v \in Uploaders, upload[v].file # Nothing PROVE made[upload[v].file] # "unused"
    <3>1. CASE at[v] \in Raw
      BY <3>1, Handlers DEF Hand, Raw
    <3>2. CASE at[v] \notin Raw
      BY <2>1, <3>2, Handlers DEF Hand, Spent
    <3> QED
      BY <3>1, <3>2
  <2> QED
    BY <2>1 DEF StorageInv, StorageTypeOK
<1>1. CASE CreateTemp(u)
  <2>1. PICK g \in Files : made[g] = "unused" /\ upload' = [upload EXCEPT ![u].file = g]
    BY <1>1 DEF CreateTemp
  <2>2. upload'[u].file = g /\ \A v \in Uploaders \ {u} : upload'[v] = upload[v] /\ upload[v].file # g
    BY <1>0, <2>1, StorageAssumption
  <2> QED
    BY <1>0, <2>2 DEF Apart
<1>2. CASE upload' \in {upload, [upload EXCEPT ![u] = NoUpload]}
  BY <1>0, <1>2 DEF Apart, NoUpload
<1> QED
  BY <1>1, <1>2 DEF Store, Admit, RefuseImport, FlushFile, ProbeStaged, StepFails, Link, UnlinkStaged,
                    UnlinkFails, SyncDirs, SyncFails, Rollback, Resync, GiveUp

\* What an entry may be on disk after a flush: what it was, or what it shows.
LEMMA FlushedType ==
  ASSUME StorageTypeOK, NEW n \in Names, NEW f \in MaybeFile
  PROVE  Flushed(n, f) \subseteq MaybeFile /\ Flushed(n, f) \in {{f}, dirDisk[n] \cup {f}}
BY DEF Flushed, StorageTypeOK

LEMMA TypeStore ==
  ASSUME StorageInv, NEW u \in Uploaders, Store(u), UNCHANGED lasting
  PROVE  StorageTypeOK'
<1>0. /\ StorageTypeOK /\ Hand(u) /\ Nothing \notin Files
      /\ NoUpload \in [name : Names \cup {Nothing}, file : MaybeFile]
  BY Handlers, StorageAssumption DEF StorageInv, NoUpload, MaybeFile
<1>1. CASE Admit(u) \/ RefuseImport(u)
  BY <1>0, <1>1 DEF StorageTypeOK, Admit, RefuseImport, GiveUp, fsVars
<1>2. CASE CreateTemp(u)
  <2>1. PICK f \in Files : made' = [made EXCEPT ![f] = "written"] /\ Stage(f)
                           /\ upload' = [upload EXCEPT ![u].file = f]
    BY <1>2 DEF CreateTemp
  <2>2. upload' \in [Uploaders -> [name : Names \cup {Nothing}, file : MaybeFile]]
    BY <1>0, <2>1 DEF StorageTypeOK, MaybeFile
  <2>3. made' \in [Files -> Makes] /\ staging' \subseteq Files /\ stagingDisk' \subseteq Files
    BY <1>0, <2>1 DEF StorageTypeOK, Makes, Stage
  <2> QED
    BY <1>0, <1>2, <2>2, <2>3 DEF StorageTypeOK, CreateTemp
<1>3. CASE FlushFile(u) \/ ProbeStaged(u)
  BY <1>0, <1>3 DEF StorageTypeOK, FlushFile, ProbeStaged, Makes
<1>4. CASE StepFails(u)
  <2>1. staging' \subseteq Files /\ stagingDisk' \subseteq Files /\ faults' \in 0..MaxFaults
    BY <1>0, <1>4, StorageAssumption DEF StorageTypeOK, StepFails, Discard, Unstage, Fault
  <2> QED
    BY <1>0, <1>4, <2>1 DEF StorageTypeOK, StepFails, GiveUp
<1>5. CASE Link(u) \/ Rollback(u)
  <2>1. upload[u].name \in Names /\ upload[u].file \in MaybeFile
    BY <1>5, Handlers DEF Hand, Link, Rollback
  <2>2. dir' \in [Names -> MaybeFile] /\ dirDisk' \in [Names -> SUBSET MaybeFile]
    BY <1>0, <1>5, <2>1 DEF StorageTypeOK, Link, Rollback, Show, MaybeFile
  <2> QED
    BY <1>0, <1>5, <2>2 DEF StorageTypeOK, Link, Rollback
<1>6. CASE UnlinkStaged(u)
  BY <1>0, <1>6 DEF StorageTypeOK, UnlinkStaged, Unstage
<1>7. CASE UnlinkFails(u)
  <2>1. dir' \in [Names -> MaybeFile] /\ dirDisk' \in [Names -> SUBSET MaybeFile]
    BY <1>0, <1>7 DEF StorageTypeOK, UnlinkFails, Show, MaybeFile
  <2>2. staging' \subseteq Files /\ stagingDisk' \subseteq Files /\ faults' \in 0..MaxFaults
    BY <1>0, <1>7, StorageAssumption DEF StorageTypeOK, UnlinkFails, Unstage, Fault
  <2> QED
    BY <1>0, <1>7, <2>1, <2>2 DEF StorageTypeOK, UnlinkFails, GiveUp
<1>8. CASE SyncDirs(u)
  <2>1. reported' \in [Names -> MaybeFile]
    BY <1>0, <1>8, Handlers DEF StorageTypeOK, SyncDirs
  <2>2. dirDisk' \in [Names -> SUBSET MaybeFile] /\ stagingDisk' \subseteq Files
    BY <1>0, <1>8, FlushedType DEF SyncDirs, SyncLibrary, SyncStaging, StorageTypeOK
  <2> QED
    BY <1>0, <1>8, <2>1, <2>2 DEF StorageTypeOK, SyncDirs
<1>9. CASE SyncFails(u) \/ Resync(u)
  <2>1. dirDisk' \in [Names -> SUBSET MaybeFile] /\ stagingDisk' \subseteq Files
    BY <1>0, <1>9, FlushedType DEF SyncFails, Resync, SyncSome, SyncLibrary, SyncStaging, StorageTypeOK
  <2>2. faults' \in 0..MaxFaults
    BY <1>0, <1>9, StorageAssumption DEF StorageTypeOK, SyncFails, Resync, Fault
  <2> QED
    BY <1>0, <1>9, <2>1, <2>2 DEF StorageTypeOK, SyncFails, Resync, GiveUp
<1> QED
  BY <1>1, <1>2, <1>3, <1>4, <1>5, <1>6, <1>7, <1>8, <1>9 DEF Store

\* What the bot makes of a file leaves the published ones alone.
LEMMA MadeStays ==
  ASSUME StorageInv, NEW u \in Uploaders, Store(u),
         NEW f \in Files, made[f] \in {"checked", "foreign"}
  PROVE  made'[f] = made[f]
<1>1. CASE CreateTemp(u)
  BY <1>1 DEF CreateTemp, StorageInv, StorageTypeOK
<1>2. CASE FlushFile(u) \/ ProbeStaged(u)
  <2>1. made[upload[u].file] \in {"written", "flushed"}
    BY <1>2, Handlers DEF FlushFile, ProbeStaged, Hand
  <2> QED
    BY <1>2, <2>1 DEF FlushFile, ProbeStaged, StorageInv, StorageTypeOK
<1> QED
  BY <1>1, <1>2 DEF Store, Admit, RefuseImport, StepFails, Link, UnlinkStaged, UnlinkFails, SyncDirs,
                    SyncFails, Rollback, Resync, fsVars

LEMMA ShelfStore ==
  ASSUME StorageInv, NEW u \in Uploaders, Store(u), UNCHANGED lasting, NEW n \in Names
  PROVE  Shelf(n)'
<1>0. /\ Shelf(n) /\ Hand(u) /\ dir[n] \in MaybeFile /\ dirDisk[n] \subseteq MaybeFile
      /\ dir \in [Names -> MaybeFile] /\ dirDisk \in [Names -> SUBSET MaybeFile]
      /\ reported \in [Names -> MaybeFile]
      /\ \A f \in Files : Spent(f) => Spent(f)'
      /\ \A f \in Files : made[f] \in {"checked", "foreign"} => made'[f] \in {"checked", "foreign"}
      /\ Nothing \notin Files
  BY Handlers, SpentByStore, MadeStays, StorageAssumption DEF StorageInv, StorageTypeOK
<1>1. Spent(dir[n])' \/ dir'[n] # dir[n] \/ dir'[n] = Nothing
  <2>1. CASE dir[n] # Nothing
    <3>1. PICK f \in Files : f = dir[n] /\ Spent(f)
      BY <1>0, <2>1 DEF Shelf, MaybeFile
    <3>2. Spent(f)'
      BY <1>0, <3>1
    <3> QED
      BY <3>1, <3>2 DEF Spent
  <2> QED
    BY <2>1
<1>2. \A f \in dirDisk[n] \ {Nothing} : made'[f] \in {"checked", "foreign"}
  BY <1>0 DEF Shelf, MaybeFile
\* The entry changes not, or is flushed.
<1>3. CASE dir'[n] = dir[n] /\ dirDisk'[n] \in {dirDisk[n], {dir[n]}} /\ reported'[n] = reported[n]
  BY <1>0, <1>1, <1>2, <1>3 DEF Shelf, Spent
\* The entry is taken away before anything was reported of it.
<1>4. CASE /\ dir'[n] = Nothing /\ dirDisk'[n] = dirDisk[n] \cup {Nothing}
           /\ n \in lasting => reported'[n] = Nothing
  BY <1>0, <1>2, <1>4 DEF Shelf
<1>5. CASE Link(u)
  <2>1. CASE n = upload[u].name
    <3>1. /\ dir'[n] = upload[u].file /\ dirDisk'[n] = dirDisk[n] \cup {upload[u].file}
          /\ made[upload[u].file] = "checked" /\ upload[u].file \in Files
          /\ n \in lasting => reported'[n] = Nothing
      BY <1>0, <1>5, <2>1, Handlers DEF Link, Show, Hand, Shelf
    <3>2. at'[u] = "unlink" /\ upload' = upload
      BY <1>5, Handlers DEF Link, Goto, StorageInv, Turns
    <3>3. Spent(dir[n])'
      BY <3>1, <3>2, OwnHand, StorageAssumption DEF Hand, Raw, Spent
    <3>4. \A f \in dirDisk'[n] \ {Nothing} : made'[f] \in {"checked", "foreign"}
      BY <1>0, <1>2, <3>1
    <3> QED
      BY <1>0, <3>1, <3>3, <3>4 DEF Shelf
  <2>2. CASE n # upload[u].name
    BY <1>0, <1>3, <1>5, <2>2 DEF Link, Show
  <2> QED
    BY <2>1, <2>2
<1>6. CASE UnlinkFails(u) \/ Rollback(u)
  <2>1. CASE n = upload[u].name
    <3>1. n \in lasting => reported[n] = Nothing
      BY <1>6, <2>1, Handlers DEF Hand, UnlinkFails, Rollback, Publishing
    <3> QED
      BY <1>0, <1>3, <1>4, <1>6, <2>1, <3>1 DEF UnlinkFails, Rollback, Show
  <2>2. CASE n # upload[u].name
    BY <1>0, <1>3, <1>6, <2>2 DEF UnlinkFails, Rollback, Show
  <2> QED
    BY <2>1, <2>2
<1>7. CASE SyncDirs(u)
  <2>1. /\ dir' = dir /\ dirDisk'[n] \in {dirDisk[n], {dir[n]}} /\ at[u] = "sync"
        /\ n \in lasting => dirDisk'[n] = {dir[n]}
        /\ reported' = [reported EXCEPT ![upload[u].name] = upload[u].file]
    BY <1>0, <1>7 DEF SyncDirs, SyncLibrary, Flushed, Shelf
  <2>2. dir[upload[u].name] = upload[u].file
    BY <2>1, Handlers DEF Hand
  <2>3. reported'[n] \in {reported[n], dir[n]}
    BY <1>0, <2>1, <2>2
  <2> QED
    BY <1>0, <1>1, <1>2, <2>1, <2>3 DEF Shelf, Spent
<1>8. CASE ~(Link(u) \/ UnlinkFails(u) \/ Rollback(u) \/ SyncDirs(u))
  <2>1. dir' = dir /\ reported' = reported /\ (UNCHANGED dirDisk \/ SyncLibrary)
    BY <1>8 DEF Store, Admit, RefuseImport, CreateTemp, FlushFile, ProbeStaged, StepFails,
                UnlinkStaged, SyncFails, Resync, SyncSome, fsVars
  <2>2. dirDisk[n] \cup {dir[n]} = dirDisk[n]
    BY <1>0 DEF Shelf
  <2>3. dirDisk'[n] \in {dirDisk[n], {dir[n]}}
    BY <1>0, <2>1, <2>2 DEF SyncLibrary, Flushed
  <2> QED
    BY <1>3, <2>1, <2>3
<1> QED
  BY <1>5, <1>6, <1>7, <1>8

LEMMA StorageStore ==
  ASSUME StorageInv, NEW u \in Uploaders, Store(u), UNCHANGED scanVars, UNCHANGED lasting
  PROVE  StorageInv'
<1>1. Turns'
  BY TurnsFile DEF StorageInv
<1>2. \A v \in Uploaders : Hand(v)'
  BY OwnHand, NeighboursHands, StoreNeighbours, SpentByStore
<1> QED
  BY <1>1, <1>2, TypeStore, ApartStore, ShelfStore DEF StorageInv

-----------------------------------------------------------------------------
(* The steps beside an import.                                              *)

\* A handler that stays, that ends outside storageMu, that scans, or that asks
\* for storageMu.
Waits(u) ==
  \/ at'[u] = at[u] /\ upload'[u] = upload[u]
  \/ at[u] \notin Critical /\ at'[u] = "idle" /\ upload'[u] = NoUpload
  \/ at[u] \in ScanSteps /\ at'[u] \in ScanSteps /\ upload'[u] = upload[u]
  \/ /\ at[u] = "idle" /\ at'[u] = "lock"
     /\ upload'[u].name \in Names /\ upload'[u].file = upload[u].file

FilesStay == UNCHANGED <<dir, dirDisk, made, storageMu, reported>>

LEMMA WaitsKeepSpent ==
  ASSUME StorageInv, made' = made, \A u \in Uploaders : Waits(u), NEW f, Spent(f)
  PROVE  Spent(f)'
<1>1. \A u \in Uploaders : at'[u] \in Raw => at[u] \in Raw /\ upload'[u] = upload[u]
  BY DEF Waits, Raw, ScanSteps
<1> QED
  BY <1>1 DEF Spent

LEMMA Aside ==
  ASSUME StorageInv, Turns', StorageTypeOK', UNCHANGED lasting, FilesStay, \A u \in Uploaders : Waits(u)
  PROVE  StorageInv'
<1>1. ASSUME NEW u \in Uploaders PROVE upload'[u].file \in {upload[u].file, Nothing}
  BY <1>1 DEF Waits, NoUpload
<1>2. Apart'
  BY <1>1 DEF Apart, StorageInv
<1>3. ASSUME NEW n \in Names PROVE Shelf(n)'
  <2>1. Shelf(n) /\ UNCHANGED <<dir, dirDisk, made, reported>>
    BY DEF StorageInv, FilesStay
  <2>2. dir[n] # Nothing => Spent(dir[n])'
    <3>1. CASE Spent(dir[n])
      <4>1. \A u \in Uploaders : at'[u] \in Raw => at[u] \in Raw /\ upload'[u] = upload[u]
        BY DEF Waits, Raw, ScanSteps
      <4> QED
        BY <2>1, <3>1, <4>1 DEF Spent
    <3> QED
      BY <2>1, <3>1 DEF Shelf
  <2> QED
    BY <2>1, <2>2 DEF Shelf
<1>4. ASSUME NEW u \in Uploaders PROVE Hand(u)'
  <2>1. Hand(u) /\ FilesStay /\ storageMu \in Uploaders \cup {Nothing} /\ u # Nothing
    BY Handlers DEF StorageInv, StorageTypeOK
  <2>2. ASSUME NEW f, Spent(f) PROVE made'[f] # "unused" /\ \A v \in Uploaders : at'[v] \in Raw => upload'[v].file # f
    BY <2>2, WaitsKeepSpent DEF FilesStay, Spent
  <2>3. CASE at'[u] = at[u] /\ upload'[u] = upload[u]
    BY <2>1, <2>2, <2>3 DEF Hand, FilesStay, Spent
  <2>4. CASE at[u] \notin Critical /\ at'[u] = "idle" /\ upload'[u] = NoUpload
    BY <2>1, <2>4 DEF Hand, FilesStay, NoUpload, Critical, Publishing
  <2>5. CASE at[u] \in ScanSteps /\ at'[u] \in ScanSteps /\ upload'[u] = upload[u]
    <3>1. at[u] \notin Critical /\ at'[u] \notin Critical /\ at[u] \notin Raw
      BY <2>5 DEF ScanSteps, Critical, Raw
    <3>2. at'[u] \notin {"idle", "lock", "create", "flush", "probe", "link", "unlink", "sync", "rollback", "resync"}
          /\ at'[u] \notin Publishing /\ upload[u].file # Nothing
      BY <2>1, <2>5 DEF Hand, ScanSteps, Publishing
    <3>3. Spent(upload[u].file)'
      BY <2>1, <2>2, <2>5, <3>1, <3>2 DEF Hand, Spent
    <3> QED
      BY <2>1, <2>5, <3>1, <3>2, <3>3 DEF Hand, FilesStay
  <2>6. CASE /\ at[u] = "idle" /\ at'[u] = "lock"
             /\ upload'[u].name \in Names /\ upload'[u].file = upload[u].file
    BY <2>1, <2>6 DEF Hand, FilesStay, Critical, Publishing
  <2> QED
    BY <2>3, <2>4, <2>5, <2>6 DEF Waits
<1> QED
  BY <1>2, <1>3, <1>4 DEF StorageInv

LEMMA ScanWaits ==
  ASSUME StorageInv, UNCHANGED lasting, NEW p \in Procs, Scan(p)
  PROVE  FilesStay /\ StorageTypeOK' /\ \A u \in Uploaders : Waits(u)
<1>0. /\ at \in [Procs -> Places] /\ Uploaders \subseteq Procs /\ StorageTypeOK
      /\ upload \in [Uploaders -> [name : Names \cup {Nothing}, file : MaybeFile]]
      /\ NoUpload \in [name : Names \cup {Nothing}, file : MaybeFile]
  BY DEF StorageInv, Turns, StorageTypeOK, Procs, NoUpload, MaybeFile
<1>1. unchangedStorage /\ faults' = faults
  BY DEF Scan, AcquireGate, GateCancelled, List, Recall, ChooseAsset, ProbeAsset, Restamp, Publish, ScanFails
<1>2. at[p] \in ScanSteps /\ at[p] \notin Critical
  BY DEF Scan, AcquireGate, GateCancelled, List, Recall, ChooseAsset, ProbeAsset, Restamp, Publish,
         ScanFails, ScanSteps, Critical
<1>3. CASE AcquireGate(p) \/ List(p) \/ Recall(p) \/ ChooseAsset(p) \/ ProbeAsset(p) \/ Restamp(p)
  <2>1. upload' = upload /\ (at' = at \/ \E step \in ScanSteps : Goto(p, step))
    BY <1>3 DEF AcquireGate, List, Recall, ChooseAsset, ProbeAsset, Restamp, ScanSteps
  <2>2. \A u \in Uploaders : Waits(u)
    BY <1>0, <1>2, <2>1 DEF Waits, Goto
  <2> QED
    BY <1>0, <1>1, <2>1, <2>2 DEF StorageTypeOK, FilesStay, unchangedStorage
<1>4. CASE GateCancelled(p) \/ Publish(p) \/ ScanFails(p)
  <2>1. Goto(p, "idle") /\ upload' = [q \in Uploaders |-> IF q = p THEN NoUpload ELSE upload[q]]
    BY <1>4 DEF GateCancelled, Publish, ScanFails, Return
  <2>2. \A u \in Uploaders : Waits(u)
    BY <1>0, <1>2, <2>1 DEF Waits, Goto
  <2>3. upload' \in [Uploaders -> [name : Names \cup {Nothing}, file : MaybeFile]]
    BY <1>0, <2>1
  <2> QED
    BY <1>0, <1>1, <2>2, <2>3 DEF StorageTypeOK, FilesStay, unchangedStorage
<1> QED
  BY <1>3, <1>4 DEF Scan

\* The scheduler's scan starts, playback validates, a sweep passes.
LEMMA OthersWait ==
  ASSUME StorageInv, UNCHANGED lasting,
         \/ \E p \in Scanners : StartScan(p)
         \/ ProbePlayed \/ RestampPlayed \/ CondemnPlayed
         \/ \E n \in Names : EnsurePlayable(n) \/ ObsRejects(n)
         \/ (Boot \/ MaintenanceSweep) /\ UNCHANGED scanVars
  PROVE  FilesStay /\ StorageTypeOK' /\ \A u \in Uploaders : Waits(u)
<1>0. at \in [Procs -> Places] /\ StorageTypeOK
  BY DEF StorageInv, Turns
<1>1. ASSUME NEW p \in Scanners, StartScan(p)
      PROVE  FilesStay /\ StorageTypeOK' /\ \A u \in Uploaders : Waits(u)
  <2>1. unchangedStorage /\ UNCHANGED <<upload, faults>> /\ p \notin Uploaders /\ Goto(p, "gate")
    BY <1>1, ScanAssumption DEF StartScan
  <2> QED
    BY <1>0, <2>1 DEF Goto, Procs, Waits, FilesStay, unchangedStorage, StorageTypeOK
<1>2. CASE ProbePlayed \/ RestampPlayed \/ CondemnPlayed \/ \E n \in Names : EnsurePlayable(n) \/ ObsRejects(n)
  <2>1. unchangedStorage /\ UNCHANGED <<at, upload, faults>>
    BY <1>2 DEF ProbePlayed, RestampPlayed, CondemnPlayed, EnsurePlayable, ObsRejects
  <2> QED
    BY <1>0, <2>1 DEF Waits, FilesStay, unchangedStorage, StorageTypeOK
<1>3. CASE Boot \/ MaintenanceSweep
  <2>1. /\ FilesStay /\ UNCHANGED <<at, upload, faults, stagingDisk>>
        /\ running' \in BOOLEAN /\ staging' \subseteq staging
    BY <1>0, <1>3 DEF Boot, MaintenanceSweep, SweepPass, Unstage, FilesStay, StorageTypeOK
  <2> QED
    BY <1>0, <2>1 DEF Waits, FilesStay, StorageTypeOK
<1> QED
  BY <1>1, <1>2, <1>3

\* A handler asks for storageMu.
LEMMA ImportWaits ==
  ASSUME StorageInv, UNCHANGED lasting, NEW p \in Uploaders, StartImport(p)
  PROVE  FilesStay /\ StorageTypeOK' /\ \A u \in Uploaders : Waits(u)
<1>0. at \in [Procs -> Places] /\ StorageTypeOK /\ Uploaders \subseteq Procs
  BY DEF StorageInv, Turns, Procs
<1>1. PICK n \in Names : upload' = [upload EXCEPT ![p].name = n]
  BY DEF StartImport
<1>2. upload' \in [Uploaders -> [name : Names \cup {Nothing}, file : MaybeFile]]
  BY <1>0, <1>1 DEF StorageTypeOK
<1>3. FilesStay /\ UNCHANGED <<staging, stagingDisk, running, faults>>
  BY DEF StartImport, fsVars, FilesStay
<1>4. ASSUME NEW u \in Uploaders PROVE Waits(u)
  BY <1>0, <1>1, <1>4 DEF StartImport, Goto, Waits, StorageTypeOK
<1> QED
  BY <1>0, <1>2, <1>3, <1>4 DEF StorageTypeOK, FilesStay

-----------------------------------------------------------------------------
(* Outsiders, and the loss of the process.                                  *)

\* A file that was there before is spent as before; a new one is so at once.
LEMMA OutsiderSpent ==
  ASSUME StorageInv, NEW n \in Names, OutsiderActs(n)
  PROVE  /\ \A f \in Files : Spent(f) => Spent(f)'
         /\ dir'[n] # Nothing => dir'[n] \in Files /\ Spent(dir[n])' /\ made[dir'[n]] = "unused"
                                 /\ made'[dir'[n]] = "foreign"
         /\ \A f \in Files : made'[f] = made[f] \/ (made[f] = "unused" /\ f = dir'[n])
         /\ UNCHANGED <<at, upload, storageMu>>
<1>0. made \in [Files -> Makes] /\ dir \in [Names -> MaybeFile]
  BY DEF StorageInv, StorageTypeOK
<1>1. CASE OutsiderRemoves(n)
  BY <1>0, <1>1 DEF OutsiderRemoves, Changed, Spent
<1>2. ASSUME NEW f \in Files, OutsiderPuts(n, f)
      PROVE  /\ UNCHANGED <<at, upload, storageMu>> /\ dir'[n] = f
             /\ made[f] = "unused" /\ made' = [made EXCEPT ![f] = "foreign"]
  BY <1>0, <1>2 DEF OutsiderPuts, Changed
<1>3. CASE \E f \in Files : OutsiderPuts(n, f)
  <2>1. PICK f \in Files : /\ UNCHANGED <<at, upload, storageMu>> /\ dir'[n] = f
                           /\ made[f] = "unused" /\ made' = [made EXCEPT ![f] = "foreign"]
    BY <1>2, <1>3
  <2>2. ASSUME NEW u \in Uploaders, at[u] \in Raw PROVE upload[u].file # f
    BY <2>1, <2>2, Handlers DEF Hand, Raw
  <2>3. \A g \in Files : made'[g] = IF g = f THEN "foreign" ELSE made[g]
    BY <1>0, <2>1
  <2> QED
    BY <2>1, <2>2, <2>3 DEF Spent
<1> QED
  BY <1>1, <1>3 DEF OutsiderActs

LEMMA OutsiderStorage ==
  ASSUME StorageInv, UNCHANGED lasting, NEW n \in Names, OutsiderActs(n)
  PROVE  StorageInv'
<1>0. /\ at \in [Procs -> Places] /\ StorageTypeOK
      /\ \A u \in Uploaders : Hand(u)
  BY DEF StorageInv, Turns
<1>1. PICK f \in MaybeFile : Changed(n, f)
  BY DEF OutsiderActs, OutsiderRemoves, OutsiderPuts, MaybeFile
<1>2. /\ n \notin InPublication /\ dir' = [dir EXCEPT ![n] = f]
      /\ dirDisk' = [dirDisk EXCEPT ![n] = Flushed(n, f)]
      /\ reported' = [reported EXCEPT ![n] = Nothing]
      /\ UNCHANGED <<staging, stagingDisk, storageMu, at, upload, running, faults>>
  BY <1>1 DEF Changed
<1>3. made' \in [Files -> Makes]
  BY <1>0 DEF OutsiderActs, OutsiderRemoves, OutsiderPuts, StorageTypeOK, Makes
<1>4. StorageTypeOK'
  <2>1. dir' \in [Names -> MaybeFile] /\ dirDisk' \in [Names -> SUBSET MaybeFile]
        /\ reported' \in [Names -> MaybeFile]
    BY <1>0, <1>2, FlushedType DEF StorageTypeOK, MaybeFile
  <2> QED
    BY <1>0, <1>2, <1>3, <2>1 DEF StorageTypeOK
<1>5. Turns' /\ Apart'
  BY <1>2, Keeps DEF StorageInv, OutsiderActs, Apart
<1>6. ASSUME NEW m \in Names PROVE Shelf(m)'
  <2>1. CASE m = n
    <3>1. dir'[m] = f /\ dirDisk'[m] \in {{f}, dirDisk[m] \cup {f}} /\ reported'[m] = Nothing
          /\ dirDisk[m] \subseteq MaybeFile
      BY <1>0, <1>2, <2>1, FlushedType DEF StorageTypeOK
    <3>2. \A g \in dirDisk[m] \ {Nothing} : made'[g] \in {"checked", "foreign"}
      BY <3>1, OutsiderSpent DEF Shelf, MaybeFile, StorageInv
    <3>3. \A g \in dirDisk'[m] \ {Nothing} : made'[g] \in {"checked", "foreign"}
      BY <2>1, <3>1, <3>2, OutsiderSpent
    <3> QED
      BY <2>1, <3>1, <3>3, OutsiderSpent DEF Shelf
  <2>2. CASE m # n
    <3>1. dir'[m] = dir[m] /\ dirDisk'[m] = dirDisk[m] /\ reported'[m] = reported[m] /\ Shelf(m)
          /\ dir[m] \in MaybeFile /\ dirDisk[m] \subseteq MaybeFile
      BY <1>0, <1>2, <2>2 DEF StorageTypeOK, StorageInv
    <3>2. \A g \in dirDisk[m] \ {Nothing} : made'[g] \in {"checked", "foreign"}
      BY <3>1, OutsiderSpent DEF Shelf, MaybeFile
    <3>3. dir[m] # Nothing => Spent(dir[m])'
      <4>1. CASE dir[m] # Nothing
        <5>1. PICK g \in Files : g = dir[m] /\ Spent(g)
          BY <3>1, <4>1 DEF Shelf, MaybeFile
        <5>2. Spent(g)'
          BY <5>1, OutsiderSpent
        <5> QED
          BY <3>1, <5>1, <5>2 DEF Spent
      <4> QED
        BY <3>1, <4>1
    <3> QED
      BY <3>1, <3>2, <3>3 DEF Shelf, Spent
  <2> QED
    BY <2>1, <2>2
<1>7. ASSUME NEW u \in Uploaders PROVE Hand(u)'
  <2>1. at[u] \in Publishing => upload[u].name # n /\ upload[u].name \in Names
    BY <1>2, Handlers DEF InPublication, Publishing, Hand
  <2>2. at[u] \in Publishing => dir'[upload[u].name] = dir[upload[u].name]
                                /\ reported'[upload[u].name] = reported[upload[u].name]
    BY <1>0, <1>2, <2>1 DEF StorageTypeOK
  <2>3. at[u] \in Raw => upload[u].file \in Files /\ made'[upload[u].file] = made[upload[u].file]
    BY <1>0, OutsiderSpent, Handlers DEF Raw, Hand
  <2>4. upload[u].file # Nothing /\ at[u] \notin Raw => Spent(upload[u].file)'
    <3>1. CASE upload[u].file # Nothing /\ at[u] \notin Raw
      <4>1. PICK g \in Files : g = upload[u].file /\ Spent(g)
        BY <3>1, Handlers DEF Hand, MaybeFile
      <4>2. Spent(g)'
        BY <4>1, OutsiderSpent
      <4> QED
        BY <1>2, <4>1, <4>2 DEF Spent
    <3> QED
      BY <3>1
  <2> QED
    BY <1>0, <1>2, <2>1, <2>2, <2>3, <2>4 DEF Hand, Publishing, Raw
<1> QED
  BY <1>4, <1>5, <1>6, <1>7 DEF StorageInv

LEMMA LostStorage ==
  ASSUME StorageInv, Turns', UNCHANGED lasting, Crash \/ PowerFails
  PROVE  StorageInv'
<1>0. /\ StorageTypeOK /\ \A u \in Uploaders : u \in Procs /\ u # Nothing
      /\ made' = made /\ storageMu' = Nothing /\ running' = FALSE /\ faults' \in 0..MaxFaults
      /\ at' = [p \in Procs |-> "idle"] /\ upload' = [u \in Uploaders |-> NoUpload] /\ reported' = reported
      /\ NoUpload \in [name : Names \cup {Nothing}, file : MaybeFile]
  BY StorageAssumption DEF Crash, PowerFails, ProcessLost, Fault, Forget, DiskKept, DiskFallsBack, StorageInv,
     StorageTypeOK, Procs, NoUpload, MaybeFile
<1>1. ASSUME NEW n \in Names
      PROVE  /\ dir'[n] \in dirDisk[n] /\ dirDisk'[n] \in {dirDisk[n], {dir'[n]}}
             /\ dir'[n] \in {dir[n]} \/ dirDisk'[n] = {dir'[n]}
  BY DEF Crash, PowerFails, DiskKept, DiskFallsBack, StorageInv, Shelf
<1>2. StorageTypeOK'
  <2>1. dir' \in [Names -> MaybeFile] /\ dirDisk' \in [Names -> SUBSET MaybeFile]
    BY <1>0 DEF Crash, PowerFails, DiskKept, DiskFallsBack, StorageTypeOK
  <2>2. staging' \subseteq Files /\ stagingDisk' \subseteq Files
    BY <1>0 DEF Crash, PowerFails, DiskKept, DiskFallsBack, StorageTypeOK
  <2>3. upload' \in [Uploaders -> [name : Names \cup {Nothing}, file : MaybeFile]]
    BY <1>0
  <2> QED
    BY <1>0, <2>1, <2>2, <2>3 DEF StorageTypeOK
<1>3. Apart' /\ \A u \in Uploaders : Hand(u)'
  BY <1>0 DEF Apart, Hand, NoUpload, Critical, Publishing
<1>4. ASSUME NEW n \in Names PROVE Shelf(n)'
  <2>1. \A f \in dirDisk[n] \ {Nothing} : made'[f] \in {"checked", "foreign"}
    BY <1>0 DEF StorageInv, Shelf
  <2>2. \A f \in dirDisk'[n] \ {Nothing} : made'[f] \in {"checked", "foreign"}
    BY <1>1, <2>1
  <2>3. dir'[n] # Nothing => Spent(dir[n])'
    BY <1>0, <1>1, <2>1 DEF Spent, Raw
  <2>4. n \in lasting /\ reported[n] # Nothing => dirDisk[n] = {reported[n]} /\ dir[n] = reported[n]
    BY DEF StorageInv, Shelf
  <2> QED
    BY <1>0, <1>1, <2>2, <2>3, <2>4 DEF Shelf
<1> QED
  BY <1>2, <1>3, <1>4 DEF StorageInv

LEMMA StorageStart == Init => StorageInv
<1> SUFFICES ASSUME Init PROVE StorageInv
  OBVIOUS
<1>0. \A u \in Uploaders : u \in Procs /\ u # Nothing
  BY StorageAssumption DEF Procs
<1>1. StorageTypeOK
  <2>1. /\ dir \in [Names -> MaybeFile] /\ dirDisk \in [Names -> SUBSET MaybeFile]
        /\ reported \in [Names -> MaybeFile]
    BY DEF Init, StorageInit, MaybeFile
  <2>2. upload \in [Uploaders -> [name : Names \cup {Nothing}, file : MaybeFile]]
    BY DEF Init, StorageInit, MaybeFile, NoUpload
  <2>3. made \in [Files -> Makes] /\ faults \in 0..MaxFaults
    BY StorageAssumption DEF Init, StorageInit, Makes
  <2> QED
    BY <2>1, <2>2, <2>3 DEF Init, StorageInit, StorageTypeOK
<1>2. Apart /\ \A u \in Uploaders : Hand(u)
  BY <1>0 DEF Init, StorageInit, Apart, Hand, NoUpload, Critical, Publishing
<1>3. \A n \in Names : Shelf(n)
  BY DEF Init, StorageInit, Shelf
<1> QED
  BY <1>1, <1>2, <1>3, TurnsStart DEF StorageInv

LEMMA StorageStep ==
  ASSUME StorageInv, [Next]_vars
  PROVE  StorageInv'
<1>0. Turns' /\ UNCHANGED lasting
  BY TurnsStep DEF StorageInv, Next, vars, storageVars
<1>1. CASE FileStep /\ UNCHANGED scanVars
  BY <1>0, <1>1, StorageStore, ImportWaits, OthersWait, Aside DEF FileStep
<1>2. CASE ScanStep
  BY <1>0, <1>2, ScanWaits, OthersWait, Aside DEF ScanStep
<1>3. ASSUME NEW n \in Names, OutsiderActs(n) PROVE StorageInv'
  BY <1>0, <1>3, OutsiderStorage
<1>4. CASE Crash \/ PowerFails
  BY <1>0, <1>4, LostStorage
<1>5. CASE UNCHANGED vars
  <2>1. FilesStay /\ \A u \in Uploaders : Waits(u)
    BY <1>5 DEF vars, storageVars, FilesStay, Waits
  <2>2. StorageTypeOK'
    BY <1>5 DEF vars, storageVars, StorageInv, StorageTypeOK
  <2> QED
    BY <1>0, <2>1, <2>2, Aside
<1> QED
  BY <1>1, <1>2, <1>3, <1>4, <1>5 DEF Next

\* What the storage relies on: storageMu serialises the imports, a staged file
\* is in one hand only, and a file that has left a hand never returns to it.
THEOREM StorageInvHolds == Spec => []StorageInv
BY StorageStart, StorageStep, PTL DEF Spec

\* Whatever a library name shows, now or after a power failure, is a file the
\* bot has copied whole, flushed and probed or an outsider's.  And where a
\* reported flush makes directory entries durable, a file reported as stored is
\* there, and stays after a power failure, until an outsider changes it
\* (copyOpenedFileAtomicWith, publishFileNoReplace, syncDirectory).
THEOREM StorageIsSafe == Spec => []StorageSafe
<1>1. StorageInv => StorageSafe
  BY DEF StorageInv, StorageTypeOK, Shelf, StorageSafe, PublishedIsWhole, SuccessIsDurable
<1> QED
  BY <1>1, StorageInvHolds, PTL

-----------------------------------------------------------------------------
(* The verdicts.  While a file is examined, its name may show another file, *)
(* but never the stamped one again once it has gone: a scan or a validation *)
(* that finds the stamp unchanged has probed that very file.                *)

SpentFiles == {f \in Files : Spent(f)}

\* A verdict kept with the file that was probed.
Matches(entry) == entry.stamp = entry.probed

\* A verdict being reached: the stamped file was there, and if it still is, it
\* is the one that was probed.
Stamped(n, entry)  == n \in Names /\ entry \in Entry /\ entry.stamp \in SpentFiles
Examined(n, entry) == Stamped(n, entry) /\ (dir[n] = entry.stamp => Matches(entry))

ScanVerdicts(p) ==
  /\ \A n \in Names : Matches(scan[p].found[n]) /\ Matches(scan[p].known[n])
  /\ at[p] = "examine" => Stamped(scan[p].name, scan[p].entry)
  /\ at[p] = "restamp" => Examined(scan[p].name, scan[p].entry)

PlaybackVerdict ==
  /\ playback.step # "idle" => playback.name \in Names
  /\ playback.step = "probe" => Stamped(playback.name, playback.entry)
  /\ playback.step = "restamp" => Examined(playback.name, playback.entry)

VerdictInv ==
  /\ ScanTypeOK
  /\ \A n \in Names : Matches(cache[n])
  /\ \A p \in Procs : ScanVerdicts(p)
  /\ PlaybackVerdict

\* What a step does to the library: no file comes back.
NoneReturns ==
  /\ SpentFiles \subseteq SpentFiles'
  /\ \A n \in Names : dir'[n] \in {dir[n], Nothing} \/ dir'[n] \notin SpentFiles

LEMMA FilesStayGone ==
  ASSUME StorageInv, made' = made, dir' = dir, \A u \in Uploaders : Waits(u)
  PROVE  NoneReturns
<1>1. \A u \in Uploaders : at'[u] \in Raw => at[u] \in Raw /\ upload'[u] = upload[u]
  BY DEF Waits, Raw, ScanSteps
<1> QED
  BY <1>1 DEF NoneReturns, SpentFiles, Spent

LEMMA StoreReturnsNone ==
  ASSUME StorageInv, NEW u \in Uploaders, Store(u)
  PROVE  NoneReturns
<1>1. SpentFiles \subseteq SpentFiles'
  <2>1. \A f \in Files : Spent(f) => Spent(f)'
    BY SpentByStore
  <2> QED
    BY <2>1 DEF SpentFiles
<1>2. ASSUME NEW n \in Names PROVE dir'[n] \in {dir[n], Nothing} \/ dir'[n] \notin SpentFiles
  <2>0. dir \in [Names -> MaybeFile] /\ upload[u].name \in Names \cup {Nothing}
    BY Handlers DEF StorageInv, StorageTypeOK
  <2>1. CASE Link(u)
    <3>1. dir' = [dir EXCEPT ![upload[u].name] = upload[u].file] /\ at[u] \in Raw
      BY <2>1 DEF Link, Show, Raw
    <3>2. upload[u].file \notin SpentFiles
      BY <3>1 DEF SpentFiles, Spent
    <3> QED
      BY <2>0, <3>1, <3>2
  <2>2. CASE ~Link(u)
    <3>1. dir' = dir \/ dir' = [dir EXCEPT ![upload[u].name] = Nothing]
      BY <2>2 DEF Store, Admit, RefuseImport, CreateTemp, FlushFile, ProbeStaged, StepFails, UnlinkStaged,
                  UnlinkFails, SyncDirs, SyncFails, Rollback, Resync, Show, fsVars
    <3> QED
      BY <2>0, <3>1
  <2> QED
    BY <2>1, <2>2
<1> QED
  BY <1>1, <1>2 DEF NoneReturns

LEMMA OutsiderReturnsNone ==
  ASSUME StorageInv, NEW n \in Names, OutsiderActs(n)
  PROVE  NoneReturns
<1>1. SpentFiles \subseteq SpentFiles'
  BY OutsiderSpent DEF SpentFiles
<1>2. dir'[n] = Nothing \/ dir'[n] \notin SpentFiles
  BY OutsiderSpent DEF SpentFiles, Spent
<1>3. ASSUME NEW m \in Names \ {n} PROVE dir'[m] = dir[m]
  BY DEF OutsiderActs, OutsiderPuts, OutsiderRemoves, Changed, StorageInv, StorageTypeOK
<1> QED
  BY <1>1, <1>2, <1>3 DEF NoneReturns

\* Only the loss of the process brings a file back, and it takes with it every
\* verdict.
LEMMA StepReturnsNone ==
  ASSUME StorageInv, [Next]_vars, ~(Crash \/ PowerFails)
  PROVE  NoneReturns
<1>0. UNCHANGED lasting
  BY DEF Next, vars, storageVars
<1>1. CASE FileStep /\ UNCHANGED scanVars
  BY <1>0, <1>1, StoreReturnsNone, ImportWaits, OthersWait, FilesStayGone DEF FileStep, FilesStay
<1>2. CASE ScanStep
  BY <1>0, <1>2, ScanWaits, OthersWait, FilesStayGone DEF ScanStep, FilesStay
<1>3. ASSUME NEW n \in Names, OutsiderActs(n) PROVE NoneReturns
  BY <1>3, OutsiderReturnsNone
<1>4. CASE UNCHANGED vars
  <2>1. made' = made /\ dir' = dir /\ \A u \in Uploaders : Waits(u)
    BY <1>4 DEF vars, storageVars, Waits
  <2> QED
    BY <2>1, FilesStayGone
<1> QED
  BY <1>1, <1>2, <1>3, <1>4 DEF Next

LEMMA ExaminedStays ==
  ASSUME NoneReturns, NEW n, NEW entry
  PROVE  (Stamped(n, entry) => Stamped(n, entry)') /\ (Examined(n, entry) => Examined(n, entry)')
<1>1. Nothing \notin SpentFiles
  BY StorageAssumption DEF SpentFiles
<1> QED
  BY <1>1 DEF NoneReturns, Stamped, Examined

\* The locals of a scan.
ScanLocals == [todo : SUBSET Names, seen : SUBSET Names,
               known : [Names -> Entry], found : [Names -> Entry],
               name : Names \cup {Nothing}, entry : Entry, issues : BOOLEAN]

LEMMA EmptyScan ==
  /\ NoEntry \in Entry /\ Matches(NoEntry) /\ NoEntries \in [Names -> Entry]
  /\ NoScan \in ScanLocals
  /\ \A n \in Names : Matches(NoScan.found[n]) /\ Matches(NoScan.known[n])
<1>1. NoEntry \in Entry /\ Matches(NoEntry) /\ NoEntries \in [Names -> Entry]
  BY DEF NoEntry, Entry, MaybeFile, Matches, NoEntries
<1> QED
  BY <1>1 DEF NoScan, ScanLocals, NoEntries

LEMMA AcceptRecord ==
  ASSUME scan \in [Procs -> ScanLocals], NEW p \in Procs, NEW n \in Names, NEW entry \in Entry,
         Accept(p, n, entry)
  PROVE  /\ scan' \in [Procs -> ScanLocals] /\ \A q \in Procs \ {p} : scan'[q] = scan[q]
         /\ scan'[p].todo = scan[p].todo \ {n} /\ scan'[p].found = [scan[p].found EXCEPT ![n] = entry]
         /\ scan'[p].seen = scan[p].seen /\ scan'[p].known = scan[p].known
         /\ scan'[p].issues = scan[p].issues
<1> DEFINE m == [scan[p] EXCEPT !.todo = @ \ {n}, !.found[n] = entry, !.name = Nothing, !.entry = NoEntry]
<1>0. scan[p] \in ScanLocals
  OBVIOUS
<1>1. scan' = [scan EXCEPT ![p] = m]
  BY DEF Accept
<1>2. /\ m.todo = scan[p].todo \ {n} /\ m.found = [scan[p].found EXCEPT ![n] = entry]
      /\ m.seen = scan[p].seen /\ m.known = scan[p].known /\ m.issues = scan[p].issues
      /\ m \in ScanLocals
  BY <1>0, EmptyScan DEF ScanLocals
<1> HIDE DEF m
<1> QED
  BY <1>1, <1>2

LEMMA RefuseRecord ==
  ASSUME scan \in [Procs -> ScanLocals], NEW p \in Procs, NEW n \in Names, Refuse(p, n)
  PROVE  /\ scan' \in [Procs -> ScanLocals] /\ \A q \in Procs \ {p} : scan'[q] = scan[q]
         /\ scan'[p].todo = scan[p].todo \ {n} /\ scan'[p].found = scan[p].found
         /\ scan'[p].seen = scan[p].seen /\ scan'[p].known = scan[p].known
         /\ scan'[p].issues = TRUE
<1> DEFINE m == [scan[p] EXCEPT !.todo = @ \ {n}, !.issues = TRUE, !.name = Nothing, !.entry = NoEntry]
<1>0. scan[p] \in ScanLocals
  OBVIOUS
<1>1. scan' = [scan EXCEPT ![p] = m]
  BY DEF Refuse
<1>2. /\ m.todo = scan[p].todo \ {n} /\ m.found = scan[p].found
      /\ m.seen = scan[p].seen /\ m.known = scan[p].known /\ m.issues = TRUE
      /\ m \in ScanLocals
  BY <1>0, EmptyScan DEF ScanLocals
<1> HIDE DEF m
<1> QED
  BY <1>1, <1>2

\* A scan that does nothing now keeps its verdicts.
LEMMA VerdictsStay ==
  ASSUME NoneReturns, NEW p \in Procs, ScanVerdicts(p), scan'[p] = scan[p],
         at'[p] \in {"examine", "restamp"} => at'[p] = at[p]
  PROVE  ScanVerdicts(p)'
<1>1. PICK n, entry : n = scan[p].name /\ entry = scan[p].entry
  OBVIOUS
<1>2. (Stamped(n, entry) => Stamped(n, entry)') /\ (Examined(n, entry) => Examined(n, entry)')
  BY ExaminedStays
<1> QED
  BY <1>1, <1>2 DEF ScanVerdicts, Stamped, Examined

LEMMA PlaybackStays ==
  ASSUME NoneReturns, PlaybackVerdict, playback' = playback
  PROVE  PlaybackVerdict'
<1>1. PICK n, entry : n = playback.name /\ entry = playback.entry
  OBVIOUS
<1>2. (Stamped(n, entry) => Stamped(n, entry)') /\ (Examined(n, entry) => Examined(n, entry)')
  BY ExaminedStays
<1> QED
  BY <1>1, <1>2 DEF PlaybackVerdict, Stamped, Examined

\* The scan under way.
LEMMA ScanKeepsVerdicts ==
  ASSUME StorageInv, VerdictInv, NoneReturns, NEW p \in Procs, Scan(p)
  PROVE  /\ ScanVerdicts(p)' /\ scan' \in [Procs -> ScanLocals]
         /\ \A q \in Procs \ {p} : scan'[q] = scan[q] /\ at'[q] = at[q]
<1>0. /\ at \in [Procs -> Places] /\ scan \in [Procs -> ScanLocals] /\ cache \in [Names -> Entry]
      /\ scan[p] \in ScanLocals /\ dir \in [Names -> MaybeFile] /\ ScanVerdicts(p)
      /\ \A n \in Names : Matches(cache[n])
  BY DEF StorageInv, StorageTypeOK, Turns, VerdictInv, ScanTypeOK, ScanLocals
<1>1. CASE AcquireGate(p) \/ GateCancelled(p)
  <2>1. scan' = scan /\ (Goto(p, "list") \/ Goto(p, "idle"))
    BY <1>1 DEF AcquireGate, GateCancelled, scanVars
  <2> QED
    BY <1>0, <2>1, VerdictsStay DEF Goto
<1>2. CASE List(p)
  <2>1. PICK odd \in BOOLEAN :
          scan' = [scan EXCEPT ![p].todo = {n \in Names : dir[n] # Nothing},
                               ![p].seen = {n \in Names : dir[n] # Nothing}, ![p].issues = odd]
    BY <1>2 DEF List
  <2> DEFINE entries == {n \in Names : dir[n] # Nothing}
             m == [scan[p] EXCEPT !.todo = entries, !.seen = entries, !.issues = odd]
  <2>2. m \in ScanLocals /\ m.found = scan[p].found /\ m.known = scan[p].known
    BY <1>0 DEF ScanLocals
  <2>3. scan' = [scan EXCEPT ![p] = m]
    BY <2>1
  <2> HIDE DEF m
  <2>4. scan'[p] = m /\ scan' \in [Procs -> ScanLocals] /\ at'[p] = "recall"
        /\ \A q \in Procs \ {p} : scan'[q] = scan[q] /\ at'[q] = at[q]
    BY <1>0, <1>2, <2>2, <2>3 DEF List, Goto
  <2> QED
    BY <1>0, <2>2, <2>4 DEF ScanVerdicts
<1>3. CASE Recall(p)
  <2> DEFINE m == [scan[p] EXCEPT !.known = cache]
  <2>1. m \in ScanLocals /\ m.found = scan[p].found /\ m.known = cache
    BY <1>0 DEF ScanLocals
  <2>2. scan' = [scan EXCEPT ![p] = m]
    BY <1>3 DEF Recall
  <2> HIDE DEF m
  <2>3. scan'[p] = m /\ scan' \in [Procs -> ScanLocals] /\ at'[p] = "choose"
        /\ \A q \in Procs \ {p} : scan'[q] = scan[q] /\ at'[q] = at[q]
    BY <1>0, <1>3, <2>1, <2>2 DEF Recall, Goto
  <2> QED
    BY <1>0, <2>1, <2>3 DEF ScanVerdicts
<1>4. ASSUME NEW n \in Names, Refuse(p, n), at'[p] \notin {"examine", "restamp"},
             \A q \in Procs \ {p} : at'[q] = at[q]
      PROVE  /\ ScanVerdicts(p)' /\ scan' \in [Procs -> ScanLocals]
             /\ \A q \in Procs \ {p} : scan'[q] = scan[q] /\ at'[q] = at[q]
  BY <1>0, <1>4, RefuseRecord DEF ScanVerdicts
<1>5. ASSUME NEW n \in Names, NEW entry \in Entry, Accept(p, n, entry), Matches(entry),
             at'[p] \notin {"examine", "restamp"}, \A q \in Procs \ {p} : at'[q] = at[q]
      PROVE  /\ ScanVerdicts(p)' /\ scan' \in [Procs -> ScanLocals]
             /\ \A q \in Procs \ {p} : scan'[q] = scan[q] /\ at'[q] = at[q]
  <2>1. scan[p].found \in [Names -> Entry]
    BY <1>0 DEF ScanLocals
  <2>2. \A k \in Names : scan'[p].found[k] \in {entry, scan[p].found[k]}
    <3>1. scan'[p].found = [scan[p].found EXCEPT ![n] = entry]
      BY <1>0, <1>5, AcceptRecord
    <3> QED
      BY <2>1, <3>1
  <2>3. \A k \in Names : Matches(scan'[p].found[k])
    BY <1>0, <1>5, <2>2 DEF ScanVerdicts
  <2> QED
    BY <1>0, <1>5, <2>3, AcceptRecord DEF ScanVerdicts
<1>6. CASE ChooseAsset(p)
  <2>1. PICK n \in scan[p].todo :
       \/ dir[n] = Nothing /\ Refuse(p, n) /\ UNCHANGED at
       \/ /\ dir[n] # Nothing
          /\ scan[p].known[n].stamp = dir[n]
          /\ Accept(p, n, scan[p].known[n])
          /\ UNCHANGED at
       \/ /\ dir[n] # Nothing
          /\ scan[p].known[n].stamp # dir[n]
          /\ scan' = [scan EXCEPT ![p].name = n, ![p].entry.stamp = dir[n]]
          /\ Goto(p, "examine")
          /\ UNCHANGED shown
    BY <1>6 DEF ChooseAsset
  <2>2. n \in Names /\ scan[p].known[n] \in Entry /\ Matches(scan[p].known[n]) /\ at[p] = "choose"
    BY <1>0, <1>6 DEF ScanLocals, ScanVerdicts, ChooseAsset
  <2>3. CASE dir[n] = Nothing /\ Refuse(p, n) /\ UNCHANGED at
    BY <1>4, <2>2, <2>3
  <2>4. CASE Accept(p, n, scan[p].known[n]) /\ UNCHANGED at
    BY <1>5, <2>2, <2>4
  <2>5. CASE /\ dir[n] # Nothing /\ Goto(p, "examine")
             /\ scan' = [scan EXCEPT ![p].name = n, ![p].entry.stamp = dir[n]]
    <3> DEFINE m == [scan[p] EXCEPT !.name = n, !.entry.stamp = dir[n]]
    <3>1. scan[p].entry \in Entry /\ dir[n] \in Files
      BY <1>0, <2>2, <2>5 DEF ScanLocals, MaybeFile
    <3>2. /\ m \in ScanLocals /\ m.found = scan[p].found /\ m.known = scan[p].known
          /\ m.name = n /\ m.entry.stamp = dir[n] /\ m.entry \in Entry
      BY <1>0, <2>2, <3>1 DEF ScanLocals, Entry, MaybeFile
    <3>3. scan' = [scan EXCEPT ![p] = m]
      BY <2>5
    <3> HIDE DEF m
    <3>4. scan'[p] = m /\ scan' \in [Procs -> ScanLocals] /\ at'[p] = "examine"
          /\ \A q \in Procs \ {p} : scan'[q] = scan[q] /\ at'[q] = at[q]
      BY <1>0, <2>5, <3>2, <3>3, ZenonT(60) DEF Goto
    <3>5. dir[n] \in SpentFiles /\ SpentFiles \subseteq SpentFiles'
      BY <2>2, <2>5, <3>1 DEF StorageInv, Shelf, SpentFiles, NoneReturns
    <3> QED
      BY <1>0, <2>2, <3>2, <3>4, <3>5 DEF ScanVerdicts, Stamped
  <2> QED
    BY <2>1, <2>3, <2>4, <2>5
<1>7. CASE ProbeAsset(p)
  <2>0. at[p] = "examine" /\ Stamped(scan[p].name, scan[p].entry) /\ scan[p].name \in Names
        /\ dir' = dir
    BY <1>0, <1>7 DEF ProbeAsset, ScanVerdicts, Stamped, unchangedStorage
  <2>1. CASE /\ dir[scan[p].name] # Nothing /\ Goto(p, "restamp")
             /\ scan' = [scan EXCEPT ![p].entry.probed = dir[scan[p].name]]
    <3> DEFINE m == [scan[p] EXCEPT !.entry.probed = dir[scan[p].name]]
    <3>1. scan[p].entry \in Entry /\ dir[scan[p].name] \in MaybeFile
      BY <1>0, <2>0 DEF ScanLocals
    <3>2. /\ m \in ScanLocals /\ m.found = scan[p].found /\ m.known = scan[p].known
          /\ m.name = scan[p].name /\ m.entry.stamp = scan[p].entry.stamp
          /\ m.entry.probed = dir[scan[p].name] /\ m.entry \in Entry
      BY <1>0, <3>1 DEF ScanLocals, Entry
    <3>3. scan' = [scan EXCEPT ![p] = m]
      BY <2>1
    <3> HIDE DEF m
    <3>4. scan'[p] = m /\ scan' \in [Procs -> ScanLocals] /\ at'[p] = "restamp"
          /\ \A q \in Procs \ {p} : scan'[q] = scan[q] /\ at'[q] = at[q]
      BY <1>0, <2>1, <3>2, <3>3 DEF Goto
    <3> QED
      BY <1>0, <2>0, <3>2, <3>4 DEF ScanVerdicts, Examined, Stamped, Matches, NoneReturns
  <2>2. CASE Refuse(p, scan[p].name) /\ Goto(p, "choose")
    BY <1>0, <1>4, <2>0, <2>2 DEF Goto
  <2> QED
    BY <1>7, <2>1, <2>2 DEF ProbeAsset
<1>8. CASE Restamp(p)
  <2>0. Examined(scan[p].name, scan[p].entry) /\ Goto(p, "choose")
    BY <1>0, <1>8 DEF Restamp, ScanVerdicts
  <2>1. scan[p].name \in Names /\ scan[p].entry \in Entry
        /\ at'[p] = "choose" /\ \A q \in Procs \ {p} : at'[q] = at[q]
    BY <1>0, <2>0 DEF Examined, Stamped, Goto
  <2>2. CASE dir[scan[p].name] = scan[p].entry.stamp /\ Accept(p, scan[p].name, scan[p].entry)
    BY <1>5, <2>0, <2>1, <2>2 DEF Examined
  <2>3. CASE Refuse(p, scan[p].name)
    BY <1>4, <2>1, <2>3
  <2> QED
    BY <1>8, <2>2, <2>3 DEF Restamp
<1>9. CASE Publish(p) \/ ScanFails(p)
  <2>1. Goto(p, "idle") /\ scan' = [scan EXCEPT ![p] = NoScan]
    BY <1>9 DEF Publish, ScanFails, Return
  <2>2. /\ at'[p] = "idle" /\ scan'[p] = NoScan /\ scan' \in [Procs -> ScanLocals]
        /\ \A q \in Procs \ {p} : scan'[q] = scan[q] /\ at'[q] = at[q]
    BY <1>0, <2>1, EmptyScan DEF Goto
  <2> QED
    BY <2>2, EmptyScan DEF ScanVerdicts
<1> QED
  BY <1>1, <1>2, <1>3, <1>6, <1>7, <1>8, <1>9 DEF Scan

\* What the scan under way leaves in the shared state.
LEMMA ScanKeepsCache ==
  ASSUME StorageInv, VerdictInv, NEW p \in Procs, Scan(p)
  PROVE  /\ cache' \in [Names -> Entry] /\ \A n \in Names : Matches(cache'[n])
         /\ playback' = playback
         /\ quarantine' \in [Names -> SUBSET MaybeFile] /\ snapshot' \subseteq Names
         /\ shown' \in [Names -> MaybeFile]
         /\ scanGate' \in Procs \cup {Nothing} /\ newest' \in Procs \cup {Nothing}
<1>0. /\ scan[p] \in ScanLocals /\ dir \in [Names -> MaybeFile] /\ ScanVerdicts(p) /\ ScanTypeOK
      /\ \A n \in Names : Matches(cache[n])
  BY DEF StorageInv, StorageTypeOK, VerdictInv, ScanTypeOK, ScanLocals
<1>1. CASE Publish(p)
  <2>1. \A n \in Names : scan[p].found[n] \in Entry /\ Matches(scan[p].found[n])
    BY <1>0 DEF ScanLocals, ScanVerdicts
  <2>2. cache' \in [Names -> Entry] /\ \A n \in Names : Matches(cache'[n])
    <3>1. CASE newest = p
      <4>1. PICK cleared : cache' = [n \in Names |-> IF n \in cleared THEN NoEntry ELSE scan[p].found[n]]
        <5> DEFINE valid == {n \in scan[p].seen : scan[p].found[n] # NoEntry}
                   cleared == {n \in valid : Released(n)}
        <5>1. cache' = [n \in Names |-> IF n \in cleared THEN NoEntry ELSE scan[p].found[n]]
          BY <1>1, <3>1 DEF Publish
        <5> HIDE DEF cleared
        <5> QED
          BY <5>1
      <4> QED
        BY <2>1, <4>1, EmptyScan
    <3>2. CASE newest # p
      BY <1>0, <1>1, <3>2 DEF Publish, ScanTypeOK
    <3> QED
      BY <3>1, <3>2
  <2>3. quarantine' \in [Names -> SUBSET MaybeFile]
    BY <1>0, <1>1 DEF Publish, ScanTypeOK
  <2>4. snapshot' \subseteq Names
    BY <1>0, <1>1 DEF Publish, ScanTypeOK, ScanLocals
  <2>5. shown' \in [Names -> MaybeFile]
    <3> DEFINE valid == {n \in scan[p].seen : scan[p].found[n] # NoEntry}
               clean == ~scan[p].issues /\ ~\E n \in valid : Condemned(n)
               own(n) == clean /\ p \in Uploaders /\ upload[p].name = n /\ dir[n] = upload[p].file
               gone(n) == n \in valid /\ Condemned(n)
    <3>1. shown' = [n \in Names |-> CASE own(n) -> dir[n] [] gone(n) -> Nothing [] OTHER -> shown[n]]
      BY <1>1 DEF Publish
    <3>2. \A n \in Names : dir[n] \in MaybeFile /\ shown[n] \in MaybeFile /\ Nothing \in MaybeFile
      BY <1>0 DEF ScanTypeOK, MaybeFile
    <3> HIDE DEF own, gone
    <3> QED
      BY <3>1, <3>2
  <2>6. playback' = playback /\ scanGate' = Nothing /\ newest' \in {newest, Nothing}
    BY <1>1 DEF Publish, Return
  <2> QED
    BY <1>0, <2>2, <2>3, <2>4, <2>5, <2>6 DEF ScanTypeOK
<1>2. CASE ~Publish(p)
  <2>1. UNCHANGED <<playback, cache, quarantine, snapshot>>
    BY <1>2 DEF Scan, AcquireGate, GateCancelled, List, Recall, ChooseAsset, ProbeAsset, Restamp, ScanFails,
                scanVars
  <2>2. /\ scanGate' \in {scanGate, p, Nothing} /\ newest' \in {newest, p, Nothing}
        /\ shown' = shown \/ \E n : shown' = [shown EXCEPT ![n] = Nothing]
    BY <1>2 DEF Scan, AcquireGate, GateCancelled, List, Recall, ChooseAsset, ProbeAsset, Restamp, ScanFails,
                Return, Accept, Refuse, scanVars
  <2>3. shown' \in [Names -> MaybeFile]
    BY <1>0, <2>2 DEF ScanTypeOK, MaybeFile
  <2> QED
    BY <1>0, <2>1, <2>2, <2>3 DEF ScanTypeOK
<1> QED
  BY <1>1, <1>2

LEMMA ScanVerdict ==
  ASSUME StorageInv, VerdictInv, Turns', NoneReturns, NEW p \in Procs, Scan(p)
  PROVE  VerdictInv'
<1>1. /\ ScanVerdicts(p)' /\ scan' \in [Procs -> ScanLocals]
      /\ \A q \in Procs \ {p} : scan'[q] = scan[q] /\ at'[q] = at[q]
  BY ScanKeepsVerdicts
<1>2. ASSUME NEW q \in Procs \ {p} PROVE ScanVerdicts(q)'
  BY <1>1, VerdictsStay DEF VerdictInv
<1>3. PlaybackVerdict'
  BY ScanKeepsCache, PlaybackStays DEF VerdictInv
<1>4. ScanTypeOK'
  BY <1>1, ScanKeepsCache DEF ScanTypeOK, ScanLocals, VerdictInv, Turns, Places
<1> QED
  BY <1>1, <1>2, <1>3, <1>4, ScanKeepsCache DEF VerdictInv

\* Playback validates what it is about to show; scans stand still.
LEMMA PlaybackKeeps ==
  ASSUME StorageInv, VerdictInv, NoneReturns, UNCHANGED dir,
         \/ ProbePlayed \/ RestampPlayed \/ CondemnPlayed
         \/ \E n \in Names : EnsurePlayable(n) \/ ObsRejects(n)
  PROVE  /\ PlaybackVerdict'
         /\ playback' \in [step : {"idle", "probe", "restamp", "condemn"},
                           name : Names \cup {Nothing}, entry : Entry]
         /\ cache' \in [Names -> Entry] /\ \A n \in Names : Matches(cache'[n])
         /\ quarantine' \in [Names -> SUBSET MaybeFile] /\ shown' \in [Names -> MaybeFile]
         /\ UNCHANGED <<at, scan, scanGate, newest, snapshot>>
<1> DEFINE Typed(v) == v \in [step : {"idle", "probe", "restamp", "condemn"},
                              name : Names \cup {Nothing}, entry : Entry]
<1>0. /\ Typed(playback) /\ PlaybackVerdict /\ dir \in [Names -> MaybeFile] /\ cache \in [Names -> Entry]
      /\ \A n \in Names : Matches(cache[n])
      /\ quarantine \in [Names -> SUBSET MaybeFile] /\ shown \in [Names -> MaybeFile]
      /\ snapshot \subseteq Names /\ NoEntry \in Entry /\ Matches(NoEntry)
  BY EmptyScan DEF StorageInv, StorageTypeOK, VerdictInv, ScanTypeOK
<1>1. Typed(NoPlayback) /\ NoPlayback.step = "idle"
  BY <1>0 DEF NoPlayback
<1>2. ASSUME playback' = NoPlayback PROVE PlaybackVerdict' /\ Typed(playback')
  BY <1>1, <1>2 DEF PlaybackVerdict
<1>3. CASE ProbePlayed
  <2>0. playback.step = "probe" /\ Stamped(playback.name, playback.entry)
        /\ playback.name \in Names /\ playback.entry \in Entry
        /\ UNCHANGED <<at, scan, scanGate, newest, snapshot, cache, quarantine, shown>>
    BY <1>0, <1>3 DEF ProbePlayed, PlaybackVerdict, Stamped
  <2>1. CASE playback' = [playback EXCEPT !.step = "restamp", !.entry.probed = dir[playback.name]]
    <3>1. /\ playback'.step = "restamp" /\ playback'.name = playback.name
          /\ playback'.entry.stamp = playback.entry.stamp /\ playback'.entry.probed = dir[playback.name]
          /\ playback'.entry \in Entry
      BY <1>0, <2>0, <2>1 DEF Entry
    <3>2. Typed(playback')
      BY <1>0, <2>0, <2>1 DEF Entry
    <3>3. PlaybackVerdict'
      BY <1>0, <2>0, <3>1 DEF PlaybackVerdict, Examined, Stamped, Matches, NoneReturns
    <3> QED
      BY <1>0, <2>0, <3>2, <3>3
  <2>2. CASE playback' = [playback EXCEPT !.step = "condemn"]
    <3>1. playback'.step = "condemn" /\ playback'.name = playback.name /\ Typed(playback')
      BY <1>0, <2>2
    <3> QED
      BY <1>0, <2>0, <3>1 DEF PlaybackVerdict
  <2> QED
    BY <1>0, <1>2, <1>3, <2>0, <2>1, <2>2 DEF ProbePlayed
<1>4. CASE RestampPlayed
  <2>0. playback.step = "restamp" /\ Examined(playback.name, playback.entry)
        /\ playback.name \in Names /\ playback.entry \in Entry
        /\ UNCHANGED <<at, scan, scanGate, newest, snapshot, quarantine, shown>>
    BY <1>0, <1>4 DEF RestampPlayed, PlaybackVerdict, Examined, Stamped
  <2>1. CASE /\ dir[playback.name] = playback.entry.stamp
             /\ cache' = [cache EXCEPT ![playback.name] = playback.entry]
             /\ playback' = NoPlayback
    <3>1. Matches(playback.entry)
      BY <2>0, <2>1 DEF Examined
    <3>2. cache' \in [Names -> Entry] /\ \A n \in Names : Matches(cache'[n])
      BY <1>0, <2>0, <2>1, <3>1
    <3> QED
      BY <1>0, <1>2, <2>0, <2>1, <3>2
  <2>2. CASE playback' = [playback EXCEPT !.step = "condemn"] /\ UNCHANGED cache
    <3>1. playback'.step = "condemn" /\ playback'.name = playback.name /\ Typed(playback')
      BY <1>0, <2>2
    <3> QED
      BY <1>0, <2>0, <2>2, <3>1 DEF PlaybackVerdict
  <2>3. CASE playback' = NoPlayback /\ UNCHANGED cache
    BY <1>0, <1>2, <2>0, <2>3
  <2> QED
    BY <1>4, <2>1, <2>2, <2>3 DEF RestampPlayed
<1>5. CASE CondemnPlayed
  <2>1. /\ cache' = [cache EXCEPT ![playback.name] = NoEntry]
        /\ quarantine' = [quarantine EXCEPT ![playback.name] = {dir[playback.name]}]
        /\ shown' = [shown EXCEPT ![playback.name] = Nothing] /\ playback' = NoPlayback
        /\ playback.name \in Names
        /\ UNCHANGED <<at, scan, scanGate, newest, snapshot>>
    BY <1>0, <1>5 DEF CondemnPlayed, Quarantine, PlaybackVerdict
  <2>2. cache' \in [Names -> Entry] /\ \A n \in Names : Matches(cache'[n])
    BY <1>0, <2>1
  <2>3. quarantine' \in [Names -> SUBSET MaybeFile] /\ shown' \in [Names -> MaybeFile]
    BY <1>0, <2>1 DEF MaybeFile
  <2> QED
    BY <1>2, <2>1, <2>2, <2>3
<1>6. ASSUME NEW n \in Names, ObsRejects(n)
      PROVE  /\ quarantine' \in [Names -> SUBSET MaybeFile] /\ shown' \in [Names -> MaybeFile]
             /\ UNCHANGED <<at, scan, scanGate, newest, snapshot, cache, playback>>
  BY <1>0, <1>6 DEF ObsRejects, Quarantine, MaybeFile
<1>7. CASE \E n \in Names : ObsRejects(n)
  BY <1>0, <1>6, <1>7, PlaybackStays
<1>8. ASSUME NEW n \in Names, EnsurePlayable(n)
      PROVE  /\ PlaybackVerdict' /\ Typed(playback')
             /\ cache' \in [Names -> Entry] /\ \A k \in Names : Matches(cache'[k])
             /\ quarantine' \in [Names -> SUBSET MaybeFile]
             /\ UNCHANGED <<at, scan, scanGate, newest, snapshot, shown>>
  <2>1. /\ quarantine' = [quarantine EXCEPT ![n] = {}]
        /\ cache' \in {cache, [cache EXCEPT ![n] = NoEntry]}
        /\ UNCHANGED <<at, scan, scanGate, newest, snapshot, shown>>
    BY <1>0, <1>8 DEF EnsurePlayable
  <2>2. /\ cache' \in [Names -> Entry] /\ \A k \in Names : Matches(cache'[k])
        /\ quarantine' \in [Names -> SUBSET MaybeFile]
    BY <1>0, <2>1
  <2>3. CASE playback' = [NoPlayback EXCEPT !.step = "condemn", !.name = n]
    <3>1. playback'.step = "condemn" /\ playback'.name = n /\ Typed(playback')
      BY <1>1, <2>3
    <3> QED
      BY <2>1, <2>2, <3>1 DEF PlaybackVerdict
  <2>4. CASE /\ dir[n] # Nothing
             /\ playback' = [step |-> "probe", name |-> n, entry |-> [NoEntry EXCEPT !.stamp = dir[n]]]
    <3>1. dir[n] \in SpentFiles /\ SpentFiles \subseteq SpentFiles'
      BY <1>0, <2>4 DEF StorageInv, Shelf, SpentFiles, NoneReturns, MaybeFile
    <3> DEFINE e == [NoEntry EXCEPT !.stamp = dir[n]]
    <3>2. e \in Entry /\ e.stamp = dir[n]
      BY <1>0 DEF Entry, NoEntry
    <3> HIDE DEF e
    <3>3. playback'.step = "probe" /\ playback'.name = n /\ playback'.entry = e /\ Typed(playback')
      BY <2>4, <3>2 DEF e
    <3>4. PlaybackVerdict'
      BY <3>1, <3>2, <3>3 DEF PlaybackVerdict, Stamped
    <3> QED
      BY <2>1, <2>2, <3>3, <3>4
  <2>5. CASE UNCHANGED playback
    BY <1>0, <2>1, <2>2, <2>5, PlaybackStays
  <2> QED
    BY <1>8, <2>3, <2>4, <2>5 DEF EnsurePlayable
<1> QED
  BY <1>0, <1>3, <1>4, <1>5, <1>7, <1>8

\* Steps that leave what the scans know alone.
LEMMA VerdictsAside ==
  ASSUME VerdictInv, Turns', NoneReturns, UNCHANGED <<scanGate, newest, scan, playback, cache, quarantine, snapshot>>,
         shown' \in [Names -> MaybeFile],
         \A p \in Procs : at'[p] \in {"examine", "restamp"} => at'[p] = at[p]
  PROVE  VerdictInv'
<1>1. \A p \in Procs : ScanVerdicts(p)'
  BY VerdictsStay DEF VerdictInv
<1>2. PlaybackVerdict'
  BY PlaybackStays DEF VerdictInv
<1>3. ScanTypeOK'
  BY DEF VerdictInv, ScanTypeOK, Turns, Places
<1> QED
  BY <1>1, <1>2, <1>3 DEF VerdictInv

LEMMA VerdictStart == Init => VerdictInv
<1> SUFFICES ASSUME Init PROVE VerdictInv
  OBVIOUS
<1>1. scan \in [Procs -> ScanLocals] /\ \A p \in Procs : scan[p] = NoScan /\ at[p] = "idle"
  BY EmptyScan DEF Init
<1>2. playback = NoPlayback /\ NoPlayback.step = "idle" /\ cache = NoEntries
  BY DEF Init, NoPlayback
<1>3. playback \in [step : {"idle", "probe", "restamp", "condemn"},
                    name : Names \cup {Nothing}, entry : Entry]
  BY <1>2, EmptyScan DEF NoPlayback
<1>4. shown \in [Names -> MaybeFile] /\ quarantine \in [Names -> SUBSET MaybeFile]
  BY DEF Init, NoFiles, MaybeFile
<1>5. ScanTypeOK
  BY <1>1, <1>2, <1>3, <1>4, EmptyScan, TurnsStart DEF Init, ScanTypeOK, ScanLocals, Turns, Places
<1>6. \A p \in Procs : ScanVerdicts(p)
  BY <1>1, EmptyScan DEF ScanVerdicts
<1>7. \A n \in Names : Matches(cache[n])
  BY <1>2, EmptyScan DEF NoEntries
<1> QED
  BY <1>2, <1>5, <1>6, <1>7 DEF VerdictInv, PlaybackVerdict

\* Whoever loses its memory starts from no verdict at all.
LEMMA ForgetVerdicts ==
  ASSUME Forget, Turns'
  PROVE  VerdictInv'
<1>1. scan' \in [Procs -> ScanLocals] /\ \A p \in Procs : scan'[p] = NoScan /\ at'[p] = "idle"
  BY EmptyScan DEF Forget
<1>2. playback' = NoPlayback /\ NoPlayback.step = "idle" /\ cache' = NoEntries
  BY DEF Forget, NoPlayback
<1>3. playback' \in [step : {"idle", "probe", "restamp", "condemn"},
                     name : Names \cup {Nothing}, entry : Entry]
  BY <1>2, EmptyScan DEF NoPlayback
<1>4. shown' \in [Names -> MaybeFile] /\ quarantine' \in [Names -> SUBSET MaybeFile]
  BY DEF Forget, NoFiles, MaybeFile
<1>5. ScanTypeOK'
  BY <1>1, <1>2, <1>3, <1>4, EmptyScan DEF Forget, ScanTypeOK, ScanLocals, Turns, Places
<1>6. \A p \in Procs : ScanVerdicts(p)'
  BY <1>1, EmptyScan DEF ScanVerdicts
<1>7. \A n \in Names : Matches(cache'[n])
  BY <1>2, EmptyScan DEF NoEntries
<1> QED
  BY <1>2, <1>5, <1>6, <1>7 DEF VerdictInv, PlaybackVerdict

\* An import or a scan that starts, and an import's steps, are at no examination.
LEMMA ElsewhereThanExamining ==
  ASSUME StorageInv, NEW p \in Procs,
         (p \in Scanners /\ StartScan(p)) \/ (p \in Uploaders /\ (StartImport(p) \/ Store(p)))
  PROVE  /\ \A q \in Procs \ {p} : at'[q] = at[q]
         /\ at[p] \in Outside /\ at'[p] \in Outside
<1>0. at \in [Procs -> Places]
  BY DEF StorageInv, Turns
<1>1. CASE StartScan(p) \/ StartImport(p) \/ Admit(p) \/ CreateTemp(p) \/ FlushFile(p) \/ ProbeStaged(p)
           \/ Link(p) \/ UnlinkStaged(p)
  BY <1>0, <1>1 DEF StartScan, StartImport, Admit, CreateTemp, FlushFile, ProbeStaged, Link, UnlinkStaged,
                    Goto, Outside, StorageSteps
<1>2. CASE RefuseImport(p) \/ StepFails(p) \/ UnlinkFails(p) \/ Resync(p)
  BY <1>0, <1>2 DEF RefuseImport, StepFails, UnlinkFails, Resync, GiveUp, Goto, Outside, StorageSteps
<1>3. CASE SyncDirs(p) \/ SyncFails(p) \/ Rollback(p)
  BY <1>0, <1>3 DEF SyncDirs, SyncFails, Rollback, Goto, Outside, StorageSteps
<1> QED
  BY <1>1, <1>2, <1>3 DEF Store

LEMMA VerdictStep ==
  ASSUME StorageInv, VerdictInv, [Next]_vars
  PROVE  VerdictInv'
<1>0. /\ Turns' /\ (~(Crash \/ PowerFails) => NoneReturns) /\ UNCHANGED lasting
      /\ shown \in [Names -> MaybeFile]
  BY TurnsStep, StepReturnsNone DEF StorageInv, VerdictInv, ScanTypeOK, Next, vars, storageVars
<1>1. CASE Crash \/ PowerFails
  BY <1>0, <1>1, ForgetVerdicts DEF Crash, PowerFails
<1>2. CASE ~(Crash \/ PowerFails) /\ FileStep /\ UNCHANGED scanVars
  <2>1. \A p \in Procs : at'[p] \in {"examine", "restamp"} => at'[p] = at[p]
    <3>1. CASE Boot \/ MaintenanceSweep
      BY <3>1 DEF Boot, MaintenanceSweep
    <3>2. ASSUME NEW u \in Uploaders, StartImport(u) \/ Store(u)
          PROVE  \A p \in Procs : at'[p] \in {"examine", "restamp"} => at'[p] = at[p]
      BY <3>2, ElsewhereThanExamining DEF Procs, Outside, StorageSteps
    <3> QED
      BY <1>2, <3>1, <3>2 DEF FileStep
  <2> QED
    BY <1>0, <1>2, <2>1, VerdictsAside DEF scanVars
<1>3. CASE ~(Crash \/ PowerFails) /\ ScanStep
  <2>1. ASSUME NEW p \in Scanners, StartScan(p)
        PROVE  VerdictInv'
    <3>1. \A q \in Procs : at'[q] \in {"examine", "restamp"} => at'[q] = at[q]
      BY <2>1, ElsewhereThanExamining DEF Procs, Outside, StorageSteps
    <3> QED
      BY <1>0, <1>3, <2>1, <3>1, VerdictsAside DEF StartScan, scanVars
  <2>2. ASSUME NEW p \in Procs, Scan(p)
        PROVE  VerdictInv'
    BY <1>0, <1>3, <2>2, ScanVerdict
  <2>3. CASE \/ ProbePlayed \/ RestampPlayed \/ CondemnPlayed
             \/ \E n \in Names : EnsurePlayable(n) \/ ObsRejects(n)
    <3>1. dir' = dir
      BY <1>0, <2>3, OthersWait DEF FilesStay
    <3>2. /\ PlaybackVerdict'
          /\ playback' \in [step : {"idle", "probe", "restamp", "condemn"},
                            name : Names \cup {Nothing}, entry : Entry]
          /\ cache' \in [Names -> Entry] /\ \A n \in Names : Matches(cache'[n])
          /\ quarantine' \in [Names -> SUBSET MaybeFile] /\ shown' \in [Names -> MaybeFile]
          /\ UNCHANGED <<at, scan, scanGate, newest, snapshot>>
      BY <1>0, <1>3, <2>3, <3>1, PlaybackKeeps
    <3>3. ScanTypeOK'
      BY <3>2 DEF VerdictInv, ScanTypeOK
    <3>4. \A p \in Procs : ScanVerdicts(p)'
      BY <1>0, <1>3, <3>2, VerdictsStay DEF VerdictInv
    <3> QED
      BY <3>2, <3>3, <3>4 DEF VerdictInv
  <2> QED
    BY <1>3, <2>1, <2>2, <2>3 DEF ScanStep
<1>4. ASSUME NEW n \in Names, OutsiderActs(n), ~(Crash \/ PowerFails)
      PROVE  VerdictInv'
  <2>1. UNCHANGED <<at, scanGate, newest, scan, playback, cache, quarantine, snapshot>>
        /\ shown' \in [Names -> MaybeFile]
    BY <1>0, <1>4, OutsiderSpent DEF OutsiderActs, MaybeFile
  <2> QED
    BY <1>0, <1>4, <2>1, VerdictsAside
<1>5. CASE UNCHANGED vars /\ ~(Crash \/ PowerFails)
  <2>1. UNCHANGED <<at, scanVars>>
    BY <1>5 DEF vars, storageVars
  <2> QED
    BY <1>0, <1>5, <2>1, VerdictsAside DEF scanVars
<1> QED
  BY <1>1, <1>2, <1>3, <1>4, <1>5 DEF Next

\* A file that changes while it is probed never passes for the one that was:
\* every verdict in the cache, and in a scan that is about to replace the
\* cache, is kept with the file ffprobe read (validateScannedAsset,
\* ensurePlayableLibraryAssetLocked).
THEOREM VerdictsAreTheirFiles == Spec => []VerdictsBelongToFiles
<1>1. VerdictInv => VerdictsBelongToFiles
  BY DEF VerdictInv, ScanVerdicts, Matches, VerdictsBelongToFiles
<1>2. Spec => []VerdictInv
  BY StorageInvHolds, VerdictStart, VerdictStep, PTL DEF Spec
<1> QED
  BY <1>1, <1>2, PTL

-----------------------------------------------------------------------------
(* What imports have reported stays in the snapshot.  The scan under way    *)
(* has seen every file reported, because nothing is reported under a name   *)
(* between its listing and its publication but by that scan itself; and the *)
(* file of its own import, unless it has an issue to report.                *)

\* A name the scan has seen, and has yet to judge or has accepted.
Covers(p, n) == n \in scan[p].seen /\ (n \in scan[p].todo \/ scan[p].found[n] # NoEntry)
\* The file of the import that scans is still what its name shows.
OwnThere(p) == p \in Uploaders /\ dir[upload[p].name] = upload[p].file

Listed == {"recall", "choose", "examine", "restamp"}

ScanShows(p) ==
  /\ at[p] \in Holding => newest = p
  /\ at[p] \in Listed =>
       /\ \A n \in Names : shown[n] # Nothing => Covers(p, n)
       /\ OwnThere(p) => Covers(p, upload[p].name) \/ scan[p].issues
  /\ at[p] \in {"examine", "restamp"} => scan[p].name \in scan[p].todo

ShowInv ==
  /\ \A u \in Uploaders : at[u] \in Publishing => shown[upload[u].name] = Nothing
  /\ \A p \in Procs : ScanShows(p)
  /\ ImportsShow

\* A step that reports nothing, with every scan where it was.
LEMMA ShowsAside ==
  ASSUME ShowInv, UNCHANGED <<scan, newest, snapshot>>,
         \A n \in Names : shown'[n] # Nothing => shown'[n] = shown[n] /\ dir'[n] = dir[n],
         \A u \in Uploaders : at'[u] \in Publishing => shown'[upload'[u].name] = Nothing,
         \A p \in Procs : at'[p] \in Holding => at'[p] = at[p] /\ (OwnThere(p)' => OwnThere(p)),
         \A u \in Uploaders : at'[u] \in Holding => upload'[u] = upload[u]
  PROVE  ShowInv'
<1>1. ASSUME NEW p \in Procs PROVE ScanShows(p)'
  <2>0. ScanShows(p)
    BY DEF ShowInv
  <2>1. CASE at'[p] \notin Holding
    BY <2>1 DEF ScanShows, Holding, Listed, ScanSteps
  <2>2. CASE at'[p] \in Holding
    <3>1. at'[p] = at[p] /\ (OwnThere(p)' => OwnThere(p) /\ upload'[p].name = upload[p].name)
      BY <2>2 DEF OwnThere
    <3>2. \A n : Covers(p, n) <=> Covers(p, n)'
      BY DEF Covers
    <3>3. OwnThere(p)' /\ Covers(p, upload[p].name) => Covers(p, upload[p].name)'
      BY <3>1 DEF Covers
    <3> QED
      BY <2>0, <3>1, <3>2, <3>3 DEF ScanShows
  <2> QED
    BY <2>1, <2>2
<1>2. ImportsShow'
  BY DEF ShowInv, ImportsShow
<1> QED
  BY <1>1, <1>2 DEF ShowInv

\* The file of an import that scans is published for good, and nobody else's.
LEMMA OwnFile ==
  ASSUME StorageInv, NEW u \in Uploaders, at[u] \in Holding
  PROVE  /\ upload[u].file \in Files /\ Spent(upload[u].file) /\ upload[u].name \in Names
         /\ \A v \in Uploaders \ {u} : upload[v].file # upload[u].file
<1>1. at[u] \notin {"idle", "lock", "create"} /\ at[u] \notin Raw
  BY DEF Holding, ScanSteps, Raw
<1>2. Hand(u) /\ upload[u].file \in Files
  BY <1>1, Handlers
<1> QED
  BY <1>1, <1>2, StorageAssumption DEF Hand, StorageInv, Apart

\* The import's own steps.
LEMMA StoreShows ==
  ASSUME StorageInv, ShowInv, shown \in [Names -> MaybeFile], NEW u \in Uploaders, Store(u), UNCHANGED scanVars
  PROVE  ShowInv'
<1>0. /\ at \in [Procs -> Places] /\ u \in Procs /\ dir \in [Names -> MaybeFile] /\ Hand(u)
      /\ upload \in [Uploaders -> [name : Names \cup {Nothing}, file : MaybeFile]]
      /\ \A n \in Names : shown[n] # Nothing => dir[n] # Nothing
      /\ UNCHANGED <<scan, newest, snapshot, shown>>
  BY Handlers DEF StorageInv, StorageTypeOK, Turns, ShowInv, ImportsShow, scanVars
<1>1. /\ \A v \in Uploaders \ {u} : at'[v] = at[v] /\ upload'[v] = upload[v] /\ at[v] \notin Publishing
      /\ \A q \in Procs \ {u} : at'[q] = at[q]
      /\ at[u] \in Outside /\ at'[u] \in Outside
  BY <1>0, StoreNeighbours, ElsewhereThanExamining DEF Neighbours, Critical, Publishing
<1>2. \/ dir' = dir
      \/ Link(u)
      \/ at[u] \in Publishing /\ dir' = [dir EXCEPT ![upload[u].name] = Nothing]
  BY DEF Store, Admit, RefuseImport, CreateTemp, FlushFile, ProbeStaged, StepFails, UnlinkStaged,
         UnlinkFails, SyncDirs, SyncFails, Rollback, Resync, Show, fsVars, Publishing
<1>3. Link(u) => /\ dir' = [dir EXCEPT ![upload[u].name] = upload[u].file] /\ at[u] = "link"
                 /\ dir[upload[u].name] = Nothing /\ upload[u].name \in Names /\ upload[u].file \in Files
                 /\ upload' = upload
  BY Handlers DEF Link, Show, Hand
<1>4. at[u] \in Publishing => upload[u].name \in Names /\ shown[upload[u].name] = Nothing
  BY <1>0 DEF ShowInv, Hand, Publishing
<1>5. ASSUME NEW n \in Names, shown[n] # Nothing PROVE dir'[n] = dir[n]
  BY <1>0, <1>2, <1>3, <1>4, <1>5
<1>6. at'[u] \in Publishing => shown[upload'[u].name] = Nothing
  <2>1. CASE Link(u)
    BY <1>0, <1>3, <2>1
  <2>2. CASE UnlinkStaged(u) \/ SyncFails(u) \/ Rollback(u)
    BY <1>4, <2>2 DEF UnlinkStaged, SyncFails, Rollback, Publishing
  <2>3. CASE ~(Link(u) \/ UnlinkStaged(u) \/ SyncFails(u) \/ Rollback(u))
    BY <1>0, <2>3 DEF Store, Admit, RefuseImport, CreateTemp, FlushFile, ProbeStaged, StepFails,
                UnlinkFails, SyncDirs, Resync, GiveUp, Goto, Publishing
  <2> QED
    BY <2>1, <2>2, <2>3
<1>7. ASSUME NEW p \in Procs, at'[p] \in Holding
      PROVE  at'[p] = at[p] /\ (OwnThere(p)' => OwnThere(p)) /\ (p \in Uploaders => upload'[p] = upload[p])
  <2>1. p # u /\ at'[p] = at[p] /\ at[p] \in Holding
    BY <1>1, <1>7, PlacesSplit
  <2>2. CASE p \in Uploaders
    <3>1. /\ upload[p].file \in Files /\ upload[p].name \in Names /\ upload[p].file # upload[u].file
          /\ upload'[p] = upload[p]
      BY <1>1, <2>1, <2>2, OwnFile
    <3>2. dir'[upload[p].name] = upload[p].file => dir[upload[p].name] = upload[p].file
      BY <1>0, <1>2, <1>3, <1>4, <3>1, StorageAssumption
    <3> QED
      BY <2>1, <3>1, <3>2 DEF OwnThere
  <2> QED
    BY <2>1, <2>2 DEF OwnThere
<1> QED
  BY <1>0, <1>1, <1>5, <1>6, <1>7, ShowsAside DEF Procs

\* One scan at a time: the others hold no gate, before the step or after it.
LEMMA OneScan ==
  ASSUME StorageInv, VerdictInv, NEW p \in Procs, Scan(p)
  PROVE  /\ \A q \in Procs \ {p} : at'[q] = at[q]
         /\ ~GateCancelled(p) => \A q \in Procs \ {p} : at[q] \notin Holding
         /\ at[p] \in ScanSteps
         /\ \A q \in Uploaders \ {p} : upload'[q] = upload[q]
         /\ at'[p] \notin Publishing /\ dir' = dir
<1>0. at \in [Procs -> Places] /\ ScansTakeTurns /\ scan \in [Procs -> ScanLocals]
      /\ upload \in [Uploaders -> [name : Names \cup {Nothing}, file : MaybeFile]]
  BY DEF StorageInv, Turns, StorageTypeOK, VerdictInv, ScanTypeOK, ScanLocals
<1>1. dir' = dir
  BY DEF Scan, AcquireGate, GateCancelled, List, Recall, ChooseAsset, ProbeAsset, Restamp, Publish, ScanFails,
         unchangedStorage
<1>2. at[p] \in ScanSteps
  BY DEF Scan, AcquireGate, GateCancelled, List, Recall, ChooseAsset, ProbeAsset, Restamp, Publish, ScanFails,
         ScanSteps
<1>3. at' = at \/ \E step \in ScanSteps \cup {"idle"} : Goto(p, step)
  BY DEF Scan, AcquireGate, GateCancelled, List, Recall, ChooseAsset, ProbeAsset, Restamp, Publish, ScanFails,
         Return, ScanSteps
<1>4. upload' = upload \/ upload' = [q \in Uploaders |-> IF q = p THEN NoUpload ELSE upload[q]]
  BY DEF Scan, AcquireGate, GateCancelled, List, Recall, ChooseAsset, ProbeAsset, Restamp, Publish, ScanFails,
         Return
<1>5. ~GateCancelled(p) => \A q \in Procs \ {p} : at[q] \notin Holding
  <2>1. CASE AcquireGate(p)
    BY <1>0, <2>1, PlacesSplit DEF AcquireGate, ScansTakeTurns, Holding
  <2>2. CASE ~AcquireGate(p) /\ ~GateCancelled(p)
    <3>1. at[p] \in Holding
      BY <2>2 DEF Scan, List, Recall, ChooseAsset, ProbeAsset, Restamp, Publish, ScanFails, Holding, ScanSteps
    <3> QED
      BY <1>0, <3>1 DEF ScansTakeTurns, Holding
  <2> QED
    BY <2>1, <2>2
<1>6. at'[p] \notin Publishing
  BY <1>0, <1>2, <1>3 DEF Goto, ScanSteps, Publishing
<1> QED
  BY <1>0, <1>1, <1>2, <1>3, <1>4, <1>5, <1>6 DEF Goto

\* The scan under way shows enough: that is all there is to show.
LEMMA ShowsInScan ==
  ASSUME StorageInv, VerdictInv, ShowInv, NEW p \in Procs, Scan(p), ~GateCancelled(p),
         UNCHANGED snapshot, \A n \in Names : shown'[n] \in {shown[n], Nothing}, ScanShows(p)'
  PROVE  ShowInv'
<1>1. ASSUME NEW q \in Procs \ {p} PROVE ScanShows(q)'
  <2>1. at'[q] \notin Holding
    BY OneScan
  <2> QED
    BY <2>1 DEF ScanShows, Holding, Listed, ScanSteps
<1>2. ImportsShow'
  BY OneScan DEF ShowInv, ImportsShow
<1>3. ASSUME NEW u \in Uploaders, at'[u] \in Publishing PROVE shown'[upload'[u].name] = Nothing
  <2>1. u # p /\ at[u] \in Publishing /\ upload'[u] = upload[u]
    BY <1>3, OneScan DEF Procs
  <2>2. shown[upload[u].name] = Nothing /\ upload[u].name \in Names
    BY <2>1, Handlers DEF ShowInv, Hand, Publishing
  <2> QED
    BY <2>1, <2>2
<1> QED
  BY <1>1, <1>2, <1>3 DEF ShowInv

\* The steps of the scan that judge a name.
LEMMA JudgedShows ==
  ASSUME StorageInv, VerdictInv, ShowInv, NEW p \in Procs, Scan(p), at[p] \in Listed \ {"recall"},
         at'[p] = "choose", UNCHANGED <<newest, upload, snapshot>>, NEW n \in Names,
         Refuse(p, n) \/ \E entry \in Entry \ {NoEntry} : Accept(p, n, entry)
  PROVE  ShowInv'
<1>0. /\ ScanShows(p) /\ at[p] \in Holding /\ newest = p /\ scan \in [Procs -> ScanLocals] /\ dir' = dir
      /\ scan[p].found \in [Names -> Entry] /\ shown \in [Names -> MaybeFile] /\ ~GateCancelled(p)
  BY OneScan DEF ShowInv, ScanShows, Listed, Holding, ScanSteps, VerdictInv, ScanTypeOK, ScanLocals, GateCancelled
<1>1. \A m \in Names : Covers(p, m) => Covers(p, m)' \/ (m = n /\ Refuse(p, n))
  <2>1. CASE Refuse(p, n)
    <3>1. scan'[p].seen = scan[p].seen /\ scan'[p].todo = scan[p].todo \ {n} /\ scan'[p].found = scan[p].found
      BY <1>0, <2>1, RefuseRecord
    <3> QED
      BY <2>1, <3>1 DEF Covers
  <2>2. ASSUME NEW entry \in Entry \ {NoEntry}, Accept(p, n, entry)
        PROVE  \A m \in Names : Covers(p, m) => Covers(p, m)'
    <3>1. /\ scan'[p].seen = scan[p].seen /\ scan'[p].todo = scan[p].todo \ {n}
          /\ scan'[p].found = [scan[p].found EXCEPT ![n] = entry]
      BY <1>0, <2>2, AcceptRecord
    <3>2. \A m \in Names : scan'[p].found[m] = IF m = n THEN entry ELSE scan[p].found[m]
      BY <1>0, <3>1
    <3> QED
      BY <3>1, <3>2 DEF Covers
  <2> QED
    BY <2>1, <2>2
<1>2. /\ \A m \in Names : shown'[m] \in {shown[m], Nothing}
      /\ Refuse(p, n) => shown'[n] = Nothing /\ scan'[p].issues = TRUE
      /\ scan[p].issues => scan'[p].issues
  <2>1. CASE Refuse(p, n)
    BY <1>0, <2>1, RefuseRecord, ZenonT(60) DEF Refuse
  <2>2. ASSUME NEW entry \in Entry, Accept(p, n, entry)
        PROVE  shown' = shown /\ scan'[p].issues = scan[p].issues
    BY <1>0, <2>2, AcceptRecord DEF Accept
  <2> QED
    BY <2>1, <2>2
<1>3. OwnThere(p)' => OwnThere(p) /\ upload[p].name \in Names
  BY <1>0, OwnFile DEF OwnThere
<1>4. OwnThere(p)' => (Covers(p, upload[p].name) => Covers(p, upload[p].name)' \/ scan'[p].issues)
  BY <1>1, <1>2, <1>3
<1>5. ScanShows(p)'
  <2>1. \A m \in Names : shown'[m] # Nothing => Covers(p, m)'
    BY <1>0, <1>1, <1>2 DEF ScanShows, Listed
  <2>2. OwnThere(p)' => Covers(p, upload[p].name)' \/ scan'[p].issues
    BY <1>0, <1>2, <1>3, <1>4 DEF ScanShows, Listed
  <2> QED
    BY <1>0, <2>1, <2>2 DEF ScanShows
<1> QED
  BY <1>0, <1>2, <1>5, ShowsInScan

LEMMA ScanBeginsShows ==
  ASSUME StorageInv, VerdictInv, ShowInv, NEW p \in Procs,
         AcquireGate(p) \/ GateCancelled(p) \/ ScanFails(p)
  PROVE  ShowInv'
<1>0. Scan(p) /\ at \in [Procs -> Places] /\ shown' = shown /\ snapshot' = snapshot
  BY DEF Scan, StorageInv, Turns, AcquireGate, GateCancelled, ScanFails, scanVars
<1>1. CASE AcquireGate(p)
  <2>1. at'[p] = "list" /\ newest' = p /\ ~GateCancelled(p)
    BY <1>0, <1>1 DEF AcquireGate, GateCancelled, Goto
  <2>2. ScanShows(p)'
    BY <2>1 DEF ScanShows, Listed
  <2> QED
    BY <1>0, <2>1, <2>2, ShowsInScan
<1>2. CASE GateCancelled(p)
  <2>1. at'[p] = "idle" /\ UNCHANGED <<scan, newest>>
    BY <1>0, <1>2 DEF GateCancelled, Goto, scanVars
  <2>2. at'[p] \notin Holding /\ at'[p] \notin Publishing
    BY <2>1 DEF Holding, ScanSteps, Publishing
  <2>3. ASSUME NEW q \in Procs, at'[q] \in Holding
        PROVE  at'[q] = at[q] /\ (OwnThere(q)' => OwnThere(q)) /\ (q \in Uploaders => upload'[q] = upload[q])
    BY <1>0, <2>2, <2>3, OneScan DEF OwnThere
  <2>4. ASSUME NEW u \in Uploaders, at'[u] \in Publishing PROVE shown'[upload'[u].name] = Nothing
    BY <1>0, <2>2, <2>4, OneScan DEF ShowInv, Procs
  <2>5. \A n \in Names : shown'[n] # Nothing => shown'[n] = shown[n] /\ dir'[n] = dir[n]
    BY <1>0, OneScan
  <2> QED
    BY <1>0, <2>1, <2>3, <2>4, <2>5, ShowsAside DEF Procs
<1>3. CASE ScanFails(p)
  <2>1. at'[p] = "idle" /\ ~GateCancelled(p)
    BY <1>0, <1>3 DEF ScanFails, GateCancelled, Return, Goto
  <2>2. ScanShows(p)'
    BY <2>1 DEF ScanShows, Listed, Holding, ScanSteps
  <2> QED
    BY <1>0, <2>1, <2>2, ShowsInScan
<1> QED
  BY <1>1, <1>2, <1>3

LEMMA ListShows ==
  ASSUME StorageInv, VerdictInv, ShowInv, NEW p \in Procs, List(p)
  PROVE  ShowInv'
<1>0. /\ scan[p] \in ScanLocals /\ scan \in [Procs -> ScanLocals] /\ at \in [Procs -> Places] /\ newest = p
      /\ UNCHANGED <<shown, snapshot, newest, upload, dir>> /\ Scan(p) /\ ~GateCancelled(p) /\ at'[p] = "recall"
  BY DEF List, Goto, StorageInv, Turns, VerdictInv, ScanTypeOK, ScanLocals, ShowInv, ScanShows, Scan,
         GateCancelled, unchangedStorage, Holding, ScanSteps
<1> DEFINE entries == {n \in Names : dir[n] # Nothing}
<1>1. scan'[p].todo = entries /\ scan'[p].seen = entries
  <2>1. PICK odd \in BOOLEAN :
          scan' = [scan EXCEPT ![p].todo = entries, ![p].seen = entries, ![p].issues = odd]
    BY DEF List
  <2> DEFINE m == [scan[p] EXCEPT !.todo = entries, !.seen = entries, !.issues = odd]
  <2>2. m.todo = entries /\ m.seen = entries
    BY <1>0 DEF ScanLocals
  <2>3. scan' = [scan EXCEPT ![p] = m]
    BY <2>1
  <2> HIDE DEF m
  <2> QED
    BY <1>0, <2>2, <2>3
<1>2. ASSUME NEW n \in Names, dir[n] # Nothing PROVE Covers(p, n)'
  BY <1>1, <1>2 DEF Covers
<1>3. \A n \in Names : shown'[n] # Nothing => Covers(p, n)'
  BY <1>0, <1>2 DEF ShowInv, ImportsShow
<1>4. OwnThere(p)' => Covers(p, upload[p].name)'
  <2>1. CASE OwnThere(p)
    <3>1. upload[p].name \in Names /\ dir[upload[p].name] # Nothing
      BY <2>1, OwnFile, StorageAssumption DEF OwnThere, List, Holding, ScanSteps
    <3> QED
      BY <1>0, <1>1, <3>1 DEF Covers
  <2> QED
    BY <1>0, <2>1 DEF OwnThere
<1>5. ScanShows(p)'
  BY <1>0, <1>3, <1>4 DEF ScanShows
<1> QED
  BY <1>0, <1>5, ShowsInScan

\* The scan goes on without a verdict.
LEMMA OnwardShows ==
  ASSUME StorageInv, VerdictInv, ShowInv, NEW p \in Procs, Scan(p),
         at[p] \in Listed, at'[p] \in Listed, UNCHANGED <<newest, upload, snapshot, shown>>,
         /\ scan'[p].seen = scan[p].seen /\ scan'[p].todo = scan[p].todo
         /\ scan'[p].found = scan[p].found /\ scan'[p].issues = scan[p].issues,
         at'[p] \in {"examine", "restamp"} => scan'[p].name \in scan[p].todo
  PROVE  ShowInv'
<1>1. /\ dir' = dir /\ newest = p /\ ~GateCancelled(p) /\ ScanShows(p)
  BY OneScan DEF ShowInv, ScanShows, GateCancelled, Listed, Holding, ScanSteps
<1>2. \A n : Covers(p, n) <=> Covers(p, n)'
  BY DEF Covers
<1>3. (OwnThere(p) <=> OwnThere(p)') /\ (Covers(p, upload[p].name) => Covers(p, upload[p].name)')
  BY <1>1 DEF OwnThere, Covers
<1>4. ScanShows(p)'
  BY <1>1, <1>2, <1>3 DEF ScanShows
<1> QED
  BY <1>1, <1>4, ShowsInScan

LEMMA ScanGoesOnShows ==
  ASSUME StorageInv, VerdictInv, ShowInv, NEW p \in Procs,
         Recall(p) \/ ChooseAsset(p) \/ ProbeAsset(p) \/ Restamp(p)
  PROVE  ShowInv'
<1>0. /\ scan[p] \in ScanLocals /\ scan \in [Procs -> ScanLocals] /\ at \in [Procs -> Places]
      /\ cache \in [Names -> Entry] /\ dir \in [Names -> MaybeFile]
      /\ Scan(p) /\ at[p] \in Listed /\ UNCHANGED <<newest, upload, snapshot>>
      /\ ScanShows(p) /\ ScanVerdicts(p) /\ Nothing \notin Files
      /\ \A entry \in Entry : entry.stamp # Nothing => entry # NoEntry
  <2>1. /\ scan[p] \in ScanLocals /\ scan \in [Procs -> ScanLocals] /\ at \in [Procs -> Places]
        /\ cache \in [Names -> Entry] /\ dir \in [Names -> MaybeFile]
        /\ ScanShows(p) /\ ScanVerdicts(p)
    BY DEF StorageInv, StorageTypeOK, Turns, VerdictInv, ScanTypeOK, ScanLocals, ShowInv
  <2>2. Scan(p) /\ at[p] \in Listed /\ UNCHANGED <<newest, upload, snapshot>>
    BY DEF Recall, ChooseAsset, ProbeAsset, Restamp, Scan, Listed
  <2>3. Nothing \notin Files /\ \A entry \in Entry : entry.stamp # Nothing => entry # NoEntry
    BY StorageAssumption DEF NoEntry
  <2> QED
    BY <2>1, <2>2, <2>3
<1>1. CASE Recall(p)
  <2> DEFINE m == [scan[p] EXCEPT !.known = cache]
  <2>1. m.seen = scan[p].seen /\ m.todo = scan[p].todo /\ m.found = scan[p].found /\ m.issues = scan[p].issues
    BY <1>0 DEF ScanLocals
  <2>2. scan' = [scan EXCEPT ![p] = m] /\ shown' = shown /\ at'[p] = "choose"
    BY <1>0, <1>1 DEF Recall, Goto
  <2> HIDE DEF m
  <2>3. scan'[p] = m
    BY <1>0, <2>2
  <2> QED
    BY <1>0, <2>1, <2>2, <2>3, OnwardShows DEF Listed
<1>2. CASE ChooseAsset(p)
  <2>1. PICK n \in scan[p].todo :
       \/ dir[n] = Nothing /\ Refuse(p, n) /\ UNCHANGED at
       \/ /\ dir[n] # Nothing
          /\ scan[p].known[n].stamp = dir[n]
          /\ Accept(p, n, scan[p].known[n])
          /\ UNCHANGED at
       \/ /\ dir[n] # Nothing
          /\ scan[p].known[n].stamp # dir[n]
          /\ scan' = [scan EXCEPT ![p].name = n, ![p].entry.stamp = dir[n]]
          /\ Goto(p, "examine")
          /\ UNCHANGED shown
    BY <1>2 DEF ChooseAsset
  <2>2. n \in Names /\ scan[p].known[n] \in Entry /\ at[p] = "choose" /\ at[p] \in Listed \ {"recall"}
    BY <1>0, <1>2 DEF ScanLocals, ChooseAsset, Listed
  <2>3. CASE dir[n] = Nothing /\ Refuse(p, n) /\ UNCHANGED at
    BY <1>0, <2>2, <2>3, JudgedShows
  <2>4. CASE dir[n] # Nothing /\ scan[p].known[n].stamp = dir[n] /\ Accept(p, n, scan[p].known[n]) /\ UNCHANGED at
    <3>1. scan[p].known[n] \in Entry \ {NoEntry}
      BY <1>0, <2>2, <2>4
    <3> QED
      BY <1>0, <2>2, <2>4, <3>1, JudgedShows
  <2>5. CASE /\ Goto(p, "examine") /\ UNCHANGED shown
             /\ scan' = [scan EXCEPT ![p].name = n, ![p].entry.stamp = dir[n]]
    <3> DEFINE m == [scan[p] EXCEPT !.name = n, !.entry.stamp = dir[n]]
    <3>1. /\ m.seen = scan[p].seen /\ m.todo = scan[p].todo /\ m.found = scan[p].found
          /\ m.issues = scan[p].issues /\ m.name = n
      BY <1>0 DEF ScanLocals
    <3>2. scan' = [scan EXCEPT ![p] = m]
      BY <2>5
    <3> HIDE DEF m
    <3>3. scan'[p] = m /\ at'[p] = "examine"
      BY <1>0, <2>5, <3>2 DEF Goto
    <3> QED
      BY <1>0, <2>5, <3>1, <3>3, OnwardShows DEF Listed
  <2> QED
    BY <2>1, <2>3, <2>4, <2>5
<1>3. CASE ProbeAsset(p)
  <2>0. at[p] = "examine" /\ scan[p].name \in scan[p].todo /\ scan[p].name \in Names
        /\ at[p] \in Listed \ {"recall"}
    BY <1>0, <1>3 DEF ProbeAsset, ScanShows, ScanLocals, Listed
  <2>1. CASE /\ Goto(p, "restamp") /\ UNCHANGED shown
             /\ scan' = [scan EXCEPT ![p].entry.probed = dir[scan[p].name]]
    <3> DEFINE m == [scan[p] EXCEPT !.entry.probed = dir[scan[p].name]]
    <3>1. /\ m.seen = scan[p].seen /\ m.todo = scan[p].todo /\ m.found = scan[p].found
          /\ m.issues = scan[p].issues /\ m.name = scan[p].name
      BY <1>0 DEF ScanLocals
    <3>2. scan' = [scan EXCEPT ![p] = m]
      BY <2>1
    <3> HIDE DEF m
    <3>3. scan'[p] = m /\ at'[p] = "restamp"
      BY <1>0, <2>1, <3>2 DEF Goto
    <3> QED
      BY <1>0, <2>0, <2>1, <3>1, <3>3, OnwardShows DEF Listed
  <2>2. CASE Refuse(p, scan[p].name) /\ Goto(p, "choose")
    <3>1. at'[p] = "choose"
      BY <1>0, <2>2 DEF Goto
    <3> QED
      BY <1>0, <2>0, <2>2, <3>1, JudgedShows
  <2> QED
    BY <1>3, <2>1, <2>2 DEF ProbeAsset
<1>4. CASE Restamp(p)
  <2>0. /\ at[p] = "restamp" /\ at'[p] = "choose" /\ scan[p].name \in Names /\ at[p] \in Listed \ {"recall"}
        /\ scan[p].entry \in Entry /\ scan[p].entry.stamp \in Files
    BY <1>0, <1>4 DEF Restamp, Goto, ScanVerdicts, Examined, Stamped, SpentFiles, Listed
  <2>1. CASE Accept(p, scan[p].name, scan[p].entry)
    <3>1. scan[p].entry \in Entry \ {NoEntry}
      BY <1>0, <2>0
    <3> QED
      BY <1>0, <2>0, <2>1, <3>1, JudgedShows
  <2>2. CASE Refuse(p, scan[p].name)
    BY <1>0, <2>0, <2>2, JudgedShows
  <2> QED
    BY <1>4, <2>1, <2>2 DEF Restamp
<1> QED
  BY <1>1, <1>2, <1>3, <1>4

\* The publication: what the scan has covered and not condemned is in the new
\* snapshot, and only its own import's file is reported with it.
LEMMA PublishShows ==
  ASSUME StorageInv, VerdictInv, ShowInv, NEW p \in Procs, Publish(p)
  PROVE  ShowInv'
<1> DEFINE valid == {n \in scan[p].seen : scan[p].found[n] # NoEntry}
           clean == ~scan[p].issues /\ ~\E n \in valid : Condemned(n)
           own(n) == clean /\ p \in Uploaders /\ upload[p].name = n /\ dir[n] = upload[p].file
           gone(n) == n \in valid /\ Condemned(n)
<1>0. /\ at[p] = "choose" /\ scan[p].todo = {} /\ newest = p /\ ScanShows(p) /\ Scan(p)
      /\ at \in [Procs -> Places] /\ at'[p] = "idle" /\ dir' = dir /\ ~GateCancelled(p)
      /\ at[p] \in Holding /\ at[p] \in Listed
  BY OneScan DEF Publish, Return, Goto, StorageInv, Turns, ShowInv, ScanShows, Scan, GateCancelled, Holding,
                 Listed, ScanSteps
<1>1. /\ shown' = [n \in Names |-> CASE own(n) -> dir[n] [] gone(n) -> Nothing [] OTHER -> shown[n]]
      /\ snapshot' = {n \in valid : ~Condemned(n)}
  BY <1>0 DEF Publish
<1>2. ASSUME NEW n \in Names, Covers(p, n) PROVE n \in valid
  BY <1>0, <1>2 DEF Covers
<1>3. ASSUME NEW n \in Names, own(n) PROVE n \in snapshot' /\ dir[n] = upload[p].file
  <2>1. OwnThere(p) /\ upload[p].name = n /\ ~scan[p].issues
    BY <1>3 DEF OwnThere
  <2>2. n \in valid
    BY <1>0, <1>2, <2>1 DEF ScanShows
  <2> QED
    BY <1>1, <1>3, <2>2
<1>4. ASSUME NEW n \in Names, shown[n] # Nothing, ~gone(n) PROVE n \in snapshot' /\ dir[n] = shown[n]
  <2>1. n \in valid
    BY <1>0, <1>2, <1>4 DEF ScanShows
  <2> QED
    BY <1>1, <1>4, <2>1 DEF ShowInv, ImportsShow
<1>5. ASSUME NEW n \in Names
      PROVE  \/ own(n) /\ shown'[n] = dir[n]
             \/ shown'[n] = Nothing
             \/ ~gone(n) /\ shown'[n] = shown[n]
  <2> HIDE DEF own, gone
  <2> QED
    BY <1>1
<1>6. ImportsShow'
  BY <1>0, <1>3, <1>4, <1>5 DEF ImportsShow
<1>7. \A q \in Procs : at'[q] \notin Holding
  BY <1>0, OneScan DEF Holding, ScanSteps
<1>8. \A q \in Procs : ScanShows(q)'
  BY <1>7 DEF ScanShows, Holding, Listed, ScanSteps
<1>9. ASSUME NEW u \in Uploaders, at'[u] \in Publishing PROVE shown'[upload'[u].name] = Nothing
  <2>1. u # p /\ at[u] \in Publishing /\ upload'[u] = upload[u]
    BY <1>0, <1>9, OneScan DEF Procs, Publishing
  <2>2. /\ upload[u].name \in Names /\ shown[upload[u].name] = Nothing
        /\ dir[upload[u].name] \in {upload[u].file, Nothing}
    BY <2>1, Handlers DEF ShowInv, Hand, Publishing
  <2>3. ~own(upload[u].name)
    <3>1. CASE p \in Uploaders
      <4>1. upload[p].file \in Files /\ upload[u].file # upload[p].file
        BY <1>0, <2>1, <3>1, OwnFile
      <4> QED
        BY <2>2, <4>1, StorageAssumption
    <3> QED
      BY <3>1
  <2> QED
    BY <1>5, <2>1, <2>2, <2>3
<1> QED
  BY <1>6, <1>8, <1>9 DEF ShowInv

\* Playback and OBS only take back what was shown.
LEMMA PlaybackShows ==
  ASSUME StorageInv, VerdictInv, ShowInv,
         \/ ProbePlayed \/ RestampPlayed \/ CondemnPlayed
         \/ \E n \in Names : EnsurePlayable(n) \/ ObsRejects(n)
  PROVE  ShowInv'
<1>0. /\ UNCHANGED <<at, upload, dir, scan, newest, snapshot>>
      /\ shown' = shown \/ \E n : shown' = [shown EXCEPT ![n] = Nothing]
      /\ shown \in [Names -> MaybeFile]
  BY DEF ProbePlayed, RestampPlayed, CondemnPlayed, EnsurePlayable, ObsRejects, Quarantine, unchangedStorage,
         VerdictInv, ScanTypeOK
<1>1. \A n \in Names : shown'[n] \in {shown[n], Nothing}
  BY <1>0
<1>2. ASSUME NEW u \in Uploaders, at'[u] \in Publishing PROVE shown'[upload'[u].name] = Nothing
  BY <1>0, <1>1, <1>2, Handlers DEF ShowInv, Hand, Publishing
<1>3. \A p \in Procs : OwnThere(p)' => OwnThere(p)
  BY <1>0 DEF OwnThere
<1> QED
  BY <1>0, <1>1, <1>2, <1>3, ShowsAside DEF Procs

\* What an outsider changes is reported no more, and no import's own file.
LEMMA OutsiderShows ==
  ASSUME StorageInv, VerdictInv, ShowInv, NEW n \in Names, OutsiderActs(n)
  PROVE  ShowInv'
<1>0. /\ UNCHANGED <<at, upload, scan, newest, snapshot>> /\ shown' = [shown EXCEPT ![n] = Nothing]
      /\ \A m \in Names \ {n} : dir'[m] = dir[m]
      /\ shown \in [Names -> MaybeFile]
  BY DEF OutsiderActs, OutsiderPuts, OutsiderRemoves, Changed, StorageInv, StorageTypeOK, VerdictInv, ScanTypeOK
<1>1. \A m \in Names : shown'[m] # Nothing => shown'[m] = shown[m] /\ dir'[m] = dir[m]
  BY <1>0
<1>2. ASSUME NEW u \in Uploaders, at'[u] \in Publishing PROVE shown'[upload'[u].name] = Nothing
  BY <1>0, <1>2, Handlers DEF ShowInv, Hand, Publishing
<1>3. ASSUME NEW p \in Procs, at'[p] \in Holding, OwnThere(p)' PROVE OwnThere(p)
  <2>1. p \in Uploaders /\ dir'[upload[p].name] = upload[p].file /\ at[p] \in Holding
    BY <1>0, <1>3 DEF OwnThere
  <2>2. upload[p].file \in Files /\ made[upload[p].file] # "unused" /\ upload[p].name \in Names
    BY <2>1, OwnFile DEF Spent
  <2>3. upload[p].name # n
    BY <2>1, <2>2, OutsiderSpent, StorageAssumption
  <2> QED
    BY <1>0, <2>1, <2>2, <2>3 DEF OwnThere
<1> QED
  BY <1>0, <1>1, <1>2, <1>3, ShowsAside

LEMMA ShowStart == Init => ShowInv
<1> SUFFICES ASSUME Init PROVE ShowInv
  OBVIOUS
<1>1. \A p \in Procs : at[p] = "idle"
  BY DEF Init
<1>2. \A p \in Procs : ScanShows(p)
  BY <1>1 DEF ScanShows, Holding, Listed, ScanSteps
<1>3. ImportsShow
  BY DEF Init, ImportsShow, NoFiles
<1> QED
  BY <1>1, <1>2, <1>3 DEF ShowInv, Procs, Publishing

LEMMA ForgetShows ==
  ASSUME Forget
  PROVE  ShowInv'
<1>1. \A p \in Procs : at'[p] = "idle"
  BY DEF Forget
<1>2. \A p \in Procs : ScanShows(p)'
  BY <1>1 DEF ScanShows, Holding, Listed, ScanSteps
<1>3. ImportsShow'
  BY DEF Forget, ImportsShow, NoFiles
<1> QED
  BY <1>1, <1>2, <1>3 DEF ShowInv, Procs, Publishing

LEMMA ShowStep ==
  ASSUME StorageInv, VerdictInv, ShowInv, [Next]_vars
  PROVE  ShowInv'
<1>0. at \in [Procs -> Places] /\ shown \in [Names -> MaybeFile] /\ Uploaders \subseteq Procs
  BY DEF StorageInv, Turns, VerdictInv, ScanTypeOK, Procs
<1>1. ASSUME UNCHANGED <<scan, newest, snapshot, shown, dir, at, upload>> PROVE ShowInv'
  <2>1. \A p \in Procs : OwnThere(p)' => OwnThere(p)
    BY <1>1 DEF OwnThere
  <2>2. \A u \in Uploaders : at'[u] \in Publishing => shown'[upload'[u].name] = Nothing
    BY <1>1 DEF ShowInv
  <2> QED
    BY <1>1, <2>1, <2>2, ShowsAside
\* A handler or a scanner that begins.
<1>2. ASSUME NEW p \in Procs, (p \in Scanners /\ StartScan(p)) \/ (p \in Uploaders /\ StartImport(p)),
             UNCHANGED scanVars
      PROVE  ShowInv'
  <2>1. /\ at'[p] \in {"gate", "lock"} /\ \A q \in Procs \ {p} : at'[q] = at[q]
        /\ \A u \in Uploaders \ {p} : upload'[u] = upload[u]
        /\ UNCHANGED <<dir, scan, newest, snapshot, shown>>
    BY <1>0, <1>2 DEF StartScan, StartImport, Goto, scanVars, unchangedStorage, fsVars, StorageInv, StorageTypeOK
  <2>2. at'[p] \notin Holding /\ at'[p] \notin Publishing
    BY <2>1 DEF Holding, ScanSteps, Publishing
  <2>3. \A q \in Procs \ {p} : OwnThere(q)' => OwnThere(q)
    BY <2>1 DEF OwnThere
  <2>4. \A u \in Uploaders : at'[u] \in Publishing => shown'[upload'[u].name] = Nothing
    BY <2>1, <2>2, <1>0 DEF ShowInv
  <2> QED
    BY <1>0, <2>1, <2>2, <2>3, <2>4, ShowsAside
<1>3. CASE FileStep /\ UNCHANGED scanVars
  <2>1. CASE Boot \/ MaintenanceSweep
    BY <1>1, <1>3, <2>1 DEF Boot, MaintenanceSweep, SweepPass, scanVars
  <2> QED
    BY <1>0, <1>2, <1>3, <2>1, StoreShows DEF FileStep
<1>4. CASE ScanStep
  <2>1. ASSUME NEW p \in Scanners, StartScan(p) PROVE ShowInv'
    BY <1>2, <2>1 DEF StartScan, Procs
  <2>2. ASSUME NEW p \in Procs, Scan(p) PROVE ShowInv'
    BY <2>2, ScanBeginsShows, ListShows, ScanGoesOnShows, PublishShows DEF Scan
  <2> QED
    BY <1>4, <2>1, <2>2, PlaybackShows DEF ScanStep
<1>5. ASSUME NEW n \in Names, OutsiderActs(n) PROVE ShowInv'
  BY <1>5, OutsiderShows
<1>6. CASE Crash \/ PowerFails
  BY <1>6, ForgetShows DEF Crash, PowerFails
<1>7. CASE UNCHANGED vars
  BY <1>1, <1>7 DEF vars, storageVars, scanVars
<1> QED
  BY <1>3, <1>4, <1>5, <1>6, <1>7 DEF Next

\* A file an import reported without a reminder is in the library the next
\* selection draws from, until somebody changes it or a probe or OBS refuses
\* it: no scan that looked earlier takes it out again (ImportLibraryUpload,
\* acquireLibraryScan, publishLibraryScan).
THEOREM ImportsAreShown == Spec => []ImportsShow
<1>1. Init => StorageInv /\ VerdictInv /\ ShowInv
  BY StorageStart, VerdictStart, ShowStart
<1>2. (StorageInv /\ VerdictInv /\ ShowInv) /\ [Next]_vars => (StorageInv /\ VerdictInv /\ ShowInv)'
  BY StorageStep, VerdictStep, ShowStep
<1>3. StorageInv /\ VerdictInv /\ ShowInv => ImportsShow
  BY DEF ShowInv
<1> QED
  BY <1>1, <1>2, <1>3, PTL DEF Spec
=============================================================================
