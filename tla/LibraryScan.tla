---------------------------- MODULE LibraryScan ----------------------------
(***************************************************************************)
(* What the bot believes about the files of its library                    *)
(* (internal/app/library_health.go and the scan part of library.go) while  *)
(* imports, outsiders and power failures change them underneath            *)
(* (LibraryStorage).                                                       *)
(*                                                                         *)
(* A scan lists the directories and probes what it does not know yet, one  *)
(* scan at a time (libraryScanGate) and without playbackMu, and publishes  *)
(* a snapshot and a validation cache.  Playback validates the file it is   *)
(* about to show under playbackMu and quarantines what fails.  A verdict   *)
(* is kept with the identity of the file it was reached on.                *)
(***************************************************************************)
EXTENDS LibraryStorage

CONSTANT Scanners     \* workers that call ScanLibrary: the scheduler, a command

ASSUME ScanAssumption == Nothing \notin Scanners /\ Scanners \cap Uploaders = {}

VARIABLES
  scanGate,    \* the holder of libraryScanGate
  newest,      \* whose scan has the value of libraryScanGeneration, if it still runs
  scan,        \* the locals of each scan
  playback,    \* the validation that runs under playbackMu
  cache,       \* libraryValidationCache: the file each name was accepted with
  quarantine,  \* libraryQuarantine: empty, or the stamp of the refused file
  snapshot,    \* librarySnapshot
  shown        \* the file an import reported without a scan warning

scanVars == <<scanGate, newest, scan, playback, cache, quarantine, snapshot, shown>>
vars == <<storageVars, scanVars>>

Procs == Uploaders \cup Scanners
ScanSteps == {"gate", "list", "recall", "choose", "examine", "restamp"}
\* libraryValidationEntry: the identity a verdict is kept with.  The file that
\* ffprobe read for it is history: the code cannot tell.
Entry == [stamp : MaybeFile, probed : MaybeFile]
NoEntry == [stamp |-> Nothing, probed |-> Nothing]
NoEntries == [n \in Names |-> NoEntry]
NoFiles == [n \in Names |-> Nothing]
\* The name in hand, its entry so far, what is left to do and what was found.
NoScan == [todo |-> {}, seen |-> {}, known |-> NoEntries, found |-> NoEntries,
           name |-> Nothing, entry |-> NoEntry, issues |-> FALSE]
NoPlayback == [step |-> "idle", name |-> Nothing, entry |-> NoEntry]
\* Nobody holds playbackMu.
PlaybackFree == playback = NoPlayback

ScanTypeOK ==
  /\ at \in [Procs -> StorageSteps \cup ScanSteps]
  /\ scanGate \in Procs \cup {Nothing}
  /\ newest \in Procs \cup {Nothing}
  /\ scan \in [Procs -> [todo : SUBSET Names, seen : SUBSET Names,
                         known : [Names -> Entry], found : [Names -> Entry],
                         name : Names \cup {Nothing}, entry : Entry,
                         issues : BOOLEAN]]
  /\ playback \in [step : {"idle", "probe", "restamp", "condemn"},
                   name : Names \cup {Nothing}, entry : Entry]
  /\ cache \in [Names -> Entry]
  /\ quarantine \in [Names -> SUBSET MaybeFile]
  /\ snapshot \subseteq Names
  /\ shown \in [Names -> MaybeFile]

Init ==
  /\ StorageInit
  /\ at = [p \in Procs |-> "idle"]
  /\ scanGate = Nothing
  /\ newest = Nothing
  /\ scan = [p \in Procs |-> NoScan]
  /\ playback = NoPlayback
  /\ cache = NoEntries
  /\ quarantine = [n \in Names |-> {}]
  /\ snapshot = {}
  /\ shown = NoFiles

-----------------------------------------------------------------------------
(* scanLibraryWithProgress.                                                 *)

unchangedStorage ==
  UNCHANGED <<dir, dirDisk, staging, stagingDisk, made, storageMu, running, reported>>

StartScan(p) ==
  /\ running
  /\ at[p] = "idle"
  /\ Goto(p, "gate")
  /\ UNCHANGED <<scanVars, upload, faults>> /\ unchangedStorage

\* Mutant: scans run beside each other, and the generation alone must do.
AcquireGateAnyway(p) ==
  /\ at[p] = "gate"
  /\ scanGate' = p
  /\ newest' = p
  /\ Goto(p, "list")
  /\ UNCHANGED <<scan, playback, cache, quarantine, snapshot, shown, upload, faults>>
  /\ unchangedStorage

\* acquireLibraryScan, and the next generation.
AcquireGate(p) ==
  /\ at[p] = "gate"
  /\ scanGate = Nothing
  /\ scanGate' = p
  /\ newest' = p
  /\ Goto(p, "list")
  /\ UNCHANGED <<scan, playback, cache, quarantine, snapshot, shown, upload, faults>>
  /\ unchangedStorage

\* The scan returns, whatever its result: the deferred release, and the end of
\* the import it belonged to.
Return(p) ==
  /\ Goto(p, "idle")
  /\ scanGate' = Nothing
  /\ newest' = IF newest = p THEN Nothing ELSE newest
  /\ scan' = [scan EXCEPT ![p] = NoScan]
  /\ upload' = [q \in Uploaders |-> IF q = p THEN NoUpload ELSE upload[q]]

\* ScanDirsContext.  Entries that are no asset, or whose name follows no
\* naming rule, are issues; odd says whether there are any.
List(p) ==
  /\ at[p] = "list"
  /\ \E odd \in BOOLEAN :
       LET entries == {n \in Names : dir[n] # Nothing}
       IN scan' = [scan EXCEPT ![p].todo = entries, ![p].seen = entries, ![p].issues = odd]
  /\ Goto(p, "recall")
  /\ UNCHANGED <<scanGate, newest, playback, cache, quarantine, snapshot, shown,
                 upload, faults>>
  /\ unchangedStorage

\* Mutant: the failing paths do not release the gate.
ScanFailsHolding(p) ==
  /\ at[p] \in ScanSteps \ {"gate"}
  /\ Goto(p, "idle")
  /\ scan' = [scan EXCEPT ![p] = NoScan]
  /\ upload' = [q \in Uploaders |-> IF q = p THEN NoUpload ELSE upload[q]]
  /\ UNCHANGED <<scanGate, newest, playback, cache, quarantine, snapshot, shown, faults>>
  /\ unchangedStorage

\* Too many entries or an unreadable directory (publishLibraryScanFailure), or
\* the caller's context ends: the last snapshot stays.
ScanFails(p) ==
  /\ at[p] \in ScanSteps \ {"gate"}
  /\ Return(p)
  /\ UNCHANGED <<playback, cache, quarantine, snapshot, shown, faults>>
  /\ unchangedStorage

\* acquireLibraryScan returns the context's error.
GateCancelled(p) ==
  /\ at[p] = "gate"
  /\ Goto(p, "idle")
  /\ upload' = [q \in Uploaders |-> IF q = p THEN NoUpload ELSE upload[q]]
  /\ UNCHANGED <<scanVars, faults>> /\ unchangedStorage

\* libraryValidationCacheSnapshot, under playbackMu.
Recall(p) ==
  /\ at[p] = "recall"
  /\ PlaybackFree
  /\ scan' = [scan EXCEPT ![p].known = cache]
  /\ Goto(p, "choose")
  /\ UNCHANGED <<scanGate, newest, playback, cache, quarantine, snapshot, shown,
                 upload, faults>>
  /\ unchangedStorage

-----------------------------------------------------------------------------
(* validateScannedAsset, one listed name after the other.                   *)

\* A verdict on the name in hand: the entry it is kept with, or an issue.
Accept(p, n, entry) ==
  /\ scan' = [scan EXCEPT ![p].todo = @ \ {n}, ![p].found[n] = entry,
                          ![p].name = Nothing, ![p].entry = NoEntry]
  /\ UNCHANGED shown
Refuse(p, n) ==
  /\ scan' = [scan EXCEPT ![p].todo = @ \ {n}, ![p].issues = TRUE,
                          ![p].name = Nothing, ![p].entry = NoEntry]
  /\ shown' = [shown EXCEPT ![n] = Nothing]

\* libraryAssetStampForPath, and what an earlier verdict says of the same file.
ChooseAsset(p) ==
  /\ at[p] = "choose"
  /\ \E n \in scan[p].todo :
       \/ dir[n] = Nothing /\ Refuse(p, n) /\ UNCHANGED at
       \/ /\ dir[n] # Nothing
          /\ scan[p].known[n].stamp = dir[n]
          /\ Accept(p, n, scan[p].known[n])
          /\ UNCHANGED at
       \/ /\ dir[n] # Nothing
          /\ scan[p].known[n].stamp # dir[n]
          /\ scan' = [scan EXCEPT ![p].name = n, ![p].entry.stamp = dir[n]]
          /\ Goto(p, "examine")
          /\ UNCHANGED shown
  /\ UNCHANGED <<scanGate, newest, playback, cache, quarantine, snapshot, upload, faults>>
  /\ unchangedStorage

\* ffprobe reads whatever the path shows now, and may refuse it or time out.
ProbeAsset(p) ==
  LET n == scan[p].name IN
  /\ at[p] = "examine"
  /\ \/ /\ dir[n] # Nothing
        /\ scan' = [scan EXCEPT ![p].entry.probed = dir[n]]
        /\ Goto(p, "restamp")
        /\ UNCHANGED shown
     \/ Refuse(p, n) /\ Goto(p, "choose")
  /\ UNCHANGED <<scanGate, newest, playback, cache, quarantine, snapshot, upload, faults>>
  /\ unchangedStorage

\* Mutant: the second stamp is taken and not compared.
RestampNot(p) ==
  /\ at[p] = "restamp"
  /\ Accept(p, scan[p].name, scan[p].entry)
  /\ Goto(p, "choose")
  /\ UNCHANGED <<scanGate, newest, playback, cache, quarantine, snapshot, upload, faults>>
  /\ unchangedStorage

Restamp(p) ==
  LET n == scan[p].name IN
  /\ at[p] = "restamp"
  /\ \/ dir[n] = scan[p].entry.stamp /\ Accept(p, n, scan[p].entry)
     \/ dir[n] # scan[p].entry.stamp /\ Refuse(p, n)
  /\ Goto(p, "choose")
  /\ UNCHANGED <<scanGate, newest, playback, cache, quarantine, snapshot, upload, faults>>
  /\ unchangedStorage

-----------------------------------------------------------------------------
(* Publication and quarantine.                                              *)

\* libraryAssetQuarantineReasonLocked: another file under the name clears the
\* entry, and a name that shows nothing stays refused.
Cleared(n) == dir[n] # Nothing /\ dir[n] \notin quarantine[n]
Condemned(n) == quarantine[n] # {} /\ ~Cleared(n)
Released(n) == quarantine[n] # {} /\ Cleared(n)

\* publishLibraryScan.  The gate makes every generation the newest.  Only an
\* import whose scan found nothing to complain about reports its file without
\* a reminder.
Publish(p) ==
  LET valid == {n \in scan[p].seen : scan[p].found[n] # NoEntry}
      clean == ~scan[p].issues /\ ~\E n \in valid : Condemned(n) IN
  /\ at[p] = "choose"
  /\ scan[p].todo = {}
  /\ PlaybackFree
  /\ IF newest = p
       THEN /\ cache' = [n \in Names |-> IF n \in valid /\ Released(n) THEN NoEntry
                                          ELSE scan[p].found[n]]
            /\ quarantine' = [n \in Names |->
                 IF n \notin scan[p].seen \/ (n \in valid /\ Released(n)) THEN {}
                 ELSE quarantine[n]]
            /\ snapshot' = {n \in valid : ~Condemned(n)}
       ELSE UNCHANGED <<cache, quarantine, snapshot>>
  /\ shown' = [n \in Names |->
       CASE clean /\ p \in Uploaders /\ upload[p].name = n /\ dir[n] = upload[p].file -> dir[n]
         [] n \in valid /\ Condemned(n) -> Nothing
         [] OTHER -> shown[n]]
  /\ Return(p)
  /\ UNCHANGED <<playback, faults>>
  /\ unchangedStorage

\* ensurePlayableLibraryAssetLocked for a name of the snapshot.  A name that shows
\* nothing is condemned, unless the caller's context has ended.
EnsurePlayable(n) ==
  /\ running
  /\ PlaybackFree
  /\ n \in snapshot
  /\ ~Condemned(n)
  /\ quarantine' = [quarantine EXCEPT ![n] = {}]
  /\ cache' = [cache EXCEPT ![n] = IF Released(n) THEN NoEntry ELSE @]
  /\ \/ dir[n] = Nothing /\ playback' = [NoPlayback EXCEPT !.step = "condemn", !.name = n]
     \/ /\ dir[n] # Nothing
        /\ cache'[n].stamp # dir[n]
        /\ playback' = [step |-> "probe", name |-> n, entry |-> [NoEntry EXCEPT !.stamp = dir[n]]]
     \/ /\ dir[n] = Nothing \/ cache'[n].stamp = dir[n]
        /\ UNCHANGED playback
  /\ UNCHANGED <<scanGate, newest, scan, snapshot, shown, at, upload, faults>>
  /\ unchangedStorage

\* A cancelled or timed-out validation is no verdict, whatever else it found.
ProbePlayed ==
  /\ playback.step = "probe"
  /\ \/ /\ dir[playback.name] # Nothing
        /\ playback' = [playback EXCEPT !.step = "restamp", !.entry.probed = dir[playback.name]]
     \/ playback' = [playback EXCEPT !.step = "condemn"]
     \/ playback' = NoPlayback
  /\ UNCHANGED <<scanGate, newest, scan, cache, quarantine, snapshot, shown, at, upload, faults>>
  /\ unchangedStorage

RestampPlayed ==
  /\ playback.step = "restamp"
  /\ LET n == playback.name IN
     \/ /\ dir[n] = playback.entry.stamp
        /\ cache' = [cache EXCEPT ![n] = playback.entry]
        /\ playback' = NoPlayback
     \/ /\ dir[n] # playback.entry.stamp
        /\ playback' \in {[playback EXCEPT !.step = "condemn"], NoPlayback}
        /\ UNCHANGED cache
  /\ UNCHANGED <<scanGate, newest, scan, quarantine, snapshot, shown, at, upload, faults>>
  /\ unchangedStorage

\* quarantineLibraryAssetLocked reads the stamp again.
Quarantine(n) ==
  /\ quarantine' = [quarantine EXCEPT ![n] = {dir[n]}]
  /\ shown' = [shown EXCEPT ![n] = Nothing]

CondemnPlayed ==
  /\ playback.step = "condemn"
  /\ cache' = [cache EXCEPT ![playback.name] = NoEntry]
  /\ Quarantine(playback.name)
  /\ playback' = NoPlayback
  /\ UNCHANGED <<scanGate, newest, scan, snapshot, at, upload, faults>>
  /\ unchangedStorage

\* OBS reports that the file it plays cannot be played.
ObsRejects(n) ==
  /\ running
  /\ PlaybackFree
  /\ n \in snapshot
  /\ Quarantine(n)
  /\ UNCHANGED <<scanGate, newest, scan, playback, cache, snapshot, at, upload, faults>>
  /\ unchangedStorage

-----------------------------------------------------------------------------
(* Composition with the file system.                                        *)

\* An outsider's change withdraws what was told about the name.
OutsiderActs(n) ==
  /\ OutsiderRemoves(n) \/ \E f \in Files : OutsiderPuts(n, f)
  /\ shown' = [shown EXCEPT ![n] = Nothing]
  /\ UNCHANGED <<scanGate, newest, scan, playback, cache, quarantine, snapshot>>

\* The process is gone with all it remembered; after a power failure so is
\* what the directories had not flushed.
Forget ==
  /\ at' = [p \in Procs |-> "idle"]
  /\ scanGate' = Nothing
  /\ newest' = Nothing
  /\ scan' = [p \in Procs |-> NoScan]
  /\ playback' = NoPlayback
  /\ cache' = NoEntries
  /\ quarantine' = [n \in Names |-> {}]
  /\ snapshot' = {}
  /\ shown' = NoFiles

Crash == ProcessLost /\ Forget /\ DiskKept
PowerFails == ProcessLost /\ Forget /\ DiskFallsBack

Scan(p) ==
  \/ AcquireGate(p) \/ GateCancelled(p) \/ List(p) \/ Recall(p) \/ ChooseAsset(p)
  \/ ProbeAsset(p) \/ Restamp(p) \/ Publish(p) \/ ScanFails(p)

FileStep ==
  \/ \E u \in Uploaders : StartImport(u) \/ Store(u)
  \/ Boot \/ MaintenanceSweep

ScanStep ==
  \/ \E p \in Scanners : StartScan(p)
  \/ \E p \in Procs : Scan(p)
  \/ ProbePlayed \/ RestampPlayed \/ CondemnPlayed
  \/ \E n \in Names : EnsurePlayable(n) \/ ObsRejects(n)

Next ==
  /\ UNCHANGED lasting
  /\ \/ FileStep /\ UNCHANGED scanVars
     \/ ScanStep
     \/ \E n \in Names : OutsiderActs(n)
     \/ Crash \/ PowerFails

Spec == Init /\ [][Next]_vars

-----------------------------------------------------------------------------
(* Properties.                                                              *)

\* Whatever a directory entry of the library shows, now or after a power
\* failure, is a file somebody else put there or one the bot has copied
\* whole, flushed and probed.  And where a reported flush makes directory entries
\* durable, a file reported as stored is there, and stays after a power failure,
\* until an outsider changes it (copyOpenedFileAtomicWith, publishFileNoReplace,
\* syncDirectory).
PublishedIsWhole ==
  \A n \in Names : \A f \in dirDisk[n] \ {Nothing} : made[f] \in {"checked", "foreign"}
SuccessIsDurable ==
  \A n \in lasting : reported[n] # Nothing => dir[n] = reported[n] /\ dirDisk[n] = {dir[n]}
StorageSafe == StorageTypeOK /\ PublishedIsWhole /\ SuccessIsDurable

\* A file that changes while it is probed never passes for the one that was:
\* every verdict in the cache, and in a scan that is about to replace the
\* cache, is kept with the file that ffprobe read (validateScannedAsset).
VerdictsBelongToFiles ==
  /\ ScanTypeOK
  /\ \A n \in Names : cache[n].stamp = cache[n].probed
  /\ \A p \in Procs, n \in Names : scan[p].found[n].stamp = scan[p].found[n].probed

\* A file an import reported without a reminder is in the library the next
\* selection draws from, until somebody changes it or a probe or OBS refuses
\* it: no scan that looked earlier takes it out again (ImportLibraryUpload,
\* acquireLibraryScan, publishLibraryScan).
ImportsShow == \A n \in Names : shown[n] # Nothing => n \in snapshot /\ dir[n] = shown[n]

\* Scans take turns: libraryScanGate is held by the one scan under way, and no
\* path out of a scan, failed or cancelled, keeps it from the next
\* (scanLibraryWithProgress, releaseLibraryScan).
ScansTakeTurns ==
  \A p \in Procs : scanGate = p <=> at[p] \in ScanSteps \ {"gate"}

=============================================================================
