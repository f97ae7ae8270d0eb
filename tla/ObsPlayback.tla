---------------------------- MODULE ObsPlayback ----------------------------
(***************************************************************************)
(* How the music goes on (internal/app/app.go and library.go over          *)
(* internal/obs/client.go): four workers act on one media source of OBS.   *)
(* The reconnect loop dials and recovers playback, the event loop reacts   *)
(* to ended tracks, the scheduler looks at the source from time to time,   *)
(* and a command skips.  Each holds playbackMu for a whole operation of    *)
(* several requests, while OBS plays on, the connection may break, and the *)
(* client's reader attributes ended events to files by guesswork, because  *)
(* OBS does not name them.                                                 *)
(*                                                                         *)
(* OBS is external, modelled as it is used.  The transport is in ObsClient,*)
(* verdicts about files in LibraryScan, the loop source in LibrarySelection*)
(***************************************************************************)
EXTENDS Naturals, Sequences, FiniteSets

CONSTANTS
  Tracks,         \* the music of the library snapshot
  Foreign,        \* a file that is none of the bot's
  Nothing,        \* no file
  EventBuffer,    \* capacity of the client's event channel
  MaxSuperseded,  \* bound: files replaced within supersededEndedEventWindow
  MaxUnread,      \* bound: ended events on their way from OBS
  MaxFaults       \* bound: failing requests, lost connections and meddling

ASSUME PlaybackAssumption ==
  /\ Tracks # {} /\ Foreign \notin Tracks /\ Nothing \notin Tracks \cup {Foreign}
  /\ EventBuffer \in Nat \ {0} /\ MaxSuperseded \in Nat \ {0}
  /\ MaxUnread \in Nat /\ MaxFaults \in Nat

VARIABLES
  obs,         \* the source: its file and its state
  unread,      \* ended events that the reader has not read
  conn,        \* Status().State: "up" for connected
  tracked,     \* currentFiles of the source
  superseded,  \* supersededFiles of the source, oldest first
  events,      \* the event channel: the file of each event
  at,          \* where each worker is
  inHand,      \* the event the event loop is handling
  recovering,  \* obsRecoveryInProgress
  op,          \* the operation that holds playbackMu
  active,      \* activeMusicPath
  settling,    \* whether mediaProgress of the active track is within the settle grace
  quarantine,  \* libraryQuarantine
  ordered,     \* history: the last file the bot made OBS load
  turn,        \* history: whose turn it is on this connection, see Turns
  faults       \* faults so far

obsVars == <<obs, unread>>
clientVars == <<conn, tracked, superseded, events>>
workerVars == <<at, inHand, recovering, turn>>
beliefVars == <<active, settling, quarantine>>
vars == <<obsVars, clientVars, workerVars, beliefVars, op, ordered, faults>>

Workers == {"reconnect", "events", "scheduler"}
MaybeTrack == Tracks \cup {Nothing}
\* A worker is at "lock" when it waits for playbackMu.
Places == {"wait", "dial", "lock", "op"}
\* "none": nobody has acted on the connection, "early": an event or the
\* scheduler has, "done": recovery was attempted.
Turns == {"none", "early", "done"}
\* "playing" also stands for opening and buffering, "none" for paused; "frozen"
\* is a playing source whose cursor stands.
States == {"none", "playing", "frozen", "stopped", "ended", "error"}
\* "link" lies between the two reads of a worker that has playbackMu.
Steps == {"idle", "link", "ensure", "status", "settings", "halt", "choose", "set",
          "restart", "track", "cleanup"}
\* told, fresh, doubt: what OBS answered, whether that was within the settle
\* grace, and whether a stall is being confirmed.
\* tentative: candidates quarantined in this operation.  over is history: OBS was
\* not playing the active track, or a recovery met it just started.
NoOp == [by |-> "nobody", step |-> "idle", track |-> Nothing, replay |-> FALSE,
         told |-> "none", fresh |-> FALSE,
         doubt |-> FALSE, tentative |-> {}, over |-> FALSE]

Init ==
  /\ obs \in [file : Tracks \cup {Nothing}, state : {"none"}]
         \cup [file : Tracks \cup {Foreign}, state : {"playing"}]
  /\ unread = 0
  /\ conn = "down"
  /\ tracked = Nothing
  /\ superseded = <<>>
  /\ events = <<>>
  /\ at = [w \in Workers |-> "wait"]
  /\ inHand = Nothing
  /\ recovering = FALSE
  /\ op = NoOp
  /\ active = Nothing
  /\ settling = FALSE
  /\ quarantine = {}
  /\ ordered = Nothing
  /\ turn = "none"
  /\ faults = 0

Goto(w, place) == at' = [at EXCEPT ![w] = place]
Fault == faults < MaxFaults /\ faults' = faults + 1

-----------------------------------------------------------------------------
(* OBS.                                                                     *)

\* GetMediaInputStatus: within the settle grace OBS may still report the end of
\* what it played before, but not so late in it that the grace is over when the
\* answer arrives.
Reported == IF settling THEN {obs.state, "ended"} ELSE {obs.state}

\* An ended event is sent, or lost when the bound is reached.
Send == unread' = IF unread < MaxUnread THEN unread + 1 ELSE unread

TrackEnds ==
  /\ obs.state = "playing"
  /\ obs' = [obs EXCEPT !.state = "ended"]
  /\ Send
  /\ UNCHANGED <<clientVars, workerVars, beliefVars, op, ordered, faults>>

\* The player gets stuck.
TrackFreezes ==
  /\ obs.state = "playing"
  /\ obs' = [obs EXCEPT !.state = "frozen"]
  /\ UNCHANGED <<unread, clientVars, workerVars, beliefVars, op, ordered, faults>>

\* The player fails, or somebody at OBS loads another file.
Meddle ==
  /\ Fault
  /\ obs' \in {[obs EXCEPT !.state = "error"], [file |-> Foreign, state |-> "playing"]}
  /\ UNCHANGED <<unread, clientVars, workerVars, beliefVars, op, ordered>>

\* The connection breaks, with or without OBS itself.
ConnectionLost ==
  /\ conn = "up"
  /\ Fault
  /\ conn' = "down"
  /\ unread' = 0
  /\ obs' \in {obs, [obs EXCEPT !.state = "none"]}
  /\ UNCHANGED <<tracked, superseded, events, workerVars, beliefVars, op, ordered>>

-----------------------------------------------------------------------------
(* The client's reader: handleEvent.                                        *)

\* pruneSupersededSourceFiles: how much of the window is over is a choice, and
\* the bound leaves room for one more.
Pruned(room) == {SubSeq(superseded, k + 1, Len(superseded)) :
                   k \in {i \in 0..Len(superseded) : Len(superseded) - i <= room}}

\* popSupersededSourceFileLocked: where the first entry for another file is.
OtherFile(queue) == {i \in 1..Len(queue) : queue[i] # tracked /\
                       \A j \in 1..(i - 1) : queue[j] = tracked}

Deliver(path) ==
  events' = IF Len(events) < EventBuffer THEN Append(events, path) ELSE events

HandleEvent ==
  /\ conn = "up" /\ unread > 0
  /\ unread' = unread - 1
  /\ \E queue \in Pruned(MaxSuperseded) :
       \/ \E i \in OtherFile(queue) :
            /\ Deliver(queue[i])
            /\ superseded' = SubSeq(queue, i + 1, Len(queue))
            /\ UNCHANGED tracked
       \/ /\ OtherFile(queue) = {}
          /\ superseded' = <<>>
          /\ IF tracked = Nothing THEN UNCHANGED <<events, tracked>>
             ELSE Deliver(tracked) /\ tracked' = Nothing
  /\ UNCHANGED <<obs, conn, workerVars, beliefVars, op, ordered, faults>>

\* setCurrentFile and clearCurrentFile.
SetCurrentFile(track) ==
  /\ tracked' = track
  /\ IF tracked = Nothing THEN superseded' = <<>>
     ELSE IF tracked = track THEN UNCHANGED superseded
     ELSE \E queue \in Pruned(MaxSuperseded - 1) : superseded' = Append(queue, tracked)
ClearCurrentFile == tracked' = Nothing /\ superseded' = <<>>

-----------------------------------------------------------------------------
(* Requests of the operation that holds playbackMu.                         *)

\* Without a connection every request fails; with one, failing is a fault.
RequestFails == IF conn = "down" THEN UNCHANGED faults ELSE Fault

\* The operation is over: candidates that were quarantined for its sake come
\* back unless it succeeded.
End(withdrawn) ==
  /\ op' = NoOp
  /\ at' = [w \in Workers |-> IF w = op.by THEN "wait" ELSE at[w]]
  /\ inHand' = IF op.by = "events" THEN Nothing ELSE inHand
  /\ recovering' = (recovering /\ op.by # "reconnect")
  /\ turn' = IF op.by = "reconnect" THEN "done" ELSE turn
  /\ quarantine' = quarantine \ withdrawn

\* StopSource, as far as it reaches OBS and is answered.
Stopped == obs' = [obs EXCEPT !.state = "stopped"]
Forsake == active' = Nothing /\ settling' = FALSE

\* ensureLibraryPlaybackLocked, the part about the music: no track, a track
\* the library no longer has, or one that only the workers inspect.
Ensure ==
  /\ op.step = "ensure"
  /\ \/ /\ active \notin Tracks \ quarantine
        /\ op' = [op EXCEPT !.step = IF active = Nothing THEN "choose" ELSE "halt", !.over = TRUE]
        /\ UNCHANGED <<workerVars, quarantine>>
     \/ /\ active \in Tracks \ quarantine /\ op.by \in Workers
        /\ op' = [op EXCEPT !.step = "status"]
        /\ UNCHANGED <<workerVars, quarantine>>
     \/ active \in Tracks \ quarantine /\ op.by \notin Workers /\ End({})
  /\ UNCHANGED <<obsVars, clientVars, active, settling, ordered, faults>>

\* The part about the loop fails for good and the music is not looked at.
EnsureFails ==
  /\ op.step = "ensure"
  /\ RequestFails
  /\ End({})
  /\ UNCHANGED <<obsVars, clientVars, active, settling, ordered>>

\* inspectMediaInputLocked: GetMediaInputStatus, then GetInputSettings.  The settle
\* grace is looked at once the answer is there; it is joined with the answer.
AskStatus ==
  /\ op.step = "status" /\ conn = "up"
  /\ \E told \in Reported :
       op' = [op EXCEPT !.step = "settings", !.told = told, !.fresh = settling,
                        !.over = obs.state # "playing"]
  /\ UNCHANGED <<obsVars, clientVars, workerVars, beliefVars, ordered, faults>>

AskFails ==
  /\ op.step \in {"status", "settings"}
  /\ RequestFails
  /\ End({})
  /\ UNCHANGED <<obsVars, clientVars, active, settling, ordered>>

\* reconcileLibrarySourceLocked, by what the inspection says.
Inspected == op.step = "settings" /\ conn = "up"
\* What to do about it, when the answers have been looked at.
To(step) == [op EXCEPT !.step = step, !.told = "none", !.fresh = FALSE, !.doubt = FALSE]
Mismatch == active = Nothing \/ obs.file # active
\* Mutant: an end is believed at once.
SparedNot == FALSE
\* Within the settle grace what OBS says of an end or a file may be old; after
\* a reconnect it is acted upon all the same.
Spared == op.fresh /\ op.by # "reconnect"

LeaveAlone ==
  /\ Inspected
  /\ \/ Mismatch /\ Spared
     \/ ~Mismatch /\ (op.told = "playing" \/ (op.told = "frozen" /\ ~op.doubt))
     \/ ~Mismatch /\ op.told \in {"ended", "stopped"} /\ Spared
  /\ End({})
  /\ UNCHANGED <<obsVars, clientVars, active, settling, ordered, faults>>

\* No progress for mediaProgressGrace: a playing source that shows its cursor is
\* asked again after a delay (confirmStalledMediaInputLocked).
Suspect ==
  /\ Inspected /\ ~Mismatch
  /\ op.told = "frozen" /\ ~op.doubt
  /\ op' = [To("status") EXCEPT !.doubt = TRUE]
  /\ UNCHANGED <<obsVars, clientVars, workerVars, beliefVars, ordered, faults>>

\* The track is given up: confirmed, or at once when OBS is opening or buffering.
Stalled ==
  /\ Inspected /\ ~Mismatch
  /\ op.told = "frozen"
  /\ op' = To("halt")
  /\ UNCHANGED <<obsVars, clientVars, workerVars, beliefVars, ordered, faults>>

\* The track is over, or in error and quarantined: the next one.
Advance ==
  /\ Inspected /\ ~Mismatch
  /\ \/ /\ op.told \in {"ended", "stopped"} /\ ~Spared /\ op.by # "reconnect"
        /\ UNCHANGED quarantine
     \/ op.told = "error" /\ quarantine' = quarantine \cup {active}
  /\ Forsake
  /\ op' = To("choose")
  /\ UNCHANGED <<obsVars, clientVars, workerVars, ordered, faults>>

\* replayActiveMusicLocked: the active track once more, if it is fit to play.
Replay ==
  /\ Inspected
  /\ \/ Mismatch /\ ~Spared
     \/ ~Mismatch /\ op.told = "none"
     \/ ~Mismatch /\ op.told \in {"ended", "stopped"} /\ op.by = "reconnect"
  /\ LET over == op.over \/ Mismatch \/ op.fresh IN
     \/ /\ active \in Tracks \ quarantine
        /\ op' = [To("set") EXCEPT !.track = active, !.replay = TRUE, !.over = over]
        /\ UNCHANGED <<beliefVars, faults>>
     \/ /\ active \in Tracks \ quarantine
        /\ Fault
        /\ quarantine' = quarantine \cup {active}
        /\ op' = [To("choose") EXCEPT !.over = over]
        /\ Forsake
     \/ /\ active \notin Tracks \ quarantine
        /\ op' = [To("choose") EXCEPT !.over = over]
        /\ Forsake
        /\ UNCHANGED <<quarantine, faults>>
  /\ UNCHANGED <<obsVars, clientVars, workerVars, ordered>>

\* StopSource for a track that stalled or has left the library.
Halt ==
  /\ op.step = "halt" /\ conn = "up"
  /\ Stopped
  /\ ClearCurrentFile
  /\ quarantine' = quarantine \cup {active}
  /\ Forsake
  /\ op' = [op EXCEPT !.step = "choose"]
  /\ UNCHANGED <<unread, conn, events, workerVars, ordered, faults>>

HaltFails ==
  /\ op.step = "halt"
  /\ RequestFails
  /\ UNCHANGED obs \/ (conn = "up" /\ Stopped)
  /\ End({})
  /\ UNCHANGED <<unread, clientVars, active, settling, ordered>>

-----------------------------------------------------------------------------
(* Playing a track: playNextMusicLocked, playOBSFileLocked, PlaySourceFile. *)

\* ChooseMusic among the tracks that are not quarantined.  It avoids the last
\* one if it can; the choice is left open here.
Choose ==
  /\ op.step = "choose"
  /\ \E c \in Tracks \ quarantine :
       \/ /\ op' = [op EXCEPT !.step = "set", !.track = c, !.replay = FALSE]
          /\ UNCHANGED <<quarantine, faults>>
       \/ /\ Fault
          /\ quarantine' = quarantine \cup {c}
          /\ UNCHANGED op
  /\ UNCHANGED <<obsVars, clientVars, workerVars, active, settling, ordered>>

\* No candidate is left, or the state store, the validation or the budget
\* ends the operation.
ChooseFails ==
  /\ op.step = "choose"
  /\ IF Tracks \subseteq quarantine THEN UNCHANGED faults ELSE Fault
  /\ End(op.tentative)
  /\ UNCHANGED <<obsVars, clientVars, active, settling, ordered>>

\* SetInputSettings makes OBS load and play the file; what it replaces may
\* still send its ended event.
Load ==
  /\ obs' = [file |-> op.track, state |-> "playing"]
  /\ IF obs.state = "playing" /\ obs.file # op.track THEN Send ELSE UNCHANGED unread
  /\ ordered' = op.track

SetFile ==
  /\ op.step = "set" /\ conn = "up"
  /\ Load
  /\ op' = [op EXCEPT !.step = "restart", !.over = TRUE]
  /\ UNCHANGED <<clientVars, workerVars, beliefVars, faults>>

\* SetInputMute and the restart.
Restart ==
  /\ op.step = "restart" /\ conn = "up"
  /\ obs' = [obs EXCEPT !.state = "playing"]
  /\ op' = [op EXCEPT !.step = "track"]
  /\ UNCHANGED <<unread, clientVars, workerVars, beliefVars, ordered, faults>>

\* A request fails or its answer is lost: ErrSourceMayBeMutated.
PlayFails ==
  /\ op.step \in {"set", "restart"}
  /\ RequestFails
  /\ \/ UNCHANGED <<obsVars, ordered>>
     \/ conn = "up" /\ op.step = "set" /\ Load
  /\ op' = [op EXCEPT !.step = "cleanup", !.over = TRUE]
  /\ UNCHANGED <<clientVars, workerVars, beliefVars>>

\* PlaySourceFile returns, and the track is the active one.
Track ==
  /\ op.step = "track"
  /\ SetCurrentFile(op.track)
  /\ active' = op.track
  /\ settling' = TRUE
  /\ End({})
  /\ UNCHANGED <<obsVars, conn, events, ordered, faults>>

\* Mutant: a cleanup that fails keeps the belief.
CleanupFailsKeeping ==
  /\ op.step = "cleanup"
  /\ RequestFails
  /\ UNCHANGED obs \/ (conn = "up" /\ Stopped)
  /\ End(op.tentative)
  /\ UNCHANGED <<unread, clientVars, active, settling, ordered>>

\* The fail-closed StopSource.  Then the next candidate is tried, or the
\* operation's time is up.
Cleanup ==
  /\ op.step = "cleanup" /\ conn = "up"
  /\ Stopped
  /\ ClearCurrentFile
  /\ Forsake
  /\ \/ End(op.tentative)
     \/ /\ ~op.replay
        /\ op' = [op EXCEPT !.step = "choose", !.track = Nothing, !.tentative = @ \cup {op.track}]
        /\ quarantine' = quarantine \cup {op.track}
        /\ UNCHANGED workerVars
  /\ UNCHANGED <<unread, conn, events, ordered, faults>>

CleanupFails ==
  /\ op.step = "cleanup"
  /\ RequestFails
  /\ UNCHANGED obs \/ (conn = "up" /\ Stopped)
  /\ Forsake
  /\ End(op.tentative)
  /\ UNCHANGED <<unread, clientVars, ordered>>

SettleEnds ==
  /\ settling
  /\ settling' = FALSE
  /\ UNCHANGED <<obsVars, clientVars, workerVars, active, quarantine, op, ordered, faults>>

-----------------------------------------------------------------------------
(* The workers.                                                             *)

\* playbackMu is taken by w for an operation that starts with a step.
Take(w, step) ==
  /\ op = NoOp
  /\ op' = [NoOp EXCEPT !.by = w, !.step = step]

\* maintainOBSConnection, disconnected.
Dial ==
  /\ at["reconnect"] = "wait" /\ conn = "down" /\ ~recovering
  /\ recovering' = TRUE
  /\ Goto("reconnect", "dial")
  /\ UNCHANGED <<obsVars, clientVars, inHand, turn, beliefVars, op, ordered, faults>>

Connected ==
  /\ at["reconnect"] = "dial"
  /\ conn' = "up"
  /\ unread' = 0
  /\ turn' = "none"
  /\ Goto("reconnect", "lock")
  /\ UNCHANGED <<obs, tracked, superseded, events, inHand, recovering, beliefVars, op,
                 ordered, faults>>

\* Mutant: a failed dial leaves obsRecoveryInProgress set.
DialFailsRecovering ==
  /\ at["reconnect"] = "dial"
  /\ Fault
  /\ Goto("reconnect", "wait")
  /\ UNCHANGED <<obsVars, clientVars, inHand, recovering, turn, beliefVars, op, ordered>>

DialFails ==
  /\ at["reconnect"] = "dial"
  /\ Fault
  /\ recovering' = FALSE
  /\ Goto("reconnect", "wait")
  /\ UNCHANGED <<obsVars, clientVars, inHand, turn, beliefVars, op, ordered>>

\* maintainOBSConnection, connected, the probe answered: no loop is active.
PlaybackMissing ==
  /\ at["reconnect"] = "wait" /\ conn = "up" /\ ~recovering
  /\ recovering' = TRUE
  /\ Goto("reconnect", "lock")
  /\ UNCHANGED <<obsVars, clientVars, inHand, turn, beliefVars, op, ordered, faults>>

\* recoverLibraryPlaybackAfterOBSConnect has playbackMu.
Recover ==
  /\ at["reconnect"] = "lock"
  /\ Take("reconnect", "ensure")
  /\ Goto("reconnect", "op")
  /\ UNCHANGED <<obsVars, clientVars, inHand, recovering, turn, beliefVars, ordered, faults>>

\* The event and scheduler workers stay away while a recovery is under way or
\* there is no connection.  They read the flag and then the state of the
\* connection, and the reconnect loop may set the one and change the other in
\* between.  They read both twice without playbackMu and then with it; of the
\* former only the last read is kept, which lets more of them through.
TurnBack(w) == Goto(w, "wait") /\ inHand' = IF w = "events" THEN Nothing ELSE inHand

\* librarySchedulerLoop, reconcileLibraryPlaybackAttempt before the mutex.
Wake ==
  /\ at["scheduler"] = "wait" /\ conn = "up"
  /\ Goto("scheduler", "lock")
  /\ UNCHANGED <<obsVars, clientVars, inHand, recovering, turn, beliefVars, op, ordered, faults>>

\* obsEventLoop, handleLibraryOBSEventAttempt before the mutex: the event is taken
\* out, and dropped without a connection.
Receive ==
  /\ at["events"] = "wait" /\ events # <<>>
  /\ events' = Tail(events)
  /\ IF conn = "up" THEN Goto("events", "lock") /\ inHand' = Head(events)
     ELSE UNCHANGED <<at, inHand>>
  /\ UNCHANGED <<obsVars, conn, tracked, superseded, recovering, turn, beliefVars, op,
                 ordered, faults>>

\* Mutant: with playbackMu they do not read the flag.
FlagAnyway == TRUE
FlagClear == ~recovering

\* reconcileLibraryPlaybackAttempt and handleLibraryOBSEventAttempt have
\* playbackMu and read the flag.
Enter(w) ==
  /\ at[w] = "lock"
  /\ IF FlagClear THEN Take(w, "link") /\ Goto(w, "op") /\ UNCHANGED inHand
     ELSE op = NoOp /\ UNCHANGED op /\ TurnBack(w)
  /\ UNCHANGED <<obsVars, clientVars, recovering, turn, beliefVars, ordered, faults>>
Reconcile == Enter("scheduler")
HandleEnded == Enter("events")

\* Mutant: the event is taken for the end of the active track.
BeginTrusting ==
  /\ op.step = "link" /\ conn = "up"
  /\ op' = [op EXCEPT !.step = "choose"]
  /\ turn' = IF turn = "none" THEN "early" ELSE turn
  /\ Forsake
  /\ UNCHANGED <<obsVars, clientVars, at, inHand, recovering, quarantine, ordered, faults>>

\* They read the state of the connection, and the operation begins; but an event
\* about another file is ignored, any other is a reason to look at the source.
Begin ==
  /\ op.step = "link"
  /\ IF conn = "up" /\ (op.by = "events" => active \in {inHand, Nothing})
       THEN /\ op' = [op EXCEPT !.step = IF op.by = "events" THEN "status" ELSE "ensure"]
            /\ turn' = IF turn = "none" THEN "early" ELSE turn
            /\ UNCHANGED <<at, inHand, recovering, quarantine>>
       ELSE End({})
  /\ UNCHANGED <<obsVars, clientVars, active, settling, ordered, faults>>

\* SkipMusicText, and the commands that change the loop, at any time.
Command ==
  /\ \E step \in {"choose", "ensure"} : Take("telegram", step)
  /\ UNCHANGED <<obsVars, clientVars, workerVars, beliefVars, ordered, faults>>

\* A scan or a probe condemns a track, or finds that a file was replaced.
Rescan ==
  /\ op = NoOp
  /\ Fault
  /\ \E t \in Tracks : quarantine' \in {quarantine \cup {t}, quarantine \ {t}}
  /\ UNCHANGED <<obsVars, clientVars, workerVars, active, settling, op, ordered>>

-----------------------------------------------------------------------------
Request ==
  \/ Begin \/ Ensure \/ AskStatus \/ LeaveAlone \/ Suspect \/ Stalled \/ Advance \/ Replay
  \/ Halt \/ Choose \/ SetFile \/ Restart \/ Track \/ Cleanup
RequestLost ==
  \/ EnsureFails \/ AskFails \/ HaltFails \/ ChooseFails \/ PlayFails \/ CleanupFails

Quiet == TrackEnds \/ TrackFreezes \/ SettleEnds \/ HandleEvent
Worker ==
  \/ Dial \/ Connected \/ PlaybackMissing \/ Recover
  \/ Wake \/ Receive \/ Reconcile \/ HandleEnded \/ Command

Next == Quiet \/ Worker \/ Request \/ RequestLost \/ DialFails \/ Meddle \/ ConnectionLost \/ Rescan

Spec == Init /\ [][Next]_vars

\* Every operation ends, because its requests are answered or fail in time, and
\* the settle grace passes; playbackMu lets in the reconnect loop and the
\* scheduler, whoever else wants it, and they go on when they may; and a stall is
\* noticed.  Nothing is asked of the event loop: the scheduler makes up for it.
Fairness ==
  /\ []<>(op = NoOp) /\ []<>~settling
  /\ []<>(at["reconnect"] # "lock") /\ []<>(at["scheduler"] # "lock")
  /\ WF_vars(Dial \/ Connected) /\ WF_vars(Wake)
  /\ SF_vars(Suspect \/ Stalled)
FairSpec == Spec /\ Fairness

-----------------------------------------------------------------------------
(* Properties.                                                              *)

TypeOK ==
  /\ obs \in [file : Tracks \cup {Foreign, Nothing}, state : States]
  /\ unread \in 0..MaxUnread
  /\ conn \in {"down", "up"}
  /\ tracked \in MaybeTrack
  /\ superseded \in Seq(Tracks) /\ Len(superseded) <= MaxSuperseded
  /\ events \in Seq(Tracks) /\ Len(events) <= EventBuffer
  /\ at \in [Workers -> Places]
  /\ inHand \in MaybeTrack
  /\ recovering \in BOOLEAN
  /\ op \in [by : Workers \cup {"nobody", "telegram"}, step : Steps, track : MaybeTrack,
             replay : BOOLEAN, told : States, fresh : BOOLEAN, doubt : BOOLEAN,
             tentative : SUBSET Tracks, over : BOOLEAN]
  /\ active \in MaybeTrack
  /\ settling \in BOOLEAN
  /\ quarantine \subseteq Tracks
  /\ ordered \in MaybeTrack
  /\ turn \in Turns
  /\ faults \in 0..MaxFaults

\* Between operations, a track the service believes to be playing is the last
\* one it made OBS load, whichever requests of whichever operations were lost
\* half-way; and what the client would attribute an ended event to is that
\* track or none (playOBSFileLocked, ErrSourceMayBeMutated, setCurrentFile).
BeliefIsLastOrder ==
  /\ TypeOK
  /\ op = NoOp /\ active # Nothing => ordered = active /\ tracked \in {active, Nothing}

\* No worker replaces or restarts a track it knows to be playing on, whatever
\* ended events are late, lost or attributed to the wrong file: it was over,
\* stuck or out of the library when the source was last looked at.  Only a
\* recovery may start a track again that has just been started
\* (handleLibraryOBSEventAttempt, reconcileLibrarySourceLocked).
HealthyPlaybackIsKept ==
  op.step = "set" /\ op.by \in Workers => op.over

\* An event or the scheduler begins to act on the source.
Begins == op.step = "link" /\ op'.step \in {"ensure", "status"}

\* At most one operation gets ahead of the recovery of a connection: whoever
\* looked at obsRecoveryInProgress before the dial and at the connection after
\* it had playbackMu meanwhile, and whoever looks later sees the flag until
\* the recovery has ended.  That one does get ahead, although the flag is meant
\* to block event handling and scheduled transitions (library.go:453-455): with
\* turn = "done" for turn # "early" the property is false (maintainOBSConnection,
\* handleLibraryOBSEventAttempt, reconcileLibraryPlaybackAttempt).
OneAheadOfRecovery == [][Begins => turn # "early"]_vars

\* There is always music again, though ended events are lost and requests and
\* connections fail now and then: unless an operation has left no track to play
\* (librarySchedulerLoop, obsReconnectLoop).
MusicGoesOn ==
  []<>\/ obs.state = "playing" /\ obs.file \in Tracks
      \/ op = NoOp /\ Tracks \subseteq quarantine

=============================================================================
