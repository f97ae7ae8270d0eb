------------------------- MODULE ObsPlaybackProofs -------------------------
(* What ObsPlayback promises for any number of tracks, events and faults:  *)
(* at most one operation gets ahead of the recovery of a connection.  The  *)
(* flag is set before the dial and kept until a recovery has ended, and who*)
(* has seen it clear with playbackMu is alone (Flagged).  And what the     *)
(* service believes about the source is its last order (Believed), and     *)
(* nothing healthy is replaced (Seen), by an invariant about every step of *)
(* an operation.                                                           *)
EXTENDS ObsPlayback, TLAPS

\* obsRecoveryInProgress covers the time from the dial to the end of the first
\* operation of the reconnect loop; only the reconnect loop is where it dials;
\* and nobody has seen the flag clear once somebody has got ahead of it.
Flagged ==
  /\ conn = "up" /\ ~recovering => turn = "done"
  /\ at["reconnect"] = "dial" => conn = "down" /\ recovering
  /\ op.by = "reconnect" => at["reconnect"] = "op" /\ op.step # "link"
  /\ turn = "early" => recovering /\ at["reconnect"] # "dial" /\ op.step # "link"

\* The types that Flagged needs.
Shapes ==
  /\ at \in [Workers -> Places]
  /\ recovering \in BOOLEAN /\ turn \in Turns
  /\ {"by", "step"} \subseteq DOMAIN op

Inv == Shapes /\ Flagged

\* What a step does to the flag, when no worker comes or goes.
Carries ==
  /\ op'.by = op.by /\ (op'.step = "link" <=> op.step = "link")
  /\ {"by", "step"} \subseteq DOMAIN op'
  /\ UNCHANGED <<at, recovering, turn>>
  /\ conn' \in {conn, "down"}

\* And when an operation ends.
Ends ==
  /\ op' = NoOp
  /\ at' = [w \in Workers |-> IF w = op.by THEN "wait" ELSE at[w]]
  /\ recovering' = (recovering /\ op.by # "reconnect")
  /\ turn' = IF op.by = "reconnect" THEN "done" ELSE turn
  /\ UNCHANGED conn

LEMMA EndEnds == ASSUME NEW withdrawn, End(withdrawn), UNCHANGED conn PROVE Ends
  BY DEF End, Ends

LEMMA NoOpFields ==
  NoOp.by = "nobody" /\ NoOp.step = "idle" /\ {"by", "step"} \subseteq DOMAIN NoOp
  BY DEF NoOp

LEMMA RequestKeeps == ASSUME Inv, Request, ~Begin PROVE Carries \/ Ends
<1> USE DEF Inv, Shapes, Carries, obsVars, clientVars, workerVars, beliefVars
<1>1. CASE Ensure
  BY <1>1, EndEnds DEF Ensure
<1>2. CASE AskStatus
  BY <1>2 DEF AskStatus
<1>3. CASE LeaveAlone
  BY <1>3, EndEnds DEF LeaveAlone
<1>4. CASE Suspect
  BY <1>4 DEF Suspect, Inspected, To
<1>5. CASE Stalled
  BY <1>5 DEF Stalled, Inspected, To
<1>6. CASE Advance
  BY <1>6 DEF Advance, Inspected, To
<1>7. CASE Replay
  BY <1>7 DEF Replay, Inspected, To
<1>8. CASE Halt
  BY <1>8 DEF Halt, To
<1>9. CASE Choose
  BY <1>9 DEF Choose
<1>10. CASE SetFile
  BY <1>10 DEF SetFile
<1>11. CASE Restart
  BY <1>11 DEF Restart
<1>12. CASE Track
  BY <1>12, EndEnds DEF Track
<1>13. CASE Cleanup
  BY <1>13, EndEnds DEF Cleanup
<1> QED
  BY <1>1, <1>2, <1>3, <1>4, <1>5, <1>6, <1>7, <1>8, <1>9, <1>10, <1>11, <1>12, <1>13 DEF Request

LEMMA LossKeeps == ASSUME Inv, RequestLost PROVE Carries \/ Ends
<1> USE DEF Inv, Shapes, Carries, obsVars, clientVars, workerVars, beliefVars
<1>1. CASE EnsureFails
  BY <1>1, EndEnds DEF EnsureFails
<1>2. CASE AskFails
  BY <1>2, EndEnds DEF AskFails
<1>3. CASE HaltFails
  BY <1>3, EndEnds DEF HaltFails
<1>4. CASE ChooseFails
  BY <1>4, EndEnds DEF ChooseFails
<1>5. CASE PlayFails
  BY <1>5 DEF PlayFails
<1>6. CASE CleanupFails
  BY <1>6, EndEnds DEF CleanupFails
<1> QED
  BY <1>1, <1>2, <1>3, <1>4, <1>5, <1>6 DEF RequestLost

LEMMA WorldKeeps ==
  ASSUME Inv, Quiet \/ Meddle \/ ConnectionLost \/ Rescan \/ UNCHANGED vars
  PROVE  Carries
<1> USE DEF Inv, Shapes, Carries, vars, obsVars, clientVars, workerVars, beliefVars
<1>1. CASE Quiet
  BY <1>1 DEF Quiet, TrackEnds, TrackFreezes, SettleEnds, HandleEvent
<1>2. CASE Meddle \/ ConnectionLost \/ Rescan \/ UNCHANGED vars
  BY <1>2 DEF Meddle, ConnectionLost, Rescan
<1> QED
  BY <1>1, <1>2

LEMMA CarriesKeeps == ASSUME Inv, Carries PROVE Inv'
  BY DEF Inv, Shapes, Flagged, Carries

LEMMA EndsKeeps == ASSUME Inv, Ends PROVE Inv'
  BY NoOpFields DEF Inv, Shapes, Flagged, Ends, Workers, Places, Turns

\* A worker that takes the mutex found it free.
LEMMA Taken ==
  ASSUME NEW w, NEW step, Take(w, step)
  PROVE  op = NoOp /\ op'.by = w /\ op'.step = step /\ {"by", "step"} \subseteq DOMAIN op'
  BY DEF Take, NoOp

\* Of two workers that have seen the flag clear with playbackMu the second has
\* seen it after the first was done.
LEMMA EnterKeeps == ASSUME Inv, NEW w \in {"events", "scheduler"}, Enter(w) PROVE Inv'
<1> USE DEF Inv, Shapes, Flagged, Goto, Workers, Places, clientVars
<1>0. w # "reconnect" /\ w \in Workers
  OBVIOUS
<1>1. UNCHANGED <<conn, recovering, turn>> /\ at' \in [Workers -> Places]
      /\ at'["reconnect"] = at["reconnect"]
  BY <1>0 DEF Enter, TurnBack
<1>2. CASE FlagClear
  <2>1. op'.by = w /\ {"by", "step"} \subseteq DOMAIN op'
    BY <1>2, Taken DEF Enter
  <2>2. turn # "early"
    BY <1>2 DEF FlagClear
  <2> QED
    BY <1>0, <1>1, <2>1, <2>2
<1>3. CASE ~FlagClear
  BY <1>0, <1>1, <1>3 DEF Enter
<1> QED
  BY <1>2, <1>3

\* Who acts on a connection on which recovery was not attempted has not seen
\* the flag in time; it is set.
LEMMA BeginKeeps == ASSUME Inv, Begin PROVE Inv'
<1> USE DEF Inv, Shapes, Flagged, clientVars
<1>1. CASE End({})
  <2>1. Ends
    BY <1>1, EndEnds DEF Begin
  <2> QED
    BY <2>1, EndsKeeps
<1>2. CASE ~End({})
  <2>1. /\ conn = "up" /\ op.step = "link"
        /\ op' = [op EXCEPT !.step = IF op.by = "events" THEN "status" ELSE "ensure"]
        /\ turn' = IF turn = "none" THEN "early" ELSE turn
        /\ UNCHANGED <<conn, at, recovering>>
    BY <1>2 DEF Begin
  <2>2. op'.by = op.by /\ op'.step # "link" /\ {"by", "step"} \subseteq DOMAIN op'
    BY <2>1
  <2>3. turn' \in Turns /\ (turn' = "early" => recovering) /\ (turn = "done" => turn' = "done")
    BY <2>1 DEF Turns
  <2> QED
    BY <2>1, <2>2, <2>3
<1> QED
  BY <1>1, <1>2

LEMMA WorkerKeeps == ASSUME Inv, Worker \/ DialFails PROVE Inv'
<1> USE DEF Inv, Shapes, Flagged, Goto, Workers, Places, Turns, clientVars, workerVars
<1>1. CASE Dial
  BY <1>1 DEF Dial
<1>2. CASE Connected
  BY <1>2 DEF Connected
<1>3. CASE DialFails
  BY <1>3 DEF DialFails
<1>4. CASE PlaybackMissing
  BY <1>4 DEF PlaybackMissing
<1>5. CASE Recover
  BY <1>5, Taken, NoOpFields DEF Recover
<1>6. CASE Wake
  BY <1>6 DEF Wake
<1>7. CASE Receive
  BY <1>7 DEF Receive
<1>8. CASE Reconcile \/ HandleEnded
  BY <1>8, EnterKeeps DEF Reconcile, HandleEnded
<1>9. CASE Command
  BY <1>9, Taken, NoOpFields DEF Command
<1> QED
  BY <1>1, <1>2, <1>3, <1>4, <1>5, <1>6, <1>7, <1>8, <1>9 DEF Worker

LEMMA InvStep == Inv /\ [Next]_vars => Inv'
  BY RequestKeeps, BeginKeeps, LossKeeps, WorldKeeps, WorkerKeeps, CarriesKeeps, EndsKeeps DEF Next

LEMMA InvHolds == Spec => []Inv
<1>1. Init => Inv
  BY NoOpFields DEF Init, Inv, Shapes, Flagged, Workers, Places, Turns
<1> QED
  BY <1>1, InvStep, PTL DEF Spec

\* At most one operation of the event loop or the scheduler gets ahead of the
\* recovery of a connection (maintainOBSConnection, handleLibraryOBSEventAttempt,
\* reconcileLibraryPlaybackAttempt).
THEOREM OneIsAhead == Spec => OneAheadOfRecovery
<1> DEFINE Waits == Begins => turn # "early"
<1>1. Inv => Waits
  BY DEF Inv, Flagged, Begins
<1> QED
  BY <1>1, InvHolds, PTL DEF OneAheadOfRecovery

-----------------------------------------------------------------------------
(* What the service believes about the source, and what an operation has   *)
(* seen of it before it interferes.                                         *)

\* Until the file is set, and whenever no operation is under way, the active
\* track is the last order.  From the order on it is not, but then the
\* operation ends with the new track or with none.
Believed ==
  op.step \in {"idle", "link", "ensure", "status", "settings", "halt", "choose", "set"} /\ active # Nothing =>
    ordered = active /\ tracked \in {active, Nothing}

\* The operation knows what it works on.
Underway ==
  /\ op.step \in {"set", "restart", "track", "cleanup"} => op.track \in Tracks
  /\ op.step \in {"restart", "track"} => ordered = op.track
  /\ op.step = "halt" => active \in Tracks

\* A worker that is going to interfere has seen that the track is over.
Seen ==
  /\ op.by \in Workers /\ op.step \in {"halt", "choose", "set", "restart", "track", "cleanup"} => op.over
  /\ op.step = "settings" /\ op.told \in {"none", "frozen", "stopped", "error"} => op.over
  /\ op.step = "settings" /\ op.told = "ended" /\ ~op.fresh => op.over

Op == [by : Workers \cup {"nobody", "telegram"}, step : Steps, track : MaybeTrack,
       replay : BOOLEAN, told : States, fresh : BOOLEAN, doubt : BOOLEAN,
       tentative : SUBSET Tracks, over : BOOLEAN]

\* TypeOK in three parts.
Queues ==
  /\ unread \in 0..MaxUnread
  /\ tracked \in MaybeTrack
  /\ superseded \in Seq(Tracks) /\ Len(superseded) <= MaxSuperseded
  /\ events \in Seq(Tracks) /\ Len(events) <= EventBuffer
  /\ inHand \in MaybeTrack
Plain ==
  /\ obs \in [file : Tracks \cup {Foreign, Nothing}, state : States]
  /\ conn \in {"down", "up"}
  /\ at \in [Workers -> Places]
  /\ recovering \in BOOLEAN
  /\ active \in MaybeTrack
  /\ settling \in BOOLEAN
  /\ quarantine \subseteq Tracks
  /\ ordered \in MaybeTrack
  /\ turn \in Turns
  /\ faults \in 0..MaxFaults

LEMMA TypeParts == TypeOK <=> Queues /\ Plain /\ op \in Op
  BY DEF TypeOK, Queues, Plain, Op

Sound == op \in Op /\ Believed /\ Underway /\ Seen
BeliefInv == Queues /\ Plain /\ Sound

LEMMA NoOpTyped == NoOp \in Op /\ NoOp.step = "idle" /\ NoOp.by \notin Workers
  BY DEF NoOp, Op, Steps, MaybeTrack, States, Workers

\* An operation that ends, or a step that has nothing to do with it, leaves the
\* belief as sound as it was.
LEMMA SoundEnd ==
  ASSUME BeliefInv, op' = NoOp,
         \/ /\ op.step \in {"idle", "link", "ensure", "status", "settings", "halt", "choose", "set"}
            /\ UNCHANGED <<active, ordered, tracked>>
         \/ active' = Nothing
         \/ ordered' = active' /\ tracked' = active'
  PROVE  Sound'
  BY NoOpTyped DEF BeliefInv, Sound, Believed, Underway, Seen

LEMMA SoundAside ==
  ASSUME BeliefInv, UNCHANGED <<op, active, ordered>>, tracked' \in {tracked, Nothing}
  PROVE  Sound'
  BY DEF BeliefInv, Sound, Believed, Underway, Seen

\* playbackMu is taken for an operation that has seen nothing yet.
LEMMA SoundTake ==
  ASSUME BeliefInv, NEW w \in Workers \cup {"telegram"}, NEW step \in {"link", "ensure", "choose"},
         Take(w, step), step = "choose" => w = "telegram",
         UNCHANGED <<active, ordered, tracked>>
  PROVE  Sound'
<1>1. op' = [NoOp EXCEPT !.by = w, !.step = step] /\ op.step = "idle"
  BY NoOpTyped DEF Take
<1>2. op' \in Op /\ op'.by = w /\ op'.step = step
  BY <1>1, NoOpTyped DEF Op, Steps
<1>3. "telegram" \notin Workers
  BY DEF Workers
<1> QED
  BY <1>1, <1>2, <1>3 DEF BeliefInv, Sound, Believed, Underway, Seen

\* The next step of an operation.
LEMMA SoundMoves ==
  ASSUME BeliefInv, NEW step \in Steps, op' \in Op, op'.by = op.by, op'.step = step, Underway',
         op.step \in {"idle", "link", "ensure", "status", "settings", "halt", "choose", "set"},
         \/ UNCHANGED <<active, ordered, tracked>>
         \/ active' = Nothing,
         step # "settings",
         \/ step \in {"ensure", "status"}
         \/ op'.over = TRUE
         \/ op'.over = op.over /\ op.step \in {"halt", "choose", "set"}
         \/ op.by \notin Workers
  PROVE  Sound'
  BY DEF BeliefInv, Sound, Believed, Underway, Seen

LEMMA SoundEnsure == ASSUME BeliefInv, Ensure PROVE Sound'
<1>0. op \in Op /\ UNCHANGED <<active, ordered, tracked>> /\ op.step = "ensure" /\ active \in MaybeTrack
  BY DEF BeliefInv, Sound, Plain, Ensure, clientVars
<1>1. ASSUME op' = [op EXCEPT !.step = IF active = Nothing THEN "choose" ELSE "halt", !.over = TRUE]
      PROVE  Sound'
  <2>1. op' \in Op /\ op'.by = op.by /\ op'.over = TRUE
        /\ op'.step = (IF active = Nothing THEN "choose" ELSE "halt")
    BY <1>0, <1>1 DEF Op, Steps
  <2>2. Underway'
    BY <1>0, <2>1 DEF Underway, MaybeTrack
  <2>3. op'.step \in Steps /\ op'.step # "settings"
    BY <2>1 DEF Steps
  <2> QED
    BY <1>0, <2>1, <2>2, <2>3, SoundMoves
<1>2. ASSUME op' = [op EXCEPT !.step = "status"]
      PROVE  Sound'
  <2>1. op' \in Op /\ op'.by = op.by /\ op'.step = "status"
    BY <1>0, <1>2 DEF Op, Steps
  <2>2. Underway'
    BY <2>1 DEF Underway
  <2> QED
    BY <1>0, <2>1, <2>2, SoundMoves DEF Steps
<1>3. ASSUME End({}) PROVE Sound'
  BY <1>0, <1>3, SoundEnd DEF End
<1> QED
  BY <1>1, <1>2, <1>3 DEF Ensure

LEMMA SoundAskStatus == ASSUME BeliefInv, AskStatus PROVE Sound'
<1>0. op \in Op /\ UNCHANGED <<active, ordered, tracked>> /\ op.step = "status" /\ obs.state \in States
      /\ settling \in BOOLEAN
  BY DEF BeliefInv, Sound, Plain, AskStatus, clientVars, beliefVars
<1>1. PICK told \in Reported :
        op' = [op EXCEPT !.step = "settings", !.told = told, !.fresh = settling, !.over = obs.state # "playing"]
  BY DEF AskStatus
<1>2. told \in {obs.state, "ended"} /\ (told = obs.state \/ settling) /\ told \in States
  BY <1>0, <1>1 DEF Reported, States
<1>3. op' \in Op /\ op'.by = op.by /\ op'.step = "settings" /\ op'.told = told /\ op'.fresh = settling
      /\ op'.over = (obs.state # "playing")
  BY <1>0, <1>1, <1>2 DEF Op, Steps
<1>4. op'.told \in {"none", "frozen", "stopped", "error"} => op'.over
  BY <1>2, <1>3
<1>5. op'.told = "ended" /\ ~op'.fresh => op'.over
  BY <1>2, <1>3
<1> QED
  BY <1>0, <1>3, <1>4, <1>5 DEF BeliefInv, Sound, Believed, Underway, Seen

LEMMA ToFields ==
  ASSUME NEW step \in Steps, op \in Op
  PROVE  To(step) \in Op /\ To(step).by = op.by /\ To(step).step = step /\ To(step).over = op.over
         /\ To(step).track = op.track
  BY DEF To, Op, States

LEMMA SoundSuspect == ASSUME BeliefInv, Suspect PROVE Sound'
<1>0. op \in Op /\ UNCHANGED <<active, ordered, tracked>> /\ op.step = "settings"
      /\ op' = [To("status") EXCEPT !.doubt = TRUE]
  BY DEF BeliefInv, Sound, Suspect, Inspected, clientVars, beliefVars
<1>1. op' \in Op /\ op'.by = op.by /\ op'.step = "status"
  BY <1>0, ToFields DEF Op, Steps
<1>2. Underway'
  BY <1>1 DEF Underway
<1> QED
  BY <1>0, <1>1, <1>2, SoundMoves DEF Steps

LEMMA SoundStalled == ASSUME BeliefInv, Stalled PROVE Sound'
<1>0. op \in Op /\ UNCHANGED <<active, ordered, tracked>> /\ op.step = "settings" /\ op.told = "frozen"
      /\ op' = To("halt") /\ active \in Tracks
  BY DEF BeliefInv, Sound, Plain, MaybeTrack, Stalled, Inspected, Mismatch, clientVars, beliefVars
<1>1. op' \in Op /\ op'.by = op.by /\ op'.step = "halt" /\ op'.over = TRUE
  <2>1. op.over = TRUE
    BY <1>0 DEF BeliefInv, Sound, Seen, Op
  <2> QED
    BY <1>0, <2>1, ToFields DEF Steps
<1>2. Underway'
  BY <1>0, <1>1 DEF Underway
<1> QED
  BY <1>0, <1>1, <1>2, SoundMoves DEF Steps

LEMMA SoundAdvance == ASSUME BeliefInv, Advance PROVE Sound'
<1>0. op \in Op /\ active' = Nothing /\ op.step = "settings" /\ op' = To("choose")
  BY DEF BeliefInv, Sound, Advance, Forsake, Inspected
<1>1. op.over = TRUE
  <2>1. CASE op.told \in {"ended", "stopped"} /\ ~Spared /\ op.by # "reconnect"
    BY <1>0, <2>1 DEF BeliefInv, Sound, Seen, Spared, Op
  <2>2. CASE op.told = "error"
    BY <1>0, <2>2 DEF BeliefInv, Sound, Seen, Op
  <2> QED
    BY <2>1, <2>2 DEF Advance
<1>2. op' \in Op /\ op'.by = op.by /\ op'.step = "choose" /\ op'.over = TRUE
  BY <1>0, <1>1, ToFields DEF Steps
<1>3. Underway'
  BY <1>2 DEF Underway
<1> QED
  BY <1>0, <1>2, <1>3, SoundMoves DEF Steps

LEMMA SoundReplay == ASSUME BeliefInv, Replay PROVE Sound'
<1> DEFINE over == op.over \/ Mismatch \/ op.fresh
<1>0. op \in Op /\ op.step = "settings" /\ op.over \in BOOLEAN /\ UNCHANGED <<ordered, tracked>>
  BY DEF BeliefInv, Sound, Replay, Inspected, Op, clientVars
<1>1. over = TRUE
  <2>1. CASE Mismatch
    BY <2>1
  <2>2. CASE ~Mismatch /\ op.told = "none"
    BY <1>0, <2>2 DEF BeliefInv, Sound, Seen
  <2>3. CASE ~Mismatch /\ op.told \in {"ended", "stopped"}
    BY <1>0, <2>3 DEF BeliefInv, Sound, Seen
  <2> QED
    BY <2>1, <2>2, <2>3 DEF Replay
<1>2. ASSUME active \in Tracks, UNCHANGED active,
             op' = [To("set") EXCEPT !.track = active, !.replay = TRUE, !.over = over]
      PROVE  Sound'
  <2>1. To("set") \in Op /\ To("set").by = op.by /\ To("set").step = "set"
    BY <1>0, ToFields DEF Steps
  <2>2. op' \in Op /\ op'.by = op.by /\ op'.step = "set" /\ op'.over = TRUE /\ op'.track = active
    BY <1>1, <1>2, <2>1 DEF Op, MaybeTrack
  <2>3. Underway'
    BY <1>2, <2>2 DEF Underway
  <2> QED
    BY <1>0, <1>2, <2>2, <2>3, SoundMoves DEF Steps
<1>3. ASSUME active' = Nothing, op' = [To("choose") EXCEPT !.over = over]
      PROVE  Sound'
  <2>1. To("choose") \in Op /\ To("choose").by = op.by /\ To("choose").step = "choose"
    BY <1>0, ToFields DEF Steps
  <2>2. op' \in Op /\ op'.by = op.by /\ op'.step = "choose" /\ op'.over = TRUE
    BY <1>1, <1>3, <2>1 DEF Op
  <2>3. Underway'
    BY <2>2 DEF Underway
  <2> QED
    BY <1>0, <1>3, <2>2, <2>3, SoundMoves DEF Steps
<1> QED
  BY <1>2, <1>3 DEF Replay, Forsake, beliefVars

LEMMA SoundHalt == ASSUME BeliefInv, Halt PROVE Sound'
<1>0. op \in Op /\ active' = Nothing /\ op.step = "halt" /\ op' = [op EXCEPT !.step = "choose"]
  BY DEF BeliefInv, Sound, Halt, Forsake
<1>1. op' \in Op /\ op'.by = op.by /\ op'.step = "choose" /\ op'.over = op.over
  BY <1>0 DEF Op, Steps
<1>2. Underway'
  BY <1>1 DEF Underway
<1> QED
  BY <1>0, <1>1, <1>2, SoundMoves DEF Steps

LEMMA SoundChoose == ASSUME BeliefInv, Choose PROVE Sound'
<1>0. op \in Op /\ UNCHANGED <<active, ordered, tracked>> /\ op.step = "choose"
  BY DEF BeliefInv, Sound, Choose, clientVars
<1>1. ASSUME NEW c \in Tracks, op' = [op EXCEPT !.step = "set", !.track = c, !.replay = FALSE]
      PROVE  Sound'
  <2>1. op' \in Op /\ op'.by = op.by /\ op'.step = "set" /\ op'.over = op.over /\ op'.track = c
    BY <1>0, <1>1 DEF Op, Steps, MaybeTrack
  <2>2. Underway'
    BY <2>1 DEF Underway
  <2> QED
    BY <1>0, <2>1, <2>2, SoundMoves DEF Steps
<1>2. CASE UNCHANGED op
  BY <1>0, <1>2, SoundAside
<1> QED
  BY <1>1, <1>2 DEF Choose

\* From the order on the old belief does not count any more.
LEMMA SoundPlaying ==
  ASSUME BeliefInv, SetFile \/ Restart \/ PlayFails
  PROVE  Sound'
<1>0. op \in Op /\ op.step \in {"set", "restart"} /\ op.track \in Tracks
  BY DEF BeliefInv, Sound, Underway, SetFile, Restart, PlayFails
<1>1. CASE SetFile
  <2>1. op' = [op EXCEPT !.step = "restart", !.over = TRUE] /\ ordered' = op.track
    BY <1>1 DEF SetFile, Load
  <2>2. op' \in Op /\ op'.by = op.by /\ op'.step = "restart" /\ op'.over = TRUE /\ op'.track = op.track
    BY <1>0, <2>1 DEF Op, Steps
  <2> QED
    BY <1>0, <2>1, <2>2 DEF Sound, Believed, Underway, Seen
<1>2. CASE Restart
  <2>1. op' = [op EXCEPT !.step = "track"] /\ ordered' = ordered /\ op.step = "restart"
    BY <1>2 DEF Restart
  <2>2. op' \in Op /\ op'.by = op.by /\ op'.step = "track" /\ op'.over = op.over /\ op'.track = op.track
    BY <1>0, <2>1 DEF Op, Steps
  <2> QED
    BY <1>0, <2>1, <2>2 DEF BeliefInv, Sound, Believed, Underway, Seen
<1>3. CASE PlayFails
  <2>1. op' = [op EXCEPT !.step = "cleanup", !.over = TRUE]
    BY <1>3 DEF PlayFails
  <2>2. op' \in Op /\ op'.by = op.by /\ op'.step = "cleanup" /\ op'.over = TRUE /\ op'.track = op.track
    BY <1>0, <2>1 DEF Op, Steps
  <2> QED
    BY <1>0, <2>2 DEF Sound, Believed, Underway, Seen
<1> QED
  BY <1>1, <1>2, <1>3

LEMMA SoundTrack == ASSUME BeliefInv, Track PROVE Sound'
<1>1. op' = NoOp /\ ordered' = ordered /\ active' = op.track /\ tracked' = op.track /\ ordered = op.track
  BY DEF Track, SetCurrentFile, End, BeliefInv, Sound, Underway
<1> QED
  BY <1>1, SoundEnd

LEMMA SoundCleanup == ASSUME BeliefInv, Cleanup PROVE Sound'
<1>0. op \in Op /\ active' = Nothing /\ op.step = "cleanup" /\ op.track \in Tracks
  BY DEF BeliefInv, Sound, Underway, Cleanup, Forsake
<1>1. CASE End(op.tentative)
  BY <1>0, <1>1, SoundEnd DEF End
<1>2. ASSUME op' = [op EXCEPT !.step = "choose", !.track = Nothing, !.tentative = @ \cup {op.track}]
      PROVE  Sound'
  <2>1. op' \in Op /\ op'.by = op.by /\ op'.step = "choose" /\ op'.over = op.over
    BY <1>0, <1>2 DEF Op, Steps, MaybeTrack
  <2> QED
    BY <1>0, <2>1 DEF BeliefInv, Sound, Believed, Underway, Seen
<1> QED
  BY <1>1, <1>2 DEF Cleanup

LEMMA SoundLoss ==
  ASSUME BeliefInv, LeaveAlone \/ EnsureFails \/ AskFails \/ HaltFails \/ ChooseFails \/ CleanupFails
  PROVE  Sound'
<1>1. CASE CleanupFails
  BY <1>1, SoundEnd DEF CleanupFails, Forsake, End
<1>2. CASE LeaveAlone \/ EnsureFails \/ AskFails \/ HaltFails \/ ChooseFails
  <2>1. op' = NoOp /\ UNCHANGED <<active, ordered, tracked>>
    BY <1>2 DEF LeaveAlone, EnsureFails, AskFails, HaltFails, ChooseFails, End, clientVars
  <2>2. op.step \in {"ensure", "status", "settings", "halt", "choose"}
    BY <1>2 DEF LeaveAlone, EnsureFails, AskFails, HaltFails, ChooseFails, Inspected
  <2> QED
    BY <2>1, <2>2, SoundEnd
<1> QED
  BY <1>1, <1>2

LEMMA SoundWorld ==
  ASSUME BeliefInv, \/ Quiet \/ Meddle \/ ConnectionLost \/ Rescan \/ DialFails
                    \/ Dial \/ Connected \/ PlaybackMissing \/ Wake \/ Receive \/ UNCHANGED vars
  PROVE  Sound'
<1>1. UNCHANGED <<op, active, ordered>> /\ tracked' \in {tracked, Nothing}
  <2>1. CASE Quiet \/ UNCHANGED vars
    BY <2>1 DEF Quiet, TrackEnds, TrackFreezes, SettleEnds, HandleEvent, vars, clientVars, beliefVars
  <2>2. CASE Meddle \/ ConnectionLost \/ Rescan \/ DialFails
    BY <2>2 DEF Meddle, ConnectionLost, Rescan, DialFails, clientVars, beliefVars
  <2>3. CASE \/ Dial \/ Connected \/ PlaybackMissing \/ Wake \/ Receive
    BY <2>3 DEF Dial, Connected, PlaybackMissing, Wake, Receive, clientVars, beliefVars
  <2> QED
    BY <2>1, <2>2, <2>3
<1> QED
  BY <1>1, SoundAside

LEMMA SoundTurn ==
  ASSUME BeliefInv, Recover \/ Reconcile \/ HandleEnded \/ Command
  PROVE  Sound'
<1>1. UNCHANGED <<active, ordered, tracked>>
  BY DEF Recover, Reconcile, HandleEnded, Enter, Command, clientVars, beliefVars
<1>2. CASE UNCHANGED op
  BY <1>1, <1>2, SoundAside
<1>3. CASE \/ Take("reconnect", "ensure") \/ Take("scheduler", "link") \/ Take("events", "link")
           \/ Take("telegram", "choose") \/ Take("telegram", "ensure")
  BY <1>1, <1>3, SoundTake DEF Workers
<1> QED
  BY <1>2, <1>3 DEF Recover, Reconcile, HandleEnded, Enter, Command

LEMMA SoundBegin == ASSUME BeliefInv, Begin PROVE Sound'
<1>0. op \in Op /\ UNCHANGED <<active, ordered, tracked>> /\ op.step = "link"
  BY DEF BeliefInv, Sound, Begin, clientVars
<1>1. ASSUME op' = [op EXCEPT !.step = IF op.by = "events" THEN "status" ELSE "ensure"]
      PROVE  Sound'
  <2>1. op' \in Op /\ op'.by = op.by /\ op'.step \in {"status", "ensure"}
    BY <1>0, <1>1 DEF Op, Steps
  <2> QED
    BY <1>0, <2>1 DEF BeliefInv, Sound, Believed, Underway, Seen
<1>2. CASE End({})
  BY <1>0, <1>2, SoundEnd DEF End
<1> QED
  BY <1>1, <1>2 DEF Begin

LEMMA SoundStep == ASSUME BeliefInv, [Next]_vars PROVE Sound'
  BY SoundBegin, SoundEnsure, SoundAskStatus, SoundSuspect, SoundStalled, SoundAdvance, SoundReplay, SoundHalt,
     SoundChoose, SoundPlaying, SoundTrack, SoundCleanup, SoundLoss, SoundWorld, SoundTurn
     DEF Next, Request, RequestLost, Worker

-----------------------------------------------------------------------------
(* The rest of TypeOK.                                                      *)

\* A request that fails, and any other fault, is counted.
LEMMA Counted ==
  ASSUME Plain, Fault \/ RequestFails \/ UNCHANGED faults
  PROVE  faults' \in 0..MaxFaults
  BY PlaybackAssumption DEF Plain, Fault, RequestFails

\* Where an operation leaves the worker, its event and the quarantine.
LEMMA EndPlain ==
  ASSUME Plain, inHand \in MaybeTrack, NEW withdrawn, End(withdrawn)
  PROVE  /\ at' \in [Workers -> Places]
         /\ inHand' \in MaybeTrack /\ recovering' \in BOOLEAN /\ turn' \in Turns
         /\ quarantine' \subseteq Tracks
  BY DEF Plain, End, MaybeTrack, Places, Turns

LEMMA PlainRequest == ASSUME BeliefInv, Request PROVE Plain' /\ inHand' \in MaybeTrack
<1>0. Plain /\ inHand \in MaybeTrack /\ op \in Op /\ Underway /\ Nothing \notin Tracks
  BY PlaybackAssumption DEF BeliefInv, Sound, Queues
<1> USE DEF obsVars, clientVars, workerVars, beliefVars, MaybeTrack
<1>1. CASE Ensure
  BY <1>0, <1>1, EndPlain DEF Plain, Ensure
<1>2. CASE AskStatus
  BY <1>0, <1>2 DEF Plain, AskStatus
<1>3. CASE LeaveAlone
  BY <1>0, <1>3, EndPlain DEF Plain, LeaveAlone
<1>4. CASE Suspect \/ Stalled
  BY <1>0, <1>4 DEF Plain, Suspect, Stalled
<1>5. CASE Advance
  <2>1. active \in Tracks
    BY <1>0, <1>5 DEF Plain, Advance, Mismatch
  <2> QED
    BY <1>0, <1>5, <2>1 DEF Plain, Advance, Forsake
<1>6. CASE Replay
  <2>1. UNCHANGED <<obsVars, clientVars, workerVars, ordered>>
        /\ \/ UNCHANGED <<beliefVars, faults>>
           \/ active \in Tracks \ quarantine /\ Fault /\ quarantine' = quarantine \cup {active} /\ Forsake
           \/ Forsake /\ UNCHANGED <<quarantine, faults>>
    BY <1>6, Zenon DEF Replay
  <2>2. faults' \in 0..MaxFaults
    BY <1>0, <2>1, Counted
  <2> QED
    BY <1>0, <2>1, <2>2 DEF Plain, Forsake
<1>7. CASE Halt
  <2>1. obs' \in [file : Tracks \cup {Foreign, Nothing}, state : States] /\ active \in Tracks
    BY <1>0, <1>7 DEF Plain, Halt, Stopped, Underway, States
  <2> QED
    BY <1>0, <1>7, <2>1 DEF Plain, Halt, Forsake
<1>8. CASE Choose
  <2>1. faults' \in 0..MaxFaults
    BY <1>0, <1>8, Counted DEF Choose
  <2> QED
    BY <1>0, <1>8, <2>1 DEF Plain, Choose
<1>9. CASE SetFile
  <2>1. op.track \in Tracks
    BY <1>0, <1>9 DEF SetFile, Underway
  <2>2. obs' \in [file : Tracks \cup {Foreign, Nothing}, state : States] /\ ordered' \in Tracks
    BY <1>9, <2>1 DEF SetFile, Load, States
  <2> QED
    BY <1>0, <1>9, <2>2 DEF Plain, SetFile
<1>10. CASE Restart
  <2>1. obs' \in [file : Tracks \cup {Foreign, Nothing}, state : States]
    BY <1>0, <1>10 DEF Plain, Restart, States
  <2> QED
    BY <1>0, <1>10, <2>1 DEF Plain, Restart
<1>11. CASE Track
  <2>1. op.track \in Tracks
    BY <1>0, <1>11 DEF Track, Underway
  <2> QED
    BY <1>0, <1>11, <2>1, EndPlain DEF Plain, Track
<1>12. CASE Cleanup
  <2>1. op.track \in Tracks
    BY <1>0, <1>12 DEF Cleanup, Underway
  <2>2. obs' \in [file : Tracks \cup {Foreign, Nothing}, state : States]
    BY <1>0, <1>12 DEF Plain, Cleanup, Stopped, States
  <2>3. active' \in MaybeTrack /\ settling' \in BOOLEAN /\ UNCHANGED <<conn, ordered, faults>>
    BY <1>12 DEF Cleanup, Forsake
  <2>4. CASE End(op.tentative)
    BY <1>0, <2>2, <2>3, <2>4, EndPlain DEF Plain
  <2>5. CASE quarantine' = quarantine \cup {op.track} /\ UNCHANGED workerVars
    BY <1>0, <2>1, <2>2, <2>3, <2>5 DEF Plain
  <2> QED
    BY <1>12, <2>4, <2>5 DEF Cleanup
<1>13. CASE Begin
  <2>1. CASE End({})
    BY <1>0, <1>13, <2>1, EndPlain DEF Plain, Begin
  <2>2. CASE ~End({})
    BY <1>0, <1>13, <2>2 DEF Plain, Begin, Turns
  <2> QED
    BY <2>1, <2>2
<1> QED
  BY <1>1, <1>2, <1>3, <1>4, <1>5, <1>6, <1>7, <1>8, <1>9, <1>10, <1>11, <1>12, <1>13 DEF Request

LEMMA PlainLoss == ASSUME BeliefInv, RequestLost PROVE Plain' /\ inHand' \in MaybeTrack
<1>0. Plain /\ inHand \in MaybeTrack /\ op \in Op /\ Underway
  BY DEF BeliefInv, Sound, Queues
<1>1. faults' \in 0..MaxFaults
  <2>1. RequestFails \/ Fault \/ UNCHANGED faults
    BY DEF RequestLost, EnsureFails, AskFails, HaltFails, ChooseFails, PlayFails, CleanupFails
  <2> QED
    BY <1>0, <2>1, Counted
<1> USE DEF obsVars, clientVars, workerVars, beliefVars, MaybeTrack
<1>2. CASE EnsureFails \/ AskFails \/ ChooseFails
  <2>1. PICK withdrawn : End(withdrawn)
    BY <1>2 DEF EnsureFails, AskFails, ChooseFails
  <2>2. UNCHANGED <<obs, conn, active, settling, ordered>>
    BY <1>2 DEF EnsureFails, AskFails, ChooseFails
  <2> QED
    BY <1>0, <1>1, <2>1, <2>2, EndPlain DEF Plain
<1>3. CASE HaltFails \/ CleanupFails
  <2>1. PICK withdrawn : End(withdrawn)
    BY <1>3 DEF HaltFails, CleanupFails
  <2>2. UNCHANGED <<conn, ordered>> /\ (UNCHANGED <<active, settling>> \/ Forsake)
        /\ (UNCHANGED obs \/ Stopped)
    BY <1>3 DEF HaltFails, CleanupFails
  <2>3. obs' \in [file : Tracks \cup {Foreign, Nothing}, state : States]
    BY <1>0, <2>2 DEF Plain, Stopped, States
  <2> QED
    BY <1>0, <1>1, <2>1, <2>2, <2>3, EndPlain DEF Plain, Forsake
<1>4. CASE PlayFails
  <2>1. UNCHANGED <<obs, ordered>> \/ (op.step = "set" /\ Load)
    BY <1>4 DEF PlayFails
  <2>2. obs' \in [file : Tracks \cup {Foreign, Nothing}, state : States] /\ ordered' \in MaybeTrack
    BY <1>0, <2>1 DEF Plain, Load, Underway, States
  <2> QED
    BY <1>0, <1>1, <1>4, <2>2 DEF Plain, PlayFails
<1> QED
  BY <1>2, <1>3, <1>4 DEF RequestLost

LEMMA PlainWorld ==
  ASSUME BeliefInv, Quiet \/ Meddle \/ ConnectionLost \/ Rescan \/ DialFails \/ Worker \/ UNCHANGED vars
  PROVE  Plain'
<1>0. Plain
  BY DEF BeliefInv
<1> USE DEF vars, obsVars, clientVars, workerVars, beliefVars, MaybeTrack, Workers, Goto
<1>1. CASE Quiet \/ UNCHANGED vars
  <2>1. obs' = obs \/ obs' \in {[obs EXCEPT !.state = "ended"], [obs EXCEPT !.state = "frozen"]}
    BY <1>1 DEF Quiet, TrackEnds, TrackFreezes, SettleEnds, HandleEvent
  <2>2. obs' \in [file : Tracks \cup {Foreign, Nothing}, state : States]
    BY <1>0, <2>1 DEF Plain, States
  <2>3. UNCHANGED <<conn, at, recovering, active, quarantine, ordered, turn, faults>>
        /\ settling' \in BOOLEAN
    BY <1>0, <1>1 DEF Quiet, TrackEnds, TrackFreezes, SettleEnds, HandleEvent, Plain
  <2> QED
    BY <1>0, <2>2, <2>3 DEF Plain
<1>2. CASE Meddle \/ ConnectionLost \/ Rescan \/ DialFails
  <2>1. Fault
    BY <1>2 DEF Meddle, ConnectionLost, Rescan, DialFails
  <2>2. faults' \in 0..MaxFaults
    BY <1>0, <2>1, Counted
  <2>3. CASE Meddle
    <3>1. obs' \in [file : Tracks \cup {Foreign, Nothing}, state : States]
      BY <1>0, <2>3 DEF Meddle, Plain, States
    <3> QED
      BY <1>0, <2>2, <2>3, <3>1 DEF Meddle, Plain
  <2>4. CASE ConnectionLost
    <3>1. obs' \in [file : Tracks \cup {Foreign, Nothing}, state : States]
      BY <1>0, <2>4 DEF ConnectionLost, Plain, States
    <3> QED
      BY <1>0, <2>2, <2>4, <3>1 DEF ConnectionLost, Plain
  <2>5. CASE Rescan
    BY <1>0, <2>2, <2>5 DEF Rescan, Plain
  <2>6. CASE DialFails
    BY <1>0, <2>2, <2>6 DEF DialFails, Plain, Places
  <2> QED
    BY <1>2, <2>3, <2>4, <2>5, <2>6
<1>3. CASE Worker
  <2>1. UNCHANGED <<obs, active, settling, quarantine, ordered, faults>>
    BY <1>3 DEF Worker, Dial, Connected, PlaybackMissing, Recover, Wake, Reconcile, Receive,
                HandleEnded, Enter, TurnBack, Command
  <2>2. conn' \in {conn, "up"} /\ recovering' \in {recovering, TRUE} /\ turn' \in {turn, "none"}
    BY <1>3 DEF Worker, Dial, Connected, PlaybackMissing, Recover, Wake, Reconcile, Receive,
                HandleEnded, Enter, TurnBack, Command
  <2>3. \/ at' = at
        \/ \E w \in Workers, place \in Places : at' = [at EXCEPT ![w] = place]
    BY <1>3 DEF Places, Worker, Dial, Connected, PlaybackMissing, Recover, Wake, Reconcile, Receive,
                HandleEnded, Enter, TurnBack, Command
  <2>4. at' \in [Workers -> Places]
    BY <1>0, <2>3 DEF Plain
  <2>5. conn' \in {"down", "up"} /\ recovering' \in BOOLEAN /\ turn' \in Turns
    BY <1>0, <2>2 DEF Plain, Turns
  <2> QED
    BY <1>0, <2>1, <2>4, <2>5 DEF Plain
<1> QED
  BY <1>1, <1>2, <1>3

-----------------------------------------------------------------------------
(* The client's queues.                                                     *)

LEMMA SubSeqTyped ==
  ASSUME NEW s \in Seq(Tracks), NEW i \in 1..(Len(s) + 1)
  PROVE  SubSeq(s, i, Len(s)) \in Seq(Tracks) /\ Len(SubSeq(s, i, Len(s))) = Len(s) - i + 1
  OBVIOUS

LEMMA PrunedTyped ==
  ASSUME superseded \in Seq(Tracks), NEW room \in Nat, NEW queue \in Pruned(room)
  PROVE  queue \in Seq(Tracks) /\ Len(queue) <= room
<1>1. PICK k \in 0..Len(superseded) :
        Len(superseded) - k <= room /\ queue = SubSeq(superseded, k + 1, Len(superseded))
  BY DEF Pruned
<1>2. Len(superseded) \in Nat /\ k + 1 \in 1..(Len(superseded) + 1)
  OBVIOUS
<1> QED
  BY <1>1, <1>2, SubSeqTyped

LEMMA DeliverTyped ==
  ASSUME Queues, NEW path \in Tracks, Deliver(path)
  PROVE  events' \in Seq(Tracks) /\ Len(events') <= EventBuffer
  BY PlaybackAssumption DEF Queues, Deliver

LEMMA SendTyped ==
  ASSUME Queues, Send \/ UNCHANGED unread \/ unread' = 0
  PROVE  unread' \in 0..MaxUnread
  BY PlaybackAssumption DEF Queues, Send

LEMMA CurrentTyped ==
  ASSUME Queues, NEW track \in Tracks, SetCurrentFile(track) \/ ClearCurrentFile
  PROVE  tracked' \in MaybeTrack /\ superseded' \in Seq(Tracks) /\ Len(superseded') <= MaxSuperseded
<1>1. CASE superseded' \in {<<>>, superseded} /\ tracked' \in {track, Nothing}
  <2>1. <<>> \in Seq(Tracks) /\ Len(<<>>) <= MaxSuperseded
    BY PlaybackAssumption
  <2> QED
    BY <1>1, <2>1 DEF Queues, MaybeTrack
<1>2. CASE SetCurrentFile(track) /\ tracked # Nothing /\ tracked # track
  <2>1. tracked' = track /\ tracked \in Tracks /\ MaxSuperseded - 1 \in Nat
    BY <1>2, PlaybackAssumption DEF Queues, SetCurrentFile, MaybeTrack
  <2>2. PICK queue \in Pruned(MaxSuperseded - 1) : superseded' = Append(queue, tracked)
    BY <1>2 DEF SetCurrentFile
  <2>3. queue \in Seq(Tracks) /\ Len(queue) <= MaxSuperseded - 1
    BY <2>1, PrunedTyped DEF Queues
  <2>4. Len(superseded') = Len(queue) + 1 /\ superseded' \in Seq(Tracks)
    BY <2>1, <2>2, <2>3
  <2> QED
    BY <2>1, <2>3, <2>4, PlaybackAssumption DEF MaybeTrack
<1>3. CASE ~(SetCurrentFile(track) /\ tracked # Nothing /\ tracked # track)
  BY <1>1, <1>3 DEF ClearCurrentFile, SetCurrentFile
<1> QED
  BY <1>2, <1>3

LEMMA HandleEventTyped == ASSUME Queues, HandleEvent PROVE Queues'
<1>1. unread' \in 0..MaxUnread /\ UNCHANGED inHand
  BY PlaybackAssumption DEF Queues, HandleEvent, workerVars
<1>2. PICK queue \in Pruned(MaxSuperseded) :
       \/ \E i \in OtherFile(queue) :
            /\ Deliver(queue[i])
            /\ superseded' = SubSeq(queue, i + 1, Len(queue))
            /\ UNCHANGED tracked
       \/ /\ OtherFile(queue) = {}
          /\ superseded' = <<>>
          /\ IF tracked = Nothing THEN UNCHANGED <<events, tracked>>
             ELSE Deliver(tracked) /\ tracked' = Nothing
  BY DEF HandleEvent
<1>3. queue \in Seq(Tracks) /\ Len(queue) <= MaxSuperseded
  BY PrunedTyped, PlaybackAssumption DEF Queues
<1>4. ASSUME NEW i \in OtherFile(queue), Deliver(queue[i]),
             superseded' = SubSeq(queue, i + 1, Len(queue)), UNCHANGED tracked
      PROVE  Queues'
  <2>1. i \in 1..Len(queue) /\ queue[i] \in Tracks /\ i + 1 \in 1..(Len(queue) + 1)
    BY <1>3 DEF OtherFile
  <2>2. superseded' \in Seq(Tracks) /\ Len(superseded') <= MaxSuperseded
    BY <1>3, <1>4, <2>1, SubSeqTyped, PlaybackAssumption
  <2> QED
    BY <1>1, <1>4, <2>1, <2>2, DeliverTyped DEF Queues
<1>5. ASSUME superseded' = <<>>,
             IF tracked = Nothing THEN UNCHANGED <<events, tracked>>
             ELSE Deliver(tracked) /\ tracked' = Nothing
      PROVE  Queues'
  <2>1. tracked' \in MaybeTrack /\ events' \in Seq(Tracks) /\ Len(events') <= EventBuffer
    BY <1>5, DeliverTyped DEF Queues, MaybeTrack
  <2>2. superseded' \in Seq(Tracks) /\ Len(superseded') <= MaxSuperseded
    BY <1>5, PlaybackAssumption
  <2> QED
    BY <1>1, <2>1, <2>2 DEF Queues
<1> QED
  BY <1>2, <1>4, <1>5

LEMMA QueuesStep == ASSUME BeliefInv, [Next]_vars PROVE Queues'
<1>0. Queues /\ Plain /\ op \in Op /\ Underway
  BY DEF BeliefInv, Sound
<1> USE DEF vars, obsVars, clientVars, workerVars, beliefVars
<1>1. CASE HandleEvent
  BY <1>0, <1>1, HandleEventTyped
<1>2. CASE Track \/ Halt \/ Cleanup
  <2>1. (SetCurrentFile(op.track) /\ op.track \in Tracks) \/ ClearCurrentFile
    BY <1>0, <1>2 DEF Track, Halt, Cleanup, Underway
  <2>2. tracked' \in MaybeTrack /\ superseded' \in Seq(Tracks) /\ Len(superseded') <= MaxSuperseded
    BY <1>0, <2>1, CurrentTyped, PlaybackAssumption
  <2>3. UNCHANGED <<unread, events>> /\ inHand' \in MaybeTrack
    BY <1>0, <1>2 DEF Track, Halt, Cleanup, End, Queues, MaybeTrack
  <2> QED
    BY <1>0, <2>2, <2>3 DEF Queues
<1>3. CASE Receive
  <2>1. events # <<>> /\ events' = Tail(events) /\ inHand' \in {inHand, Head(events)}
        /\ UNCHANGED <<unread, tracked, superseded>>
    BY <1>3 DEF Receive
  <2>2. Head(events) \in Tracks /\ Tail(events) \in Seq(Tracks) /\ Len(Tail(events)) <= EventBuffer
    BY <1>0, <2>1, PlaybackAssumption DEF Queues
  <2> QED
    BY <1>0, <2>1, <2>2 DEF Queues, MaybeTrack
<1>4. ASSUME UNCHANGED <<tracked, superseded, events>>, inHand' \in {inHand, Nothing},
             Send \/ UNCHANGED unread \/ unread' = 0
      PROVE  Queues'
  BY <1>0, <1>4, SendTyped DEF Queues, MaybeTrack
<1>5. CASE TrackEnds \/ TrackFreezes \/ SettleEnds \/ Meddle \/ ConnectionLost \/ Rescan \/ DialFails
           \/ UNCHANGED vars
  BY <1>4, <1>5 DEF TrackEnds, TrackFreezes, SettleEnds, Meddle, ConnectionLost, Rescan, DialFails
<1>6. CASE \/ Dial \/ Connected \/ PlaybackMissing \/ Recover \/ Wake \/ Reconcile \/ HandleEnded
           \/ Command
  BY <1>4, <1>6 DEF Dial, Connected, PlaybackMissing, Recover, Wake, Reconcile, HandleEnded, Enter, TurnBack, Command
<1>7. CASE RequestLost
  <2>1. UNCHANGED <<tracked, superseded, events>> /\ inHand' \in {inHand, Nothing}
    BY <1>7 DEF RequestLost, EnsureFails, AskFails, HaltFails, ChooseFails, PlayFails, CleanupFails, End
  <2>2. Send \/ UNCHANGED unread
    BY <1>7 DEF RequestLost, EnsureFails, AskFails, HaltFails, ChooseFails, PlayFails, CleanupFails, Load
  <2> QED
    BY <1>4, <2>1, <2>2
<1>8. CASE Begin \/ Ensure \/ AskStatus \/ LeaveAlone \/ Suspect \/ Stalled \/ Advance \/ Replay \/ Choose
           \/ SetFile \/ Restart
  <2>1. UNCHANGED <<tracked, superseded, events>> /\ inHand' \in {inHand, Nothing}
    BY <1>8 DEF Begin, Ensure, AskStatus, LeaveAlone, Suspect, Stalled, Advance, Replay, Choose, SetFile,
                Restart, End
  <2>2. Send \/ UNCHANGED unread
    BY <1>8 DEF Begin, Ensure, AskStatus, LeaveAlone, Suspect, Stalled, Advance, Replay, Choose, SetFile,
                Restart, Load
  <2> QED
    BY <1>4, <2>1, <2>2
<1> QED
  BY <1>1, <1>2, <1>3, <1>5, <1>6, <1>7, <1>8 DEF Next, Quiet, Worker, Request

-----------------------------------------------------------------------------
(* The theorems about playback.                                             *)

LEMMA BeliefInit == Init => BeliefInv
<1> SUFFICES ASSUME Init PROVE BeliefInv
  OBVIOUS
<1>1. Queues
  BY PlaybackAssumption DEF Init, Queues, MaybeTrack
<1>2. Plain
  <2>1. obs \in [file : Tracks \cup {Foreign, Nothing}, state : States]
    BY DEF Init, States
  <2>2. at \in [Workers -> Places]
    BY DEF Init, Places
  <2>3. faults \in 0..MaxFaults
    BY PlaybackAssumption DEF Init
  <2>4. conn \in {"down", "up"} /\ recovering \in BOOLEAN /\ settling \in BOOLEAN /\ turn \in Turns
        /\ active \in MaybeTrack /\ ordered \in MaybeTrack /\ quarantine \subseteq Tracks
    BY DEF Init, MaybeTrack, Turns
  <2> QED
    BY <2>1, <2>2, <2>3, <2>4 DEF Plain
<1>3. Sound
  BY NoOpTyped, NoOpFields DEF Init, Sound, Believed, Underway, Seen
<1> QED
  BY <1>1, <1>2, <1>3 DEF BeliefInv

LEMMA PlainStep == ASSUME BeliefInv, [Next]_vars PROVE Plain'
  BY PlainRequest, PlainLoss, PlainWorld DEF Next

\* Whatever requests of whichever operations are lost, what the service
\* believes, what it is doing and what it has seen go together.
THEOREM BeliefInvHolds == Spec => []BeliefInv
<1>1. BeliefInv /\ [Next]_vars => BeliefInv'
  BY QueuesStep, PlainStep, SoundStep DEF BeliefInv
<1> QED
  BY <1>1, BeliefInit, PTL DEF Spec

\* Between operations the active track is the last one that OBS was made to
\* load, and ended events are put down to it or to nothing
\* (playOBSFileLocked, ErrSourceMayBeMutated, setCurrentFile).
THEOREM BeliefIsSound == Spec => []BeliefIsLastOrder
<1>1. BeliefInv => BeliefIsLastOrder
  BY TypeParts, NoOpTyped DEF BeliefInv, Sound, Believed, BeliefIsLastOrder
<1> QED
  BY <1>1, BeliefInvHolds, PTL

\* No worker interferes with a track it has not seen to be over, stuck or out
\* of the library, whatever the ended events say
\* (handleLibraryOBSEventAttempt, reconcileLibrarySourceLocked).
THEOREM HealthyIsKept == Spec => []HealthyPlaybackIsKept
<1>1. BeliefInv => HealthyPlaybackIsKept
  BY DEF BeliefInv, Sound, Seen, HealthyPlaybackIsKept
<1> QED
  BY <1>1, BeliefInvHolds, PTL
=============================================================================
