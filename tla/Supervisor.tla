----------------------------- MODULE Supervisor -----------------------------
(***************************************************************************)
(* supervise_service of run.sh: it starts the application with a pipe and  *)
(* a reader (Liveness), looks at both and at the state file once a tick,   *)
(* stops a generation whose workers have gone stale or whose pipe fails,   *)
(* drains its process group, and restarts it after a growing delay.        *)
(*                                                                         *)
(* Time is the supervisor's tick: a healthy worker, reporter or reader     *)
(* does what it has to do before the tick that would be too late for it.   *)
(* Other waits (the grace after TERM, the restart delay) are as long as    *)
(* they are; the restart delay itself is counted in units of the shortest. *)
(***************************************************************************)
EXTENDS Liveness

CONSTANTS StartupGrace,                       \* LIVENESS_STARTUP_GRACE_SECONDS
          NormalStale, ProbeStale, LongStale, \* LIVENESS_*_STALE_SECONDS
          MaxDelay                            \* RESTART_MAX_DELAY_SECONDS / RESTART_MIN_DELAY_SECONDS

\* A healthy worker's silence and the time to its next frame stay below the
\* limits.
ASSUME SupervisorAssumption ==
  /\ {StartupGrace, MaxDelay} \subseteq Nat \ {0}
  /\ {NormalStale, ProbeStale, LongStale} \subseteq Nat
  /\ NormalQuiet + ReportEvery < NormalStale
  /\ ProbeQuiet + ReportEvery < ProbeStale
  /\ LongQuiet + ReportEvery < LongStale

VARIABLES
  pc,         \* where supervise_service stands
  seen,       \* the phase of each worker's last value, and its age
  heard,      \* whether a frame has been consumed in this generation
  startupAge, \* ticks without a frame, from -1
  failure,    \* LIVENESS_WATCHDOG_FAILURE
  status,     \* the generation's status
  recorded,   \* whether the state file names the group of this generation
  left,       \* whether the application has left processes behind (ffprobe)
  delay,      \* the next restart delay
  streak      \* history: restarts in a row of generations that did not last

watchVars == <<seen, heard, startupAge, failure>>
groupVars == <<recorded, left>>
delayVars == <<delay, streak>>
supervisorVars == <<pc, watchVars, status, groupVars, delayVars>>
vars == <<livenessVars, supervisorVars>>

Steps == {"prepare", "record", "watch", "race", "look",
          "failed", "reap", "drain", "clear", "wait", "ended"}
Unseen == [w \in Workers |-> [phase |-> "unknown", age |-> 0]]

SupervisorTypeOK ==
  /\ LivenessTypeOK
  /\ pc \in Steps
  /\ seen \in [Workers -> [phase : Phases, age : Nat]]
  /\ {heard, recorded, left} \subseteq BOOLEAN
  /\ startupAge \in -1 .. StartupGrace
  /\ failure \in {"none", "startup", "stale", "channel", "reader"}
  /\ status \in Statuses
  /\ delay \in 1..MaxDelay
  /\ streak \in Nat

Init ==
  /\ LivenessInit
  /\ pc = "prepare"
  /\ seen = Unseen
  /\ heard = FALSE
  /\ startupAge = -1
  /\ failure = "none"
  /\ status = "ok"
  /\ recorded = FALSE
  /\ left = FALSE
  /\ delay = 1
  /\ streak = 0

-----------------------------------------------------------------------------
(* A generation is started.                                                 *)

NewWatch == seen' = Unseen /\ heard' = FALSE /\ startupAge' = -1 /\ failure' = "none"
\* supervise_service exits, and its variables go with it; the root supervisor
\* is told to stop.
Leaves == pc' = "ended" /\ NewWatch

\* The directory of an earlier generation is in the way, or the pipe cannot be
\* made.
PrepareFails ==
  /\ pc = "prepare"
  /\ Leaves
  /\ UNCHANGED <<livenessVars, status, groupVars, delayVars>>

Launch ==
  /\ pc = "prepare"
  /\ pc' = "record"
  /\ app' = "starting" /\ sink' = TRUE
  /\ reader' = "reading"
  /\ NewWatch
  /\ status' = "ok"
  /\ UNCHANGED <<registryVars, sinceReport, frozen, pipe, stalled, file, groupVars, delayVars>>

Record ==
  /\ pc = "record"
  /\ recorded' = TRUE
  /\ pc' = "watch"
  /\ UNCHANGED <<livenessVars, watchVars, status, left, delayVars>>

\* Nothing of the generation is left, but what even KILL does not end.
GroupIs(process) ==
  /\ app' = process
  /\ ReportsEnd
  /\ sink' = FALSE /\ hung' = {} /\ frozen' = FALSE
GroupEnds == GroupIs("none") /\ left' = FALSE
GroupStays == (app # "none" \/ left) /\ GroupIs("unkillable") /\ UNCHANGED left
\* The reader is stopped, and the pipe goes with its last process.
ReaderStops == reader' = "none" /\ stalled' = FALSE /\ pipe' = << >>

\* The group cannot be recorded, or the child is no group leader: what was
\* started is stopped, as far as that works.
RecordFails ==
  /\ pc = "record"
  /\ GroupEnds \/ GroupStays
  /\ ReaderStops
  /\ file' = Says("none")
  /\ Leaves
  /\ UNCHANGED <<status, recorded, delayVars>>

-----------------------------------------------------------------------------
(* The watch loop.                                                          *)

Goes(step) ==
  /\ pc' = step
  /\ UNCHANGED <<livenessVars, watchVars, status, groupVars, delayVars>>
Fails(reason) == pc' = "failed" /\ failure' = reason

Errors == {"refused", "eof"}

\* process_has_exited, first of the reader and then of the application.  A
\* reader that has seen the end of the pipe gives the application a second to
\* end as well.
CheckProcesses ==
  /\ pc = "watch"
  /\ \/ reader \in {"reading", "closing"} /\ Goes(IF app \in Statuses THEN "reap" ELSE "look")
     \/ reader = "eof" /\ Goes("race")
     \/ /\ reader = "failed"
        /\ Fails(IF file.line \in Errors THEN "channel" ELSE "reader")
        /\ UNCHANGED <<livenessVars, seen, heard, startupAge, status, groupVars, delayVars>>

CheckRace ==
  /\ pc = "race"
  /\ IF app \in Statuses
       THEN Goes("reap")
       ELSE /\ Fails("channel")
            /\ UNCHANGED <<livenessVars, seen, heard, startupAge, status, groupVars, delayVars>>

Stale(phase) == CASE phase = "probe" -> ProbeStale
                  [] phase = "scan" -> LongStale
                  [] OTHER -> NormalStale

Older == [w \in Workers |-> [seen[w] EXCEPT !.age = @ + 1]]
\* Mutant: a new frame makes every worker young.
AgedAny == [w \in Workers |->
  IF file.line = "frame" THEN [phase |-> file.frame[w].phase, age |-> 0] ELSE Older[w]]
\* Mutant: a worker is young again only when its phase has changed.
AgedPhase == [w \in Workers |->
  IF file.line = "frame" /\ seen[w].phase # file.frame[w].phase
    THEN [phase |-> file.frame[w].phase, age |-> 0] ELSE Older[w]]

\* consume_liveness_state of a frame that is new: a worker whose value has
\* changed is young again.  Then tick_liveness_watchdog counts every age.
Aged == [w \in Workers |->
  IF file.line = "frame" /\ file.frame[w].moved
    THEN [phase |-> file.frame[w].phase, age |-> 0] ELSE Older[w]]

Quiet(phase) == CASE phase = "probe" -> ProbeQuiet
                  [] phase = "scan" -> LongQuiet
                  [] OTHER -> NormalQuiet
\* Who is healthy has done what the tick that ends now requires.
Punctual ==
  /\ app = "running" => \A w \in Workers \ hung : worker[w].quiet < Quiet(worker[w].phase)
  /\ app = "running" /\ ~frozen => sinceReport < ReportEvery
  /\ reader = "reading" /\ ~stalled => pipe = << >> /\ (sink \/ file.line = "refused")
  /\ reader # "closing"

\* The next tick: the time since everyone's last step grows.
TimePasses ==
  IF app = "running"
    THEN /\ worker' = [w \in Workers |-> [worker[w] EXCEPT !.quiet = @ + 1]]
         /\ sinceReport' = IF sinceReport < ReportEvery THEN sinceReport + 1 ELSE sinceReport
    ELSE UNCHANGED <<worker, sinceReport>>

\* The state file is read, and the watchdog ticks: startup without a frame, or
\* the age of every worker against the limit of the phase it reported.
Look ==
  LET new == heard \/ file.line = "frame" IN
  /\ pc = "look"
  /\ file.line \notin Errors
  /\ Punctual
  /\ heard' = new
  /\ seen' = IF new THEN Aged ELSE seen
  /\ startupAge' = IF new THEN startupAge ELSE startupAge + 1
  /\ file' = IF file.line # "frame" THEN file
             ELSE [line |-> "consumed",
                   frame |-> [w \in Workers |-> [file.frame[w] EXCEPT !.moved = FALSE]]]
  /\ IF new /\ \E w \in Workers : seen'[w].age >= Stale(seen'[w].phase) THEN Fails("stale")
     ELSE IF ~new /\ startupAge' >= StartupGrace THEN Fails("startup")
     ELSE pc' = "watch" /\ UNCHANGED failure
  /\ TimePasses
  /\ UNCHANGED <<hung, app, sink, frozen, pipe, readerVars, status, groupVars, delayVars>>

LookFails ==
  /\ pc = "look"
  /\ file.line \in Errors
  /\ Fails("channel")
  /\ UNCHANGED <<livenessVars, seen, heard, startupAge, status, groupVars, delayVars>>

-----------------------------------------------------------------------------
(* The end of a generation.                                                 *)

\* stop_child_process_group after a watchdog failure: TERM, a grace, KILL.
StopGeneration ==
  /\ pc = "failed"
  /\ ReaderStops
  /\ status' = "error"
  /\ \/ GroupEnds /\ pc' = "drain" /\ UNCHANGED <<watchVars, file>>
     \/ GroupStays /\ Leaves /\ file' = Says("none")
  /\ UNCHANGED <<recorded, delayVars>>

\* The child has ended by itself: its status counts.
Reap ==
  /\ pc = "reap"
  /\ status' = app
  /\ app' = "none"
  /\ ReaderStops
  /\ pc' = "drain"
  /\ UNCHANGED <<registryVars, sink, sinceReport, frozen, file, watchVars, groupVars, delayVars>>

\* Mutant: what the application has left behind is not waited for.
DrainNot == pc = "drain" /\ Goes("clear")

\* drain_process_group ends what the application has left behind.
Drain ==
  /\ pc = "drain"
  /\ \/ GroupEnds /\ pc' = "clear" /\ UNCHANGED <<watchVars, file>>
     \/ GroupStays /\ Leaves /\ file' = Says("none")
  /\ UNCHANGED <<pipe, readerVars, status, recorded, delayVars>>

Doubled == IF 2 * delay < MaxDelay THEN 2 * delay ELSE MaxDelay

TwoTo[n \in Nat] == IF n = 0 THEN 1 ELSE 2 * TwoTo[n - 1]

\* Mutant: the delay has been doubled when it is reset.
ClearDoubled(lasted) ==
  /\ pc = "clear"
  /\ recorded' = FALSE
  /\ file' = Says("none")
  /\ NewWatch
  /\ pc' = IF status = "contended" THEN "ended" ELSE "wait"
  /\ delay' = IF lasted /\ status # "contended" THEN Min({2, MaxDelay}) ELSE delay
  /\ streak' = IF lasted THEN 0 ELSE streak
  /\ UNCHANGED <<registryVars, appVars, pipe, readerVars, status, left>>

\* clear_child_group and the liveness directory.  A generation refused by the
\* singleton locks is not restarted; one that lasted for
\* RESTART_RESET_AFTER_SECONDS resets the delay.
Clear(lasted) ==
  /\ pc = "clear"
  /\ recorded' = FALSE
  /\ file' = Says("none")
  /\ NewWatch
  /\ pc' = IF status = "contended" THEN "ended" ELSE "wait"
  /\ delay' = IF lasted /\ status # "contended" THEN 1 ELSE delay
  /\ streak' = IF lasted THEN 0 ELSE streak
  /\ UNCHANGED <<registryVars, appVars, pipe, readerVars, status, left>>

\* The liveness directory cannot be removed.
ClearFails ==
  /\ pc = "clear"
  /\ recorded' = FALSE
  /\ Leaves
  /\ UNCHANGED <<livenessVars, status, left, delayVars>>

\* The restart delay has passed: it is doubled (delay_next).
WaitEnds ==
  /\ pc = "wait"
  /\ pc' = "prepare"
  /\ delay' = Doubled
  /\ streak' = IF TwoTo[streak] < MaxDelay THEN streak + 1 ELSE streak
  /\ UNCHANGED <<livenessVars, watchVars, status, groupVars>>

\* HUP, INT or TERM at any time, or the delay's own process cannot be handled:
\* the reader and the group are stopped.
Trap ==
  /\ pc # "ended"
  /\ ReaderStops
  /\ \/ GroupEnds /\ recorded' = FALSE
     \/ GroupStays /\ UNCHANGED recorded
  /\ file' = Says("none")
  /\ Leaves
  /\ UNCHANGED <<status, delayVars>>

-----------------------------------------------------------------------------
(* A worker's ffprobe is a process of the same group: it may be left behind  *)
(* when the application exits, and end later.                                *)

AppSteps ==
  /\ \/ \E w \in Workers : Works(w) \/ Hang(w)
     \/ AppReady \/ SendReport \/ Freeze \/ AppStops \/ AppRefuses \/ AppContended
     \/ ReaderReads \/ ReaderEnds \/ ReaderExits \/ ReaderFails \/ ReaderStalls
  /\ UNCHANGED supervisorVars

AppLeaves ==
  /\ AppExits
  /\ left' \in {FALSE, \E w \in Workers : worker[w].phase = "probe"}
  /\ UNCHANGED <<pc, watchVars, status, recorded, delayVars>>

HelperEnds ==
  /\ left
  /\ app # "unkillable"
  /\ left' = FALSE
  /\ UNCHANGED <<livenessVars, pc, watchVars, status, recorded, delayVars>>

Supervise ==
  \/ PrepareFails \/ Launch \/ Record \/ RecordFails
  \/ CheckProcesses \/ CheckRace \/ Look \/ LookFails
  \/ StopGeneration \/ Reap \/ Drain \/ ClearFails \/ WaitEnds \/ Trap
  \/ \E lasted \in BOOLEAN : Clear(lasted)

\* After the end nothing matters any more.
Ended == pc = "ended" /\ UNCHANGED vars

Next ==
  \/ pc # "ended" /\ (AppSteps \/ AppLeaves \/ HelperEnds)
  \/ Supervise
  \/ Ended

Spec == Init /\ [][Next]_vars

-----------------------------------------------------------------------------
(* Properties.                                                              *)

\* What a worker shows is what its calls say: the newest scope that is still
\* open, or the phase of its last boundary once none is; handles that are
\* closed late, twice or out of order change nothing, and no snapshot is ever
\* refused by the reader (Worker.Scope, ScopeHandle.Close, restoreScope).
Shows(r) == IF r.opened = {} THEN {r.advanced}
            ELSE {s.phase : s \in Handles(r, Max({o.token : o \in r.opened}))}
SnapshotsTellTruth ==
  /\ SupervisorTypeOK
  /\ \A w \in Workers : {worker[w].phase} = Shows(worker[w])
  /\ file.line # "refused"

\* A generation is stopped as stale only when something in it has stopped
\* working: no order of phases, frames and looks makes a healthy one old
\* (consume_liveness_state, tick_liveness_watchdog).
HealthyNotKilled ==
  [][failure' = "stale" /\ failure # "stale" => ~Healthy]_vars

\* A worker that says nothing is found.  While the reporter and the reader work,
\* it is silent for no longer than the limit of the phase it is in and the time
\* between two frames.  When either is stuck as well, the limit is that of the
\* phase the supervisor has last heard of, or the startup grace if it has not
\* heard of any (tick_liveness_watchdog).
StallsFound ==
  app = "running" /\ pc \in {"watch", "look"} => \A w \in Workers :
    /\ ~frozen /\ ~stalled => worker[w].quiet <= Stale(worker[w].phase) + ReportEvery
    /\ heard  => worker[w].quiet <= Stale(seen[w].phase) + ReportEvery
    /\ ~heard => worker[w].quiet <= StartupGrace

\* A generation is started only when nothing of the one before is left, and
\* whatever runs is named in the state file, so that it can be stopped: but
\* for a group that outlives KILL (supervise_service, drain_process_group).
OneGeneration ==
  /\ pc \in {"prepare", "wait", "clear"} => app = "none" /\ ~left /\ reader = "none"
  /\ (app # "none" \/ left) /\ ~recorded => pc = "record" \/ app = "unkillable"
  /\ pc = "prepare" => ~recorded

\* The n-th restart in a row of generations that did not last waits
\* 2^(n-1) times the shortest delay, up to the longest, whether they ended by
\* themselves or were stopped (RESTART_RESET_AFTER_SECONDS, delay_next).
DelaysBackOff ==
  pc = "wait" => delay = Min({TwoTo[streak], MaxDelay})

=============================================================================
