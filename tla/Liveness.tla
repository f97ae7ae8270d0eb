------------------------------ MODULE Liveness ------------------------------
(***************************************************************************)
(* What the application tells its supervisor about its workers             *)
(* (internal/liveness), and how that reaches the supervisor: every worker  *)
(* has a phase and a sequence that only it advances; the reporter writes   *)
(* snapshots of all workers to a pipe that may be full; the reader         *)
(* (scripts/liveness-reader.awk) checks them and keeps the last in a file. *)
(*                                                                         *)
(* A sequence is compared for order only, and the comparison is always     *)
(* with an earlier value of the same worker: "moved" says that it has      *)
(* grown since the frame before.  2^56 publications are out of reach.      *)
(***************************************************************************)
EXTENDS Naturals, Sequences, FiniteSets, FiniteSetsExt

CONSTANTS Workers,      \* the mandatory workers, RequiredWorkerCount
          SpecialPhases, \* the phases of scopes: PhaseMediaCopy to PhaseLibraryScan
          MaxScopes,    \* bound: scopes a worker enters in one generation
          PipeSize,     \* frames the pipe takes
          ReportEvery,  \* DefaultReportInterval, in ticks of the supervisor
          NormalQuiet, ProbeQuiet, LongQuiet  \* how long a healthy worker says nothing

ASSUME LivenessAssumption ==
  /\ IsFiniteSet(Workers)
  /\ SpecialPhases \subseteq {"copy", "probe", "scan"}
  /\ {MaxScopes, NormalQuiet, ProbeQuiet, LongQuiet} \subseteq Nat
  /\ {PipeSize, ReportEvery} \subseteq Nat \ {0}

VARIABLES
  worker,      \* the registry: workerState, and how long the worker has been quiet
  hung,        \* workers that make no progress any more
  app,         \* the application's process, or the status it has exited with
  sink,        \* whether the write end of the pipe is open
  sinceReport, \* ticks since the reporter's last frame
  frozen,      \* whether the reporter is stuck
  pipe,        \* frames written and not yet read
  reader,      \* the reader's process
  stalled,     \* whether the reader is stuck
  file         \* the state file: the reader's last line

registryVars == <<worker, hung>>
appVars == <<app, sink, sinceReport, frozen>>
readerVars == <<reader, stalled>>
livenessVars == <<registryVars, appVars, pipe, readerVars, file>>

\* "copy" has the limits of a normal phase, "probe" and "scan" have their own;
\* durability-sync has those of a scan.
NormalPhases == {"operation", "wait"}
Phases == NormalPhases \cup SpecialPhases \cup {"unknown"}
Tokens == 1..MaxScopes
ActiveScope == [token : Tokens, phase : SpecialPhases]
\* A worker in a frame.
Report == [phase : Phases, moved : BOOLEAN]
Frames == [Workers -> Report]
Silence == [w \in Workers |-> [phase |-> "unknown", moved |-> FALSE]]
\* The state file: nothing yet, a frame the supervisor has not seen, one it has
\* seen, an error line for a frame the reader has refused, "ERROR channel-eof".
Lines == {"none", "frame", "consumed", "refused", "eof"}
Says(line) == [line |-> line, frame |-> Silence]
Statuses == {"ok", "error", "contended"}

\* A worker that has not advanced.  advanced and opened are history: the phase
\* of its last boundary, and the scopes entered since and not closed.
Fresh == [phase |-> "unknown", base |-> "unknown", scopes |-> << >>, token |-> 0,
          moved |-> FALSE, quiet |-> 0, advanced |-> "unknown", opened |-> {}]
\* Bind and Seal: one slot for each required worker, before any of them runs.
Registry == [w \in Workers |-> Fresh]

LivenessTypeOK ==
  /\ \A w \in Workers :
       /\ {worker[w].phase, worker[w].base, worker[w].advanced} \subseteq Phases
       /\ worker[w].scopes \in Seq(ActiveScope)
       /\ worker[w].token \in Tokens \cup {0}
       /\ worker[w].moved \in BOOLEAN
       /\ worker[w].quiet \in Nat
       /\ worker[w].opened \subseteq ActiveScope
  /\ hung \subseteq Workers
  /\ app \in {"none", "starting", "running", "draining", "unkillable"} \cup Statuses
  /\ {sink, frozen, stalled} \subseteq BOOLEAN
  /\ sinceReport \in 0..ReportEvery
  /\ pipe \in Seq(Frames) /\ Len(pipe) <= PipeSize
  /\ reader \in {"none", "reading", "closing", "eof", "failed"}
  /\ file \in [line : Lines, frame : Frames]

LivenessInit ==
  /\ worker = Registry
  /\ hung = {}
  /\ app = "none"
  /\ sink = FALSE
  /\ sinceReport = 0
  /\ frozen = FALSE
  /\ pipe = << >>
  /\ reader = "none"
  /\ stalled = FALSE
  /\ file = Says("none")

\* Nothing in the generation is stuck.  Workers, the reporter and the reader get
\* stuck independently of each other, and stay so until the generation ends.
Healthy == hung = {} /\ ~frozen /\ ~stalled

-----------------------------------------------------------------------------
(* The registry.  Each operation runs under the worker's scopeMu.           *)

\* publishLocked: the phase and a higher sequence in one atomic value.
Publish(r, phase) == [r EXCEPT !.phase = phase, !.moved = TRUE, !.quiet = 0]

Acts(w) == app \in {"starting", "running"} /\ w \notin hung
Becomes(w, r) ==
  /\ worker' = [worker EXCEPT ![w] = r]
  /\ UNCHANGED <<hung, appVars, pipe, readerVars, file>>

\* The phase boundary of a worker's loop, or a pulse while it waits: it ends
\* every scope.
Advance(w) ==
  /\ Acts(w)
  /\ \E phase \in NormalPhases :
       Becomes(w, Publish([worker[w] EXCEPT !.scopes = << >>, !.base = "unknown",
                                            !.advanced = phase, !.opened = {}], phase))

Scope(w) ==
  LET r == worker[w]
      t == r.token + 1
      outer == IF r.phase \in NormalPhases THEN r.phase ELSE "operation" IN
  /\ Acts(w)
  /\ r.token < MaxScopes
  /\ \E phase \in SpecialPhases :
       Becomes(w, Publish([r EXCEPT !.token = t,
                                    !.base = IF r.scopes = << >> THEN outer ELSE @,
                                    !.advanced = IF r.opened = {} THEN outer ELSE @,
                                    !.scopes = Append(@, [token |-> t, phase |-> phase]),
                                    !.opened = @ \cup {[token |-> t, phase |-> phase]}], phase))

Handles(r, t) == {s \in r.opened : s.token = t}
\* The scopes behind the one of token t move down by one.
Without(scopes, t) ==
  LET at == {i \in DOMAIN scopes : scopes[i].token = t}
      index == CHOOSE i \in at : TRUE IN
  IF at = {} THEN scopes
  ELSE [i \in 1 .. Len(scopes) - 1 |-> IF i < index THEN scopes[i] ELSE scopes[i + 1]]
Effective(r) == IF r.scopes = << >> THEN r.base ELSE r.scopes[Len(r.scopes)].phase

\* Mutant: any handle that is closed brings back the phase it was opened in.
CloseAnyway(w, t) ==
  LET left == [worker[w] EXCEPT !.scopes = Without(@, t)] IN
  /\ Acts(w)
  /\ t <= worker[w].token
  /\ Becomes(w, Publish([left EXCEPT !.opened = @ \ Handles(left, t)], left.base))

\* ScopeHandle.Close, in any order and more than once; restoreScope does
\* nothing for a token that is not active any more.
Close(w, t) ==
  LET left == [worker[w] EXCEPT !.scopes = Without(@, t)]
      base == IF left.scopes = << >> THEN "unknown" ELSE left.base IN
  /\ Acts(w)
  /\ left.scopes # worker[w].scopes
  /\ Becomes(w, Publish([left EXCEPT !.base = base, !.opened = @ \ Handles(left, t)], Effective(left)))

\* ScopeHandle.Checkpoint: only the newest active scope's handle counts.
Checkpoint(w, t) ==
  LET r == worker[w] IN
  /\ Acts(w)
  /\ r.scopes # << >>
  /\ r.scopes[Len(r.scopes)].token = t
  /\ Becomes(w, Publish(r, r.scopes[Len(r.scopes)].phase))

Works(w) == Advance(w) \/ Scope(w) \/ \E t \in Tokens : Close(w, t) \/ Checkpoint(w, t)

Hang(w) ==
  /\ Acts(w)
  /\ hung' = hung \cup {w}
  /\ UNCHANGED <<worker, appVars, pipe, readerVars, file>>

-----------------------------------------------------------------------------
(* The application and its reporter.                                        *)

Snapshots == [w \in Workers |-> [phase |-> worker[w].phase, moved |-> worker[w].moved]]

\* Reporter.report: a frame the pipe has no room for is dropped whole.
Send ==
  /\ sinceReport' = 0
  /\ IF Len(pipe) < PipeSize
       THEN /\ pipe' = Append(pipe, Snapshots)
            /\ worker' = [w \in Workers |-> [worker[w] EXCEPT !.moved = FALSE]]
       ELSE UNCHANGED <<pipe, worker>>
  /\ UNCHANGED <<hung, sink, frozen, readerVars, file>>

\* The workers have been started, and the first frame is written at once:
\* before or after any of them has advanced.
AppReady == app = "starting" /\ app' = "running" /\ Send

SendReport ==
  /\ app = "running"
  /\ ~frozen
  /\ sinceReport = ReportEvery
  /\ Send
  /\ UNCHANGED app

Freeze ==
  /\ app = "running"
  /\ frozen' = TRUE
  /\ UNCHANGED <<registryVars, app, sink, sinceReport, pipe, readerVars, file>>

\* The reporter has sent its last frame: what the registry says does not
\* matter any more.
ReportsEnd == worker' = Registry /\ sinceReport' = 0

\* A worker fails or a signal comes: the reporter closes its sink at once, if
\* it is not stuck, while the workers are still ending.
AppStops ==
  /\ app = "running"
  /\ app' = "draining"
  /\ ReportsEnd
  /\ sink' = frozen
  /\ UNCHANGED <<hung, frozen, pipe, readerVars, file>>

Exits(status) ==
  /\ app' = status
  /\ ReportsEnd
  /\ sink' = FALSE
  /\ UNCHANGED <<hung, frozen, pipe, readerVars, file>>

\* Descriptor 3 is not the supervisor's pipe, or anything else is wrong.
AppRefuses == app = "starting" /\ Exits("error")
\* Another process has the database or the bot: no worker has been started.
AppContended == app = "starting" /\ worker = Registry /\ hung = {} /\ Exits("contended")
AppExits == app \in {"running", "draining"} /\ \E status \in {"ok", "error"} : Exits(status)

-----------------------------------------------------------------------------
(* The reader.                                                              *)

\* What the supervisor has not consumed yet counts as moved until it does.
Merged(frame) ==
  [w \in Workers |-> [phase |-> frame[w].phase,
                      moved |-> frame[w].moved \/ file.line = "none" \/ file.frame[w].moved]]

\* A frame in which a phase has changed and its sequence has not is refused.
Orderly(frame) ==
  file.line = "none" \/ \A w \in Workers : frame[w].moved \/ frame[w].phase = file.frame[w].phase

ReaderReads ==
  /\ reader = "reading"
  /\ ~stalled
  /\ pipe # << >>
  /\ file' = IF Orderly(Head(pipe)) THEN [line |-> "frame", frame |-> Merged(Head(pipe))]
                                     ELSE Says("refused")
  /\ reader' = IF Orderly(Head(pipe)) THEN "reading" ELSE "failed"
  /\ pipe' = Tail(pipe)
  /\ UNCHANGED <<registryVars, appVars, stalled>>

\* At the end of the pipe the error line is there before the process ends.
ReaderEnds ==
  /\ reader = "reading"
  /\ ~stalled
  /\ pipe = << >>
  /\ ~sink
  /\ app # "none"
  /\ file' = Says("eof")
  /\ reader' = "closing"
  /\ UNCHANGED <<registryVars, appVars, pipe, stalled>>

ReaderExits ==
  /\ reader = "closing"
  /\ reader' = "eof"
  /\ UNCHANGED <<registryVars, appVars, pipe, stalled, file>>

\* The reader cannot write its file, or is killed.
ReaderFails ==
  /\ reader \in {"reading", "closing"}
  /\ reader' = "failed"
  /\ UNCHANGED <<registryVars, appVars, pipe, stalled, file>>

ReaderStalls ==
  /\ reader = "reading"
  /\ stalled' = TRUE
  /\ UNCHANGED <<registryVars, appVars, pipe, reader, file>>

=============================================================================
