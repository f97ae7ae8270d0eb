# Formal models of lofi-bot

lofi-bot drives an OBS instance from Telegram: it polls Telegram for commands,
plays a library of loop videos and music in OBS by the time of day, and runs
under a supervisor script that restarts it when it dies or stalls. This
directory holds TLA+ models of its core, the TLC configurations that check them
on small instances, and TLAPS proofs about them for every instance.
`PROJECT.json` maps each definition to the source lines it stands for.

Run a check with `tlc -config UpdateJournal.cfg MCUpdateJournal` and a proof
with `tlapm TelegramPollerProofs.tla`.

## 1. Inventory of the system

One process (`cmd/tg-obs-bot`) runs five required workers in goroutines
(`internal/app`): the Telegram poller, the OBS reconnect loop, the OBS event
loop, maintenance, and the library scheduler. They share the SQLite database,
the OBS client, and the playback state under `playbackMu`. `run.sh` supervises
the process through its exit status and a pipe of liveness frames.

| Component | State | Operations | Hard behaviours | What makes it correct |
|---|---|---|---|---|
| Update journal (`journalstore/journal.go`) | checkpoint (`next_offset`, `confirmed_offset`), one row per update | begin, complete, abort, fail, confirm, maintenance sweep | leases against a movable clock, lost owners, commits reported as failed, batched pruning | outcomes are final, offsets rest on outcomes, poison budget, nothing pruned before confirmation |
| Telegram poller (`telegram/service.go`) | offset and current update in memory, handler goroutine | load, poll, confirm, claim, handle, settle | crash between any two steps, cancellation, handlers that will not stop, lost answers | no update lost, one handler at a time and in order, tainted processes stop, the queue moves on |
| Process and locks (`main.go`, `singleton`) | two advisory locks, exit status | acquire, run, close, exit 0/1/70/73 | fatal exits bypass Close; lock order | one live generation at a time; the status tells the supervisor the truth |
| Log handler (`asynclog`) | queue, lifecycle state, counters | Handle, writer, Shutdown, Abort | a sink that blocks for ever, drop accounting, drain against accept | callers never wait, a flush that succeeds loses nothing, a flush always ends |
| Service runtime (`app/app.go` Run) | pending workers, results, shutdown grace | start, first result, cancel, drain, classify | a worker or the reporter stuck during shutdown, results that race the timer | every worker awaited or reported stuck; the first real error is not masked |
| Liveness registry and reporter (`liveness`) | phase and 56-bit sequence per worker, scope tokens | Bind, Seal, Advance, Scope, Checkpoint, frames | scopes closed out of order, saturation, frames dropped on a full pipe | a stale handle changes nothing; sequences never move back |
| Reader and supervisor (`liveness-reader.awk`, `run.sh`) | per-worker ages, child process groups, restart delay | validate frame, tick watchdog, drain, restart | pipe end against process exit, orphans, signals while launching | a stalled worker is found, a normal exit is not one, no two generations overlap |
| OBS client (`obs/client.go`) | connection, pending requests, tracked and superseded files, event channel | Connect, request, PlaySourceFile, StopSource, readLoop, Close | reply against timeout, old connection's errors, multi-request mutation, full event channel | a reply reaches its request only; no waiter is left behind; ended events name the right file |
| OBS reconnect (`app.go`, `recurring.go`) | `obsRecoveryInProgress`, retry state | connect, probe, recover playback | recovery against events, commands and scheduler | one recovery at a time; playback is restored after every reconnect |
| Library playback (`app/library*.go`, `library/state.go`) | active loop and music, persisted plan, override, quarantine | scheduled activation, failover, skip, select, event handling | partial failure in OBS, tentative quarantine, selection restored, period boundaries | the loop shown belongs to the period; a failed change leaves selection and quarantine as they were; an expired loop is not left on |
| Library scan (`app/library.go`, `library_health.go`) | snapshot, generation, validation cache, quarantine | scan, probe, publish | concurrent scans, files changing under the probe | the newest scan wins; a cached verdict belongs to the file it names |
| Import storage (`app/storage.go`) | staging and library files | stage, sync, publish, roll back, sweep | crash between the steps, sweep against import | a published file is complete and never replaces another |
| OBS evidence (`obsevidence`) | pending snapshots, trace | capture, write, verify | limits, settle time, out-of-order events | a verified trace shows the correlation it claims |

Without state of their own, or pure I/O, and not planned: configuration,
redaction, ffprobe validation, asset file names, descriptor walking for local
files, build and fixture scripts. `retry` (backoff arithmetic) is an input of
the supervisor and reconnect models.

How they interact: the poller calls the journal, one transaction per step; its
handlers call the library under `playbackMu`; the reconnect, event and scheduler
workers call library and OBS client; every worker advances its liveness phase;
the reporter writes frames that the reader turns into state the supervisor
watches; everything logs through `asynclog`, which main flushes before any exit.

## 2. Modules

| Module | Models | Checked by |
|---|---|---|
| `UpdateJournal` | journal transactions | run `journal`; proofs in `TelegramPollerProofs` |
| `UpdateDelivery` | the abstract promise about each update | run `poller` (as a refinement target) |
| `TelegramPoller` | poller, process generations, Telegram, over `UpdateJournal` | runs `poller`, `poller_live`, `poller_release`; proofs |
| `TelegramPollerProofs` | theorems about the journal and about it, and the two refinements | tlapm |
| `ServiceRuntime` | locks, New, Run, drain, exit status of competing processes | run `runtime`; proofs |
| `ServiceRuntimeProofs` | theorems about it | tlapm |
| `AsyncLog` | log handler, writer and flush | run `asynclog`; proofs |
| `LogDelivery` | the abstract promise about each log record | run `asynclog` (as a refinement target) |
| `AsyncLogProofs` | theorems about the handler, and the refinement | tlapm |
| `ObsClient` | the OBS connection: Connect, Close, concurrent requests, readers | run `obs_client`; proofs |
| `ObsRequests` | the abstract promise about each request to OBS | run `obs_client` (as a refinement target) |
| `ObsClientProofs` | theorems about the client, and the refinement | tlapm |
| `ObsPlayback` | whether the music goes on: ended events, inspection, replay, next track, reconnect and recovery | run `obs_playback`; proofs |
| `ObsPlaybackProofs` | theorems about it | tlapm |
| `LibrarySelection` | which loop plays: plans, overrides, attempts, quarantine, restore, expiry | runs `library_selection`, `library_selection_budget`; proofs |
| `LibrarySelectionProofs` | theorems about it | tlapm |
| `LibraryStorage` | how an upload becomes a library file: staging, link, flushes, rollback, sweeps, power failures, outsiders | through `LibraryScan` |
| `LibraryScan` | scans, validation cache, quarantine and playback validation, over `LibraryStorage` | run `library_files`; proofs |
| `LibraryScanProofs` | theorems about it | tlapm |
| `Liveness` | the registry of workers, the reporter, its pipe and the reader | through `Supervisor` |
| `Supervisor` | `supervise_service` of `run.sh`: watchdog, draining, restart, over `Liveness` | run `supervisor`; proofs |
| `SupervisorProofs` | theorems about it | tlapm |
| `MC…` | symmetry and model values for TLC | |

### UpdateJournal

`rows`, `nextOffset` and `confirmedOffset` are the two tables. Each action is
one committed transaction; a transaction whose guard fails rolls back and is
simply not enabled. Begin is split by disposition (fresh, terminal, busy,
exhausted, reclaim), fail into its dead-letter and its live branch. The sweep
that ends every confirmation is part of that action: abandoned rows become
`dead`, then one batch of `done` and one of `dead` rows is deleted. The clock is
a parameter of each transaction, any reading at any time, because the wall clock
may be set back. `finished_at` is compared as text by the code, so the model
orders it by `TextKey` (two readings per second, whole and half).
`docs/ARCHITECTURE.md:111` says that confirmed rows are bounded "to the newest
10,000": of rows finished in the same second retention may prune the one that
finished later, because a whole second sorts after its own fractions
(journal.go:285-289). `Safe` and `TerminalRowsAreFinal` hold whichever it picks.
Left out: attempt counts, labels and messages, and the validation of arguments.

### TelegramPoller

Each owner token is a process generation: `proc[o]` holds where its worker is,
the offset of its next poll, the current update and the error on its way out.
`lock` is the singleton lock. `TelegramPoller` extends `UpdateJournal`: journal
calls are its actions, wrapped in `Committed`, which also records the first outcome
of every update. Any call may be refused (`Refused`) or commit and report an error (`Unheard`). A crash may
come at any step; a stopped context is noticed where the code looks at it. A
stuck handler stays `live` until it ends late or its process is gone. Telegram
(`Send`, `Expire`, `Forget`) is external, modelled as `getUpdates` is used: an
offset forgets every lower update, and only then is the answer lost
(`FetchLost`) or not. `Limit` is 1, so a poll brings one update.

Two simplifications: clock readings in the poller stand on either side of the
lease of the row at hand (`Readings`), because the journal compares a reading
with that lease only; and a token that no row mentions may be used again by a
later process, where the code draws 128 random bits.

`JournalSpec` and `UpdateDelivery`'s `Spec` are both checked as properties: every
step of the poller is one journal transaction or none, and every step is one
step of the abstract delivery or a stutter. The refinement mapping takes an
update's fate from the recorded outcome and Telegram's queue, and `handling`
from the handlers that execute, late ones included.

### ServiceRuntime

`main[p]` is the main goroutine of a process from its launch to its exit, `task`
the goroutines it starts, `holder` the kernel's view of the two advisory locks.
Errors are sets of the causes `errors.Is` can tell apart, so that `errors.Join`
is union. Results wait in `task` until `SelectResult` or `DrainResult` takes
them from the channel; a hung worker simply never ends. The configuration is
chosen in the initial state: every assignment of databases to processes.

### AsyncLog

Steps are the atomic operations: `lifecycleMu`, channel send and receive, the
atomics. `HandleOpen` takes the lock and `Enqueue`/`EnqueueDrops`/`Count` run
under it; the writer's `select` is a choice among its ready cases. Records are
numbered as they enter the queue, which lets `sunk` show loss, duplication and
order. The sink may fail or never return.

`Log!Spec` is checked as a property: every step is one step of `LogDelivery` or a
stutter. The mapping hides the callers' places, the queue, the writer and the
pending drops; what is left is how many records are accepted, dropped and reported,
what the sink was handed, how far the handler is on its way to a closed one, and
what the flush answered. A record may be handed over *after* the abort by the
`cut` phase only, once.

### ObsClient

Every section under `Client.mu` is one step; `req[r]` is a caller's place in
`requestResponse`: *register* (between `connectedConn` and the registration),
*gate*, *writing*, *await* (the two selects and the write between them), and
*broken* (about to call `disconnectIfCurrent`). `reply` is what the request's
channel of capacity one holds. Connections are numbered; a reader may go on
delivering what is in its buffer after its connection was given up, and OBS may
answer late, in any order or never. A request is a number: what it says, the
tracked files and the events are left to `ObsPlayback`. Two things worth
knowing that the model shows and no document contradicts: a caller whose context
ends *while it waits for the write gate* takes the connection down with it
(client.go:551-554), whereas one that already waits for its answer leaves the
connection alone (client.go:557-563); and a request that times out first leaves
the table and only then disconnects, so that other requests may still be
answered in between.

`Requests!Spec` is checked as a property: every step is one step of `ObsRequests` or a
stutter. The mapping hides the table, the write gate, the places of a caller, the
dialers and readers and what is on the way; `Status` says what is left of a request:
*asked* before it is registered, *waiting* as long as it is in the table, then
*answered*, *failed*, or *withdrawn* by its timeout. That the current connection is
lost to a fault of its own line, to a request issued on it or to `Close`, and never to
an older connection's error, is its action `Lose`.

### ObsPlayback

The music source, seen by four workers that take turns under `playbackMu`: the
reconnect loop, the event loop, the scheduler and commands. `op` is the operation
that holds the mutex, one request to OBS per step: *ensure*
(`ensureLibraryPlaybackLocked`), *status* and *settings* (`inspectMediaInputLocked`,
twice when a stall is confirmed), *halt* (failover and removed tracks), *choose*,
*set*, *restart*, *track* (`PlaySourceFile` and its return) and *cleanup* (the
fail-closed stop); *link* lies between the two reads below. OBS, the connection and the client's reader move between any
two of them. `obs` is what OBS really does, `tracked` and `superseded` what the
client makes of it, `active` and `settling` what the service believes. An ended
event carries no file: `HandleEvent` attributes it to the oldest superseded file
that is still in its window (how much of the window is over is a choice) or to
the tracked one. The event loop and the scheduler read `obsRecoveryInProgress` and
then the state of the connection, twice without the mutex (library.go:408 and 855,
app.go:1064 and library.go:485) and then with it. Of the reads without it only the last,
of the connection, is kept (`Wake`, `Receive`), which allows more, not less. With the
mutex `Enter` reads the flag and `Begin` the connection, each a step of its own, and the
reconnect loop sets the flag and connects between any of the steps.

Histories, which no guard reads: `ordered`, `turn` and `op.over`. `quarantine`
holds every track that is not playable, whatever the reason. OBS may report the
end of the earlier play as long as the settle grace runs (`Reported`), and not so
late in it that the grace is over when the answer arrives: `AskStatus` joins the
answer with the look at the grace that follows it (app.go:679-690).
Left out: the loop source, which shares the client code (`PlaybackMissing` is
therefore always possible), an empty library, the limit of eight attempts, which
`ChooseFails` covers by ending an operation at any candidate, and the last track
that `ChooseMusic` avoids and the store remembers.

What the model shows beside the properties: an operation may get ahead of a
connection's recovery. The comment at library.go:453-455 says that
`obsRecoveryInProgress` "blocks event handling and scheduled transitions". But the
scheduler, holding `playbackMu`, reads the flag as false while the connection is down
(library.go:863); the reconnect loop sets the flag and connects without `playbackMu`
(app.go:971-977); the scheduler then reads "connected" and acts, and the recovery waits
for it; an event does the same (library.go:493). With `turn = "done"` in the
place of `turn # "early"`, `OneAheadOfRecovery` would say that this never happens, and
TLC refutes it in eleven states; as it stands, it says that there is at most one such
operation. It inspects the source before it changes anything. Further,
a recovery does not look at the settle
grace (library.go:922, 942), so that one that begins within two seconds of a start
may restart a track that has just begun, which `HealthyPlaybackIsKept` excepts; an
end that is attributed to a superseded file is ignored and only the scheduler
notices that the music has stopped; and commands do not wait for a recovery
(library_text.go:374-401), so that a skip may come between the connection and its
recovery.

### LibrarySelection

Every operation holds `playbackMu` from end to end, so `op` is the one operation
there is: *capture* (the selection to go back to), *choose* (`loopForTimeLocked`),
*play* (health check and the requests to OBS), *undo* (the deferred restore) and
*close* (`failClosedExpiredLoopLocked`, for `ensureLibraryPlaybackLocked` only).
`now` is read once per activation. `db` is the two state tables, keyed by date and
by plan slot: `PlanDate` gives the hours before six to the night of the day
before, `Date` does not, which is where midnight becomes interesting. Statements of
the state store are atomic; those whose errors the code ignores may fail on their
own (`ok` in `Chosen`), the others make the attempt fail (`ChooseFails`), and a
theme command may stop between its two statements (`ThemeTorn`). OBS appears as
what `PlaySourceFile` and `StopSource` report: success, failure with a stop that
works, failure with a stop that does not. `left` counts how many more slow stops
the fail-closed budget of eight seconds survives. A file is unfit when the health
check says so, and usable again when it is replaced.

A restart may come in the middle of an operation: what the activation has stored stays
stored, nobody restores anything, and what was quarantined is judged anew.

Histories, which no guard reads: a plan's `under` and the verdict's `under` (the
day whose theme or selection chose the loop), `promise` (the loop last announced
or played for a slot, dropped when a command is given, loops appear or the loop
itself goes, and kept through failures and restarts), and `odd`: whether a theme
command was torn, the clock set back, a restore *lost* (refused, or out of budget) or
*cut* off by a restart after OBS had rejected a candidate. `PromisesStand` excepts the
last three. Without the exception for *cut* it is false, and TLC shows how: OBS rejects
the planned loop, the activation quarantines it tentatively and stores the next
candidate's plan (library.go:1279), and the process ends before the deferred restore
(library.go:559-570); the next process finds the planned loop healthy, reuses the
other loop's plan and plays that. `docs/ARCHITECTURE.md:51` says of the plan that it
"is persisted in SQLite so restarts and repeated previews do not redraw it", which holds
of restarts at any other time. For a repair the
state of the source as OBS reports it is an input; a command's reply, music,
media progress and the settle grace are left out. Steps of one operation do not
interleave with OBS stopping by itself (`GoDark`): in the middle of an activation
that shows in what OBS answers.

### LibraryStorage and LibraryScan

A file is one identity (inode, size, modification time); an identity that has
gone never returns. `dir[n]` is what a library name shows, `dirDisk[n]` the set of
what it may show after a power failure: everything it has shown since the
directory was last flushed. `syncDirectory` (storage.go:385-395) takes EINVAL and ENOTSUP
for success, and the directories that `MkdirAll` has just made are never flushed into
their parents; so `lasting` is the set of names whose entries really are on disk once
it has returned, any set, chosen at the start. For the other names, and for the staging
directory always, a flush that reports success may have done nothing. That what was
reported survives a power failure is claimed of names in `lasting` only, on a file system
that supports the flush in a directory that is itself on disk; that nothing but whole,
probed files shows is claimed of all. `staging` and `stagingDisk` are the same for the
staging directory. `at[u]` follows `copyOpenedFileAtomicWith` step by step (create,
flush, probe, link, unlink, sync, rollback, resync), and then the scan an import
ends with; each file operation may fail, and what the cleanup after it does may
fail with it, which counts as one fault of `MaxFaults`. The startup sweep is `Boot`,
the maintenance sweep removes up to `SweepBatch` files. A crash keeps the
directories, a power failure falls back to a state on disk.

A scan takes the gate, lists, copies the cache, and treats name after name
(`ChooseAsset`, `ProbeAsset`, `Restamp`) without `playbackMu`; `Publish` is under it.
Playback validates a file in three steps of its own while it holds `playbackMu`; when
its context ends in one of them, there is no verdict and what was known stays.
A verdict keeps the stamp it is filed under and, as history, the file that
ffprobe read. `shown` is history as well: what an import reported without its
"will show later" reminder. Outsiders put, replace and remove files, flush what
they change, and leave a name alone while it is being published.

Three things the model shows and no property claims: (1) the gate is held for the
whole scan, so that the comparison of generations never refuses anything; without
the gate it would not suffice, because an import's scan could then be published
before an older one whose generation is current (mutant `AcquireGateAnyway`).
(2) A file replaced while playback validates it is quarantined under the stamp of
the *new* file, which nobody has probed (`Quarantine` reads the stamp again); the
next scan keeps it out until it changes once more. (3) A sweep looks at the first
256 entries of the staging directory only, so that as many entries that are not
stale hide those that are (storage.go:448-474; `SweepPass` takes any batch).

### Liveness and Supervisor

A worker's slot has its phase, a stack of scopes and the base to return to;
sequences are compared with earlier ones only, so that `moved` (has it grown since
the last frame) stands for them. `operation` and `wait` stand for the phases of a
worker's loop; of the phases of scopes, `SpecialPhases`, `copy` has the normal limit as
well, `probe` its own, and `scan` stands for the long operations. The model treats them
alike but for the limits; the run `supervisor` has `probe` only, beside the normal
phases, and the proofs any of them.
`opened` and `advanced` are history: the scopes entered since the last boundary and
not closed, and that boundary's phase. Handles are tokens that may be closed at any
time after they were given out, also when they mean nothing any more. The
reporter's frame is written whole or dropped; the pipe holds `PipeSize` frames; the
reader writes the state file, or an error line before it exits. The first frame may
overtake the workers' first advance, as `Run` starts the workers first.

`pc` is where `supervise_service` stands. `CheckProcesses` tests the reader and then
the application, `Look` reads the state file and ages every worker, and between
any two of them the application and the reader may take steps. The unit of time is
the supervisor's tick: `Look` ends one, and `Punctual` says what a healthy worker,
reporter and reader have done by then. A stuck worker, reporter or reader is
exempt; they get stuck independently of each other, in any combination. Durations longer than a
tick (graces, the restart delay, how long a generation lasted) are choices. A group
that survives KILL ends as `unkillable`. Left out: `supervise_service` for the Bot
API, which has no reader, malformed frames, which the reporter cannot produce, and
the saturation of the sequence after 2^56 steps.

What the model shows beside the properties: an application that stops closes the
pipe at once (reporter.go:336-349) and is given one second to exit
(`LIVENESS_APP_EXIT_RACE_SECONDS`), however long its workers have to drain, and is
then stopped as a failed generation; and the error line may be read between the
reader's exit and the application's (`LookFails` after an `AppContended`), in which case an
exit with 73, which README.md:86 calls final, is taken for a failed generation and
restarted. Both need an unlucky order of a few milliseconds or a drain of more than
a second.

## 3. Runs

| Run | Instance | Shows |
|---|---|---|
| `journal` | 3 updates, 2 owners, 3 clock readings, all limits 1, 3 failures | the journal's safety under every sequence of calls, whoever makes them |
| `poller` | 2 updates, 3 owners, 2 failures | nothing lost, durable offsets, claims held, refinement of the delivery promise |
| `poller_live` | 2 updates, 2 owners, 3 failures, no expiry by Telegram | the queue is settled once faults stop; refinement of the journal |
| `runtime` | 2 processes, 2 databases, 1 bot, 2 workers and the reporter | locks cover every use, truthful exit status, a process ends although workers hang |
| `poller_release` | as `poller` | **finding**: a failed dead-letter write keeps its claim |
| `obs_client` | 2 callers, 2 dialers, 3 requests, 2 connections | answers reach their request, nobody waits in vain, no leaked or resurrected connection, refinement of the request promise, every call returns |
| `obs_playback` | 2 tracks, a foreign file, 1 event on its way, 1 in the channel, 1 superseded file, 1 fault | healthy playback is kept, belief follows the last order, at most one operation gets ahead of a recovery, the music goes on |
| `library_selection` | 3 loops (2 for the night, 1 for the day), 2 themes, clock at 20, 21 and 1 o'clock, 2 moves | nothing expired stays on, overrides end at midnight, failed attempts keep the selection, announced loops stand |
| `library_selection_budget` | 3 candidates, 3 slow stops, 1 move | **finding**: a failed selection is not restored once the budget is used up |
| `library_files` | 1 name, 2 files, 1 uploader, 1 other scanner, 2 faults | what shows is whole and probed, reported files show and, where directory flushes last, survive a power failure, verdicts belong to the file they were reached on, scans take turns |
| `supervisor` | 1 worker with 2 scopes a generation, limits 3 and 4 ticks, startup grace 5 | snapshots tell the truth, no healthy generation is stopped as stale, a silent worker is found whatever else is stuck, generations do not overlap, the restart delay |
| `asynclog` | 2 callers, capacity 2, 5 calls | drop accounting, flush, abort, nonblocking callers, refinement of the delivery promise |

Bounds and why they suffice. Journal: three updates are needed for a row below,
at, and above an offset and for one row to survive a limit of 1; two owners for
a claim to be lost and taken over; three readings for a lease that expires and
one that does not, with text and time order in conflict (2 and 3); a threshold
of 3 failures is the code's own. Poller: two updates for overtaking and for a
redelivery behind a newer one; three owners because at most two tokens remain in
rows, so that a third is always free; two failures make poisoning and
reclaiming both happen within few generations, and `poller_live` uses three.
Log: capacity 2 with five calls fills the queue, drops, and goes on after a
drop; more calls repeat these states. OBS client: two
connections are needed for an old reader beside a new connection, three requests
for a late answer, the request that succeeds it and one of another caller, two
dialers for a second Connect during the first. OBS playback: two tracks are one to
end and one to be mistaken for it, and a second candidate when the first is
refused; one event under way, one in the channel and one in the handler are three
ends in flight, and the next is dropped; one superseded file is enough to steal the
active track's event. A fault is a request, a connection or a dial that fails,
a refused file, an operator's file or a verdict; one is enough for a play to fail
half-way and its cleanup as well, since without the connection every request fails and
that is no fault of its own. Tracks end and freeze, and commands come, any number of
times. Library: the three instants are the
last hour of an evening, for which there is no loop, and the night on both sides of
midnight; two loops for the night give a rejected candidate an
alternative, and the day's loop is one an operator may select across periods.
`MaxCandidates` is 2, below the number of loops, so that the limit of attempts
bites (8 in the code). `MaxMoves` bounds what comes from outside and what fails
(commands, previews, scans, bad files, refused calls, restarts, a clock set
back); two are enough for a preview and then a fault, or a command and a restart.
OBS failures, its going dark, repairs and the clock's advance are not bounded.
`MaxStops` is 1 where the budget is not the question: any slow stop then uses it up.
In the finding it is 3, as the code's 8 seconds allow two full stops of 3.
Library files: one name is enough for an upload, an outsider's file and what was
there before to compete for it, since names do not interact but through the scan's
list; two files and a removal change it twice under a probe; two faults allow a
failing flush and then a failing rollback, or a crash during the cleanup; uploaders
exclude each other by `storageMu`, and a second scan meets the import's.
Supervisor: with one worker the reporter's frames and the worker's own progress are
still told apart, because the reporter goes on when the worker hangs; two scopes
give handles closed in the wrong order, twice, or after an advance. The limits are
as tight as `SupervisorAssumption` allows, and with one limit lower by one tick the
run fails: a worker that says something every `Quiet` ticks is safe exactly when
`Quiet + ReportEvery < Stale`. In the code that is 10 + 10 < 60 seconds for waiting
workers; probes and long operations have 150 and 310. The startup grace is longer
than a normal limit and a frame, as in the code (360 seconds), so that a
reader stuck before the first frame delays the verdict beyond them. `MaxDelay` 2 doubles the
delay once and then caps it. Deadlock is not checked in
`asynclog` and `obs_client`, whose calls are bounded, nor in `runtime`, whose
processes end.

Fairness. `poller_live` assumes the supervisor's restart (run.sh restarts every
exit but 73), that a running process takes its next step or the handler is
declared stuck (bounded by the deadline and grace in `handleUpdateBounded`), and
strong fairness of claiming: time passes every lease, so that a claim found busy
again and again is eventually found expired. Nothing is assumed of Telegram or of
late handlers. The property is conditional on faults (crashes, stops, failing
journal calls, lost answers) ceasing. `asynclog` assumes that goroutines that
can run do, with Go's starvation-free mutex (strong fairness of `Handle`, the
writer and the flush); the sink gets none. `obs_client` assumes that a caller goes
on, at the latest when its `RequestTimeout` is over (the disjunction of its steps
contains `Timeout` and `LeaveGate`), that a dial ends with its context, and that
the reader of a shut socket gets its error; OBS, the network and cancellation get
none. `obs_playback` assumes that operations end, since their requests do
(`RequestTimeout`), that the reconnect loop and the scheduler go on, that Go's
starvation-free mutex lets both in however many commands come, that a dial is tried
until it succeeds, that the settle grace passes, and that a source that stands still is
seen to stand still (strong fairness, as looks in between may come too early); nothing
is asked of the event loop, and OBS may send no event at all. `supervisor` states its timing as guards, not as fairness.

Findings, disagreements between the documentation (`docs/ARCHITECTURE.md` unless
said otherwise) and the code:

1. *Released claims* (line 109): "A failed terminal write releases a still-owned
   claim". `completeUpdateAttempt` does; `recordUpdateFailure`, whose third
   failure is a terminal write as well, does not.
2. *Restored selections* (`docs/LIBRARY_ONLY_ISSUES.md:146`): "Failed bounded
   candidate selection restores its exact durable override/plan snapshot". The
   restore is charged to the same budget as the stops of the rejected
   candidates; when they were slow, it starts with an expired deadline, and an
   operator's selected loop, cleared while its file was tentatively quarantined,
   stays cleared. `SelectionSurvives` says what does hold.

Two more are exceptions that a passing property states, told with the models above:
a restart in the middle of an activation (`PromisesStand`), and an operation ahead of a
recovery (`OneAheadOfRecovery`).

## 4. Proofs

The journal by itself, whoever calls it, is the first section of
`TelegramPollerProofs`. Its theorems are about `JournalSpec`, in which nothing is said
of the callers, and hold for every set of updates, owners and clock readings and every
limit (assumptions: `UpdatesAssumption`, `OwnersAssumption`, `TimesAssumption`,
`LimitsAssumption`, all evaluated by TLC in `journal`):

| Theorem | Statement |
|---|---|
| `JournalTypeCorrect` | `JournalSpec => []JournalTypeOK` |
| `JournalSafe` | `JournalSpec => []Safe` |
| `OutcomesFinal` | `JournalSpec => TerminalRowsAreFinal` |
| `OffsetsBacked` | `JournalSpec => OffsetsAdvanceWithOutcome` |
| `DeathEarned` | `JournalSpec => DeadIsEarned` |

The inductive invariant is `JournalTypeOK /\ Safe`: the four parts of `Safe` were chosen
so that their conjunction needs no further strengthening, and the run `journal`
checks `Safe` before it is proved. The types are only proved, here and of `ObsClient`. Every
transaction is shown to be one of two shapes, a `WriteStep` that sets one row
and perhaps moves `next_offset` with it, or a `SweepStep` that turns abandoned
rows dead and deletes terminal rows below the confirmed offset (`NextShape`).
Each property is then proved of the two shapes instead of of twelve actions.
The sweep's lemmas need no cardinality: a batch is a subset of the rows it is
taken from, whatever its size.

`ObsClientProofs` proves, for every set of callers and dialers and any number of
requests and connections (assumption: `BoundsAreNaturals`):

| Theorem | Statement |
|---|---|
| `ClientTypes` | `Spec => []TypeOK` |
| `TableMatchesCallers` | `Spec => []NobodyWaitsInVain` |
| `AnswersAreOwn` | `Spec => []AnswerIsOwn` |
| `NoConnectionLeaks` | `Spec => []ConnectionsAreOwned` |
| `OldFaultsAreHarmless` | `Spec => FaultsStayAtHome` |
| `RequestsAreServed` | `Spec => ImplementsObsRequests` |

None of these is inductive alone. `IInv` adds `Bookkeeping`: IDs are never used
again and every message travels on the connection of its request (or a late
answer could be taken for another request's), and nobody dials while there is a
connection (or `DialSucceeds` would replace one whose callers then wait for
ever). Lemmas first say field by field what each action does to the callers'
table (`Moves`, `Disconnects`, `GivesUp`, `Answers`); each part of `IInv` is then
shown to survive every action, in one lemma per part.

The refinement needs no more than `IInv`. A call changes its status when its ID enters
or leaves the table or a reply arrives, and IDs being apart, nobody else's does
(`CallStays`, `OneChanges`); a disconnect fails exactly the calls in the table
(`DropRequests`); an answer is in `served` because it came out of `outbox`
(`TrafficInPlace`). `FaultsStayAtHome` follows from the abstract specification as well,
so that the run checks it as part of `ImplementsObsRequests`.

Of the pollers, `TelegramPollerProofs` proves, for every set of updates and processes
and every limit of the journal (assumptions: those of the journal,
`ReadingsAssumption` and `ExpiryAssumption`):

| Theorem | Statement |
|---|---|
| `OffsetsDurable` | `Spec => []OffsetDurable` |
| `ClaimsHeld` | `Spec => []ClaimHeld` |
| `NoUpdateLost` | `Spec => []NothingLost` |
| `TaintedStop` | `Spec => []TaintedProcessesStop` |
| `PollerImplementsJournal` | `Spec => ImplementsJournal` |
| `PollerKeepsJournal` | `Spec => []Safe` |
| `PollerImplementsDelivery` | `Spec => ImplementsDelivery` |

The invariant has two parts. `Worker(o)` says of each process that it holds the lock
while it runs, that its update is the oldest one Telegram had, and what its offset
and its claim are. `History` relates the rows, the outcomes and Telegram: a terminal
row has an outcome, an outcome has a terminal row as long as it is kept, and what
Telegram still has, or has forgotten, is settled below `next_offset`. `NothingLost`
needs all of them: an update is forgotten because of a poll with a higher offset,
which is durable, below which everything is settled. `GoodRow` bounds a lease by the
failures counted, which is why `Readings` always has a later reading. Lemmas
say what a transaction does to the rows from the poller's side (`Wrote`, `Swept`).
`PollerKeepsJournal` needs none of this: since the pollers implement the journal,
`JournalSafe` is true of their rows. The
refinement of `UpdateDelivery` rests on two of these facts, that only the holder of
the lock executes and that it takes updates in order.

`ServiceRuntimeProofs` proves `LocksHeld` (`Spec => []LocksCoverUse`), `StatusHonest`
(`Spec => []StatusTellsTruth`) and, from the first, `OneUserAtATime`: no two processes
use one database or one bot. They hold for every set of processes, databases, bots
and workers (assumptions: `WorkersAssumption`, `ResourceAssumption`). The invariant is
`Good(p)` for each process: its locks by its place in main, the ledger of its tasks (a
task whose result was taken has left its mark on the error, all others are pending)
and the verdict drawn from it. A step of one process keeps `Good` of the others
because a lock that is held is given up by its holder only.

`AsyncLogProofs` proves, for every set of callers, every capacity and number of calls
(assumptions: `CapacityAssumption`, `CallsAssumption`):

| Theorem | Statement |
|---|---|
| `CountersHold` | `Spec => []CountersTellTruth` |
| `FlushComplete` | `Spec => []FlushLosesNothing` |
| `AbortStops` | `Spec => []AbortStopsWriter` |
| `LogIsDelivered` | `Spec => ImplementsLogDelivery` |

`FlushLosesNothing` speaks of the end only; `InOrder` says of every state that the
sink's records, the one in the writer's hand and the queue are, one after the other,
the accepted ones, until the writer has seen the abort and throws records away
(`Discards`). The abort alone does not end it: a record that the writer was about to
emit is still the next one, which `LogDelivery` says of its phase `cut`; that there is
at most one (`AbortStops`) is what the refinement says of an abort, so that the run
checks it as part of `ImplementsLogDelivery`. The writer may leave only on an empty queue, after
the state has changed (`Phases`, `WriterPhases`), and nothing is accepted then because
a caller that enqueues holds the mutex and has seen the handler open (`Locked`).
`EveryCallCounted` bounds the records by the calls, and `PendingCovered` keeps the
writer from reporting drops that were not counted.

For the refinement, each action is one step of `LogDelivery` or leaves its variables
alone (`SameSteps`). A drop is allowed only when `Capacity` records wait, which is the
queue's length up to the one record the writer holds (`Outstanding`); `Finish` needs
that the writer leaves with nothing waiting; and the answer of the flush comes after
the phase it reports, because `Phases` ties the two.

`SupervisorProofs` proves, for any number of workers, scopes, frames in the pipe and
ticks (assumptions: `LivenessAssumption`, `SupervisorAssumption`):

| Theorem | Statement |
|---|---|
| `GenerationsDoNotOverlap` | `Spec => []OneGeneration` |
| `SnapshotsAreTrue` | `Spec => []SnapshotsTellTruth` |
| `StallsAreFound` | `Spec => []StallsFound` |
| `HealthyIsNotStopped` | `Spec => HealthyNotKilled` |
| `DelaysDouble` | `Spec => []DelaysBackOff` |

`OneGeneration` alone says nothing of the steps between a generation's start and its
end. `Custody` adds what holds there: from the record on the group's name is in the
state file, an application that is being reaped has exited, one that is being drained
has been reaped, and after the end only what cannot be killed is left. Nothing about
the registry is needed, so that a lemma first shows that no step of the application or
the reader changes who is alive at a place where the supervisor relies on it.

What a worker shows is the newest of its active scopes, kept in the order of their
tokens (`WorkersInv`); a token removed from the middle leaves that order. No frame is
refused because each one follows the one before it, from the registry through the pipe
to the state file: a worker that shows another phase has moved (`ChainInv`).

The two about time follow from one account of where a worker's last value is: still in
the registry, in the pipe, in the state file, or consumed by the supervisor. Each place
keeps it for one tick or one report at most, so that the age the supervisor counts and
the worker's own silence differ by no more than that (`Timing`). In one direction this
bounds the silence of a worker that has not been found (`StallsFound`), in the other the
age of a healthy one (`Young`): below `Quiet + ReportEvery`, which `SupervisorAssumption`
puts below the limit. While the reporter or the reader is stuck, that account is off, and
a coarser one holds (`OnTheWay`): what is still in the pipe of a reader that works, or in
the file, was said at most one report ago, and what will not arrive any more is counted by
the supervisor itself, in the ages of the values it has or in `startupAge` if it has none.
It goes on looking only while these are below the limits (`WithinLimits`), which bounds
the silence of every worker; `FoundAtOnce` is the sharper bound of a generation whose
reporter and reader work.

`DelaysBackOff` compares the delay with a power of two, which no backend knows. It is
the recursive function `TwoTo` of `Supervisor`, whose equation TLAPS does not give for
free and whose usual derivation is an induction the installed provers cannot
instantiate. `SupervisorProofs` derives it from the well-foundedness of `<` instead: of
the numbers up to which no function doubles there is a least one, and its
predecessor's function can be prolonged by one (`DoublesUpTo`, `DoublesAgree`,
`TwoToDefined`). The invariant `BackOff` says at every place, not only where the
supervisor waits, that the delay is the power the streak says or the maximum.

`LibraryScanProofs` proves, for any number of names, files, uploaders, scanners and
faults (assumptions: `StorageAssumption`, `ScanAssumption`):

| Theorem | Statement |
|---|---|
| `TurnsAreTaken` | `Spec => []ScansTakeTurns` |
| `StorageIsSafe` | `Spec => []StorageSafe` |
| `VerdictsAreTheirFiles` | `Spec => []VerdictsBelongToFiles` |
| `ImportsAreShown` | `Spec => []ImportsShow` |

`ScansTakeTurns` is inductive with the domain of `at` and the fact that a process that
stores a file holds no gate. For the files, `Hand` says at each place of an import what
is known of its file (written, flushed, probed, linked), `Apart` that no two imports
have the same one, and `Shelf` that what a name shows, now or after a power failure, is
whole. `Spent` is what makes verdicts safe: a file that a name shows has left every
handler's hand, and a spent file that leaves a name never shows there again. So a scan
that finds the same stamp before and after the probe has probed that file
(`Examined`). Of a reported file `Hand` and `Shelf` say that it is on disk for names in `lasting`,
and of every name that nothing but whole files is.
`ImportsShow` needs to know of the scan under way that it has seen every
file that was reported (`ScanShows`): it holds the gate, so that nothing is reported
under a name between its listing and its publication, except by the import that scans.

`ObsPlaybackProofs` proves, for any number of tracks, events and faults (assumption:
`PlaybackAssumption`):

| Theorem | Statement |
|---|---|
| `OneIsAhead` | `Spec => OneAheadOfRecovery` |
| `BeliefIsSound` | `Spec => []BeliefIsLastOrder` |
| `HealthyIsKept` | `Spec => []HealthyPlaybackIsKept` |

For the first the invariant is `Flagged`: a connection on which `obsRecoveryInProgress`
is not set has had its recovery, and the reconnect loop is where it dials only while
there is no connection and the flag is set (or its `Connected` would start a connection
with the flag down). Lemmas first say that a request or a change of the world either
leaves the flag and the places alone (`Carries`) or ends the operation (`Ends`). The
other two need the middle of an operation: up to the order the old belief still holds,
from then on the operation ends with the new track or with none (`Believed`,
`Underway`); and a worker that is past inspection has seen a reason (`Seen`).

`LibrarySelectionProofs` proves, for any finite set of loops and any themes, clock
readings and limits (assumptions: `LoopsAssumption`, `ClockAssumption`,
`LimitsAssumption`, `NothingAssumption`):

| Theorem | Statement |
|---|---|
| `TypeCorrect` | `Spec => []TypeOK` |
| `NothingExpiredStays` | `Spec => []ExpiredLoopNeverStays` |
| `NothingOutlivesItsDay` | `Spec => []OverridesExpire` |
| `FailureKeepsSelection` | `Spec => SelectionSurvives` |
| `PromisesAreKept` | `Spec => PromisesStand` |

All rest on `Typed`, the types and how far each step of an operation may be, and each
on one invariant more. `OnShow`: what OBS shows is what the bot takes for active unless
a stop was refused, so that a close that reports no error has darkened the screen.
`Fitting` is about midnight: a night's plan that was drawn under the theme of its own
date still has that theme beside it in the database, and so has the plan a failed
attempt would go back to; after midnight this is how `NightIsOver` recognises it.
`Aiming` keeps account, during an attempt, of what the operation set out with: what it
would restore differs only where a loop has been found unfit, and the loops in
quarantine are those found unfit and those it tried. `Promised` is the strongest: a
promised loop is the only choice there is for its slot, by the database as it is *and*
as the attempt under way would restore it (`Stands`), since a failure may put the old
selection back at any step. A choice leaves behind a database by which the same loop
is chosen again (`ChosenHolds`, `ChosenAgain`), other slots do not notice
(`ChoiceElsewhere`), and fewer usable loops take no promise back (`StandsWithLess`).
A restart between the statements of a choice keeps them as well, unless a loop that was
held back is there again, which `odd` then says.
`IsFiniteSet(Loops)` is needed because the limit of attempts counts the snapshot.

Only model-checked: the liveness properties (`CalmSettles`, `SinkHoldsNobodyUp`,
`ProcessEnds`, `CallsReturn`, `MusicGoesOn`), since the prover does not handle fairness
or ENABLED. Every other property of a passing run is a theorem. The two findings are
counterexamples and stay with TLC.

## 5. Plan

1. A lock with one user per database as the abstraction of `ServiceRuntime`, so that
   the pollers' `lock` and the processes' locks are one specification.
2. Parts still left out of modelled components: the commands' replies, the inspection
   of the loop source, `supervise_service` for the Bot API.

## 6. Not modelled

See the components marked `not_modelled` in `PROJECT.json`: the evidence monitor is
a diagnostic tool of its own; `retry` (backoff arithmetic) appears as the
nondeterminism of its callers; configuration, redaction, ffprobe, file names, local
file access and scripts for fixtures hold no state or are pure I/O. Within the
modelled ones: what a command handler does, poll retry delays, attribute resolution
of log records, the diagnostics columns of the journal, and of `run.sh` everything
but `supervise_service` for the application.
