--------------------------- MODULE ServiceRuntime ---------------------------
(***************************************************************************)
(* The life of a process: main (cmd/tg-obs-bot), the two singleton locks   *)
(* (internal/singleton), app.New, app.Run with its required workers and    *)
(* liveness reporter, the bounded drain of waitForRuntime, and the exit    *)
(* status that the supervisor reads.  Several processes compete for        *)
(* databases and bots.                                                     *)
(***************************************************************************)
EXTENDS Integers, FiniteSets

CONSTANTS
  Processes,
  Databases, Bots,
  Workers,     \* the required workers
  Telegram,    \* the one of them that executes update handlers
  Reporter,    \* the liveness reporter
  NoProcess

ASSUME WorkersAssumption  == Telegram \in Workers /\ Reporter \notin Workers
ASSUME ResourceAssumption == Databases \cap Bots = {} /\ NoProcess \notin Processes

VARIABLES
  config,   \* the database and the bot of each process
  holder,   \* the process that holds the lock of each resource
  main,     \* the main goroutine of each process
  task      \* the workers and the reporter of each process

vars == <<config, holder, main, task>>

Tasks == Workers \cup {Reporter}

(* What errors.Is can tell apart in the error that Run returns.            *)
Errors == {"context", "failure", "handlerStuck", "requiredWorkerStopped",
           "requiredInfrastructureStopped", "workerShutdownStuck",
           "infrastructureShutdownStuck"}

Running == -1   \* no exit status yet

(* open: the SQLite handles; cancelled: runCtx; signalled: parentCtx;      *)
(* pending: pendingWorkers and reporterPending.                            *)
Main == [pc : {"down", "lockDatabase", "lockBot", "open", "startup", "reporter",
               "select", "drain", "return", "close", "unlockBot", "unlockDatabase",
               "exit", "gone"},
         open : BOOLEAN, cancelled : BOOLEAN, signalled : BOOLEAN,
         pending : SUBSET Tasks, errs : SUBSET Errors,
         status : {Running, 0, 1, 70, 73}]

Task == [pc : {"unborn", "running", "ended"},
         err : {"none", "context", "failure", "handlerStuck"}]

Unborn == [pc |-> "unborn", err |-> "none"]

NotRunning(pc) ==
  [pc |-> pc, open |-> FALSE, cancelled |-> FALSE, signalled |-> FALSE,
   pending |-> {}, errs |-> {}, status |-> Running]

Config == [database : Databases, bot : Bots]

Init ==
  /\ config \in [Processes -> Config]
  /\ holder = [r \in Databases \cup Bots |-> NoProcess]
  /\ main = [p \in Processes |-> NotRunning("down")]
  /\ task = [p \in Processes |-> [t \in Tasks |-> Unborn]]

At(p, pc)   == main[p].pc = pc
Goto(p, pc) == main' = [main EXCEPT ![p].pc = pc]

Leave(p, status) == main' = [main EXCEPT ![p].pc = "exit", ![p].status = status]

-----------------------------------------------------------------------------
(* main and app.New.                                                       *)

Launch(p) ==
  /\ At(p, "down")
  /\ Goto(p, "lockDatabase")
  /\ UNCHANGED <<holder, task>>

(* initializationExitCode: contention is 73, everything else 1.            *)
LockDatabase(p) ==
  /\ At(p, "lockDatabase")
  /\ \/ /\ holder[config[p].database] = NoProcess
        /\ holder' = [holder EXCEPT ![config[p].database] = p]
        /\ Goto(p, "lockBot")
     \/ /\ holder[config[p].database] # NoProcess
        /\ Leave(p, 73)
        /\ UNCHANGED holder
     \/ Leave(p, 1) /\ UNCHANGED holder
  /\ UNCHANGED task

(* A partial acquisition is given back.                                    *)
LockBot(p) ==
  /\ At(p, "lockBot")
  /\ \/ /\ holder[config[p].bot] = NoProcess
        /\ holder' = [holder EXCEPT ![config[p].bot] = p]
        /\ Goto(p, "open")
     \/ /\ holder[config[p].bot] # NoProcess
        /\ holder' = [holder EXCEPT ![config[p].database] = NoProcess]
        /\ Leave(p, 73)
     \/ /\ holder' = [holder EXCEPT ![config[p].database] = NoProcess]
        /\ Leave(p, 1)
  /\ UNCHANGED task

Unlocked(p) ==
  [holder EXCEPT ![config[p].database] = NoProcess, ![config[p].bot] = NoProcess]

(* Every failure of New closes what it has opened, the locks last.         *)
Open(p) ==
  /\ At(p, "open")
  /\ \/ /\ main' = [main EXCEPT ![p].pc = "startup", ![p].open = TRUE]
        /\ UNCHANGED holder
     \/ Leave(p, 1) /\ holder' = Unlocked(p)
  /\ UNCHANGED task

-----------------------------------------------------------------------------
(* app.Run.                                                                *)

Signal(p) ==
  /\ main[p].pc \notin {"down", "exit", "gone"}
  /\ ~main[p].signalled
  /\ main' = [main EXCEPT ![p].signalled = TRUE, ![p].cancelled = TRUE]
  /\ UNCHANGED <<holder, task>>

(* recoverStartupState, then every worker in a goroutine of its own.       *)
Startup(p) ==
  /\ At(p, "startup")
  /\ \/ /\ main' = [main EXCEPT ![p].pc = "reporter", ![p].pending = Workers]
        /\ task' = [task EXCEPT ![p] = [t \in Tasks |->
                      IF t \in Workers THEN [pc |-> "running", err |-> "none"] ELSE Unborn]]
     \/ \E err \in {"failure"} \cup (IF main[p].signalled THEN {"context"} ELSE {}) :
          /\ main' = [main EXCEPT ![p].pc = "return", ![p].errs = {err}, ![p].cancelled = TRUE]
          /\ UNCHANGED task
  /\ UNCHANGED holder

(* requiredWorkerError and requiredInfrastructureError.                    *)
StoppedError(t, err) ==
  {err, IF t = Reporter THEN "requiredInfrastructureStopped" ELSE "requiredWorkerStopped"}

(* Without the supervisor's marker there is no reporter.                   *)
StartReporter(p) ==
  /\ At(p, "reporter")
  /\ \/ Goto(p, "select") /\ UNCHANGED task
     \/ /\ main' = [main EXCEPT ![p].pc = "select", ![p].pending = @ \cup {Reporter}]
        /\ task' = [task EXCEPT ![p][Reporter].pc = "running"]
     \/ /\ main' = [main EXCEPT ![p].pc = "drain", ![p].cancelled = TRUE,
                                ![p].errs = StoppedError(Reporter, "failure")]
        /\ UNCHANGED task
  /\ UNCHANGED holder

(* No worker returns nil, and none returns the context's error before the  *)
(* context is cancelled.  A worker that hangs never gets here.             *)
TaskEnds(p, t) ==
  /\ task[p][t].pc = "running"
  /\ \E err \in {"failure"} \cup (IF main[p].cancelled THEN {"context"} ELSE {})
                            \cup (IF t = Telegram THEN {"handlerStuck"} ELSE {}) :
       task' = [task EXCEPT ![p][t] = [pc |-> "ended", err |-> err]]
  /\ UNCHANGED <<holder, main>>

Results(p) == {t \in main[p].pending : task[p][t].pc = "ended"}

(* A result that only reports the cancellation says nothing more.          *)
\* Mutant: after a signal every result counts as part of the shutdown.
ResultIgnored(p, t) == IF main[p].signalled THEN {} ELSE StoppedError(t, task[p][t].err)
ResultError(p, t) ==
  IF task[p][t].err = "context" THEN {} ELSE StoppedError(t, task[p][t].err)

SelectSignal(p) ==
  /\ At(p, "select") /\ main[p].signalled
  /\ main' = [main EXCEPT ![p].pc = "drain", ![p].errs = {"context"}]
  /\ UNCHANGED <<holder, task>>

SelectResult(p, t) ==
  /\ At(p, "select") /\ t \in Results(p)
  /\ main' = [main EXCEPT
       ![p].pc = "drain", ![p].cancelled = TRUE, ![p].pending = @ \ {t},
       ![p].errs = IF main[p].signalled THEN {"context"} \cup ResultError(p, t)
                                        ELSE StoppedError(t, task[p][t].err)]
  /\ UNCHANGED <<holder, task>>

-----------------------------------------------------------------------------
(* waitForRuntime.                                                         *)

DrainResult(p, t) ==
  /\ At(p, "drain") /\ t \in Results(p)
  /\ main' = [main EXCEPT ![p].pending = @ \ {t}, ![p].errs = @ \cup ResultError(p, t)]
  /\ UNCHANGED <<holder, task>>

Drained(p) ==
  /\ At(p, "drain") /\ main[p].pending = {}
  /\ Goto(p, "return")
  /\ UNCHANGED <<holder, task>>

\* Mutant: the drain waits for every task, however long it takes.
GraceNeverEnds(p) == FALSE
GraceEnds(p) ==
  /\ At(p, "drain") /\ main[p].pending # {}
  /\ main' = [main EXCEPT ![p].pc = "return",
       ![p].errs = @ \cup (IF main[p].pending \cap Workers = {} THEN {}
                           ELSE {"workerShutdownStuck"})
                     \cup (IF Reporter \in main[p].pending
                           THEN {"infrastructureShutdownStuck"} ELSE {})]
  /\ UNCHANGED <<holder, task>>

-----------------------------------------------------------------------------
(* main: serviceExitCode, Close, os.Exit.                                  *)

ServiceExitCode(errs, signalled) ==
  LET stuck   == {"handlerStuck", "workerShutdownStuck", "infrastructureShutdownStuck"}
      stopped == {"requiredWorkerStopped", "requiredInfrastructureStopped"}
  IN  CASE errs \cap stuck # {} -> 70
        [] errs \cap stuck = {} /\ errs \cap stopped # {} -> 1
        [] OTHER -> IF signalled /\ "context" \in errs THEN 0 ELSE 1

(* Only status 0 closes the service; os.Exit leaves everything to the      *)
(* kernel.                                                                 *)
Return(p) ==
  /\ At(p, "return")
  /\ LET status == ServiceExitCode(main[p].errs, main[p].signalled)
     IN  main' = [main EXCEPT ![p].status = status,
                              ![p].pc = IF status = 0 THEN "close" ELSE "exit"]
  /\ UNCHANGED <<holder, task>>

\* Mutant: Close runs the shutdown functions first to last.
CloseForward(p) ==
  /\ At(p, "close")
  /\ holder' = Unlocked(p)
  /\ Goto(p, "unlockBot")
  /\ UNCHANGED task
Close(p) ==
  /\ At(p, "close")
  /\ main' = [main EXCEPT ![p].pc = "unlockBot", ![p].open = FALSE]
  /\ UNCHANGED <<holder, task>>

UnlockBot(p) ==
  /\ At(p, "unlockBot")
  /\ holder' = [holder EXCEPT ![config[p].bot] = NoProcess]
  /\ Goto(p, "unlockDatabase")
  /\ UNCHANGED task

UnlockDatabase(p) ==
  /\ At(p, "unlockDatabase")
  /\ holder' = [holder EXCEPT ![config[p].database] = NoProcess]
  /\ Leave(p, 0)
  /\ UNCHANGED task

(* The kernel ends the goroutines and gives back the locks.                *)
Vanish(p) ==
  /\ main' = [main EXCEPT ![p] = NotRunning("gone")]
  /\ task' = [task EXCEPT ![p] = [t \in Tasks |-> Unborn]]
  /\ holder' = [r \in DOMAIN holder |-> IF holder[r] = p THEN NoProcess ELSE holder[r]]

Exit(p)  == At(p, "exit") /\ Vanish(p)
Crash(p) == main[p].pc \notin {"down", "exit", "gone"} /\ Vanish(p)

-----------------------------------------------------------------------------
MainStep(p) ==
  \/ LockDatabase(p) \/ LockBot(p) \/ Open(p) \/ Startup(p) \/ StartReporter(p)
  \/ SelectSignal(p) \/ (\E t \in Tasks : SelectResult(p, t))
  \/ (\E t \in Tasks : DrainResult(p, t)) \/ Drained(p) \/ GraceEnds(p)
  \/ Return(p) \/ Close(p) \/ UnlockBot(p) \/ UnlockDatabase(p) \/ Exit(p)

Next ==
  /\ \E p \in Processes :
       \/ Launch(p) \/ Signal(p) \/ Crash(p)
       \/ MainStep(p)
       \/ \E t \in Tasks : TaskEnds(p, t)
  /\ UNCHANGED config

Spec == Init /\ [][Next]_vars

(* The main goroutine goes on: New and the startup sweep return, and the   *)
(* grace timer fires.  Nothing is assumed of the workers and the reporter, *)
(* which may hang.                                                         *)
FairSpec == Spec /\ \A p \in Processes : WF_vars(MainStep(p) /\ UNCHANGED config)

-----------------------------------------------------------------------------
TypeOK ==
  /\ config \in [Processes -> Config]
  /\ holder \in [Databases \cup Bots -> Processes \cup {NoProcess}]
  /\ main \in [Processes -> Main]
  /\ task \in [Processes -> [Tasks -> Task]]

(* A process touches its database, or runs a worker, only while it holds   *)
(* both locks, up to the moment at which everything of it has ended: so no *)
(* two processes ever work on one database or poll for one bot.            *)
LocksCoverUse ==
  /\ TypeOK
  /\ \A p \in Processes :
       main[p].open \/ (\E t \in Tasks : task[p][t].pc = "running") =>
         holder[config[p].database] = p /\ holder[config[p].bot] = p

(* Status 0 says that every worker has ended, and for no other reason than *)
(* the signal; a task left running or a handler that would not stop makes  *)
(* the status 70, whatever else went wrong and whatever came first.        *)
StatusTellsTruth ==
  \A p \in Processes :
    /\ main[p].status = 0 =>
         \A t \in Tasks : task[p][t].pc # "running" /\ task[p][t].err \in {"none", "context"}
    /\ main[p].status \in {0, 1} => task[p][Telegram].err # "handlerStuck"
    /\ At(p, "exit") /\ (\E t \in Tasks : task[p][t].pc = "running") => main[p].status = 70

(* A signal, and the end of any required worker or of the reporter, brings *)
(* the process to its end, even when the others hang.                      *)
ProcessEnds ==
  \A p \in Processes :
    main[p].signalled \/ (\E t \in Tasks : task[p][t].pc = "ended") ~> At(p, "gone")
=============================================================================
