------------------------ MODULE ServiceRuntimeProofs ------------------------
(***************************************************************************)
(* Proofs about ServiceRuntime, for every set of processes, databases,     *)
(* bots and workers.  The invariant is a conjunction over the processes:   *)
(* a step of one process leaves what it says of the others alone, because  *)
(* a lock that somebody holds is given up by its holder only.              *)
(***************************************************************************)
EXTENDS ServiceRuntime, TLAPS

-----------------------------------------------------------------------------
(* The inductive invariant.                                                *)

HasDatabase(p) == holder[config[p].database] = p
HasBot(p)      == holder[config[p].bot] = p

\* The locks by the place in main, and nothing in use before or after them.
Locks(p) ==
  /\ main[p].pc \in {"lockBot", "open", "startup", "reporter", "select", "drain", "return",
                     "close", "unlockBot", "unlockDatabase"} => HasDatabase(p)
  /\ main[p].pc \in {"open", "startup", "reporter", "select", "drain", "return", "close",
                     "unlockBot"} => HasBot(p)
  /\ main[p].open \/ (\E t \in Tasks : task[p][t].pc = "running") =>
       HasDatabase(p) /\ HasBot(p)
  /\ main[p].pc \in {"down", "lockDatabase", "lockBot", "open", "unlockBot", "unlockDatabase", "gone"} =>
       ~main[p].open

\* Nothing has been started, or pending is what is still to be waited for:
\* a task whose result was taken from it has left its mark on the error.
Stuck   == {"handlerStuck", "workerShutdownStuck", "infrastructureShutdownStuck"}
Stopped == {"requiredWorkerStopped", "requiredInfrastructureStopped"}

Ledger(p) ==
  /\ main[p].pc \in {"down", "lockDatabase", "lockBot", "open", "startup", "gone"} =>
       main[p].pending = {} /\ main[p].errs = {} /\ \A t \in Tasks : task[p][t] = Unborn
  /\ main[p].pc \in {"reporter", "select"} =>
       \A t \in Tasks : task[p][t].pc # "unborn" => t \in main[p].pending
  /\ main[p].pc = "reporter" => task[p][Reporter] = Unborn
  /\ \A t \in Tasks :
       /\ task[p][t].pc = "ended" <=> task[p][t].err # "none"
       /\ task[p][t].pc = "running" => t \in main[p].pending
       /\ task[p][t].pc = "ended" /\ t \notin main[p].pending =>
            /\ task[p][t].err = "handlerStuck" => "handlerStuck" \in main[p].errs
            /\ task[p][t].err = "failure" => main[p].errs \cap Stopped # {}

\* The status sums up the error, and an error that is not about tasks that
\* hang means that there are none.
Verdict(p) ==
  /\ main[p].pc \in {"return", "close", "unlockBot", "unlockDatabase", "exit"} =>
       (main[p].pending # {} => main[p].errs \cap Stuck # {})
  /\ main[p].status # Running => main[p].pc \in {"close", "unlockBot", "unlockDatabase", "exit"}
  /\ main[p].pc \in {"close", "unlockBot", "unlockDatabase"} => main[p].status = 0
  /\ main[p].pc = "exit" => main[p].status # Running
  /\ main[p].status \in {0, 1, 73} => main[p].errs \cap Stuck = {}
  /\ main[p].status = 0 => main[p].errs \cap Stopped = {}

Good(p) == Locks(p) /\ Ledger(p) /\ Verdict(p)

IInv == TypeOK /\ \A p \in Processes : Good(p)

-----------------------------------------------------------------------------
(* One process at a time.                                                   *)

LEMMA Resources ==
  ASSUME TypeOK, NEW p \in Processes
  PROVE  /\ config[p].database \in Databases \cup Bots /\ config[p].bot \in Databases \cup Bots
         /\ config[p].database # config[p].bot /\ p # NoProcess
         /\ main[p] \in Main /\ \A t \in Tasks : task[p][t] \in Task
         /\ task[p] \in [Tasks -> Task]
  BY ResourceAssumption DEF TypeOK, Config

\* What a step of p leaves of the others.
OthersStay(p) ==
  /\ \A q \in Processes \ {p} : main'[q] = main[q] /\ task'[q] = task[q]
  /\ \A r \in Databases \cup Bots : holder[r] \in Processes \ {p} => holder'[r] = holder[r]
  /\ UNCHANGED config

LEMMA OthersGood ==
  ASSUME IInv, NEW p \in Processes, OthersStay(p)
  PROVE  \A q \in Processes \ {p} : Good(q)'
<1> SUFFICES ASSUME NEW q \in Processes \ {p} PROVE Good(q)'
  OBVIOUS
<1>1. /\ main'[q] = main[q] /\ task'[q] = task[q] /\ config' = config
      /\ HasDatabase(q) => HasDatabase(q)'
      /\ HasBot(q) => HasBot(q)'
  BY Resources DEF IInv, OthersStay, HasDatabase, HasBot
<1>2. Good(q)
  BY DEF IInv
<1> QED
  BY <1>1, <1>2 DEF Good, Locks, Ledger, Verdict

LEMMA StepGood ==
  ASSUME IInv, NEW p \in Processes, OthersStay(p), Good(p)',
         main' \in [Processes -> Main], task' \in [Processes -> [Tasks -> Task]],
         holder' \in [Databases \cup Bots -> Processes \cup {NoProcess}]
  PROVE  IInv'
  BY OthersGood DEF IInv, TypeOK, OthersStay

-----------------------------------------------------------------------------
(* The steps of a process.                                                  *)

Acts(p) ==
  \/ Launch(p) \/ Signal(p) \/ Crash(p) \/ MainStep(p)
  \/ \E t \in Tasks : TaskEnds(p, t)

\* The locks.
LEMMA HolderFrame ==
  ASSUME IInv, NEW p \in Processes, Acts(p), UNCHANGED config
  PROVE  /\ holder' \in [Databases \cup Bots -> Processes \cup {NoProcess}]
         /\ \A r \in Databases \cup Bots : holder[r] \in Processes \ {p} => holder'[r] = holder[r]
<1> USE Resources, ResourceAssumption
    DEF IInv, TypeOK, Good, Locks, HasDatabase, HasBot, At, Unlocked
<1>1. CASE LockDatabase(p)
  BY <1>1 DEF LockDatabase
<1>2. CASE LockBot(p)
  BY <1>2 DEF LockBot
<1>3. CASE Open(p)
  BY <1>3 DEF Open
<1>4. CASE UnlockBot(p)
  BY <1>4 DEF UnlockBot
<1>5. CASE UnlockDatabase(p)
  BY <1>5 DEF UnlockDatabase
<1>6. CASE Exit(p) \/ Crash(p)
  BY <1>6 DEF Exit, Crash, Vanish
<1>7. CASE UNCHANGED holder
  BY <1>7
<1>8. \/ Launch(p) \/ Signal(p) \/ (\E t \in Tasks : TaskEnds(p, t)) \/ Startup(p)
      \/ StartReporter(p) \/ SelectSignal(p) \/ (\E t \in Tasks : SelectResult(p, t))
      \/ (\E t \in Tasks : DrainResult(p, t)) \/ Drained(p) \/ GraceEnds(p) \/ Return(p) \/ Close(p)
      => UNCHANGED holder
  BY DEF Launch, Signal, TaskEnds, Startup, StartReporter, SelectSignal, SelectResult, DrainResult,
         Drained, GraceEnds, Return, Close
<1> QED
  BY <1>1, <1>2, <1>3, <1>4, <1>5, <1>6, <1>7, <1>8 DEF Acts, MainStep

\* The main goroutine and the tasks.
LEMMA MainMoves ==
  ASSUME main \in [Processes -> Main], NEW p \in Processes, NEW m \in Main,
         main' = [main EXCEPT ![p] = m]
  PROVE  main' \in [Processes -> Main] /\ main'[p] = m /\ \A q \in Processes \ {p} : main'[q] = main[q]
  OBVIOUS

\* What is to be shown of every step.
Fine(p) ==
  /\ main' \in [Processes -> Main] /\ task' \in [Processes -> [Tasks -> Task]]
  /\ \A q \in Processes \ {p} : main'[q] = main[q] /\ task'[q] = task[q]
  /\ Good(p)'

LEMMA MainOnly ==
  ASSUME IInv, NEW p \in Processes, NEW m \in Main,
         main' = [main EXCEPT ![p] = m], UNCHANGED task, Good(p)'
  PROVE  Fine(p)
  BY MainMoves DEF Fine, IInv, TypeOK

LEMMA LaunchGood ==
  ASSUME IInv, NEW p \in Processes, Launch(p), UNCHANGED config
  PROVE  Fine(p)
<1> DEFINE m == [main[p] EXCEPT !.pc = "lockDatabase"]
<1>1. m \in Main
      /\ m.pc = "lockDatabase" /\ m.open = main[p].open /\ m.pending = main[p].pending
      /\ m.errs = main[p].errs /\ m.status = main[p].status
  <2>1. main[p] \in Main
    BY Resources DEF IInv
  <2>2. m \in Main
    BY <2>1 DEF Main
  <2> QED
    BY <2>1, <2>2 DEF Main
<1>2. main' = [main EXCEPT ![p] = m] /\ UNCHANGED task /\ UNCHANGED holder
  BY DEF Launch, IInv, TypeOK, Goto
<1> HIDE DEF m
<1>3. main'[p] = m
  BY <1>1, <1>2, MainMoves DEF IInv, TypeOK
<1>4. Good(p)
  BY DEF IInv
<1>5. Locks(p)'
  BY <1>1, <1>2, <1>3, <1>4 DEF Launch, At, Good, Locks, HasDatabase, HasBot
<1>6. Ledger(p)'
  BY <1>1, <1>2, <1>3, <1>4 DEF Launch, At, Good, Ledger
<1>7. Verdict(p)'
  BY <1>1, <1>2, <1>3, <1>4 DEF Launch, At, Good, Verdict, Running
<1> QED
  BY <1>1, <1>2, <1>5, <1>6, <1>7, MainOnly DEF Good

LEMMA SignalGood ==
  ASSUME IInv, NEW p \in Processes, Signal(p), UNCHANGED config
  PROVE  Fine(p)
<1> DEFINE m == [main[p] EXCEPT !.signalled = TRUE, !.cancelled = TRUE]
<1>1. m \in Main
      /\ m.pc = main[p].pc /\ m.open = main[p].open /\ m.pending = main[p].pending
      /\ m.errs = main[p].errs /\ m.status = main[p].status
  <2>1. main[p] \in Main
    BY Resources DEF IInv
  <2>2. m \in Main
    BY <2>1 DEF Main
  <2> QED
    BY <2>1, <2>2 DEF Main
<1>2. main' = [main EXCEPT ![p] = m] /\ UNCHANGED task /\ UNCHANGED holder
  BY DEF Signal, IInv, TypeOK
<1> HIDE DEF m
<1>3. main'[p] = m
  BY <1>1, <1>2, MainMoves DEF IInv, TypeOK
<1>4. Good(p)
  BY DEF IInv
<1>5. Locks(p)'
  BY <1>1, <1>2, <1>3, <1>4 DEF Signal, At, Good, Locks, HasDatabase, HasBot
<1>6. Ledger(p)'
  BY <1>1, <1>2, <1>3, <1>4, ZenonT(60) DEF Signal, At, Good, Ledger
<1>7. Verdict(p)'
  BY <1>1, <1>2, <1>3, <1>4 DEF Signal, At, Good, Verdict, Running
<1> QED
  BY <1>1, <1>2, <1>5, <1>6, <1>7, MainOnly DEF Good

LEMMA SelectSignalGood ==
  ASSUME IInv, NEW p \in Processes, SelectSignal(p), UNCHANGED config
  PROVE  Fine(p)
<1> DEFINE m == [main[p] EXCEPT !.pc = "drain", !.errs = {"context"}]
<1>1. m \in Main
      /\ m.pc = "drain" /\ m.open = main[p].open /\ m.pending = main[p].pending
      /\ m.errs = {"context"} /\ m.status = main[p].status
  <2>1. main[p] \in Main
    BY Resources DEF IInv
  <2>2. m \in Main
    BY <2>1 DEF Main, Errors
  <2> QED
    BY <2>1, <2>2 DEF Main
<1>2. main' = [main EXCEPT ![p] = m] /\ UNCHANGED task /\ UNCHANGED holder
  BY DEF SelectSignal, IInv, TypeOK
<1> HIDE DEF m
<1>3. main'[p] = m
  BY <1>1, <1>2, MainMoves DEF IInv, TypeOK
<1>4. Good(p)
  BY DEF IInv
<1>5. Locks(p)'
  BY <1>1, <1>2, <1>3, <1>4 DEF SelectSignal, At, Good, Locks, HasDatabase, HasBot
<1>6. Ledger(p)'
  <2>1. \A t \in Tasks : task[p][t].pc # "unborn" => t \in main[p].pending
    BY <1>4 DEF SelectSignal, At, Good, Ledger
  <2>2. \A t \in Tasks : task[p][t] \in Task /\ (task[p][t].pc = "ended" <=> task[p][t].err # "none")
    BY <1>4, Resources DEF IInv, Good, Ledger
  <2> QED
    BY <1>1, <1>2, <1>3, <2>1, <2>2 DEF Ledger
<1>7. Verdict(p)'
  BY <1>1, <1>2, <1>3, <1>4 DEF SelectSignal, At, Good, Verdict, Running
<1> QED
  BY <1>1, <1>2, <1>5, <1>6, <1>7, MainOnly DEF Good

LEMMA DrainedGood ==
  ASSUME IInv, NEW p \in Processes, Drained(p), UNCHANGED config
  PROVE  Fine(p)
<1> DEFINE m == [main[p] EXCEPT !.pc = "return"]
<1>1. m \in Main
      /\ m.pc = "return" /\ m.open = main[p].open /\ m.pending = main[p].pending
      /\ m.errs = main[p].errs /\ m.status = main[p].status
  <2>1. main[p] \in Main
    BY Resources DEF IInv
  <2>2. m \in Main
    BY <2>1 DEF Main
  <2> QED
    BY <2>1, <2>2 DEF Main
<1>2. main' = [main EXCEPT ![p] = m] /\ UNCHANGED task /\ UNCHANGED holder
  BY DEF Drained, IInv, TypeOK, Goto
<1> HIDE DEF m
<1>3. main'[p] = m
  BY <1>1, <1>2, MainMoves DEF IInv, TypeOK
<1>4. Good(p)
  BY DEF IInv
<1>5. Locks(p)'
  BY <1>1, <1>2, <1>3, <1>4 DEF Drained, At, Good, Locks, HasDatabase, HasBot
<1>6. Ledger(p)'
  BY <1>1, <1>2, <1>3, <1>4 DEF Drained, At, Good, Ledger
<1>7. Verdict(p)'
  BY <1>1, <1>2, <1>3, <1>4 DEF Drained, At, Good, Verdict, Running
<1> QED
  BY <1>1, <1>2, <1>5, <1>6, <1>7, MainOnly DEF Good

LEMMA CloseGood ==
  ASSUME IInv, NEW p \in Processes, Close(p), UNCHANGED config
  PROVE  Fine(p)
<1> DEFINE m == [main[p] EXCEPT !.pc = "unlockBot", !.open = FALSE]
<1>1. m \in Main
      /\ m.pc = "unlockBot" /\ m.open = FALSE /\ m.pending = main[p].pending
      /\ m.errs = main[p].errs /\ m.status = main[p].status
  <2>1. main[p] \in Main
    BY Resources DEF IInv
  <2>2. m \in Main
    BY <2>1 DEF Main
  <2> QED
    BY <2>1, <2>2 DEF Main
<1>2. main' = [main EXCEPT ![p] = m] /\ UNCHANGED task /\ UNCHANGED holder
  BY DEF Close, IInv, TypeOK
<1> HIDE DEF m
<1>3. main'[p] = m
  BY <1>1, <1>2, MainMoves DEF IInv, TypeOK
<1>4. Good(p)
  BY DEF IInv
<1>5. Locks(p)'
  BY <1>1, <1>2, <1>3, <1>4 DEF Close, At, Good, Locks, HasDatabase, HasBot
<1>6. Ledger(p)'
  BY <1>1, <1>2, <1>3, <1>4, ZenonT(60) DEF Close, At, Good, Ledger
<1>7. Verdict(p)'
  BY <1>1, <1>2, <1>3, <1>4 DEF Close, At, Good, Verdict, Running
<1> QED
  BY <1>1, <1>2, <1>5, <1>6, <1>7, MainOnly DEF Good


-----------------------------------------------------------------------------
(* app.New.                                                                 *)

LEMMA LeaveGood ==
  ASSUME IInv, NEW p \in Processes, UNCHANGED config, UNCHANGED task, NEW code \in {1, 73},
         main[p].pc \in {"lockDatabase", "lockBot", "open"}, Leave(p, code)
  PROVE  Fine(p)
<1> DEFINE m == [main[p] EXCEPT !.pc = "exit", !.status = code]
<1>1. /\ m \in Main
      /\ m.pc = "exit" /\ m.open = main[p].open /\ m.pending = main[p].pending
      /\ m.errs = main[p].errs /\ m.status = code
  <2>1. main[p] \in Main
    BY Resources DEF IInv
  <2>2. m \in Main
    BY <2>1 DEF Main
  <2> QED
    BY <2>1, <2>2 DEF Main
<1>2. main' = [main EXCEPT ![p] = m]
  <2>1. main \in [Processes -> Main] /\ Leave(p, code)
    BY DEF IInv, TypeOK
  <2> QED
    BY <2>1, Zenon DEF Leave
<1> HIDE DEF m
<1>3. main'[p] = m
  BY <1>1, <1>2, MainMoves DEF IInv, TypeOK
<1>4. /\ main[p].pending = {} /\ main[p].errs = {} /\ ~main[p].open
      /\ \A t \in Tasks : task[p][t] = Unborn
  BY DEF IInv, Good, Ledger, Locks
<1>5. Locks(p)'
  BY <1>1, <1>3, <1>4 DEF Locks, Unborn
<1>6. Ledger(p)'
  BY <1>1, <1>3, <1>4 DEF Ledger, Unborn
<1>7. Verdict(p)'
  BY <1>1, <1>3, <1>4 DEF Verdict, Running
<1> QED
  BY <1>1, <1>2, <1>5, <1>6, <1>7, MainOnly DEF Good

LEMMA LockDatabaseGood ==
  ASSUME IInv, NEW p \in Processes, LockDatabase(p), UNCHANGED config
  PROVE  Fine(p)
<1>0. main[p].pc = "lockDatabase" /\ UNCHANGED task
  BY DEF LockDatabase, At
<1>1. CASE Leave(p, 73) \/ Leave(p, 1)
  BY <1>0, <1>1, LeaveGood
<1>2. CASE Goto(p, "lockBot") /\ holder' = [holder EXCEPT ![config[p].database] = p]
  <2> DEFINE m == [main[p] EXCEPT !.pc = "lockBot"]
  <2>1. /\ m \in Main
        /\ m.pc = "lockBot" /\ m.open = main[p].open /\ m.pending = main[p].pending
        /\ m.errs = main[p].errs /\ m.status = main[p].status
    <3>1. main[p] \in Main
      BY Resources DEF IInv
    <3> QED
      BY <3>1 DEF Main
  <2>2. main' = [main EXCEPT ![p] = m]
    BY <1>2 DEF Goto, IInv, TypeOK
  <2> HIDE DEF m
  <2>3. main'[p] = m
    BY <2>1, <2>2, MainMoves DEF IInv, TypeOK
  <2>4. HasDatabase(p)'
    BY <1>2, Resources DEF IInv, TypeOK, HasDatabase
  <2>5. /\ main[p].pending = {} /\ main[p].errs = {} /\ ~main[p].open
        /\ \A t \in Tasks : task[p][t] = Unborn
    BY <1>0 DEF IInv, Good, Ledger, Locks
  <2>6. Locks(p)'
    BY <1>0, <2>1, <2>3, <2>4, <2>5 DEF Locks, Unborn
  <2>7. Ledger(p)'
    BY <1>0, <2>1, <2>3, <2>5 DEF Ledger, Unborn
  <2>8. Verdict(p)'
    BY <1>0, <2>1, <2>3, <2>5 DEF IInv, Good, Verdict, Running
  <2> QED
    BY <1>0, <2>1, <2>2, <2>6, <2>7, <2>8, MainOnly DEF Good
<1> QED
  BY <1>1, <1>2 DEF LockDatabase

LEMMA LockBotGood ==
  ASSUME IInv, NEW p \in Processes, LockBot(p), UNCHANGED config
  PROVE  Fine(p)
<1>0. main[p].pc = "lockBot" /\ UNCHANGED task
  BY DEF LockBot, At
<1>1. CASE Leave(p, 73) \/ Leave(p, 1)
  BY <1>0, <1>1, LeaveGood
<1>2. CASE Goto(p, "open") /\ holder' = [holder EXCEPT ![config[p].bot] = p]
  <2> DEFINE m == [main[p] EXCEPT !.pc = "open"]
  <2>1. /\ m \in Main
        /\ m.pc = "open" /\ m.open = main[p].open /\ m.pending = main[p].pending
        /\ m.errs = main[p].errs /\ m.status = main[p].status
    <3>1. main[p] \in Main
      BY Resources DEF IInv
    <3> QED
      BY <3>1 DEF Main
  <2>2. main' = [main EXCEPT ![p] = m]
    BY <1>2 DEF Goto, IInv, TypeOK
  <2> HIDE DEF m
  <2>3. main'[p] = m
    BY <2>1, <2>2, MainMoves DEF IInv, TypeOK
  <2>4. HasDatabase(p)' /\ HasBot(p)'
    BY <1>0, <1>2, Resources DEF IInv, TypeOK, Good, Locks, HasDatabase, HasBot
  <2>5. /\ main[p].pending = {} /\ main[p].errs = {} /\ ~main[p].open
        /\ \A t \in Tasks : task[p][t] = Unborn
    BY <1>0 DEF IInv, Good, Ledger, Locks
  <2>6. Locks(p)'
    BY <1>0, <2>1, <2>3, <2>4, <2>5 DEF Locks, Unborn
  <2>7. Ledger(p)'
    BY <1>0, <2>1, <2>3, <2>5 DEF Ledger, Unborn
  <2>8. Verdict(p)'
    BY <1>0, <2>1, <2>3, <2>5 DEF IInv, Good, Verdict, Running
  <2> QED
    BY <1>0, <2>1, <2>2, <2>6, <2>7, <2>8, MainOnly DEF Good
<1> QED
  BY <1>1, <1>2 DEF LockBot

LEMMA OpenGood ==
  ASSUME IInv, NEW p \in Processes, Open(p), UNCHANGED config
  PROVE  Fine(p)
<1>0. main[p].pc = "open" /\ UNCHANGED task
  BY DEF Open, At
<1>1. CASE Leave(p, 1)
  BY <1>0, <1>1, LeaveGood
<1>2. CASE main' = [main EXCEPT ![p].pc = "startup", ![p].open = TRUE] /\ UNCHANGED holder
  <2> DEFINE m == [main[p] EXCEPT !.pc = "startup", !.open = TRUE]
  <2>1. /\ m \in Main
        /\ m.pc = "startup" /\ m.pending = main[p].pending
        /\ m.errs = main[p].errs /\ m.status = main[p].status
    <3>1. main[p] \in Main
      BY Resources DEF IInv
    <3> QED
      BY <3>1 DEF Main
  <2>2. main' = [main EXCEPT ![p] = m]
    BY <1>2 DEF IInv, TypeOK
  <2> HIDE DEF m
  <2>3. main'[p] = m
    BY <2>1, <2>2, MainMoves DEF IInv, TypeOK
  <2>4. HasDatabase(p)' /\ HasBot(p)'
    BY <1>0, <1>2 DEF IInv, Good, Locks, HasDatabase, HasBot
  <2>5. /\ main[p].pending = {} /\ main[p].errs = {}
        /\ \A t \in Tasks : task[p][t] = Unborn
    BY <1>0 DEF IInv, Good, Ledger
  <2>6. Locks(p)'
    BY <1>0, <2>1, <2>3, <2>4, <2>5 DEF Locks, Unborn
  <2>7. Ledger(p)'
    BY <1>0, <2>1, <2>3, <2>5 DEF Ledger, Unborn
  <2>8. Verdict(p)'
    BY <1>0, <2>1, <2>3, <2>5 DEF IInv, Good, Verdict, Running
  <2> QED
    BY <1>0, <2>1, <2>2, <2>6, <2>7, <2>8, MainOnly DEF Good
<1> QED
  BY <1>1, <1>2 DEF Open

-----------------------------------------------------------------------------
(* app.Run.                                                                 *)

LEMMA StartupGood ==
  ASSUME IInv, NEW p \in Processes, Startup(p), UNCHANGED config
  PROVE  Fine(p)
<1>0. main[p] \in Main /\ main[p].pc = "startup" /\ UNCHANGED holder
  BY Resources DEF IInv, Startup, At
<1>1. /\ main[p].pending = {} /\ main[p].errs = {} /\ main[p].status = Running
      /\ \A t \in Tasks : task[p][t] = Unborn
      /\ HasDatabase(p) /\ HasBot(p)
  BY <1>0 DEF IInv, Good, Locks, Ledger, Verdict
<1>2. HasDatabase(p)' /\ HasBot(p)'
  BY <1>0, <1>1 DEF HasDatabase, HasBot
<1>3. ASSUME main' = [main EXCEPT ![p].pc = "reporter", ![p].pending = Workers],
             task' = [task EXCEPT ![p] = [t \in Tasks |->
                      IF t \in Workers THEN [pc |-> "running", err |-> "none"] ELSE Unborn]]
      PROVE  Fine(p)
  <2> DEFINE m == [main[p] EXCEPT !.pc = "reporter", !.pending = Workers]
             ts == [t \in Tasks |-> IF t \in Workers THEN [pc |-> "running", err |-> "none"] ELSE Unborn]
  <2>1. /\ m \in Main
        /\ m.pc = "reporter" /\ m.open = main[p].open /\ m.pending = Workers
        /\ m.errs = main[p].errs /\ m.status = main[p].status
    BY <1>0 DEF Main, Tasks
  <2>2. /\ ts \in [Tasks -> Task] /\ ts[Reporter] = Unborn
        /\ \A t \in Tasks : ts[t].pc # "ended" /\ ts[t].err = "none" /\ (ts[t].pc # "unborn" => t \in Workers)
    BY WorkersAssumption DEF Task, Tasks, Unborn
  <2>3. main' = [main EXCEPT ![p] = m] /\ task' = [task EXCEPT ![p] = ts]
    BY <1>3 DEF IInv, TypeOK
  <2> HIDE DEF m, ts
  <2>4. main'[p] = m /\ task'[p] = ts
    BY <2>1, <2>3 DEF IInv, TypeOK
  <2>5. Locks(p)'
    BY <1>2, <2>1, <2>4 DEF Locks
  <2>6. Ledger(p)'
    BY <2>1, <2>2, <2>4 DEF Ledger
  <2>7. Verdict(p)'
    BY <1>1, <2>1, <2>4 DEF Verdict, Running
  <2> QED
    BY <2>1, <2>2, <2>3, <2>5, <2>6, <2>7 DEF Fine, Good, IInv, TypeOK
<1>4. ASSUME NEW err \in {"failure", "context"}, UNCHANGED task,
             main' = [main EXCEPT ![p].pc = "return", ![p].errs = {err}, ![p].cancelled = TRUE]
      PROVE  Fine(p)
  <2> DEFINE m == [main[p] EXCEPT !.pc = "return", !.errs = {err}, !.cancelled = TRUE]
  <2>1. /\ m \in Main
        /\ m.pc = "return" /\ m.open = main[p].open /\ m.pending = main[p].pending
        /\ m.errs = {err} /\ m.status = main[p].status
    BY <1>0 DEF Main, Errors
  <2>2. main' = [main EXCEPT ![p] = m]
    BY <1>4 DEF IInv, TypeOK
  <2> HIDE DEF m
  <2>3. main'[p] = m
    BY <2>1, <2>2 DEF IInv, TypeOK
  <2>4. Locks(p)'
    BY <1>2, <2>1, <2>3 DEF Locks
  <2>5. Ledger(p)'
    BY <1>1, <1>4, <2>1, <2>3 DEF Ledger, Unborn
  <2>6. Verdict(p)'
    BY <1>1, <2>1, <2>3 DEF Verdict, Running
  <2> QED
    BY <1>4, <2>1, <2>2, <2>4, <2>5, <2>6, MainOnly DEF Good
<1> QED
  BY <1>3, <1>4 DEF Startup

LEMMA StartReporterGood ==
  ASSUME IInv, NEW p \in Processes, StartReporter(p), UNCHANGED config
  PROVE  Fine(p)
<1>0. main[p] \in Main /\ main[p].pc = "reporter" /\ UNCHANGED holder
  BY Resources DEF IInv, StartReporter, At
<1>1. /\ main[p].status = Running
      /\ \A t \in Tasks : /\ task[p][t].pc # "unborn" => t \in main[p].pending
                          /\ task[p][t].pc = "ended" <=> task[p][t].err # "none"
                          /\ task[p][t] \in Task
      /\ task[p][Reporter] = Unborn
      /\ HasDatabase(p) /\ HasBot(p)
  <2>1. Good(p) /\ \A t \in Tasks : task[p][t] \in Task
    BY Resources DEF IInv
  <2> QED
    BY <1>0, <2>1 DEF Good, Locks, Ledger, Verdict
<1>2. HasDatabase(p)' /\ HasBot(p)'
  BY <1>0, <1>1 DEF HasDatabase, HasBot
<1>3. ASSUME Goto(p, "select"), UNCHANGED task
      PROVE  Fine(p)
  <2> DEFINE m == [main[p] EXCEPT !.pc = "select"]
  <2>1. /\ m \in Main
        /\ m.pc = "select" /\ m.open = main[p].open /\ m.pending = main[p].pending
        /\ m.errs = main[p].errs /\ m.status = main[p].status
    BY <1>0 DEF Main
  <2>2. main' = [main EXCEPT ![p] = m]
    BY <1>3 DEF Goto, IInv, TypeOK
  <2> HIDE DEF m
  <2>3. main'[p] = m
    BY <2>1, <2>2 DEF IInv, TypeOK
  <2>4. Locks(p)'
    BY <1>2, <2>1, <2>3 DEF Locks
  <2>5. Ledger(p)'
    BY <1>1, <1>3, <2>1, <2>3 DEF Ledger
  <2>6. Verdict(p)'
    BY <1>1, <2>1, <2>3 DEF Verdict, Running
  <2> QED
    BY <1>3, <2>1, <2>2, <2>4, <2>5, <2>6, MainOnly DEF Good
<1>4. ASSUME main' = [main EXCEPT ![p].pc = "select", ![p].pending = @ \cup {Reporter}],
             task' = [task EXCEPT ![p][Reporter].pc = "running"]
      PROVE  Fine(p)
  <2> DEFINE m  == [main[p] EXCEPT !.pc = "select", !.pending = @ \cup {Reporter}]
             ts == [task[p] EXCEPT ![Reporter].pc = "running"]
  <2>1. /\ m \in Main
        /\ m.pc = "select" /\ m.open = main[p].open /\ m.pending = main[p].pending \cup {Reporter}
        /\ m.errs = main[p].errs /\ m.status = main[p].status
    BY <1>0 DEF Main, Tasks
  <2>2. /\ ts \in [Tasks -> Task]
        /\ \A t \in Tasks : IF t = Reporter THEN ts[t].pc = "running" /\ ts[t].err = task[p][t].err
                                            ELSE ts[t] = task[p][t]
    BY Resources DEF IInv, Task, Tasks
  <2>3. main' = [main EXCEPT ![p] = m] /\ task' = [task EXCEPT ![p] = ts]
    BY <1>4 DEF IInv, TypeOK
  <2> HIDE DEF m, ts
  <2>4. main'[p] = m /\ task'[p] = ts
    BY <2>1, <2>3 DEF IInv, TypeOK
  <2>5. Locks(p)'
    BY <1>2, <2>1, <2>4 DEF Locks
  <2>6. Ledger(p)'
    BY <1>1, <2>1, <2>2, <2>4 DEF Ledger, Unborn
  <2>7. Verdict(p)'
    BY <1>1, <2>1, <2>4 DEF Verdict, Running
  <2> QED
    BY <2>1, <2>2, <2>3, <2>5, <2>6, <2>7 DEF Fine, Good, IInv, TypeOK
<1>5. ASSUME main' = [main EXCEPT ![p].pc = "drain", ![p].cancelled = TRUE,
                                 ![p].errs = StoppedError(Reporter, "failure")],
             UNCHANGED task
      PROVE  Fine(p)
  <2> DEFINE errs == StoppedError(Reporter, "failure")
             m == [main[p] EXCEPT !.pc = "drain", !.cancelled = TRUE, !.errs = errs]
  <2>1. errs \in SUBSET Errors
    BY DEF StoppedError, Errors
  <2>2. main' = [main EXCEPT ![p] = m]
    BY <1>5 DEF IInv, TypeOK
  <2> HIDE DEF errs
  <2>3. /\ m \in Main
        /\ m.pc = "drain" /\ m.open = main[p].open /\ m.pending = main[p].pending
        /\ m.status = main[p].status
    BY <1>0, <2>1 DEF Main
  <2> HIDE DEF m
  <2>4. main'[p] = m
    BY <2>2, <2>3 DEF IInv, TypeOK
  <2>5. Locks(p)'
    BY <1>2, <2>3, <2>4 DEF Locks
  <2>6. Ledger(p)'
    BY <1>1, <1>5, <2>3, <2>4 DEF Ledger
  <2>7. Verdict(p)'
    BY <1>1, <2>3, <2>4 DEF Verdict, Running
  <2> QED
    BY <1>5, <2>2, <2>3, <2>5, <2>6, <2>7, MainOnly DEF Good
<1> QED
  BY <1>3, <1>4, <1>5 DEF StartReporter

LEMMA TaskEndsGood ==
  ASSUME IInv, NEW p \in Processes, NEW u \in Tasks, TaskEnds(p, u), UNCHANGED config
  PROVE  Fine(p)
<1>0. /\ task[p][u].pc = "running" /\ main' = main /\ holder' = holder
      /\ Good(p) /\ \A t \in Tasks : task[p][t] \in Task
      /\ HasDatabase(p)' = HasDatabase(p) /\ HasBot(p)' = HasBot(p)
  BY Resources DEF IInv, TaskEnds, HasDatabase, HasBot
<1>1. PICK err \in {"failure", "context", "handlerStuck"} :
        task' = [task EXCEPT ![p][u] = [pc |-> "ended", err |-> err]]
  BY DEF TaskEnds
<1>2. /\ task' \in [Processes -> [Tasks -> Task]]
      /\ \A q \in Processes \ {p} : task'[q] = task[q]
      /\ \A t \in Tasks : task'[p][t] = IF t = u THEN [pc |-> "ended", err |-> err] ELSE task[p][t]
  BY <1>1, Resources DEF IInv, TypeOK, Task
<1>3. Locks(p)'
  BY <1>0, <1>2 DEF Good, Locks
<1>4. Ledger(p)'
  <2>1. task[p][u] # Unborn /\ Ledger(p)
    BY <1>0 DEF Good, Unborn
  <2>2. u \in main[p].pending /\ (main[p].pc = "reporter" => u # Reporter)
    BY <1>0, <2>1 DEF Ledger
  <2>3. main[p].pc \notin {"down", "lockDatabase", "lockBot", "open", "startup", "gone"}
    BY <2>1 DEF Ledger
  <2>4. main[p].pc = "reporter" => task'[p][Reporter] = Unborn
    BY <1>2, <2>1, <2>2 DEF Ledger, Tasks
  <2>5. ASSUME NEW t \in Tasks
        PROVE  /\ task'[p][t].pc = "ended" <=> task'[p][t].err # "none"
               /\ task'[p][t].pc # "unborn" => task[p][t].pc # "unborn"
               /\ task'[p][t].pc = "running" => t \in main[p].pending
               /\ task'[p][t].pc = "ended" /\ t \notin main[p].pending => task'[p][t] = task[p][t]
    BY <1>0, <1>2, <2>1, <2>2 DEF Ledger
  <2> QED
    BY <1>0, <2>1, <2>3, <2>4, <2>5 DEF Ledger
<1>5. Verdict(p)'
  BY <1>0 DEF Good, Verdict
<1> QED
  BY <1>0, <1>2, <1>3, <1>4, <1>5 DEF Fine, Good, IInv, TypeOK

\* What is kept of a result.
LEMMA ResultKept ==
  ASSUME IInv, NEW p \in Processes, NEW u \in Tasks, task[p][u].pc = "ended"
  PROVE  /\ StoppedError(u, task[p][u].err) \subseteq Errors /\ ResultError(p, u) \subseteq Errors
         /\ ResultError(p, u) \subseteq StoppedError(u, task[p][u].err)
         /\ task[p][u].err = "handlerStuck" => "handlerStuck" \in ResultError(p, u)
         /\ task[p][u].err = "failure" => ResultError(p, u) \cap Stopped # {}
<1>1. task[p][u].err \in {"context", "failure", "handlerStuck"}
  BY Resources DEF IInv, Good, Ledger, Task
<1> QED
  BY <1>1 DEF StoppedError, ResultError, Errors, Stopped

LEMMA SelectResultGood ==
  ASSUME IInv, NEW p \in Processes, NEW u \in Tasks, SelectResult(p, u), UNCHANGED config
  PROVE  Fine(p)
<1> DEFINE errs == IF main[p].signalled THEN {"context"} \cup ResultError(p, u)
                                        ELSE StoppedError(u, task[p][u].err)
           m == [main[p] EXCEPT !.pc = "drain", !.cancelled = TRUE, !.pending = @ \ {u}, !.errs = errs]
<1>0. /\ main[p] \in Main /\ main[p].pc = "select" /\ holder' = holder /\ task' = task
      /\ Good(p) /\ \A t \in Tasks : task[p][t] \in Task
      /\ u \in main[p].pending /\ task[p][u].pc = "ended"
  BY Resources DEF IInv, SelectResult, At, Results
<1>1. errs \subseteq Errors /\ ResultError(p, u) \subseteq errs
  BY <1>0, ResultKept DEF Errors
<1>2. main' = [main EXCEPT ![p] = m]
  BY DEF SelectResult, IInv, TypeOK
<1> HIDE DEF errs
<1>3. /\ m \in Main
      /\ m.pc = "drain" /\ m.open = main[p].open /\ m.pending = main[p].pending \ {u}
      /\ m.errs = errs /\ m.status = main[p].status
  BY <1>0, <1>1 DEF Main
<1> HIDE DEF m
<1>4. main'[p] = m
  BY <1>2, <1>3 DEF IInv, TypeOK
<1>5. \A t \in Tasks : /\ task[p][t].pc # "unborn" => t \in main[p].pending
                       /\ task[p][t].pc = "ended" <=> task[p][t].err # "none"
  BY <1>0 DEF Good, Ledger
<1>6. Locks(p)'
  BY <1>0, <1>3, <1>4 DEF Good, Locks, HasDatabase, HasBot
<1>7. Ledger(p)'
  BY <1>0, <1>1, <1>3, <1>4, <1>5, ResultKept DEF Ledger
<1>8. Verdict(p)'
  BY <1>0, <1>3, <1>4 DEF Good, Verdict, Running
<1> QED
  BY <1>0, <1>2, <1>3, <1>6, <1>7, <1>8, MainOnly DEF Good

-----------------------------------------------------------------------------
(* waitForRuntime.                                                          *)

LEMMA DrainResultGood ==
  ASSUME IInv, NEW p \in Processes, NEW u \in Tasks, DrainResult(p, u), UNCHANGED config
  PROVE  Fine(p)
<1> DEFINE errs == main[p].errs \cup ResultError(p, u)
           m == [main[p] EXCEPT !.pending = @ \ {u}, !.errs = errs]
<1>0. /\ main[p] \in Main /\ main[p].pc = "drain" /\ holder' = holder /\ task' = task
      /\ Good(p) /\ \A t \in Tasks : task[p][t] \in Task
      /\ u \in main[p].pending /\ task[p][u].pc = "ended"
  BY Resources DEF IInv, DrainResult, At, Results
<1>1. errs \subseteq Errors /\ ResultError(p, u) \subseteq errs /\ main[p].errs \subseteq errs
  BY <1>0, ResultKept DEF Main
<1>2. main' = [main EXCEPT ![p] = m]
  BY DEF DrainResult, IInv, TypeOK
<1> HIDE DEF errs
<1>3. /\ m \in Main
      /\ m.pc = "drain" /\ m.open = main[p].open /\ m.pending = main[p].pending \ {u}
      /\ m.errs = errs /\ m.status = main[p].status
  BY <1>0, <1>1 DEF Main
<1> HIDE DEF m
<1>4. main'[p] = m
  BY <1>2, <1>3 DEF IInv, TypeOK
<1>5. Locks(p)'
  BY <1>0, <1>3, <1>4 DEF Good, Locks, HasDatabase, HasBot
<1>6. Ledger(p)'
  BY <1>0, <1>1, <1>3, <1>4, ResultKept DEF Good, Ledger
<1>7. Verdict(p)'
  BY <1>0, <1>3, <1>4 DEF Good, Verdict, Running
<1> QED
  BY <1>0, <1>2, <1>3, <1>5, <1>6, <1>7, MainOnly DEF Good

LEMMA GraceEndsGood ==
  ASSUME IInv, NEW p \in Processes, GraceEnds(p), UNCHANGED config
  PROVE  Fine(p)
<1> DEFINE errs == main[p].errs \cup (IF main[p].pending \cap Workers = {} THEN {}
                                      ELSE {"workerShutdownStuck"})
                                \cup (IF Reporter \in main[p].pending
                                      THEN {"infrastructureShutdownStuck"} ELSE {})
           m == [main[p] EXCEPT !.pc = "return", !.errs = errs]
<1>0. /\ main[p] \in Main /\ main[p].pc = "drain" /\ holder' = holder /\ task' = task
      /\ Good(p) /\ \A t \in Tasks : task[p][t] \in Task
  BY Resources DEF IInv, GraceEnds, At
<1>1. errs \subseteq Errors /\ main[p].errs \subseteq errs /\ errs \cap Stuck # {}
  <2>1. main[p].pending # {} /\ main[p].pending \subseteq Workers \cup {Reporter}
    BY <1>0 DEF GraceEnds, Main, Tasks
  <2> QED
    BY <1>0, <2>1 DEF Main, Errors, Stuck
<1>2. main' = [main EXCEPT ![p] = m]
  BY DEF GraceEnds, IInv, TypeOK
<1> HIDE DEF errs
<1>3. /\ m \in Main
      /\ m.pc = "return" /\ m.open = main[p].open /\ m.pending = main[p].pending
      /\ m.errs = errs /\ m.status = main[p].status
  BY <1>0, <1>1 DEF Main
<1> HIDE DEF m
<1>4. main'[p] = m
  BY <1>2, <1>3 DEF IInv, TypeOK
<1>5. Locks(p)'
  BY <1>0, <1>3, <1>4 DEF Good, Locks, HasDatabase, HasBot
<1>6. Ledger(p)'
  BY <1>0, <1>1, <1>3, <1>4 DEF Good, Ledger
<1>7. Verdict(p)'
  BY <1>0, <1>1, <1>3, <1>4 DEF Good, Verdict, Running
<1> QED
  BY <1>0, <1>2, <1>3, <1>5, <1>6, <1>7, MainOnly DEF Good

-----------------------------------------------------------------------------
(* main.                                                                    *)

LEMMA ExitCodes ==
  ASSUME NEW errs, NEW signalled \in BOOLEAN
  PROVE  LET status == ServiceExitCode(errs, signalled)
         IN  /\ status \in {0, 1, 70}
             /\ status # 70 => errs \cap Stuck = {}
             /\ status = 0 => errs \cap Stopped = {}
  BY DEF ServiceExitCode, Stuck, Stopped

LEMMA ReturnGood ==
  ASSUME IInv, NEW p \in Processes, Return(p), UNCHANGED config
  PROVE  Fine(p)
<1> DEFINE code == ServiceExitCode(main[p].errs, main[p].signalled)
           m == [main[p] EXCEPT !.status = code, !.pc = IF code = 0 THEN "close" ELSE "exit"]
<1>0. /\ main[p] \in Main /\ main[p].pc = "return" /\ holder' = holder /\ task' = task
      /\ Good(p) /\ \A t \in Tasks : task[p][t] \in Task
  BY Resources DEF IInv, Return, At
<1>1. /\ code \in {0, 1, 70}
      /\ code # 70 => main[p].errs \cap Stuck = {}
      /\ code = 0 => main[p].errs \cap Stopped = {}
  BY <1>0, ExitCodes DEF Main
<1>2. main' = [main EXCEPT ![p] = m]
  BY DEF Return, IInv, TypeOK
<1> HIDE DEF code
<1>3. /\ m \in Main
      /\ m.pc = (IF code = 0 THEN "close" ELSE "exit")
      /\ m.open = main[p].open /\ m.pending = main[p].pending
      /\ m.errs = main[p].errs /\ m.status = code
  BY <1>0, <1>1 DEF Main
<1> HIDE DEF m
<1>4. main'[p] = m
  BY <1>2, <1>3 DEF IInv, TypeOK
<1>5. Locks(p)'
  BY <1>0, <1>3, <1>4 DEF Good, Locks, HasDatabase, HasBot
<1>6. Ledger(p)'
  BY <1>0, <1>3, <1>4 DEF Good, Ledger
<1>7. Verdict(p)'
  BY <1>0, <1>1, <1>3, <1>4 DEF Good, Verdict, Running
<1> QED
  BY <1>0, <1>2, <1>3, <1>5, <1>6, <1>7, MainOnly DEF Good

\* A process that closes has no task left.
LEMMA NothingRuns ==
  ASSUME IInv, NEW p \in Processes, main[p].pc \in {"unlockBot", "unlockDatabase"}
  PROVE  ~main[p].open /\ \A t \in Tasks : task[p][t].pc # "running"
<1>1. Good(p)
  BY DEF IInv
<1>2. main[p].pending = {}
  BY <1>1 DEF Good, Verdict
<1> QED
  BY <1>1, <1>2 DEF Good, Locks, Ledger

LEMMA UnlockBotGood ==
  ASSUME IInv, NEW p \in Processes, UnlockBot(p), UNCHANGED config
  PROVE  Fine(p)
<1> DEFINE m == [main[p] EXCEPT !.pc = "unlockDatabase"]
<1>0. /\ main[p] \in Main /\ main[p].pc = "unlockBot" /\ task' = task
      /\ holder' = [holder EXCEPT ![config[p].bot] = NoProcess]
      /\ Good(p) /\ \A t \in Tasks : task[p][t] \in Task
  BY Resources DEF IInv, UnlockBot, At
<1>1. main' = [main EXCEPT ![p] = m]
  BY DEF UnlockBot, Goto, IInv, TypeOK
<1>2. /\ m \in Main
      /\ m.pc = "unlockDatabase" /\ m.open = main[p].open /\ m.pending = main[p].pending
      /\ m.errs = main[p].errs /\ m.status = main[p].status
  BY <1>0 DEF Main
<1> HIDE DEF m
<1>3. main'[p] = m
  BY <1>1, <1>2 DEF IInv, TypeOK
<1>4. HasDatabase(p)'
  BY <1>0, Resources DEF IInv, TypeOK, Good, Locks, HasDatabase
<1>5. Locks(p)'
  BY <1>0, <1>2, <1>3, <1>4, NothingRuns DEF Locks
<1>6. Ledger(p)'
  BY <1>0, <1>2, <1>3 DEF Good, Ledger
<1>7. Verdict(p)'
  BY <1>0, <1>2, <1>3 DEF Good, Verdict, Running
<1> QED
  BY <1>0, <1>1, <1>2, <1>5, <1>6, <1>7, MainOnly DEF Good

LEMMA UnlockDatabaseGood ==
  ASSUME IInv, NEW p \in Processes, UnlockDatabase(p), UNCHANGED config
  PROVE  Fine(p)
<1> DEFINE m == [main[p] EXCEPT !.pc = "exit", !.status = 0]
<1>0. /\ main[p] \in Main /\ main[p].pc = "unlockDatabase" /\ task' = task /\ Leave(p, 0)
      /\ Good(p) /\ \A t \in Tasks : task[p][t] \in Task
  BY Resources DEF IInv, UnlockDatabase, At
<1>1. main' = [main EXCEPT ![p] = m]
  <2>1. main \in [Processes -> Main] /\ Leave(p, 0)
    BY <1>0 DEF IInv, TypeOK
  <2> QED
    BY <2>1, Zenon DEF Leave
<1>2. /\ m \in Main
      /\ m.pc = "exit" /\ m.open = main[p].open /\ m.pending = main[p].pending
      /\ m.errs = main[p].errs /\ m.status = 0
  BY <1>0 DEF Main
<1> HIDE DEF m
<1>3. main'[p] = m
  BY <1>1, <1>2 DEF IInv, TypeOK
<1>4. Locks(p)'
  BY <1>0, <1>2, <1>3, NothingRuns DEF Locks
<1>5. Ledger(p)'
  BY <1>0, <1>2, <1>3 DEF Good, Ledger
<1>6. Verdict(p)'
  BY <1>0, <1>2, <1>3 DEF Good, Verdict, Running
<1> QED
  BY <1>0, <1>1, <1>2, <1>4, <1>5, <1>6, MainOnly DEF Good

LEMMA VanishGood ==
  ASSUME IInv, NEW p \in Processes, Vanish(p), UNCHANGED config
  PROVE  Fine(p)
<1>1. /\ NotRunning("gone") \in Main
      /\ [t \in Tasks |-> Unborn] \in [Tasks -> Task]
  BY DEF NotRunning, Main, Unborn, Task
<1>2. /\ main' \in [Processes -> Main] /\ main'[p] = NotRunning("gone")
      /\ task' \in [Processes -> [Tasks -> Task]] /\ task'[p] = [t \in Tasks |-> Unborn]
      /\ \A q \in Processes \ {p} : main'[q] = main[q] /\ task'[q] = task[q]
  BY <1>1 DEF Vanish, IInv, TypeOK
<1>3. \A t \in Tasks : task'[p][t] = Unborn
  BY <1>2
<1>4. Good(p)'
  BY <1>2, <1>3 DEF Good, Locks, Ledger, Verdict, NotRunning, Unborn, Running
<1> QED
  BY <1>2, <1>4 DEF Fine

LEMMA StepFine ==
  ASSUME IInv, NEW p \in Processes, Acts(p), UNCHANGED config
  PROVE  Fine(p)
  BY LaunchGood, SignalGood, LockDatabaseGood, LockBotGood, OpenGood, StartupGood, StartReporterGood,
     TaskEndsGood, SelectSignalGood, SelectResultGood, DrainResultGood, DrainedGood, GraceEndsGood,
     ReturnGood, CloseGood, UnlockBotGood, UnlockDatabaseGood, VanishGood
     DEF Acts, MainStep, Exit, Crash

-----------------------------------------------------------------------------
(* The theorems.                                                            *)

LEMMA InitInv == Init => IInv
<1> SUFFICES ASSUME Init PROVE IInv
  OBVIOUS
<1>1. NotRunning("down") \in Main /\ Unborn \in Task
  BY DEF NotRunning, Main, Unborn, Task
<1>2. TypeOK
  BY <1>1 DEF Init, TypeOK
<1>3. ASSUME NEW p \in Processes PROVE Good(p)
  BY DEF Init, Good, Locks, Ledger, Verdict, NotRunning, Unborn, Running
<1> QED
  BY <1>2, <1>3 DEF IInv

LEMMA InvStep == IInv /\ [Next]_vars => IInv'
<1> SUFFICES ASSUME IInv, [Next]_vars PROVE IInv'
  OBVIOUS
<1>1. CASE UNCHANGED vars
  BY <1>1 DEF vars, IInv, TypeOK, Good, Locks, Ledger, Verdict, HasDatabase, HasBot
<1>2. ASSUME NEW p \in Processes, Acts(p), UNCHANGED config
      PROVE  IInv'
  <2>1. Fine(p)
    BY <1>2, StepFine
  <2>2. OthersStay(p)
    BY <1>2, <2>1, HolderFrame DEF OthersStay, Fine
  <2> QED
    BY <1>2, <2>1, <2>2, HolderFrame, StepGood DEF Fine
<1> QED
  BY <1>1, <1>2 DEF Next, Acts

\* The inductive invariant is an invariant: the locks, the ledger of the
\* tasks and the verdict go together in every reachable state.
THEOREM InvHolds == Spec => []IInv
  BY InitInv, InvStep, PTL DEF Spec

\* A process has its database open, or a worker running, only while it
\* holds the lock of its database and that of its bot (singleton, app.New).
THEOREM LocksHeld == Spec => []LocksCoverUse
<1>1. IInv => LocksCoverUse
  BY DEF IInv, Good, Locks, LocksCoverUse, HasDatabase, HasBot
<1> QED
  BY <1>1, InvHolds, PTL

\* What the locks are for: no two processes ever have one database open, or
\* run workers for one bot, at the same time.
InUse(p) == main[p].open \/ \E t \in Tasks : task[p][t].pc = "running"
Alone ==
  \A p, q \in Processes :
    p # q /\ InUse(p) /\ InUse(q) =>
      config[p].database # config[q].database /\ config[p].bot # config[q].bot

THEOREM OneUserAtATime == Spec => []Alone
<1>1. LocksCoverUse => Alone
  BY DEF LocksCoverUse, Alone, InUse
<1> QED
  BY <1>1, LocksHeld, PTL

\* The exit status that the supervisor reads is true (serviceExitCode): 0
\* says that every worker ended for the signal, 0 and 1 that no handler is
\* stuck, and a process that exits over a running task says 70.
THEOREM StatusHonest == Spec => []StatusTellsTruth
<1>1. ASSUME IInv, NEW p \in Processes, NEW t \in Tasks
      PROVE  /\ main[p].status = 0 => task[p][t].pc # "running" /\ task[p][t].err \in {"none", "context"}
             /\ main[p].status \in {0, 1} => task[p][t].err # "handlerStuck"
             /\ At(p, "exit") /\ task[p][t].pc = "running" => main[p].status = 70
  <2>1. Good(p) /\ main[p] \in Main /\ task[p][t] \in Task
    BY <1>1, Resources DEF IInv
  <2>2. CASE main[p].status \in {0, 1}
    <3>1. main[p].errs \cap Stuck = {} /\ main[p].pending = {}
      BY <2>1, <2>2 DEF Good, Verdict, Running
    <3>2. task[p][t].pc # "running" /\ task[p][t].err # "handlerStuck"
      BY <2>1, <3>1 DEF Good, Ledger, Stuck, Task
    <3>3. main[p].status = 0 => task[p][t].err # "failure"
      BY <2>1, <3>1 DEF Good, Ledger, Verdict, Task
    <3> QED
      BY <2>1, <3>2, <3>3 DEF Task
  <2>3. CASE main[p].status \notin {0, 1}
    <3>1. ASSUME At(p, "exit"), task[p][t].pc = "running"
          PROVE  main[p].status = 70
      <4>1. main[p].errs \cap Stuck # {}
        BY <2>1, <3>1 DEF Good, Ledger, Verdict, At
      <4> QED
        BY <2>1, <2>3, <3>1, <4>1 DEF Good, Verdict, At, Main
    <3> QED
      BY <2>3, <3>1
  <2> QED
    BY <2>2, <2>3
<1>2. ASSUME IInv, NEW p \in Processes
      PROVE  /\ main[p].status = 0 =>
                  \A t \in Tasks : task[p][t].pc # "running" /\ task[p][t].err \in {"none", "context"}
             /\ main[p].status \in {0, 1} => task[p][Telegram].err # "handlerStuck"
             /\ At(p, "exit") /\ (\E t \in Tasks : task[p][t].pc = "running") => main[p].status = 70
  <2>1. Telegram \in Tasks
    BY WorkersAssumption DEF Tasks
  <2>2. ASSUME main[p].status = 0, NEW t \in Tasks
        PROVE  task[p][t].pc # "running" /\ task[p][t].err \in {"none", "context"}
    BY <1>1, <1>2, <2>2
  <2>3. ASSUME main[p].status \in {0, 1}
        PROVE  task[p][Telegram].err # "handlerStuck"
    BY <1>1, <1>2, <2>1, <2>3
  <2>4. ASSUME At(p, "exit"), NEW t \in Tasks, task[p][t].pc = "running"
        PROVE  main[p].status = 70
    BY <1>1, <1>2, <2>4
  <2> QED
    BY <2>2, <2>3, <2>4
<1>3. IInv => StatusTellsTruth
  BY <1>2 DEF StatusTellsTruth
<1> QED
  BY <1>3, InvHolds, PTL
=============================================================================
