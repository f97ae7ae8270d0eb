--------------------------- MODULE TelegramPoller ---------------------------
(***************************************************************************)
(* The polling worker of internal/telegram (Service.Run) over the update   *)
(* journal, across process generations: the supervisor starts one process  *)
(* after another, each with a fresh owner token, and a process may crash,  *)
(* be told to stop, or be left with a handler that will not end.           *)
(*                                                                         *)
(* Every journal call may succeed, be refused, or commit and still report  *)
(* an error (Unheard).  Telegram's side of getUpdates is modelled from how *)
(* the poller uses it: polling with an offset forgets every lower update,  *)
(* even when the answer is lost on the way.                                *)
(***************************************************************************)
EXTENDS UpdateJournal

CONSTANT CanExpire  \* whether Telegram may give up on an update

ASSUME ExpiryAssumption == CanExpire \in BOOLEAN
\* Readings starts from 1 and moves on by one with every lost owner.
ASSUME ReadingsAssumption == 1..(MaxFailures + 1) \subseteq Times

VARIABLES
  server,    \* Telegram's view of each update
  lock,      \* the process that holds the singleton locks
  proc,      \* the polling worker of each process generation
  outcome,   \* history: how the journal first settled each update
  tainted    \* history: processes in which a handler panicked or hung

vars == <<journal, server, lock, proc, outcome, tainted>>

NoUpdate == -1

(* cur is the fetched update, err what handleUpdateBounded returned, live  *)
(* whether the handler goroutine is executing, stop whether the worker's   *)
(* context is cancelled.                                                   *)
Proc == [pc : {"down", "load", "poll", "confirm", "begin", "handle",
               "complete", "failing", "abort", "returned", "closed"},
         offset : Nat, cur : Updates \cup {NoUpdate},
         err : {"none", "error", "panic", "stuck", "cancelled"},
         live : BOOLEAN, stop : BOOLEAN]

Down == [pc |-> "down", offset |-> 0, cur |-> NoUpdate, err |-> "none",
         live |-> FALSE, stop |-> FALSE]

At(o, pc)   == proc[o].pc = pc
Goto(o, pc) == proc' = [proc EXCEPT ![o].pc = pc]
Return(o, err) == proc' = [proc EXCEPT ![o].pc = "returned", ![o].err = err]

(* journalOperationError: under a cancelled context that is the error.     *)
JournalError(o) == IF proc[o].stop THEN "cancelled" ELSE "error"

(* updateConfig.Offset = nextOffset; with Limit 1 the candidate loop ends. *)
PollPast(o) ==
  proc' = [proc EXCEPT ![o].pc = "poll", ![o].offset = proc[o].cur + 1,
                       ![o].cur = NoUpdate, ![o].err = "none"]

(* The journal compares a reading of the clock with the lease of the same  *)
(* row only, so these readings stand for all of them: any one when there   *)
(* is no lease, and one on each side of it when there is.                  *)
Readings(u) ==
  IF rows[u].status \in Active THEN {rows[u].lease - 1, rows[u].lease} ELSE {1}
Later(now) == now + 1

Fate(row) ==
  CASE row.status = "done" -> "done"
    [] row.status = "dead" /\ row.failures >= MaxFailures -> "poisoned"
    [] row.status = "dead" /\ row.failures < MaxFailures -> "abandoned"
    [] OTHER -> "none"

(* A journal transaction, with the history of first outcomes.              *)
Committed(A) ==
  /\ A
  /\ outcome' = [u \in Updates |->
                   IF outcome[u] = "none" THEN Fate(rows'[u]) ELSE outcome[u]]
  /\ UNCHANGED <<server, lock>>

Init ==
  /\ JournalInit
  /\ server = [u \in Updates |-> "unsent"]
  /\ lock = NoOwner
  /\ proc = [o \in Owners |-> Down]
  /\ outcome = [u \in Updates |-> "none"]
  /\ tainted = {}

-----------------------------------------------------------------------------
(* Telegram.                                                               *)

Send(u) ==
  /\ \A v \in Updates : v >= u => server[v] = "unsent"
  /\ server' = [server EXCEPT ![u] = "queued"]
  /\ UNCHANGED <<journal, lock, proc, outcome, tainted>>

Queued(s, n) == {u \in Updates : s[u] = "queued" /\ u >= n}
Oldest(S)    == CHOOSE u \in S : \A v \in S : u <= v

(* Telegram keeps an update for a day.                                     *)
Expire ==
  /\ CanExpire
  /\ Queued(server, 0) # {}
  /\ server' = [server EXCEPT ![Oldest(Queued(server, 0))] = "expired"]
  /\ UNCHANGED <<journal, lock, proc, outcome, tainted>>

Forget(n) ==
  server' = [u \in Updates |->
               IF server[u] = "queued" /\ u < n THEN "confirmed" ELSE server[u]]

-----------------------------------------------------------------------------
(* Processes.  A token no row mentions is as good as a fresh random one.   *)

Start(o) ==
  /\ lock = NoOwner
  /\ At(o, "down")
  /\ \A u \in Updates : rows[u].owner # o
  /\ lock' = o
  /\ Goto(o, "load")
  /\ UNCHANGED <<journal, server, outcome, tainted>>

(* SIGTERM, or another required worker of the process has stopped.         *)
StopRequested(o) ==
  /\ proc[o].pc \notin {"down", "returned", "closed"}
  /\ ~proc[o].stop
  /\ proc' = [proc EXCEPT ![o].stop = TRUE]
  /\ UNCHANGED <<journal, server, lock, outcome, tainted>>

(* Service.Close, which releases the locks, runs only for exit status 0:   *)
(* every other exit leaves them to the kernel.                             *)
Close(o) ==
  /\ At(o, "returned")
  /\ proc[o].stop /\ proc[o].err = "cancelled"
  /\ lock' = NoOwner
  /\ Goto(o, "closed")
  /\ UNCHANGED <<journal, server, outcome, tainted>>

Gone(o) ==
  /\ proc' = [proc EXCEPT ![o] = Down]
  /\ lock' = IF lock = o THEN NoOwner ELSE lock
  /\ tainted' = tainted \ {o}
  /\ UNCHANGED <<journal, server, outcome>>

Exit(o)  == proc[o].pc \in {"returned", "closed"} /\ Gone(o)
Crash(o) == proc[o].pc \notin {"down", "returned", "closed"} /\ Gone(o)

-----------------------------------------------------------------------------
(* Run: loading, polling, confirming.                                      *)

Load(o) ==
  /\ At(o, "load")
  /\ proc' = [proc EXCEPT ![o].pc = "poll", ![o].offset = nextOffset]
  /\ UNCHANGED <<journal, server, lock, outcome, tainted>>

Fetch(o) ==
  /\ At(o, "poll")
  /\ Forget(proc[o].offset)
  /\ LET offered == Queued(server, proc[o].offset)
     IN  proc' = [proc EXCEPT
           ![o].pc  = "confirm",
           ![o].cur = IF offered = {} THEN NoUpdate ELSE Oldest(offered)]
  /\ UNCHANGED <<journal, lock, outcome, tainted>>

FetchLost(o) ==
  /\ At(o, "poll")
  /\ Forget(proc[o].offset)
  /\ UNCHANGED <<journal, lock, proc, outcome, tainted>>

Cancelled(o) ==
  /\ proc[o].stop
  /\ proc[o].pc \in {"load", "poll", "confirm", "begin"}
  /\ Return(o, "cancelled")
  /\ UNCHANGED <<journal, server, lock, outcome, tainted>>

CommitConfirm(o) ==
  \E now \in Times : Committed(ConfirmUpdateOffset(proc[o].offset, now))

Confirm(o) ==
  /\ At(o, "confirm")
  /\ CommitConfirm(o)
  /\ Goto(o, IF proc[o].cur = NoUpdate THEN "poll" ELSE "begin")
  /\ UNCHANGED tainted

-----------------------------------------------------------------------------
(* Run: one update.                                                        *)

CommitClaim(u, o) ==
  \E now \in Readings(u) :
    \/ Committed(BeginFresh(u, o, now, Later(now)))
    \/ Committed(BeginReclaim(u, o, now, Later(now)))

CommitSkip(u) ==
  \/ Committed(BeginTerminal(u))
  \/ \E now \in Readings(u) : Committed(BeginExhausted(u, now))

Claim(o) ==
  /\ At(o, "begin")
  /\ CommitClaim(proc[o].cur, o)
  /\ proc' = [proc EXCEPT ![o].pc = "handle", ![o].live = TRUE]
  /\ UNCHANGED tainted

Skip(o) ==
  /\ At(o, "begin")
  /\ CommitSkip(proc[o].cur)
  /\ PollPast(o)
  /\ UNCHANGED tainted

Busy(o) ==
  /\ At(o, "begin")
  /\ \E now \in Readings(proc[o].cur) : Committed(BeginBusy(proc[o].cur, now))
  /\ Return(o, "error")
  /\ UNCHANGED tainted

(* handleUpdateBounded.  A result that arrives under a cancelled context   *)
(* is discarded.                                                           *)
HandlerReturns(o) ==
  /\ At(o, "handle")
  /\ \/ /\ proc[o].stop
        /\ proc' = [proc EXCEPT ![o].pc = "abort", ![o].err = "cancelled", ![o].live = FALSE]
        /\ UNCHANGED tainted
     \/ /\ ~proc[o].stop
        /\ proc' = [proc EXCEPT ![o].pc = "complete", ![o].live = FALSE]
        /\ UNCHANGED tainted
     \/ \E err \in {"error", "panic"} :
          /\ ~proc[o].stop
          /\ proc' = [proc EXCEPT ![o].pc = "failing", ![o].err = err, ![o].live = FALSE]
          /\ tainted' = IF err = "panic" THEN tainted \cup {o} ELSE tainted
  /\ UNCHANGED <<journal, server, lock, outcome>>

(* Neither the deadline nor the cancellation ended the handler in time.    *)
HandlerHangs(o) ==
  /\ At(o, "handle")
  /\ proc' = [proc EXCEPT ![o].pc = "failing", ![o].err = "stuck"]
  /\ tainted' = tainted \cup {o}
  /\ UNCHANGED <<journal, server, lock, outcome>>

HandlerEndsLate(o) ==
  /\ proc[o].live /\ proc[o].err = "stuck"
  /\ proc' = [proc EXCEPT ![o].live = FALSE]
  /\ UNCHANGED <<journal, server, lock, outcome, tainted>>

\* Mutant: the offset is left to a transaction of its own.
CommitCompleteRow(u, o) ==
  Committed(/\ Owns(u, o)
            /\ SetRow(u, TerminalRow("done", rows[u].failures, 1))
            /\ UNCHANGED <<nextOffset, confirmedOffset>>)
CommitComplete(u, o) == Committed(CompleteUpdateAttempt(u, o, 1))

Complete(o) ==
  /\ At(o, "complete")
  /\ CommitComplete(proc[o].cur, o)
  /\ PollPast(o)
  /\ UNCHANGED tainted

(* The claim is given back if it is still held: after a commit that only   *)
(* looked like a failure it is not, and the journal's guard refuses.       *)
CommitAbort(u, o) == Committed(AbortUpdateAttempt(u, o))

Abort(o) ==
  /\ At(o, "abort")
  /\ \/ CommitAbort(proc[o].cur, o) /\ Goto(o, "returned")
     \/ /\ ~Owns(proc[o].cur, o)
        /\ Return(o, "error")
        /\ UNCHANGED <<journal, server, lock, outcome>>
  /\ UNCHANGED tainted

\* The context was cancelled after the handler had failed.
CancelledFailure(o) ==
  /\ At(o, "failing")
  /\ proc[o].stop /\ proc[o].err # "stuck"
  /\ Goto(o, "abort")
  /\ UNCHANGED <<journal, server, lock, outcome, tainted>>

Hold(o) == IF proc[o].err = "stuck" THEN Later(1) ELSE NoTime

CommitDead(u, o) == Committed(FailDead(u, o, 1))
CommitFailed(u, o) == Committed(FailLive(u, o, 1, Hold(o)))

\* Mutant: a quarantined panic is polled past in the same process.
PolledPastPanic(o) == proc[o].err # "stuck"
\* Only an ordinary failure leaves the process fit to go on.
PolledPast(o) == proc[o].err = "error"

FailsDead(o) ==
  /\ At(o, "failing")
  /\ CommitDead(proc[o].cur, o)
  /\ IF PolledPast(o) THEN PollPast(o) ELSE Goto(o, "returned")
  /\ UNCHANGED tainted

\* Mutant: the poller goes on to the next update after a retryable failure.
FailsOnward(o) ==
  /\ At(o, "failing")
  /\ CommitFailed(proc[o].cur, o)
  /\ IF PolledPast(o) THEN PollPast(o) ELSE Goto(o, "returned")
  /\ UNCHANGED tainted
Fails(o) ==
  /\ At(o, "failing")
  /\ CommitFailed(proc[o].cur, o)
  /\ Goto(o, "returned")
  /\ UNCHANGED tainted

-----------------------------------------------------------------------------
(* Journal calls that go wrong, with and without having committed.         *)

\* Mutant: a completion that could not be recorded is taken for recorded.
CompleteAssumed(o) == PollPast(o)
CompleteErred(o) == proc' = [proc EXCEPT ![o].pc = "abort", ![o].err = "error"]

Refused(o) ==
  /\ \/ proc[o].pc \in {"load", "confirm", "begin"} /\ Return(o, JournalError(o))
     \/ At(o, "failing") /\ Goto(o, "returned")
     \/ At(o, "abort") /\ Return(o, "error")
     \/ At(o, "complete") /\ CompleteErred(o)
  /\ UNCHANGED <<journal, server, lock, outcome, tainted>>

Unheard(o) ==
  LET u == proc[o].cur
  IN  /\ \/ At(o, "confirm")  /\ CommitConfirm(o)     /\ Return(o, JournalError(o))
         \/ At(o, "begin")    /\ CommitClaim(u, o)    /\ Return(o, JournalError(o))
         \/ At(o, "begin")    /\ CommitSkip(u)        /\ Return(o, JournalError(o))
         \/ At(o, "complete") /\ CommitComplete(u, o) /\ CompleteErred(o)
         \/ At(o, "abort")    /\ CommitAbort(u, o)    /\ Return(o, "error")
         \/ At(o, "failing")  /\ CommitDead(u, o)     /\ Goto(o, "returned")
         \/ At(o, "failing")  /\ CommitFailed(u, o)   /\ Goto(o, "returned")
      /\ UNCHANGED tainted

(* The maintenance worker of a running process.                            *)
Maintain ==
  /\ \E o \in Owners : proc[o].pc \notin {"down", "closed"}
  /\ \E now \in Times : Committed(PruneTelegramUpdateJournal(now))
  /\ UNCHANGED <<proc, tainted>>

-----------------------------------------------------------------------------
Step(o) ==
  \/ Load(o) \/ Fetch(o) \/ Cancelled(o) \/ Confirm(o)
  \/ Claim(o) \/ Skip(o) \/ Busy(o)
  \/ HandlerReturns(o) \/ HandlerHangs(o)
  \/ Complete(o) \/ Abort(o) \/ CancelledFailure(o) \/ FailsDead(o) \/ Fails(o)
  \/ Close(o) \/ Exit(o)

Calm ==
  \/ \E u \in Updates : Send(u)
  \/ Expire
  \/ \E o \in Owners : Start(o) \/ Step(o) \/ HandlerEndsLate(o)
  \/ Maintain

Fault(o) == Crash(o) \/ StopRequested(o) \/ FetchLost(o) \/ Refused(o) \/ Unheard(o)

Next == Calm \/ \E o \in Owners : Fault(o)

Spec == Init /\ [][Next]_vars

(***************************************************************************)
(* The supervisor restarts the process, a process with work to do does it, *)
(* a handler returns or is declared stuck, and the clock passes every      *)
(* lease, so that a claim is not found busy for ever.                      *)
(***************************************************************************)
Fairness ==
  /\ WF_vars(\E o \in Owners : Start(o))
  /\ WF_vars(\E o \in Owners : Step(o))
  /\ SF_vars(\E o \in Owners : Claim(o) \/ Skip(o))

FairSpec == Spec /\ Fairness

-----------------------------------------------------------------------------
TypeOK ==
  /\ JournalTypeOK
  /\ server \in [Updates -> {"unsent", "queued", "confirmed", "expired"}]
  /\ lock \in Owners \cup {NoOwner}
  /\ proc \in [Owners -> Proc]
  /\ outcome \in [Updates -> {"none", "done", "poisoned", "abandoned"}]
  /\ tainted \subseteq Owners

(* Telegram forgets an update only after its handler has completed, or has *)
(* used up its failures: never one that a crash, a lost commit or a        *)
(* shutdown interrupted.                                                   *)
NothingLost ==
  \A u \in Updates : server[u] = "confirmed" => outcome[u] \in {"done", "poisoned"}

(* The offset in a poller's memory never runs ahead of the durable one, so *)
(* what it tells Telegram survives a crash and ConfirmUpdateOffset accepts *)
(* it; and it never falls behind what Telegram has confirmed.              *)
OffsetDurable ==
  /\ TypeOK
  /\ \A o \in Owners :
       proc[o].pc \notin {"down", "load", "returned", "closed"} =>
         confirmedOffset <= proc[o].offset /\ proc[o].offset <= nextOffset

(* While a worker executes a handler or has a result still to record, the  *)
(* journal row is running and its own, whatever maintenance does meanwhile.*)
ClaimHeld ==
  \A o \in Owners :
    proc[o].pc \in {"handle", "complete", "failing"} =>
      Owns(proc[o].cur, o) /\ outcome[proc[o].cur] = "none"

(* After a panic or a hang the process never polls or executes again.      *)
TaintedProcessesStop ==
  \A o \in tainted : proc[o].pc \in {"failing", "abort", "returned", "closed"}

(* Journal: every step of the poller is one journal transaction, or none.  *)
ImplementsJournal == JournalSpec

(* Updates are settled once, handled one at a time, and in order.          *)
Delivery == INSTANCE UpdateDelivery WITH
  fate     <- [u \in Updates |->
                 CASE outcome[u] = "done" -> "done"
                   [] outcome[u] = "poisoned" -> "dead"
                   [] outcome[u] = "abandoned" -> "dropped"
                   [] outcome[u] = "none" /\ server[u] = "unsent" -> "unsent"
                   [] outcome[u] = "none" /\ server[u] = "expired" -> "dropped"
                   [] OTHER -> "waiting"],
  handling <- {proc[o].cur : o \in {p \in Owners : proc[p].live}}
ImplementsDelivery == Delivery!Spec

(* ARCHITECTURE.md says that a failed terminal write releases a claim that *)
(* is still owned, so that a replacement can replay at once: a worker      *)
(* whose dead-letter write failed does not return on top of its claim.     *)
FailedTerminalWriteReleases ==
  [][\A o \in Owners :
       /\ At(o, "failing") /\ proc[o].err # "stuck"
       /\ rows[proc[o].cur].failures + 1 >= MaxFailures
       /\ proc'[o].pc = "returned"
       => rows'[proc[o].cur].owner # o]_vars

(* Once faults stop, every update Telegram holds is settled, or Telegram   *)
(* itself gives up on it: a poisoned update, a stuck handler or a claim of *)
(* a dead process blocks the queue only for a while.                       *)
CalmSettles ==
  (<>[][Calm]_vars) =>
    \A u \in Updates :
      server[u] = "queued" ~> server[u] = "expired" \/ outcome[u] # "none"
=============================================================================
