------------------------------ MODULE AsyncLog ------------------------------
(***************************************************************************)
(* The nonblocking log handler of internal/asynclog: application           *)
(* goroutines enqueue records without ever waiting for the sink, one       *)
(* writer goroutine hands them to the sink, and main flushes with a        *)
(* timeout before the process exits.  Steps are the atomic operations of   *)
(* the code: lifecycleMu, the channels and the atomics.                    *)
(*                                                                         *)
(* Accepted records are numbered in the order in which they enter the      *)
(* queue.  Attribute and group resolution (sinkView) is left out.          *)
(***************************************************************************)
EXTENDS Integers, Sequences

CONSTANTS
  Callers,    \* goroutines that log
  Capacity,   \* QueueCapacity
  MaxCalls    \* bound on the calls of Handle

ASSUME CapacityAssumption == Capacity \in Nat \ {0}
ASSUME CallsAssumption == MaxCalls \in Nat

VARIABLES
  queue,         \* the buffered channel
  state,         \* core.state
  aborted,       \* the abort channel is closed
  mutex,         \* lifecycleMu is held
  depth, highWater, totalDrops, pendingDrops,
  caller,        \* where each caller is in Handle
  writer,        \* where the writer is, its record, and what drives it
  flush,         \* main's flushLogs
  calls,         \* calls of Handle so far
  accepted,      \* history: records that entered the queue
  sunk,          \* history: records handed to the sink, in order
  reported,      \* history: drops reported to a sink that accepted them
  late           \* history: records handed to the sink after the abort

counters == <<depth, highWater, totalDrops, pendingDrops>>
history  == <<calls, accepted, sunk, reported, late>>
vars == <<queue, state, aborted, mutex, counters, caller, writer, flush, history>>

NoRecord == 0

Init ==
  /\ queue = <<>>
  /\ state = "open"
  /\ aborted = FALSE
  /\ mutex = FALSE
  /\ depth = 0 /\ highWater = 0 /\ totalDrops = 0 /\ pendingDrops = 0
  /\ caller = [c \in Callers |-> "idle"]
  /\ writer = [pc |-> "poll", mode |-> "run", item |-> NoRecord, pending |-> 0]
  /\ flush = "idle"
  /\ calls = 0 /\ accepted = 0 /\ sunk = <<>> /\ reported = 0 /\ late = 0

Caller(c, pc) == caller' = [caller EXCEPT ![c] = pc]
Writer(pc)    == writer' = [writer EXCEPT !.pc = pc]

-----------------------------------------------------------------------------
(* Handle.                                                                 *)

Call(c) ==
  /\ caller[c] = "idle" /\ calls < MaxCalls
  /\ calls' = calls + 1
  /\ Caller(c, "calling")
  /\ UNCHANGED <<queue, state, aborted, mutex, counters, writer, flush,
                 accepted, sunk, reported, late>>

RecordDrop ==
  /\ totalDrops' = totalDrops + 1
  /\ pendingDrops' = pendingDrops + 1
  /\ UNCHANGED <<depth, highWater>>

HandleClosed(c) ==
  /\ caller[c] = "calling" /\ ~mutex
  /\ state # "open"
  /\ RecordDrop
  /\ Caller(c, "idle")
  /\ UNCHANGED <<queue, state, aborted, mutex, writer, flush, history>>

\* Mutant: the state is read before the lock is taken.
HandleOpenUnlocked(c) ==
  /\ caller[c] = "calling"
  /\ state = "open"
  /\ Caller(c, "enqueue")
  /\ UNCHANGED <<queue, state, aborted, mutex, counters, writer, flush, history>>
HandleOpen(c) ==
  /\ caller[c] = "calling" /\ ~mutex
  /\ state = "open"
  /\ mutex' = TRUE
  /\ Caller(c, "enqueue")
  /\ UNCHANGED <<queue, state, aborted, counters, writer, flush, history>>

Enqueue(c) ==
  /\ caller[c] = "enqueue"
  /\ Len(queue) < Capacity
  /\ accepted' = accepted + 1
  /\ queue' = Append(queue, accepted + 1)
  /\ Caller(c, "count")
  /\ UNCHANGED <<state, aborted, mutex, counters, writer, flush,
                 calls, sunk, reported, late>>

\* Mutant: a full queue makes the caller wait.
EnqueueWaits(c) == FALSE
EnqueueDrops(c) ==
  /\ caller[c] = "enqueue"
  /\ Len(queue) = Capacity
  /\ RecordDrop
  /\ mutex' = FALSE
  /\ Caller(c, "idle")
  /\ UNCHANGED <<queue, state, aborted, writer, flush, history>>

Count(c) ==
  /\ caller[c] = "count"
  /\ depth' = depth + 1
  /\ highWater' = IF depth + 1 > highWater THEN depth + 1 ELSE highWater
  /\ mutex' = FALSE
  /\ Caller(c, "idle")
  /\ UNCHANGED <<queue, state, aborted, totalDrops, pendingDrops, writer, flush, history>>

-----------------------------------------------------------------------------
(* The writer goroutine: run, drainQueue, discardQueued, emit.             *)

WriterOnly == UNCHANGED <<queue, state, aborted, mutex, counters, caller, flush, history>>

Poll ==
  /\ writer.pc = "poll"
  /\ Writer(IF aborted THEN "discard" ELSE "select")
  /\ WriterOnly

Receive(mode) ==
  /\ queue # <<>>
  /\ writer' = [writer EXCEPT !.pc = "received", !.item = Head(queue), !.mode = mode]
  /\ queue' = Tail(queue)
  /\ UNCHANGED <<state, aborted, mutex, counters, caller, flush, history>>

\* select: any ready case may be taken.
Select ==
  /\ writer.pc = "select"
  /\ \/ aborted /\ Writer("discard") /\ WriterOnly
     \/ Receive("run")
     \/ flush # "idle" /\ Writer("drain") /\ WriterOnly

AfterDequeue ==
  CASE writer.mode = "run"     -> "recheck"
    [] writer.mode = "drain"   -> "emit"
    [] writer.mode = "discard" -> "discard"

\* Mutant: depth is decremented without the lock.
RecordDequeueUnlocked ==
  /\ writer.pc = "received"
  /\ depth' = depth - 1
  /\ Writer(AfterDequeue)
  /\ UNCHANGED <<queue, state, aborted, mutex, highWater, totalDrops, pendingDrops,
                 caller, flush, history>>
RecordDequeue ==
  /\ writer.pc = "received" /\ ~mutex
  /\ depth' = depth - 1
  /\ Writer(AfterDequeue)
  /\ UNCHANGED <<queue, state, aborted, mutex, highWater, totalDrops, pendingDrops,
                 caller, flush, history>>

Recheck ==
  /\ writer.pc = "recheck"
  /\ Writer(IF state = "stopped" THEN "discard" ELSE "emit")
  /\ WriterOnly

Emit ==
  /\ writer.pc = "emit"
  /\ writer' = [writer EXCEPT !.pc = "sink", !.pending = pendingDrops]
  /\ sunk' = Append(sunk, writer.item)
  /\ late' = IF aborted THEN late + 1 ELSE late
  /\ UNCHANGED <<queue, state, aborted, mutex, counters, caller, flush,
                 calls, accepted, reported>>

NextRecord == [pc |-> IF writer.mode = "drain" THEN "drain" ELSE "poll",
               mode |-> "run", item |-> NoRecord, pending |-> 0]

SinkAccepts ==
  /\ writer.pc = "sink"
  /\ reported' = reported + writer.pending
  /\ writer' = IF writer.pending > 0 THEN [writer EXCEPT !.pc = "clear"] ELSE NextRecord
  /\ UNCHANGED <<queue, state, aborted, mutex, counters, caller, flush,
                 calls, accepted, sunk, late>>

\* Mutant: a record that the sink has refused is handed to it again.
SinkFailsRetries == writer.pc = "sink" /\ Writer("emit") /\ WriterOnly
\* An error or a panic of the sink: the drops stay pending.
SinkFails ==
  /\ writer.pc = "sink"
  /\ writer' = NextRecord
  /\ WriterOnly

\* Mutant: the pending drops are reset instead of reduced by those reported.
ClearAllDrops ==
  /\ writer.pc = "clear"
  /\ pendingDrops' = 0
  /\ writer' = NextRecord
  /\ UNCHANGED <<queue, state, aborted, mutex, depth, highWater, totalDrops,
                 caller, flush, history>>
ClearReportedDrops ==
  /\ writer.pc = "clear"
  /\ pendingDrops' = pendingDrops - writer.pending
  /\ writer' = NextRecord
  /\ UNCHANGED <<queue, state, aborted, mutex, depth, highWater, totalDrops,
                 caller, flush, history>>

Finish ==
  /\ state' = "stopped"
  /\ Writer("exited")
  /\ UNCHANGED <<queue, aborted, mutex, counters, caller, flush, history>>

\* Mutant: the drain looks at the abort channel only.
DrainUnchecked == writer.pc = "drain" /\ Writer("drainSelect") /\ WriterOnly
Drain ==
  /\ writer.pc = "drain"
  /\ Writer(IF state = "stopped" THEN "discard" ELSE "drainSelect")
  /\ WriterOnly

DrainSelect ==
  /\ writer.pc = "drainSelect"
  /\ \/ aborted /\ Writer("discard") /\ WriterOnly
     \/ Receive("drain")
     \/ ~aborted /\ queue = <<>> /\ Finish

Discard ==
  /\ writer.pc = "discard"
  /\ Receive("discard") \/ (queue = <<>> /\ Finish)

-----------------------------------------------------------------------------
(* flushLogs: Shutdown with a timeout, Abort when it runs out.             *)

FlushOnly == UNCHANGED <<queue, mutex, counters, caller, writer, history>>

BeginDrain ==
  /\ flush = "idle" /\ ~mutex
  /\ state' = "draining"
  /\ flush' = "waiting"
  /\ aborted' = aborted /\ FlushOnly

ShutdownReturns ==
  /\ flush = "waiting" /\ state = "stopped"
  /\ flush' = "flushed"
  /\ UNCHANGED <<state, aborted>> /\ FlushOnly

ShutdownTimesOut ==
  /\ flush = "waiting"
  /\ flush' = "expired"
  /\ UNCHANGED <<state, aborted>> /\ FlushOnly

\* Mutant: an expired flush waits for the writer instead of aborting it.
AbortWhenStopped ==
  /\ flush = "expired" /\ state = "stopped"
  /\ flush' = "cut"
  /\ UNCHANGED <<state, aborted>> /\ FlushOnly
Abort ==
  /\ flush = "expired" /\ ~mutex
  /\ aborted' = (aborted \/ state # "stopped")
  /\ state' = "stopped"
  /\ flush' = "cut"
  /\ FlushOnly

-----------------------------------------------------------------------------
Handle(c) ==
  HandleClosed(c) \/ HandleOpen(c) \/ Enqueue(c) \/ EnqueueDrops(c) \/ Count(c)

WriterStep ==
  \/ Poll \/ Select \/ RecordDequeue \/ Recheck \/ Emit \/ ClearReportedDrops
  \/ Drain \/ DrainSelect \/ Discard

SinkReturns == SinkAccepts \/ SinkFails

Flush == ShutdownReturns \/ ShutdownTimesOut \/ Abort

Next ==
  \/ \E c \in Callers : Call(c) \/ Handle(c)
  \/ WriterStep \/ SinkReturns
  \/ BeginDrain \/ Flush

Spec == Init /\ [][Next]_vars

(* A goroutine that can run does, and a Go mutex does not starve a waiter. *)
(* The sink may block for ever: it gets no fairness.                       *)
Fairness ==
  /\ \A c \in Callers : SF_vars(Handle(c))
  /\ SF_vars(WriterStep)
  /\ SF_vars(Flush)

FairSpec == Spec /\ Fairness

-----------------------------------------------------------------------------
WriterState ==
  [pc : {"poll", "select", "received", "recheck", "emit", "sink", "clear",
         "drain", "drainSelect", "discard", "exited"},
   mode : {"run", "drain", "discard"}, item : 0..MaxCalls, pending : Nat]

TypeOK ==
  /\ queue \in Seq(1..MaxCalls) /\ Len(queue) <= Capacity
  /\ state \in {"open", "draining", "stopped"}
  /\ aborted \in BOOLEAN /\ mutex \in BOOLEAN
  /\ depth \in Nat /\ highWater \in Nat /\ totalDrops \in Nat /\ pendingDrops \in Nat
  /\ reported \in Nat /\ late \in Nat
  /\ calls \in 0..MaxCalls /\ accepted \in 0..calls
  /\ caller \in [Callers -> {"idle", "calling", "enqueue", "count"}]
  /\ writer \in WriterState
  /\ flush \in {"idle", "waiting", "flushed", "expired", "cut"}
  /\ sunk \in Seq(1..MaxCalls)

(* depth is the queue's length, but for a record that is between its       *)
(* channel operation and its count; so the snapshot is never negative, and *)
(* may exceed the capacity by the one record the writer has just taken.    *)
DepthTracksQueue ==
  /\ depth >= 0
  /\ LET uncounted == IF \E c \in Callers : caller[c] = "count" THEN 1 ELSE 0
         taken     == IF writer.pc = "received" THEN 1 ELSE 0
     IN  depth = Len(queue) + taken - uncounted
  /\ highWater <= Capacity + 1

(* Every drop is reported to the sink exactly once or still pending, and a *)
(* report the sink refused is made again.                                  *)
DropsAccounted ==
  LET clearing == IF writer.pc = "clear" THEN writer.pending ELSE 0
  IN  totalDrops = (reported - clearing) + pendingDrops

(* Whatever the sender, the writer and a failing sink interleave, Handle's *)
(* and the writer's counters tell the truth about the queue and the drops. *)
CountersTellTruth == TypeOK /\ DepthTracksQueue /\ DropsAccounted

(* A flush that did not time out has handed every accepted record to the   *)
(* sink, once and in order: no record slips in behind the drain.           *)
FlushLosesNothing ==
  /\ writer.pc = "exited" /\ ~aborted => sunk = [i \in 1..accepted |-> i]
  /\ flush = "flushed" => sunk = [i \in 1..accepted |-> i]

(* After an abort the writer hands over at most the one record it had      *)
(* already decided to emit.                                                *)
AbortStopsWriter == late <= 1

(* Each record is accepted or dropped, delivered in order and at most      *)
(* once, whatever the sink fails and wherever the abort cuts in.           *)
Log == INSTANCE LogDelivery WITH
  called  <- calls,
  dropped <- totalDrops,
  told    <- reported,
  log     <- sunk,
  phase   <- CASE aborted /\ late = 0 -> "cut"
               [] aborted /\ late # 0 -> "silent"
               [] ~aborted /\ writer.pc = "exited" -> "drained"
               [] OTHER -> state,
  answer  <- CASE flush = "flushed" -> "flushed"
               [] flush \in {"expired", "cut"} -> "expired"
               [] OTHER -> "none"
ImplementsLogDelivery == Log!Spec

(* The sink holds nobody up, even when it never returns: logging never      *)
(* waits for it, and a flush ends (Handle, Shutdown, Abort).                *)
SinkHoldsNobodyUp ==
  /\ \A c \in Callers : caller[c] = "calling" ~> caller[c] = "idle"
  /\ flush = "waiting" ~> flush \in {"flushed", "cut"}
=============================================================================
