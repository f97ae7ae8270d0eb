--------------------------- MODULE AsyncLogProofs ---------------------------
(***************************************************************************)
(* Proofs about AsyncLog, for every set of callers, every queue capacity   *)
(* and every number of calls.  Each part of the inductive invariant is     *)
(* proved in a lemma of its own, with one step per action.                 *)
(***************************************************************************)
EXTENDS AsyncLog, FiniteSetTheorems, SequenceTheorems, TLAPS

-----------------------------------------------------------------------------
(* The inductive invariant.                                                *)

\* At most one caller is between lifecycleMu's Lock and Unlock, and nobody
\* closes the handler meanwhile.
Locked ==
  /\ \A c \in Callers : caller[c] \in {"enqueue", "count"} => mutex /\ state = "open"
  /\ \A c, d \in Callers :
       caller[c] \in {"enqueue", "count"} /\ caller[d] \in {"enqueue", "count"} => c = d

\* How far the writer is depends on how far the flush is.
Phases ==
  /\ state = "open" <=> flush = "idle"
  /\ aborted => flush = "cut" /\ state = "stopped"
  /\ state = "stopped" => aborted \/ writer.pc = "exited"
  /\ flush = "flushed" => writer.pc = "exited" /\ ~aborted

WriterPhases ==
  /\ writer.pc = "exited" => state = "stopped" /\ (aborted \/ queue = <<>>)
  /\ writer.pc \in {"drain", "drainSelect"} \/ writer.mode = "drain" => flush # "idle"
  /\ writer.pc = "discard" \/ writer.mode = "discard" => aborted
  /\ writer.mode = "discard" => writer.pc \in {"received", "discard", "exited"}

\* A call is still on its way to the queue, or was accepted, or dropped.
OnTheWay == {c \in Callers : caller[c] \in {"calling", "enqueue"}}
EveryCallCounted ==
  /\ IsFiniteSet(OnTheWay)
  /\ calls = accepted + totalDrops + Cardinality(OnTheWay)

\* The writer throws records away, for the rest of its life.
Discards == \/ writer.pc = "discard" \/ writer.mode = "discard"
            \/ writer.pc = "exited" /\ aborted

\* What the sink got are the first accepted records in their order; until the
\* writer discards, it and the queue hold the rest.
Holds == writer.pc \in {"received", "recheck", "emit"}
Held  == IF Holds THEN 1 ELSE 0
InOrder ==
  /\ Holds => writer.item # NoRecord
  /\ \A i \in 1..Len(sunk) : sunk[i] = i
  /\ ~Discards =>
       /\ Holds => writer.item = Len(sunk) + 1
       /\ \A i \in 1..Len(queue) : queue[i] = Len(sunk) + Held + i
       /\ accepted = Len(sunk) + Held + Len(queue)

\* What the writer is about to report is still pending.
PendingCovered == writer.pc \in {"sink", "clear"} => writer.pending <= pendingDrops

\* Once a record was handed over after the abort, no other one is on its way.
AtMostOneLate ==
  /\ ~aborted => late = 0
  /\ late # 0 =>
       /\ late = 1
       /\ \/ writer.pc \in {"sink", "clear", "poll", "drain", "discard", "exited"}
          \/ writer.pc = "received" /\ writer.mode = "discard"

IInv ==
  /\ TypeOK /\ Locked /\ Phases /\ WriterPhases /\ EveryCallCounted /\ InOrder
  /\ DepthTracksQueue /\ PendingCovered /\ DropsAccounted /\ AtMostOneLate

-----------------------------------------------------------------------------
(* Types.                                                                   *)

LEMMA QueueAppended ==
  ASSUME TypeOK, accepted < calls
  PROVE  /\ Append(queue, accepted + 1) \in Seq(1..MaxCalls)
         /\ Len(Append(queue, accepted + 1)) = Len(queue) + 1
         /\ \A i \in 1..Len(queue) : Append(queue, accepted + 1)[i] = queue[i]
         /\ Append(queue, accepted + 1)[Len(queue) + 1] = accepted + 1
<1>1. accepted + 1 \in 1..MaxCalls /\ queue \in Seq(1..MaxCalls)
  BY CallsAssumption DEF TypeOK
<1> QED
  BY <1>1, AppendProperties

LEMMA QueueReceived ==
  ASSUME TypeOK, queue # <<>>
  PROVE  /\ Head(queue) \in 1..MaxCalls /\ Head(queue) = queue[1]
         /\ Tail(queue) \in Seq(1..MaxCalls)
         /\ Len(queue) \in Nat \ {0} /\ Len(Tail(queue)) = Len(queue) - 1
         /\ \A i \in 1..Len(Tail(queue)) : Tail(queue)[i] = queue[i + 1]
<1>1. queue \in Seq(1..MaxCalls) /\ Len(queue) \in Nat \ {0}
  BY EmptySeq DEF TypeOK
<1>2. Head(queue) = queue[1]
  BY <1>1
<1> QED
  BY <1>1, <1>2, HeadTailProperties

LEMMA Lengths ==
  ASSUME TypeOK
  PROVE  /\ Len(queue) \in Nat /\ Len(sunk) \in Nat
         /\ (queue = <<>> <=> Len(queue) = 0)
  BY EmptySeq DEF TypeOK

LEMMA RoomForOne ==
  ASSUME TypeOK, EveryCallCounted, NEW c \in Callers, caller[c] \in {"calling", "enqueue"}
  PROVE  accepted < calls /\ Cardinality(OnTheWay) \in Nat \ {0}
<1>1. Cardinality(OnTheWay) \in Nat /\ Cardinality(OnTheWay) # 0
  BY FS_CardinalityType, FS_EmptySet DEF EveryCallCounted, OnTheWay
<1> QED
  BY <1>1 DEF EveryCallCounted, TypeOK

-----------------------------------------------------------------------------
(* What touches the queue, the records in the sink and the writer.          *)

Modes == {"run", "drain", "discard"}

LEMMA Frame ==
  ASSUME [Next]_vars
  PROVE  /\ \/ UNCHANGED <<queue, accepted>>
            \/ \E c \in Callers : Enqueue(c)
            \/ \E mode \in Modes : Receive(mode)
         /\ UNCHANGED sunk \/ Emit
<1> USE DEF history, counters, WriterOnly, FlushOnly, RecordDrop, Modes
<1>1. ASSUME NEW c \in Callers, Call(c) \/ Handle(c)
      PROVE  UNCHANGED sunk /\ (UNCHANGED <<queue, accepted>> \/ Enqueue(c))
  BY <1>1 DEF Call, Handle, HandleClosed, HandleOpen, Enqueue, EnqueueDrops, Count
<1>2. CASE WriterStep \/ SinkReturns
  <2>1. \/ UNCHANGED <<queue, accepted>>
        \/ \E mode \in Modes : Receive(mode)
    BY <1>2
       DEF WriterStep, SinkReturns, Poll, Select, RecordDequeue, Recheck, Emit, ClearReportedDrops,
           Drain, DrainSelect, Discard, Finish, SinkAccepts, SinkFails
  <2>2. UNCHANGED sunk \/ Emit
    BY <1>2
       DEF WriterStep, SinkReturns, Poll, Select, RecordDequeue, Recheck, ClearReportedDrops,
           Drain, DrainSelect, Discard, Finish, SinkAccepts, SinkFails, Receive
  <2> QED
    BY <2>1, <2>2
<1>3. CASE BeginDrain \/ Flush \/ UNCHANGED vars
  BY <1>3 DEF BeginDrain, Flush, ShutdownReturns, ShutdownTimesOut, Abort, vars
<1> QED
  BY <1>1, <1>2, <1>3 DEF Next

\* How the writer's own state moves.
LEMMA Moves ==
  ASSUME TypeOK, [Next]_vars
  PROVE  \/ UNCHANGED writer
         \/ \E pc \in {"select", "recheck", "emit", "drain", "drainSelect", "clear", "discard",
                       "exited"} : Writer(pc)
         \/ \E mode \in Modes : Receive(mode)
         \/ Emit
         \/ writer' = NextRecord
<1>1. CASE \E c \in Callers : Call(c) \/ Handle(c)
  BY <1>1 DEF Call, Handle, HandleClosed, HandleOpen, Enqueue, EnqueueDrops, Count
<1>2. CASE WriterStep \/ SinkReturns
  BY <1>2
     DEF WriterStep, SinkReturns, Poll, Select, RecordDequeue, AfterDequeue, Recheck,
         ClearReportedDrops, Drain, DrainSelect, Discard, Finish, SinkAccepts, SinkFails, Modes,
         Writer, TypeOK, WriterState
<1>3. CASE BeginDrain \/ Flush \/ UNCHANGED vars
  BY <1>3 DEF BeginDrain, Flush, ShutdownReturns, ShutdownTimesOut, Abort, vars, FlushOnly
<1> QED
  BY <1>1, <1>2, <1>3 DEF Next

LEMMA TypeStep ==
  ASSUME IInv, [Next]_vars PROVE TypeOK'
<1> USE DEF IInv, history, counters, WriterOnly, FlushOnly, RecordDrop
<1>1. queue' \in Seq(1..MaxCalls) /\ Len(queue') <= Capacity
  <2>1. ASSUME NEW c \in Callers, Enqueue(c) PROVE queue' \in Seq(1..MaxCalls) /\ Len(queue') <= Capacity
    BY <2>1, RoomForOne, QueueAppended, Lengths, CapacityAssumption DEF Enqueue, TypeOK
  <2>2. ASSUME NEW mode \in Modes, Receive(mode) PROVE queue' \in Seq(1..MaxCalls) /\ Len(queue') <= Capacity
    BY <2>2, QueueReceived, CapacityAssumption DEF Receive, TypeOK
  <2> QED
    BY <2>1, <2>2, Frame DEF TypeOK
<1>2. sunk' \in Seq(1..MaxCalls)
  <2>1. ASSUME Emit PROVE writer.item \in 1..MaxCalls
    BY <2>1, CallsAssumption DEF Emit, InOrder, Holds, TypeOK, WriterState, NoRecord
  <2>2. ASSUME Emit PROVE sunk' \in Seq(1..MaxCalls)
    BY <2>1, <2>2, AppendProperties DEF Emit, TypeOK
  <2> QED
    BY <2>2, Frame DEF TypeOK
<1> USE DEF Next, Handle, WriterStep, SinkReturns, Flush, vars, Caller, Writer, Call, HandleClosed,
            HandleOpen, Enqueue, EnqueueDrops, Count, Poll, Select, Receive, RecordDequeue,
            AfterDequeue, Recheck, Emit, NextRecord, SinkAccepts, SinkFails, ClearReportedDrops,
            Finish, Drain, DrainSelect, Discard, BeginDrain, ShutdownReturns, ShutdownTimesOut,
            Abort
<1>3. /\ state' \in {"open", "draining", "stopped"}
      /\ flush' \in {"idle", "waiting", "flushed", "expired", "cut"}
      /\ aborted' \in BOOLEAN /\ mutex' \in BOOLEAN
  BY ZenonT(60) DEF TypeOK
<1>4. caller' \in [Callers -> {"idle", "calling", "enqueue", "count"}]
  BY DEF TypeOK
<1>5. highWater' \in Nat /\ totalDrops' \in Nat /\ reported' \in Nat /\ late' \in Nat
  <2>1. highWater' \in Nat
    BY DEF TypeOK
  <2>2. totalDrops' \in Nat
    BY DEF TypeOK
  <2>3. reported' \in Nat
    BY DEF TypeOK, WriterState
  <2>4. late' \in Nat
    BY DEF TypeOK
  <2> QED
    BY <2>1, <2>2, <2>3, <2>4
<1>6. pendingDrops' \in Nat
  BY SMTT(30) DEF TypeOK, WriterState, PendingCovered
<1>7. depth' \in Nat
  <2>1. writer.pc = "received" /\ ~mutex => depth - 1 \in Nat
    BY Lengths DEF DepthTracksQueue, Locked, TypeOK
  <2>2. \/ depth' \in {depth, depth + 1}
        \/ writer.pc = "received" /\ ~mutex /\ depth' = depth - 1
    OBVIOUS
  <2> QED
    BY <2>1, <2>2 DEF TypeOK
<1>8. calls' \in 0..MaxCalls /\ accepted' \in 0..calls'
  <2>1. \A c \in Callers : caller[c] = "enqueue" => accepted < calls
    BY RoomForOne
  <2>2. /\ \/ calls' = calls
           \/ calls' = calls + 1 /\ calls < MaxCalls /\ accepted' = accepted
        /\ \/ accepted' = accepted
           \/ accepted' = accepted + 1 /\ \E c \in Callers : caller[c] = "enqueue"
    OBVIOUS
  <2>3. /\ calls \in Nat /\ calls <= MaxCalls /\ MaxCalls \in Nat
        /\ accepted \in Nat /\ accepted <= calls
    BY CallsAssumption DEF TypeOK
  <2>4. accepted' = accepted + 1 => accepted < calls
    BY <2>1, <2>2, <2>3
  <2> QED
    BY ONLY <2>2, <2>3, <2>4
<1>9. writer' \in WriterState
  <2>1. queue # <<>> => Head(queue) \in 0..MaxCalls
    BY QueueReceived
  <2>2. NoRecord \in 0..MaxCalls
    BY CallsAssumption DEF NoRecord
  <2> HIDE DEF NoRecord
  <2>3. CASE UNCHANGED writer
    BY <2>3 DEF TypeOK
  <2>4. CASE \E pc \in {"select", "recheck", "emit", "drain", "drainSelect", "clear",
                          "discard", "exited"} : Writer(pc)
    BY <2>4 DEF TypeOK, WriterState
  <2>5. CASE \E mode \in Modes : Receive(mode)
    BY <2>1, <2>5 DEF TypeOK, WriterState, Modes
  <2>6. CASE Emit
    BY <2>6 DEF TypeOK, WriterState
  <2>7. CASE writer' = NextRecord
    BY <2>2, <2>7 DEF WriterState
  <2> QED
    BY <2>3, <2>4, <2>5, <2>6, <2>7, Moves
<1> QED
  BY <1>1, <1>2, <1>3, <1>4, <1>5, <1>6, <1>7, <1>8, <1>9 DEF TypeOK

-----------------------------------------------------------------------------
(* The parts of the invariant.                                              *)

\* The types without the sequences.
LEMMA Scalars ==
  ASSUME TypeOK
  PROVE  /\ state \in {"open", "draining", "stopped"}
         /\ flush \in {"idle", "waiting", "flushed", "expired", "cut"}
         /\ aborted \in BOOLEAN /\ mutex \in BOOLEAN
         /\ depth \in Nat /\ highWater \in Nat /\ totalDrops \in Nat /\ pendingDrops \in Nat
         /\ reported \in Nat /\ late \in Nat /\ calls \in Nat /\ accepted \in Nat
         /\ caller \in [Callers -> {"idle", "calling", "enqueue", "count"}]
         /\ writer \in WriterState
         /\ Len(queue) \in Nat /\ (queue = <<>> <=> Len(queue) = 0)
  BY Lengths, CallsAssumption DEF TypeOK

LEMMA PhasesStep ==
  ASSUME IInv, [Next]_vars
  PROVE  Locked' /\ Phases'
<1> USE Scalars
    DEF IInv, WriterState, history, counters, WriterOnly, FlushOnly, RecordDrop,
        Next, Handle, WriterStep, SinkReturns, Flush, vars, Caller, Writer, Call, HandleClosed,
        HandleOpen, Enqueue, EnqueueDrops, Count, Poll, Select, Receive, RecordDequeue,
        AfterDequeue, Recheck, Emit, NextRecord, SinkAccepts, SinkFails, ClearReportedDrops,
        Finish, Drain, DrainSelect, Discard, BeginDrain, ShutdownReturns, ShutdownTimesOut,
        Abort, Phases, WriterPhases
<1>1. Locked'
  BY SMTT(30) DEF Locked
<1>2. (state = "open" <=> flush = "idle")' /\ (aborted => flush = "cut" /\ state = "stopped")'
  OBVIOUS
<1>3. (state = "stopped" => aborted \/ writer.pc = "exited")'
  OBVIOUS
<1>4. (flush = "flushed" => writer.pc = "exited" /\ ~aborted)'
  OBVIOUS
<1> QED
  BY <1>1, <1>2, <1>3, <1>4

\* What the writer's own steps and those of the others do to its record.
WriterParts == WriterPhases /\ PendingCovered /\ DropsAccounted /\ AtMostOneLate

LEMMA DropKeeps ==
  ASSUME TypeOK, PendingCovered, DropsAccounted, RecordDrop, UNCHANGED <<writer, reported>>
  PROVE  PendingCovered' /\ DropsAccounted'
<1>1. /\ totalDrops \in Nat /\ pendingDrops \in Nat /\ reported \in Nat /\ writer.pending \in Nat
      /\ totalDrops' = totalDrops + 1 /\ pendingDrops' = pendingDrops + 1
  BY Scalars DEF WriterState, RecordDrop
<1>2. PendingCovered'
  BY <1>1 DEF PendingCovered
<1>3. DropsAccounted'
  BY <1>1 DEF DropsAccounted
<1> QED
  BY <1>2, <1>3

LEMMA WriterPartsStep ==
  ASSUME IInv, [Next]_vars
  PROVE  WriterParts'
<1> USE Scalars
    DEF IInv, WriterState, history, counters, WriterOnly, FlushOnly, RecordDrop, Caller, Writer,
        Phases, WriterPhases, PendingCovered, DropsAccounted, AtMostOneLate, WriterParts
<1>1. ASSUME NEW c \in Callers, Call(c) PROVE WriterParts'
  BY <1>1 DEF Call
<1>2. ASSUME NEW c \in Callers, HandleClosed(c) \/ HandleOpen(c) PROVE WriterParts'
  <2>1. CASE HandleClosed(c)
    <3>1. WriterPhases' /\ AtMostOneLate'
      BY <2>1 DEF HandleClosed
    <3>2. PendingCovered' /\ DropsAccounted'
      BY <2>1, DropKeeps DEF HandleClosed
    <3> QED
      BY <3>1, <3>2
  <2>2. CASE HandleOpen(c)
    BY <2>2 DEF HandleOpen
  <2> QED
    BY <1>2, <2>1, <2>2
<1>3. ASSUME NEW c \in Callers, Enqueue(c) PROVE WriterParts'
  BY <1>3 DEF Enqueue, Locked
<1>4. ASSUME NEW c \in Callers, EnqueueDrops(c) \/ Count(c) PROVE WriterParts'
  <2>1. CASE EnqueueDrops(c)
    <3>1. WriterPhases' /\ AtMostOneLate'
      BY <2>1 DEF EnqueueDrops
    <3>2. PendingCovered' /\ DropsAccounted'
      BY <2>1, DropKeeps DEF EnqueueDrops
    <3> QED
      BY <3>1, <3>2
  <2>2. CASE Count(c)
    BY <2>2 DEF Count
  <2> QED
    BY <1>4, <2>1, <2>2
<1>5. CASE Poll \/ Recheck \/ Drain
  BY <1>5 DEF Poll, Recheck, Drain
<1>6. CASE Select
  BY <1>6 DEF Select, Receive
<1>7. CASE RecordDequeue
  BY <1>7 DEF RecordDequeue, AfterDequeue
<1>8. CASE Emit
  BY <1>8 DEF Emit
<1>9. CASE SinkAccepts
  BY <1>9 DEF SinkAccepts, NextRecord
<1>10. CASE SinkFails
  BY <1>10 DEF SinkFails, NextRecord
<1>11. CASE ClearReportedDrops
  BY <1>11 DEF ClearReportedDrops, NextRecord
<1>12. CASE DrainSelect
  BY <1>12 DEF DrainSelect, Receive, Finish
<1>13. CASE Discard
  BY <1>13 DEF Discard, Receive, Finish
<1>14. CASE BeginDrain
  BY <1>14 DEF BeginDrain
<1>15. CASE Flush
  BY <1>15, SMTT(30) DEF Flush, ShutdownReturns, ShutdownTimesOut, Abort
<1>16. CASE UNCHANGED vars
  BY <1>16 DEF vars
<1> QED
  BY <1>1, <1>2, <1>3, <1>4, <1>5, <1>6, <1>7, <1>8, <1>9, <1>10, <1>11, <1>12, <1>13, <1>14,
     <1>15, <1>16 DEF Next, Handle, WriterStep, SinkReturns

LEMMA CallsStep ==
  ASSUME IInv, [Next]_vars
  PROVE  EveryCallCounted'
<1> USE Scalars DEF IInv, history, counters, Caller, RecordDrop
<1>1. /\ IsFiniteSet(OnTheWay) /\ Cardinality(OnTheWay) \in Nat
      /\ calls = accepted + totalDrops + Cardinality(OnTheWay)
  BY FS_CardinalityType DEF EveryCallCounted
<1>2. ASSUME NEW c \in Callers, Call(c) PROVE EveryCallCounted'
  <2>1. OnTheWay' = OnTheWay \cup {c} /\ c \notin OnTheWay
    BY <1>2 DEF Call, OnTheWay
  <2>2. IsFiniteSet(OnTheWay') /\ Cardinality(OnTheWay') = Cardinality(OnTheWay) + 1
    BY <1>1, <2>1, FS_AddElement
  <2>3. calls' = calls + 1 /\ accepted' = accepted /\ totalDrops' = totalDrops
    BY <1>2 DEF Call
  <2> QED
    BY <1>1, <2>2, <2>3, SMTT(30) DEF EveryCallCounted
<1>3. ASSUME NEW c \in Callers, HandleClosed(c) \/ Enqueue(c) \/ EnqueueDrops(c)
      PROVE  EveryCallCounted'
  <2>1. OnTheWay' = OnTheWay \ {c} /\ c \in OnTheWay
    BY <1>3 DEF HandleClosed, Enqueue, EnqueueDrops, OnTheWay
  <2>2. /\ calls' = calls
        /\ \/ accepted' = accepted + 1 /\ totalDrops' = totalDrops
           \/ accepted' = accepted /\ totalDrops' = totalDrops + 1
    BY <1>3 DEF HandleClosed, Enqueue, EnqueueDrops
  <2>3. IsFiniteSet(OnTheWay') /\ Cardinality(OnTheWay') = Cardinality(OnTheWay) - 1
    BY <1>1, <2>1, FS_RemoveElement
  <2> QED
    BY <1>1, <2>2, <2>3, SMTT(30) DEF EveryCallCounted
<1>4. ASSUME NEW c \in Callers, HandleOpen(c) \/ Count(c) PROVE EveryCallCounted'
  <2>1. OnTheWay' = OnTheWay /\ UNCHANGED <<calls, accepted, totalDrops>>
    BY <1>4 DEF HandleOpen, Count, OnTheWay
  <2> QED
    BY <1>1, <2>1 DEF EveryCallCounted
<1>5. CASE UNCHANGED <<caller, calls, accepted, totalDrops>>
  BY <1>5 DEF EveryCallCounted, OnTheWay
<1>6. CASE WriterStep \/ SinkReturns
  BY <1>5, <1>6
     DEF WriterStep, SinkReturns, Poll, Select, Receive, RecordDequeue, Recheck, Emit,
         ClearReportedDrops, Drain, DrainSelect, Discard, Finish, SinkAccepts, SinkFails, WriterOnly
<1>7. CASE BeginDrain \/ Flush \/ UNCHANGED vars
  BY <1>5, <1>7 DEF BeginDrain, Flush, ShutdownReturns, ShutdownTimesOut, Abort, FlushOnly, vars
<1> QED
  BY <1>2, <1>3, <1>4, <1>6, <1>7 DEF Next, Handle

LEMMA DepthStep ==
  ASSUME IInv, [Next]_vars
  PROVE  DepthTracksQueue'
<1> USE Scalars DEF IInv, WriterState, history, counters, Caller, Writer, RecordDrop, WriterOnly
<1> DEFINE Uncounted == \E c \in Callers : caller[c] = "count"
           Taken     == IF writer.pc = "received" THEN 1 ELSE 0
<1>1. /\ depth = Len(queue) + Taken - (IF Uncounted THEN 1 ELSE 0)
      /\ highWater <= Capacity + 1 /\ Capacity \in Nat /\ Len(queue) <= Capacity
  BY CapacityAssumption DEF DepthTracksQueue, TypeOK
<1>2. SUFFICES /\ depth' = Len(queue') + Taken' - (IF Uncounted' THEN 1 ELSE 0)
               /\ highWater' <= Capacity + 1
  BY TypeStep DEF DepthTracksQueue, TypeOK
<1>3. ASSUME NEW c \in Callers, Enqueue(c)
      PROVE  /\ depth' = Len(queue') + Taken' - (IF Uncounted' THEN 1 ELSE 0)
             /\ highWater' <= Capacity + 1
  <2>1. ~Uncounted /\ Uncounted'
    BY <1>3 DEF Enqueue, Locked
  <2>2. Len(queue') = Len(queue) + 1
    BY <1>3, RoomForOne, QueueAppended DEF Enqueue
  <2>3. Taken' = Taken /\ Taken \in Nat /\ UNCHANGED <<depth, highWater>>
    BY <1>3 DEF Enqueue
  <2> HIDE DEF Taken, Uncounted
  <2> QED
    BY <1>1, <2>1, <2>2, <2>3
<1>4. ASSUME NEW c \in Callers, Count(c)
      PROVE  /\ depth' = Len(queue') + Taken' - (IF Uncounted' THEN 1 ELSE 0)
             /\ highWater' <= Capacity + 1
  <2>1. Uncounted /\ ~Uncounted'
    BY <1>4 DEF Count, Locked
  <2>2. /\ Taken' = Taken /\ Taken \in {0, 1} /\ queue' = queue /\ depth' = depth + 1
        /\ highWater' \in {highWater, depth + 1}
    BY <1>4 DEF Count
  <2> HIDE DEF Taken, Uncounted
  <2> QED
    BY <1>1, <2>1, <2>2
<1>5. ASSUME UNCHANGED <<queue, depth, highWater>>, Taken' = Taken, Uncounted' <=> Uncounted
      PROVE  /\ depth' = Len(queue') + Taken' - (IF Uncounted' THEN 1 ELSE 0)
             /\ highWater' <= Capacity + 1
  BY <1>1, <1>5
<1>6. ASSUME NEW c \in Callers, Call(c) \/ HandleClosed(c) \/ HandleOpen(c) \/ EnqueueDrops(c)
      PROVE  UNCHANGED <<queue, depth, highWater>> /\ Taken' = Taken /\ (Uncounted' <=> Uncounted)
  BY <1>6 DEF Call, HandleClosed, HandleOpen, EnqueueDrops
<1>7. ASSUME NEW mode \in Modes, Receive(mode), writer.pc # "received"
      PROVE  /\ depth' = Len(queue') + Taken' - (IF Uncounted' THEN 1 ELSE 0)
             /\ highWater' <= Capacity + 1
  <2>1. Len(queue') = Len(queue) - 1 /\ Taken' = 1 /\ Taken = 0
    BY <1>7, QueueReceived DEF Receive
  <2> QED
    BY <1>1, <1>7, <2>1 DEF Receive
<1>8. CASE RecordDequeue
  <2>1. ~Uncounted /\ ~Uncounted' /\ Taken = 1 /\ Taken' = 0
    BY <1>8 DEF RecordDequeue, AfterDequeue, Locked
  <2> QED
    BY <1>1, <1>8, <2>1 DEF RecordDequeue
<1>9. CASE WriterStep \/ SinkReturns
  <2>1. ASSUME Poll \/ Recheck \/ Drain \/ Emit \/ SinkReturns \/ ClearReportedDrops
        PROVE  UNCHANGED <<queue, depth, highWater, caller>> /\ Taken' = Taken
    <3>1. UNCHANGED <<queue, depth, highWater, caller>>
      BY <2>1 DEF Poll, Recheck, Drain, Emit, ClearReportedDrops, SinkReturns, SinkAccepts, SinkFails
    <3>2. writer.pc # "received"
      BY <2>1 DEF Poll, Recheck, Drain, Emit, ClearReportedDrops, SinkReturns, SinkAccepts, SinkFails
    <3>3. CASE Poll \/ Recheck \/ Drain \/ Emit
      BY <3>1, <3>2, <3>3 DEF Poll, Recheck, Drain, Emit
    <3>4. CASE SinkReturns \/ ClearReportedDrops
      BY <3>1, <3>2, <3>4 DEF ClearReportedDrops, SinkReturns, SinkAccepts, SinkFails, NextRecord
    <3> QED
      BY <2>1, <3>3, <3>4
  <2>2. ASSUME Select \/ DrainSelect \/ Discard
        PROVE  \/ \E mode \in Modes : Receive(mode) /\ writer.pc # "received"
               \/ UNCHANGED <<queue, depth, highWater, caller>> /\ Taken' = Taken
    BY <2>2 DEF Select, DrainSelect, Discard, Finish, Modes
  <2> QED
    BY <1>5, <1>7, <1>8, <1>9, <2>1, <2>2 DEF WriterStep
<1>10. CASE BeginDrain \/ Flush \/ UNCHANGED vars
  <2>1. UNCHANGED <<queue, depth, highWater, caller, writer>>
    BY <1>10 DEF BeginDrain, Flush, ShutdownReturns, ShutdownTimesOut, Abort, FlushOnly, vars
  <2> QED
    BY <1>5, <2>1
<1> QED
  BY <1>3, <1>4, <1>5, <1>6, <1>9, <1>10 DEF Next, Handle

\* The step leaves the records where they are.
LEMMA RecordsStay ==
  ASSUME InOrder, UNCHANGED <<queue, accepted, sunk>>,
         Discards => Discards',
         \/ Discards' /\ ~Holds'
         \/ (Holds' <=> Holds) /\ (Holds => writer'.item = writer.item)
  PROVE  InOrder'
  BY DEF InOrder, Held, NoRecord

LEMMA OrderStep ==
  ASSUME IInv, [Next]_vars
  PROVE  InOrder'
<1> USE Scalars
    DEF IInv, WriterState, history, counters, Caller, Writer, RecordDrop, WriterOnly, FlushOnly
<1>1. ASSUME NEW c \in Callers, Call(c) \/ HandleClosed(c) \/ HandleOpen(c) \/ EnqueueDrops(c) \/ Count(c)
      PROVE  InOrder'
  <2>1. UNCHANGED <<queue, accepted, sunk, aborted, writer>>
    BY <1>1 DEF Call, HandleClosed, HandleOpen, EnqueueDrops, Count
  <2> QED
    BY <2>1, RecordsStay DEF Holds, Discards
<1>2. CASE BeginDrain \/ Flush \/ UNCHANGED vars
  <2>1. UNCHANGED <<queue, accepted, sunk, writer>> /\ (aborted => aborted')
    BY <1>2 DEF BeginDrain, Flush, ShutdownReturns, ShutdownTimesOut, Abort, vars
  <2> QED
    BY <2>1, RecordsStay DEF Holds, Discards
<1>3. ASSUME NEW c \in Callers, Enqueue(c) PROVE InOrder'
  <2>1. /\ queue' = Append(queue, accepted + 1) /\ accepted' = accepted + 1
        /\ UNCHANGED <<sunk, aborted, writer>>
    BY <1>3 DEF Enqueue
  <2>2. /\ Len(queue') = Len(queue) + 1
        /\ \A i \in 1..Len(queue) : queue'[i] = queue[i]
        /\ queue'[Len(queue) + 1] = accepted + 1
    BY <1>3, <2>1, RoomForOne, QueueAppended DEF Enqueue
  <2>3. /\ (Holds' <=> Holds) /\ Held' = Held /\ Held \in {0, 1}
        /\ Discards' <=> Discards
    BY <2>1 DEF Holds, Held, Discards
  <2>4. Len(sunk) \in Nat /\ Len(queue) \in Nat
    BY Lengths
  <2>5. ASSUME ~Discards, NEW i \in 1..Len(queue')
        PROVE  queue'[i] = Len(sunk) + Held + i
    <3>1. i \in 1..Len(queue) \/ i = Len(queue) + 1
      BY <2>2, <2>4, SMTT(30)
    <3>2. accepted = Len(sunk) + Held + Len(queue)
      BY <2>5 DEF InOrder
    <3> QED
      BY <2>2, <2>3, <2>4, <2>5, <3>1, <3>2, SMTT(30) DEF InOrder
  <2>6. ~Discards => accepted + 1 = Len(sunk) + Held + (Len(queue) + 1)
    BY <2>3, <2>4 DEF InOrder
  <2> QED
    BY <2>1, <2>2, <2>3, <2>5, <2>6 DEF InOrder
<1>4. ASSUME NEW mode \in Modes, Receive(mode), ~Holds, mode = "discard" \/ ~Discards
      PROVE  InOrder'
  <2>1. /\ queue' = Tail(queue) /\ writer'.item = Head(queue) /\ writer'.pc = "received"
        /\ UNCHANGED <<sunk, aborted, accepted>>
    BY <1>4 DEF Receive
  <2>2. /\ Len(queue') = Len(queue) - 1 /\ Len(queue) \in Nat \ {0}
        /\ \A i \in 1..Len(queue') : queue'[i] = queue[i + 1]
        /\ writer'.item = queue[1] /\ writer'.item # NoRecord
    BY <1>4, <2>1, QueueReceived DEF Receive, NoRecord
  <2>3. /\ Holds' /\ Held' = 1 /\ Held = 0
        /\ ~Discards' => ~Discards
    BY <1>4, <2>1 DEF Holds, Held, Receive, Discards
  <2>4. Len(sunk) \in Nat
    BY Lengths
  <2> QED
    BY <2>1, <2>2, <2>3, <2>4, SMTT(30) DEF InOrder
<1>5. CASE RecordDequeue
  BY <1>5, RecordsStay DEF RecordDequeue, AfterDequeue, Holds, Discards, WriterPhases
<1>6. CASE Recheck
  BY <1>6, RecordsStay DEF Recheck, Holds, Discards
<1>7. CASE Emit
  <2>1. /\ writer.pc = "emit" /\ writer'.pc = "sink" /\ sunk' = Append(sunk, writer.item)
        /\ UNCHANGED <<queue, aborted, accepted>>
    BY <1>7 DEF Emit
  <2>2. /\ ~Holds' /\ Held' = 0 /\ Held = 1 /\ Holds
        /\ ~Discards
    BY <1>7, <2>1 DEF Holds, Held, Discards, WriterPhases
  <2>3. writer.item \in 1..MaxCalls /\ sunk \in Seq(1..MaxCalls)
    BY <2>2, CallsAssumption DEF InOrder, TypeOK, NoRecord
  <2>4. /\ Len(sunk') = Len(sunk) + 1 /\ Len(sunk) \in Nat
        /\ \A i \in 1..Len(sunk) : sunk'[i] = sunk[i]
        /\ sunk'[Len(sunk) + 1] = writer.item
    BY <2>1, <2>3, Lengths, AppendProperties
  <2>5. \A i \in 1..Len(sunk') : sunk'[i] = i
    BY <2>1, <2>2, <2>4 DEF InOrder
  <2>6. /\ \A i \in 1..Len(queue') : queue'[i] = Len(sunk') + Held' + i
        /\ accepted' = Len(sunk') + Held' + Len(queue')
    <3>1. Len(sunk') + Held' = Len(sunk) + Held
      BY <2>2, <2>4
    <3> QED
      BY <2>1, <2>2, <3>1 DEF InOrder
  <2> QED
    BY <2>2, <2>5, <2>6 DEF InOrder
<1>8. CASE Poll \/ Drain
  BY <1>8, RecordsStay DEF Poll, Drain, Holds, Discards
<1>9. CASE SinkReturns \/ ClearReportedDrops
  BY <1>9, RecordsStay
     DEF SinkReturns, SinkAccepts, SinkFails, ClearReportedDrops, NextRecord, Holds, Discards, WriterPhases
<1>10. CASE Select \/ DrainSelect \/ Discard
  <2>1. \/ \E mode \in Modes : Receive(mode) /\ (mode = "discard" \/ ~Discards)
        \/ \E pc \in {"drain", "discard", "exited"} : Writer(pc) /\ UNCHANGED <<queue, accepted, sunk, aborted>>
    BY <1>10 DEF Select, DrainSelect, Discard, Finish, Modes, Discards, WriterPhases
  <2>2. ~Holds
    BY <1>10 DEF Select, DrainSelect, Discard, Holds
  <2>3. CASE \E pc \in {"drain", "discard", "exited"} : Writer(pc) /\ UNCHANGED <<queue, accepted, sunk, aborted>>
    <3>1. Discards => Discards'
      <4>1. CASE Discard
        <5>1. aborted /\ (\E pc \in {"drain", "discard", "exited"} : writer'.pc = pc)
          BY <2>3, <4>1 DEF Discard, WriterPhases
        <5>2. writer'.pc \in {"discard", "exited"}
          BY <2>3, <4>1 DEF Discard, Receive, Finish
        <5> QED
          BY <2>3, <5>1, <5>2 DEF Discards
      <4>2. CASE Select \/ DrainSelect
        <5>1. writer.pc \in {"select", "drainSelect"}
          BY <4>2 DEF Select, DrainSelect
        <5> QED
          BY <5>1 DEF Discards, WriterPhases
      <4> QED
        BY <1>10, <4>1, <4>2
    <3>2. ~Holds'
      BY <2>3 DEF Holds
    <3> QED
      BY <2>2, <2>3, <3>1, <3>2, RecordsStay
  <2> QED
    BY <1>4, <2>1, <2>2, <2>3
<1> QED
  BY <1>1, <1>2, <1>3, <1>5, <1>6, <1>7, <1>8, <1>9, <1>10 DEF Next, Handle, WriterStep

-----------------------------------------------------------------------------
(* The theorems.                                                            *)

LEMMA InitInv == Init => IInv
<1> SUFFICES ASSUME Init PROVE IInv
  OBVIOUS
<1> USE CapacityAssumption, CallsAssumption, EmptySeq DEF Init
<1>1. TypeOK
  <2>1. queue \in Seq(1..MaxCalls) /\ sunk \in Seq(1..MaxCalls) /\ Len(queue) <= Capacity
    OBVIOUS
  <2>2. writer \in WriterState
    BY DEF WriterState, NoRecord
  <2>3. calls \in 0..MaxCalls /\ accepted \in 0..calls
    OBVIOUS
  <2> QED
    BY <2>1, <2>2, <2>3 DEF TypeOK
<1>2. OnTheWay = {}
  BY DEF OnTheWay
<1>3. EveryCallCounted
  BY <1>2, FS_EmptySet DEF EveryCallCounted
<1>4. Locked /\ Phases /\ WriterPhases /\ PendingCovered /\ AtMostOneLate
  BY DEF Locked, Phases, WriterPhases, PendingCovered, AtMostOneLate
<1>5. InOrder
  BY DEF InOrder, Holds, Held, Discards
<1>6. DepthTracksQueue /\ DropsAccounted
  BY DEF DepthTracksQueue, DropsAccounted
<1> QED
  BY <1>1, <1>3, <1>4, <1>5, <1>6 DEF IInv

LEMMA InvStep == IInv /\ [Next]_vars => IInv'
  BY TypeStep, PhasesStep, WriterPartsStep, CallsStep, DepthStep, OrderStep DEF IInv, WriterParts

THEOREM InvHolds == Spec => []IInv
BY InitInv, InvStep, PTL DEF Spec

\* The depth follows the queue up to the one record under way, and every
\* drop is reported once or still pending, whatever the callers, the writer
\* and a failing sink interleave; with it, type correctness.
THEOREM CountersHold == Spec => []CountersTellTruth
<1>1. IInv => CountersTellTruth
  BY DEF IInv, CountersTellTruth
<1> QED
  BY <1>1, InvHolds, PTL

LEMMA SinkHasAll ==
  ASSUME IInv, writer.pc = "exited", ~aborted
  PROVE  sunk = [i \in 1..accepted |-> i]
<1>1. queue = <<>> /\ ~Holds /\ ~Discards
  BY DEF IInv, WriterPhases, Holds, Discards
<1>2. /\ Len(sunk) = accepted /\ \A i \in 1..Len(sunk) : sunk[i] = i
      /\ sunk \in Seq(1..MaxCalls)
  BY <1>1, Lengths DEF IInv, InOrder, Held, TypeOK
<1>3. sunk = [i \in 1..Len(sunk) |-> sunk[i]]
  BY <1>2
<1> QED
  BY <1>2, <1>3

\* A flush that did not time out has handed every accepted record to the
\* sink, once and in the order of the queue.
THEOREM FlushComplete == Spec => []FlushLosesNothing
<1>1. IInv => FlushLosesNothing
  BY SinkHasAll DEF IInv, Phases, FlushLosesNothing
<1> QED
  BY <1>1, InvHolds, PTL

\* After an abort the writer hands over at most the one record it had
\* already decided to emit.
THEOREM AbortStops == Spec => []AbortStopsWriter
<1>1. IInv => AbortStopsWriter
  BY Scalars DEF IInv, AtMostOneLate, AbortStopsWriter
<1> QED
  BY <1>1, InvHolds, PTL
-----------------------------------------------------------------------------
(* Every step treats records as LogDelivery says, or leaves them.           *)

\* The refinement mapping of Log.
PhaseOf  == CASE aborted /\ late = 0 -> "cut"
              [] aborted /\ late # 0 -> "silent"
              [] ~aborted /\ writer.pc = "exited" -> "drained"
              [] OTHER -> state
AnswerOf == CASE flush = "flushed" -> "flushed"
              [] flush \in {"expired", "cut"} -> "expired"
              [] OTHER -> "none"

LEMMA PhaseIs ==
  ASSUME IInv
  PROVE  /\ aborted => PhaseOf = IF late = 0 THEN "cut" ELSE "silent"
         /\ ~aborted => PhaseOf = IF writer.pc = "exited" THEN "drained" ELSE state
         /\ PhaseOf = "open" <=> state = "open"
         /\ AnswerOf = "none" <=> flush \in {"idle", "waiting"}
  BY Scalars DEF IInv, PhaseOf, AnswerOf, Phases, WriterPhases

Same == UNCHANGED <<calls, accepted, totalDrops, reported, sunk, PhaseOf, AnswerOf>>

LEMMA SameSteps == Same => UNCHANGED Log!vars
  BY DEF Same, Log!vars, PhaseOf, AnswerOf

\* How many records wait, and that a call whose record is not yet decided counts.
LEMMA Outstanding ==
  ASSUME IInv
  PROVE  /\ \A c \in Callers : caller[c] \in {"calling", "enqueue"} => Log!Undecided > 0
         /\ ~Discards => Log!Waiting = Held + Len(queue)
<1>1. ASSUME NEW c \in Callers, caller[c] \in {"calling", "enqueue"} PROVE Log!Undecided > 0
  <2>1. Cardinality(OnTheWay) \in Nat \ {0}
    BY <1>1, RoomForOne DEF IInv
  <2>2. Log!Undecided = Cardinality(OnTheWay)
    <3>1. calls = accepted + totalDrops + Cardinality(OnTheWay)
      BY DEF IInv, EveryCallCounted
    <3>2. accepted \in Nat /\ totalDrops \in Nat
      BY Scalars DEF IInv
    <3> QED
      BY <2>1, <3>1, <3>2 DEF Log!Undecided
  <2> QED
    BY <2>1, <2>2
<1>2. ASSUME ~Discards PROVE Log!Waiting = Held + Len(queue)
  BY <1>2, Lengths DEF IInv, InOrder, Held, Log!Waiting
<1> QED
  BY <1>1, <1>2

LEMMA InitDelivers == Init => Log!Init
  BY DEF Init, Log!Init

LEMMA CallDelivers ==
  ASSUME IInv, NEW c \in Callers, Call(c) PROVE Log!Call
  BY DEF Call, counters, Log!Call

LEMMA DropDelivers ==
  ASSUME IInv, NEW c \in Callers, HandleClosed(c) \/ EnqueueDrops(c) PROVE Log!Drop
<1>1. Log!Undecided > 0
  BY Outstanding DEF HandleClosed, EnqueueDrops
<1>2. /\ totalDrops' = totalDrops + 1
      /\ UNCHANGED <<calls, accepted, reported, sunk, PhaseOf, AnswerOf>>
  BY DEF HandleClosed, EnqueueDrops, RecordDrop, history, PhaseOf, AnswerOf
<1>3. CASE HandleClosed(c)
  <2>1. PhaseOf # "open"
    BY <1>3, PhaseIs DEF HandleClosed
  <2> QED
    BY <1>1, <1>2, <2>1 DEF Log!Drop, PhaseOf, AnswerOf
<1>4. CASE EnqueueDrops(c)
  <2>1. state = "open" /\ Len(queue) = Capacity
    BY <1>4 DEF EnqueueDrops, IInv, Locked
  <2>2. ~Discards
    BY <2>1 DEF IInv, Phases, WriterPhases, Discards
  <2>3. Log!Waiting >= Capacity
    BY <2>1, <2>2, Outstanding, CapacityAssumption DEF Held
  <2> QED
    BY <1>1, <1>2, <2>3 DEF Log!Drop, PhaseOf, AnswerOf
<1> QED
  BY <1>3, <1>4

LEMMA EnqueueDelivers ==
  ASSUME IInv, NEW c \in Callers, Enqueue(c) PROVE Log!Accept
<1>1. Log!Undecided > 0
  BY Outstanding DEF Enqueue
<1>2. state = "open" /\ Len(queue) < Capacity /\ accepted' = accepted + 1
  BY DEF Enqueue, IInv, Locked
<1>3. ~Discards /\ PhaseOf = "open"
  BY <1>2, PhaseIs DEF IInv, Phases, WriterPhases, Discards
<1>4. Log!Waiting <= Capacity
  BY <1>2, <1>3, Outstanding, Lengths, CapacityAssumption DEF Held, IInv
<1>5. UNCHANGED <<calls, totalDrops, reported, sunk, PhaseOf, AnswerOf>>
  BY DEF Enqueue, counters, PhaseOf, AnswerOf
<1> QED
  BY <1>1, <1>2, <1>3, <1>4, <1>5 DEF Log!Accept, PhaseOf, AnswerOf

LEMMA EmitDelivers ==
  ASSUME IInv, Emit PROVE Log!Deliver
<1>1. writer.pc = "emit" /\ sunk' = Append(sunk, writer.item)
  BY DEF Emit
<1>2. Holds /\ Held = 1 /\ ~Discards
  BY <1>1 DEF Holds, Held, Discards, IInv, WriterPhases
<1>3. writer.item = Len(sunk) + 1 /\ Log!Waiting > 0
  BY <1>2, Outstanding, Lengths DEF IInv, InOrder
<1>4. late = 0 /\ (aborted => late' = 1) /\ (~aborted => late' = 0)
  BY <1>1, Scalars DEF Emit, IInv, AtMostOneLate
<1>5. UNCHANGED <<calls, accepted, totalDrops, reported, AnswerOf>>
  BY DEF Emit, counters, AnswerOf
<1>6. /\ PhaseOf \in {"open", "draining", "cut"}
      /\ PhaseOf' = IF PhaseOf = "cut" THEN "silent" ELSE PhaseOf
  <2>1. writer'.pc = "sink" /\ aborted' = aborted /\ state' = state
    BY DEF Emit, IInv, TypeOK, WriterState
  <2>2. state = "stopped" => aborted
    BY <1>1 DEF IInv, Phases
  <2> QED
    BY <1>1, <1>4, <2>1, <2>2, Scalars DEF PhaseOf, IInv
<1> QED
  BY <1>1, <1>3, <1>5, <1>6 DEF Log!Deliver, PhaseOf, AnswerOf

LEMMA ReportDelivers ==
  ASSUME IInv, SinkReturns PROVE Log!Report \/ Same
<1>1. /\ UNCHANGED <<calls, accepted, totalDrops, sunk, AnswerOf>>
      /\ UNCHANGED <<aborted, late, state>> /\ writer.pc = "sink" /\ writer'.pc # "exited"
  BY DEF SinkReturns, SinkAccepts, SinkFails, WriterOnly, history, counters, AnswerOf, NextRecord,
         IInv, TypeOK, WriterState
<1>2. PhaseOf' = PhaseOf
  BY <1>1 DEF PhaseOf
<1>3. CASE SinkFails
  BY <1>1, <1>2, <1>3 DEF SinkFails, WriterOnly, history, Same
<1>4. CASE SinkAccepts
  <2>1. /\ reported' = reported + writer.pending
        /\ writer.pending \in Nat /\ reported \in Nat /\ pendingDrops \in Nat
        /\ writer.pending <= pendingDrops /\ totalDrops = reported + pendingDrops
    BY <1>1, <1>4, Scalars
       DEF SinkAccepts, IInv, PendingCovered, DropsAccounted, WriterState
  <2>2. CASE writer.pending = 0
    BY <1>1, <1>2, <2>1, <2>2 DEF Same
  <2>3. CASE writer.pending # 0
    <3>1. reported' \in reported + 1 .. totalDrops
      BY <2>1, <2>3
    <3> QED
      BY <1>1, <1>2, <3>1 DEF Log!Report, PhaseOf, AnswerOf
  <2> QED
    BY <2>2, <2>3
<1> QED
  BY <1>3, <1>4 DEF SinkReturns

\* The writer's other steps but the last leave no trace.
LEMMA WriterDelivers ==
  ASSUME IInv, WriterStep, ~Emit PROVE Log!Finish \/ Same
<1> USE DEF Same, WriterOnly, history, counters, AnswerOf
<1>1. UNCHANGED <<calls, accepted, totalDrops, reported, sunk, AnswerOf, aborted, late>>
  BY DEF WriterStep, Poll, Select, Receive, RecordDequeue, Recheck, ClearReportedDrops, Drain,
         DrainSelect, Discard, Finish
<1>2. CASE writer.pc = "drainSelect" /\ ~aborted /\ queue = <<>> /\ Finish
  <2>1. writer'.pc = "exited"
    BY <1>2 DEF Finish, Writer, IInv, TypeOK, WriterState
  <2>2. PhaseOf = "draining"
    BY <1>2, Scalars DEF PhaseOf, IInv, Phases, WriterPhases
  <2>3. PhaseOf' = "drained"
    BY <1>1, <1>2, <2>1 DEF PhaseOf
  <2>4. Log!Waiting = 0
    BY <1>2, <2>1, Outstanding, Lengths DEF Discards, IInv, WriterPhases, Held, Holds
  <2> QED
    BY <1>1, <2>2, <2>3, <2>4 DEF Log!Finish, Log!Becomes, PhaseOf
<1>3. CASE writer.pc = "discard"
  <2>1. aborted
    BY <1>3 DEF IInv, WriterPhases
  <2> QED
    BY <1>1, <2>1 DEF PhaseOf
<1>4. CASE /\ UNCHANGED state /\ writer.pc # "exited"
           /\ \/ \E mode \in Modes : Receive(mode)
              \/ writer' = NextRecord
              \/ \E pc \in {"select", "recheck", "emit", "drain", "drainSelect", "clear", "discard"} :
                   Writer(pc)
  <2>1. writer'.pc # "exited"
    <3>1. CASE writer' = NextRecord
      BY <3>1 DEF NextRecord
    <3>2. CASE \E mode \in Modes : Receive(mode)
      BY <3>2 DEF Receive, IInv, TypeOK, WriterState
    <3>3. ASSUME NEW pc \in {"select", "recheck", "emit", "drain", "drainSelect", "clear", "discard"},
                 Writer(pc)
          PROVE  writer'.pc # "exited"
      BY <3>3 DEF Writer, IInv, TypeOK, WriterState
    <3> QED
      BY <1>4, <3>1, <3>2, <3>3
  <2> QED
    BY <1>1, <1>4, <2>1 DEF PhaseOf
<1>5. CASE Poll \/ RecordDequeue \/ Recheck \/ ClearReportedDrops \/ Drain
  BY <1>3, <1>4, <1>5
     DEF Poll, RecordDequeue, AfterDequeue, Recheck, ClearReportedDrops, Drain, IInv, TypeOK, WriterState
<1>6. CASE Select
  BY <1>4, <1>6 DEF Select, Receive, Modes
<1>7. CASE DrainSelect
  BY <1>2, <1>4, <1>7 DEF DrainSelect, Receive, Modes
<1>8. CASE Discard
  BY <1>3, <1>8 DEF Discard
<1> QED
  BY <1>5, <1>6, <1>7, <1>8 DEF WriterStep

LEMMA FlushDelivers ==
  ASSUME IInv, BeginDrain \/ Flush
  PROVE  Log!Close \/ Log!Cut \/ Log!Answer \/ Same
<1>1. UNCHANGED <<calls, accepted, totalDrops, reported, sunk, writer, late>>
  BY DEF BeginDrain, Flush, ShutdownReturns, ShutdownTimesOut, Abort, FlushOnly, history, counters
<1>2. CASE BeginDrain
  <2>1. /\ flush = "idle" /\ flush' = "waiting" /\ state = "open" /\ state' = "draining"
        /\ ~aborted /\ ~aborted' /\ writer.pc # "exited"
    BY <1>2 DEF BeginDrain, IInv, Phases, WriterPhases
  <2>2. PhaseOf = "open" /\ PhaseOf' = "draining" /\ AnswerOf' = AnswerOf
    BY <1>1, <2>1 DEF PhaseOf, AnswerOf
  <2> QED
    BY <1>1, <2>2 DEF Log!Close, Log!Becomes, PhaseOf, AnswerOf
<1>3. CASE ShutdownReturns
  <2>1. /\ flush = "waiting" /\ flush' = "flushed" /\ UNCHANGED <<state, aborted>>
        /\ ~aborted /\ writer.pc = "exited"
    BY <1>3 DEF ShutdownReturns, IInv, Phases
  <2>2. /\ PhaseOf = "drained" /\ PhaseOf' = PhaseOf
        /\ AnswerOf = "none" /\ AnswerOf' = "flushed"
    BY <1>1, <2>1 DEF PhaseOf, AnswerOf
  <2> QED
    BY <1>1, <2>2 DEF Log!Answer, PhaseOf, AnswerOf
<1>4. CASE ShutdownTimesOut
  <2>1. /\ flush = "waiting" /\ flush' = "expired" /\ UNCHANGED <<state, aborted>>
        /\ state # "open"
    BY <1>4 DEF ShutdownTimesOut, IInv, Phases
  <2>2. /\ PhaseOf # "open" /\ PhaseOf' = PhaseOf
        /\ AnswerOf = "none" /\ AnswerOf' = "expired"
    BY <1>1, <2>1, PhaseIs DEF PhaseOf, AnswerOf
  <2> QED
    BY <1>1, <2>2 DEF Log!Answer, PhaseOf, AnswerOf
<1>5. CASE Abort
  <2>1. /\ flush = "expired" /\ flush' = "cut" /\ state # "open" /\ state' = "stopped" /\ ~aborted
        /\ aborted' = (aborted \/ state # "stopped")
    BY <1>5 DEF Abort, IInv, Phases
  <2>2. AnswerOf = "expired" /\ AnswerOf' = "expired"
    BY <2>1 DEF AnswerOf
  <2>3. CASE state = "stopped"
    <3>1. writer.pc = "exited" /\ ~aborted'
      BY <2>1, <2>3 DEF IInv, Phases
    <3>2. PhaseOf' = PhaseOf
      BY <1>1, <2>1, <3>1 DEF PhaseOf
    <3> QED
      BY <1>1, <2>2, <3>2 DEF Same
  <2>4. CASE state # "stopped"
    <3>1. aborted' /\ writer.pc # "exited" /\ late = 0 /\ state = "draining"
      BY <2>1, <2>4, Scalars DEF IInv, WriterPhases, AtMostOneLate
    <3>2. PhaseOf = "draining" /\ PhaseOf' = "cut"
      BY <1>1, <2>1, <3>1 DEF PhaseOf
    <3> QED
      BY <1>1, <2>2, <3>2 DEF Log!Cut, Log!Becomes, PhaseOf, AnswerOf
  <2> QED
    BY <2>3, <2>4
<1> QED
  BY <1>2, <1>3, <1>4, <1>5 DEF Flush

LEMMA LogStep == IInv /\ [Next]_vars => [Log!Next]_(Log!vars)
<1> SUFFICES ASSUME IInv, [Next]_vars PROVE Log!Next \/ UNCHANGED Log!vars
  OBVIOUS
<1>1. ASSUME NEW c \in Callers, Call(c) \/ Handle(c) PROVE Log!Next \/ Same
  <2>1. CASE HandleOpen(c) \/ Count(c)
    <3>1. UNCHANGED <<calls, accepted, totalDrops, reported, sunk, aborted, late, writer, state, flush>>
      BY <2>1 DEF HandleOpen, Count, history, counters
    <3> QED
      BY <3>1 DEF Same, PhaseOf, AnswerOf
  <2> QED
    BY <1>1, <2>1, CallDelivers, DropDelivers, EnqueueDelivers DEF Handle, Log!Next
<1>2. CASE WriterStep \/ SinkReturns
  BY <1>2, EmitDelivers, ReportDelivers, WriterDelivers, SameSteps DEF Log!Next
<1>3. CASE BeginDrain \/ Flush
  BY <1>3, FlushDelivers, SameSteps DEF Log!Next
<1>4. CASE UNCHANGED vars
  <2>1. Same
    BY <1>4 DEF vars, history, counters, Same, PhaseOf, AnswerOf
  <2> QED
    BY <2>1, SameSteps
<1> QED
  BY <1>1, <1>2, <1>3, <1>4, SameSteps DEF Next

\* Whatever the callers, the writer, the sink and the flush interleave, each
\* record is accepted or dropped for a reason, delivered in order and at most
\* once, and the flush says what has become of them (Handle, run, Shutdown,
\* Abort).
THEOREM LogIsDelivered == Spec => ImplementsLogDelivery
  BY InitDelivers, InvHolds, LogStep, PTL DEF Spec, ImplementsLogDelivery, Log!Spec
=============================================================================
