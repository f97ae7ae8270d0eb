------------------------ MODULE TelegramPollerProofs ------------------------
(***************************************************************************)
(* Proofs about TelegramPoller, for every set of updates and processes and *)
(* every limit of the journal.  First come those about the journal it is   *)
(* built on, whoever calls it; then its rows are followed from the         *)
(* poller's side: what the poller's transactions do to them (Wrote,        *)
(* Swept), and what that means for the history and for Telegram.           *)
(***************************************************************************)
EXTENDS TelegramPoller, WellFoundedInduction, TLAPS

-----------------------------------------------------------------------------
(***************************************************************************)
(* The journal by itself, whoever calls it: JournalSpec says nothing of   *)
(* who does.  Its inductive invariant is its TypeOK and Safe: its          *)
(* CheckpointBacked needs its CheckpointOrdered (a pruned row lies below   *)
(* the confirmed offset, which may not pass the durable one), and its      *)
(* BudgetLeft and RowsWellFormed need only the row types.                  *)
(***************************************************************************)
JournalInv == JournalTypeOK /\ Safe

-----------------------------------------------------------------------------
(* Rows built by the operations.                                           *)

LEMMA JournalConstants ==
  /\ Updates \subseteq Nat /\ NoOwner \notin Owners
  /\ MaxFailures \in Nat \ {0} /\ PruneBatch \in Nat \ {0}
  /\ {DoneLimit, DoneAge, DeadLimit, DeadAge} \subseteq Nat
  BY UpdatesAssumption, OwnersAssumption, LimitsAssumption

LEMMA TimesPositive == \A t \in Times : t \in Nat /\ t > 0 /\ t # NoTime
  BY TimesAssumption DEF NoTime

LEMMA JournalRowTypes ==
  /\ NoRow \in Row
  /\ \A f \in Nat, o \in Owners, l \in Times, s \in Active :
       HeldRow(s, f, o, l) \in Row
  /\ \A f \in Nat, s \in Retryable : IdleRow(s, f) \in Row
  /\ \A f \in Nat, t \in Times, s \in Terminal :
       TerminalRow(s, f, t) \in Row
  BY
     DEF NoRow, HeldRow, IdleRow, TerminalRow,
         Row, Status, Active, Retryable, Terminal

(* Well-formedness of one row, the body of RowsWellFormed and BudgetLeft.  *)
SoundRow(row) ==
  /\ row.status \in Active   <=> row.owner # NoOwner
  /\ row.status \in Active   <=> row.lease # NoTime
  /\ row.status \in Terminal <=> row.finished # NoTime
  /\ row.status \notin Terminal => row.failures < MaxFailures

LEMMA SoundRows ==
  /\ SoundRow(NoRow)
  /\ \A f \in Nat, o \in Owners, l \in Times, s \in Active :
       f < MaxFailures => SoundRow(HeldRow(s, f, o, l))
  /\ \A f \in Nat, s \in Retryable :
       f < MaxFailures => SoundRow(IdleRow(s, f))
  /\ \A f \in Nat, t \in Times, s \in Terminal :
       SoundRow(TerminalRow(s, f, t))
  BY TimesPositive, JournalConstants
     DEF SoundRow, NoRow, HeldRow, IdleRow, TerminalRow,
         Active, Retryable, Terminal, NoTime

LEMMA SoundRowsIff ==
  (RowsWellFormed /\ BudgetLeft) <=> \A u \in Updates : SoundRow(rows[u])
  BY DEF RowsWellFormed, BudgetLeft, SoundRow, IsTerminal

-----------------------------------------------------------------------------
(* What one sweep may do to a row: nothing, or, below the confirmed        *)
(* offset only, abandon an unfinished one or remove a finished one.        *)
SweptOutcome(row, new, u, conf, now) ==
  \/ new = row
  \/ /\ u < conf
     /\ \/ new = NoRow
        \/ /\ row.status \in Active \cup Retryable
           /\ new = TerminalRow("dead", row.failures, now)

LEMMA ReconciledRows ==
  ASSUME NEW r, NEW conf, NEW now
  PROVE  LET p == Reconciled(r, conf, now)
         IN  /\ p = [u \in Updates |-> p[u]]
             /\ \A u \in Updates :
                  \/ p[u] = r[u]
                  \/ /\ u < conf
                     /\ r[u].status \in Active \cup Retryable
                     /\ p[u] = TerminalRow("dead", r[u].failures, now)
  BY DEF Reconciled, TakesEarliest, Abandoned

LEMMA PrunedRows ==
  ASSUME NEW r, NEW status, NEW conf, NEW limit, NEW cutoff
  PROVE  LET p == Pruned(r, status, conf, limit, cutoff)
         IN  /\ p = [u \in Updates |-> p[u]]
             /\ \A u \in Updates : p[u] = r[u] \/ (u < conf /\ p[u] = NoRow)
  BY DEF Pruned, TakesEarliest, Prunable

LEMMA SweptRows ==
  ASSUME NEW r, NEW conf, NEW now
  PROVE  LET p == Swept(r, conf, now)
         IN  /\ p = [u \in Updates |-> p[u]]
             /\ \A u \in Updates : SweptOutcome(r[u], p[u], u, conf, now)
  BY ReconciledRows, PrunedRows DEF Swept, SweptOutcome

-----------------------------------------------------------------------------
(* Initial states.                                                         *)
LEMMA JournalStarts == JournalInit => JournalInv
<1> SUFFICES ASSUME JournalInit PROVE JournalInv
  OBVIOUS
<1>1. JournalTypeOK
  BY JournalRowTypes DEF JournalInit, JournalTypeOK
<1>2. RowsWellFormed /\ BudgetLeft
  <2>1. \A u \in Updates : SoundRow(rows[u])
    BY SoundRows DEF JournalInit
  <2> QED BY <2>1, SoundRowsIff
<1>3. CheckpointOrdered /\ CheckpointBacked
  BY DEF JournalInit, CheckpointOrdered, CheckpointBacked
<1> QED BY <1>1, <1>2, <1>3 DEF JournalInv, Safe

(***************************************************************************)
(* Every transaction is one of two kinds: it writes one row, which keeps   *)
(* its outcome unless it had none, and may move next_offset just above     *)
(* that row when the row is terminal; or it sweeps, and moves only         *)
(* confirmed_offset.  The invariant and the action properties follow from  *)
(* this shape alone.                                                       *)
(***************************************************************************)
WriteStep(u, row) ==
  /\ row \in Row /\ SoundRow(row)
  /\ \/ row = rows[u]
     \/ ~IsTerminal(rows, u)
  /\ row.status = "dead" /\ rows[u].status # "dead" => row.failures >= MaxFailures
  /\ rows' = [rows EXCEPT ![u] = row]
  /\ UNCHANGED confirmedOffset
  /\ \/ UNCHANGED nextOffset
     \/ /\ row.status \in Terminal
        /\ nextOffset < u + 1
        /\ nextOffset' = u + 1

SweepStep(conf, now) ==
  /\ conf \in Nat /\ now \in Times
  /\ confirmedOffset <= conf /\ conf <= nextOffset
  /\ rows' = Swept(rows, conf, now)
  /\ confirmedOffset' = conf
  /\ UNCHANGED nextOffset

LEMMA AdvanceShape ==
  ASSUME JournalInv, NEW u \in Updates, AdvanceNextOffset(u + 1)
  PROVE  /\ UNCHANGED confirmedOffset
         /\ \/ UNCHANGED nextOffset
            \/ nextOffset < u + 1 /\ nextOffset' = u + 1
  BY DEF AdvanceNextOffset, JournalInv, JournalTypeOK

LEMMA BeginShape ==
  ASSUME JournalInv, NEW u \in Updates, NEW o \in Owners, Begin(u, o)
  PROVE  \E row \in Row : WriteStep(u, row)
<1> USE DEF JournalInv, JournalTypeOK, Safe
<1>1. rows[u] \in Row /\ SoundRow(rows[u]) /\ rows[u].failures \in Nat
  BY SoundRowsIff DEF Row
<1>2. ASSUME NEW now \in Times, NEW lease \in Times, BeginFresh(u, o, now, lease)
      PROVE  WriteStep(u, HeldRow("running", 0, o, lease))
  <2>0. 0 \in Nat /\ 0 < MaxFailures /\ "running" \in Active
    BY JournalConstants DEF Active
  <2>1. /\ HeldRow("running", 0, o, lease) \in Row
        /\ SoundRow(HeldRow("running", 0, o, lease))
    BY <2>0, JournalRowTypes, SoundRows
  <2>3. HeldRow("running", 0, o, lease).status = "running"
    BY DEF HeldRow
  <2>2. ~IsTerminal(rows, u)
    BY <1>2 DEF BeginFresh, IsTerminal, Terminal
  <2> QED BY <1>2, <2>1, <2>2, <2>3 DEF BeginFresh, SetRow, WriteStep
<1>3. ASSUME BeginTerminal(u)
      PROVE  WriteStep(u, rows[u])
  BY <1>1, <1>3, AdvanceShape DEF BeginTerminal, WriteStep, IsTerminal
<1>4. ASSUME NEW now \in Times, BeginExhausted(u, now)
      PROVE  WriteStep(u, TerminalRow("dead", ChargedFailures(u), now))
  <2>1. ChargedFailures(u) \in Nat /\ ChargedFailures(u) >= MaxFailures
    BY <1>1, <1>4 DEF BeginExhausted, Poisoned, ChargedFailures
  <2>2. TerminalRow("dead", ChargedFailures(u), now).status = "dead"
    BY DEF TerminalRow, NoRow
  <2>3. TerminalRow("dead", ChargedFailures(u), now).failures =
          ChargedFailures(u)
    BY DEF TerminalRow, NoRow
  <2>4. ~IsTerminal(rows, u)
    BY <1>4
       DEF BeginExhausted, Expired, IsTerminal, Active,
           Terminal
  <2> QED
    BY <1>4, <2>1, <2>2, <2>3, <2>4, JournalRowTypes, SoundRows, AdvanceShape
       DEF BeginExhausted, SetRow, WriteStep, Terminal
<1>5. ASSUME NEW now \in Times, NEW lease \in Times, BeginReclaim(u, o, now, lease)
      PROVE  WriteStep(u, HeldRow("running", ChargedFailures(u), o, lease))
  <2>1. ~IsTerminal(rows, u) /\ rows[u].failures < MaxFailures
    BY <1>1, <1>5
       DEF BeginReclaim, Reclaimable, Expired,
           IsTerminal, SoundRow, Active, Terminal,
           Retryable
  <2>2. ChargedFailures(u) \in Nat /\ ChargedFailures(u) < MaxFailures
    BY <1>1, <1>5, <2>1, JournalConstants
       DEF BeginReclaim, Reclaimable, Poisoned,
           ChargedFailures, Retryable
  <2> QED
    BY <1>5, <2>1, <2>2, JournalRowTypes, SoundRows
       DEF BeginReclaim, SetRow, WriteStep, HeldRow,
           Active
<1>6. \A f \in Nat, l \in Times : HeldRow("running", f, o, l) \in Row
  BY JournalRowTypes DEF Active
<1>7. \A f \in Nat, t \in Times : TerminalRow("dead", f, t) \in Row
  BY JournalRowTypes DEF Terminal
<1>8. ChargedFailures(u) \in Nat
  BY <1>1 DEF ChargedFailures
<1> QED BY <1>1, <1>2, <1>3, <1>4, <1>5, <1>6, <1>7, <1>8 DEF Begin

LEMMA SettleShape ==
  ASSUME JournalInv, NEW u \in Updates, NEW o \in Owners, Settle(u, o)
  PROVE  \E row \in Row : WriteStep(u, row)
<1> USE DEF JournalInv, JournalTypeOK, Safe
<1>1. rows[u] \in Row /\ SoundRow(rows[u]) /\ rows[u].failures \in Nat
  BY SoundRowsIff DEF Row
<1> DEFINE held == rows[u].failures
<1>2. Owns(u, o) => ~IsTerminal(rows, u) /\ held < MaxFailures
  BY <1>1 DEF Owns, IsTerminal, SoundRow, Terminal
<1>3. ASSUME NEW now \in Times, CompleteUpdateAttempt(u, o, now)
      PROVE  /\ WriteStep(u, TerminalRow("done", held, now))
             /\ TerminalRow("done", held, now) \in Row
  BY <1>1, <1>2, <1>3, JournalRowTypes, SoundRows, AdvanceShape
     DEF CompleteUpdateAttempt, SetRow, WriteStep, TerminalRow,
         NoRow, Terminal
<1>4. ASSUME AbortUpdateAttempt(u, o)
      PROVE  /\ WriteStep(u, IdleRow("pending", held))
             /\ IdleRow("pending", held) \in Row
  BY <1>1, <1>2, <1>4, JournalRowTypes, SoundRows
     DEF AbortUpdateAttempt, SetRow, WriteStep, IdleRow,
         NoRow, Retryable
<1>5. ASSUME NEW now \in Times, FailDead(u, o, now)
      PROVE  /\ WriteStep(u, TerminalRow("dead", held + 1, now))
             /\ TerminalRow("dead", held + 1, now) \in Row
  <2>1. held + 1 \in Nat /\ held + 1 >= MaxFailures /\ ~IsTerminal(rows, u)
    BY <1>1, <1>2, <1>5 DEF FailDead
  <2>2. /\ TerminalRow("dead", held + 1, now) \in Row
        /\ SoundRow(TerminalRow("dead", held + 1, now))
    BY <2>1, JournalRowTypes, SoundRows DEF Terminal
  <2>3. /\ TerminalRow("dead", held + 1, now).failures = held + 1
        /\ TerminalRow("dead", held + 1, now).status = "dead"
    BY DEF TerminalRow, NoRow
  <2> QED BY <1>5, <2>1, <2>2, <2>3, AdvanceShape
             DEF FailDead, SetRow, WriteStep, Terminal
<1>6. ASSUME NEW now \in Times, NEW hold \in Times \cup {NoTime},
             FailLive(u, o, now, hold)
      PROVE  \E row \in Row : WriteStep(u, row)
  <2>1. held + 1 \in Nat /\ held + 1 < MaxFailures /\ ~IsTerminal(rows, u)
    BY <1>1, <1>2, <1>6 DEF FailLive
  <2>2. CASE hold = NoTime /\ SetRow(u, IdleRow("failed", held + 1))
    <3>1. /\ IdleRow("failed", held + 1) \in Row
          /\ SoundRow(IdleRow("failed", held + 1))
          /\ IdleRow("failed", held + 1).status = "failed"
      BY <2>1, JournalRowTypes, SoundRows
         DEF Retryable, IdleRow, NoRow
    <3>2. WriteStep(u, IdleRow("failed", held + 1))
      BY <1>6, <2>1, <2>2, <3>1 DEF FailLive, SetRow, WriteStep
    <3> QED BY <3>1, <3>2
  <2>3. CASE hold > now /\ SetRow(u, HeldRow("stuck", held + 1, o, hold))
    <3>1. hold \in Times
      BY <2>3, TimesPositive DEF NoTime
    <3>2. /\ HeldRow("stuck", held + 1, o, hold) \in Row
          /\ SoundRow(HeldRow("stuck", held + 1, o, hold))
          /\ HeldRow("stuck", held + 1, o, hold).status = "stuck"
      BY <2>1, <3>1, JournalRowTypes, SoundRows DEF Active, HeldRow
    <3>3. WriteStep(u, HeldRow("stuck", held + 1, o, hold))
      BY <1>6, <2>1, <2>3, <3>2 DEF FailLive, SetRow, WriteStep
    <3> QED BY <3>2, <3>3
  <2> QED BY <1>6, <2>2, <2>3 DEF FailLive
<1> QED BY <1>3, <1>4, <1>5, <1>6 DEF Settle, FailUpdateAttempt

LEMMA JournalShape ==
  ASSUME JournalInv, JournalNext
  PROVE  \/ \E u \in Updates, row \in Row : WriteStep(u, row)
         \/ \E conf \in Nat, now \in Times : SweepStep(conf, now)
         \/ UNCHANGED journal
<1> USE DEF JournalInv, JournalTypeOK, Safe, CheckpointOrdered
<1>1. CASE \E u \in Updates, o \in Owners : Begin(u, o) \/ Settle(u, o)
  BY <1>1, BeginShape, SettleShape
<1>2. CASE ConfirmAny
  <2>1. PICK u \in Updates, now \in Times : ConfirmUpdateOffset(u + 1, now)
    BY <1>2 DEF ConfirmAny
  <2>2. u + 1 \in Nat
    BY JournalConstants
  <2>3. CASE u + 1 <= confirmedOffset
    BY <2>1, <2>3 DEF ConfirmUpdateOffset
  <2>4. CASE ~(u + 1 <= confirmedOffset)
    <3>1. SweepStep(u + 1, now)
      BY <2>1, <2>2, <2>4 DEF ConfirmUpdateOffset, SweepStep
    <3> QED BY <2>2, <3>1
  <2> QED BY <2>3, <2>4
<1>3. CASE MaintainJournal
  <2>1. PICK now \in Times : PruneTelegramUpdateJournal(now)
    BY <1>3 DEF MaintainJournal
  <2>2. SweepStep(confirmedOffset, now)
    BY <2>1 DEF PruneTelegramUpdateJournal, SweepStep
  <2> QED BY <2>2
<1> QED BY <1>1, <1>2, <1>3 DEF JournalNext

-----------------------------------------------------------------------------
(* Preservation, by kind of step.                                          *)

LEMMA RowWriteKeeps ==
  ASSUME JournalInv, NEW u \in Updates, NEW row \in Row, WriteStep(u, row)
  PROVE  JournalInv'
<1> USE DEF JournalInv, JournalTypeOK, Safe, WriteStep
<1>1. u + 1 \in Nat
  BY JournalConstants
<1>2. JournalTypeOK'
  BY <1>1
<1>3. \A v \in Updates : SoundRow(rows'[v])
  BY SoundRowsIff
<1>4. (RowsWellFormed /\ BudgetLeft)'
  BY <1>3 DEF RowsWellFormed, BudgetLeft, SoundRow, IsTerminal
<1>5. CheckpointOrdered'
  BY <1>1 DEF CheckpointOrdered
<1>6. CheckpointBacked'
  <2> SUFFICES ASSUME NEW v \in Updates, v + 1 = nextOffset', confirmedOffset' < nextOffset'
               PROVE  IsTerminal(rows', v)
    BY DEF CheckpointBacked
  <2>1. CASE UNCHANGED nextOffset
    <3>1. IsTerminal(rows, v)
      BY <2>1 DEF CheckpointBacked
    <3>2. rows'[v] = rows[v]
      BY <3>1
    <3> QED BY <3>1, <3>2 DEF IsTerminal
  <2>2. CASE row.status \in Terminal /\ nextOffset' = u + 1
    <3>1. v = u
      BY <2>2, JournalConstants
    <3> QED BY <2>2, <3>1 DEF IsTerminal
  <2> QED BY <2>1, <2>2
<1> QED BY <1>2, <1>4, <1>5, <1>6

LEMMA SweepKeepsJournal ==
  ASSUME JournalInv, NEW conf \in Nat, NEW now \in Times, SweepStep(conf, now)
  PROVE  JournalInv'
<1> USE DEF JournalInv, JournalTypeOK, Safe, SweepStep
<1>1. /\ rows' = [u \in Updates |-> rows'[u]]
      /\ \A u \in Updates : SweptOutcome(rows[u], rows'[u], u, conf, now)
  BY SweptRows
<1>2. \A u \in Updates : rows[u] \in Row /\ rows[u].failures \in Nat
  BY DEF Row
<1>3. \A u \in Updates : rows'[u] \in Row
  BY <1>1, <1>2, JournalRowTypes DEF SweptOutcome, Terminal
<1>4. JournalTypeOK'
  <2>1. rows' \in [Updates -> Row]
    BY <1>1, <1>3
  <2> QED BY <2>1
<1>5. \A u \in Updates : SoundRow(rows'[u])
  <2>1. \A u \in Updates : SoundRow(rows[u])
    BY SoundRowsIff
  <2> QED BY <1>1, <1>2, <2>1, SoundRows DEF SweptOutcome, Terminal
<1>6. (RowsWellFormed /\ BudgetLeft)'
  BY <1>5 DEF RowsWellFormed, BudgetLeft, SoundRow, IsTerminal
<1>7. CheckpointOrdered'
  BY DEF CheckpointOrdered
<1>8. CheckpointBacked'
  <2> SUFFICES ASSUME NEW v \in Updates, v + 1 = nextOffset', confirmedOffset' < nextOffset'
               PROVE  IsTerminal(rows', v)
    BY DEF CheckpointBacked
  <2>1. IsTerminal(rows, v) /\ ~(v < conf)
    BY JournalConstants DEF CheckpointBacked, CheckpointOrdered
  <2>2. rows'[v] = rows[v]
    BY <1>1, <2>1 DEF SweptOutcome
  <2> QED BY <2>1, <2>2 DEF IsTerminal
<1> QED BY <1>4, <1>6, <1>7, <1>8

LEMMA StutterKeepsJournal == JournalInv /\ UNCHANGED journal => JournalInv'
  BY
     DEF journal, JournalInv, JournalTypeOK, Safe, RowsWellFormed,
         BudgetLeft, CheckpointOrdered,
         CheckpointBacked, IsTerminal

LEMMA JournalStepKeeps == JournalInv /\ [JournalNext]_journal => JournalInv'
  BY JournalShape, RowWriteKeeps, SweepKeepsJournal, StutterKeepsJournal

-----------------------------------------------------------------------------
LEMMA JournalInvHolds == JournalSpec => []JournalInv
<1>1. JournalInit => JournalInv
  BY JournalStarts
<1>2. JournalInv /\ [JournalNext]_journal => JournalInv'
  BY JournalStepKeeps
<1> QED BY <1>1, <1>2, PTL DEF JournalSpec

(* The journal's columns keep their types under every operation.           *)
THEOREM JournalTypeCorrect == JournalSpec => []JournalTypeOK
<1>1. JournalInv => JournalTypeOK
  BY DEF JournalInv
<1> QED BY <1>1, JournalInvHolds, PTL

(* Active rows are leased, the poison budget holds, and the durable offset *)
(* is at or above the confirmed one and rests on a terminal row.           *)
THEOREM JournalSafe == JournalSpec => []Safe
<1>1. JournalInv => Safe
  BY DEF JournalInv
<1> QED BY <1>1, JournalInvHolds, PTL

-----------------------------------------------------------------------------
(* A done or dead outcome survives until Telegram has confirmed it.        *)
THEOREM OutcomesFinal == JournalSpec => TerminalRowsAreFinal
<1> DEFINE Kept == \A u \in Updates :
                     IsTerminal(rows, u) =>
                       \/ rows'[u] = rows[u]
                       \/ rows'[u] = NoRow /\ u < confirmedOffset'
<1>1. ASSUME JournalInv, [JournalNext]_journal PROVE [Kept]_journal
  <2>1. ASSUME NEW u \in Updates, NEW row \in Row, WriteStep(u, row) PROVE Kept
    BY <1>1, <2>1 DEF WriteStep, JournalInv, JournalTypeOK
  <2>2. ASSUME NEW conf \in Nat, NEW now \in Times, SweepStep(conf, now) PROVE Kept
    <3>1. \A u \in Updates : SweptOutcome(rows[u], rows'[u], u, conf, now)
      BY <2>2, SweptRows DEF SweepStep
    <3> QED BY <2>2, <3>1
            DEF SweepStep, SweptOutcome, IsTerminal, Terminal,
                Active, Retryable
  <2> HIDE DEF Kept
  <2> QED BY <1>1, <2>1, <2>2, JournalShape
<1> QED BY <1>1, JournalInvHolds, PTL DEF JournalSpec, TerminalRowsAreFinal

(* Both offsets are monotonic, and the durable one moves only in the       *)
(* transaction that settles the update just below it.                      *)
THEOREM OffsetsBacked == JournalSpec => OffsetsAdvanceWithOutcome
<1> DEFINE Moved == /\ nextOffset <= nextOffset' /\ confirmedOffset <= confirmedOffset'
                    /\ nextOffset' # nextOffset =>
                         \E u \in Updates : u + 1 = nextOffset' /\ IsTerminal(rows', u)
<1>1. ASSUME JournalInv, [JournalNext]_journal PROVE [Moved]_journal
  <2>1. ASSUME NEW u \in Updates, NEW row \in Row, WriteStep(u, row) PROVE Moved
    <3>1. u + 1 \in Nat
      BY JournalConstants
    <3> QED BY <1>1, <2>1, <3>1
               DEF WriteStep, JournalInv, JournalTypeOK, IsTerminal
  <2>2. ASSUME NEW conf \in Nat, NEW now \in Times, SweepStep(conf, now) PROVE Moved
    BY <1>1, <2>2 DEF SweepStep, JournalInv, JournalTypeOK
  <2> HIDE DEF Moved
  <2> QED BY <1>1, <2>1, <2>2, JournalShape
<1> QED BY <1>1, JournalInvHolds, PTL DEF JournalSpec, OffsetsAdvanceWithOutcome

(* No update is poisoned early: dead means MaxFailures counted failures or *)
(* an offset confirmed above it.                                           *)
THEOREM DeathEarned == JournalSpec => DeadIsEarned
<1> DEFINE Earned == \A u \in Updates :
                       rows'[u].status = "dead" /\ rows[u].status # "dead" =>
                         \/ rows'[u].failures >= MaxFailures
                         \/ u < confirmedOffset'
<1>1. ASSUME JournalInv, [JournalNext]_journal PROVE [Earned]_journal
  <2>1. ASSUME NEW u \in Updates, NEW row \in Row, WriteStep(u, row) PROVE Earned
    BY <1>1, <2>1 DEF WriteStep, JournalInv, JournalTypeOK
  <2>2. ASSUME NEW conf \in Nat, NEW now \in Times, SweepStep(conf, now) PROVE Earned
    <3>1. \A u \in Updates : SweptOutcome(rows[u], rows'[u], u, conf, now)
      BY <2>2, SweptRows DEF SweepStep
    <3> QED BY <2>2, <3>1 DEF SweepStep, SweptOutcome
  <2> HIDE DEF Earned
  <2> QED BY <1>1, <2>1, <2>2, JournalShape
<1> QED BY <1>1, JournalInvHolds, PTL DEF JournalSpec, DeadIsEarned

-----------------------------------------------------------------------------
(* The poller.  Its inductive invariant.                                   *)

\* Who is between its start and its end holds the locks.
Alone(o) == proc[o].pc \notin {"down", "closed"} => lock = o

\* A handler executes in the handle state, or is stuck and left behind.
Executing(o) ==
  proc[o].live =>
    /\ proc[o].cur \in Updates
    /\ \/ proc[o].pc = "handle"
       \/ proc[o].pc \in {"failing", "returned"} /\ proc[o].err = "stuck"

Holding == {"begin", "handle", "complete", "failing", "abort"}
AboveUpdate(n) == n = 0 \/ \E u \in Updates : n = u + 1 /\ server[u] # "unsent"

\* The update in hand is the oldest that Telegram had at or above the offset.
InOrder(o) ==
  /\ proc[o].pc \in Holding => proc[o].cur \in Updates
  /\ proc[o].pc \in Holding \cup {"confirm"} /\ proc[o].cur # NoUpdate =>
       /\ server[proc[o].cur] # "unsent"
       /\ proc[o].offset <= proc[o].cur
       /\ \A v \in Updates : server[v] = "queued" /\ v < proc[o].cur => v < proc[o].offset

\* What OffsetDurable says of one process, and what offsets there are.
Durable(o) ==
  proc[o].pc \notin {"down", "load", "returned", "closed"} =>
    /\ confirmedOffset <= proc[o].offset /\ proc[o].offset <= nextOffset
    /\ AboveUpdate(proc[o].offset)

\* What ClaimHeld says of one process.
Claiming(o) ==
  proc[o].pc \in {"handle", "complete", "failing"} =>
    Owns(proc[o].cur, o) /\ outcome[proc[o].cur] = "none"

\* What TaintedProcessesStop says of one process, and why it failed.
Clean(o) ==
  o \in tainted =>
    /\ proc[o].pc \in {"failing", "abort", "returned", "closed"}
    /\ proc[o].pc = "failing" => proc[o].err \in {"panic", "stuck"}

Worker(o) ==
  Alone(o) /\ Executing(o) /\ InOrder(o) /\ Durable(o) /\ Claiming(o) /\ Clean(o)

\* A lease is never further ahead than the failures that were counted, and a
\* row that may still be executed has failures left.
GoodRow(row) ==
  /\ row.status \notin Terminal => row.failures < MaxFailures
  /\ row.status = "running" => row.lease \in Times /\ row.lease <= row.failures + 2
  /\ row.status = "stuck"   => row.lease \in Times /\ row.lease <= row.failures + 1

Rows == \A u \in Updates : GoodRow(rows[u])

\* What the rows, as long as they are kept, say of the outcomes.
Recorded ==
  \A u \in Updates :
    /\ IsTerminal(rows, u) => outcome[u] # "none"
    /\ outcome[u] # "none" => IsTerminal(rows, u) \/ u < confirmedOffset
    /\ outcome[u] = "abandoned" => u < confirmedOffset
    /\ rows[u].status # "absent" \/ outcome[u] # "none" => server[u] # "unsent"

\* Below the durable offset only what Telegram gave up on may be unsettled.
Settled ==
  \A u \in Updates :
    /\ server[u] \in {"queued", "confirmed"} /\ u < nextOffset =>
         outcome[u] \in {"done", "poisoned"}
    /\ server[u] = "confirmed" => u < nextOffset

\* The part that only the journal, the outcomes and Telegram's view matter to.
History ==
  /\ JournalTypeOK
  /\ server \in [Updates -> {"unsent", "queued", "confirmed", "expired"}]
  /\ outcome \in [Updates -> {"none", "done", "poisoned", "abandoned"}]
  /\ confirmedOffset <= nextOffset
  /\ AboveUpdate(nextOffset)
  /\ Rows /\ Recorded /\ Settled

IInv == TypeOK /\ History /\ \A o \in Owners : Worker(o)

-----------------------------------------------------------------------------
(* Rows and readings.                                                       *)

LEMMA FirstReadings == {1, 2} \subseteq Times /\ \A t \in Times : t \in Nat /\ t > 0
  BY JournalConstants, TimesAssumption, ReadingsAssumption

\* A lease that a lost owner leaves behind is a reading, and so is the next.
LEMMA LeaseReadings ==
  ASSUME NEW row \in Row, GoodRow(row), row.status \in Active
  PROVE  /\ row.lease \in Times /\ row.lease \in Nat /\ row.failures \in Nat
         /\ row.status = "running" /\ row.failures + 1 < MaxFailures => row.lease + 1 \in Times
         /\ row.status = "stuck" => row.lease + 1 \in Times
<1>1. row.failures \in Nat /\ row.failures < MaxFailures /\ row.lease \in Times
  BY DEF GoodRow, Row, Active, Terminal
<1>2. row.lease \in Nat /\ row.lease > 0
  BY <1>1, FirstReadings
<1>3. \A t \in Nat : 0 < t /\ t <= MaxFailures + 1 => t \in Times
  BY JournalConstants, TimesAssumption, ReadingsAssumption
<1> QED
  BY <1>1, <1>2, <1>3, JournalConstants DEF GoodRow

LEMMA RowsMade ==
  ASSUME NEW f \in Nat
  PROVE  /\ \A o \in Owners, l \in Times :
              /\ HeldRow("running", f, o, l) \in Row
              /\ HeldRow("stuck", f, o, l) \in Row
              /\ f < MaxFailures /\ l <= f + 2 => GoodRow(HeldRow("running", f, o, l))
              /\ f < MaxFailures /\ l <= f + 1 => GoodRow(HeldRow("stuck", f, o, l))
         /\ \A s \in Retryable :
              /\ IdleRow(s, f) \in Row
              /\ f < MaxFailures => GoodRow(IdleRow(s, f))
         /\ \A s \in Terminal, t \in Times :
              /\ TerminalRow(s, f, t) \in Row
              /\ GoodRow(TerminalRow(s, f, t))
<1> USE DEF NoRow, Row, Status, Active, Retryable,
            Terminal, NoTime
<1>1. ASSUME NEW o \in Owners, NEW l \in Times, NEW s \in Active
      PROVE  HeldRow(s, f, o, l) \in Row
  BY <1>1 DEF HeldRow
<1>2. ASSUME NEW o \in Owners, NEW l \in Times
      PROVE  /\ f < MaxFailures /\ l <= f + 2 => GoodRow(HeldRow("running", f, o, l))
             /\ f < MaxFailures /\ l <= f + 1 => GoodRow(HeldRow("stuck", f, o, l))
  BY <1>2 DEF HeldRow, GoodRow
<1>3. ASSUME NEW s \in Retryable
      PROVE  /\ IdleRow(s, f) \in Row
             /\ f < MaxFailures => GoodRow(IdleRow(s, f))
  BY <1>3 DEF IdleRow, GoodRow
<1>4. ASSUME NEW s \in Terminal, NEW t \in Times
      PROVE  /\ TerminalRow(s, f, t) \in Row
             /\ GoodRow(TerminalRow(s, f, t))
  BY <1>4 DEF TerminalRow, GoodRow
<1>5. "running" \in Active /\ "stuck" \in Active
  OBVIOUS
<1> QED
  BY <1>1, <1>2, <1>3, <1>4, <1>5

LEMMA NoRowGood == NoRow \in Row /\ GoodRow(NoRow)
  BY JournalConstants
     DEF GoodRow, NoRow, Row, Status, Active,
         Retryable, Terminal, NoTime

-----------------------------------------------------------------------------
(* What a sweep does to a row: nothing, or, below the confirmed offset,     *)
(* abandon an unfinished one or remove a finished one.                      *)
SweptRow(row, new, u, conf, now) ==
  \/ new = row
  \/ /\ u < conf
     /\ \/ new = NoRow
        \/ row.status # "absent" /\ new = TerminalRow("dead", row.failures, now)

LEMMA SweepRows ==
  ASSUME NEW r, NEW conf, NEW now
  PROVE  /\ Swept(r, conf, now) = [u \in Updates |-> Swept(r, conf, now)[u]]
         /\ \A u \in Updates : SweptRow(r[u], Swept(r, conf, now)[u], u, conf, now)
  BY SweptRows DEF SweptOutcome, SweptRow, Active, Retryable

-----------------------------------------------------------------------------
(* What the transactions of the poller do.                                  *)

\* One row is written, which keeps its outcome unless it had none, and the
\* durable offset may move just above it when it has one.
Wrote(u, row) ==
  /\ row \in Row /\ GoodRow(row) /\ row.status # "absent"
  /\ IsTerminal(rows, u) => row = rows[u]
  /\ row.status = "dead" /\ ~IsTerminal(rows, u) => row.failures >= MaxFailures
  /\ rows' = [rows EXCEPT ![u] = row]
  /\ UNCHANGED confirmedOffset
  /\ \/ UNCHANGED nextOffset
     \/ /\ row.status \in Terminal
        /\ nextOffset < u + 1
        /\ nextOffset' = u + 1

\* Or the rows below an offset are swept.
Sweeps(conf, now) ==
  /\ conf \in Nat /\ now \in Times
  /\ confirmedOffset <= conf /\ conf <= nextOffset
  /\ rows' = Swept(rows, conf, now)
  /\ confirmedOffset' = conf
  /\ UNCHANGED nextOffset

\* What Committed does beside the transaction.
Noted ==
  /\ outcome' = [u \in Updates |->
                   IF outcome[u] = "none" THEN Fate(rows'[u]) ELSE outcome[u]]
  /\ UNCHANGED <<server, lock>>

\* A write settles the update it is about, and no other one.
LEMMA WroteOutcomes ==
  ASSUME History, NEW u \in Updates, NEW row, Wrote(u, row), Noted,
         confirmedOffset <= u
  PROVE  /\ \A v \in Updates \ {u} : outcome'[v] = outcome[v] /\ rows'[v] = rows[v]
         /\ rows'[u] = row
         /\ row.status \in Terminal => outcome'[u] \in {"done", "poisoned"}
         /\ row.status \notin Terminal =>
              outcome[u] = "none" /\ outcome'[u] = "none"
<1> USE DEF History, Wrote, Noted, JournalTypeOK
<1>1. \A v \in Updates \ {u} : rows'[v] = rows[v]
  OBVIOUS
<1>2. \A v \in Updates \ {u} : outcome'[v] = outcome[v]
  BY <1>1 DEF Recorded, Fate, IsTerminal, Terminal
<1>3. rows'[u] = row
  OBVIOUS
<1>4. u \in Nat /\ ~(u < confirmedOffset)
  BY JournalConstants
<1>5. CASE IsTerminal(rows, u)
  <2>1. row = rows[u] /\ outcome[u] \in {"done", "poisoned"} /\ outcome'[u] = outcome[u]
    BY <1>4, <1>5 DEF Recorded
  <2> QED
    BY <1>1, <1>2, <1>3, <1>5, <2>1 DEF IsTerminal
<1>6. CASE ~IsTerminal(rows, u)
  <2>1. outcome[u] = "none"
    BY <1>4, <1>6 DEF Recorded
  <2>2. outcome'[u] = Fate(row)
    BY <1>3, <2>1
  <2>3. row.failures \in Nat /\ MaxFailures \in Nat
    BY JournalConstants DEF Row
  <2> QED
    BY <1>1, <1>2, <1>3, <1>6, <2>1, <2>2, <2>3 DEF Fate, Terminal
<1> QED
  BY <1>5, <1>6

LEMMA WroteHistory ==
  ASSUME History, NEW u \in Updates, NEW row, Wrote(u, row), Noted,
         confirmedOffset <= u, server[u] # "unsent",
         \A v \in Updates : server[v] = "queued" /\ v < u => v < nextOffset
  PROVE  History'
<1> USE DEF History
<1>1. /\ \A v \in Updates \ {u} : outcome'[v] = outcome[v] /\ rows'[v] = rows[v]
      /\ rows'[u] = row
      /\ row.status \in Terminal => outcome'[u] \in {"done", "poisoned"}
      /\ row.status \notin Terminal =>
              outcome[u] = "none" /\ outcome'[u] = "none"
  BY WroteOutcomes
<1>2. Updates \subseteq Nat /\ u + 1 \in Nat
  BY JournalConstants
<1>3. JournalTypeOK' /\ confirmedOffset' <= nextOffset' /\ AboveUpdate(nextOffset)'
  BY <1>2 DEF Wrote, Noted, JournalTypeOK, AboveUpdate
<1>4. outcome' \in [Updates -> {"none", "done", "poisoned", "abandoned"}] /\ server' = server
  <2>1. \A v \in Updates : outcome'[v] \in {"none", "done", "poisoned", "abandoned"}
    BY <1>1
  <2> QED
    BY <2>1 DEF Noted
<1>5. Rows'
  BY <1>1 DEF Rows, Wrote
<1>6. Recorded'
  BY <1>1, <1>2, <1>4 DEF Recorded, Wrote, IsTerminal
<1>7. Settled'
  <2> SUFFICES ASSUME NEW v \in Updates
               PROVE  /\ server[v] \in {"queued", "confirmed"} /\ v < nextOffset' =>
                           outcome'[v] \in {"done", "poisoned"}
                      /\ server[v] = "confirmed" => v < nextOffset'
    BY <1>4 DEF Settled
  <2>1. nextOffset <= nextOffset' /\ nextOffset \in Nat /\ nextOffset' \in Nat
    BY <1>2, <1>3 DEF Wrote, JournalTypeOK
  <2>2. CASE v < nextOffset
    BY <1>1, <1>2, <2>1, <2>2 DEF Settled
  <2>3. CASE ~(v < nextOffset)
    <3>1. server[v] # "confirmed"
      BY <2>3 DEF Settled
    <3>2. server[v] = "queued" /\ v < nextOffset' => v = u /\ row.status \in Terminal
      BY <1>2, <2>1, <2>3 DEF Wrote
    <3> QED
      BY <1>1, <3>1, <3>2
  <2> QED
    BY <2>2, <2>3
<1> QED
  BY <1>3, <1>4, <1>5, <1>6, <1>7

\* A sweep settles only what Telegram has given up on, and touches nothing
\* from the offset on.
LEMMA SweepHistory ==
  ASSUME History, NEW conf, NEW now, Sweeps(conf, now), Noted
  PROVE  /\ History'
         /\ \A u \in Updates :
              /\ ~(u < conf) => rows'[u] = rows[u] /\ outcome'[u] = outcome[u]
              /\ \/ outcome'[u] = outcome[u]
                 \/ /\ outcome[u] = "none" /\ outcome'[u] = "abandoned"
                    /\ server[u] = "expired"
<1> USE DEF History
<1>1. /\ rows' = [u \in Updates |-> rows'[u]]
      /\ \A u \in Updates : SweptRow(rows[u], rows'[u], u, conf, now)
  BY SweepRows DEF Sweeps
<1>2. \A u \in Updates : rows[u] \in Row /\ rows[u].failures \in Nat
  BY DEF JournalTypeOK, Row
<1>3. Updates \subseteq Nat /\ MaxFailures \in Nat
  BY JournalConstants
<1>4. now \in Times /\ "dead" \in Terminal
  BY DEF Sweeps, Terminal
<1>5. \A u \in Updates : rows'[u] \in Row /\ GoodRow(rows'[u])
  BY <1>1, <1>2, <1>4, RowsMade, NoRowGood DEF SweptRow, Rows
<1>6. \A u \in Updates : ~(u < conf) => rows'[u] = rows[u]
  BY <1>1 DEF SweptRow
<1>7. ASSUME NEW u \in Updates
      PROVE  \/ outcome'[u] = outcome[u]
             \/ /\ outcome[u] = "none" /\ outcome'[u] = "abandoned"
                /\ server[u] = "expired" /\ u < conf
  <2>1. CASE outcome[u] # "none"
    BY <2>1 DEF Noted
  <2>2. CASE outcome[u] = "none"
    <3>1. ~IsTerminal(rows, u) /\ outcome'[u] = Fate(rows'[u])
      BY <2>2 DEF Recorded, Noted
    <3>2. CASE rows'[u] = rows[u] \/ rows'[u] = NoRow
      BY <2>2, <3>1, <3>2 DEF Fate, IsTerminal, Terminal, NoRow
    <3>3. CASE u < conf /\ rows[u].status # "absent" /\ rows'[u] = TerminalRow("dead", rows[u].failures, now)
                        /\ rows'[u] # rows[u]
      <4>1. rows[u].failures < MaxFailures
        BY <3>1 DEF Rows, GoodRow, IsTerminal
      <4>2. outcome'[u] = "abandoned"
        BY <1>2, <1>3, <3>1, <3>3, <4>1 DEF Fate, TerminalRow, NoRow
      <4>3. u < nextOffset
        BY <1>3, <3>3 DEF Sweeps, JournalTypeOK
      <4> QED
        BY <2>2, <3>3, <4>2, <4>3 DEF Settled, Recorded
    <3> QED
      BY <1>1, <3>2, <3>3 DEF SweptRow
  <2> QED
    BY <2>1, <2>2
<1>8. JournalTypeOK' /\ Rows' /\ confirmedOffset' <= nextOffset' /\ AboveUpdate(nextOffset)'
  <2>1. rows' \in [Updates -> Row]
    BY <1>1, <1>5
  <2> QED
    BY <1>5, <2>1 DEF Sweeps, Noted, JournalTypeOK, Rows, AboveUpdate
<1>9. Recorded'
  <2> SUFFICES ASSUME NEW u \in Updates
               PROVE  /\ IsTerminal(rows', u) => outcome'[u] # "none"
                      /\ outcome'[u] # "none" => IsTerminal(rows', u) \/ u < conf
                      /\ outcome'[u] = "abandoned" => u < conf
                      /\ rows'[u].status # "absent" \/ outcome'[u] # "none" =>
                           server[u] # "unsent"
    BY DEF Recorded, Sweeps, Noted
  <2>1. u < confirmedOffset => u < conf
    BY <1>3 DEF Sweeps, JournalTypeOK
  <2>2. outcome'[u] = IF outcome[u] = "none" THEN Fate(rows'[u]) ELSE outcome[u]
    BY DEF Noted
  <2>3. Fate(rows'[u]) = "none" <=> ~IsTerminal(rows', u)
    BY <1>3, <1>5 DEF Fate, IsTerminal, Terminal, Row
  <2>4. rows'[u].status # "absent" => rows[u].status # "absent"
    BY <1>1 DEF SweptRow, NoRow
  <2>5. CASE outcome[u] = "none"
    BY <1>7, <2>2, <2>3, <2>4, <2>5 DEF Recorded
  <2>6. CASE outcome[u] # "none"
    <3>1. rows'[u] = rows[u] \/ u < conf
      BY <1>1 DEF SweptRow
    <3> QED
      BY <2>1, <2>2, <2>6, <3>1 DEF Recorded, IsTerminal
  <2> QED
    BY <2>5, <2>6
<1>10. Settled' /\ server' = server
  BY <1>7 DEF Settled, Noted, Sweeps
<1>11. outcome' \in [Updates -> {"none", "done", "poisoned", "abandoned"}]
  <2>1. \A u \in Updates : outcome'[u] \in {"none", "done", "poisoned", "abandoned"}
    BY <1>7
  <2> QED
    BY <2>1 DEF Noted
<1> QED
  BY <1>6, <1>7, <1>8, <1>9, <1>10, <1>11

-----------------------------------------------------------------------------
(* The transactions, one by one.                                            *)

\* The row that was written is the one that is there now.
Writes(u) == Noted /\ Wrote(u, rows'[u])

LEMMA WritesRow ==
  ASSUME History, NEW u \in Updates, NEW row, Noted, Wrote(u, row)
  PROVE  Writes(u) /\ rows'[u] = row
  BY DEF History, JournalTypeOK, Wrote, Writes

LEMMA RowInHand ==
  ASSUME History, NEW u \in Updates
  PROVE  /\ rows[u] \in Row /\ GoodRow(rows[u]) /\ rows[u].failures \in Nat
         /\ rows[u].lease \in Nat
         /\ u \in Nat /\ u + 1 \in Nat
<1>1. rows[u] \in Row /\ GoodRow(rows[u]) /\ rows[u].failures \in Nat
  BY DEF History, Rows, JournalTypeOK, Row
<1>2. rows[u].lease \in Times \cup {0}
  BY <1>1 DEF Row, NoTime
<1> QED
  BY <1>1, <1>2, JournalConstants, FirstReadings

LEMMA Advances ==
  ASSUME History, NEW u \in Updates, AdvanceNextOffset(u + 1)
  PROVE  /\ UNCHANGED confirmedOffset /\ confirmedOffset <= u + 1 /\ u + 1 <= nextOffset'
         /\ \/ UNCHANGED nextOffset
            \/ nextOffset < u + 1 /\ nextOffset' = u + 1
  BY RowInHand DEF AdvanceNextOffset, History, JournalTypeOK

LEMMA ClaimWrites ==
  ASSUME History, NEW u \in Updates, NEW o \in Owners, CommitClaim(u, o)
  PROVE  /\ Writes(u) /\ UNCHANGED nextOffset
         /\ ~IsTerminal(rows, u)
         /\ rows'[u].status = "running" /\ rows'[u].owner = o
<1>1. Noted
  BY DEF CommitClaim, Committed, Noted
<1>2. ~IsTerminal(rows, u) /\ UNCHANGED <<nextOffset, confirmedOffset>>
  BY DEF CommitClaim, Committed, BeginFresh, BeginReclaim, Reclaimable,
         Expired, IsTerminal, Terminal, Active, Retryable
<1>3. ASSUME NEW f \in Nat, NEW l \in Times, f < MaxFailures, l <= f + 2,
             SetRow(u, HeldRow("running", f, o, l))
      PROVE  Writes(u) /\ rows'[u].status = "running" /\ rows'[u].owner = o
  <2> DEFINE row == HeldRow("running", f, o, l)
  <2>1. row \in Row /\ GoodRow(row) /\ row.status = "running" /\ row.owner = o
    BY <1>3, RowsMade DEF HeldRow
  <2>2. Wrote(u, row)
    BY <1>2, <1>3, <2>1 DEF Wrote, SetRow
  <2> HIDE DEF row
  <2> QED
    BY <1>1, <2>1, <2>2, WritesRow
<1>4. ASSUME NEW now \in Readings(u), BeginFresh(u, o, now, Later(now))
      PROVE  Writes(u) /\ rows'[u].status = "running" /\ rows'[u].owner = o
  <2>1. now = 1 /\ Later(now) = 2
    BY <1>4 DEF BeginFresh, Readings, Later, Active
  <2> QED
    BY <1>3, <1>4, <2>1, FirstReadings, JournalConstants DEF BeginFresh
<1>5. ASSUME NEW now \in Readings(u), BeginReclaim(u, o, now, Later(now))
      PROVE  Writes(u) /\ rows'[u].status = "running" /\ rows'[u].owner = o
  <2> DEFINE f == ChargedFailures(u)
  <2>1. SetRow(u, HeldRow("running", f, o, Later(now)))
    BY <1>5 DEF BeginReclaim
  <2>2. f \in Nat /\ f < MaxFailures
    BY <1>2, <1>5, RowInHand, JournalConstants
       DEF BeginReclaim, Reclaimable, Poisoned, ChargedFailures,
           Retryable, IsTerminal, GoodRow
  <2>3. CASE rows[u].status \in Retryable
    <3>1. now = 1
      BY <2>3 DEF Readings, Active, Retryable
    <3> QED
      BY <1>3, <2>1, <2>2, <3>1, FirstReadings DEF Later
  <2>4. CASE Expired(u, now) /\ ~Poisoned(u)
    <3>1. rows[u].status \in Active /\ now = rows[u].lease
      BY <2>4, RowInHand DEF Expired, LeaseLive, Readings
    <3>2. Later(now) \in Times
      BY <2>2, <2>4, <3>1, LeaseReadings, RowInHand, JournalConstants
         DEF Poisoned, ChargedFailures, Active, Later
    <3>3. Later(now) <= f + 2
      BY <3>1, RowInHand DEF GoodRow, ChargedFailures, Active, Later
    <3> QED
      BY <1>3, <2>1, <2>2, <3>2, <3>3
  <2> QED
    BY <1>5, <2>3, <2>4 DEF BeginReclaim, Reclaimable
<1> QED
  BY <1>2, <1>4, <1>5 DEF CommitClaim, Committed

LEMMA SettlesRow ==
  ASSUME History, NEW u \in Updates, NEW s \in Terminal, NEW f \in Nat, NEW t \in Times,
         Noted, ~IsTerminal(rows, u), s = "dead" => f >= MaxFailures,
         SetRow(u, TerminalRow(s, f, t)), AdvanceNextOffset(u + 1)
  PROVE  /\ Writes(u) /\ rows'[u].status = s
         /\ confirmedOffset <= u + 1 /\ u + 1 <= nextOffset'
<1> DEFINE row == TerminalRow(s, f, t)
<1>1. row \in Row /\ GoodRow(row) /\ row.status = s /\ row.failures = f
  BY RowsMade DEF TerminalRow, NoRow
<1>2. rows' = [rows EXCEPT ![u] = row]
  BY DEF SetRow
<1>3. s # "absent"
  BY DEF Terminal
<1> HIDE DEF row
<1>4. Wrote(u, row)
  BY <1>1, <1>2, <1>3, Advances DEF Wrote
<1> QED
  BY <1>1, <1>4, Advances, WritesRow

LEMMA SkipWrites ==
  ASSUME History, NEW u \in Updates, CommitSkip(u)
  PROVE  /\ Writes(u) /\ rows'[u].status \in Terminal
         /\ confirmedOffset <= u + 1 /\ u + 1 <= nextOffset'
<1>1. Noted
  BY DEF CommitSkip, Committed, Noted
<1>2. CASE BeginTerminal(u)
  <2>1. Wrote(u, rows[u])
    BY <1>2, RowInHand, Advances
       DEF BeginTerminal, IsTerminal, Terminal, Wrote, History, JournalTypeOK
  <2> QED
    BY <1>1, <1>2, <2>1, Advances, WritesRow DEF BeginTerminal, IsTerminal
<1>3. ASSUME NEW now \in Readings(u), BeginExhausted(u, now)
      PROVE  /\ Writes(u) /\ rows'[u].status \in Terminal
             /\ confirmedOffset <= u + 1 /\ u + 1 <= nextOffset'
  <2>1. rows[u].status \in Active /\ now = rows[u].lease
    BY <1>3, RowInHand
       DEF BeginExhausted, Expired, LeaseLive, Readings
  <2>2. now \in Times
    BY <2>1, LeaseReadings, RowInHand
  <2>3. ChargedFailures(u) \in Nat /\ ChargedFailures(u) >= MaxFailures
    BY <1>3, RowInHand DEF BeginExhausted, Poisoned, ChargedFailures
  <2>4. ~IsTerminal(rows, u) /\ "dead" \in Terminal
    BY <2>1 DEF IsTerminal, Terminal, Active
  <2> QED
    BY <1>1, <1>3, <2>2, <2>3, <2>4, SettlesRow DEF BeginExhausted
<1> QED
  BY <1>2, <1>3 DEF CommitSkip, Committed

LEMMA OwnRow ==
  ASSUME History, NEW u \in Updates, NEW o \in Owners, Owns(u, o)
  PROVE  /\ ~IsTerminal(rows, u) /\ rows[u].failures < MaxFailures
         /\ rows[u].failures \in Nat /\ MaxFailures \in Nat
  BY RowInHand, JournalConstants DEF Owns, IsTerminal, Terminal, GoodRow

LEMMA CompleteWrites ==
  ASSUME History, NEW u \in Updates, NEW o \in Owners, CommitComplete(u, o)
  PROVE  /\ Writes(u) /\ rows'[u].status = "done" /\ ~IsTerminal(rows, u)
         /\ confirmedOffset <= u + 1 /\ u + 1 <= nextOffset'
<1> USE DEF CommitComplete, Committed, CompleteUpdateAttempt
<1>1. ~IsTerminal(rows, u) /\ rows[u].failures \in Nat
  BY OwnRow
<1>2. Noted
  BY DEF Noted
<1>3. "done" \in Terminal /\ 1 \in Times
  BY FirstReadings DEF Terminal
<1> QED
  BY <1>1, <1>2, <1>3, SettlesRow

LEMMA DeadWrites ==
  ASSUME History, NEW u \in Updates, NEW o \in Owners, CommitDead(u, o)
  PROVE  /\ Writes(u) /\ rows'[u].status = "dead" /\ ~IsTerminal(rows, u)
         /\ confirmedOffset <= u + 1 /\ u + 1 <= nextOffset'
<1> USE DEF CommitDead, Committed, FailDead
<1>1. /\ ~IsTerminal(rows, u) /\ rows[u].failures + 1 \in Nat
      /\ rows[u].failures + 1 >= MaxFailures
  BY OwnRow
<1>2. Noted
  BY DEF Noted
<1>3. "dead" \in Terminal /\ 1 \in Times
  BY FirstReadings DEF Terminal
<1> QED
  BY <1>1, <1>2, <1>3, SettlesRow

LEMMA AbortWrites ==
  ASSUME History, NEW u \in Updates, NEW o \in Owners, CommitAbort(u, o)
  PROVE  /\ Writes(u) /\ UNCHANGED nextOffset
         /\ ~IsTerminal(rows, u) /\ rows'[u].status \notin Terminal
<1> USE DEF CommitAbort, Committed, AbortUpdateAttempt
<1> DEFINE row == IdleRow("pending", rows[u].failures)
<1>1. ~IsTerminal(rows, u) /\ rows[u].failures \in Nat /\ rows[u].failures < MaxFailures
  BY OwnRow
<1>2. row \in Row /\ GoodRow(row) /\ row.status = "pending"
  BY <1>1, RowsMade DEF Retryable, IdleRow, NoRow
<1>3. Noted
  BY DEF Noted
<1>4. rows' = [rows EXCEPT ![u] = row]
  BY DEF SetRow
<1> HIDE DEF row
<1>5. Wrote(u, row)
  BY <1>1, <1>2, <1>4 DEF Wrote
<1> QED
  BY <1>1, <1>2, <1>3, <1>5, WritesRow DEF Terminal

LEMMA FailedWrites ==
  ASSUME History, NEW u \in Updates, NEW o \in Owners, CommitFailed(u, o)
  PROVE  /\ Writes(u) /\ UNCHANGED nextOffset
         /\ ~IsTerminal(rows, u) /\ rows'[u].status \notin Terminal
<1> USE DEF CommitFailed, Committed, FailLive
<1> DEFINE f == rows[u].failures + 1
<1>1. ~IsTerminal(rows, u) /\ f \in Nat /\ f < MaxFailures
  BY OwnRow
<1>2. Noted
  BY DEF Noted
<1>3. PICK row : /\ row \in Row /\ GoodRow(row) /\ row.status \in {"failed", "stuck"}
                 /\ rows' = [rows EXCEPT ![u] = row]
  <2>1. CASE SetRow(u, IdleRow("failed", f))
    <3>1. "failed" \in Retryable /\ IdleRow("failed", f).status = "failed"
      BY DEF Retryable, IdleRow, NoRow
    <3> QED
      BY <1>1, <2>1, <3>1, RowsMade DEF SetRow
  <2>2. CASE Hold(o) > 1 /\ SetRow(u, HeldRow("stuck", f, o, Hold(o)))
    <3>1. Hold(o) = 2 /\ 2 <= rows[u].failures + 1 + 1
      BY <2>2, RowInHand DEF Hold, Later, NoTime
    <3>2. HeldRow("stuck", f, o, 2).status = "stuck"
      BY DEF HeldRow
    <3>3. 2 \in Times /\ 2 <= f + 1
      BY <3>1, FirstReadings
    <3> HIDE DEF f
    <3> QED
      BY <1>1, <2>2, <3>1, <3>2, <3>3, RowsMade DEF SetRow
  <2> QED
    BY <2>1, <2>2
<1>4. Wrote(u, row)
  BY <1>1, <1>3 DEF Wrote
<1>5. row.status \notin Terminal
  BY <1>3 DEF Terminal
<1> QED
  BY <1>1, <1>2, <1>4, <1>5, WritesRow

\* Confirming makes the poller's offset the confirmed one.
LEMMA ConfirmSweeps ==
  ASSUME History, NEW o \in Owners, CommitConfirm(o),
         proc[o].offset \in Nat, confirmedOffset <= proc[o].offset
  PROVE  /\ Noted /\ confirmedOffset' = proc[o].offset /\ proc[o].offset <= nextOffset
         /\ \/ UNCHANGED journal
            \/ \E now \in Times : Sweeps(proc[o].offset, now)
  BY DEF CommitConfirm, Committed, ConfirmUpdateOffset, Noted, Sweeps, History,
         JournalTypeOK, journal

LEMMA MaintainSweeps ==
  ASSUME History, Maintain
  PROVE  Noted /\ \E now \in Times : Sweeps(confirmedOffset, now)
  BY DEF Maintain, Committed, PruneTelegramUpdateJournal, Noted, Sweeps, History,
         JournalTypeOK

\* A transaction that changes nothing teaches the history nothing.
LEMMA QuietHistory ==
  ASSUME History, UNCHANGED journal, Noted
  PROVE  outcome' = outcome
<1>1. \A u \in Updates : outcome'[u] = outcome[u]
  BY DEF History, Recorded, Noted, Fate, IsTerminal, Terminal, journal
<1> QED
  BY <1>1 DEF Noted, History

-----------------------------------------------------------------------------
(* Who a step is about.                                                     *)

Others(o) == \A p \in Owners \ {o} : proc'[p] = proc[p]

\* Everybody else is down or closed while a process holds the locks.
LEMMA OthersKeep ==
  ASSUME IInv, NEW o \in Owners, proc[o].pc \notin {"down", "closed"},
         Others(o), tainted' \subseteq tainted \cup {o}
  PROVE  \A p \in Owners \ {o} : Worker(p)'
<1> SUFFICES ASSUME NEW p \in Owners \ {o} PROVE Worker(p)'
  OBVIOUS
<1>1. proc[p].pc \in {"down", "closed"} /\ ~proc[p].live /\ proc'[p] = proc[p]
  BY DEF IInv, Worker, Alone, Executing, Others
<1>2. Clean(p)
  BY DEF IInv, Worker
<1> QED
  BY <1>1, <1>2
     DEF Worker, Alone, Executing, InOrder, Durable, Claiming, Clean, Holding

LEMMA StepKeeps ==
  ASSUME IInv, NEW o \in Owners, proc[o].pc \notin {"down", "closed"},
         Others(o), tainted' \subseteq tainted \cup {o}, tainted' \subseteq Owners,
         proc' \in [Owners -> Proc], lock' \in Owners \cup {NoOwner},
         History', Worker(o)'
  PROVE  IInv'
<1>1. \A p \in Owners : Worker(p)'
  BY OthersKeep
<1> QED
  BY <1>1 DEF IInv, TypeOK, History

LEMMA HistoryStays ==
  ASSUME History, UNCHANGED <<journal, server, outcome>> PROVE History'
  BY DEF History, journal, JournalTypeOK, Rows, Recorded, Settled, IsTerminal, AboveUpdate

\* What is known of a process before it takes a step.
LEMMA Known ==
  ASSUME IInv, NEW o \in Owners
  PROVE  /\ proc \in [Owners -> Proc] /\ proc[o] \in Proc
         /\ History /\ Worker(o)
         /\ lock \in Owners \cup {NoOwner} /\ tainted \subseteq Owners
  BY DEF IInv, TypeOK

-----------------------------------------------------------------------------
(* Steps that leave the journal and Telegram alone.                         *)

Local(o) ==
  \/ Load(o) \/ Cancelled(o) \/ HandlerReturns(o) \/ HandlerHangs(o) \/ HandlerEndsLate(o)
  \/ CancelledFailure(o) \/ Refused(o) \/ StopRequested(o) \/ Close(o) \/ Crash(o)

LEMMA LocalFrame ==
  ASSUME IInv, NEW o \in Owners, Local(o)
  PROVE  /\ UNCHANGED <<journal, server, outcome>>
         /\ proc[o].pc \notin {"down", "closed"}
         /\ Others(o) /\ proc' \in [Owners -> Proc]
         /\ tainted' \subseteq tainted \cup {o}
         /\ lock' \in {lock, NoOwner}
<1> USE Known DEF Others, Proc, At, Goto, Return
<1>1. CASE Load(o)
  BY <1>1, SMTT(30) DEF Load, History, JournalTypeOK
<1>2. CASE Cancelled(o)
  BY <1>2 DEF Cancelled
<1>3. CASE HandlerReturns(o)
  BY <1>3, SMTT(30) DEF HandlerReturns
<1>4. CASE HandlerHangs(o)
  BY <1>4 DEF HandlerHangs
<1>5. CASE HandlerEndsLate(o)
  BY <1>5, ZenonT(60) DEF HandlerEndsLate, Worker, Executing
<1>6. CASE CancelledFailure(o)
  BY <1>6 DEF CancelledFailure
<1>7. CASE Refused(o)
  BY <1>7 DEF Refused, CompleteErred, JournalError
<1>8. CASE StopRequested(o)
  BY <1>8, ZenonT(60) DEF StopRequested
<1>9. CASE Close(o)
  BY <1>9 DEF Close
<1>10. CASE Crash(o)
  BY <1>10 DEF Crash, Gone, Down
<1> QED
  BY <1>1, <1>2, <1>3, <1>4, <1>5, <1>6, <1>7, <1>8, <1>9, <1>10 DEF Local

LEMMA LocalWorker ==
  ASSUME IInv, NEW o \in Owners, Local(o) PROVE Worker(o)'
<1> USE Known, LocalFrame
    DEF Proc, At, Goto, Return, Worker, Alone, Executing, InOrder, Durable, Claiming, Clean,
        Holding, journal, Owns, AboveUpdate
<1>1. CASE Load(o)
  BY <1>1 DEF Load, History, JournalTypeOK
<1>2. CASE Cancelled(o)
  BY <1>2 DEF Cancelled
<1>3. CASE HandlerReturns(o)
  BY <1>3, SMTT(30) DEF HandlerReturns
<1>4. CASE HandlerHangs(o)
  BY <1>4 DEF HandlerHangs
<1>5. CASE HandlerEndsLate(o)
  BY <1>5 DEF HandlerEndsLate
<1>6. CASE CancelledFailure(o)
  BY <1>6 DEF CancelledFailure
<1>7. CASE Refused(o)
  BY <1>7 DEF Refused, CompleteErred, JournalError
<1>8. CASE StopRequested(o)
  BY <1>8 DEF StopRequested
<1>9. CASE Close(o)
  BY <1>9 DEF Close
<1>10. CASE Crash(o)
  BY <1>10 DEF Crash, Gone, Down
<1> QED
  BY <1>1, <1>2, <1>3, <1>4, <1>5, <1>6, <1>7, <1>8, <1>9, <1>10 DEF Local

LEMMA LocalKeeps ==
  ASSUME IInv, NEW o \in Owners, Local(o) PROVE IInv'
  BY LocalFrame, LocalWorker, HistoryStays, StepKeeps, Known

-----------------------------------------------------------------------------
(* Steps that write the row of the update in hand.                          *)

\* The update in hand is one that the history allows to be written about.
LEMMA InHand ==
  ASSUME IInv, NEW o \in Owners, proc[o].pc \in Holding
  PROVE  LET u == proc[o].cur
         IN  /\ u \in Updates /\ u \in Nat /\ u + 1 \in Nat /\ server[u] # "unsent"
             /\ confirmedOffset \in Nat /\ confirmedOffset <= u
             /\ \A v \in Updates : server[v] = "queued" /\ v < u => v < nextOffset
<1> DEFINE u == proc[o].cur
<1>1. /\ u \in Updates /\ u \in Nat /\ u + 1 \in Nat /\ u # NoUpdate
      /\ proc[o].offset \in Nat
  <2>1. u \in Updates /\ proc[o].offset \in Nat
    BY Known DEF Worker, InOrder, Proc
  <2>2. u \in Nat
    BY <2>1, JournalConstants
  <2> QED
    BY <2>1, <2>2 DEF NoUpdate
<1>2. /\ server[u] # "unsent" /\ proc[o].offset <= u
      /\ \A v \in Updates : server[v] = "queued" /\ v < u => v < proc[o].offset
  BY <1>1, Known DEF Worker, InOrder
<1>3. confirmedOffset <= proc[o].offset /\ proc[o].offset <= nextOffset
  BY Known DEF Worker, Durable, Holding
<1>4. confirmedOffset \in Nat /\ nextOffset \in Nat /\ Updates \subseteq Nat
  BY Known, JournalConstants DEF History, JournalTypeOK
<1> QED
  BY <1>1, <1>2, <1>3, <1>4

LEMMA WritesHistory ==
  ASSUME IInv, NEW o \in Owners, proc[o].pc \in Holding, Writes(proc[o].cur)
  PROVE  /\ History'
         /\ LET u == proc[o].cur
            IN  /\ rows'[u].status \in Terminal => outcome'[u] \in {"done", "poisoned"}
                /\ rows'[u].status \notin Terminal =>
                     outcome[u] = "none" /\ outcome'[u] = "none"
                /\ \A v \in Updates \ {u} : outcome'[v] = outcome[v]
         /\ UNCHANGED <<server, lock, confirmedOffset>> /\ nextOffset <= nextOffset'
<1> DEFINE u == proc[o].cur
<1>1. u \in Updates /\ History /\ nextOffset \in Nat
  BY InHand, Known DEF History, JournalTypeOK
<1>2. Noted /\ Wrote(u, rows'[u])
  BY DEF Writes
<1>3. History'
  BY <1>1, <1>2, InHand, WroteHistory
<1>4. UNCHANGED <<server, lock, confirmedOffset>> /\ nextOffset <= nextOffset'
  BY <1>1, <1>2, InHand DEF Noted, Wrote
<1> QED
  BY <1>1, <1>2, <1>3, <1>4, InHand, WroteOutcomes

\* Recording an outcome and polling past it.
LEMMA PollPastKeeps ==
  ASSUME IInv, NEW o \in Owners, proc[o].pc \in Holding, ~proc[o].live,
         Writes(proc[o].cur), PollPast(o),
         confirmedOffset <= proc[o].cur + 1, proc[o].cur + 1 <= nextOffset',
         UNCHANGED tainted, o \notin tainted
  PROVE  IInv'
<1>0. proc \in [Owners -> Proc] /\ proc[o] \in Proc /\ proc[o].cur + 1 \in Nat
  BY Known, InHand
<1>1. /\ Others(o) /\ proc' \in [Owners -> Proc]
      /\ proc'[o].pc = "poll" /\ proc'[o].offset = proc[o].cur + 1 /\ ~proc'[o].live
  <2>1. proc' = [proc EXCEPT ![o] = [proc[o] EXCEPT !.pc = "poll", !.offset = proc[o].cur + 1,
                                                    !.cur = NoUpdate, !.err = "none"]]
    BY <1>0 DEF PollPast, Proc
  <2>2. proc'[o] \in Proc
    BY <1>0, <2>1 DEF Proc
  <2> QED
    BY <1>0, <2>1, <2>2 DEF Others, Proc
<1>2. AboveUpdate(proc[o].cur + 1)
  BY InHand DEF AboveUpdate
<1>3. /\ History' /\ UNCHANGED <<server, lock, confirmedOffset>>
      /\ Worker(o) /\ lock \in Owners \cup {NoOwner} /\ tainted \subseteq Owners
  BY WritesHistory, Known
<1>4. proc'[o].cur = NoUpdate /\ proc[o].pc \notin {"down", "closed"}
  BY <1>0 DEF PollPast, Proc, Holding
<1>5. Alone(o)'
  BY <1>1, <1>3, <1>4 DEF Worker, Alone
<1>6. Executing(o)' /\ InOrder(o)' /\ Claiming(o)'
  BY <1>1, <1>4 DEF Executing, InOrder, Claiming, Holding
<1>7. AboveUpdate(proc[o].offset)'
  BY <1>1, <1>2, <1>3 DEF AboveUpdate
<1>8. Durable(o)'
  BY <1>1, <1>3, <1>7 DEF Durable
<1>9. Clean(o)' /\ tainted' = tainted
  BY DEF Clean
<1>10. Worker(o)'
  BY <1>5, <1>6, <1>8, <1>9 DEF Worker
<1>11. /\ proc' \in [Owners -> Proc] /\ lock' \in Owners \cup {NoOwner}
       /\ tainted' \subseteq Owners /\ tainted' \subseteq tainted \cup {o}
  BY <1>1, <1>3, <1>9
<1> QED
  BY <1>1, <1>3, <1>4, <1>10, <1>11, StepKeeps

\* Recording something and leaving, or going on to give the claim back.
Leaves(o) ==
  /\ Others(o) /\ proc' \in [Owners -> Proc]
  /\ proc'[o].pc \in {"abort", "returned"}
  /\ proc'[o].offset = proc[o].offset /\ proc'[o].cur = proc[o].cur
  /\ proc'[o].live = proc[o].live
  /\ proc[o].live => proc'[o].pc = "returned" /\ proc'[o].err = proc[o].err

LEMMA LeaveKeeps ==
  ASSUME IInv, NEW o \in Owners, proc[o].pc \in Holding \ {"handle"},
         Writes(proc[o].cur), Leaves(o), UNCHANGED tainted
  PROVE  IInv'
<1> USE Known DEF Proc, Leaves
<1>1. proc[o].pc \notin {"down", "closed", "load", "returned"}
  BY DEF Holding
<1>2. Alone(o)' /\ Executing(o)' /\ Claiming(o)' /\ Clean(o)'
  <2>1. proc[o].live => proc[o].cur \in Updates /\ proc[o].err = "stuck"
    BY DEF Worker, Executing
  <2> QED
    BY <1>1, <2>1, InHand, WritesHistory DEF Worker, Alone, Executing, Claiming, Clean
<1>3. InOrder(o)' /\ Durable(o)'
  <2>1. proc[o].offset \in Nat /\ nextOffset \in Nat /\ nextOffset' \in Nat
    BY WritesHistory DEF History, JournalTypeOK
  <2> QED
    BY <1>1, <2>1, InHand, WritesHistory DEF Worker, InOrder, Durable, Holding, AboveUpdate
<1> QED
  BY <1>1, <1>2, <1>3, WritesHistory, StepKeeps DEF Worker

LEMMA ClaimKeeps ==
  ASSUME IInv, NEW o \in Owners, Claim(o) PROVE IInv'
<1> USE Known DEF Proc, Claim, At
<1>1. proc[o].pc = "begin" /\ proc[o].pc \in Holding \ {"handle"} /\ ~proc[o].live
  BY DEF Holding, Worker, Executing
<1>2. proc[o].cur \in Updates
  BY <1>1, InHand
<1>3. /\ Writes(proc[o].cur) /\ UNCHANGED nextOffset
      /\ Owns(proc[o].cur, o)'
      /\ rows'[proc[o].cur].status \notin Terminal
  BY <1>2, ClaimWrites DEF Owns, Terminal
<1>4. /\ Others(o) /\ proc' \in [Owners -> Proc]
      /\ proc'[o].pc = "handle" /\ proc'[o].offset = proc[o].offset
      /\ proc'[o].cur = proc[o].cur
  BY ZenonT(60) DEF Others
<1>5. History' /\ UNCHANGED <<server, lock, confirmedOffset>> /\ outcome'[proc[o].cur] = "none"
  BY <1>1, <1>3, WritesHistory
<1>6. Worker(o)'
  BY <1>1, <1>2, <1>3, <1>4, <1>5, InHand
     DEF Worker, Alone, Executing, InOrder, Durable, Claiming, Clean, Holding, AboveUpdate,
         Owns
<1> QED
  BY <1>1, <1>4, <1>5, <1>6, StepKeeps

\* Every other step of which a transaction about the update in hand is part.
Writing(o) ==
  \/ Skip(o) \/ Complete(o) \/ FailsDead(o) \/ Fails(o)
  \/ At(o, "abort") /\ CommitAbort(proc[o].cur, o) /\ Goto(o, "returned") /\ UNCHANGED tainted
  \/ Unheard(o) /\ ~At(o, "confirm")

LEMMA WritingKeeps ==
  ASSUME IInv, NEW o \in Owners, Writing(o) PROVE IInv'
<1> DEFINE u == proc[o].cur
<1> USE Known
<1>1. Writing(o) => proc[o].pc \in Holding \ {"handle"} /\ UNCHANGED tainted
  BY DEF Writing, Skip, Complete, FailsDead, Fails, Unheard, At, Holding
<1>2. proc[o].pc \in Holding \ {"handle"} /\ u \in Updates /\ UNCHANGED tainted
  BY <1>1, InHand
<1>3. /\ proc[o].live => proc[o].pc = "failing" /\ proc[o].err = "stuck"
      /\ o \in tainted => proc[o].pc = "abort" \/
           (proc[o].pc = "failing" /\ proc[o].err \in {"panic", "stuck"})
  BY <1>2 DEF Worker, Executing, Clean, Holding
<1>4. ASSUME Goto(o, "returned") \/ (\E err \in {"error", "cancelled"} :
                                       Return(o, err) /\ proc[o].pc # "failing")
             \/ (CompleteErred(o) /\ proc[o].pc # "failing")
      PROVE  Leaves(o)
  BY <1>3, <1>4 DEF Leaves, Others, Goto, Return, CompleteErred, Proc
<1>5. CASE Skip(o)
  <2>1. /\ Writes(u) /\ confirmedOffset <= u + 1 /\ u + 1 <= nextOffset'
        /\ PollPast(o) /\ ~proc[o].live /\ o \notin tainted
    BY <1>2, <1>3, <1>5, SkipWrites DEF Skip, At
  <2> QED
    BY <1>2, <2>1, PollPastKeeps
<1>6. CASE Complete(o)
  <2>1. /\ Writes(u) /\ confirmedOffset <= u + 1 /\ u + 1 <= nextOffset'
        /\ PollPast(o) /\ ~proc[o].live /\ o \notin tainted
    BY <1>2, <1>3, <1>6, CompleteWrites DEF Complete, At
  <2> QED
    BY <1>2, <2>1, PollPastKeeps
<1>7. CASE FailsDead(o)
  <2>1. Writes(u) /\ confirmedOffset <= u + 1 /\ u + 1 <= nextOffset' /\ At(o, "failing")
    BY <1>2, <1>7, DeadWrites DEF FailsDead
  <2>2. CASE PolledPast(o)
    <3>1. PollPast(o) /\ ~proc[o].live /\ o \notin tainted
      BY <1>3, <1>7, <2>1, <2>2 DEF FailsDead, PolledPast, At
    <3> QED
      BY <1>2, <2>1, <3>1, PollPastKeeps
  <2>3. CASE ~PolledPast(o)
    BY <1>2, <1>4, <1>7, <2>1, <2>3, LeaveKeeps DEF FailsDead
  <2> QED
    BY <2>2, <2>3
<1>8. CASE Fails(o)
  BY <1>2, <1>4, <1>8, FailedWrites, LeaveKeeps DEF Fails
<1>9. CASE At(o, "abort") /\ CommitAbort(u, o) /\ Goto(o, "returned")
  BY <1>2, <1>4, <1>9, AbortWrites, LeaveKeeps
<1>10. CASE Unheard(o) /\ ~At(o, "confirm")
  <2>1. JournalError(o) \in {"error", "cancelled"}
    BY DEF JournalError
  <2>2. Writes(u)
    BY <1>2, <1>10, ClaimWrites, SkipWrites, CompleteWrites, AbortWrites, DeadWrites, FailedWrites
       DEF Unheard
  <2>3. Leaves(o)
    BY <1>4, <1>10, <2>1 DEF Unheard, At
  <2> QED
    BY <1>2, <2>2, <2>3, LeaveKeeps
<1> QED
  BY <1>5, <1>6, <1>7, <1>8, <1>9, <1>10 DEF Writing

-----------------------------------------------------------------------------
(* Confirming, fetching and what Telegram does.                             *)

LEMMA ConfirmKeeps ==
  ASSUME IInv, NEW o \in Owners, At(o, "confirm"), CommitConfirm(o), UNCHANGED tainted,
         \/ Goto(o, IF proc[o].cur = NoUpdate THEN "poll" ELSE "begin")
         \/ Return(o, JournalError(o))
  PROVE  IInv'
<1> USE Known DEF Proc, At
<1>1. proc[o].offset \in Nat /\ confirmedOffset <= proc[o].offset /\ AboveUpdate(proc[o].offset)
  BY DEF Worker, Durable
<1>2. /\ Noted /\ confirmedOffset' = proc[o].offset /\ proc[o].offset <= nextOffset
      /\ \/ UNCHANGED journal
         \/ \E now \in Times : Sweeps(proc[o].offset, now)
  BY <1>1, ConfirmSweeps
<1>3. History'
  BY <1>2, SweepHistory, QuietHistory, HistoryStays DEF Noted
<1>4. /\ Others(o) /\ proc' \in [Owners -> Proc]
      /\ proc'[o].offset = proc[o].offset /\ proc'[o].cur = proc[o].cur
      /\ proc'[o].live = proc[o].live
      /\ proc'[o].pc \in {"poll", "begin", "returned"}
      /\ proc'[o].pc = "begin" => proc[o].cur # NoUpdate
  BY DEF Others, Goto, Return, JournalError
<1>5. UNCHANGED <<server, lock, nextOffset>> /\ proc[o].cur \in Updates \cup {NoUpdate}
  BY <1>2 DEF Noted, Sweeps, journal
<1>6. Worker(o)'
  BY <1>1, <1>2, <1>4, <1>5
     DEF Worker, Alone, Executing, InOrder, Durable, Claiming, Clean, Holding, AboveUpdate, History,
         JournalTypeOK
<1> QED
  BY <1>3, <1>4, <1>5, <1>6, StepKeeps

LEMMA BusyKeeps ==
  ASSUME IInv, NEW o \in Owners, Busy(o) PROVE IInv'
<1> USE Known DEF Proc, At, Busy
<1>1. Noted /\ UNCHANGED journal
  BY DEF Committed, BeginBusy, journal, Noted
<1>2. History' /\ UNCHANGED <<server, outcome, lock>>
  BY <1>1, QuietHistory, HistoryStays DEF Noted
<1>3. /\ Others(o) /\ proc' \in [Owners -> Proc]
      /\ proc'[o].pc = "returned" /\ proc'[o].live = proc[o].live
  BY DEF Others, Return
<1>4. Worker(o)'
  BY <1>2, <1>3 DEF Worker, Alone, Executing, InOrder, Durable, Claiming, Clean, Holding
<1> QED
  BY <1>2, <1>3, <1>4, StepKeeps

LEMMA RefusedAbortKeeps ==
  ASSUME IInv, NEW o \in Owners, At(o, "abort"), Return(o, "error"),
         UNCHANGED <<journal, server, lock, outcome, tainted>>
  PROVE  IInv'
  BY LocalKeeps DEF Local, Refused

\* Every nonempty set of updates has an oldest.
LEMMA OldestExists ==
  ASSUME NEW S \in SUBSET Updates, S # {}
  PROVE  Oldest(S) \in S /\ \A v \in S : Oldest(S) <= v
<1>1. S \subseteq Nat
  BY JournalConstants
<1>2. PICK u \in S : \A v \in S : ~(<<v, u>> \in OpToRel(<, Nat))
  BY <1>1, NatLessThanWellFounded, WFMin
<1>3. \A v \in S : ~(v < u)
  BY <1>1, <1>2 DEF OpToRel
<1>4. \A v \in S : u <= v
  BY <1>1, <1>3
<1> QED
  BY <1>4 DEF Oldest

LEMMA ForgetHistory ==
  ASSUME History, NEW n \in Nat, n <= nextOffset, Forget(n), UNCHANGED <<journal, outcome>>
  PROVE  /\ History'
         /\ \A u \in Updates : (server'[u] = "unsent" <=> server[u] = "unsent")
                             /\ (server'[u] = "queued" => server[u] = "queued" /\ ~(u < n))
<1>1. \A u \in Updates :
        /\ u \in Nat /\ (u < n => u < nextOffset)
        /\ \/ server'[u] = server[u] /\ (server[u] = "queued" => ~(u < n))
           \/ server[u] = "queued" /\ u < n /\ server'[u] = "confirmed"
  <2> SUFFICES ASSUME NEW u \in Updates
               PROVE  /\ u \in Nat /\ (u < n => u < nextOffset)
                      /\ \/ server'[u] = server[u] /\ (server[u] = "queued" => ~(u < n))
                         \/ server[u] = "queued" /\ u < n /\ server'[u] = "confirmed"
    OBVIOUS
  <2>1. u \in Nat /\ (u < n => u < nextOffset)
    BY JournalConstants DEF History, JournalTypeOK
  <2>2. server'[u] = IF server[u] = "queued" /\ u < n THEN "confirmed" ELSE server[u]
    BY DEF Forget
  <2> QED
    BY <2>1, <2>2
<1>2. server' \in [Updates -> {"unsent", "queued", "confirmed", "expired"}]
  BY DEF Forget, History
<1>3. Recorded'
  BY <1>1 DEF History, Recorded, journal, IsTerminal
<1>4. Settled'
  BY <1>1 DEF History, Settled, journal
<1> QED
  BY <1>1, <1>2, <1>3, <1>4 DEF History, journal, JournalTypeOK, Rows, AboveUpdate

LEMMA FetchKeeps ==
  ASSUME IInv, NEW o \in Owners, Fetch(o) \/ FetchLost(o) PROVE IInv'
<1> USE Known DEF Proc, At
<1>1. /\ proc[o].pc = "poll" /\ Forget(proc[o].offset)
      /\ UNCHANGED <<journal, lock, outcome, tainted>>
  BY DEF Fetch, FetchLost
<1>2. /\ proc[o].offset \in Nat /\ proc[o].offset <= nextOffset
      /\ confirmedOffset <= proc[o].offset /\ AboveUpdate(proc[o].offset)
  BY <1>1 DEF Worker, Durable
<1>3. /\ History'
      /\ \A u \in Updates :
           /\ server'[u] = "unsent" <=> server[u] = "unsent"
           /\ server'[u] = "queued" => server[u] = "queued" /\ ~(u < proc[o].offset)
  BY <1>1, <1>2, ForgetHistory
<1>4. /\ Others(o) /\ proc' \in [Owners -> Proc]
      /\ proc'[o].offset = proc[o].offset /\ proc'[o].live = proc[o].live
      /\ \/ proc'[o].pc = "poll"
         \/ proc'[o].pc = "confirm" /\ proc'[o].cur = NoUpdate
         \/ /\ proc'[o].pc = "confirm" /\ proc'[o].cur \in Updates
            /\ server[proc'[o].cur] = "queued" /\ proc[o].offset <= proc'[o].cur
            /\ \A v \in Updates : server[v] = "queued" /\ v < proc'[o].cur => v < proc[o].offset
  <2>1. CASE FetchLost(o)
    BY <1>1, <2>1 DEF FetchLost, Others
  <2>2. CASE Fetch(o)
    <3> DEFINE offered == Queued(server, proc[o].offset)
               cur == IF offered = {} THEN NoUpdate ELSE Oldest(offered)
    <3>1. proc' = [proc EXCEPT ![o].pc = "confirm", ![o].cur = cur]
      BY <2>2 DEF Fetch
    <3>2. \/ cur = NoUpdate
          \/ /\ cur \in Updates /\ server[cur] = "queued" /\ proc[o].offset <= cur
             /\ \A v \in Updates : server[v] = "queued" /\ v < cur => v < proc[o].offset
      <4>1. CASE offered = {}
        BY <4>1
      <4>2. CASE offered # {}
        <5>1. cur \in offered /\ \A v \in offered : cur <= v
          BY <4>2, OldestExists DEF Queued
        <5>2. cur \in Updates /\ server[cur] = "queued" /\ proc[o].offset <= cur
          BY <1>2, <5>1, JournalConstants DEF Queued
        <5>3. ASSUME NEW v \in Updates, server[v] = "queued", v < cur
              PROVE  v < proc[o].offset
          <6>1. v \in Nat /\ cur \in Nat
            BY <5>2, JournalConstants
          <6>2. v \notin offered
            BY <5>1, <5>3, <6>1
          <6> QED
            BY <1>2, <5>3, <6>1, <6>2 DEF Queued
        <5> QED
          BY <5>2, <5>3
      <4> QED
        BY <4>1, <4>2
    <3> HIDE DEF cur
    <3> QED
      BY <3>1, <3>2 DEF Others
  <2> QED
    BY <2>1, <2>2
<1>5. Worker(o)'
  BY <1>1, <1>2, <1>3, <1>4
     DEF Worker, Alone, Executing, InOrder, Durable, Claiming, Clean, Holding, AboveUpdate, journal
<1> QED
  BY <1>1, <1>3, <1>4, <1>5, StepKeeps

\* What happens outside of the poller: the process states stay as they are.
LEMMA WorldKeeps ==
  ASSUME IInv, UNCHANGED <<lock, proc, tainted>>, History',
         \A o \in Owners : InOrder(o)' /\ Durable(o)' /\ Claiming(o)'
  PROVE  IInv'
<1>1. \A o \in Owners : Worker(o)'
  BY DEF IInv, Worker, Alone, Executing, Clean
<1> QED
  BY <1>1 DEF IInv, TypeOK, History

LEMMA SendKeeps ==
  ASSUME IInv, NEW u \in Updates, Send(u) PROVE IInv'
<1> USE Known DEF Send, journal
<1>1. History /\ server' = [server EXCEPT ![u] = "queued"]
  BY DEF IInv
<1>2. \A v \in Updates : v \in Nat /\ (server[v] # "unsent" => v < u /\ v + 1 <= u)
  <2>1. \A v \in Updates : server[v] # "unsent" => ~ (v >= u)
    OBVIOUS
  <2>2. \A v \in Updates : v \in Nat
    BY JournalConstants
  <2> QED
    BY <2>1, <2>2
<1>3. ~(u < nextOffset)
  BY <1>1, <1>2 DEF History, AboveUpdate, JournalTypeOK
<1>4. \A v \in Updates :
        /\ server[v] # "unsent" => server'[v] # "unsent"
        /\ v # u => server'[v] = server[v]
        /\ server'[u] = "queued"
  BY <1>1 DEF History
<1>5. History'
  <2>1. AboveUpdate(nextOffset)'
    BY <1>1, <1>4 DEF History, AboveUpdate
  <2>2. Recorded' /\ Settled'
    BY <1>1, <1>3, <1>4 DEF History, Recorded, Settled, IsTerminal
  <2>3. server' \in [Updates -> {"unsent", "queued", "confirmed", "expired"}]
    BY <1>1 DEF History
  <2> QED
    BY <1>1, <2>1, <2>2, <2>3 DEF History, JournalTypeOK, Rows
<1>6. ASSUME NEW o \in Owners PROVE InOrder(o)' /\ Durable(o)' /\ Claiming(o)'
  BY <1>2, <1>4
     DEF Worker, InOrder, Durable, Claiming, AboveUpdate, Owns, Proc
<1> QED
  BY <1>5, <1>6, WorldKeeps

LEMMA ExpireKeeps ==
  ASSUME IInv, Expire PROVE IInv'
<1> USE DEF Expire, journal
<1>1. History
  BY DEF IInv
<1>2. PICK w \in Updates : server[w] = "queued" /\ server' = [server EXCEPT ![w] = "expired"]
  BY OldestExists DEF Queued
<1>3. \A v \in Updates :
        /\ server'[v] = "unsent" <=> server[v] = "unsent"
        /\ server'[v] \in {"queued", "confirmed"} => server'[v] = server[v]
  BY <1>1, <1>2 DEF History
<1>4. History'
  <2>1. AboveUpdate(nextOffset)' /\ Recorded' /\ Settled'
    BY <1>1, <1>3 DEF History, AboveUpdate, Recorded, Settled, IsTerminal
  <2>2. server' \in [Updates -> {"unsent", "queued", "confirmed", "expired"}]
    BY <1>1, <1>2 DEF History
  <2> QED
    BY <1>1, <2>1, <2>2 DEF History, JournalTypeOK, Rows
<1>5. ASSUME NEW o \in Owners PROVE InOrder(o)' /\ Durable(o)' /\ Claiming(o)'
  BY <1>3, Known DEF Worker, InOrder, Durable, Claiming, AboveUpdate, Owns, Proc
<1> QED
  BY <1>4, <1>5, WorldKeeps

LEMMA MaintainKeeps ==
  ASSUME IInv, Maintain PROVE IInv'
<1>1. History /\ Noted
  BY MaintainSweeps DEF IInv
<1>2. PICK now \in Times : Sweeps(confirmedOffset, now)
  BY <1>1, MaintainSweeps
<1>3. /\ History'
      /\ \A u \in Updates : ~(u < confirmedOffset) =>
           rows'[u] = rows[u] /\ outcome'[u] = outcome[u]
  BY <1>1, <1>2, SweepHistory
<1>4. UNCHANGED <<nextOffset, confirmedOffset, server, lock, proc, tainted>>
  BY <1>1, <1>2 DEF Sweeps, Noted, Maintain
<1>5. ASSUME NEW o \in Owners PROVE InOrder(o)' /\ Durable(o)' /\ Claiming(o)'
  <2>1. InOrder(o)' /\ Durable(o)'
    BY <1>4, Known DEF Worker, InOrder, Durable, AboveUpdate
  <2>2. ASSUME proc[o].pc \in {"handle", "complete", "failing"}
        PROVE  rows'[proc[o].cur] = rows[proc[o].cur] /\ outcome'[proc[o].cur] = outcome[proc[o].cur]
    <3>1. proc[o].cur \in Updates /\ ~(proc[o].cur < confirmedOffset)
      BY <2>2, InHand DEF Holding
    <3> QED
      BY <1>3, <3>1
  <2>3. Claiming(o)'
    BY <1>4, <2>2, Known DEF Worker, Claiming, Owns
  <2> QED
    BY <2>1, <2>3
<1> QED
  BY <1>3, <1>4, <1>5, WorldKeeps

-----------------------------------------------------------------------------
(* Processes that start and end.                                            *)

LEMMA ProcessKeeps ==
  ASSUME IInv, UNCHANGED <<journal, server, outcome>>, tainted' \subseteq tainted,
         proc' \in [Owners -> Proc], lock' \in Owners \cup {NoOwner},
         \A o \in Owners : Worker(o)'
  PROVE  IInv'
  BY Known, HistoryStays DEF IInv, TypeOK, History

LEMMA StartKeeps ==
  ASSUME IInv, NEW o \in Owners, Start(o) PROVE IInv'
<1> USE Known DEF Start, At, Goto, Proc
<1>1. \A p \in Owners : proc[p].pc \in {"down", "closed"} /\ p # NoOwner
  BY JournalConstants DEF IInv, Worker, Alone
<1>2. \A p \in Owners \ {o} : proc'[p] = proc[p]
  OBVIOUS
<1>3. proc'[o].pc = "load" /\ proc'[o].live = proc[o].live /\ lock' = o
  OBVIOUS
<1>4. ASSUME NEW p \in Owners PROVE Worker(p)'
  <2>1. proc[p].pc \in {"down", "closed"} /\ Executing(p) /\ Clean(p)
    BY <1>1 DEF IInv, Worker
  <2>2. CASE p = o
    BY <1>3, <2>1, <2>2
       DEF Worker, Alone, Executing, InOrder, Durable, Claiming, Clean, Holding
  <2>3. CASE p # o
    <3>1. proc'[p] = proc[p]
      BY <1>2, <2>3
    <3> QED
      BY <2>1, <3>1 DEF Worker, Alone, Executing, InOrder, Durable, Claiming, Clean, Holding
  <2> QED
    BY <2>2, <2>3
<1> QED
  BY <1>4, ProcessKeeps

LEMMA ExitKeeps ==
  ASSUME IInv, NEW o \in Owners, Exit(o) PROVE IInv'
<1> USE Known DEF Exit, Gone, Proc, Down
<1>1. /\ \A p \in Owners \ {o} : proc'[p] = proc[p]
      /\ proc'[o] = Down /\ proc' \in [Owners -> Proc]
  OBVIOUS
<1>2. ASSUME NEW p \in Owners PROVE Worker(p)'
  <2>1. CASE p = o
    BY <1>1, <2>1 DEF Worker, Alone, Executing, InOrder, Durable, Claiming, Clean, Holding
  <2>2. CASE p # o
    <3>1. Worker(p) /\ proc'[p] = proc[p] /\ (lock = p => lock' = p) /\ (p \in tainted' => p \in tainted)
      BY <1>1, <2>2
    <3> QED
      BY <3>1
         DEF Worker, Alone, Executing, InOrder, Durable, Claiming, Clean, Holding, AboveUpdate,
             journal, Owns
  <2> QED
    BY <2>1, <2>2
<1> QED
  BY <1>1, <1>2, ProcessKeeps

-----------------------------------------------------------------------------
(* The inductive invariant holds.                                           *)

LEMMA InitInv == Init => IInv
<1> SUFFICES ASSUME Init PROVE IInv
  OBVIOUS
<1> USE JournalConstants DEF Init, JournalInit
<1>1. TypeOK
  <2>1. Down \in Proc
    BY DEF Down, Proc
  <2> QED
    BY <2>1, NoRowGood DEF TypeOK, JournalTypeOK
<1>2. History
  <2>1. \A u \in Updates : ~IsTerminal(rows, u) /\ rows[u].status = "absent"
    BY DEF IsTerminal, Terminal, NoRow
  <2>2. Rows /\ Recorded /\ Settled
    BY <2>1, NoRowGood DEF Rows, Recorded, Settled
  <2> QED
    BY <1>1, <2>2 DEF TypeOK, History, JournalTypeOK, AboveUpdate
<1>3. ASSUME NEW o \in Owners PROVE Worker(o)
  BY DEF Down, Worker, Alone, Executing, InOrder, Durable, Claiming, Clean, Holding
<1> QED
  BY <1>1, <1>2, <1>3 DEF IInv

LEMMA StutterKeeps == ASSUME IInv, UNCHANGED vars PROVE IInv'
<1> USE DEF vars, journal
<1>1. History' /\ UNCHANGED <<lock, proc, tainted>>
  BY HistoryStays DEF IInv
<1>2. ASSUME NEW o \in Owners PROVE InOrder(o)' /\ Durable(o)' /\ Claiming(o)'
  BY Known DEF Worker, InOrder, Durable, Claiming, AboveUpdate, Owns
<1> QED
  BY <1>1, <1>2, WorldKeeps

LEMMA InvStep == IInv /\ [Next]_vars => IInv'
<1> SUFFICES ASSUME IInv, [Next]_vars PROVE IInv'
  OBVIOUS
<1>1. ASSUME NEW u \in Updates, Send(u) PROVE IInv'
  BY <1>1, SendKeeps
<1>2. CASE Expire
  BY <1>2, ExpireKeeps
<1>3. CASE Maintain
  BY <1>3, MaintainKeeps
<1>4. ASSUME NEW o \in Owners, Start(o) PROVE IInv'
  BY <1>4, StartKeeps
<1>5. ASSUME NEW o \in Owners, Local(o) PROVE IInv'
  BY <1>5, LocalKeeps
<1>6. ASSUME NEW o \in Owners, Writing(o) PROVE IInv'
  BY <1>6, WritingKeeps
<1>7. ASSUME NEW o \in Owners, Fetch(o) \/ FetchLost(o) PROVE IInv'
  BY <1>7, FetchKeeps
<1>8. ASSUME NEW o \in Owners, Exit(o) PROVE IInv'
  BY <1>8, ExitKeeps
<1>9. ASSUME NEW o \in Owners, Claim(o) \/ Busy(o) PROVE IInv'
  BY <1>9, ClaimKeeps, BusyKeeps
<1>10. ASSUME NEW o \in Owners,
              Confirm(o) \/ (Unheard(o) /\ At(o, "confirm"))
       PROVE  IInv'
  BY <1>10, ConfirmKeeps DEF Confirm, Unheard, At
<1>11. ASSUME NEW o \in Owners, Abort(o) PROVE IInv'
  BY <1>6, <1>11, RefusedAbortKeeps DEF Abort, Writing
<1>12. ASSUME NEW o \in Owners, Step(o) PROVE IInv'
  BY <1>5, <1>6, <1>7, <1>8, <1>9, <1>10, <1>11, <1>12 DEF Step, Local, Writing
<1>13. ASSUME NEW o \in Owners, Fault(o) PROVE IInv'
  BY <1>5, <1>6, <1>7, <1>10, <1>13 DEF Fault, Local, Writing
<1>14. CASE UNCHANGED vars
  BY <1>14, StutterKeeps
<1> QED
  BY <1>1, <1>2, <1>3, <1>4, <1>5, <1>12, <1>13, <1>14 DEF Next, Calm, Local

THEOREM InvHolds == Spec => []IInv
BY InitInv, InvStep, PTL DEF Spec

-----------------------------------------------------------------------------
(* What follows from it.                                                    *)

\* The offset in a poller's memory stays between the confirmed and the
\* durable one, so that ConfirmUpdateOffset accepts it and a crash loses
\* nothing that Telegram was told; with it, type correctness.
THEOREM OffsetsDurable == Spec => []OffsetDurable
<1>1. IInv => OffsetDurable
  BY DEF IInv, OffsetDurable, Worker, Durable
<1> QED
  BY <1>1, InvHolds, PTL

\* A handler executes, and its result is recorded, under a running row of
\* its own process, through every crash, lost commit and maintenance run.
THEOREM ClaimsHeld == Spec => []ClaimHeld
<1>1. IInv => ClaimHeld
  BY DEF IInv, ClaimHeld, Worker, Claiming
<1> QED
  BY <1>1, InvHolds, PTL

\* Telegram forgets an update only after its handler has completed or has
\* used up its failures.
THEOREM NoUpdateLost == Spec => []NothingLost
<1>1. IInv => NothingLost
  BY DEF IInv, NothingLost, History, Settled
<1> QED
  BY <1>1, InvHolds, PTL

\* A process in which a handler panicked or hung never polls or executes
\* again.
THEOREM TaintedStop == Spec => []TaintedProcessesStop
<1>1. IInv => TaintedProcessesStop
  BY DEF IInv, TypeOK, TaintedProcessesStop, Worker, Clean
<1> QED
  BY <1>1, InvHolds, PTL

-----------------------------------------------------------------------------
(* Every step is one transaction of the journal, or none.                   *)

\* A clock reading under which a claim is taken over is one of Times, and so
\* is the lease that it gets.
LEMMA ClaimTimes ==
  ASSUME History, NEW u \in Updates, NEW now \in Readings(u),
         rows[u].status = "absent" \/ Reclaimable(u, now)
  PROVE  now \in Times /\ Later(now) \in Times
<1>1. CASE rows[u].status \notin Active
  <2>1. now = 1
    BY <1>1 DEF Readings
  <2> QED
    BY <2>1, FirstReadings DEF Later
<1>2. CASE rows[u].status \in Active
  <2>1. Expired(u, now) /\ ~Poisoned(u)
    BY <1>2 DEF Reclaimable, Active, Retryable
  <2>2. now = rows[u].lease
    BY <2>1, RowInHand DEF Expired, LeaseLive, Readings
  <2> QED
    BY <1>2, <2>1, <2>2, LeaseReadings, RowInHand, JournalConstants
       DEF Poisoned, ChargedFailures, Active, Later
<1> QED
  BY <1>1, <1>2

LEMMA ClaimBegins ==
  ASSUME History, NEW u \in Updates, NEW o \in Owners, CommitClaim(u, o)
  PROVE  Begin(u, o)
<1>1. PICK now \in Readings(u) :
        BeginFresh(u, o, now, Later(now)) \/ BeginReclaim(u, o, now, Later(now))
  BY DEF CommitClaim, Committed
<1>2. now \in Times /\ Later(now) \in Times
  BY <1>1, ClaimTimes DEF BeginFresh, BeginReclaim
<1> QED
  BY <1>1, <1>2 DEF Begin

LEMMA SkipBegins ==
  ASSUME History, NEW u \in Updates, NEW o \in Owners, CommitSkip(u)
  PROVE  Begin(u, o)
<1>1. ASSUME NEW now \in Readings(u), BeginExhausted(u, now) PROVE now \in Times
  BY <1>1, LeaseReadings, RowInHand
     DEF BeginExhausted, Expired, LeaseLive, Readings
<1> QED
  BY <1>1 DEF CommitSkip, Committed, Begin

LEMMA ResultSettles ==
  ASSUME NEW u \in Updates, NEW o \in Owners,
         CommitComplete(u, o) \/ CommitAbort(u, o) \/ CommitDead(u, o) \/ CommitFailed(u, o)
  PROVE  Settle(u, o)
<1>1. 1 \in Times /\ Hold(o) \in Times \cup {NoTime} /\ NoTime \in Times \cup {NoTime}
  BY FirstReadings DEF Hold, Later
<1>2. CASE CommitComplete(u, o) \/ CommitAbort(u, o)
  BY <1>1, <1>2 DEF CommitComplete, CommitAbort, Committed, Settle
<1>3. CASE CommitDead(u, o) \/ CommitFailed(u, o)
  BY <1>1, <1>3 DEF CommitDead, CommitFailed, Committed, Settle, FailUpdateAttempt
<1> QED
  BY <1>2, <1>3

LEMMA ConfirmConfirms ==
  ASSUME IInv, NEW o \in Owners, At(o, "confirm"), CommitConfirm(o)
  PROVE  ConfirmAny \/ UNCHANGED journal
<1>1. AboveUpdate(proc[o].offset) /\ confirmedOffset \in Nat
  BY Known DEF Worker, Durable, At, History, JournalTypeOK
<1>2. PICK now \in Times : ConfirmUpdateOffset(proc[o].offset, now)
  BY DEF CommitConfirm, Committed
<1>3. CASE proc[o].offset = 0
  BY <1>1, <1>2, <1>3 DEF ConfirmUpdateOffset
<1>4. CASE \E u \in Updates : proc[o].offset = u + 1
  BY <1>2, <1>4 DEF ConfirmAny
<1> QED
  BY <1>1, <1>3, <1>4 DEF AboveUpdate

LEMMA JournalStep == IInv /\ [Next]_vars => [JournalNext]_journal
<1> SUFFICES ASSUME IInv, [Next]_vars
             PROVE  JournalNext \/ UNCHANGED journal
  OBVIOUS
<1> USE DEF journal
<1>1. History /\ \A o \in Owners : proc[o].pc \in Holding => proc[o].cur \in Updates
  BY InHand DEF IInv
<1>2. ASSUME NEW o \in Owners, Local(o) PROVE UNCHANGED journal
  BY <1>2, LocalFrame
<1>3. ASSUME NEW o \in Owners, Writing(o) \/ Claim(o) PROVE JournalNext
  <2> DEFINE u == proc[o].cur
  <2>1. u \in Updates
    BY <1>1, <1>3
       DEF Writing, Skip, Complete, FailsDead, Fails, Unheard, Claim, At, Holding
  <2>2. \/ CommitClaim(u, o) \/ CommitSkip(u)
        \/ CommitComplete(u, o) \/ CommitAbort(u, o) \/ CommitDead(u, o) \/ CommitFailed(u, o)
    BY <1>3 DEF Writing, Skip, Complete, FailsDead, Fails, Unheard, Claim
  <2> QED
    BY <1>1, <2>1, <2>2, ClaimBegins, SkipBegins, ResultSettles DEF JournalNext
<1>4. ASSUME NEW o \in Owners, Confirm(o) \/ (Unheard(o) /\ At(o, "confirm"))
      PROVE  JournalNext \/ UNCHANGED journal
  BY <1>4, ConfirmConfirms DEF Confirm, Unheard, At, JournalNext
<1>5. ASSUME NEW o \in Owners, Abort(o) PROVE JournalNext \/ UNCHANGED journal
  BY <1>3, <1>5 DEF Abort, Writing
<1>6. ASSUME NEW o \in Owners, Start(o) \/ Exit(o) \/ Fetch(o) \/ FetchLost(o) \/ Busy(o)
      PROVE  UNCHANGED journal
  BY <1>6 DEF Start, Exit, Gone, Fetch, FetchLost, Busy, Committed, BeginBusy
<1>7. CASE Maintain
  BY <1>7 DEF Maintain, Committed, MaintainJournal, JournalNext
<1>8. ASSUME NEW o \in Owners, Step(o) PROVE JournalNext \/ UNCHANGED journal
  BY <1>2, <1>3, <1>4, <1>5, <1>6, <1>8 DEF Step, Local, Writing
<1>9. ASSUME NEW o \in Owners, Fault(o) PROVE JournalNext \/ UNCHANGED journal
  BY <1>2, <1>3, <1>4, <1>6, <1>9 DEF Fault, Local, Writing
<1>10. CASE (\E u \in Updates : Send(u)) \/ Expire \/ UNCHANGED vars
  BY <1>10 DEF Send, Expire, vars
<1> QED
  BY <1>2, <1>6, <1>7, <1>8, <1>9, <1>10 DEF Next, Calm, Local

\* The poller only ever takes the steps of the journal's own specification,
\* so everything that holds of the journal under any callers holds here.
THEOREM PollerImplementsJournal == Spec => ImplementsJournal
<1>1. Init => JournalInit
  BY DEF Init
<1> QED
  BY <1>1, InvHolds, JournalStep, PTL DEF Spec, ImplementsJournal, JournalSpec

(* What holds of the journal under any callers holds under the poller:     *)
(* active rows are leased, no update outlives its poison budget and the    *)
(* durable offset rests on a terminal row.                                 *)
THEOREM PollerKeepsJournal == Spec => []Safe
  BY PollerImplementsJournal, JournalSafe DEF ImplementsJournal

-----------------------------------------------------------------------------
(* Every step delivers updates as UpdateDelivery says, or leaves them.      *)

\* The refinement mapping of Delivery.
FateOf(u) ==
  CASE outcome[u] = "done" -> "done"
    [] outcome[u] = "poisoned" -> "dead"
    [] outcome[u] = "abandoned" -> "dropped"
    [] outcome[u] = "none" /\ server[u] = "unsent" -> "unsent"
    [] outcome[u] = "none" /\ server[u] = "expired" -> "dropped"
    [] OTHER -> "waiting"
Fated    == [u \in Updates |-> FateOf(u)]
Handling == {proc[o].cur : o \in {p \in Owners : proc[p].live}}

\* A fate in terms of Telegram's view, for as long as nothing is settled.
LEMMA FateIs ==
  ASSUME History, NEW u \in Updates
  PROVE  /\ FateOf(u) = "unsent" <=> server[u] = "unsent"
         /\ outcome[u] = "none" =>
              /\ server[u] = "expired" <=> FateOf(u) = "dropped"
              /\ server[u] \in {"queued", "confirmed"} <=> FateOf(u) = "waiting"
         /\ FateOf(u) = "waiting" => outcome[u] = "none"
         /\ FateOf(u) = "waiting" => server[u] = "queued" /\ ~(u < nextOffset)
  BY DEF FateOf, History, Recorded, Settled

LEMMA FatesKept ==
  ASSUME \A u \in Updates :
           /\ outcome[u] = "none" => server'[u] = server[u]
           /\ \/ outcome'[u] = outcome[u]
              \/ outcome[u] = "none" /\ outcome'[u] = "abandoned" /\ server[u] = "expired"
  PROVE  Fated' = Fated
<1>1. ASSUME NEW u \in Updates PROVE FateOf(u)' = FateOf(u)
  BY DEF FateOf
<1> QED
  BY <1>1 DEF Fated

LEMMA HandlingKept ==
  ASSUME \A o \in Owners :
           /\ proc'[o].live = proc[o].live
           /\ proc[o].live => proc'[o].cur = proc[o].cur
  PROVE  Handling' = Handling
  BY DEF Handling

\* Only the process that holds the locks executes a handler.
LEMMA HandlingAlone ==
  ASSUME IInv, NEW o \in Owners, proc[o].pc \notin {"down", "closed"}, Others(o)
  PROVE  /\ proc[o].live => Handling = {proc[o].cur}
         /\ ~proc[o].live => Handling = {}
         /\ proc'[o].live => Handling' = {proc'[o].cur}
         /\ ~proc'[o].live => Handling' = {}
<1>1. \A p \in Owners \ {o} : ~proc[p].live /\ ~proc'[p].live
  BY DEF IInv, Worker, Alone, Executing, Others
<1> QED
  BY <1>1 DEF Handling

\* What a step has to do.
Delivers ==
  \/ \E u \in Updates :
       \/ /\ \A v \in Updates : v >= u => Fated[v] = "unsent"
          /\ Fated' = [Fated EXCEPT ![u] = "waiting"] /\ Handling' = Handling
       \/ /\ Fated[u] = "waiting"
          /\ Fated' = [Fated EXCEPT ![u] = "dropped"] /\ Handling' = Handling
       \/ /\ Handling = {} /\ Fated[u] \in {"waiting", "dropped"}
          /\ \A v \in Updates : v < u => Fated[v] # "waiting"
          /\ Handling' = {u} /\ Fated' = Fated
       \/ /\ Handling = {} /\ Fated[u] \in {"waiting", "dropped"}
          /\ Fated' = [Fated EXCEPT ![u] = "done"] /\ Handling' = Handling
       \/ /\ Handling \subseteq {u} /\ Fated[u] \in {"waiting", "dropped"}
          /\ Fated' = [Fated EXCEPT ![u] = "dead"] /\ Handling' = Handling
  \/ Handling # {} /\ Handling' = {} /\ Fated' = Fated
  \/ Fated' = Fated /\ Handling' = Handling

LEMMA DeliversIs == Delivers => [Delivery!Next]_(Delivery!vars)
  BY DEF Delivers, Fated, FateOf, Handling, Delivery!Next, Delivery!vars, Delivery!Send,
         Delivery!Drop, Delivery!Start, Delivery!Stop, Delivery!Finish, Delivery!Quarantine,
         Delivery!Become

LEMMA SendDelivers ==
  ASSUME IInv, NEW u \in Updates, Send(u) PROVE Delivers
<1> USE DEF Send, journal
<1>1. History /\ server' = [server EXCEPT ![u] = "queued"] /\ outcome' = outcome
  BY DEF IInv
<1>2. \A v \in Updates : v >= u => Fated[v] = "unsent"
  BY <1>1, FateIs DEF Fated
<1>3. Fated' = [Fated EXCEPT ![u] = "waiting"]
  <2>1. FateOf(u)' = "waiting"
    BY <1>1, FateIs, JournalConstants DEF FateOf, History, Recorded
  <2>2. \A v \in Updates \ {u} : FateOf(v)' = FateOf(v)
    BY <1>1 DEF FateOf, History
  <2> QED
    BY <2>1, <2>2 DEF Fated
<1>4. Handling' = Handling
  BY DEF Handling
<1> QED
  BY <1>2, <1>3, <1>4 DEF Delivers

LEMMA ExpireDelivers ==
  ASSUME IInv, Expire PROVE Delivers
<1> USE DEF Expire, journal
<1>1. History /\ outcome' = outcome /\ Handling' = Handling
  BY DEF IInv, Handling
<1>2. PICK w \in Updates : server[w] = "queued" /\ server' = [server EXCEPT ![w] = "expired"]
  BY OldestExists DEF Queued
<1>3. \A v \in Updates \ {w} : FateOf(v)' = FateOf(v)
  BY <1>1, <1>2 DEF FateOf, History
<1>4. CASE outcome[w] = "none"
  <2>1. FateOf(w) = "waiting" /\ FateOf(w)' = "dropped"
    BY <1>1, <1>2, <1>4 DEF FateOf, History
  <2>2. Fated[w] = "waiting" /\ Fated' = [Fated EXCEPT ![w] = "dropped"]
    BY <1>3, <2>1 DEF Fated
  <2> QED
    BY <1>1, <2>2 DEF Delivers
<1>5. CASE outcome[w] # "none"
  <2>1. FateOf(w)' = FateOf(w)
    BY <1>1, <1>2, <1>5 DEF FateOf, History
  <2> QED
    BY <1>1, <1>3, <2>1 DEF Fated, Delivers
<1> QED
  BY <1>4, <1>5

\* Telegram forgets only what is settled.
LEMMA FetchDelivers ==
  ASSUME IInv, NEW o \in Owners, Fetch(o) \/ FetchLost(o) PROVE Delivers
<1> USE Known
<1>1. /\ proc[o].pc = "poll" /\ ~proc[o].live /\ Forget(proc[o].offset)
      /\ UNCHANGED <<journal, outcome>>
  BY DEF Fetch, FetchLost, Worker, Executing, At
<1>2. proc[o].offset \in Nat /\ proc[o].offset <= nextOffset /\ nextOffset \in Nat
  BY <1>1 DEF Worker, Durable, Proc, History, JournalTypeOK
<1>3. ASSUME NEW u \in Updates, outcome[u] = "none"
      PROVE  server'[u] = server[u]
  <2>1. u \in Nat /\ (u < proc[o].offset => u < nextOffset)
    BY <1>2, JournalConstants
  <2>2. server'[u] = IF server[u] = "queued" /\ u < proc[o].offset THEN "confirmed" ELSE server[u]
    BY <1>1 DEF Forget
  <2> QED
    BY <1>3, <2>1, <2>2 DEF History, Settled
<1>4. Fated' = Fated
  BY <1>1, <1>3, FatesKept
<1>5. Handling' = Handling
  BY <1>1, HandlingKept DEF Fetch, FetchLost, Proc
<1> QED
  BY <1>4, <1>5 DEF Delivers

\* A handler ends, or its process does, or neither.
LEMMA LocalDelivers ==
  ASSUME IInv, NEW o \in Owners, Local(o) PROVE Delivers
<1> USE Known DEF Proc
<1>1. /\ UNCHANGED <<journal, server, outcome>> /\ Others(o)
      /\ proc[o].pc \notin {"down", "closed"}
  BY LocalFrame
<1>2. Fated' = Fated
  BY <1>1, FatesKept
<1>3. proc'[o].live => proc[o].live /\ proc'[o].cur = proc[o].cur
  BY SMTT(30) DEF Local, Load, Cancelled, HandlerReturns, HandlerHangs, HandlerEndsLate, CancelledFailure,
         Refused, StopRequested, Close, Crash, Gone, Down, CompleteErred, Goto, Return
<1> QED
  BY <1>1, <1>2, <1>3, HandlingAlone, ZenonT(60) DEF Delivers

LEMMA EndsDelivers ==
  ASSUME IInv, NEW o \in Owners, Start(o) \/ Exit(o) PROVE Delivers
<1> USE Known DEF Proc
<1>1. Fated' = Fated
  BY FatesKept DEF Start, Exit, Gone
<1>2. CASE Start(o)
  BY <1>1, <1>2, HandlingKept DEF Start, Goto, Delivers
<1>3. CASE Exit(o) /\ proc[o].pc = "returned"
  <2>1. ~proc'[o].live /\ Others(o)
    BY <1>3 DEF Exit, Gone, Down, Others
  <2> QED
    BY <1>1, <1>3, <2>1, HandlingAlone DEF Delivers
<1>4. CASE Exit(o) /\ proc[o].pc = "closed"
  <2>1. ~proc[o].live
    BY <1>4 DEF Worker, Executing
  <2> QED
    BY <1>1, <1>4, <2>1, HandlingKept DEF Exit, Gone, Down, Delivers
<1> QED
  BY <1>2, <1>3, <1>4 DEF Exit

\* A sweep abandons only what Telegram has given up on.
LEMMA SweepDelivers ==
  ASSUME History, Noted,
         UNCHANGED journal \/ (\E conf, now : Sweeps(conf, now)),
         \A o \in Owners : proc'[o].live = proc[o].live /\ proc'[o].cur = proc[o].cur
  PROVE  Delivers
<1>1. \A u \in Updates :
        \/ outcome'[u] = outcome[u]
        \/ outcome[u] = "none" /\ outcome'[u] = "abandoned" /\ server[u] = "expired"
  BY QuietHistory, SweepHistory
<1>2. Fated' = Fated
  BY <1>1, FatesKept DEF Noted
<1> QED
  BY <1>2, HandlingKept DEF Delivers

LEMMA ClaimDelivers ==
  ASSUME IInv, NEW o \in Owners, Claim(o) PROVE Delivers
<1> USE Known DEF Proc, Claim, At
<1> DEFINE u == proc[o].cur
<1>1. proc[o].pc = "begin" /\ proc[o].pc \in Holding /\ ~proc[o].live
  BY DEF Holding, Worker, Executing
<1>2. /\ u \in Updates /\ server[u] # "unsent"
      /\ \A v \in Updates : server[v] = "queued" /\ v < u => v < nextOffset
  BY <1>1, InHand
<1>3. Writes(u) /\ rows'[u].status \notin Terminal
  BY <1>2, ClaimWrites DEF Terminal
<1>4. /\ outcome[u] = "none" /\ server' = server
      /\ \A v \in Updates : outcome'[v] = outcome[v]
  BY <1>1, <1>3, WritesHistory
<1>5. Fated' = Fated
  BY <1>4, FatesKept
<1>6. Fated[u] \in {"waiting", "dropped"} /\ \A v \in Updates : v < u => Fated[v] # "waiting"
  <2>1. FateOf(u) \in {"waiting", "dropped"}
    BY <1>2, <1>4 DEF FateOf, History
  <2>2. \A v \in Updates : v < u => FateOf(v) # "waiting"
    BY <1>2, FateIs
  <2> QED
    BY <1>2, <2>1, <2>2 DEF Fated
<1>7. Handling = {} /\ Handling' = {u}
  <2>1. Others(o) /\ proc'[o].live /\ proc'[o].cur = u
    BY DEF Others
  <2> QED
    BY <1>1, <2>1, HandlingAlone
<1> QED
  BY <1>2, <1>5, <1>6, <1>7 DEF Delivers

\* A result is recorded while the handler of no other update executes, and
\* as done only once its own has ended.
LEMMA WriteDelivers ==
  ASSUME IInv, NEW o \in Owners, proc[o].pc \in Holding, Writes(proc[o].cur), Others(o),
         proc'[o].live = proc[o].live,
         proc[o].live => proc'[o].cur = proc[o].cur /\ rows'[proc[o].cur].status # "done"
  PROVE  Delivers
<1> USE Known
<1>0. PICK u \in Updates : u = proc[o].cur
  BY InHand
<1>1. u \in Updates /\ server[u] # "unsent" /\ proc[o].pc \notin {"down", "closed"}
  BY <1>0, InHand DEF Holding
<1>2. /\ rows'[u].status \in Terminal => outcome'[u] \in {"done", "poisoned"}
      /\ rows'[u].status \notin Terminal => outcome'[u] = outcome[u]
      /\ \A v \in Updates \ {u} : outcome'[v] = outcome[v]
      /\ server' = server
  BY <1>0, WritesHistory
<1>3. Handling' = Handling /\ Handling \subseteq {u} /\ (~proc[o].live => Handling = {})
  BY <1>0, <1>1, HandlingAlone
<1>4. CASE outcome'[u] = outcome[u]
  <2>1. Fated' = Fated
    BY <1>2, <1>4, FatesKept
  <2> QED
    BY <1>3, <2>1 DEF Delivers
<1>5. CASE outcome'[u] # outcome[u]
  <2>1. outcome[u] = "none" /\ outcome'[u] = Fate(rows'[u])
    BY <1>0, <1>1, <1>5 DEF Writes, Noted
  <2>2. outcome'[u] = "poisoned" \/ (outcome'[u] = "done" /\ ~proc[o].live)
    BY <1>0, <1>2, <1>5, <2>1 DEF Fate
  <2>3. Fated[u] \in {"waiting", "dropped"}
    BY <1>1, <2>1 DEF Fated, FateOf, History
  <2>4. \A v \in Updates \ {u} : FateOf(v)' = FateOf(v)
    BY <1>2 DEF FateOf
  <2>5. CASE outcome'[u] = "poisoned"
    <3>1. FateOf(u)' = "dead"
      BY <2>5 DEF FateOf
    <3>2. Fated' = [Fated EXCEPT ![u] = "dead"]
      BY <2>4, <3>1 DEF Fated
    <3> QED
      BY <1>1, <1>3, <2>3, <3>2 DEF Delivers
  <2>6. CASE outcome'[u] = "done" /\ ~proc[o].live
    <3>1. FateOf(u)' = "done"
      BY <2>6 DEF FateOf
    <3>2. Fated' = [Fated EXCEPT ![u] = "done"]
      BY <2>4, <3>1 DEF Fated
    <3> QED
      BY <1>1, <1>3, <2>3, <2>6, <3>2 DEF Delivers
  <2> QED
    BY <2>2, <2>5, <2>6
<1> QED
  BY <1>4, <1>5

LEMMA WritingDelivers ==
  ASSUME IInv, NEW o \in Owners, Writing(o) PROVE Delivers
<1> USE Known DEF Proc
<1>1. proc[o].pc \in Holding /\ proc[o].pc # "handle"
  BY DEF Writing, Skip, Complete, FailsDead, Fails, Unheard, At, Holding
<1>2. proc[o].cur \in Updates
  BY <1>1, InHand
<1>3. proc[o].live => proc[o].pc = "failing" /\ proc[o].err = "stuck"
  BY <1>1 DEF Worker, Executing, Holding
<1>4. /\ Others(o) /\ proc'[o].live = proc[o].live
      /\ proc[o].live => proc'[o].cur = proc[o].cur
  BY <1>3 DEF Writing, Skip, Complete, FailsDead, Fails, Unheard, PolledPast, PollPast, Goto,
              Return, CompleteErred, At, Others
<1>5. \/ CommitClaim(proc[o].cur, o) \/ CommitAbort(proc[o].cur, o)
      \/ CommitSkip(proc[o].cur) /\ At(o, "begin")
      \/ CommitComplete(proc[o].cur, o) /\ At(o, "complete")
      \/ CommitDead(proc[o].cur, o) \/ CommitFailed(proc[o].cur, o)
  BY DEF Writing, Skip, Complete, FailsDead, Fails, Unheard
<1>6. Writes(proc[o].cur)
  BY <1>2, <1>5, ClaimWrites, SkipWrites, CompleteWrites, AbortWrites, DeadWrites, FailedWrites
<1>7. proc[o].live => rows'[proc[o].cur].status # "done"
  <2>1. CASE CommitDead(proc[o].cur, o)
    BY <1>2, <2>1, DeadWrites
  <2>2. CASE CommitFailed(proc[o].cur, o) \/ CommitAbort(proc[o].cur, o)
    BY <1>2, <2>2, FailedWrites, AbortWrites DEF Terminal
  <2>3. CASE CommitClaim(proc[o].cur, o)
    BY <1>2, <2>3, ClaimWrites
  <2> QED
    BY <1>3, <1>5, <2>1, <2>2, <2>3 DEF At
<1> QED
  BY <1>1, <1>4, <1>6, <1>7, WriteDelivers

LEMMA DeliveryStep == IInv /\ [Next]_vars => [Delivery!Next]_(Delivery!vars)
<1> SUFFICES ASSUME IInv, [Next]_vars PROVE Delivers
  BY DeliversIs
<1> USE Known DEF Proc
<1>1. ASSUME NEW o \in Owners, Local(o) PROVE Delivers
  BY <1>1, LocalDelivers
<1>2. ASSUME NEW o \in Owners, Writing(o) PROVE Delivers
  BY <1>2, WritingDelivers
<1>3. ASSUME NEW o \in Owners, Fetch(o) \/ FetchLost(o) PROVE Delivers
  BY <1>3, FetchDelivers
<1>4. ASSUME NEW o \in Owners, Start(o) \/ Exit(o) PROVE Delivers
  BY <1>4, EndsDelivers
<1>5. ASSUME NEW o \in Owners, Claim(o) PROVE Delivers
  BY <1>5, ClaimDelivers
<1>6. ASSUME NEW o \in Owners, Busy(o) PROVE Delivers
  <2>1. Noted /\ UNCHANGED journal
    BY <1>6 DEF Busy, Committed, BeginBusy, journal, Noted
  <2>2. \A p \in Owners : proc'[p].live = proc[p].live /\ proc'[p].cur = proc[p].cur
    BY <1>6 DEF Busy, Return
  <2> QED
    BY <2>1, <2>2, SweepDelivers
<1>7. ASSUME NEW o \in Owners, Confirm(o) \/ (Unheard(o) /\ At(o, "confirm"))
      PROVE  Delivers
  <2>1. proc[o].pc = "confirm" /\ CommitConfirm(o)
    BY <1>7 DEF Confirm, Unheard, At
  <2>2. Noted /\ (UNCHANGED journal \/ \E now : Sweeps(proc[o].offset, now))
    BY <2>1, ConfirmSweeps DEF Worker, Durable
  <2>3. \A p \in Owners : proc'[p].live = proc[p].live /\ proc'[p].cur = proc[p].cur
    BY <1>7, <2>1 DEF Confirm, Unheard, At, Goto, Return
  <2> QED
    BY <2>2, <2>3, SweepDelivers
<1>8. ASSUME NEW o \in Owners, Abort(o) PROVE Delivers
  BY <1>1, <1>2, <1>8 DEF Abort, Writing, Local, Refused
<1>9. CASE Maintain
  <2>1. Noted /\ \E now : Sweeps(confirmedOffset, now)
    BY <1>9, MaintainSweeps DEF IInv
  <2> QED
    BY <1>9, <2>1, SweepDelivers DEF Maintain, IInv
<1>10. ASSUME NEW o \in Owners, Step(o) PROVE Delivers
  BY <1>1, <1>2, <1>3, <1>4, <1>5, <1>6, <1>7, <1>8, <1>10 DEF Step, Local, Writing
<1>11. ASSUME NEW o \in Owners, Fault(o) PROVE Delivers
  BY <1>1, <1>2, <1>3, <1>7, <1>11 DEF Fault, Local, Writing
<1>12. CASE UNCHANGED vars
  BY <1>12, FatesKept, HandlingKept DEF vars, Delivers
<1> QED
  BY <1>1, <1>4, <1>9, <1>10, <1>11, <1>12, SendDelivers, ExpireDelivers
     DEF Next, Calm, Local

LEMMA DeliveryInit == Init => Delivery!Init
<1> SUFFICES ASSUME Init PROVE Delivery!Init
  OBVIOUS
<1>1. \A u \in Updates : outcome[u] = "none" /\ server[u] = "unsent"
  BY DEF Init
<1>2. \A o \in Owners : ~proc[o].live
  BY DEF Init, Down
<1> QED
  BY <1>1, <1>2 DEF Delivery!Init

\* Through crashes, restarts, lost answers and lost commits every update is
\* settled at most once, handlers run one at a time and in the order of the
\* update IDs, and an update that still waits is never overtaken.
THEOREM PollerImplementsDelivery == Spec => ImplementsDelivery
BY InvHolds, DeliveryInit, DeliveryStep, PTL DEF Spec, ImplementsDelivery, Delivery!Spec
=============================================================================
