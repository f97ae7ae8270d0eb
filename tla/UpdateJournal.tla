--------------------------- MODULE UpdateJournal ---------------------------
(***************************************************************************)
(* The persistent Telegram update journal (internal/journalstore): one     *)
(* checkpoint row and one row per update attempt, in SQLite.  Every action *)
(* is one committed transaction.  A transaction whose guard fails here is  *)
(* rolled back in the code and leaves the database as it was.              *)
(*                                                                         *)
(* The wall clock is an input of each transaction (s.now()), not a         *)
(* variable: nothing below assumes that two transactions see increasing    *)
(* times, because the host clock may be set back between them.             *)
(***************************************************************************)
EXTENDS Integers, FiniteSets

CONSTANTS
  Updates,      \* the Telegram update IDs that occur
  Owners,       \* owner tokens, one per poller generation
  NoOwner,      \* the empty owner_token
  Times,        \* wall-clock readings, two per second (see TextKey)
  MaxFailures,  \* maxUpdateHandlerFailures, the poison threshold
  DoneLimit,    \* telegramDoneRetentionLimit
  DoneAge,      \* telegramDoneRetentionAge
  DeadLimit,    \* telegramDeadRetentionLimit
  DeadAge,      \* telegramDeadRetentionAge
  PruneBatch    \* telegramPruneBatchSize

ASSUME UpdatesAssumption == Updates \subseteq Nat
ASSUME OwnersAssumption  == NoOwner \notin Owners
ASSUME TimesAssumption   == Times \subseteq Nat \ {0}
ASSUME LimitsAssumption  ==
  /\ MaxFailures \in Nat \ {0}
  /\ PruneBatch \in Nat \ {0}
  /\ {DoneLimit, DoneAge, DeadLimit, DeadAge} \subseteq Nat

VARIABLES
  rows,             \* telegram_update_attempts, by update_id
  nextOffset,       \* telegram_poll_checkpoint.next_offset
  confirmedOffset   \* telegram_poll_checkpoint.confirmed_offset

journal == <<rows, nextOffset, confirmedOffset>>

-----------------------------------------------------------------------------
(* Rows.  attempt_count, the labels and last_error only feed diagnostics.  *)

NoTime == 0   \* NULL in lease_until and finished_at

Active    == {"running", "stuck"}
Retryable == {"pending", "failed"}
Terminal  == {"done", "dead"}
Status    == {"absent"} \cup Active \cup Retryable \cup Terminal

Row == [status : Status, failures : Nat, owner : Owners \cup {NoOwner},
        lease : Times \cup {NoTime}, finished : Times \cup {NoTime}]

NoRow == [status |-> "absent", failures |-> 0, owner |-> NoOwner,
          lease |-> NoTime, finished |-> NoTime]

HeldRow(status, failures, owner, lease) ==
  [status |-> status, failures |-> failures, owner |-> owner,
   lease |-> lease, finished |-> NoTime]

IdleRow(status, failures) ==
  [NoRow EXCEPT !.status = status, !.failures = failures]

TerminalRow(status, failures, now) ==
  [NoRow EXCEPT !.status = status, !.failures = failures, !.finished = now]

IsTerminal(r, u) == r[u].status \in Terminal

(* time.Time.After on a parsed lease, and julianday() in the SQL: both     *)
(* compare instants.  A NULL lease counts as expired.                      *)
LeaseLive(r, u, now) == r[u].lease > now

(***************************************************************************)
(* finished_at is compared as TEXT.  formatTime writes RFC3339Nano, which  *)
(* drops a zero fraction, and '.' sorts before 'Z': within one second      *)
(* "...05.5Z" sorts before "...05Z".  A reading t is second t \div 2, on   *)
(* the second when t is even and half a second later when it is odd;       *)
(* TextKey is the order of the texts.                                      *)
(***************************************************************************)
TextKey(t) == IF t % 2 = 0 THEN t + 1 ELSE t - 1

-----------------------------------------------------------------------------
(* Reconciling and pruning, shared by ConfirmUpdateOffset and maintenance. *)

TakesEarliest(S, Before(_, _), n) ==
  {u \in S : Cardinality({v \in S : Before(v, u)}) < n}

\* Mutant: the update at the confirmed offset is abandoned too.
AbandonedAtOffset(r, u, conf, now) ==
  /\ u <= conf
  /\ \/ r[u].status \in Retryable
     \/ r[u].status \in Active /\ ~LeaseLive(r, u, now)
Abandoned(r, u, conf, now) ==
  /\ u < conf
  /\ \/ r[u].status \in Retryable
     \/ r[u].status \in Active /\ ~LeaseLive(r, u, now)

Reconciled(r, conf, now) ==
  LET open  == {u \in Updates : Abandoned(r, u, conf, now)}
      batch == TakesEarliest(open, LAMBDA v, u : v < u, PruneBatch)
  IN  [u \in Updates |->
         IF u \in batch THEN TerminalRow("dead", r[u].failures, now) ELSE r[u]]

OlderText(r, v, u) ==
  \/ TextKey(r[v].finished) < TextKey(r[u].finished)
  \/ r[v].finished = r[u].finished /\ v < u

\* Mutant: retention forgets that an unconfirmed update may be redelivered.
PrunableUnconfirmed(r, status, conf) == {u \in Updates : r[u].status = status}
Prunable(r, status, conf) == {u \in Updates : r[u].status = status /\ u < conf}

Pruned(r, status, conf, limit, cutoff) ==
  LET settled == Prunable(r, status, conf)
      newest  == TakesEarliest(settled, LAMBDA v, u : OlderText(r, u, v), limit)
      surplus == {u \in settled : \/ TextKey(r[u].finished) < TextKey(cutoff)
                                  \/ u \notin newest}
      batch   == TakesEarliest(surplus, LAMBDA v, u : OlderText(r, v, u), PruneBatch)
  IN  [u \in Updates |-> IF u \in batch THEN NoRow ELSE r[u]]

Swept(r, conf, now) ==
  LET open  == Reconciled(r, conf, now)
      early == Pruned(open, "done", conf, DoneLimit, now - DoneAge)
  IN  Pruned(early, "dead", conf, DeadLimit, now - DeadAge)

-----------------------------------------------------------------------------
JournalInit ==
  /\ rows = [u \in Updates |-> NoRow]
  /\ nextOffset = 0
  /\ confirmedOffset = 0

(* advanceTelegramNextOffset: the UPDATE touches no row, and the           *)
(* transaction is rolled back, when Telegram has already confirmed more.   *)
AdvanceNextOffset(n) ==
  /\ confirmedOffset <= n
  /\ nextOffset' = IF nextOffset < n THEN n ELSE nextOffset
  /\ UNCHANGED confirmedOffset

SetRow(u, row) == rows' = [rows EXCEPT ![u] = row]

-----------------------------------------------------------------------------
(* BeginUpdateAttempt, one action per disposition.                         *)

BeginFresh(u, o, now, lease) ==
  /\ lease > now
  /\ rows[u].status = "absent"
  /\ SetRow(u, HeldRow("running", 0, o, lease))
  /\ UNCHANGED <<nextOffset, confirmedOffset>>

BeginTerminal(u) ==
  /\ IsTerminal(rows, u)
  /\ AdvanceNextOffset(u + 1)
  /\ UNCHANGED rows

BeginBusy(u, now) ==
  /\ rows[u].status \in Active
  /\ LeaseLive(rows, u, now)
  /\ UNCHANGED journal

Expired(u, now) == rows[u].status \in Active /\ ~LeaseLive(rows, u, now)

(* An expired running claim consumes one failure; a stuck one was already  *)
(* charged when it was recorded, a pending or failed one owes nothing.     *)
\* Mutant: reclaiming a row starts its failures afresh.
ChargedAfresh(u) == 0
ChargedFailures(u) ==
  rows[u].failures + (IF rows[u].status = "running" THEN 1 ELSE 0)

\* Mutant: the third lost owner is reclaimed instead of poisoning the update.
PoisonedLate(u) == rows[u].status = "running" /\ ChargedFailures(u) > MaxFailures
Poisoned(u) == rows[u].status = "running" /\ ChargedFailures(u) >= MaxFailures

BeginExhausted(u, now) ==
  /\ Expired(u, now)
  /\ Poisoned(u)
  /\ SetRow(u, TerminalRow("dead", ChargedFailures(u), now))
  /\ AdvanceNextOffset(u + 1)

\* Mutant: dead updates are offered for execution again.
ReclaimableEvenDead(u, now) ==
  rows[u].status \in Retryable \cup {"dead"} \/ (Expired(u, now) /\ ~Poisoned(u))
Reclaimable(u, now) ==
  rows[u].status \in Retryable \/ (Expired(u, now) /\ ~Poisoned(u))

BeginReclaim(u, o, now, lease) ==
  /\ lease > now
  /\ Reclaimable(u, now)
  /\ SetRow(u, HeldRow("running", ChargedFailures(u), o, lease))
  /\ UNCHANGED <<nextOffset, confirmedOffset>>

-----------------------------------------------------------------------------
Owns(u, o) == rows[u].status = "running" /\ rows[u].owner = o

CompleteUpdateAttempt(u, o, now) ==
  /\ Owns(u, o)
  /\ SetRow(u, TerminalRow("done", rows[u].failures, now))
  /\ AdvanceNextOffset(u + 1)

AbortUpdateAttempt(u, o) ==
  /\ Owns(u, o)
  /\ SetRow(u, IdleRow("pending", rows[u].failures))
  /\ UNCHANGED <<nextOffset, confirmedOffset>>

(* hold = NoTime is the zero holdLeaseUntil of an ordinary failure.        *)
FailDead(u, o, now) ==
  /\ Owns(u, o)
  /\ rows[u].failures + 1 >= MaxFailures
  /\ SetRow(u, TerminalRow("dead", rows[u].failures + 1, now))
  /\ AdvanceNextOffset(u + 1)

FailLive(u, o, now, hold) ==
  /\ Owns(u, o)
  /\ rows[u].failures + 1 < MaxFailures
  /\ \/ hold = NoTime /\ SetRow(u, IdleRow("failed", rows[u].failures + 1))
     \/ hold > now /\ SetRow(u, HeldRow("stuck", rows[u].failures + 1, o, hold))
  /\ UNCHANGED <<nextOffset, confirmedOffset>>

FailUpdateAttempt(u, o, now, hold) == FailDead(u, o, now) \/ FailLive(u, o, now, hold)

-----------------------------------------------------------------------------
\* Mutant: an older confirmation overwrites a newer one.
ConfirmAnyOrder(offset, now) ==
  /\ offset <= nextOffset
  /\ confirmedOffset' = offset
  /\ rows' = Swept(rows, offset, now)
  /\ UNCHANGED nextOffset
ConfirmUpdateOffset(offset, now) ==
  /\ offset <= nextOffset
  /\ IF offset <= confirmedOffset
     THEN UNCHANGED journal
     ELSE /\ confirmedOffset' = offset
          /\ rows' = Swept(rows, offset, now)
          /\ UNCHANGED nextOffset

PruneTelegramUpdateJournal(now) ==
  /\ rows' = Swept(rows, confirmedOffset, now)
  /\ UNCHANGED <<nextOffset, confirmedOffset>>

-----------------------------------------------------------------------------
(* Any owner may call any operation at any time: the store must hold its   *)
(* promises for every sequence of calls, whoever makes them.               *)

Begin(u, o) ==
  \/ \E now, lease \in Times : BeginFresh(u, o, now, lease)
  \/ BeginTerminal(u)
  \/ \E now \in Times : BeginExhausted(u, now)
  \/ \E now, lease \in Times : BeginReclaim(u, o, now, lease)

Settle(u, o) ==
  \/ \E now \in Times : CompleteUpdateAttempt(u, o, now)
  \/ AbortUpdateAttempt(u, o)
  \/ \E now \in Times, hold \in Times \cup {NoTime} : FailUpdateAttempt(u, o, now, hold)

ConfirmAny == \E u \in Updates, now \in Times : ConfirmUpdateOffset(u + 1, now)

MaintainJournal == \E now \in Times : PruneTelegramUpdateJournal(now)

JournalNext ==
  \/ \E u \in Updates, o \in Owners : Begin(u, o) \/ Settle(u, o)
  \/ ConfirmAny
  \/ MaintainJournal

JournalSpec == JournalInit /\ [][JournalNext]_journal

-----------------------------------------------------------------------------
JournalTypeOK ==
  /\ rows \in [Updates -> Row]
  /\ nextOffset \in Nat
  /\ confirmedOffset \in Nat

(* Active rows carry an owner and a lease, no other row carries either,    *)
(* and exactly the terminal rows are finished.  BeginUpdateAttempt returns *)
(* an error for ever on an active row without a lease.                     *)
RowsWellFormed ==
  \A u \in Updates :
    /\ rows[u].status \in Active   <=> rows[u].owner # NoOwner
    /\ rows[u].status \in Active   <=> rows[u].lease # NoTime
    /\ rows[u].status \in Terminal <=> rows[u].finished # NoTime

(* The poison budget: a row that may still be executed has failed fewer    *)
(* than MaxFailures times.                                                 *)
BudgetLeft ==
  \A u \in Updates : ~IsTerminal(rows, u) => rows[u].failures < MaxFailures

(* The CHECK constraint that LoadUpdateCheckpoint re-validates.            *)
CheckpointOrdered == confirmedOffset <= nextOffset

(* The durable offset rests on a terminal row: as long as Telegram has not *)
(* confirmed it, the row of the update just below next_offset is still     *)
(* there and done or dead.                                                 *)
CheckpointBacked ==
  \A u \in Updates :
    u + 1 = nextOffset /\ confirmedOffset < nextOffset => IsTerminal(rows, u)

Safe == RowsWellFormed /\ BudgetLeft /\ CheckpointOrdered /\ CheckpointBacked

(* A terminal outcome never changes, and its row disappears only once      *)
(* Telegram has confirmed an offset above it, so that a redelivered update *)
(* is still recognised.                                                    *)
TerminalRowsAreFinal ==
  [][\A u \in Updates :
       IsTerminal(rows, u) =>
         \/ rows'[u] = rows[u]
         \/ rows'[u] = NoRow /\ u < confirmedOffset']_journal

(* Neither offset ever moves back, and next_offset moves only to just      *)
(* above an update whose row is terminal in the same commit.               *)
OffsetsAdvanceWithOutcome ==
  [][/\ nextOffset <= nextOffset' /\ confirmedOffset <= confirmedOffset'
     /\ nextOffset' # nextOffset =>
          \E u \in Updates : u + 1 = nextOffset' /\ IsTerminal(rows', u)]_journal

(* An update is declared dead only after MaxFailures counted failures, or  *)
(* because Telegram confirmed a higher offset and nobody holds it.         *)
DeadIsEarned ==
  [][\A u \in Updates :
       rows'[u].status = "dead" /\ rows[u].status # "dead" =>
         \/ rows'[u].failures >= MaxFailures
         \/ u < confirmedOffset']_journal
=============================================================================
