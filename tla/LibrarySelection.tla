------------------------- MODULE LibrarySelection -------------------------
(***************************************************************************)
(* Which loop the bot plays: the choice for the period of the clock, the   *)
(* persisted plans and overrides it rests on, the bounded attempts to put  *)
(* a candidate on in OBS, and what is undone when none of them works.      *)
(*                                                                         *)
(* Every operation holds playbackMu from its first step to its last, so    *)
(* that operations do not interleave; what goes on under one of them is    *)
(* the clock, OBS, and the end of the process.                             *)
(***************************************************************************)
EXTENDS Integers, FiniteSets

CONSTANTS
  Loops,           \* the loop assets, records with a period and a theme
  Themes,          \* the themes a command may name
  Instants,        \* the readings of the clock, in hours since a midnight
  MaxCandidates,   \* maxLibraryPlaybackCandidates
  MaxStops,        \* slow stops that use up the fail-closed budget
  MaxMoves,        \* bound on commands, previews, scans, faults and crashes
  Nothing          \* no loop, no theme, no plan

Periods == {"morning", "day", "evening", "night"}

(***************************************************************************)
(* Local time                                                              *)
(***************************************************************************)
Hour(t) == t % 24
Date(t) == t \div 24

PeriodAt(t) == CASE Hour(t) \in 6 .. 10  -> "morning"
                 [] Hour(t) \in 11 .. 16 -> "day"
                 [] Hour(t) \in 17 .. 20 -> "evening"
                 [] OTHER                -> "night"

PeriodEnd(t) == LET hour == CASE PeriodAt(t) = "morning" -> 11
                              [] PeriodAt(t) = "day"     -> 17
                              [] PeriodAt(t) = "evening" -> 21
                              [] OTHER -> IF Hour(t) < 6 THEN 6 ELSE 30
                IN  24 * Date(t) + hour

\* The hours after midnight belong to the night of the day before.
Early(t) == Hour(t) < 6
PlanDate(t) == IF Early(t) THEN Date(t) - 1 ELSE Date(t)

Slot(t) == [date |-> PlanDate(t), period |-> PeriodAt(t)]

Slots == {Slot(t) : t \in Instants}
Dates == {Date(t) : t \in Instants} \cup {PlanDate(t) : t \in Instants}

ASSUME LoopsAssumption ==
  /\ IsFiniteSet(Loops)
  /\ \A l \in Loops : l.period \in Periods /\ l.theme \in Themes
ASSUME ClockAssumption == Instants \subseteq Nat
ASSUME LimitsAssumption == {MaxCandidates, MaxStops, MaxMoves} \subseteq Nat \ {0}

(***************************************************************************)
(* State                                                                   *)
(***************************************************************************)
VARIABLES
  now,         \* the clock
  db,          \* library_overrides by date, library_period_plans by slot
  snapshot,    \* librarySnapshot.Loops
  quarantine,  \* libraryQuarantine
  active,      \* activeLoopID ... activeLoopEndsAt
  shown,       \* what the loop source in OBS plays
  op,          \* the operation that holds playbackMu
  last,        \* history: how the last operation ended
  promise,     \* history: the loop announced or played for each slot
  odd,         \* history: "torn", a command was stored by half; "setback",
               \* the clock was set back; "lost", a selection was not restored;
               \* "cut", the process ended while it had given up a loop for now
  moves

vars == <<now, db, snapshot, quarantine, active, shown, op, last, promise, odd, moves>>

\* A plan also says under which day's theme it was drawn, as a history.
Plan == [loop : Loops, under : Dates \cup {Nothing}]
Override == [theme : Themes \cup {Nothing}, direct : Loops \cup {Nothing}]
NoOverride == [theme |-> Nothing, direct |-> Nothing]
Activation == [loop : Loops, period : Periods, ends : Nat]
ASSUME NothingAssumption ==
  /\ Nothing \notin Loops /\ Nothing \notin Themes /\ Nothing \notin Dates
  /\ Nothing \notin Plan /\ Nothing \notin Activation

Selection == [override : Override, plan : Plan \cup {Nothing}]
NoSelection == [override |-> NoOverride, plan |-> Nothing]

Idle == [pc |-> "idle", kind |-> "none", at |-> 0, redraw |-> FALSE,
         always |-> FALSE, start |-> NoSelection, saved |-> NoSelection,
         usable |-> {}, over |-> FALSE, attempt |-> 0, tentative |-> {},
         unhealthy |-> {}, asked |-> FALSE, errs |-> {}, left |-> 0,
         pick |-> Nothing, under |-> Nothing]

Oddities == {"torn", "setback", "lost", "cut"}
NoPromise == [s \in Slots |-> Nothing]
NoVerdict == [verdict |-> "none", at |-> 0, under |-> Nothing]

TypeOK ==
  /\ now \in Instants
  /\ db \in [override : [Dates -> Override], plan : [Slots -> Plan \cup {Nothing}]]
  /\ snapshot \subseteq Loops
  /\ quarantine \subseteq Loops
  /\ active \in Activation \cup {Nothing}
  /\ shown \in Loops \cup {Nothing}
  /\ op \in [pc : {"idle", "capture", "choose", "play", "undo", "close"},
             kind : {"none", "ensure", "repair"}, at : Instants \cup {0},
             redraw : BOOLEAN, always : BOOLEAN, start : Selection,
             saved : Selection, usable : SUBSET Loops, over : BOOLEAN,
             attempt : 0 .. MaxCandidates, tentative : SUBSET Loops,
             unhealthy : SUBSET Loops, asked : BOOLEAN,
             errs : SUBSET {"mutated", "unclean"}, left : 0 .. MaxStops,
             pick : Loops \cup {Nothing}, under : Dates \cup {Nothing}]
  /\ last \in [verdict : {"none", "playing", "failed"}, at : Instants \cup {0},
               under : Dates \cup {Nothing}]
  /\ promise \in [Slots -> Loops \cup {Nothing}]
  /\ odd \subseteq Oddities
  /\ moves \in 0 .. MaxMoves

Init ==
  /\ now \in Instants
  /\ db = [override |-> [d \in Dates |-> NoOverride], plan |-> [s \in Slots |-> Nothing]]
  /\ snapshot = Loops
  /\ quarantine = {}
  /\ active = Nothing
  /\ shown \in Loops \cup {Nothing}
  /\ op = Idle
  /\ last = NoVerdict
  /\ promise = NoPromise
  /\ odd = {}
  /\ moves = 0

Move == moves < MaxMoves /\ moves' = moves + 1

(***************************************************************************)
(* Choosing a loop (loopForTimeLocked)                                     *)
(***************************************************************************)
\* findLoopByID and playableLibraryLocked see these.
Usable == snapshot \ quarantine

\* After midnight the overrides of the day before are over, and so is the
\* night's plan, which may have been drawn under them.
NightIsOver(t) == Early(t) /\ db.override[PlanDate(t)] # NoOverride

Expired(t) ==
  IF NightIsOver(t)
  THEN [override |-> [db.override EXCEPT ![PlanDate(t)] = NoOverride],
        plan |-> [db.plan EXCEPT ![Slot(t)] = Nothing]]
  ELSE db

\* A plan is kept unless today's theme can be had and is another one.
CanReusePeriodPlan(loop, theme, t) ==
  \/ theme \in {Nothing, loop.theme}
  \/ ~ \E l \in Usable : l.period = PeriodAt(t) /\ l.theme = theme

Candidates(theme, t) ==
  LET here == {l \in Usable : l.period = PeriodAt(t)}
      themed == {l \in here : l.theme = theme}
  IN  IF themed = {} THEN here ELSE themed

Reused(t, redraw) ==
  LET plan == Expired(t).plan[Slot(t)]
  IN  /\ ~ redraw
      /\ plan # Nothing
      /\ CanReusePeriodPlan(plan.loop, Expired(t).override[Date(t)].theme, t)
      /\ plan.loop \in Usable

\* A direct override whose loop cannot be used is dropped, and so is a plan
\* that is to be redrawn or whose loop cannot be used. The code ignores errors
\* of these two deletions; "ok" is FALSE when the state store refuses them.
DirectTidied(t) ==
  IF Expired(t).override[Date(t)].direct \in Usable THEN Expired(t)
  ELSE [Expired(t) EXCEPT !.override[Date(t)].direct = Nothing]

Tidied(t, redraw, ok) ==
  LET plan == Expired(t).plan[Slot(t)]
      theme == Expired(t).override[Date(t)].theme
      gone == \/ redraw
              \/ /\ plan # Nothing
                 /\ CanReusePeriodPlan(plan.loop, theme, t)
                 /\ plan.loop \notin Usable
  IN  IF ~ ok THEN Expired(t)
      ELSE IF gone THEN [DirectTidied(t) EXCEPT !.plan[Slot(t)] = Nothing]
      ELSE DirectTidied(t)

\* The loops that may be chosen, each with the state store it leaves behind and
\* the day whose override it was chosen for.
Chosen(t, redraw, ok) ==
  LET direct == Expired(t).override[Date(t)].direct
      theme == Expired(t).override[Date(t)].theme
      tidy == Tidied(t, redraw, ok)
      plan == Expired(t).plan[Slot(t)]
      Under(l) == IF l.theme = theme THEN Date(t) ELSE Nothing
  IN  IF direct \in Usable
      THEN {[loop |-> direct, under |-> Date(t), db |-> Expired(t)]}
      ELSE IF Reused(t, redraw)
      THEN {[loop |-> plan.loop, under |-> plan.under, db |-> tidy]}
      ELSE {[loop |-> l, under |-> Under(l),
             db |-> [tidy EXCEPT !.plan[Slot(t)] = [loop |-> l, under |-> Under(l)]]] :
              l \in Candidates(theme, t)}

\* An error leaves one of these behind.
Interrupted(t, redraw) ==
  {db, Expired(t), DirectTidied(t), Tidied(t, redraw, TRUE)}

(***************************************************************************)
(* Bookkeeping of what was promised for a slot                             *)
(***************************************************************************)
\* A promise ends with its loop, and with the night it was made for.
StillThere(p) == [s \in Slots |-> IF p[s] \in snapshot' \ quarantine' THEN p[s] ELSE Nothing]
Standing == StillThere(promise)
Outlived(t) == IF NightIsOver(t)
               THEN [s \in Slots |-> IF s.date <= PlanDate(t) THEN Nothing ELSE promise[s]]
               ELSE promise
Without(p, t) == [p EXCEPT ![Slot(t)] = Nothing]

(***************************************************************************)
(* Starting an operation                                                   *)
(***************************************************************************)
Begin(kind, force, always) ==
  /\ op' = [Idle EXCEPT !.pc = "capture", !.kind = kind, !.redraw = force,
                        !.always = always, !.left = MaxStops]
  /\ last' = NoVerdict

\* The scheduler, the recovery after a reconnect, and /now.
EnsureLibraryPlayback ==
  /\ op = Idle
  /\ Begin("ensure", FALSE, FALSE)
  /\ UNCHANGED <<now, db, snapshot, quarantine, active, shown, promise, odd, moves>>

\* The commands change an override and force a new draw. ClearPlansForDate
\* takes the plans of the calendar day.
PlansWithout(date) == [s \in Slots |-> IF s.date = date THEN Nothing ELSE db.plan[s]]

Command(override, plan) ==
  /\ op = Idle
  /\ Move
  /\ db' = [override |-> [db.override EXCEPT ![Date(now)] = override], plan |-> plan]
  /\ promise' = NoPromise
  /\ Begin("ensure", TRUE, TRUE)
  /\ UNCHANGED <<now, snapshot, quarantine, active, shown, odd>>

SetTheme(theme) ==
  Command([theme |-> theme, direct |-> Nothing], PlansWithout(Date(now)))
ClearTheme ==
  Command([db.override[Date(now)] EXCEPT !.theme = Nothing], PlansWithout(Date(now)))
SelectLoop(loop) ==
  loop \in Usable /\ Command([db.override[Date(now)] EXCEPT !.direct = loop], db.plan)
SkipLoop ==
  Command([db.override[Date(now)] EXCEPT !.direct = Nothing], db.plan)

\* The second statement of a theme command is refused.
ThemeTorn(theme) ==
  /\ op = Idle
  /\ Move
  /\ db' = [db EXCEPT !.override[Date(now)] =
              IF theme = Nothing THEN [@ EXCEPT !.theme = Nothing]
              ELSE [theme |-> theme, direct |-> Nothing]]
  /\ promise' = NoPromise
  /\ odd' = odd \cup {"torn"}
  /\ UNCHANGED <<now, snapshot, quarantine, active, shown, op, last>>

\* /preview chooses for the period that comes next, and keeps what it chose.
PreviewLoop ==
  LET t == PeriodEnd(now) IN
  /\ op = Idle
  /\ t \in Instants
  /\ Move
  /\ \/ \E c \in Chosen(t, FALSE, TRUE) :
          db' = c.db /\ promise' = [promise EXCEPT ![Slot(t)] = c.loop]
     \/ /\ Chosen(t, FALSE, TRUE) = {}
        /\ db' = Tidied(t, FALSE, TRUE)
        /\ UNCHANGED promise
  /\ UNCHANGED <<now, snapshot, quarantine, active, shown, op, last, odd>>

\* reconcileLibrarySourceLocked found the loop source stopped, stalled or in
\* error, or with another file, also when no loop is active: a loop is played
\* again, and not the one that is to blame.
RepairLoop ==
  /\ op = Idle
  /\ \/ UNCHANGED <<quarantine, active, shown, moves>>
     \/ active' = Nothing /\ UNCHANGED <<quarantine, shown, moves>>
     \/ /\ active # Nothing
        /\ Move
        /\ quarantine' = quarantine \cup {active.loop}
        /\ active' = Nothing
        /\ shown' \in {shown, Nothing}
  /\ UNCHANGED snapshot
  /\ promise' = Standing
  /\ Begin("repair", FALSE, TRUE)
  /\ UNCHANGED <<now, db, odd>>

(***************************************************************************)
(* The steps of an activation (activateScheduledLibraryLoopLocked)         *)
(***************************************************************************)
\* capturePlaybackSelectionLocked: what to go back to. A selection that cannot
\* be used, or is over, is not brought back.
PlanUsable(plan) ==
  plan # Nothing /\ plan.loop \in Usable /\ plan.loop.period = PeriodAt(now)

\* Mutant: the night's plan is brought back after midnight.
PlanKeptPastMidnight(plan) == PlanUsable(plan)
PlanKept(plan) == PlanUsable(plan) /\ ~ NightIsOver(now)

Capture ==
  LET chosen == db.override[Date(now)]
      plan == db.plan[Slot(now)]
  IN
  /\ op.pc = "capture"
  /\ op' = [op EXCEPT !.pc = "choose", !.at = now, !.usable = Usable,
                      !.over = NightIsOver(now),
                      !.start = [override |-> chosen, plan |-> plan],
                      !.saved = [override |-> IF chosen.direct \in Usable THEN chosen
                                              ELSE [chosen EXCEPT !.direct = Nothing],
                                 plan |-> IF PlanKept(plan) THEN plan ELSE Nothing]]
  /\ UNCHANGED <<now, db, snapshot, quarantine, active, shown, last, promise, odd, moves>>

\* The end of an activation without a loop. Only ensureLibraryPlaybackLocked
\* then looks at what is left on.
Leave(o) == op' = IF o.kind = "ensure" THEN [o EXCEPT !.pc = "close"] ELSE Idle

CaptureRefused ==
  /\ op.pc = "capture"
  /\ Move
  /\ Leave([op EXCEPT !.at = now])
  /\ last' = NoVerdict
  /\ UNCHANGED <<now, db, snapshot, quarantine, active, shown, promise, odd>>

Succeed(loop, under, p) ==
  /\ op' = Idle
  /\ last' = [verdict |-> "playing", at |-> op.at, under |-> under]
  /\ promise' = [s \in Slots |-> IF s = Slot(op.at) THEN loop
                                 ELSE IF p[s] \in quarantine THEN Nothing ELSE p[s]]

NeedsPlay(loop) ==
  \/ op.always
  \/ active # [loop |-> loop, period |-> PeriodAt(op.at), ends |-> PeriodEnd(op.at)]

Redraw == op.redraw /\ op.attempt = 0

ChooseLoop ==
  /\ op.pc = "choose"
  /\ \E ok \in BOOLEAN : \E c \in Chosen(op.at, Redraw, ok) :
       /\ IF ok THEN UNCHANGED moves ELSE Move
       /\ db' = c.db
       /\ LET p == IF ok THEN Outlived(op.at) ELSE Without(Outlived(op.at), op.at) IN
          IF NeedsPlay(c.loop)
          THEN /\ op' = [op EXCEPT !.pc = "play", !.pick = c.loop, !.under = c.under]
               /\ promise' = p
               /\ UNCHANGED last
          ELSE Succeed(c.loop, c.under, p)
  /\ UNCHANGED <<now, snapshot, quarantine, active, shown, odd>>

\* No loop for this period, or the state store refuses.
ChooseFails ==
  /\ op.pc = "choose"
  /\ \/ /\ Chosen(op.at, Redraw, TRUE) = {}
        /\ db' = Tidied(op.at, Redraw, TRUE)
        /\ UNCHANGED moves
     \/ Move /\ db' \in Interrupted(op.at, Redraw)
  /\ op' = [op EXCEPT !.pc = "undo"]
  /\ promise' = IF moves' = moves THEN Outlived(op.at) ELSE Without(Outlived(op.at), op.at)
  /\ UNCHANGED <<now, snapshot, quarantine, active, shown, last, odd>>

\* boundedLibraryCandidateAttempts
AttemptLimit == LET n == Cardinality(snapshot) IN
                IF n = 0 THEN 1 ELSE IF n > MaxCandidates THEN MaxCandidates ELSE n

NextCandidate(o) ==
  op' = [o EXCEPT !.attempt = @ + 1,
                  !.pc = IF o.attempt + 1 < AttemptLimit THEN "choose" ELSE "undo"]

\* ensurePlayableLibraryAssetLocked finds the file unfit.
FoundUnhealthy ==
  /\ op.pc = "play"
  /\ Move
  /\ quarantine' = quarantine \cup {op.pick}
  /\ NextCandidate([op EXCEPT !.unhealthy = @ \cup {op.pick}])
  /\ UNCHANGED <<now, db, snapshot, active, shown, last, promise, odd>>

\* The operation's time is over while the file is validated, or the fail-closed
\* budget is used up: OBS is not touched.
PlayCut ==
  /\ op.pc = "play"
  /\ op' = [op EXCEPT !.pc = "undo", !.asked = TRUE]
  /\ UNCHANGED <<now, db, snapshot, quarantine, active, shown, last, promise, odd, moves>>

Play ==
  /\ op.pc = "play"
  /\ op.left > 0
  /\ shown' = op.pick
  /\ active' = [loop |-> op.pick, period |-> PeriodAt(op.at), ends |-> PeriodEnd(op.at)]
  /\ Succeed(op.pick, op.under, promise)
  /\ UNCHANGED <<now, db, snapshot, quarantine, odd, moves>>

\* OBS failed on one of the requests of a play, and the source is stopped, at
\* the cost of some of the budget. The failure may be the file's or OBS's.
PlayRejected ==
  /\ op.pc = "play"
  /\ op.left > 0
  /\ active' = Nothing
  /\ \E cost \in {0, 1} :
       LET o == [op EXCEPT !.asked = TRUE, !.left = @ - cost,
                           !.errs = @ \cup {"mutated"}]
       IN  \/ /\ shown' = Nothing
              /\ \/ /\ quarantine' = quarantine \cup {op.pick}
                    /\ NextCandidate([o EXCEPT !.tentative = @ \cup {op.pick}])
                 \/ op' = [o EXCEPT !.pc = "undo"] /\ UNCHANGED quarantine
           \/ /\ shown' \in {shown, op.pick, Nothing}
              /\ op' = [o EXCEPT !.pc = "undo", !.errs = @ \cup {"unclean"}]
              /\ UNCHANGED quarantine
  /\ UNCHANGED <<now, db, snapshot, last, promise, odd, moves>>

\* Mutant: only the override is restored.
RestoredOverride(o) ==
  [db EXCEPT !.override[Date(o.at)] = o.saved.override]
Restored(o) ==
  [override |-> [db.override EXCEPT ![Date(o.at)] = o.saved.override],
   plan |-> [db.plan EXCEPT ![Slot(o.at)] = o.saved.plan]]

\* Mutant: an outage leaves its marks on the files.
WithdrawnNone(o) == quarantine
Withdrawn(o) == quarantine \ o.tentative

\* No candidate is on: withdraw the tentative quarantines and, if OBS was asked
\* at all, restore the selection with what is left of the budget.
Undo ==
  /\ op.pc = "undo"
  /\ quarantine' = Withdrawn(op)
  /\ \/ /\ op.asked /\ op.left > 0
        /\ db' = Restored(op)
        /\ UNCHANGED <<odd, moves>>
     \/ /\ ~ op.asked
        /\ UNCHANGED <<db, odd, moves>>
     \/ /\ op.asked
        /\ (op.left = 0 /\ UNCHANGED moves) \/ Move
        /\ odd' = odd \cup {"lost"}
        /\ UNCHANGED db
  /\ last' = NoVerdict
  /\ Leave(op)
  /\ UNCHANGED <<now, snapshot, active, shown, promise>>

\* failClosedExpiredLoopLocked: keep what still belongs to the period, stop the
\* rest, even if the bot does not know what it is.
StillCurrent ==
  /\ active # Nothing
  /\ active.period = PeriodAt(op.at)
  /\ op.at < active.ends
  /\ active.loop \in Usable

\* Mutant: a failed stop counts as a stop.
StoppedOrFailed == active = Nothing /\ "mutated" \in op.errs
AlreadyStopped == active = Nothing /\ "mutated" \in op.errs /\ "unclean" \notin op.errs

LeaveOn ==
  /\ op.pc = "close"
  /\ AlreadyStopped \/ StillCurrent
  /\ op' = Idle
  /\ last' = [verdict |-> "failed", at |-> op.at, under |-> Nothing]
  /\ UNCHANGED <<now, db, snapshot, quarantine, active, shown, promise, odd, moves>>

StopExpired ==
  /\ op.pc = "close"
  /\ ~ AlreadyStopped /\ ~ StillCurrent
  /\ op' = Idle
  /\ \/ /\ op.left > 0
        /\ shown' = Nothing
        /\ active' = Nothing
        /\ last' = [verdict |-> "failed", at |-> op.at, under |-> Nothing]
     \/ last' = NoVerdict /\ UNCHANGED <<shown, active>>
  /\ UNCHANGED <<now, db, snapshot, quarantine, promise, odd, moves>>

(***************************************************************************)
(* Around the bot                                                          *)
(***************************************************************************)
\* A scan is published: the loops it saw, and the healthy ones among them.
PublishScan ==
  /\ op = Idle
  /\ Move
  /\ \E seen \in SUBSET Loops :
       /\ quarantine' = quarantine \cap seen
       /\ snapshot' \in SUBSET (seen \ quarantine)
  /\ promise' = IF snapshot' \subseteq snapshot THEN Standing ELSE NoPromise
  /\ UNCHANGED <<now, db, active, shown, op, last, odd>>

\* A quarantined file is replaced: its entry no longer counts.
ReplaceFile(loop) ==
  /\ op = Idle
  /\ loop \in quarantine
  /\ Move
  /\ quarantine' = quarantine \ {loop}
  /\ promise' = NoPromise
  /\ UNCHANGED <<now, db, snapshot, active, shown, op, last, odd>>

\* OBS restarts, or somebody stops the source. What happens in the middle of an
\* activation shows in how OBS answers, and is otherwise as if it came after it.
GoDark ==
  /\ op = Idle
  /\ shown # Nothing
  /\ shown' = Nothing
  /\ UNCHANGED <<now, db, snapshot, quarantine, active, op, last, promise, odd, moves>>

\* The clock moves on, or is set. An activation reads it once.
Tick ==
  /\ op.pc \in {"idle", "capture"}
  /\ now' \in Instants
  /\ \/ now' > now /\ UNCHANGED <<odd, moves>>
     \/ now' < now /\ Move /\ odd' = odd \cup {"setback"}
  /\ last' = NoVerdict
  /\ UNCHANGED <<db, snapshot, quarantine, active, shown, op, promise>>

\* What an activation under way has quarantined for now, because OBS failed.
HeldBack == op.tentative \cap quarantine

\* The process ends, perhaps between two statements of a choice, and another one
\* scans the library. Nobody restores the selection of an activation under way,
\* and what it held back can be used again. Promises end if that is true of any
\* other loop.
Restart ==
  /\ Move
  /\ snapshot' \in SUBSET Loops
  /\ quarantine' = {}
  /\ active' = Nothing
  /\ op' = Idle
  /\ last' = NoVerdict
  /\ IF op.pc = "choose" THEN db' \in Interrupted(op.at, Redraw) ELSE UNCHANGED db
  /\ promise' = IF snapshot' \subseteq Usable \cup HeldBack
                THEN StillThere(IF op.pc = "choose" THEN Outlived(op.at) ELSE promise)
                ELSE NoPromise
  /\ odd' = IF HeldBack \cap snapshot' = {} THEN odd ELSE odd \cup {"cut"}
  /\ UNCHANGED <<now, shown>>

Next ==
  \/ EnsureLibraryPlayback
  \/ \E theme \in Themes : SetTheme(theme)
  \/ ClearTheme
  \/ \E loop \in Loops : SelectLoop(loop)
  \/ SkipLoop
  \/ \E theme \in Themes \cup {Nothing} : ThemeTorn(theme)
  \/ PreviewLoop
  \/ RepairLoop
  \/ Capture
  \/ CaptureRefused
  \/ ChooseLoop
  \/ ChooseFails
  \/ FoundUnhealthy
  \/ PlayCut
  \/ Play
  \/ PlayRejected
  \/ Undo
  \/ LeaveOn
  \/ StopExpired
  \/ PublishScan
  \/ \E loop \in Loops : ReplaceFile(loop)
  \/ GoDark
  \/ Tick
  \/ Restart

Spec == Init /\ [][Next]_vars

(***************************************************************************)
(* Properties                                                              *)
(***************************************************************************)
\* When playback was looked after and no stop failed, OBS shows nothing, or the
\* loop the bot takes for active, which belongs to the period the clock showed
\* (ensureLibraryPlaybackLocked, failClosedExpiredLoopLocked): whatever was left
\* on by an earlier period, a failed candidate or an earlier process is gone.
ExpiredLoopNeverStays ==
  (op = Idle /\ last.verdict # "none" /\ shown # Nothing) =>
    /\ active # Nothing
    /\ active.loop = shown
    /\ active.period = PeriodAt(last.at)
    /\ last.at < active.ends

\* Overrides expire at midnight: no loop is played that was selected by an
\* earlier day's override or drawn under an earlier day's theme, though the
\* night's plan goes on and failed changes are rolled back
\* (loopForTimeLocked, capturePlaybackSelectionLocked). A theme command of
\* which only half was stored is excepted.
OverridesExpire ==
  /\ TypeOK
  /\ last.verdict = "playing" /\ "torn" \notin odd /\ last.under # Nothing =>
       last.under >= Date(last.at)

\* What the operator and earlier draws chose before the operation, and the set
\* of playable loops, are the same after it, up to files that were found unfit.
SelectionKept ==
  LET before == op.start
      override == db'.override[Date(op.at)]
      plan == db'.plan[Slot(op.at)]
  IN  /\ override.theme = before.override.theme
      /\ override.direct # before.override.direct => before.override.direct \notin op.usable
      /\ plan # before.plan =>
           before.plan = Nothing \/ before.plan.loop \notin op.usable \/ op.over
      /\ op.usable \cap quarantine' \subseteq op.unhealthy

UndoneAfterOBSFailure == op.pc = "undo" /\ op'.pc # "undo" /\ op.asked /\ moves' = moves

\* An activation that OBS made fail keeps the selection, in whatever order
\* candidates were tried, given up and quarantined, as long as the state store
\* works and something of the fail-closed budget is left
\* (activateScheduledLibraryLoopLocked's deferred restore).
SelectionSurvives ==
  [][UndoneAfterOBSFailure /\ op.left > 0 => SelectionKept]_vars

\* docs/LIBRARY_ONLY_ISSUES.md:146 says so without the budget: "Failed bounded
\* candidate selection restores its exact durable override/plan snapshot".
FailedSelectionRestores == [][UndoneAfterOBSFailure => SelectionKept]_vars

\* What changes about a promise for a loop that can be used is that it ends.
PromisesHold ==
  \A s \in Slots :
    promise[s] \in Usable /\ promise'[s] # Nothing => promise'[s] = promise[s]

\* A loop announced by /preview or played in a period stays the choice for that
\* period, through failed attempts, later previews and restarts, those in the
\* middle of an activation included (loopForTimeLocked's plans,
\* previewLoopLocked). This is said as long as no command is given, the loop's
\* file stays and no loop is added or comes back, the clock is not set back, the
\* state store works, no failed activation was left without its restore
\* ("lost": the store refused it, or the fail-closed budget was used up), and no
\* process ended after OBS had rejected a candidate and before the restore
\* ("cut").  Without that last exception the property is false: the restore of a
\* failed activation (library.go:559-570) is lost with the process, but the plan
\* of the next candidate is stored already (library.go:1279), although a restart
\* is not to redraw a plan (docs/ARCHITECTURE.md:51).
PromisesStand ==
  [][odd \cap {"setback", "lost", "cut"} = {} => PromisesHold]_vars

=============================================================================
