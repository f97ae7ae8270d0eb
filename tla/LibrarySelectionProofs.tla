---------------------- MODULE LibrarySelectionProofs ----------------------
(***************************************************************************)
(* Proofs about LibrarySelection, for any loops, themes, readings of the   *)
(* clock and limits:                                                       *)
(*   - what is on belongs to the period (OnShow): what OBS shows is what   *)
(*     the bot takes for active, as far as it is known to show anything;   *)
(*   - overrides expire (Fitting): a night plan drawn under the theme of   *)
(*     the night's own date has that theme beside it, by which it is       *)
(*     recognised after midnight, and so has the one to go back to;        *)
(*   - a failed activation keeps the selection (Aiming): what it set out   *)
(*     with, and an account of every loop quarantined since;               *)
(*   - promises stand (Promised): each promised loop is the only choice by *)
(*     the store as it is, and by the store as an activation would restore *)
(*     it (Stands); a choice leaves behind a store by which it is made     *)
(*     again (ChosenHolds, ChosenAgain), and the other slots do not notice *)
(*     (ChoiceElsewhere).                                                  *)
(***************************************************************************)
EXTENDS LibrarySelection, FiniteSetTheorems, TLAPS

Working == {"choose", "play", "undo"}

Stores == [override : [Dates -> Override], plan : [Slots -> Plan \cup {Nothing}]]
Ops == [pc : {"idle", "capture", "choose", "play", "undo", "close"},
        kind : {"none", "ensure", "repair"}, at : Instants \cup {0},
        redraw : BOOLEAN, always : BOOLEAN, start : Selection,
        saved : Selection, usable : SUBSET Loops, over : BOOLEAN,
        attempt : 0 .. MaxCandidates, tentative : SUBSET Loops,
        unhealthy : SUBSET Loops, asked : BOOLEAN,
        errs : SUBSET {"mutated", "unclean"}, left : 0 .. MaxStops,
        pick : Loops \cup {Nothing}, under : Dates \cup {Nothing}]
Verdicts == [verdict : {"none", "playing", "failed"}, at : Instants \cup {0},
             under : Dates \cup {Nothing}]

\* How far an operation is, and what it has read of the clock.
Steps ==
  /\ op.pc = "idle" => op = Idle
  /\ op.pc \in {"capture", "choose", "play"} => op.attempt < MaxCandidates
  /\ op.pc \in Working \cup {"close"} => op.at = now
  /\ op.pc = "play" => op.pick # Nothing
  /\ op.pc = "capture" => op.tentative = {}

Typed == TypeOK /\ Steps

\* What OBS shows, as far as the bot can know.
OnShow ==
  /\ active # Nothing /\ shown # Nothing => active.loop = shown
  /\ "mutated" \in op.errs /\ "unclean" \notin op.errs => shown = Nothing
  /\ ExpiredLoopNeverStays

-----------------------------------------------------------------------------
(* Local time                                                               *)

LEMMA DayAndHour ==
  ASSUME NEW t \in Nat
  PROVE  /\ Date(t) \in Nat
         /\ Hour(t) \in 0 .. 23
         /\ t = 24 * Date(t) + Hour(t)
  BY DEF Date, Hour

LEMMA Clock ==
  ASSUME NEW t \in Nat
  PROVE  /\ PlanDate(t) \in Int
         /\ PeriodAt(t) \in Periods
         /\ PeriodEnd(t) \in Nat
         /\ t < PeriodEnd(t)
         /\ Early(t) => PlanDate(t) = Date(t) - 1 /\ PeriodAt(t) = "night"
         /\ ~ Early(t) => PlanDate(t) = Date(t)
         /\ PeriodAt(t) = "morning" <=> Hour(t) \in 6 .. 10
         /\ PeriodAt(t) = "day" <=> Hour(t) \in 11 .. 16
         /\ PeriodAt(t) = "evening" <=> Hour(t) \in 17 .. 20
         /\ PeriodAt(t) = "night" <=> Hour(t) < 6 \/ Hour(t) > 20
         /\ Early(t) <=> Hour(t) < 6
         /\ PeriodAt(t) = "morning" => PeriodEnd(t) = 24 * Date(t) + 11
         /\ PeriodAt(t) = "day" => PeriodEnd(t) = 24 * Date(t) + 17
         /\ PeriodAt(t) = "evening" => PeriodEnd(t) = 24 * Date(t) + 21
         /\ PeriodAt(t) = "night" /\ Early(t) => PeriodEnd(t) = 24 * Date(t) + 6
         /\ PeriodAt(t) = "night" /\ ~ Early(t) => PeriodEnd(t) = 24 * Date(t) + 30
<1>1. Date(t) \in Nat /\ Hour(t) \in 0 .. 23 /\ t = 24 * Date(t) + Hour(t)
  BY DayAndHour
<1>2. PeriodAt(t) \in Periods
  BY DEF PeriodAt, Periods
<1>3. /\ PeriodAt(t) = "morning" <=> Hour(t) \in 6 .. 10
      /\ PeriodAt(t) = "day" <=> Hour(t) \in 11 .. 16
      /\ PeriodAt(t) = "evening" <=> Hour(t) \in 17 .. 20
      /\ PeriodAt(t) = "night" <=> Hour(t) < 6 \/ Hour(t) > 20
  BY <1>1 DEF PeriodAt
<1>4. Early(t) <=> Hour(t) < 6
  BY DEF Early
<1>5. /\ Early(t) => PlanDate(t) = Date(t) - 1 /\ PeriodAt(t) = "night"
      /\ ~ Early(t) => PlanDate(t) = Date(t)
  BY <1>3, <1>4 DEF PlanDate
<1>6. /\ PeriodAt(t) = "morning" => PeriodEnd(t) = 24 * Date(t) + 11
      /\ PeriodAt(t) = "day" => PeriodEnd(t) = 24 * Date(t) + 17
      /\ PeriodAt(t) = "evening" => PeriodEnd(t) = 24 * Date(t) + 21
      /\ PeriodAt(t) = "night" /\ Early(t) => PeriodEnd(t) = 24 * Date(t) + 6
      /\ PeriodAt(t) = "night" /\ ~ Early(t) => PeriodEnd(t) = 24 * Date(t) + 30
  BY <1>2, <1>4 DEF PeriodEnd, Periods
<1>7. PeriodEnd(t) \in Nat /\ t < PeriodEnd(t)
  BY <1>1, <1>2, <1>3, <1>4, <1>6 DEF Periods
<1> QED
  BY <1>1, <1>2, <1>3, <1>4, <1>5, <1>6, <1>7

LEMMA InOrder ==
  ASSUME NEW t \in Nat, NEW u \in Nat, t <= u
  PROVE  /\ Date(t) <= Date(u)
         /\ PlanDate(t) <= PlanDate(u)
         /\ PeriodEnd(t) <= PeriodEnd(u)
<1>1. /\ Date(t) \in Nat /\ Hour(t) \in 0 .. 23 /\ t = 24 * Date(t) + Hour(t)
      /\ Date(u) \in Nat /\ Hour(u) \in 0 .. 23 /\ u = 24 * Date(u) + Hour(u)
  BY DayAndHour
<1>2. Date(t) <= Date(u) /\ (Date(t) = Date(u) => Hour(t) <= Hour(u))
  BY <1>1
<1>3. PlanDate(t) <= PlanDate(u)
  BY <1>1, <1>2, Clock
<1>4. PeriodEnd(t) <= PeriodEnd(u)
  <2>1. CASE PeriodEnd(u) > u /\ u >= PeriodEnd(t)
    BY <2>1, Clock
  <2>2. CASE u < PeriodEnd(t)
    BY <1>1, <1>2, <2>2, Clock DEF Periods
  <2> QED
    BY <2>1, <2>2, Clock
<1> QED
  BY <1>2, <1>3, <1>4

\* What is still on at u because it ends with the period of u started in it.
LEMMA SameEnd ==
  ASSUME NEW t \in Nat, NEW u \in Nat, PeriodEnd(t) = PeriodEnd(u)
  PROVE  Slot(t) = Slot(u)
<1>1. /\ Date(t) \in Nat /\ Hour(t) \in 0 .. 23
      /\ Date(u) \in Nat /\ Hour(u) \in 0 .. 23
  BY DayAndHour
<1>2. PeriodAt(t) \in {"morning", "day", "evening", "night"}
      /\ PeriodAt(u) \in {"morning", "day", "evening", "night"}
  BY Clock DEF Periods
<1>3. PeriodAt(t) = PeriodAt(u)
  <2>1. CASE PeriodAt(t) # "night" /\ PeriodAt(u) # "night"
    BY <1>1, <1>2, <2>1, Clock
  <2>2. CASE PeriodAt(t) = "night" /\ PeriodAt(u) # "night"
    BY <1>1, <1>2, <2>2, Clock
  <2>3. CASE PeriodAt(t) # "night" /\ PeriodAt(u) = "night"
    BY <1>1, <1>2, <2>3, Clock
  <2> QED
    BY <2>1, <2>2, <2>3
<1>4. PlanDate(t) = PlanDate(u)
  <2>1. CASE PeriodAt(t) # "night"
    BY <1>1, <1>2, <1>3, <2>1, Clock
  <2>2. CASE PeriodAt(t) = "night"
    BY <1>1, <1>3, <2>2, Clock
  <2> QED
    BY <2>1, <2>2
<1> QED
  BY <1>3, <1>4 DEF Slot

LEMMA NextPeriod ==
  ASSUME NEW t \in Nat
  PROVE  LET u == PeriodEnd(t) IN
         u \in Nat /\ ~ Early(u) /\ Slot(u) # Slot(t) /\ Date(u) >= Date(t)
<1> DEFINE u == PeriodEnd(t)
<1>1. u \in Nat /\ t < u
  BY Clock
<1> HIDE DEF u
<1>2. /\ Date(t) \in Nat /\ Hour(t) \in 0 .. 23 /\ t = 24 * Date(t) + Hour(t)
      /\ Date(u) \in Nat /\ Hour(u) \in 0 .. 23 /\ u = 24 * Date(u) + Hour(u)
  BY <1>1, DayAndHour
<1>3. Hour(u) \in {6, 11, 17, 21}
  BY <1>1, <1>2, Clock DEF Periods, u
<1>4. ~ Early(u)
  BY <1>3 DEF Early
<1>5. PeriodAt(u) # PeriodAt(t)
  BY <1>1, <1>2, Clock DEF Periods, u
<1>6. Date(u) >= Date(t)
  BY <1>1, <1>2
<1> QED
  BY <1>1, <1>4, <1>5, <1>6 DEF Slot, u

-----------------------------------------------------------------------------
(* The state store                                                          *)

LEMMA InstantsKnown ==
  ASSUME NEW t \in Instants
  PROVE  /\ t \in Nat
         /\ Date(t) \in Dates /\ PlanDate(t) \in Dates
         /\ Slot(t) \in Slots
         /\ Slot(t).date = PlanDate(t) /\ Slot(t).period = PeriodAt(t)
  BY ClockAssumption DEF Dates, Slots, Slot

LEMMA SlotsKnown ==
  /\ Dates \subseteq Int
  /\ \A s \in Slots : s.date \in Dates /\ s.period \in Periods
  /\ \A s \in Slots, r \in Slots : s.date = r.date /\ s.period = r.period => s = r
<1>1. Dates \subseteq Int
  BY ClockAssumption, Clock, DayAndHour DEF Dates
<1>2. \A s \in Slots : s.date \in Dates /\ s.period \in Periods
  BY ClockAssumption, Clock, InstantsKnown DEF Slots
<1>3. \A s \in Slots, r \in Slots : s.date = r.date /\ s.period = r.period => s = r
  BY DEF Slots, Slot
<1> QED
  BY <1>1, <1>2, <1>3

\* What is over at t: the overrides of the day before, and the night's plan.
LEMMA ExpiredStore ==
  ASSUME db \in Stores, NEW t \in Instants
  PROVE  /\ Expired(t) \in Stores
         /\ \A d \in Dates : Expired(t).override[d] =
              IF NightIsOver(t) /\ d = PlanDate(t) THEN NoOverride ELSE db.override[d]
         /\ \A s \in Slots : Expired(t).plan[s] =
              IF NightIsOver(t) /\ s = Slot(t) THEN Nothing ELSE db.plan[s]
<1>1. NoOverride \in Override
  BY DEF NoOverride, Override
<1>2. Date(t) \in Dates /\ PlanDate(t) \in Dates /\ Slot(t) \in Slots
  BY InstantsKnown
<1> QED
  BY <1>1, <1>2 DEF Expired, Stores

\* Tidying touches the direct choice of the day, and the plan of the slot.
TidiedFrom(d, e, t) ==
  /\ e \in Stores
  /\ \A x \in Dates \ {Date(t)} : e.override[x] = d.override[x]
  /\ e.override[Date(t)].theme = d.override[Date(t)].theme
  /\ \/ e.override[Date(t)].direct = d.override[Date(t)].direct
     \/ e.override[Date(t)].direct = Nothing /\ d.override[Date(t)].direct \notin Usable
  /\ \A s \in Slots \ {Slot(t)} : e.plan[s] = d.plan[s]

LEMMA TidiedStore ==
  ASSUME db \in Stores, NEW t \in Instants
  PROVE  /\ TidiedFrom(Expired(t), DirectTidied(t), t)
         /\ DirectTidied(t).plan = Expired(t).plan
         /\ \A redraw, ok \in BOOLEAN :
              /\ TidiedFrom(Expired(t), Tidied(t, redraw, ok), t)
              /\ Tidied(t, redraw, ok).plan[Slot(t)] \in {Expired(t).plan[Slot(t)], Nothing}
<1>1. Expired(t) \in Stores
  BY ExpiredStore
<1>2. Date(t) \in Dates /\ Slot(t) \in Slots
  BY InstantsKnown
<1> DEFINE e == Expired(t)
<1>3. /\ TidiedFrom(e, DirectTidied(t), t)
      /\ DirectTidied(t).plan = e.plan
  <2>1. e.override[Date(t)] \in Override
    BY <1>1, <1>2 DEF Stores
  <2>2. CASE e.override[Date(t)].direct \in Usable
    BY <1>1, <2>2 DEF DirectTidied, TidiedFrom
  <2>3. CASE e.override[Date(t)].direct \notin Usable
    <3>1. DirectTidied(t) = [e EXCEPT !.override[Date(t)].direct = Nothing]
      BY <2>3 DEF DirectTidied
    <3>2. /\ DirectTidied(t).plan = e.plan
          /\ DirectTidied(t).override = [e.override EXCEPT ![Date(t)] =
                                          [theme |-> @.theme, direct |-> Nothing]]
      BY <1>1, <1>2, <2>1, <3>1 DEF Stores, Override
    <3>3. DirectTidied(t) \in Stores
      <4> DEFINE o == [e.override[Date(t)] EXCEPT !.direct = Nothing]
                 f == [e.override EXCEPT ![Date(t)] = o]
      <4>1. o \in Override
        BY <2>1 DEF Override
      <4>2. f \in [Dates -> Override]
        BY <1>1, <4>1 DEF Stores
      <4>3. DirectTidied(t) = [e EXCEPT !.override = f]
        BY <3>1
      <4>4. e \in Stores
        BY <1>1
      <4> HIDE DEF f, e
      <4> QED
        BY <4>2, <4>3, <4>4 DEF Stores
    <3> HIDE DEF e
    <3> QED
      BY <1>1, <1>2, <2>1, <2>3, <3>2, <3>3 DEF TidiedFrom, Stores
  <2> QED
    BY <2>2, <2>3
<1>4. ASSUME NEW redraw \in BOOLEAN, NEW ok \in BOOLEAN
      PROVE  /\ TidiedFrom(e, Tidied(t, redraw, ok), t)
             /\ Tidied(t, redraw, ok).plan[Slot(t)] \in {e.plan[Slot(t)], Nothing}
  <2>1. TidiedFrom(e, e, t)
    BY <1>1 DEF TidiedFrom
  <2> DEFINE d == DirectTidied(t)
             f == [d EXCEPT !.plan[Slot(t)] = Nothing]
  <2>2. d \in Stores
    BY <1>3 DEF TidiedFrom
  <2>3. /\ f \in Stores /\ f.override = d.override
        /\ \A s \in Slots : f.plan[s] = IF s = Slot(t) THEN Nothing ELSE d.plan[s]
    BY <1>2, <2>2 DEF Stores
  <2>4. TidiedFrom(e, f, t)
    BY <1>3, <2>3 DEF TidiedFrom
  <2>5. Tidied(t, redraw, ok) \in {e, f, d}
    BY DEF Tidied
  <2> HIDE DEF e, d, f
  <2> QED
    BY <1>2, <1>3, <2>1, <2>3, <2>4, <2>5 DEF d
<1> QED
  BY <1>3, <1>4

\* What is chosen is usable, and was selected, kept, or drawn.
Selected(c, t) ==
  /\ Expired(t).override[Date(t)].direct \in Usable
  /\ c.loop = Expired(t).override[Date(t)].direct
  /\ c.under = Date(t)
  /\ c.db = Expired(t)
Kept(c, t, redraw, ok) ==
  /\ Expired(t).override[Date(t)].direct \notin Usable
  /\ Reused(t, redraw)
  /\ c.loop = Expired(t).plan[Slot(t)].loop
  /\ c.under = Expired(t).plan[Slot(t)].under
  /\ c.db = Tidied(t, redraw, ok)
Drew(c, t, redraw, ok) ==
  /\ Expired(t).override[Date(t)].direct \notin Usable
  /\ ~ Reused(t, redraw)
  /\ c.loop \in Candidates(Expired(t).override[Date(t)].theme, t)
  /\ c.under = IF c.loop.theme = Expired(t).override[Date(t)].theme THEN Date(t) ELSE Nothing
  /\ c.db = [Tidied(t, redraw, ok) EXCEPT !.plan[Slot(t)] = [loop |-> c.loop, under |-> c.under]]

LEMMA ChosenCases ==
  ASSUME NEW t \in Instants, NEW redraw \in BOOLEAN, NEW ok \in BOOLEAN,
         NEW c \in Chosen(t, redraw, ok)
  PROVE  Selected(c, t) \/ Kept(c, t, redraw, ok) \/ Drew(c, t, redraw, ok)
<1>1. CASE Expired(t).override[Date(t)].direct \in Usable
  BY <1>1 DEF Chosen, Selected
<1>2. CASE Expired(t).override[Date(t)].direct \notin Usable /\ Reused(t, redraw)
  BY <1>2 DEF Chosen, Kept
<1>3. CASE Expired(t).override[Date(t)].direct \notin Usable /\ ~ Reused(t, redraw)
  BY <1>3 DEF Chosen, Drew
<1> QED
  BY <1>1, <1>2, <1>3

LEMMA ChosenStore ==
  ASSUME db \in Stores, snapshot \subseteq Loops, NEW t \in Instants,
         NEW redraw \in BOOLEAN, NEW ok \in BOOLEAN, NEW c \in Chosen(t, redraw, ok)
  PROVE  /\ c.loop \in Usable /\ c.loop \in Loops
         /\ c.under \in Dates \cup {Nothing}
         /\ TidiedFrom(Expired(t), c.db, t)
         /\ Kept(c, t, redraw, ok) => c.db.plan[Slot(t)] \in {Expired(t).plan[Slot(t)], Nothing}
         /\ Drew(c, t, redraw, ok) =>
              c.db.plan[Slot(t)] = [loop |-> c.loop, under |-> c.under]
<1>1. Expired(t) \in Stores
  BY ExpiredStore
<1>2. Date(t) \in Dates /\ Slot(t) \in Slots
  BY InstantsKnown
<1>3. /\ TidiedFrom(Expired(t), Tidied(t, redraw, ok), t)
      /\ Tidied(t, redraw, ok).plan[Slot(t)] \in {Expired(t).plan[Slot(t)], Nothing}
  BY TidiedStore
<1>4. Usable \subseteq Loops
  BY DEF Usable
<1>5. CASE Selected(c, t)
  <2>1. TidiedFrom(Expired(t), c.db, t)
    BY <1>1, <1>5 DEF Selected, TidiedFrom
  <2>2. ~ Kept(c, t, redraw, ok) /\ ~ Drew(c, t, redraw, ok)
    BY <1>5 DEF Selected, Kept, Drew
  <2> QED
    BY <1>2, <1>4, <1>5, <2>1, <2>2 DEF Selected
<1>6. CASE Kept(c, t, redraw, ok)
  <2>1. Expired(t).plan[Slot(t)] \in Plan \cup {Nothing} /\ Expired(t).plan[Slot(t)] # Nothing
    BY <1>1, <1>2, <1>6 DEF Stores, Kept, Reused
  <2>2. c.loop \in Usable /\ c.under \in Dates \cup {Nothing}
    BY <1>6, <2>1 DEF Kept, Reused, Plan
  <2>3. ~ Drew(c, t, redraw, ok)
    BY <1>6 DEF Kept, Drew
  <2> QED
    BY <1>3, <1>4, <1>6, <2>2, <2>3 DEF Kept
<1>7. CASE Drew(c, t, redraw, ok)
  <2>1. c.loop \in Usable
    BY <1>7 DEF Drew, Candidates
  <2>2. c.under \in Dates \cup {Nothing}
    BY <1>2, <1>7 DEF Drew
  <2> DEFINE d == Tidied(t, redraw, ok)
             p == [loop |-> c.loop, under |-> c.under]
  <2>3. d \in Stores /\ p \in Plan
    BY <1>3, <1>4, <2>1, <2>2 DEF TidiedFrom, Plan
  <2>4. c.db = [d EXCEPT !.plan[Slot(t)] = p]
    BY <1>7 DEF Drew
  <2>5. TidiedFrom(Expired(t), d, t)
    BY <1>3
  <2> HIDE DEF d, p
  <2>6. /\ c.db \in Stores /\ c.db.override = d.override /\ c.db.plan[Slot(t)] = p
        /\ \A s \in Slots \ {Slot(t)} : c.db.plan[s] = d.plan[s]
    BY <1>2, <2>3, <2>4 DEF Stores
  <2>7. TidiedFrom(Expired(t), c.db, t)
    BY <2>5, <2>6 DEF TidiedFrom
  <2>8. ~ Kept(c, t, redraw, ok)
    BY <1>7 DEF Kept, Drew
  <2> QED
    BY <1>4, <2>1, <2>2, <2>6, <2>7, <2>8 DEF p
<1> QED
  BY <1>5, <1>6, <1>7, ChosenCases

-----------------------------------------------------------------------------
(* Types                                                                    *)

LEMMA TypeParts ==
  TypeOK <=> /\ now \in Instants /\ db \in Stores
             /\ snapshot \subseteq Loops /\ quarantine \subseteq Loops
             /\ active \in Activation \cup {Nothing} /\ shown \in Loops \cup {Nothing}
             /\ op \in Ops /\ last \in Verdicts
             /\ promise \in [Slots -> Loops \cup {Nothing}]
             /\ odd \subseteq Oddities /\ moves \in 0 .. MaxMoves
  BY DEF TypeOK, Stores, Activation, Ops, Verdicts

LEMMA TypePartsNext ==
  ASSUME now' \in Instants, db' \in Stores,
         snapshot' \subseteq Loops, quarantine' \subseteq Loops,
         active' \in Activation \cup {Nothing}, shown' \in Loops \cup {Nothing},
         op' \in Ops, last' \in Verdicts,
         promise' \in [Slots -> Loops \cup {Nothing}],
         odd' \subseteq Oddities, moves' \in 0 .. MaxMoves
  PROVE  TypeOK'
  BY DEF TypeOK, Stores, Activation, Ops, Verdicts

LEMMA TypePartsAfter == TypeOK' => snapshot' \subseteq Loops /\ quarantine' \subseteq Loops
  BY DEF TypeOK

LEMMA Limits == MaxCandidates \in Nat \ {0} /\ MaxStops \in Nat \ {0} /\ MaxMoves \in Nat \ {0}
  BY LimitsAssumption

LEMMA Blank ==
  /\ NoOverride \in Override /\ NoSelection \in Selection
  /\ Idle \in Ops /\ Idle.pc = "idle"
  /\ NoVerdict \in Verdicts
  /\ NoPromise \in [Slots -> Loops \cup {Nothing}]
<1>1. NoOverride \in Override /\ NoSelection \in Selection
  BY DEF NoOverride, Override, NoSelection, Selection
<1> QED
  BY <1>1, Limits DEF Idle, Ops, NoVerdict, Verdicts, NoPromise

LEMMA BeginTyped ==
  ASSUME NEW kind \in {"ensure", "repair"}, NEW force \in BOOLEAN, NEW always \in BOOLEAN,
         Begin(kind, force, always)
  PROVE  /\ op' \in Ops /\ last' \in Verdicts
         /\ op'.pc = "capture" /\ op'.attempt = 0 /\ op'.redraw = force /\ op'.errs = {}
         /\ last'.verdict = "none" /\ op'.tentative = {}
<1>1. op' = [Idle EXCEPT !.pc = "capture", !.kind = kind, !.redraw = force,
                         !.always = always, !.left = MaxStops]
  BY DEF Begin
<1>2. op' \in Ops
  <2>1. MaxStops \in 0 .. MaxStops
    BY Limits
  <2>2. Idle \in Ops
    BY Blank
  <2> QED
    BY <1>1, <2>1, <2>2, ZenonT(60) DEF Ops
<1>3. op'.pc = "capture" /\ op'.attempt = 0 /\ op'.redraw = force /\ op'.errs = {}
      /\ op'.tentative = {}
  BY <1>1 DEF Idle
<1> QED
  BY <1>2, <1>3, Blank DEF Begin, NoVerdict

LEMMA MoveTyped ==
  ASSUME Move, moves \in 0 .. MaxMoves
  PROVE  moves' \in 0 .. MaxMoves
  BY Limits DEF Move

LEMMA StandingTyped ==
  ASSUME promise \in [Slots -> Loops \cup {Nothing}]
  PROVE  Standing \in [Slots -> Loops \cup {Nothing}]
  BY DEF Standing, StillThere

LEMMA OutlivedTyped ==
  ASSUME promise \in [Slots -> Loops \cup {Nothing}], NEW t \in Instants
  PROVE  /\ Outlived(t) \in [Slots -> Loops \cup {Nothing}]
         /\ Without(Outlived(t), t) \in [Slots -> Loops \cup {Nothing}]
  BY DEF Outlived, Without

LEMMA LimitOfAttempts ==
  ASSUME snapshot \subseteq Loops
  PROVE  AttemptLimit \in 1 .. MaxCandidates
<1>1. Cardinality(snapshot) \in Nat
  BY LoopsAssumption, FS_Subset, FS_CardinalityType
<1> QED
  BY <1>1, Limits DEF AttemptLimit

LEMMA TypedCommand ==
  ASSUME Typed, NEW o \in Override, NEW p \in [Slots -> Plan \cup {Nothing}], Command(o, p)
  PROVE  Typed'
<1>1. now \in Instants /\ db \in Stores
  BY TypeParts DEF Typed
<1>2. db' \in Stores
  BY <1>1, InstantsKnown DEF Command, Stores
<1>3. op' \in Ops /\ last' \in Verdicts /\ op'.pc = "capture" /\ op'.attempt = 0
      /\ op'.tentative = {}
  BY BeginTyped DEF Command
<1>4. Steps'
  BY <1>3, Limits DEF Steps, Working
<1>5. promise' \in [Slots -> Loops \cup {Nothing}] /\ moves' \in 0 .. MaxMoves
  BY Blank, MoveTyped, TypeParts DEF Command, Typed
<1> QED
  BY <1>2, <1>3, <1>4, <1>5, TypeParts, TypePartsNext DEF Typed, Command

LEMMA TodaysOverride ==
  ASSUME Typed
  PROVE  /\ Date(now) \in Dates /\ db.override[Date(now)] \in Override
         /\ PlansWithout(Date(now)) \in [Slots -> Plan \cup {Nothing}]
         /\ db.plan \in [Slots -> Plan \cup {Nothing}]
<1>1. now \in Instants /\ db \in Stores
  BY TypeParts DEF Typed
<1> QED
  BY <1>1, InstantsKnown DEF Stores, PlansWithout

LEMMA TypedCommands ==
  ASSUME Typed,
         \/ \E theme \in Themes : SetTheme(theme)
         \/ ClearTheme
         \/ \E loop \in Loops : SelectLoop(loop)
         \/ SkipLoop
  PROVE  Typed'
<1> DEFINE o == db.override[Date(now)]
<1>1. o \in Override
  BY TodaysOverride
<1>2. ASSUME NEW theme \in Themes, SetTheme(theme)
      PROVE  Typed'
  <2>1. [theme |-> theme, direct |-> Nothing] \in Override
    BY DEF Override
  <2> QED
    BY <1>2, <2>1, TodaysOverride, TypedCommand DEF SetTheme
<1>3. CASE ClearTheme
  <2>1. [o EXCEPT !.theme = Nothing] \in Override
    BY <1>1 DEF Override
  <2> QED
    BY <1>3, <2>1, TodaysOverride, TypedCommand DEF ClearTheme
<1>4. ASSUME NEW loop \in Loops, SelectLoop(loop)
      PROVE  Typed'
  <2>1. [o EXCEPT !.direct = loop] \in Override
    BY <1>1 DEF Override
  <2> QED
    BY <1>4, <2>1, TodaysOverride, TypedCommand DEF SelectLoop
<1>5. CASE SkipLoop
  <2>1. [o EXCEPT !.direct = Nothing] \in Override
    BY <1>1 DEF Override
  <2> QED
    BY <1>5, <2>1, TodaysOverride, TypedCommand DEF SkipLoop
<1> QED
  BY <1>2, <1>3, <1>4, <1>5

LEMMA TypedTorn ==
  ASSUME Typed, NEW theme \in Themes \cup {Nothing}, ThemeTorn(theme)
  PROVE  Typed'
<1>1. now \in Instants /\ db \in Stores /\ Date(now) \in Dates
  BY TypeParts, InstantsKnown DEF Typed
<1> DEFINE o == db.override[Date(now)]
           n == IF theme = Nothing THEN [o EXCEPT !.theme = Nothing]
                ELSE [theme |-> theme, direct |-> Nothing]
<1>2. o \in Override /\ n \in Override
  BY <1>1 DEF Stores, Override
<1>3. db' = [db EXCEPT !.override[Date(now)] = n]
  BY DEF ThemeTorn
<1> HIDE DEF n
<1>4. db' \in Stores
  BY <1>1, <1>2, <1>3 DEF Stores
<1>5. promise' \in [Slots -> Loops \cup {Nothing}] /\ moves' \in 0 .. MaxMoves
  BY Blank, MoveTyped, TypeParts DEF ThemeTorn, Typed
<1>6. Steps'
  BY DEF Typed, Steps, ThemeTorn
<1> QED
  BY <1>4, <1>5, <1>6, TypeParts, TypePartsNext DEF Typed, ThemeTorn, Oddities

LEMMA TypedPreview ==
  ASSUME Typed, PreviewLoop
  PROVE  Typed'
<1> DEFINE t == PeriodEnd(now)
<1>1. db \in Stores /\ snapshot \subseteq Loops /\ t \in Instants /\ Slot(t) \in Slots
      /\ promise \in [Slots -> Loops \cup {Nothing}]
  BY TypeParts, InstantsKnown DEF Typed, PreviewLoop
<1>2. db' \in Stores /\ promise' \in [Slots -> Loops \cup {Nothing}]
  <2>1. CASE \E c \in Chosen(t, FALSE, TRUE) :
               db' = c.db /\ promise' = [promise EXCEPT ![Slot(t)] = c.loop]
    <3>1. PICK c \in Chosen(t, FALSE, TRUE) :
               db' = c.db /\ promise' = [promise EXCEPT ![Slot(t)] = c.loop]
      BY <2>1
    <3>2. c.db \in Stores /\ c.loop \in Loops
      BY <1>1, ChosenStore DEF TidiedFrom
    <3> QED
      BY <1>1, <3>1, <3>2
  <2>2. CASE db' = Tidied(t, FALSE, TRUE) /\ UNCHANGED promise
    BY <1>1, <2>2, TidiedStore DEF TidiedFrom
  <2> QED
    BY <2>1, <2>2 DEF PreviewLoop
<1>3. moves' \in 0 .. MaxMoves
  BY MoveTyped, TypeParts DEF PreviewLoop, Typed
<1>4. Steps'
  BY DEF Typed, Steps, PreviewLoop
<1> QED
  BY <1>2, <1>3, <1>4, TypeParts, TypePartsNext DEF Typed, PreviewLoop

\* The end of an activation without a loop.
LEMMA LeaveTyped ==
  ASSUME NEW o \in Ops, o.at = now', Leave(o)
  PROVE  op' \in Ops /\ Steps'
<1>1. CASE o.kind = "ensure"
  <2>1. op' = [o EXCEPT !.pc = "close"]
    BY <1>1 DEF Leave
  <2>2. op' \in Ops /\ op'.pc = "close" /\ op'.at = o.at
    BY <2>1 DEF Ops
  <2> QED
    BY <2>2 DEF Steps
<1>2. CASE o.kind # "ensure"
  <2>1. op' = Idle
    BY <1>2 DEF Leave
  <2> QED
    BY <2>1, Blank DEF Steps, Working
<1> QED
  BY <1>1, <1>2

LEMMA TypedBegin ==
  ASSUME Typed, EnsureLibraryPlayback \/ RepairLoop
  PROVE  Typed'
<1>1. op' \in Ops /\ last' \in Verdicts /\ op'.pc = "capture" /\ op'.attempt = 0
      /\ op'.tentative = {}
  BY BeginTyped DEF EnsureLibraryPlayback, RepairLoop
<1>2. Steps'
  BY <1>1, Limits DEF Steps, Working
<1>3. CASE EnsureLibraryPlayback
  BY <1>1, <1>2, <1>3, TypeParts, TypePartsNext DEF Typed, EnsureLibraryPlayback
<1>4. CASE RepairLoop
  <2>1. active # Nothing => active.loop \in Loops
    BY TypeParts DEF Typed, Activation
  <2>2. promise' \in [Slots -> Loops \cup {Nothing}]
    BY <1>4, TypeParts, StandingTyped DEF Typed, RepairLoop
  <2>3. /\ quarantine' \subseteq Loops /\ active' \in Activation \cup {Nothing}
        /\ shown' \in Loops \cup {Nothing} /\ moves' \in 0 .. MaxMoves
    BY <1>4, <2>1, TypeParts, MoveTyped DEF Typed, RepairLoop
  <2> QED
    BY <1>1, <1>2, <1>4, <2>2, <2>3, TypeParts, TypePartsNext DEF Typed, RepairLoop
<1> QED
  BY <1>3, <1>4

LEMMA TypedCapture ==
  ASSUME Typed, Capture
  PROVE  Typed'
<1>1. now \in Instants /\ db \in Stores /\ op \in Ops /\ snapshot \subseteq Loops
  BY TypeParts DEF Typed
<1>2. Date(now) \in Dates /\ Slot(now) \in Slots
  BY <1>1, InstantsKnown
<1> DEFINE c == db.override[Date(now)]
           p == db.plan[Slot(now)]
           start == [override |-> c, plan |-> p]
           saved == [override |-> IF c.direct \in Usable THEN c ELSE [c EXCEPT !.direct = Nothing],
                     plan |-> IF PlanKept(p) THEN p ELSE Nothing]
<1>3. c \in Override /\ [c EXCEPT !.direct = Nothing] \in Override /\ p \in Plan \cup {Nothing}
  BY <1>1, <1>2 DEF Stores, Override
<1>4. start \in Selection /\ saved \in Selection
  BY <1>3 DEF Selection
<1>5. Usable \subseteq Loops /\ NightIsOver(now) \in BOOLEAN
  BY <1>1 DEF Usable, NightIsOver, Early
<1>6. op' = [op EXCEPT !.pc = "choose", !.at = now, !.usable = Usable,
                       !.over = NightIsOver(now), !.start = start, !.saved = saved]
  BY DEF Capture
<1> HIDE DEF start, saved
<1>7. op' \in Ops
  BY <1>1, <1>4, <1>5, <1>6 DEF Ops
<1>8. Steps'
  <2>1. op'.pc = "choose" /\ op'.at = now /\ op'.attempt = op.attempt /\ now' = now
    BY <1>1, <1>6 DEF Ops, Capture
  <2>2. op.attempt < MaxCandidates
    BY DEF Capture, Typed, Steps
  <2> QED
    BY <2>1, <2>2 DEF Steps
<1> QED
  BY <1>7, <1>8, TypeParts, TypePartsNext DEF Typed, Capture

LEMMA TypedRefused ==
  ASSUME Typed, CaptureRefused
  PROVE  Typed'
<1>1. now \in Instants /\ op \in Ops
  BY TypeParts DEF Typed
<1>2. [op EXCEPT !.at = now] \in Ops /\ [op EXCEPT !.at = now].at = now
  BY <1>1 DEF Ops
<1>3. op' \in Ops /\ Steps'
  BY <1>2, LeaveTyped DEF CaptureRefused
<1>4. last' \in Verdicts /\ moves' \in 0 .. MaxMoves
  BY Blank, MoveTyped, TypeParts DEF Typed, CaptureRefused
<1> QED
  BY <1>3, <1>4, TypeParts, TypePartsNext DEF Typed, CaptureRefused

\* In the middle of an activation.
LEMMA Underway ==
  ASSUME Typed, op.pc \in Working \cup {"close"}
  PROVE  op \in Ops /\ op.at = now /\ op.at \in Instants /\ now \in Instants
  BY TypeParts DEF Typed, Steps

LEMMA SucceedTyped ==
  ASSUME Typed, op.pc \in Working, NEW loop \in Loops, NEW under \in Dates \cup {Nothing},
         NEW p \in [Slots -> Loops \cup {Nothing}], Succeed(loop, under, p)
  PROVE  /\ op' = Idle /\ op' \in Ops /\ Steps' /\ last' \in Verdicts
         /\ promise' \in [Slots -> Loops \cup {Nothing}]
<1>1. op.at \in Instants
  BY Underway
<1>2. op' = Idle /\ last' \in Verdicts
  BY <1>1 DEF Succeed, Verdicts
<1>3. promise' \in [Slots -> Loops \cup {Nothing}]
  BY DEF Succeed
<1> QED
  BY <1>2, <1>3, Blank DEF Steps, Working

\* What ChooseLoop does with what it has chosen.
Left(ok) == IF ok THEN Outlived(op.at) ELSE Without(Outlived(op.at), op.at)
Choice(c, ok) ==
  /\ IF ok THEN UNCHANGED moves ELSE Move
  /\ db' = c.db
  /\ IF NeedsPlay(c.loop)
     THEN /\ op' = [op EXCEPT !.pc = "play", !.pick = c.loop, !.under = c.under]
          /\ promise' = Left(ok)
          /\ UNCHANGED last
     ELSE Succeed(c.loop, c.under, Left(ok))

LEMMA ChooseCase ==
  ASSUME ChooseLoop
  PROVE  \E ok \in BOOLEAN : \E c \in Chosen(op.at, Redraw, ok) : Choice(c, ok)
  BY DEF ChooseLoop, Choice, Left

LEMMA TypedChoose ==
  ASSUME Typed, ChooseLoop
  PROVE  Typed'
<1>1. op \in Ops /\ op.at = now /\ op.at \in Instants /\ Redraw \in BOOLEAN
  BY Underway DEF ChooseLoop, Working, Redraw
<1>2. /\ db \in Stores /\ snapshot \subseteq Loops
      /\ promise \in [Slots -> Loops \cup {Nothing}] /\ moves \in 0 .. MaxMoves
      /\ last \in Verdicts
  BY TypeParts DEF Typed
<1>3. PICK ok \in BOOLEAN : \E c \in Chosen(op.at, Redraw, ok) : Choice(c, ok)
  BY ChooseCase
<1>4. PICK c \in Chosen(op.at, Redraw, ok) : Choice(c, ok)
  BY <1>3
<1> DEFINE p == Left(ok)
<1>5. c.loop \in Loops /\ c.under \in Dates \cup {Nothing} /\ c.db \in Stores
  BY <1>1, <1>2, ChosenStore DEF TidiedFrom
<1>6. p \in [Slots -> Loops \cup {Nothing}]
  BY <1>1, <1>2, OutlivedTyped DEF Left
<1>7. moves' \in 0 .. MaxMoves
  BY <1>2, <1>4, MoveTyped DEF Choice
<1> HIDE DEF p, Choice
<1>8. /\ op' \in Ops /\ Steps' /\ last' \in Verdicts
      /\ promise' \in [Slots -> Loops \cup {Nothing}]
  <2>1. CASE NeedsPlay(c.loop)
    <3>1. /\ op' = [op EXCEPT !.pc = "play", !.pick = c.loop, !.under = c.under]
          /\ promise' = p /\ last' = last
      BY <1>4, <2>1 DEF p, Choice
    <3>2. /\ op' \in Ops /\ op'.pc = "play" /\ op'.attempt = op.attempt /\ op'.at = op.at
          /\ op'.pick = c.loop
      BY <1>1, <1>5, <3>1 DEF Ops
    <3>3. op.attempt < MaxCandidates /\ now' = now
      BY DEF ChooseLoop, Typed, Steps
    <3>4. c.loop # Nothing
      BY <1>5, NothingAssumption
    <3>5. Steps'
      BY <1>1, <3>2, <3>3, <3>4 DEF Steps
    <3> QED
      BY <1>2, <1>6, <3>1, <3>2, <3>5
  <2>2. CASE ~ NeedsPlay(c.loop)
    <3>1. Succeed(c.loop, c.under, p)
      BY <1>4, <2>2 DEF p, Choice
    <3>2. op.pc \in Working
      BY DEF ChooseLoop, Working
    <3> QED
      BY <1>5, <1>6, <3>1, <3>2, SucceedTyped
  <2> QED
    BY <2>1, <2>2
<1> QED
  BY <1>4, <1>5, <1>7, <1>8, TypeParts, TypePartsNext DEF Typed, ChooseLoop, Choice

LEMMA TypedChooseFails ==
  ASSUME Typed, ChooseFails
  PROVE  Typed'
<1>1. op \in Ops /\ op.at = now /\ op.at \in Instants /\ Redraw \in BOOLEAN
  BY Underway DEF ChooseFails, Working, Redraw
<1>2. /\ db \in Stores /\ promise \in [Slots -> Loops \cup {Nothing}]
      /\ moves \in 0 .. MaxMoves
  BY TypeParts DEF Typed
<1>3. \/ db' = Tidied(op.at, Redraw, TRUE)
      \/ db' \in Interrupted(op.at, Redraw)
  BY DEF ChooseFails
<1>4. db' \in Stores
  <2>1. Expired(op.at) \in Stores /\ DirectTidied(op.at) \in Stores
    BY <1>1, <1>2, ExpiredStore, TidiedStore DEF TidiedFrom
  <2>2. Tidied(op.at, Redraw, TRUE) \in Stores
    BY <1>1, <1>2, TidiedStore DEF TidiedFrom
  <2> QED
    BY <1>2, <1>3, <2>1, <2>2 DEF Interrupted
<1>5. promise' \in [Slots -> Loops \cup {Nothing}]
  BY <1>1, <1>2, OutlivedTyped DEF ChooseFails
<1>6. moves' \in 0 .. MaxMoves
  BY <1>2, MoveTyped DEF ChooseFails
<1>7. op' \in Ops /\ op'.pc = "undo" /\ op'.at = op.at /\ now' = now
  BY <1>1 DEF ChooseFails, Ops
<1>8. Steps'
  BY <1>1, <1>7 DEF Steps
<1> QED
  BY <1>4, <1>5, <1>6, <1>7, <1>8, TypeParts, TypePartsNext DEF Typed, ChooseFails

\* Another candidate is chosen, unless the attempts are used up.
LEMMA NextCandidateTyped ==
  ASSUME NEW o \in Ops, o.attempt < MaxCandidates, o.at = now', snapshot \subseteq Loops,
         NextCandidate(o)
  PROVE  op' \in Ops /\ Steps'
<1>1. AttemptLimit \in 1 .. MaxCandidates
  BY LimitOfAttempts
<1>2. o.attempt \in 0 .. MaxCandidates
  BY DEF Ops
<1> DEFINE pc == IF o.attempt + 1 < AttemptLimit THEN "choose" ELSE "undo"
<1>3. op' = [o EXCEPT !.attempt = o.attempt + 1, !.pc = pc]
  BY DEF NextCandidate
<1>4. o.attempt + 1 \in 0 .. MaxCandidates
  BY <1>2, Limits
<1>5. pc \in {"choose", "undo"} /\ (pc = "choose" => o.attempt + 1 < MaxCandidates)
  BY <1>1, <1>2, Limits
<1> HIDE DEF pc
<1>6. op' \in Ops /\ op'.pc = pc /\ op'.attempt = o.attempt + 1 /\ op'.at = o.at
  BY <1>3, <1>4, <1>5 DEF Ops
<1> QED
  BY <1>5, <1>6 DEF Steps

LEMMA Trying ==
  ASSUME Typed, op.pc = "play"
  PROVE  /\ op \in Ops /\ op.at = now /\ op.at \in Instants
         /\ op.pick \in Loops /\ op.under \in Dates \cup {Nothing}
         /\ op.attempt < MaxCandidates
<1>1. op \in Ops /\ op.at = now /\ op.at \in Instants
  BY Underway DEF Working
<1> QED
  BY <1>1 DEF Ops, Typed, Steps

LEMMA TypedUnhealthy ==
  ASSUME Typed, FoundUnhealthy
  PROVE  Typed'
<1>1. /\ op \in Ops /\ op.at = now /\ op.pick \in Loops /\ op.attempt < MaxCandidates
  BY Trying DEF FoundUnhealthy
<1> DEFINE o == [op EXCEPT !.unhealthy = @ \cup {op.pick}]
<1>2. o \in Ops /\ o.at = op.at /\ o.attempt = op.attempt
  BY <1>1 DEF Ops
<1>3. NextCandidate(o) /\ now' = now
  BY DEF FoundUnhealthy
<1> HIDE DEF o
<1>4. op' \in Ops /\ Steps'
  BY <1>1, <1>2, <1>3, NextCandidateTyped, TypeParts DEF Typed
<1>5. quarantine' \subseteq Loops /\ promise' \in [Slots -> Loops \cup {Nothing}]
  BY <1>1, TypeParts DEF FoundUnhealthy, Typed
<1> QED
  BY <1>4, <1>5, TypeParts, TypePartsNext, MoveTyped DEF Typed, FoundUnhealthy

LEMMA TypedCut ==
  ASSUME Typed, PlayCut
  PROVE  Typed'
<1>1. op \in Ops /\ op.at = now
  BY Trying DEF PlayCut
<1>2. op' = [op EXCEPT !.pc = "undo", !.asked = TRUE] /\ now' = now
  BY DEF PlayCut
<1>3. op' \in Ops /\ op'.pc = "undo" /\ op'.at = now'
  BY <1>1, <1>2 DEF Ops
<1>4. Steps'
  BY <1>3 DEF Steps
<1> QED
  BY <1>3, <1>4, TypeParts, TypePartsNext DEF Typed, PlayCut

LEMMA TypedPlay ==
  ASSUME Typed, Play
  PROVE  Typed'
<1>1. /\ op \in Ops /\ op.at \in Instants /\ op.pick \in Loops
      /\ op.under \in Dates \cup {Nothing} /\ op.pc \in Working
  BY Trying DEF Play, Working
<1>2. Succeed(op.pick, op.under, promise)
  BY DEF Play
<1>3. /\ op' \in Ops /\ Steps' /\ last' \in Verdicts
      /\ promise' \in [Slots -> Loops \cup {Nothing}]
  BY <1>1, <1>2, SucceedTyped, TypeParts DEF Typed
<1>4. active' \in Activation
  BY <1>1, Clock, InstantsKnown DEF Play, Activation
<1> QED
  BY <1>1, <1>3, <1>4, TypeParts, TypePartsNext DEF Typed, Play

\* An operation goes on with what it set out with.
SameAim ==
  /\ op'.at = op.at /\ op'.redraw = op.redraw /\ op'.start = op.start /\ op'.saved = op.saved
  /\ op'.usable = op.usable /\ op'.over = op.over

\* OBS failed: the source is stopped, and the candidate or OBS is to blame, or
\* the source may still be on.
Blamed(pick) ==
  /\ shown' = Nothing /\ quarantine' = quarantine \cup {pick}
  /\ op'.tentative = op.tentative \cup {pick}
Spared(pick) ==
  /\ quarantine' = quarantine /\ op'.tentative = op.tentative
  /\ \/ shown' = Nothing
     \/ shown' \in {shown, pick} /\ "unclean" \in op'.errs

LEMMA RejectedCase ==
  ASSUME Typed, PlayRejected
  PROVE  /\ op' \in Ops /\ Steps' /\ SameAim
         /\ op'.pc \in {"choose", "undo"} /\ op'.asked /\ op'.unhealthy = op.unhealthy
         /\ Blamed(op.pick) \/ Spared(op.pick)
<1>1. /\ op \in Ops /\ op.at = now /\ op.pick \in Loops /\ op.attempt < MaxCandidates
      /\ now' = now /\ op.left > 0 /\ op.left \in 0 .. MaxStops
  BY Trying DEF PlayRejected, Ops
<1>2. PICK cost \in {0, 1} :
       LET o == [op EXCEPT !.asked = TRUE, !.left = @ - cost,
                           !.errs = @ \cup {"mutated"}]
       IN  \/ /\ shown' = Nothing
              /\ \/ /\ quarantine' = quarantine \cup {op.pick}
                    /\ NextCandidate([o EXCEPT !.tentative = @ \cup {op.pick}])
                 \/ op' = [o EXCEPT !.pc = "undo"] /\ UNCHANGED quarantine
           \/ /\ shown' \in {shown, op.pick, Nothing}
              /\ op' = [o EXCEPT !.pc = "undo", !.errs = @ \cup {"unclean"}]
              /\ UNCHANGED quarantine
  BY DEF PlayRejected
<1> DEFINE o == [op EXCEPT !.asked = TRUE, !.left = @ - cost, !.errs = @ \cup {"mutated"}]
           more == [o EXCEPT !.tentative = @ \cup {op.pick}]
<1>3. op.left - cost \in 0 .. MaxStops
  BY <1>1, Limits
<1>4. /\ o \in Ops /\ o.asked
      /\ o.at = op.at /\ o.attempt = op.attempt /\ o.redraw = op.redraw /\ o.start = op.start
      /\ o.saved = op.saved /\ o.usable = op.usable /\ o.over = op.over
      /\ o.tentative = op.tentative /\ o.unhealthy = op.unhealthy
  BY <1>1, <1>3 DEF Ops
<1> HIDE DEF o
<1>5. CASE shown' = Nothing /\ quarantine' = quarantine \cup {op.pick} /\ NextCandidate(more)
  <2>1. /\ more \in Ops /\ more.asked
        /\ more.at = op.at /\ more.attempt = op.attempt /\ more.redraw = op.redraw
        /\ more.start = op.start /\ more.saved = op.saved /\ more.usable = op.usable
        /\ more.over = op.over /\ more.tentative = op.tentative \cup {op.pick}
        /\ more.unhealthy = op.unhealthy
    BY <1>1, <1>4 DEF Ops
  <2> HIDE DEF more
  <2>2. op' \in Ops /\ Steps'
    BY <1>1, <1>5, <2>1, NextCandidateTyped, TypeParts DEF Typed
  <2>3. /\ op'.pc \in {"choose", "undo"} /\ op'.asked = more.asked /\ op'.at = more.at
        /\ op'.redraw = more.redraw /\ op'.start = more.start /\ op'.saved = more.saved
        /\ op'.usable = more.usable /\ op'.over = more.over
        /\ op'.tentative = more.tentative /\ op'.unhealthy = more.unhealthy
    BY <1>5, <2>1 DEF NextCandidate, Ops
  <2> QED
    BY <1>5, <2>1, <2>2, <2>3 DEF SameAim, Blamed
<1>6. CASE shown' = Nothing /\ op' = [o EXCEPT !.pc = "undo"] /\ UNCHANGED quarantine
  <2>1. /\ op' \in Ops /\ op'.pc = "undo" /\ op'.asked = o.asked /\ op'.at = o.at
        /\ op'.redraw = o.redraw /\ op'.start = o.start /\ op'.saved = o.saved
        /\ op'.usable = o.usable /\ op'.over = o.over
        /\ op'.tentative = o.tentative /\ op'.unhealthy = o.unhealthy
    BY <1>4, <1>6 DEF Ops
  <2>2. Steps'
    BY <1>1, <1>4, <2>1 DEF Steps
  <2>3. SameAim
    BY <1>4, <2>1 DEF SameAim
  <2>4. Spared(op.pick)
    BY <1>4, <1>6, <2>1 DEF Spared
  <2>5. op'.asked
    BY <1>4, <2>1
  <2> QED
    BY <1>4, <2>1, <2>2, <2>3, <2>4, <2>5
<1>7. CASE /\ shown' \in {shown, op.pick, Nothing}
           /\ op' = [o EXCEPT !.pc = "undo", !.errs = @ \cup {"unclean"}]
           /\ UNCHANGED quarantine
  <2>1. /\ op' \in Ops /\ op'.pc = "undo" /\ op'.asked = o.asked /\ op'.at = o.at
        /\ op'.redraw = o.redraw /\ op'.start = o.start /\ op'.saved = o.saved
        /\ op'.usable = o.usable /\ op'.over = o.over
        /\ op'.tentative = o.tentative /\ op'.unhealthy = o.unhealthy
        /\ "unclean" \in op'.errs
    BY <1>4, <1>7 DEF Ops
  <2>2. Steps'
    BY <1>1, <1>4, <2>1 DEF Steps
  <2> QED
    BY <1>4, <1>7, <2>1, <2>2 DEF SameAim, Spared
<1> QED
  BY <1>2, <1>5, <1>6, <1>7 DEF o

LEMMA TypedRejected ==
  ASSUME Typed, PlayRejected
  PROVE  Typed'
<1>1. op' \in Ops /\ Steps' /\ op.pick \in Loops
  BY RejectedCase, Trying DEF PlayRejected
<1>2. quarantine' \subseteq Loops /\ shown' \in Loops \cup {Nothing}
  BY <1>1, RejectedCase, TypeParts DEF Typed, Blamed, Spared
<1> QED
  BY <1>1, <1>2, TypeParts, TypePartsNext DEF Typed, PlayRejected

LEMMA RestoredStore ==
  ASSUME Typed, op.pc \in Working
  PROVE  /\ Restored(op) \in Stores
         /\ \A d \in Dates : Restored(op).override[d] =
              IF d = Date(op.at) THEN op.saved.override ELSE db.override[d]
         /\ \A s \in Slots : Restored(op).plan[s] =
              IF s = Slot(op.at) THEN op.saved.plan ELSE db.plan[s]
<1>1. op \in Ops /\ op.at \in Instants /\ db \in Stores
  BY Underway, TypeParts DEF Typed
<1>2. op.saved.override \in Override /\ op.saved.plan \in Plan \cup {Nothing}
  BY <1>1 DEF Ops, Selection
<1>3. Date(op.at) \in Dates /\ Slot(op.at) \in Slots
  BY <1>1, InstantsKnown
<1> QED
  BY <1>1, <1>2, <1>3 DEF Restored, Stores

LEMMA TypedUndo ==
  ASSUME Typed, Undo
  PROVE  Typed'
<1>1. op \in Ops /\ op.at = now /\ op.pc \in Working /\ db \in Stores
  BY Underway, TypeParts DEF Undo, Working, Typed
<1>2. op' \in Ops /\ Steps'
  BY <1>1, LeaveTyped DEF Undo
<1>3. db' \in Stores
  BY <1>1, RestoredStore DEF Undo
<1>4. /\ quarantine' \subseteq Loops /\ moves' \in 0 .. MaxMoves /\ last' \in Verdicts
      /\ odd' \subseteq Oddities
  BY Blank, MoveTyped, TypeParts DEF Undo, Typed, Withdrawn, Oddities
<1> QED
  BY <1>2, <1>3, <1>4, TypeParts, TypePartsNext DEF Typed, Undo

LEMMA TypedClose ==
  ASSUME Typed, LeaveOn \/ StopExpired
  PROVE  Typed'
<1>1. op.at \in Instants
  BY Underway DEF LeaveOn, StopExpired
<1>2. op' = Idle /\ op' \in Ops /\ Steps'
  BY Blank DEF LeaveOn, StopExpired, Steps, Working
<1>3. /\ last' \in Verdicts /\ active' \in Activation \cup {Nothing}
      /\ shown' \in Loops \cup {Nothing}
  BY <1>1, Blank, TypeParts DEF LeaveOn, StopExpired, Verdicts, Typed
<1> QED
  BY <1>2, <1>3, TypeParts, TypePartsNext DEF Typed, LeaveOn, StopExpired

\* What a process that ends has stored and promised.
Carried == IF op.pc = "choose" THEN Outlived(op.at) ELSE promise

LEMMA CarriedTyped ==
  ASSUME Typed, promise \in [Slots -> Loops \cup {Nothing}]
  PROVE  Carried \in [Slots -> Loops \cup {Nothing}]
<1>1. op.pc = "choose" => op.at \in Instants
  BY Underway DEF Working
<1> QED
  BY <1>1, OutlivedTyped DEF Carried

LEMMA RestartPromises ==
  ASSUME Restart
  PROVE  promise' \in {StillThere(Carried), NoPromise}
  BY DEF Restart, Carried

LEMMA InterruptedStore ==
  ASSUME db \in Stores, NEW t \in Instants, NEW redraw \in BOOLEAN,
         NEW d \in Interrupted(t, redraw)
  PROVE  d = db \/ TidiedFrom(Expired(t), d, t)
<1>1. TidiedFrom(Expired(t), Expired(t), t)
  BY ExpiredStore DEF TidiedFrom
<1>2. /\ TidiedFrom(Expired(t), DirectTidied(t), t)
      /\ TidiedFrom(Expired(t), Tidied(t, redraw, TRUE), t)
  BY TidiedStore
<1> QED
  BY <1>1, <1>2 DEF Interrupted

LEMMA RestartStore ==
  ASSUME Typed, Restart
  PROVE  db' \in Stores
<1>1. db \in Stores
  BY TypeParts DEF Typed
<1>2. CASE op.pc = "choose"
  <2>1. op \in Ops /\ op.at \in Instants /\ Redraw \in BOOLEAN
    BY <1>2, Underway DEF Working, Redraw
  <2>2. db' \in Interrupted(op.at, Redraw)
    BY <1>2 DEF Restart
  <2> QED
    BY <1>1, <2>1, <2>2, InterruptedStore DEF TidiedFrom
<1>3. CASE op.pc # "choose"
  BY <1>1, <1>3 DEF Restart
<1> QED
  BY <1>2, <1>3

LEMMA TypedAround ==
  ASSUME Typed,
         PublishScan \/ (\E loop \in Loops : ReplaceFile(loop)) \/ GoDark \/ Tick \/ Restart
  PROVE  Typed'
<1>1. CASE PublishScan
  <2>1. snapshot' \subseteq Loops /\ quarantine' \subseteq Loops
    BY <1>1, TypeParts DEF Typed, PublishScan
  <2>2. promise' \in [Slots -> Loops \cup {Nothing}]
    BY <1>1, TypeParts, StandingTyped, Blank DEF Typed, PublishScan
  <2>3. Steps'
    BY <1>1 DEF Typed, Steps, PublishScan
  <2> QED
    BY <1>1, <2>1, <2>2, <2>3, TypeParts, TypePartsNext, MoveTyped DEF Typed, PublishScan
<1>2. ASSUME NEW loop \in Loops, ReplaceFile(loop)
      PROVE  Typed'
  <2>1. Steps'
    BY <1>2 DEF Typed, Steps, ReplaceFile
  <2> QED
    BY <1>2, <2>1, TypeParts, TypePartsNext, MoveTyped, Blank DEF Typed, ReplaceFile
<1>3. CASE GoDark
  <2>1. Steps'
    BY <1>3 DEF Typed, Steps, GoDark
  <2> QED
    BY <1>3, <2>1, TypeParts, TypePartsNext DEF Typed, GoDark
<1>4. CASE Tick
  <2>1. Steps'
    BY <1>4 DEF Typed, Steps, Tick, Working
  <2>2. odd' \subseteq Oddities /\ moves' \in 0 .. MaxMoves
    BY <1>4, TypeParts, MoveTyped DEF Typed, Tick, Oddities
  <2> QED
    BY <1>4, <2>1, <2>2, TypeParts, TypePartsNext, Blank DEF Typed, Tick
<1>5. CASE Restart
  <2>1. op' \in Ops /\ Steps'
    BY <1>5, Blank DEF Restart, Steps, Working
  <2>2. promise' \in [Slots -> Loops \cup {Nothing}]
    <3>1. Carried \in [Slots -> Loops \cup {Nothing}]
      BY TypeParts, CarriedTyped DEF Typed
    <3> QED
      BY <1>5, <3>1, Blank, RestartPromises DEF StillThere
  <2>3. moves' \in 0 .. MaxMoves /\ odd' \subseteq Oddities
    BY <1>5, TypeParts, MoveTyped DEF Typed, Restart, Oddities
  <2>4. db' \in Stores
    BY <1>5, RestartStore
  <2> QED
    BY <1>5, <2>1, <2>2, <2>3, <2>4, TypeParts, TypePartsNext, Blank DEF Typed, Restart
<1> QED
  BY <1>1, <1>2, <1>3, <1>4, <1>5

LEMMA TypedStep == Typed /\ [Next]_vars => Typed'
<1> SUFFICES ASSUME Typed, [Next]_vars
             PROVE  Typed'
  OBVIOUS
<1>1. CASE UNCHANGED vars
  BY <1>1 DEF vars, Typed, TypeOK, Steps
<1>2. CASE Next
  BY <1>2, TypedCommands, TypedTorn, TypedPreview, TypedBegin, TypedCapture, TypedRefused,
     TypedChoose, TypedChooseFails, TypedUnhealthy, TypedCut, TypedPlay, TypedRejected,
     TypedUndo, TypedClose, TypedAround DEF Next
<1> QED
  BY <1>1, <1>2

LEMMA TypedInit == Init => Typed
  BY Blank, TypeParts, Limits DEF Init, Typed, Steps, Working, Stores

-----------------------------------------------------------------------------
(* What is on belongs to the period                                         *)

LEMMA ShowKept ==
  ASSUME OnShow, active' \in {active, Nothing}, shown' \in {shown, Nothing},
         op'.errs \in {op.errs, {}},
         \/ op' # Idle
         \/ last'.verdict = "none"
         \/ op = Idle /\ last' = last /\ active' = active
  PROVE  OnShow'
  BY DEF OnShow, ExpiredLoopNeverStays

LEMMA NewOperation ==
  ASSUME OnShow, active' \in {active, Nothing}, shown' \in {shown, Nothing},
         NEW kind, NEW force, NEW always, Begin(kind, force, always)
  PROVE  OnShow'
<1>1. op'.errs = {} /\ last'.verdict = "none"
  BY DEF Begin, Idle, NoVerdict
<1> QED
  BY <1>1, ShowKept

LEMMA OnShowStart ==
  ASSUME OnShow,
         \/ \E theme \in Themes : SetTheme(theme)
         \/ ClearTheme
         \/ \E loop \in Loops : SelectLoop(loop)
         \/ SkipLoop
         \/ EnsureLibraryPlayback
         \/ RepairLoop
  PROVE  OnShow'
<1>1. ASSUME NEW o, NEW p, Command(o, p)
      PROVE  OnShow'
  BY <1>1, NewOperation DEF Command
<1>2. CASE EnsureLibraryPlayback
  BY <1>2, NewOperation DEF EnsureLibraryPlayback
<1>3. CASE RepairLoop
  BY <1>3, NewOperation DEF RepairLoop
<1> QED
  BY <1>1, <1>2, <1>3 DEF SetTheme, ClearTheme, SelectLoop, SkipLoop

LEMMA OnShowIdle ==
  ASSUME OnShow,
         \/ \E theme \in Themes \cup {Nothing} : ThemeTorn(theme)
         \/ PreviewLoop
         \/ PublishScan
         \/ \E loop \in Loops : ReplaceFile(loop)
         \/ GoDark
         \/ Tick
         \/ Restart
  PROVE  OnShow'
<1>1. CASE \/ \E theme \in Themes \cup {Nothing} : ThemeTorn(theme)
           \/ PreviewLoop
           \/ PublishScan
           \/ \E loop \in Loops : ReplaceFile(loop)
           \/ GoDark
  <2>1. /\ op = Idle /\ op' = op /\ last' = last /\ active' = active
        /\ shown' \in {shown, Nothing}
    BY <1>1 DEF ThemeTorn, PreviewLoop, PublishScan, ReplaceFile, GoDark
  <2> QED
    BY <2>1, ShowKept
<1>2. CASE Tick
  <2>1. last'.verdict = "none"
    BY <1>2 DEF Tick, NoVerdict
  <2> QED
    BY <1>2, <2>1, ShowKept DEF Tick
<1>3. CASE Restart
  <2>1. last'.verdict = "none" /\ op'.errs = {}
    BY <1>3 DEF Restart, NoVerdict, Idle
  <2> QED
    BY <1>3, <2>1, ShowKept DEF Restart
<1> QED
  BY <1>1, <1>2, <1>3

LEMMA LeaveErrs ==
  ASSUME NEW o \in Ops, Leave(o)
  PROVE  op'.errs \in {o.errs, {}}
<1>1. Idle.errs = {}
  BY DEF Idle
<1> QED
  BY <1>1 DEF Leave, Ops

LEMMA OnShowLeave ==
  ASSUME Typed, OnShow, CaptureRefused \/ Undo
  PROVE  OnShow'
<1>1. op \in Ops /\ now \in Instants
  BY TypeParts DEF Typed
<1>2. op'.errs \in {op.errs, {}}
  <2>1. CASE CaptureRefused
    <3>1. [op EXCEPT !.at = now] \in Ops /\ [op EXCEPT !.at = now].errs = op.errs
      BY <1>1 DEF Ops
    <3> QED
      BY <2>1, <3>1, LeaveErrs DEF CaptureRefused
  <2>2. CASE Undo
    BY <1>1, <2>2, LeaveErrs DEF Undo
  <2> QED
    BY <2>1, <2>2
<1>3. last'.verdict = "none"
  BY DEF CaptureRefused, Undo, NoVerdict
<1> QED
  BY <1>2, <1>3, ShowKept DEF CaptureRefused, Undo

LEMMA OnShowWork ==
  ASSUME Typed, OnShow, Capture \/ ChooseFails \/ FoundUnhealthy \/ PlayCut
  PROVE  OnShow'
<1>1. op \in Ops
  BY TypeParts DEF Typed
<1>2. op'.errs = op.errs /\ op'.pc # "idle"
  <2>1. CASE Capture \/ ChooseFails \/ PlayCut
    BY <1>1, <2>1 DEF Capture, ChooseFails, PlayCut, Ops
  <2>2. CASE FoundUnhealthy
    BY <1>1, <2>2 DEF FoundUnhealthy, NextCandidate, Ops
  <2> QED
    BY <2>1, <2>2
<1>3. op' # Idle
  BY <1>2, Blank
<1>4. active' = active /\ shown' = shown
  BY DEF Capture, ChooseFails, FoundUnhealthy, PlayCut
<1> QED
  BY <1>2, <1>3, <1>4, ShowKept

\* An activation recorded for the period of t.
LEMMA ActivationKnown ==
  ASSUME NEW loop \in Loops, NEW t \in Instants
  PROVE  LET a == [loop |-> loop, period |-> PeriodAt(t), ends |-> PeriodEnd(t)]
         IN  a \in Activation /\ a # Nothing
<1>1. PeriodAt(t) \in Periods /\ PeriodEnd(t) \in Nat
  BY Clock, InstantsKnown
<1> QED
  BY <1>1, NothingAssumption DEF Activation

\* What has been put on, or found on, for this period.
LEMMA OnShowPlaying ==
  ASSUME op.at \in Instants, NEW loop \in Loops, NEW under, NEW p, Succeed(loop, under, p),
         active' = [loop |-> loop, period |-> PeriodAt(op.at), ends |-> PeriodEnd(op.at)],
         shown' \in {loop, Nothing}
  PROVE  OnShow'
<1>1. op' = Idle /\ op'.errs = {} /\ last'.at = op.at
  BY DEF Succeed, Idle
<1>2. op.at < PeriodEnd(op.at)
  BY Clock, InstantsKnown
<1>3. active' # Nothing
  BY ActivationKnown
<1>4. active'.loop = loop /\ active'.period = PeriodAt(op.at) /\ active'.ends = PeriodEnd(op.at)
  OBVIOUS
<1> QED
  BY <1>1, <1>2, <1>3, <1>4 DEF OnShow, ExpiredLoopNeverStays

LEMMA OnShowChoose ==
  ASSUME Typed, OnShow, ChooseLoop
  PROVE  OnShow'
<1>1. op \in Ops /\ op.at \in Instants /\ active' = active /\ shown' = shown
  BY Underway DEF ChooseLoop, Working
<1>2. PICK ok \in BOOLEAN : \E c \in Chosen(op.at, Redraw, ok) : Choice(c, ok)
  BY ChooseCase
<1>3. PICK c \in Chosen(op.at, Redraw, ok) : Choice(c, ok)
  BY <1>2
<1>4. CASE NeedsPlay(c.loop)
  <2>1. op'.errs = op.errs /\ op'.pc = "play"
    BY <1>1, <1>3, <1>4 DEF Choice, Ops
  <2> QED
    BY <1>1, <2>1, Blank, ShowKept
<1>5. CASE ~ NeedsPlay(c.loop)
  <2>1. active = [loop |-> c.loop, period |-> PeriodAt(op.at), ends |-> PeriodEnd(op.at)]
    BY <1>5 DEF NeedsPlay
  <2>2. c.loop \in Loops /\ active # Nothing
    <3>1. c.loop \in Loops
      BY <1>1, ChosenStore, TypeParts DEF Typed, Redraw
    <3> QED
      BY <1>1, <2>1, <3>1, ActivationKnown
  <2>3. shown \in {c.loop, Nothing}
    BY <2>1, <2>2 DEF OnShow
  <2>4. Succeed(c.loop, c.under, Left(ok))
    BY <1>3, <1>5 DEF Choice
  <2> QED
    BY <1>1, <2>1, <2>2, <2>3, <2>4, OnShowPlaying
<1> QED
  BY <1>4, <1>5

LEMMA OnShowPlay ==
  ASSUME Typed, OnShow, Play \/ PlayRejected
  PROVE  OnShow'
<1>1. op \in Ops /\ op.at \in Instants /\ op.pick \in Loops
  BY Trying DEF Play, PlayRejected
<1>2. CASE Play
  BY <1>1, <1>2, OnShowPlaying DEF Play
<1>3. CASE PlayRejected
  <2>1. op'.pc # "idle" /\ (shown' = Nothing \/ "unclean" \in op'.errs)
    BY <1>3, RejectedCase DEF Blamed, Spared
  <2>2. op' # Idle /\ active' = Nothing
    BY <1>3, <2>1, Blank DEF PlayRejected
  <2> QED
    BY <2>1, <2>2 DEF OnShow, ExpiredLoopNeverStays
<1> QED
  BY <1>2, <1>3

LEMMA OnShowClose ==
  ASSUME Typed, OnShow, LeaveOn \/ StopExpired
  PROVE  OnShow'
<1>1. op' = Idle /\ op'.errs = {}
  BY DEF LeaveOn, StopExpired, Idle
<1>2. CASE LeaveOn
  <2>1. active' = active /\ shown' = shown /\ last'.at = op.at
    BY <1>2 DEF LeaveOn
  <2>2. CASE AlreadyStopped
    BY <1>1, <2>1, <2>2 DEF AlreadyStopped, OnShow, ExpiredLoopNeverStays
  <2>3. CASE StillCurrent
    BY <1>1, <2>1, <2>3 DEF StillCurrent, OnShow, ExpiredLoopNeverStays
  <2> QED
    BY <1>2, <2>2, <2>3 DEF LeaveOn
<1>3. CASE StopExpired
  <2>1. CASE shown' = Nothing /\ active' = Nothing
    BY <1>1, <2>1 DEF OnShow, ExpiredLoopNeverStays
  <2>2. CASE last' = NoVerdict /\ UNCHANGED <<shown, active>>
    BY <1>1, <2>2, ShowKept DEF NoVerdict
  <2> QED
    BY <1>3, <2>1, <2>2 DEF StopExpired
<1> QED
  BY <1>2, <1>3

LEMMA OnShowStep == Typed /\ OnShow /\ [Next]_vars => OnShow'
<1> SUFFICES ASSUME Typed, OnShow, [Next]_vars
             PROVE  OnShow'
  OBVIOUS
<1>1. CASE UNCHANGED vars
  BY <1>1 DEF vars, OnShow, ExpiredLoopNeverStays
<1>2. CASE Next
  BY <1>2, OnShowStart, OnShowIdle, OnShowLeave, OnShowWork, OnShowChoose, OnShowPlay,
     OnShowClose DEF Next
<1> QED
  BY <1>1, <1>2

LEMMA OnShowInit == Init => OnShow
  BY DEF Init, OnShow, ExpiredLoopNeverStays, Idle, NoVerdict

\* Every variable keeps its type; among other things the attempts of an
\* activation stay within boundedLibraryCandidateAttempts, and its slow stops
\* within the fail-closed budget.
THEOREM TypeCorrect == Spec => []TypeOK
<1>1. Typed => TypeOK
  BY DEF Typed
<1> QED
  BY <1>1, TypedInit, TypedStep, PTL DEF Spec

\* After playback was looked after and no stop failed, OBS shows nothing or the
\* active loop, which belongs to the period the operation read from the clock.
THEOREM NothingExpiredStays == Spec => []ExpiredLoopNeverStays
<1>1. OnShow => ExpiredLoopNeverStays
  BY DEF OnShow
<1> QED
  BY <1>1, TypedInit, TypedStep, OnShowInit, OnShowStep, PTL DEF Spec

-----------------------------------------------------------------------------
(* Overrides expire                                                         *)

\* A plan belongs to its slot, and was not drawn under an earlier day's theme.
PlanFits(plan, s) ==
  plan # Nothing =>
    /\ plan.loop.period = s.period
    /\ plan.under # Nothing => plan.under >= s.date

\* A night plan that was drawn under the theme of the night's own date has that
\* theme beside it: after midnight, its being there shows that the night is over.
ThemeBeside(plan, override, s) ==
  "torn" \notin odd /\ plan # Nothing /\ s.period = "night" /\ plan.under = s.date
    => override.theme # Nothing

Fit(d) ==
  \A s \in Slots : PlanFits(d.plan[s], s) /\ ThemeBeside(d.plan[s], d.override[s.date], s)

\* The selection an activation goes back to fits as well.
SavedFits ==
  op.pc \in Working =>
    /\ PlanFits(op.saved.plan, Slot(op.at))
    /\ ThemeBeside(op.saved.plan,
                   IF Early(op.at) THEN NoOverride ELSE op.saved.override, Slot(op.at))
    /\ db.override[Date(op.at)].theme = op.saved.override.theme

UnderToday(verdict, under, t) ==
  verdict /\ "torn" \notin odd /\ under # Nothing => under >= Date(t)

Fitting ==
  /\ Fit(db)
  /\ SavedFits
  /\ UnderToday(op.pc = "play", op.under, op.at)
  /\ UnderToday(last.verdict = "playing", last.under, last.at)

LEMMA EarlySlot ==
  ASSUME NEW t \in Instants
  PROVE  /\ Early(t) => PlanDate(t) = Date(t) - 1 /\ PlanDate(t) # Date(t)
         /\ ~ Early(t) => PlanDate(t) = Date(t)
         /\ NightIsOver(t) => Early(t)
         /\ \A s \in Slots : s.date = PlanDate(t) /\ s.period = "night" /\ Early(t) => s = Slot(t)
         /\ Date(t) \in Int /\ PlanDate(t) \in Int
<1>1. t \in Nat /\ Slot(t) \in Slots /\ Slot(t).date = PlanDate(t) /\ Slot(t).period = PeriodAt(t)
  BY InstantsKnown
<1>2. Early(t) => PeriodAt(t) = "night"
  BY <1>1, Clock
<1>3. \A s \in Slots : s.date = PlanDate(t) /\ s.period = "night" /\ Early(t) => s = Slot(t)
  BY <1>1, <1>2, SlotsKnown
<1>4. /\ Early(t) => PlanDate(t) = Date(t) - 1 /\ PlanDate(t) # Date(t)
      /\ ~ Early(t) => PlanDate(t) = Date(t)
      /\ Date(t) \in Int /\ PlanDate(t) \in Int
  BY <1>1, Clock, DayAndHour
<1> QED
  BY <1>3, <1>4 DEF NightIsOver

\* Nothing that is over is in the store when a loop is chosen.
LEMMA NightCleared ==
  ASSUME db \in Stores, NEW t \in Instants
  PROVE  /\ Early(t) => Expired(t).override[PlanDate(t)] = NoOverride
         /\ Expired(t).override[Date(t)] = db.override[Date(t)]
<1>1. Date(t) \in Dates /\ PlanDate(t) \in Dates
  BY InstantsKnown
<1> QED
  BY <1>1, ExpiredStore, EarlySlot DEF NightIsOver

LEMMA ExpiredFits ==
  ASSUME db \in Stores, Fit(db), NEW t \in Instants
  PROVE  Fit(Expired(t))
<1> SUFFICES ASSUME NEW s \in Slots
             PROVE  /\ PlanFits(Expired(t).plan[s], s)
                    /\ ThemeBeside(Expired(t).plan[s], Expired(t).override[s.date], s)
  BY DEF Fit
<1>1. PlanFits(db.plan[s], s) /\ ThemeBeside(db.plan[s], db.override[s.date], s)
  BY DEF Fit
<1>2. /\ Expired(t).plan[s] = IF NightIsOver(t) /\ s = Slot(t) THEN Nothing ELSE db.plan[s]
      /\ Expired(t).override[s.date] =
           IF NightIsOver(t) /\ s.date = PlanDate(t) THEN NoOverride ELSE db.override[s.date]
  BY ExpiredStore, SlotsKnown
<1>3. CASE NightIsOver(t) /\ s.date = PlanDate(t)
  BY <1>1, <1>2, <1>3, EarlySlot DEF PlanFits, ThemeBeside
<1>4. CASE ~ (NightIsOver(t) /\ s.date = PlanDate(t))
  BY <1>1, <1>2, <1>4 DEF PlanFits, ThemeBeside
<1> QED
  BY <1>3, <1>4

LEMMA TidiedFits ==
  ASSUME NEW d \in Stores, NEW t \in Instants, NEW e, TidiedFrom(d, e, t), Fit(d),
         e.plan[Slot(t)] \in {d.plan[Slot(t)], Nothing}
  PROVE  Fit(e)
<1> SUFFICES ASSUME NEW s \in Slots
             PROVE  PlanFits(e.plan[s], s) /\ ThemeBeside(e.plan[s], e.override[s.date], s)
  BY DEF Fit
<1>1. PlanFits(d.plan[s], s) /\ ThemeBeside(d.plan[s], d.override[s.date], s)
  BY DEF Fit
<1>2. e.plan[s] \in {d.plan[s], Nothing} /\ e.override[s.date].theme = d.override[s.date].theme
  BY SlotsKnown DEF TidiedFrom
<1> QED
  BY <1>1, <1>2 DEF PlanFits, ThemeBeside

\* What is chosen is for today, and what the choice leaves behind fits.
LEMMA ChosenFits ==
  ASSUME db \in Stores, snapshot \subseteq Loops, Fit(db), NEW t \in Instants,
         NEW redraw \in BOOLEAN, NEW ok \in BOOLEAN, NEW c \in Chosen(t, redraw, ok)
  PROVE  /\ Fit(c.db)
         /\ UnderToday(TRUE, c.under, t)
         /\ c.db.override[Date(t)].theme = db.override[Date(t)].theme
<1>1. /\ Expired(t) \in Stores /\ Fit(Expired(t)) /\ TidiedFrom(Expired(t), c.db, t)
      /\ c.loop \in Loops
  BY ExpiredStore, ExpiredFits, ChosenStore
<1>2. Slot(t) \in Slots /\ Slot(t).date = PlanDate(t) /\ Slot(t).period = PeriodAt(t)
      /\ Date(t) \in Dates /\ Date(t) \in Int /\ PlanDate(t) \in Int
  BY InstantsKnown, EarlySlot
<1>3. c.db.override[Date(t)].theme = db.override[Date(t)].theme
  BY <1>1, NightCleared DEF TidiedFrom
<1> DEFINE p == Expired(t).plan[Slot(t)]
<1>4. CASE Selected(c, t)
  BY <1>1, <1>2, <1>3, <1>4 DEF Selected, UnderToday
<1>5. CASE Kept(c, t, redraw, ok)
  <2>1. Fit(c.db)
    <3>1. c.db.plan[Slot(t)] \in {Expired(t).plan[Slot(t)], Nothing}
      BY <1>5, ChosenStore, ZenonT(60)
    <3> QED
      BY <1>1, <3>1, TidiedFits
  <2>2. p # Nothing /\ c.under = p.under
    BY <1>5 DEF Kept, Reused
  <2>3. PlanFits(p, Slot(t)) /\ ThemeBeside(p, Expired(t).override[PlanDate(t)], Slot(t))
    BY <1>1, <1>2 DEF Fit
  <2>4. c.under \in Dates \cup {Nothing}
    BY ChosenStore
  <2>5. c.under # Nothing => c.under \in Int /\ c.under >= PlanDate(t)
    BY <1>2, <2>2, <2>3, <2>4, SlotsKnown DEF PlanFits
  <2>6. "torn" \notin odd /\ Early(t) => c.under # PlanDate(t)
    <3>1. Early(t) => Expired(t).override[PlanDate(t)].theme = Nothing /\ PeriodAt(t) = "night"
      BY NightCleared, InstantsKnown, Clock DEF NoOverride
    <3> QED
      BY <1>2, <2>2, <2>3, <3>1 DEF ThemeBeside
  <2>7. UnderToday(TRUE, c.under, t)
    BY <1>2, <2>5, <2>6, EarlySlot DEF UnderToday
  <2> QED
    BY <1>3, <2>1, <2>7
<1>6. CASE Drew(c, t, redraw, ok)
  <2>1. c.db.plan[Slot(t)] = [loop |-> c.loop, under |-> c.under]
    BY <1>6, ChosenStore
  <2>2. c.loop.period = PeriodAt(t) /\ c.under \in {Date(t), Nothing}
    BY <1>6 DEF Drew, Candidates
  <2>3. c.under = Date(t) => c.db.override[Date(t)].theme # Nothing
    <3>1. c.under = Date(t) => c.loop.theme = Expired(t).override[Date(t)].theme
      BY <1>2, <1>6, NothingAssumption DEF Drew
    <3>2. c.loop.theme # Nothing
      BY <1>1, LoopsAssumption, NothingAssumption
    <3> QED
      BY <1>1, <3>1, <3>2 DEF TidiedFrom
  <2>4. PlanDate(t) <= Date(t)
    BY <1>2, EarlySlot
  <2>5. ASSUME NEW s \in Slots
        PROVE  PlanFits(c.db.plan[s], s) /\ ThemeBeside(c.db.plan[s], c.db.override[s.date], s)
    <3>1. CASE s = Slot(t)
      <4>1. PlanFits(c.db.plan[s], s)
        BY <1>2, <2>1, <2>2, <2>4, <3>1 DEF PlanFits
      <4>2. ThemeBeside(c.db.plan[s], c.db.override[s.date], s)
        <5>1. s.date = PlanDate(t) /\ s.date \in Dates /\ s.date # Nothing
          BY <1>2, <3>1, SlotsKnown, NothingAssumption
        <5>2. c.db.plan[s].under = s.date => s.date = Date(t) /\ c.under = Date(t)
          BY <2>1, <2>2, <3>1, <5>1
        <5> QED
          BY <2>3, <5>1, <5>2 DEF ThemeBeside
      <4> QED
        BY <4>1, <4>2
    <3>2. CASE s # Slot(t)
      <4>1. PlanFits(Expired(t).plan[s], s)
            /\ ThemeBeside(Expired(t).plan[s], Expired(t).override[s.date], s)
        BY <1>1 DEF Fit
      <4>2. /\ c.db.plan[s] = Expired(t).plan[s]
            /\ c.db.override[s.date].theme = Expired(t).override[s.date].theme
        BY <1>1, <3>2, SlotsKnown DEF TidiedFrom
      <4> QED
        BY <4>1, <4>2 DEF PlanFits, ThemeBeside
    <3> QED
      BY <3>1, <3>2
  <2>6. UnderToday(TRUE, c.under, t)
    BY <1>2, <2>2 DEF UnderToday
  <2> QED
    BY <1>3, <2>5, <2>6 DEF Fit
<1> QED
  BY <1>4, <1>5, <1>6, ChosenCases

LEMMA FittingKept ==
  ASSUME Fitting, db' = db, odd \subseteq odd',
         op'.pc \in Working => op.pc \in Working /\ op'.saved = op.saved /\ op'.at = op.at,
         op'.pc # "play",
         last' = last \/ last'.verdict # "playing"
  PROVE  Fitting'
<1>1. Fit(db)'
  BY DEF Fitting, Fit, PlanFits, ThemeBeside
<1>2. SavedFits'
  BY DEF Fitting, SavedFits, PlanFits, ThemeBeside
<1>3. UnderToday(last.verdict = "playing", last.under, last.at)'
  BY DEF Fitting, UnderToday
<1> QED
  BY <1>1, <1>2, <1>3 DEF Fitting, UnderToday

LEMMA FittingBegin ==
  ASSUME Fitting, EnsureLibraryPlayback \/ RepairLoop
  PROVE  Fitting'
<1>1. op'.pc = "capture" /\ last'.verdict = "none"
  BY BeginTyped DEF EnsureLibraryPlayback, RepairLoop
<1> QED
  BY <1>1, FittingKept DEF EnsureLibraryPlayback, RepairLoop, Working

LEMMA FittingAround ==
  ASSUME Typed, Fitting,
         \/ PublishScan
         \/ \E loop \in Loops : ReplaceFile(loop)
         \/ GoDark
         \/ Tick
  PROVE  Fitting'
<1>1. /\ op'.pc \in {"idle", "capture"} /\ db' = db /\ odd \subseteq odd'
      /\ last' = last \/ last'.verdict = "none"
  BY Blank DEF PublishScan, ReplaceFile, GoDark, Tick, NoVerdict
<1> QED
  BY <1>1, FittingKept DEF Working

LEMMA FittingWork ==
  ASSUME Typed, Fitting,
         \/ CaptureRefused \/ FoundUnhealthy \/ PlayCut \/ PlayRejected
         \/ LeaveOn \/ StopExpired
  PROVE  Fitting'
<1>1. db' = db /\ odd' = odd /\ op \in Ops
  BY TypeParts DEF CaptureRefused, FoundUnhealthy, PlayCut, PlayRejected, LeaveOn, StopExpired, Typed
<1>2. CASE CaptureRefused \/ LeaveOn \/ StopExpired
  <2>1. op'.pc \in {"idle", "close"}
    BY <1>1, <1>2, Blank DEF CaptureRefused, Leave, LeaveOn, StopExpired, Ops
  <2>2. last'.verdict # "playing"
    BY <1>2 DEF CaptureRefused, LeaveOn, StopExpired, NoVerdict
  <2> QED
    BY <1>1, <2>1, <2>2, FittingKept DEF Working
<1>3. CASE FoundUnhealthy \/ PlayCut
  <2>1. op.pc = "play" /\ op'.pc # "play" /\ op'.saved = op.saved /\ op'.at = op.at /\ last' = last
    BY <1>1, <1>3 DEF FoundUnhealthy, PlayCut, NextCandidate, Ops
  <2> QED
    BY <1>1, <2>1, FittingKept DEF Working
<1>4. CASE PlayRejected
  <2>1. op.pc = "play" /\ last' = last
    BY <1>4 DEF PlayRejected
  <2>2. op'.pc # "play" /\ op'.saved = op.saved /\ op'.at = op.at
    BY <1>4, RejectedCase DEF SameAim
  <2> QED
    BY <1>1, <2>1, <2>2, FittingKept DEF Working
<1> QED
  BY <1>2, <1>3, <1>4

\* A command sets one day's override, and takes the plans of that day if it
\* may have changed the theme.
LEMMA FittingCommand ==
  ASSUME Typed, Fitting, NEW o \in Override, NEW p \in [Slots -> Plan \cup {Nothing}],
         Command(o, p),
         \/ o.theme = db.override[Date(now)].theme /\ p = db.plan
         \/ p = PlansWithout(Date(now))
  PROVE  Fitting'
<1>1. db \in Stores /\ Date(now) \in Dates
  BY TypeParts, InstantsKnown DEF Typed
<1>2. /\ \A d \in Dates : db'.override[d] = IF d = Date(now) THEN o ELSE db.override[d]
      /\ db'.plan = p /\ odd' = odd
  BY <1>1 DEF Command, Stores
<1>3. ASSUME NEW s \in Slots
      PROVE  PlanFits(db.plan[s], s)' /\ ThemeBeside(db.plan[s], db.override[s.date], s)'
  <2>1. PlanFits(db.plan[s], s) /\ ThemeBeside(db.plan[s], db.override[s.date], s)
    BY DEF Fitting, Fit
  <2>2. CASE p = PlansWithout(Date(now)) /\ s.date = Date(now)
    BY <1>2, <2>2 DEF PlanFits, ThemeBeside, PlansWithout
  <2>3. CASE p = PlansWithout(Date(now)) /\ s.date # Date(now)
    <3>1. db'.plan[s] = db.plan[s] /\ db'.override[s.date] = db.override[s.date]
      BY <1>2, <2>3, SlotsKnown DEF PlansWithout
    <3> QED
      BY <1>2, <2>1, <3>1 DEF PlanFits, ThemeBeside
  <2>4. CASE o.theme = db.override[Date(now)].theme /\ p = db.plan
    BY <1>2, <2>1, <2>4, SlotsKnown DEF PlanFits, ThemeBeside
  <2> QED
    BY <2>2, <2>3, <2>4
<1>4. op'.pc = "capture" /\ last'.verdict = "none"
  BY DEF Command, Begin, Idle, NoVerdict
<1> QED
  BY <1>3, <1>4 DEF Fitting, Fit, SavedFits, UnderToday, Working

LEMMA FittingCommands ==
  ASSUME Typed, Fitting,
         \/ \E theme \in Themes : SetTheme(theme)
         \/ ClearTheme
         \/ \E loop \in Loops : SelectLoop(loop)
         \/ SkipLoop
  PROVE  Fitting'
<1> DEFINE o == db.override[Date(now)]
<1>1. o \in Override
  BY TodaysOverride
<1>2. ASSUME NEW theme \in Themes, SetTheme(theme)
      PROVE  Fitting'
  <2>1. [theme |-> theme, direct |-> Nothing] \in Override
    BY DEF Override
  <2> QED
    BY <1>2, <2>1, TodaysOverride, FittingCommand DEF SetTheme
<1>3. CASE ClearTheme
  <2>1. [o EXCEPT !.theme = Nothing] \in Override
    BY <1>1 DEF Override
  <2> QED
    BY <1>3, <2>1, TodaysOverride, FittingCommand DEF ClearTheme
<1>4. ASSUME NEW loop \in Loops, SelectLoop(loop)
      PROVE  Fitting'
  <2>1. [o EXCEPT !.direct = loop] \in Override /\ [o EXCEPT !.direct = loop].theme = o.theme
    BY <1>1 DEF Override
  <2> QED
    BY <1>4, <2>1, TodaysOverride, FittingCommand DEF SelectLoop
<1>5. CASE SkipLoop
  <2>1. [o EXCEPT !.direct = Nothing] \in Override /\ [o EXCEPT !.direct = Nothing].theme = o.theme
    BY <1>1 DEF Override
  <2> QED
    BY <1>5, <2>1, TodaysOverride, FittingCommand DEF SkipLoop
<1> QED
  BY <1>2, <1>3, <1>4, <1>5

LEMMA FittingTorn ==
  ASSUME Typed, Fitting, NEW theme \in Themes \cup {Nothing}, ThemeTorn(theme)
  PROVE  Fitting'
<1>1. db \in Stores
  BY TypeParts DEF Typed
<1>2. db'.plan = db.plan /\ "torn" \in odd' /\ op'.pc = "idle"
  BY <1>1, Blank DEF ThemeTorn, Stores
<1>3. Fit(db)'
  BY <1>2 DEF Fitting, Fit, PlanFits, ThemeBeside
<1> QED
  BY <1>2, <1>3 DEF Fitting, SavedFits, UnderToday, Working

\* Choosing for t, whatever comes of it.
LEMMA InterruptedFits ==
  ASSUME db \in Stores, Fit(db), NEW t \in Instants, NEW redraw \in BOOLEAN,
         NEW d \in Interrupted(t, redraw)
  PROVE  Fit(d) /\ d.override[Date(t)].theme = db.override[Date(t)].theme
<1>1. Expired(t) \in Stores /\ Fit(Expired(t))
  BY ExpiredStore, ExpiredFits
<1>2. Expired(t).override[Date(t)] = db.override[Date(t)]
  BY NightCleared
<1>3. CASE d \in {db, Expired(t)}
  BY <1>1, <1>2, <1>3
<1>4. CASE d \in {DirectTidied(t), Tidied(t, redraw, TRUE)}
  <2>1. TidiedFrom(Expired(t), d, t) /\ d.plan[Slot(t)] \in {Expired(t).plan[Slot(t)], Nothing}
    BY <1>4, TidiedStore
  <2>2. Fit(d)
    BY <1>1, <2>1, TidiedFits
  <2> QED
    BY <1>2, <2>1, <2>2 DEF TidiedFrom
<1> QED
  BY <1>3, <1>4 DEF Interrupted

LEMMA FittingRestart ==
  ASSUME Typed, Fitting, Restart
  PROVE  Fitting'
<1>1. /\ db \in Stores /\ Fit(db) /\ odd \subseteq odd' /\ op'.pc = "idle"
      /\ last'.verdict = "none"
  BY TypeParts, Blank DEF Typed, Fitting, Restart, NoVerdict
<1>2. Fit(db')
  <2>1. CASE op.pc = "choose"
    <3>1. op \in Ops /\ op.at \in Instants /\ Redraw \in BOOLEAN
      BY <2>1, Underway DEF Working, Redraw
    <3>2. db' \in Interrupted(op.at, Redraw)
      BY <2>1 DEF Restart
    <3> QED
      BY <1>1, <3>1, <3>2, InterruptedFits
  <2>2. CASE op.pc # "choose"
    BY <1>1, <2>2 DEF Restart
  <2> QED
    BY <2>1, <2>2
<1>3. Fit(db)'
  BY <1>1, <1>2 DEF Fit, PlanFits, ThemeBeside
<1> QED
  BY <1>1, <1>3 DEF Fitting, SavedFits, UnderToday, Working

LEMMA FittingPreview ==
  ASSUME Typed, Fitting, PreviewLoop
  PROVE  Fitting'
<1> DEFINE t == PeriodEnd(now)
<1>1. /\ db \in Stores /\ snapshot \subseteq Loops /\ t \in Instants /\ Fit(db)
      /\ odd' = odd /\ op'.pc = "idle" /\ last' = last
  BY TypeParts, Blank DEF Typed, PreviewLoop, Fitting
<1>2. Fit(db')
  <2>1. ASSUME NEW c \in Chosen(t, FALSE, TRUE), db' = c.db
        PROVE  Fit(db')
    BY <1>1, <2>1, ChosenFits
  <2>2. CASE db' = Tidied(t, FALSE, TRUE)
    <3>1. db' \in Interrupted(t, FALSE)
      BY <2>2 DEF Interrupted
    <3> QED
      BY <1>1, <3>1, InterruptedFits
  <2> QED
    BY <2>1, <2>2 DEF PreviewLoop
<1>3. Fit(db)'
  BY <1>1, <1>2 DEF Fit, PlanFits, ThemeBeside
<1>4. UnderToday(last.verdict = "playing", last.under, last.at)'
  BY <1>1 DEF Fitting, UnderToday
<1> QED
  BY <1>1, <1>3, <1>4 DEF Fitting, SavedFits, UnderToday, Working

LEMMA FittingCapture ==
  ASSUME Typed, Fitting, Capture
  PROVE  Fitting'
<1>1. now \in Instants /\ db \in Stores /\ op \in Ops /\ now' = now /\ db' = db /\ odd' = odd
  BY TypeParts DEF Typed, Capture
<1>2. /\ Date(now) \in Dates /\ Slot(now) \in Slots /\ Slot(now).date = PlanDate(now)
      /\ Slot(now).period = PeriodAt(now)
  BY <1>1, InstantsKnown
<1> DEFINE c == db.override[Date(now)]
           p == db.plan[Slot(now)]
<1>3. c \in Override
  BY <1>1, <1>2 DEF Stores
<1>4. /\ op'.pc = "choose" /\ op'.at = now
      /\ op'.saved.override.theme = c.theme
      /\ op'.saved.plan = IF PlanKept(p) THEN p ELSE Nothing
  BY <1>1, <1>3 DEF Capture, Ops, Override
<1>5. PlanFits(p, Slot(now)) /\ ThemeBeside(p, db.override[PlanDate(now)], Slot(now))
  BY <1>2 DEF Fitting, Fit
<1>6. PlanFits(op'.saved.plan, Slot(now))
  BY <1>4, <1>5 DEF PlanFits
<1>7. CASE Early(now)
  <2>1. PlanKept(p) => db.override[PlanDate(now)] = NoOverride
    BY <1>7 DEF PlanKept, NightIsOver
  <2>2. ThemeBeside(op'.saved.plan, NoOverride, Slot(now))
    BY <1>4, <1>5, <2>1 DEF ThemeBeside
  <2>3. SavedFits'
    BY <1>1, <1>4, <1>6, <1>7, <2>2 DEF SavedFits, PlanFits, ThemeBeside
  <2> QED
    BY <1>1, <1>4, <2>3 DEF Fitting, Fit, PlanFits, ThemeBeside, UnderToday, Capture
<1>8. CASE ~ Early(now)
  <2>1. PlanDate(now) = Date(now)
    BY <1>1, <1>8, EarlySlot
  <2>2. ThemeBeside(op'.saved.plan, op'.saved.override, Slot(now))
    BY <1>4, <1>5, <2>1 DEF ThemeBeside
  <2>3. SavedFits'
    BY <1>1, <1>4, <1>6, <1>8, <2>2 DEF SavedFits, PlanFits, ThemeBeside
  <2> QED
    BY <1>1, <1>4, <2>3 DEF Fitting, Fit, PlanFits, ThemeBeside, UnderToday, Capture
<1> QED
  BY <1>7, <1>8

LEMMA FittingChooseFails ==
  ASSUME Typed, Fitting, ChooseFails
  PROVE  Fitting'
<1>1. /\ op \in Ops /\ op.at \in Instants /\ op.pc \in Working /\ Redraw \in BOOLEAN
      /\ db \in Stores /\ odd' = odd /\ last' = last /\ Fit(db)
  BY Underway, TypeParts DEF ChooseFails, Working, Redraw, Typed, Fitting
<1>2. db' \in Interrupted(op.at, Redraw)
  BY DEF ChooseFails, Interrupted
<1>3. Fit(db') /\ db'.override[Date(op.at)].theme = db.override[Date(op.at)].theme
  BY <1>1, <1>2, InterruptedFits
<1>4. Fit(db)'
  BY <1>1, <1>3 DEF Fit, PlanFits, ThemeBeside
<1>5. op'.pc = "undo" /\ op'.saved = op.saved /\ op'.at = op.at
  BY <1>1 DEF ChooseFails, Ops
<1>6. SavedFits'
  BY <1>1, <1>3, <1>5 DEF Fitting, SavedFits, PlanFits, ThemeBeside
<1>7. UnderToday(last.verdict = "playing", last.under, last.at)'
  BY <1>1 DEF Fitting, UnderToday
<1> QED
  BY <1>4, <1>5, <1>6, <1>7 DEF Fitting, UnderToday

LEMMA FittingSucceed ==
  ASSUME NEW loop, NEW under, NEW p, Succeed(loop, under, p), UnderToday(TRUE, under, op.at),
         Fit(db'), odd' = odd
  PROVE  Fitting'
<1>1. op'.pc = "idle" /\ last'.under = under /\ last'.at = op.at
  BY DEF Succeed, Idle
<1>2. Fit(db)'
  BY DEF Fit, PlanFits, ThemeBeside
<1> QED
  BY <1>1, <1>2 DEF Fitting, SavedFits, UnderToday, Working

LEMMA FittingChoose ==
  ASSUME Typed, Fitting, ChooseLoop
  PROVE  Fitting'
<1>1. /\ op \in Ops /\ op.at \in Instants /\ op.pc \in Working /\ Redraw \in BOOLEAN
      /\ db \in Stores /\ snapshot \subseteq Loops /\ odd' = odd /\ Fit(db)
  BY Underway, TypeParts DEF ChooseLoop, Working, Redraw, Typed, Fitting
<1>2. PICK ok \in BOOLEAN : \E c \in Chosen(op.at, Redraw, ok) : Choice(c, ok)
  BY ChooseCase
<1>3. PICK c \in Chosen(op.at, Redraw, ok) : Choice(c, ok)
  BY <1>2
<1>4. /\ Fit(db') /\ UnderToday(TRUE, c.under, op.at)
      /\ db'.override[Date(op.at)].theme = db.override[Date(op.at)].theme
  BY <1>1, <1>3, ChosenFits DEF Choice
<1>5. CASE NeedsPlay(c.loop)
  <2>1. /\ op'.pc = "play" /\ op'.under = c.under /\ op'.saved = op.saved /\ op'.at = op.at
        /\ last' = last
    BY <1>1, <1>3, <1>5 DEF Choice, Ops
  <2>2. Fit(db)'
    BY <1>1, <1>4 DEF Fit, PlanFits, ThemeBeside
  <2>3. SavedFits'
    BY <1>1, <1>4, <2>1 DEF Fitting, SavedFits, PlanFits, ThemeBeside
  <2>4. /\ UnderToday(last.verdict = "playing", last.under, last.at)'
        /\ UnderToday(op.pc = "play", op.under, op.at)'
    BY <1>1, <1>4, <2>1 DEF Fitting, UnderToday
  <2> QED
    BY <2>2, <2>3, <2>4 DEF Fitting
<1>6. CASE ~ NeedsPlay(c.loop)
  <2>1. Succeed(c.loop, c.under, Left(ok))
    BY <1>3, <1>6 DEF Choice
  <2> QED
    BY <1>1, <1>4, <2>1, FittingSucceed
<1> QED
  BY <1>5, <1>6

LEMMA FittingPlay ==
  ASSUME Fitting, Play
  PROVE  Fitting'
<1>1. Succeed(op.pick, op.under, promise) /\ UnderToday(TRUE, op.under, op.at)
  BY DEF Fitting, Play, UnderToday
<1>2. Fit(db') /\ odd' = odd
  BY DEF Play, Fitting
<1> QED
  BY <1>1, <1>2, FittingSucceed

LEMMA FittingUndo ==
  ASSUME Typed, Fitting, Undo
  PROVE  Fitting'
<1>1. /\ op \in Ops /\ op.at \in Instants /\ op.pc \in Working /\ odd \subseteq odd'
      /\ last'.verdict = "none"
  BY Underway DEF Undo, Working, NoVerdict
<1>2. op'.pc \in {"idle", "close"}
  BY <1>1, Blank DEF Undo, Leave, Ops
<1>3. CASE db' = db
  BY <1>1, <1>2, <1>3, FittingKept DEF Working
<1>4. CASE db' = Restored(op)
  <2>1. SavedFits /\ Fit(db)
    BY DEF Fitting
  <2>2. ASSUME NEW s \in Slots
        PROVE  /\ PlanFits(Restored(op).plan[s], s)
               /\ ThemeBeside(Restored(op).plan[s], Restored(op).override[s.date], s)
    <3>1. PlanFits(db.plan[s], s) /\ ThemeBeside(db.plan[s], db.override[s.date], s)
      BY <2>1 DEF Fit
    <3>2. /\ Restored(op).plan[s] = IF s = Slot(op.at) THEN op.saved.plan ELSE db.plan[s]
          /\ Restored(op).override[s.date] =
               IF s.date = Date(op.at) THEN op.saved.override ELSE db.override[s.date]
      BY <1>1, RestoredStore, SlotsKnown
    <3>3. CASE s = Slot(op.at)
      <4>1. PlanFits(op.saved.plan, s)
            /\ ThemeBeside(op.saved.plan,
                           IF Early(op.at) THEN NoOverride ELSE op.saved.override, s)
        BY <1>1, <2>1, <3>3 DEF SavedFits
      <4>2. CASE Early(op.at)
        BY <3>2, <3>3, <4>1, <4>2 DEF ThemeBeside, NoOverride
      <4>3. CASE ~ Early(op.at)
        <5>1. s.date = Date(op.at)
          BY <1>1, <3>3, <4>3, EarlySlot, InstantsKnown
        <5> QED
          BY <3>2, <3>3, <4>1, <4>3, <5>1
      <4> QED
        BY <4>2, <4>3
    <3>4. CASE s # Slot(op.at)
      <4>1. Restored(op).override[s.date].theme = db.override[s.date].theme
        BY <1>1, <2>1, <3>2 DEF SavedFits
      <4> QED
        BY <3>1, <3>2, <3>4, <4>1 DEF ThemeBeside
    <3> QED
      BY <3>3, <3>4
  <2>3. Fit(db')
    BY <1>4, <2>2 DEF Fit
  <2>4. Fit(db)'
    BY <1>1, <2>3 DEF Fit, PlanFits, ThemeBeside
  <2> QED
    BY <1>1, <1>2, <2>4 DEF Fitting, SavedFits, UnderToday, Working
<1> QED
  BY <1>3, <1>4 DEF Undo

LEMMA FittingStep == Typed /\ Fitting /\ [Next]_vars => Fitting'
<1> SUFFICES ASSUME Typed, Fitting, [Next]_vars
             PROVE  Fitting'
  OBVIOUS
<1>1. CASE UNCHANGED vars
  <2>1. db' = db /\ op' = op /\ odd' = odd /\ last' = last
    BY <1>1 DEF vars
  <2> QED
    BY <2>1 DEF Fitting, Fit, SavedFits, UnderToday, PlanFits, ThemeBeside
<1>2. CASE Next
  BY <1>2, FittingBegin, FittingAround, FittingWork, FittingCommands, FittingTorn, FittingPreview,
     FittingCapture, FittingChooseFails, FittingChoose, FittingPlay, FittingUndo,
     FittingRestart DEF Next
<1> QED
  BY <1>1, <1>2

LEMMA FittingInit == Init => Fitting
<1> SUFFICES ASSUME Init
             PROVE  Fitting
  OBVIOUS
<1>1. \A s \in Slots : db.plan[s] = Nothing
  BY DEF Init
<1>2. Fit(db)
  BY <1>1 DEF Fit, PlanFits, ThemeBeside
<1>3. op.pc = "idle" /\ last.verdict = "none"
  BY Blank DEF Init, NoVerdict
<1> QED
  BY <1>2, <1>3 DEF Fitting, SavedFits, UnderToday, Working

\* No loop is played that was selected by an earlier day's override, or drawn
\* under an earlier day's theme (a half-stored theme command is excepted).
THEOREM NothingOutlivesItsDay == Spec => []OverridesExpire
<1>1. Typed /\ Fitting => OverridesExpire
  BY DEF Typed, Fitting, UnderToday, OverridesExpire
<1> QED
  BY <1>1, TypedInit, TypedStep, FittingInit, FittingStep, PTL DEF Spec

-----------------------------------------------------------------------------
(* A failed activation keeps the selection                                  *)

\* What the operation set out with, and what has been found unfit since.
Aim ==
  op.pc \in Working =>
    /\ op.saved.override.theme = op.start.override.theme
    /\ op.saved.override.direct # op.start.override.direct =>
         op.saved.override.direct = Nothing /\ op.start.override.direct \notin op.usable
    /\ op.saved.plan # op.start.plan =>
         \/ op.start.plan = Nothing
         \/ op.start.plan.loop \notin op.usable
         \/ op.over
    /\ op.usable \cap quarantine \subseteq op.unhealthy \cup op.tentative
    /\ op.usable \subseteq snapshot /\ snapshot \ op.usable \subseteq quarantine
    /\ op.tentative \subseteq op.usable
    /\ op.tentative # {} => op.asked
Aiming == Aim /\ (op.pc = "play" => op.pick \in Usable)

\* Outside an activation, there is nothing to go back to.
LEMMA AimingElsewhere ==
  ASSUME Typed,
         \/ \E theme \in Themes : SetTheme(theme)
         \/ ClearTheme
         \/ \E loop \in Loops : SelectLoop(loop)
         \/ SkipLoop
         \/ \E theme \in Themes \cup {Nothing} : ThemeTorn(theme)
         \/ PreviewLoop
         \/ EnsureLibraryPlayback
         \/ RepairLoop
         \/ CaptureRefused
         \/ Play
         \/ Undo
         \/ LeaveOn
         \/ StopExpired
         \/ PublishScan
         \/ \E loop \in Loops : ReplaceFile(loop)
         \/ GoDark
         \/ Tick
         \/ Restart
  PROVE  op'.pc \in {"idle", "capture", "close"}
<1>1. op \in Ops /\ now \in Instants
  BY TypeParts DEF Typed
<1>2. ASSUME NEW o, NEW p, Command(o, p)
      PROVE  op'.pc = "capture"
  BY <1>2, BeginTyped DEF Command
<1>3. CASE \/ \E theme \in Themes : SetTheme(theme)
           \/ ClearTheme
           \/ \E loop \in Loops : SelectLoop(loop)
           \/ SkipLoop
  BY <1>2, <1>3 DEF SetTheme, ClearTheme, SelectLoop, SkipLoop
<1>4. CASE EnsureLibraryPlayback \/ RepairLoop
  BY <1>4, BeginTyped DEF EnsureLibraryPlayback, RepairLoop
<1>5. CASE \/ \E theme \in Themes \cup {Nothing} : ThemeTorn(theme)
           \/ PreviewLoop \/ PublishScan \/ GoDark
           \/ \E loop \in Loops : ReplaceFile(loop)
  BY <1>5, Blank DEF ThemeTorn, PreviewLoop, PublishScan, GoDark, ReplaceFile
<1>6. CASE Tick
  BY <1>6 DEF Tick
<1>7. CASE Play \/ LeaveOn \/ StopExpired \/ Restart
  BY <1>7, Blank DEF Play, Succeed, LeaveOn, StopExpired, Restart
<1>8. CASE CaptureRefused
  <2>1. [op EXCEPT !.at = now] \in Ops
    BY <1>1 DEF Ops
  <2> QED
    BY <1>8, <2>1, Blank DEF CaptureRefused, Leave, Ops
<1>9. CASE Undo
  BY <1>1, <1>9, Blank DEF Undo, Leave, Ops
<1> QED
  BY <1>3, <1>4, <1>5, <1>6, <1>7, <1>8, <1>9

LEMMA AimingCapture ==
  ASSUME Typed, Fitting, Aiming, Capture
  PROVE  Aiming'
<1>1. now \in Instants /\ db \in Stores /\ op \in Ops
  BY TypeParts DEF Typed
<1>2. /\ Date(now) \in Dates /\ Slot(now) \in Slots /\ Slot(now).period = PeriodAt(now)
  BY <1>1, InstantsKnown
<1> DEFINE c == db.override[Date(now)]
           p == db.plan[Slot(now)]
<1>3. c \in Override
  BY <1>1, <1>2 DEF Stores
<1>4. /\ op'.pc = "choose" /\ op'.usable = Usable /\ op'.over = NightIsOver(now)
      /\ op'.start.override = c /\ op'.start.plan = p
      /\ op'.saved.override = IF c.direct \in Usable THEN c ELSE [c EXCEPT !.direct = Nothing]
      /\ op'.saved.plan = IF PlanKept(p) THEN p ELSE Nothing
      /\ op'.tentative = op.tentative /\ op'.asked = op.asked /\ op'.unhealthy = op.unhealthy
  BY <1>1 DEF Capture, Ops
<1>5. op.tentative = {}
  BY DEF Typed, Steps, Capture
<1>6. /\ op'.saved.override.theme = c.theme
      /\ op'.saved.override.direct # c.direct =>
           op'.saved.override.direct = Nothing /\ c.direct \notin Usable
  BY <1>3, <1>4 DEF Override
<1>7. p # Nothing => p.loop.period = PeriodAt(now)
  BY <1>2 DEF Fitting, Fit, PlanFits
<1>8. op'.saved.plan # p => p = Nothing \/ p.loop \notin Usable \/ NightIsOver(now)
  BY <1>4, <1>7 DEF PlanKept, PlanUsable
<1>9. snapshot' = snapshot /\ quarantine' = quarantine
  BY DEF Capture
<1> HIDE DEF c, p
<1>10. Aim'
  BY <1>4, <1>5, <1>6, <1>8, <1>9 DEF Aim, Usable
<1> QED
  BY <1>4, <1>10 DEF Aiming

\* An activation keeps its aim when what is newly quarantined is accounted for.
LEMMA AimKept ==
  ASSUME Aim, op.pc \in Working, SameAim, snapshot' = snapshot,
         quarantine \subseteq quarantine',
         quarantine' \subseteq quarantine \cup op'.unhealthy \cup op'.tentative,
         op.unhealthy \subseteq op'.unhealthy, op.tentative \subseteq op'.tentative,
         op'.tentative \subseteq op.usable,
         op'.tentative # {} => op'.asked
  PROVE  Aim'
  BY DEF Aim, SameAim

LEMMA AimingChoose ==
  ASSUME Typed, Aiming, ChooseLoop \/ ChooseFails
  PROVE  Aiming'
<1>1. /\ op \in Ops /\ op.at \in Instants /\ op.pc \in Working /\ Redraw \in BOOLEAN
      /\ db \in Stores /\ snapshot \subseteq Loops
      /\ snapshot' = snapshot /\ quarantine' = quarantine
  BY Underway, TypeParts DEF ChooseLoop, ChooseFails, Working, Redraw, Typed
<1>2. CASE ChooseFails
  <2>1. /\ SameAim /\ op'.pc = "undo" /\ op'.unhealthy = op.unhealthy
        /\ op'.tentative = op.tentative /\ op'.asked = op.asked
    BY <1>1, <1>2 DEF ChooseFails, SameAim, Ops
  <2> QED
    BY <1>1, <2>1, AimKept DEF Aiming, Aim
<1>3. CASE ChooseLoop
  <2>1. PICK ok \in BOOLEAN : \E c \in Chosen(op.at, Redraw, ok) : Choice(c, ok)
    BY <1>3, ChooseCase
  <2>2. PICK c \in Chosen(op.at, Redraw, ok) : Choice(c, ok)
    BY <2>1
  <2>3. CASE NeedsPlay(c.loop)
    <3>1. op' = [op EXCEPT !.pc = "play", !.pick = c.loop, !.under = c.under]
      BY <2>2, <2>3 DEF Choice
    <3>2. /\ SameAim /\ op'.pick = c.loop /\ op'.unhealthy = op.unhealthy
          /\ op'.tentative = op.tentative /\ op'.asked = op.asked
      BY <1>1, <3>1 DEF SameAim, Ops
    <3>3. c.loop \in Usable
      BY <1>1, ChosenStore
    <3>4. Aim'
      BY <1>1, <3>2, AimKept DEF Aiming, Aim
    <3> QED
      BY <1>1, <3>2, <3>3, <3>4 DEF Aiming, Usable
  <2>4. CASE ~ NeedsPlay(c.loop)
    <3>1. op'.pc = "idle"
      BY <2>2, <2>4, Blank DEF Choice, Succeed
    <3> QED
      BY <3>1 DEF Aiming, Aim, Working
  <2> QED
    BY <2>3, <2>4
<1> QED
  BY <1>2, <1>3

LEMMA UnhealthyCase ==
  ASSUME Typed, FoundUnhealthy
  PROVE  /\ SameAim /\ op'.pc \in {"choose", "undo"}
         /\ op'.unhealthy = op.unhealthy \cup {op.pick}
         /\ op'.tentative = op.tentative /\ op'.asked = op.asked
<1>1. op \in Ops /\ op.pick \in Loops
  BY Trying DEF FoundUnhealthy
<1> DEFINE o == [op EXCEPT !.unhealthy = @ \cup {op.pick}]
<1>2. /\ o \in Ops /\ o.at = op.at /\ o.redraw = op.redraw /\ o.start = op.start
      /\ o.saved = op.saved /\ o.usable = op.usable /\ o.over = op.over
      /\ o.unhealthy = op.unhealthy \cup {op.pick}
      /\ o.tentative = op.tentative /\ o.asked = op.asked
  BY <1>1 DEF Ops
<1>3. NextCandidate(o)
  BY DEF FoundUnhealthy
<1> HIDE DEF o
<1>4. /\ op'.pc \in {"choose", "undo"} /\ op'.at = o.at /\ op'.redraw = o.redraw
      /\ op'.start = o.start /\ op'.saved = o.saved /\ op'.usable = o.usable
      /\ op'.over = o.over /\ op'.unhealthy = o.unhealthy
      /\ op'.tentative = o.tentative /\ op'.asked = o.asked
  BY <1>2, <1>3 DEF NextCandidate, Ops
<1> QED
  BY <1>2, <1>4 DEF SameAim

LEMMA AimingPlay ==
  ASSUME Typed, Aiming, FoundUnhealthy \/ PlayCut \/ PlayRejected
  PROVE  Aiming'
<1>1. op \in Ops /\ op.pc = "play" /\ op.pick \in Usable /\ snapshot' = snapshot
  BY TypeParts DEF FoundUnhealthy, PlayCut, PlayRejected, Typed, Aiming
<1>2. /\ Aim /\ op.pc \in Working /\ op.pick \in op.usable
      /\ op.tentative \subseteq op.usable /\ (op.tentative # {} => op.asked)
  BY <1>1 DEF Aiming, Aim, Working, Usable
<1>3. CASE FoundUnhealthy
  <2>1. quarantine' = quarantine \cup {op.pick}
    BY <1>3 DEF FoundUnhealthy
  <2>2. Aim' /\ op'.pc # "play"
    BY <1>1, <1>2, <1>3, <2>1, UnhealthyCase, AimKept
  <2> QED
    BY <2>2 DEF Aiming
<1>4. CASE PlayCut
  <2>1. /\ SameAim /\ op'.pc = "undo" /\ op'.unhealthy = op.unhealthy /\ op'.asked
        /\ op'.tentative = op.tentative /\ quarantine' = quarantine
    BY <1>1, <1>4 DEF PlayCut, SameAim, Ops
  <2>2. Aim'
    BY <1>1, <1>2, <2>1, AimKept
  <2> QED
    BY <2>1, <2>2 DEF Aiming
<1>5. CASE PlayRejected
  <2>1. /\ SameAim /\ op'.pc # "play" /\ op'.asked /\ op'.unhealthy = op.unhealthy
        /\ Blamed(op.pick) \/ Spared(op.pick)
    BY <1>5, RejectedCase
  <2>2. /\ quarantine \subseteq quarantine' /\ op.tentative \subseteq op'.tentative
        /\ quarantine' \subseteq quarantine \cup op'.tentative
        /\ op'.tentative \subseteq op.usable
    BY <1>2, <2>1 DEF Blamed, Spared
  <2>3. Aim'
    BY <1>1, <1>2, <2>1, <2>2, AimKept
  <2> QED
    BY <2>1, <2>3 DEF Aiming
<1> QED
  BY <1>3, <1>4, <1>5

LEMMA AimingStep == Typed /\ Fitting /\ Aiming /\ [Next]_vars => Aiming'
<1> SUFFICES ASSUME Typed, Fitting, Aiming, [Next]_vars
             PROVE  Aiming'
  OBVIOUS
<1>1. CASE UNCHANGED vars
  BY <1>1 DEF vars, Aiming, Aim, Usable
<1>2. CASE Next
  <2>1. CASE op'.pc \in {"idle", "capture", "close"}
    BY <2>1 DEF Aiming, Aim, Working
  <2> QED
    BY <1>2, <2>1, AimingElsewhere, AimingCapture, AimingChoose, AimingPlay DEF Next
<1> QED
  BY <1>1, <1>2

LEMMA AimingInit == Init => Aiming
  BY Blank DEF Init, Aiming, Aim, Working

LEMMA UndoKeeps ==
  ASSUME Typed, Aiming, [Next]_vars, UndoneAfterOBSFailure, op.left > 0
  PROVE  SelectionKept
<1>1. op.pc = "undo" /\ op'.pc # "undo" /\ op.asked /\ moves' = moves /\ moves \in Int
  BY TypeParts DEF UndoneAfterOBSFailure, Typed
<1>2. ~ Move
  BY <1>1 DEF Move
<1>3. Undo
  <2>1. ~ (UNCHANGED vars)
    BY <1>1 DEF vars
  <2>2. op # Idle /\ op.pc \notin {"idle", "capture", "choose", "play", "close"}
    BY <1>1, Blank
  <2> QED
    BY <1>2, <2>1, <2>2
    DEF Next, EnsureLibraryPlayback, SetTheme, ClearTheme, SelectLoop, SkipLoop, Command, ThemeTorn,
        PreviewLoop, RepairLoop, Capture, CaptureRefused, ChooseLoop, ChooseFails, FoundUnhealthy,
        PlayCut, Play, PlayRejected, LeaveOn, StopExpired, PublishScan, ReplaceFile, GoDark, Tick,
        Restart
<1>4. db' = Restored(op) /\ quarantine' = quarantine \ op.tentative
  <2>1. op.left # 0
    OBVIOUS
  <2> QED
    BY <1>1, <1>2, <1>3, <2>1 DEF Undo, Withdrawn
<1>5. op.at \in Instants /\ op.pc \in Working
  BY <1>1, Underway DEF Working
<1>6. /\ db'.override[Date(op.at)] = op.saved.override
      /\ db'.plan[Slot(op.at)] = op.saved.plan
  BY <1>4, <1>5, RestoredStore, InstantsKnown
<1> QED
  BY <1>4, <1>5, <1>6 DEF Aiming, Aim, SelectionKept

\* An activation that OBS made fail restores the override and the plan it began
\* with and withdraws its tentative quarantines, while the state store works and
\* something of the fail-closed budget is left.
THEOREM FailureKeepsSelection == Spec => SelectionSurvives
<1>1. Typed /\ Aiming /\ [Next]_vars =>
        [UndoneAfterOBSFailure /\ op.left > 0 => SelectionKept]_vars
  BY UndoKeeps
<1> QED
  BY <1>1, TypedInit, TypedStep, FittingInit, FittingStep, AimingInit, AimingStep, PTL
  DEF Spec, SelectionSurvives

-----------------------------------------------------------------------------
(* Promises stand                                                           *)

\* Under the overrides of a date, x is what the store d lets be chosen for the
\* slot s among the loops U.
ChoiceBy(d, U, date, s, x) ==
  LET o == d.override[date]
      p == d.plan[s]
  IN  IF o.direct \in U THEN o.direct = x
      ELSE /\ p # Nothing /\ p.loop = x
           /\ \/ o.theme \in {Nothing, x.theme}
              \/ ~ \E l \in U : l.period = s.period /\ l.theme = o.theme

\* So it is, seen from t, for a slot that is still to come or has not seen
\* midnight, and for the night after midnight, unless the night is over.
HoldsFor(x, s, t, d, U) ==
  /\ s.date >= Date(t) => ChoiceBy(d, U, s.date, s, x)
  /\ s = Slot(t) /\ Early(t) /\ d.override[PlanDate(t)] = NoOverride =>
       ChoiceBy(d, U, Date(t), s, x)

Stands(pr, t, d, U) == \A s \in Slots : pr[s] \in U => HoldsFor(pr[s], s, t, d, U)

\* No override has been given for a day to come.
Ahead == \A d \in Dates : d > Date(now) => db.override[d] = NoOverride

\* What has been on since before this period is not kept on in it by mistake.
ActiveKept ==
  active # Nothing =>
    /\ active.ends <= PeriodEnd(now)
    /\ active.ends = PeriodEnd(now) => promise[Slot(now)] \in {Nothing, active.loop}

PickStands ==
  /\ ChoiceBy(db, Usable, Date(op.at), Slot(op.at), op.pick)
  /\ promise[Slot(op.at)] \in Usable => promise[Slot(op.at)] = op.pick

\* Nothing has happened that promises may not outlive.
Tame == odd \cap {"setback", "lost", "cut"} = {}

Promised ==
  /\ op.redraw => \A s \in Slots : promise[s] = Nothing
  /\ Tame =>
       /\ Stands(promise, now, db, Usable)
       /\ op.pc \in Working => Stands(promise, now, Restored(op), op.usable)
       /\ Ahead
       /\ ActiveKept
       /\ op.pc = "play" => PickStands

\* Promises are kept or withdrawn, and fewer loops can be used.
LEMMA StandsWithLess ==
  ASSUME NEW pr, NEW qr, NEW t, NEW d, NEW U, NEW V,
         Stands(pr, t, d, U), V \subseteq U, Nothing \notin V,
         \A s \in Slots : qr[s] \in {pr[s], Nothing}
  PROVE  Stands(qr, t, d, V)
<1> SUFFICES ASSUME NEW s \in Slots, qr[s] \in V
             PROVE  HoldsFor(qr[s], s, t, d, V)
  BY DEF Stands
<1>1. qr[s] = pr[s] /\ pr[s] \in U
  OBVIOUS
<1>2. HoldsFor(pr[s], s, t, d, U)
  BY <1>1 DEF Stands
<1>3. ASSUME NEW date, ChoiceBy(d, U, date, s, pr[s])
      PROVE  ChoiceBy(d, V, date, s, pr[s])
  BY <1>1, <1>3 DEF ChoiceBy
<1> QED
  BY <1>1, <1>2, <1>3 DEF HoldsFor

\* Nothing is promised.
LEMMA StandsEmpty ==
  ASSUME NEW pr, NEW t, NEW d, NEW U, Nothing \notin U, \A s \in Slots : pr[s] = Nothing
  PROVE  Stands(pr, t, d, U)
  BY DEF Stands

\* What is chosen is the choice by the store that it leaves behind.
LEMMA ChosenHolds ==
  ASSUME db \in Stores, snapshot \subseteq Loops, NEW t \in Instants,
         NEW redraw \in BOOLEAN, NEW ok \in BOOLEAN, NEW c \in Chosen(t, redraw, ok)
  PROVE  ChoiceBy(c.db, Usable, Date(t), Slot(t), c.loop)
<1>1. /\ TidiedFrom(Expired(t), c.db, t) /\ Expired(t) \in Stores /\ c.loop \in Usable
      /\ Nothing \notin Usable
  BY ChosenStore, ExpiredStore, NothingAssumption DEF Usable
<1>2. Slot(t).period = PeriodAt(t)
  BY InstantsKnown
<1> DEFINE o == Expired(t).override[Date(t)]
           p == Expired(t).plan[Slot(t)]
<1>3. CASE Selected(c, t)
  BY <1>3 DEF Selected, ChoiceBy
<1>4. ASSUME ~ Selected(c, t), o.direct \notin Usable
      PROVE  /\ c.db.override[Date(t)].direct \notin Usable
             /\ c.db.override[Date(t)].theme = o.theme
  BY <1>1, <1>4 DEF TidiedFrom
<1>5. CASE Kept(c, t, redraw, ok)
  <2>1. o.direct \notin Usable /\ ~ Selected(c, t)
    BY <1>5 DEF Kept, Selected
  <2>2. p # Nothing /\ c.loop = p.loop /\ CanReusePeriodPlan(p.loop, o.theme, t)
        /\ p.loop \in Usable
    BY <1>5 DEF Kept, Reused
  <2>3. c.db.plan[Slot(t)] = p
    <3>1. c.db = Tidied(t, redraw, ok) /\ ~ redraw
      BY <1>5 DEF Kept, Reused
    <3>2. Tidied(t, redraw, ok) \in {Expired(t), DirectTidied(t)}
      BY <2>2, <3>1 DEF Tidied
    <3> QED
      BY <3>1, <3>2, TidiedStore
  <2> QED
    BY <1>2, <1>4, <2>1, <2>2, <2>3 DEF ChoiceBy, CanReusePeriodPlan
<1>6. CASE Drew(c, t, redraw, ok)
  <2>1. o.direct \notin Usable /\ ~ Selected(c, t)
    BY <1>6 DEF Drew, Selected
  <2>2. c.db.plan[Slot(t)] = [loop |-> c.loop, under |-> c.under] /\ c.db \in Stores
    BY <1>1, <1>6, ChosenStore DEF TidiedFrom
  <2>3. c.db.plan[Slot(t)] # Nothing
    <3>1. [loop |-> c.loop, under |-> c.under] \in Plan
      BY ChosenStore DEF Plan
    <3> QED
      BY <2>2, <3>1, NothingAssumption
  <2>4. c.loop \in Candidates(o.theme, t)
    BY <1>6 DEF Drew
  <2>5. \/ c.loop.theme = o.theme
        \/ ~ \E l \in Usable : l.period = PeriodAt(t) /\ l.theme = o.theme
    BY <2>4 DEF Candidates
  <2> QED
    BY <1>2, <1>4, <2>1, <2>2, <2>3, <2>5 DEF ChoiceBy
<1> QED
  BY <1>3, <1>5, <1>6, ChosenCases

\* And it is the only one that the store left room for.
LEMMA ChosenAgain ==
  ASSUME NEW t \in Instants, NEW ok \in BOOLEAN, NEW x \in Usable,
         ChoiceBy(Expired(t), Usable, Date(t), Slot(t), x)
  PROVE  /\ \A c \in Chosen(t, FALSE, ok) : c.loop = x
         /\ Chosen(t, FALSE, ok) # {}
<1> DEFINE o == Expired(t).override[Date(t)]
           p == Expired(t).plan[Slot(t)]
<1>1. Slot(t).period = PeriodAt(t)
  BY InstantsKnown
<1>2. CASE o.direct \in Usable
  <2>1. o.direct = x
    BY <1>2 DEF ChoiceBy
  <2> DEFINE a == [loop |-> o.direct, under |-> Date(t), db |-> Expired(t)]
  <2>2. Chosen(t, FALSE, ok) = {a}
    BY <1>2 DEF Chosen
  <2>3. a.loop = x
    BY <2>1
  <2> HIDE DEF a
  <2> QED
    BY <2>2, <2>3
<1>3. CASE o.direct \notin Usable
  <2>1. /\ p # Nothing /\ p.loop = x
        /\ \/ o.theme \in {Nothing, x.theme}
           \/ ~ \E l \in Usable : l.period = PeriodAt(t) /\ l.theme = o.theme
    BY <1>1, <1>3 DEF ChoiceBy
  <2>2. Reused(t, FALSE)
    BY <2>1 DEF Reused, CanReusePeriodPlan
  <2> DEFINE a == [loop |-> p.loop, under |-> p.under, db |-> Tidied(t, FALSE, ok)]
  <2>3. Chosen(t, FALSE, ok) = {a}
    BY <1>3, <2>2 DEF Chosen
  <2>4. a.loop = x
    BY <2>1
  <2> HIDE DEF a
  <2> QED
    BY <2>3, <2>4
<1> QED
  BY <1>2, <1>3

\* The other slots do not notice.
LEMMA ChoiceElsewhere ==
  ASSUME db \in Stores, snapshot \subseteq Loops, NEW t \in Instants, NEW x, NEW e,
         TidiedFrom(Expired(t), e, t),
         NEW s \in Slots, s # Slot(t), NEW date \in Dates,
         ~ (NightIsOver(t) /\ date = PlanDate(t)),
         ChoiceBy(db, Usable, date, s, x)
  PROVE  ChoiceBy(e, Usable, date, s, x)
<1>1. Nothing \notin Usable
  BY NothingAssumption DEF Usable
<1>2. Expired(t).override[date] = db.override[date] /\ Expired(t).plan[s] = db.plan[s]
  BY ExpiredStore
<1>3. e.plan[s] = db.plan[s] /\ e.override[date].theme = db.override[date].theme
  BY <1>2 DEF TidiedFrom
<1>4. \/ e.override[date].direct = db.override[date].direct
      \/ e.override[date].direct = Nothing /\ db.override[date].direct \notin Usable
  BY <1>2 DEF TidiedFrom
<1> QED
  BY <1>1, <1>3, <1>4 DEF ChoiceBy

\* A choice is made for the present, and the promises made for other slots are
\* kept or withdrawn.
LEMMA StandsAfterChoice ==
  ASSUME Typed, Stands(promise, now, db, Usable), NEW e, TidiedFrom(Expired(now), e, now),
         NEW pr, \A s \in Slots \ {Slot(now)} : pr[s] \in {promise[s], Nothing},
         pr[Slot(now)] \in Usable => ChoiceBy(e, Usable, Date(now), Slot(now), pr[Slot(now)])
  PROVE  Stands(pr, now, e, Usable)
<1>1. /\ now \in Instants /\ db \in Stores /\ snapshot \subseteq Loops /\ Nothing \notin Usable
  BY TypeParts, NothingAssumption DEF Typed, Usable
<1>2. Slot(now) \in Slots /\ Slot(now).date = PlanDate(now)
  BY <1>1, InstantsKnown
<1> SUFFICES ASSUME NEW s \in Slots, pr[s] \in Usable
             PROVE  HoldsFor(pr[s], s, now, e, Usable)
  BY DEF Stands
<1>3. CASE s = Slot(now)
  <2>1. s.date >= Date(now) => s.date = Date(now)
    BY <1>1, <1>2, <1>3, EarlySlot
  <2> QED
    BY <1>3, <2>1 DEF HoldsFor
<1>4. CASE s # Slot(now)
  <2>1. pr[s] = promise[s] /\ promise[s] \in Usable
    BY <1>1, <1>4
  <2>2. HoldsFor(promise[s], s, now, db, Usable)
    BY <2>1 DEF Stands
  <2>3. s.date >= Date(now) => ~ (NightIsOver(now) /\ s.date = PlanDate(now))
    BY <1>1, EarlySlot
  <2>4. s.date >= Date(now) => ChoiceBy(e, Usable, s.date, s, promise[s])
    BY <1>1, <1>4, <2>2, <2>3, ChoiceElsewhere, SlotsKnown DEF HoldsFor
  <2> QED
    BY <1>4, <2>1, <2>4 DEF HoldsFor
<1> QED
  BY <1>3, <1>4

\* The selection an activation goes back to is what it was, but for what is over.
LEMMA SavedStandsAfter ==
  ASSUME Typed, op.pc \in Working, op'.at = op.at, op'.saved = op.saved, db' \in Stores,
         Stands(promise, now, Restored(op), op.usable),
         \A d \in Dates \ {Date(now)} :
           db'.override[d] = db.override[d] \/ (NightIsOver(now) /\ d = PlanDate(now)),
         \A s \in Slots \ {Slot(now)} : db'.plan[s] = db.plan[s],
         NEW pr, \A s \in Slots : pr[s] \in {promise[s], Nothing},
         NightIsOver(now) => pr[Slot(now)] = Nothing
  PROVE  Stands(pr, now, Restored(op)', op.usable)
<1>1. /\ op \in Ops /\ op.at = now /\ now \in Instants
  BY Underway
<1>2. /\ op.usable \subseteq Loops /\ op.saved.override \in Override
      /\ op.saved.plan \in Plan \cup {Nothing} /\ Nothing \notin op.usable
  BY <1>1, NothingAssumption DEF Ops, Selection
<1>3. Slot(now) \in Slots /\ Slot(now).date = PlanDate(now) /\ Date(now) \in Dates
      /\ PlanDate(now) \in Dates
  BY <1>1, InstantsKnown
<1> DEFINE r == Restored(op)'
<1>4. /\ \A d \in Dates : r.override[d] = IF d = Date(now) THEN op.saved.override ELSE db'.override[d]
      /\ \A s \in Slots : r.plan[s] = IF s = Slot(now) THEN op.saved.plan ELSE db'.plan[s]
  BY <1>1, <1>2, <1>3 DEF Restored, Stores
<1>5. /\ \A d \in Dates :
           r.override[d] = Restored(op).override[d] \/ (NightIsOver(now) /\ d = PlanDate(now))
      /\ \A s \in Slots : r.plan[s] = Restored(op).plan[s]
  <2>1. /\ \A d \in Dates : Restored(op).override[d] =
              IF d = Date(now) THEN op.saved.override ELSE db.override[d]
        /\ \A s \in Slots : Restored(op).plan[s] =
              IF s = Slot(now) THEN op.saved.plan ELSE db.plan[s]
    BY <1>1, RestoredStore
  <2> HIDE DEF r
  <2> QED
    BY <1>4, <2>1
<1> HIDE DEF r
<1> SUFFICES ASSUME NEW s \in Slots, pr[s] \in op.usable
             PROVE  HoldsFor(pr[s], s, now, r, op.usable)
  BY DEF Stands, r
<1>6. pr[s] = promise[s] /\ ~ (NightIsOver(now) /\ s = Slot(now))
  BY <1>2
<1>7. HoldsFor(pr[s], s, now, Restored(op), op.usable)
  BY <1>6 DEF Stands
<1>8. s.date >= Date(now) => ~ (NightIsOver(now) /\ s.date = PlanDate(now))
  BY <1>1, EarlySlot
<1>9. s.date >= Date(now) => ChoiceBy(r, op.usable, s.date, s, pr[s])
  BY <1>5, <1>7, <1>8, SlotsKnown DEF HoldsFor, ChoiceBy
<1>10. ASSUME s = Slot(now), Early(now), r.override[PlanDate(now)] = NoOverride
       PROVE  ChoiceBy(r, op.usable, Date(now), s, pr[s])
  <2>1. Restored(op).override[PlanDate(now)] = NoOverride
    BY <1>3, <1>5, <1>6, <1>10
  <2>2. ChoiceBy(Restored(op), op.usable, Date(now), s, pr[s])
    BY <1>7, <1>10, <2>1 DEF HoldsFor
  <2> QED
    BY <1>3, <1>5, <1>6, <1>10, <2>2 DEF ChoiceBy
<1> QED
  BY <1>9, <1>10 DEF HoldsFor

\* What is promised for the present is the choice at present.
LEMMA HoldsNow ==
  ASSUME NEW t \in Instants, NEW x, ~ NightIsOver(t), HoldsFor(x, Slot(t), t, db, Usable)
  PROVE  ChoiceBy(Expired(t), Usable, Date(t), Slot(t), x)
<1>1. Expired(t) = db
  BY DEF Expired
<1>2. Slot(t).date = PlanDate(t) /\ Date(t) \in Int
  BY InstantsKnown, SlotsKnown
<1>3. CASE Early(t)
  BY <1>1, <1>3 DEF HoldsFor, NightIsOver
<1>4. CASE ~ Early(t)
  BY <1>1, <1>2, <1>4, EarlySlot DEF HoldsFor
<1> QED
  BY <1>3, <1>4

LEMMA AheadAfterChoice ==
  ASSUME Typed, Ahead, NEW t \in Instants, Date(t) >= Date(now), NEW e, TidiedFrom(Expired(t), e, t),
         Early(t) => t = now
  PROVE  \A d \in Dates : d > Date(now) => e.override[d] = NoOverride
<1> SUFFICES ASSUME NEW d \in Dates, d > Date(now)
             PROVE  e.override[d] = NoOverride
  OBVIOUS
<1>1. db \in Stores /\ now \in Instants /\ d \in Int
  BY TypeParts, SlotsKnown DEF Typed
<1>2. db.override[d] = NoOverride
  BY DEF Ahead
<1>3. Expired(t).override[d] = NoOverride
  BY <1>1, <1>2, ExpiredStore
<1>4. CASE d # Date(t)
  BY <1>3, <1>4 DEF TidiedFrom
<1>5. CASE d = Date(t)
  <2>1. e.override[d].theme = Nothing /\ e.override[d].direct = Nothing /\ e.override[d] \in Override
    BY <1>3, <1>5 DEF TidiedFrom, Stores, NoOverride
  <2> QED
    BY <2>1 DEF Override, NoOverride
<1> QED
  BY <1>4, <1>5

LEMMA LeftPromises ==
  ASSUME Typed, op.at \in Instants, NEW ok
  PROVE  /\ \A s \in Slots : Left(ok)[s] \in {promise[s], Nothing}
         /\ NightIsOver(op.at) \/ ~ ok => Left(ok)[Slot(op.at)] = Nothing
<1>1. promise \in [Slots -> Loops \cup {Nothing}]
  BY TypeParts DEF Typed
<1>2. Slot(op.at) \in Slots /\ Slot(op.at).date = PlanDate(op.at) /\ PlanDate(op.at) \in Int
  BY InstantsKnown, EarlySlot
<1>3. /\ \A s \in Slots : Outlived(op.at)[s] \in {promise[s], Nothing}
      /\ NightIsOver(op.at) => Outlived(op.at)[Slot(op.at)] = Nothing
      /\ Outlived(op.at) \in [Slots -> Loops \cup {Nothing}]
  BY <1>1, <1>2, OutlivedTyped DEF Outlived
<1> QED
  BY <1>2, <1>3 DEF Left, Without

LEMMA NoPromiseYet ==
  ASSUME promise' = NoPromise
  PROVE  \A s \in Slots : promise'[s] = Nothing
  BY DEF NoPromise

LEMMA ActiveEnds ==
  ASSUME Typed
  PROVE  active # Nothing => active.ends \in Nat
  BY TypeParts DEF Typed, Activation

\* The period goes on, with what is on or without.
LEMMA ActiveStays ==
  ASSUME ActiveKept, now' = now, active' \in {active, Nothing},
         promise'[Slot(now)] \in {promise[Slot(now)], Nothing}
  PROVE  ActiveKept'
  BY DEF ActiveKept

LEMMA PromisedCommand ==
  ASSUME Typed, Promised, NEW o, NEW p, Command(o, p)
  PROVE  Promised'
<1>1. /\ op'.pc = "capture" /\ now' = now /\ odd' = odd /\ active' = active
      /\ \A s \in Slots : promise'[s] = Nothing
  BY BeginTyped, NoPromiseYet DEF Command
<1>2. db \in Stores /\ now \in Instants /\ Nothing \notin Usable'
  BY TypeParts, NothingAssumption DEF Typed, Usable, Command
<1>3. Slot(now) \in Slots /\ Date(now) \in Int
  BY <1>2, InstantsKnown, SlotsKnown
<1>4. Stands(promise', now', db', Usable')
  BY <1>1, <1>2, StandsEmpty
<1>5. \A d \in Dates : d # Date(now) => db'.override[d] = db.override[d]
  BY <1>2 DEF Command, Stores
<1>6. Ahead => Ahead'
  <2> SUFFICES ASSUME Ahead, NEW d \in Dates, d > Date(now)
               PROVE  db'.override[d] = NoOverride
    BY <1>1 DEF Ahead
  <2>1. d # Date(now)
    BY <1>3, SlotsKnown
  <2> QED
    BY <1>5, <2>1 DEF Ahead
<1>7. ActiveKept => ActiveKept'
  BY <1>1, <1>3, ActiveStays
<1> QED
  BY <1>1, <1>4, <1>6, <1>7 DEF Promised, Tame, Working

LEMMA PromisedTorn ==
  ASSUME Typed, Promised, NEW theme \in Themes \cup {Nothing}, ThemeTorn(theme)
  PROVE  Promised'
<1>1. /\ op'.pc = "idle" /\ now' = now /\ active' = active
      /\ Tame' => Tame
      /\ \A s \in Slots : promise'[s] = Nothing
  BY Blank, NoPromiseYet DEF ThemeTorn, Tame
<1>2. db \in Stores /\ now \in Instants /\ Nothing \notin Usable'
  BY TypeParts, NothingAssumption DEF Typed, Usable, ThemeTorn
<1>3. Slot(now) \in Slots /\ Date(now) \in Int
  BY <1>2, InstantsKnown, SlotsKnown
<1>4. Stands(promise', now', db', Usable')
  BY <1>1, <1>2, StandsEmpty
<1>5. \A d \in Dates : d # Date(now) => db'.override[d] = db.override[d]
  BY <1>2 DEF ThemeTorn, Stores
<1>6. Ahead => Ahead'
  <2> SUFFICES ASSUME Ahead, NEW d \in Dates, d > Date(now)
               PROVE  db'.override[d] = NoOverride
    BY <1>1 DEF Ahead
  <2>1. d # Date(now)
    BY <1>3, SlotsKnown
  <2> QED
    BY <1>5, <2>1 DEF Ahead
<1>7. ActiveKept => ActiveKept'
  BY <1>1, <1>3, ActiveStays
<1> QED
  BY <1>1, <1>4, <1>6, <1>7 DEF Promised, Working

\* Steps that only withdraw promises and loops, outside an activation.
LEMMA PromisedLess ==
  ASSUME Typed, Promised, op'.pc \notin Working, now' = now, db' = db, odd' = odd,
         active' \in {active, Nothing}, Usable' \subseteq Usable,
         \A s \in Slots : promise'[s] \in {promise[s], Nothing},
         op'.redraw => op.redraw
  PROVE  Promised'
<1>1. Nothing \notin Usable' /\ now \in Instants
  BY TypeParts, NothingAssumption DEF Usable, Typed
<1>2. Slot(now) \in Slots
  BY <1>1, InstantsKnown
<1>3. Stands(promise, now, db, Usable) => Stands(promise', now', db', Usable')
  BY <1>1, StandsWithLess
<1>4. (Ahead => Ahead') /\ (ActiveKept => ActiveKept')
  BY <1>2, ActiveStays DEF Ahead
<1>5. op'.redraw => \A s \in Slots : promise'[s] = Nothing
  BY DEF Promised
<1> QED
  BY <1>3, <1>4, <1>5 DEF Promised, Tame, Working

\* Steps that withdraw every promise, outside an activation.
LEMMA PromisedNothing ==
  ASSUME Typed, Promised, op'.pc \notin Working, now' = now, db' = db, odd' = odd,
         active' \in {active, Nothing}, promise' = NoPromise, Nothing \notin Usable'
  PROVE  Promised'
<1>1. now \in Instants /\ \A s \in Slots : promise'[s] = Nothing
  BY TypeParts, NoPromiseYet DEF Typed
<1>2. Slot(now) \in Slots
  BY <1>1, InstantsKnown
<1>3. Stands(promise', now', db', Usable')
  BY <1>1, StandsEmpty
<1>4. (Ahead => Ahead') /\ (ActiveKept => ActiveKept')
  BY <1>1, <1>2, ActiveStays DEF Ahead
<1> QED
  BY <1>1, <1>3, <1>4 DEF Promised, Tame, Working

LEMMA StandingPromises ==
  ASSUME Typed, promise' = Standing
  PROVE  \A s \in Slots : promise'[s] \in {promise[s], Nothing}
  BY DEF Standing, StillThere

LEMMA PromisedAround ==
  ASSUME Typed, Promised,
         \/ EnsureLibraryPlayback
         \/ RepairLoop
         \/ CaptureRefused
         \/ LeaveOn
         \/ StopExpired
         \/ PublishScan
         \/ \E loop \in Loops : ReplaceFile(loop)
         \/ GoDark
  PROVE  Promised'
<1>1. op'.pc \notin Working
  BY AimingElsewhere DEF Working
<1>2. op \in Ops /\ snapshot \subseteq Loops /\ quarantine \subseteq Loops
      /\ promise \in [Slots -> Loops \cup {Nothing}]
  BY TypeParts DEF Typed
<1>3. Nothing \notin Usable'
  <2>1. Next
    BY DEF Next
  <2>2. TypeOK'
    BY <2>1, TypedStep DEF Typed
  <2> QED
    BY <2>2, TypePartsAfter, NothingAssumption DEF Usable
<1>4. CASE EnsureLibraryPlayback
  <2>1. op'.redraw = FALSE
    BY <1>4, BeginTyped DEF EnsureLibraryPlayback
  <2> QED
    BY <1>1, <1>4, <2>1, PromisedLess DEF EnsureLibraryPlayback, Usable
<1>5. CASE RepairLoop
  <2>1. op'.redraw = FALSE
    BY <1>5, BeginTyped DEF RepairLoop
  <2>2. /\ now' = now /\ db' = db /\ odd' = odd /\ active' \in {active, Nothing}
        /\ promise' = Standing /\ Usable' \subseteq Usable
    BY <1>5 DEF RepairLoop, Usable
  <2> QED
    BY <1>1, <2>1, <2>2, PromisedLess, StandingPromises
<1>6. CASE CaptureRefused
  <2>1. [op EXCEPT !.at = now].redraw = op.redraw /\ [op EXCEPT !.at = now] \in Ops
    BY <1>2, TypeParts DEF Ops, Typed
  <2>2. op'.redraw => op.redraw
    BY <1>6, <2>1 DEF CaptureRefused, Leave, Ops, Idle
  <2> QED
    BY <1>1, <1>6, <2>2, PromisedLess DEF CaptureRefused, Usable
<1>7. CASE LeaveOn \/ StopExpired
  <2>1. op'.redraw = FALSE
    BY <1>7 DEF LeaveOn, StopExpired, Idle
  <2>2. /\ now' = now /\ db' = db /\ odd' = odd /\ active' \in {active, Nothing}
        /\ promise' = promise /\ Usable' = Usable
    BY <1>7 DEF LeaveOn, StopExpired, Usable
  <2> QED
    BY <1>1, <2>1, <2>2, PromisedLess
<1>8. CASE PublishScan
  <2>1. op' = op /\ now' = now /\ db' = db /\ odd' = odd /\ active' = active
    BY <1>8 DEF PublishScan
  <2>2. CASE snapshot' \subseteq snapshot
    <3>1. promise' = Standing
      BY <1>8, <2>2 DEF PublishScan
    <3>2. Usable' \subseteq Usable
      BY <1>8, <2>2 DEF PublishScan, Usable
    <3> QED
      BY <1>1, <2>1, <3>1, <3>2, PromisedLess, StandingPromises
  <2>3. CASE ~ (snapshot' \subseteq snapshot)
    <3>1. promise' = NoPromise
      BY <1>8, <2>3 DEF PublishScan
    <3> QED
      BY <1>1, <1>3, <2>1, <3>1, PromisedNothing
  <2> QED
    BY <2>2, <2>3
<1>9. ASSUME NEW loop \in Loops, ReplaceFile(loop)
      PROVE  Promised'
  <2>1. op' = op /\ now' = now /\ db' = db /\ odd' = odd /\ active' = active /\ promise' = NoPromise
    BY <1>9 DEF ReplaceFile
  <2> QED
    BY <1>1, <1>3, <2>1, PromisedNothing
<1>10. CASE GoDark
  BY <1>1, <1>10, PromisedLess DEF GoDark, Usable
<1> QED
  BY <1>4, <1>5, <1>6, <1>7, <1>8, <1>9, <1>10

\* The clock moves on: what was promised for the night before midnight holds
\* after it, since no override was given ahead for the new day.
LEMMA PromisedTick ==
  ASSUME Typed, Promised, Tick
  PROVE  Promised'
<1>1. /\ op'.pc \notin Working /\ op' = op /\ db' = db /\ active' = active /\ promise' = promise
      /\ Usable' = Usable /\ odd \subseteq odd'
  BY DEF Tick, Working, Usable
<1>2. now \in Instants /\ now' \in Instants /\ now \in Nat /\ now' \in Nat
  BY TypeParts, ClockAssumption DEF Typed, Tick
<1> SUFFICES ASSUME Tame'
             PROVE  Stands(promise, now', db, Usable) /\ Ahead' /\ ActiveKept'
  <2>1. op'.redraw => \A s \in Slots : promise'[s] = Nothing
    BY <1>1 DEF Promised
  <2>2. op'.pc # "play" /\ op'.pc \notin Working
    BY <1>1 DEF Working
  <2>3. Stands(promise, now', db, Usable) => Stands(promise', now', db', Usable')
    BY <1>1
  <2> QED
    BY <2>1, <2>2, <2>3 DEF Promised, Tame
<1>3. now' > now /\ Tame /\ Stands(promise, now, db, Usable) /\ Ahead /\ ActiveKept
  BY <1>1 DEF Tick, Tame, Promised
<1>4. /\ Date(now) \in Int /\ Date(now') \in Int /\ Date(now) <= Date(now')
      /\ Date(now') \in Dates
      /\ PlanDate(now) \in Int /\ PlanDate(now') \in Int
      /\ PeriodEnd(now) \in Nat /\ PeriodEnd(now') \in Nat /\ PeriodEnd(now) <= PeriodEnd(now')
  BY <1>2, <1>3, DayAndHour, Clock, InOrder, InstantsKnown
<1>5. Ahead'
  BY <1>1, <1>3, <1>4, SlotsKnown DEF Ahead
<1>6. ActiveKept'
  <2> SUFFICES ASSUME active # Nothing
               PROVE  /\ active.ends <= PeriodEnd(now')
                      /\ active.ends = PeriodEnd(now') =>
                           promise[Slot(now')] \in {Nothing, active.loop}
    BY <1>1 DEF ActiveKept
  <2>1. active.ends \in Nat /\ active.ends <= PeriodEnd(now)
    BY <1>3, ActiveEnds DEF ActiveKept
  <2>2. active.ends = PeriodEnd(now') => active.ends = PeriodEnd(now) /\ Slot(now) = Slot(now')
    BY <1>2, <1>4, <2>1, SameEnd
  <2> QED
    BY <1>3, <1>4, <2>1, <2>2 DEF ActiveKept
<1>7. Stands(promise, now', db, Usable)
  <2> SUFFICES ASSUME NEW s \in Slots, promise[s] \in Usable
               PROVE  HoldsFor(promise[s], s, now', db, Usable)
    BY DEF Stands
  <2> DEFINE x == promise[s]
  <2>1. HoldsFor(x, s, now, db, Usable) /\ s.date \in Int
    BY <1>3, SlotsKnown DEF Stands
  <2>2. s.date >= Date(now') => ChoiceBy(db, Usable, s.date, s, x)
    BY <1>4, <2>1 DEF HoldsFor
  <2>3. ASSUME s = Slot(now'), Early(now'), db.override[PlanDate(now')] = NoOverride
        PROVE  ChoiceBy(db, Usable, Date(now'), s, x)
    <3>1. s.date = PlanDate(now') /\ PlanDate(now') = Date(now') - 1
      BY <1>2, <2>3, InstantsKnown, EarlySlot
    <3>2. CASE Date(now) < Date(now')
      <4>1. ChoiceBy(db, Usable, s.date, s, x) /\ db.override[s.date] = NoOverride
        BY <1>4, <2>1, <2>3, <3>1, <3>2 DEF HoldsFor
      <4>2. db.override[Date(now')] = NoOverride
        BY <1>3, <1>4, <3>2 DEF Ahead
      <4> QED
        BY <4>1, <4>2 DEF ChoiceBy
    <3>3. CASE Date(now) = Date(now')
      <4>1. Early(now)
        <5>1. /\ now = 24 * Date(now) + Hour(now) /\ now' = 24 * Date(now') + Hour(now')
              /\ Hour(now) \in 0 .. 23 /\ Hour(now') \in 0 .. 23
          BY <1>2, DayAndHour
        <5>2. Hour(now') < 6
          BY <2>3 DEF Early
        <5> QED
          BY <1>2, <1>3, <1>4, <3>3, <5>1, <5>2 DEF Early
      <4>2. Slot(now) = Slot(now') /\ PlanDate(now) = PlanDate(now')
        BY <1>2, <2>3, <3>3, <4>1, Clock DEF Slot
      <4> QED
        BY <2>1, <2>3, <3>3, <4>1, <4>2 DEF HoldsFor
    <3> QED
      BY <1>4, <3>2, <3>3
  <2> QED
    BY <2>2, <2>3 DEF HoldsFor
<1> QED
  BY <1>5, <1>6, <1>7

LEMMA ComingPeriod ==
  ASSUME Typed, PeriodEnd(now) \in Instants
  PROVE  LET t == PeriodEnd(now) IN
         /\ ~ Early(t) /\ Slot(t) # Slot(now) /\ Date(t) >= Date(now)
         /\ Slot(t).date = Date(t) /\ Slot(t) \in Slots
         /\ Expired(t) = db
<1>1. now \in Instants
  BY TypeParts DEF Typed
<1> QED
  BY <1>1, NextPeriod, InstantsKnown, EarlySlot DEF Expired

\* What is previewed is what has been promised for the period already.
LEMMA PreviewAgain ==
  ASSUME Typed, Promised, Tame, PeriodEnd(now) \in Instants,
         NEW c \in Chosen(PeriodEnd(now), FALSE, TRUE),
         promise[Slot(PeriodEnd(now))] \in Usable
  PROVE  c.loop = promise[Slot(PeriodEnd(now))]
<1> DEFINE t == PeriodEnd(now)
           x == promise[Slot(t)]
<1>1. /\ Slot(t) \in Slots /\ Slot(t).date = Date(t) /\ Date(t) >= Date(now) /\ Expired(t) = db
  BY ComingPeriod
<1>2. HoldsFor(x, Slot(t), now, db, Usable)
  BY <1>1 DEF Promised, Tame, Stands
<1>3. ChoiceBy(Expired(t), Usable, Date(t), Slot(t), x)
  BY <1>1, <1>2 DEF HoldsFor
<1> QED
  BY <1>3, ChosenAgain

LEMMA PromisedPreview ==
  ASSUME Typed, Promised, PreviewLoop
  PROVE  Promised'
<1> DEFINE t == PeriodEnd(now)
<1>1. /\ op = Idle /\ op' = op /\ op.pc = "idle" /\ op.redraw = FALSE /\ t \in Instants
      /\ now' = now /\ odd' = odd /\ active' = active /\ Usable' = Usable
  BY DEF PreviewLoop, Idle, Usable
<1>2. /\ now \in Instants /\ db \in Stores /\ snapshot \subseteq Loops
      /\ promise \in [Slots -> Loops \cup {Nothing}] /\ Nothing \notin Usable
      /\ Slot(now) \in Slots
  BY TypeParts, NothingAssumption, InstantsKnown DEF Typed, Usable
<1>3. /\ ~ Early(t) /\ Slot(t) # Slot(now) /\ Date(t) >= Date(now)
      /\ Slot(t).date = Date(t) /\ Slot(t) \in Slots /\ Expired(t) = db
      /\ ~ NightIsOver(t)
  BY <1>1, ComingPeriod DEF NightIsOver
<1>4. /\ TidiedFrom(db, db', t)
      /\ \A s \in Slots \ {Slot(t)} : promise'[s] = promise[s]
      /\ promise'[Slot(t)] \in Usable => 
           \/ ChoiceBy(db', Usable, Date(t), Slot(t), promise'[Slot(t)])
           \/ promise' = promise /\ Chosen(t, FALSE, TRUE) = {}
  <2>1. ASSUME NEW c \in Chosen(t, FALSE, TRUE),
               db' = c.db /\ promise' = [promise EXCEPT ![Slot(t)] = c.loop]
        PROVE  <1>4!:
    <3>1. TidiedFrom(db, db', t)
      BY <1>1, <1>2, <1>3, <2>1, ChosenStore
    <3>2. ChoiceBy(db', Usable, Date(t), Slot(t), c.loop)
      BY <1>1, <1>2, <2>1, ChosenHolds
    <3> QED
      BY <1>2, <1>3, <2>1, <3>1, <3>2
  <2>2. CASE Chosen(t, FALSE, TRUE) = {} /\ db' = Tidied(t, FALSE, TRUE) /\ UNCHANGED promise
    BY <1>1, <1>2, <1>3, <2>2, TidiedStore
  <2> QED
    BY <2>1, <2>2 DEF PreviewLoop
<1> SUFFICES ASSUME Tame
             PROVE  Stands(promise', now, db', Usable) /\ Ahead' /\ ActiveKept'
  BY <1>1 DEF Promised, Working, Tame
<1>5. Stands(promise, now, db, Usable) /\ Ahead /\ ActiveKept
  BY DEF Promised, Tame
<1>6. Ahead'
  BY <1>1, <1>3, <1>4, <1>5, AheadAfterChoice DEF Ahead
<1>7. ActiveKept'
  BY <1>1, <1>2, <1>3, <1>4, <1>5, ActiveStays
<1>8. Stands(promise', now, db', Usable)
  <2> SUFFICES ASSUME NEW s \in Slots, promise'[s] \in Usable
               PROVE  HoldsFor(promise'[s], s, now, db', Usable)
    BY DEF Stands
  <2>1. CASE s = Slot(t)
    <3>1. ChoiceBy(db', Usable, Date(t), Slot(t), promise'[Slot(t)])
      <4>1. promise[Slot(t)] \in Usable => Chosen(t, FALSE, TRUE) # {}
        <5>1. promise[Slot(t)] \in Usable => HoldsFor(promise[Slot(t)], Slot(t), now, db, Usable)
          BY <1>3, <1>5 DEF Stands
        <5>2. promise[Slot(t)] \in Usable =>
                ChoiceBy(Expired(t), Usable, Date(t), Slot(t), promise[Slot(t)])
          BY <1>3, <5>1 DEF HoldsFor
        <5> QED
          BY <1>1, <5>2, ChosenAgain
      <4> QED
        BY <1>4, <2>1, <4>1
    <3> QED
      BY <1>3, <2>1, <3>1 DEF HoldsFor
  <2>2. CASE s # Slot(t)
    <3>1. promise'[s] = promise[s] /\ HoldsFor(promise[s], s, now, db, Usable)
      BY <1>4, <1>5, <2>2 DEF Stands
    <3>2. ASSUME NEW date \in Dates, ChoiceBy(db, Usable, date, s, promise[s])
          PROVE  ChoiceBy(db', Usable, date, s, promise[s])
      BY <1>1, <1>2, <1>3, <1>4, <2>2, <3>2, ChoiceElsewhere
    <3>3. Early(now) => db'.override[PlanDate(now)] = db.override[PlanDate(now)]
      BY <1>1, <1>2, <1>3, <1>4, EarlySlot, InstantsKnown DEF TidiedFrom
    <3> QED
      BY <1>2, <3>1, <3>2, <3>3, SlotsKnown, InstantsKnown DEF HoldsFor
  <2> QED
    BY <2>1, <2>2
<1> QED
  BY <1>6, <1>7, <1>8

\* What is captured still lets the promises be chosen.
LEMMA PromisedCapture ==
  ASSUME Typed, Fitting, Promised, Capture
  PROVE  Promised'
<1>1. now \in Instants /\ db \in Stores /\ op \in Ops /\ Nothing \notin Usable
  BY TypeParts, NothingAssumption DEF Typed, Usable
<1>2. /\ Date(now) \in Dates /\ Slot(now) \in Slots /\ Slot(now).period = PeriodAt(now)
      /\ PlanDate(now) \in Dates /\ Slot(now).date = PlanDate(now)
  BY <1>1, InstantsKnown
<1> DEFINE c == db.override[Date(now)]
           p == db.plan[Slot(now)]
           saved == op'.saved
           r == Restored(op)'
<1>3. c \in Override /\ p \in Plan \cup {Nothing}
  BY <1>1, <1>2 DEF Stores
<1>4. /\ op'.pc = "choose" /\ op'.at = now /\ op'.usable = Usable /\ op'.redraw = op.redraw
      /\ saved.override = IF c.direct \in Usable THEN c ELSE [c EXCEPT !.direct = Nothing]
      /\ saved.plan = IF PlanKept(p) THEN p ELSE Nothing
  BY <1>1 DEF Capture, Ops
<1>5. /\ now' = now /\ db' = db /\ Usable' = Usable /\ active' = active /\ promise' = promise
      /\ odd' = odd
  BY DEF Capture, Usable
<1>6. /\ saved.override.theme = c.theme /\ saved.override \in Override
      /\ \/ saved.override.direct = c.direct
         \/ saved.override.direct = Nothing /\ c.direct \notin Usable
  BY <1>3, <1>4 DEF Override
<1>7. /\ \A d \in Dates : r.override[d] = IF d = Date(now) THEN saved.override ELSE db.override[d]
      /\ \A s \in Slots : r.plan[s] = IF s = Slot(now) THEN saved.plan ELSE db.plan[s]
  BY <1>1, <1>2, <1>4, <1>5 DEF Restored, Stores
<1>8. p # Nothing => p.loop.period = PeriodAt(now)
  BY <1>2 DEF Fitting, Fit, PlanFits
<1>9. p # Nothing /\ p.loop \in Usable /\ ~ NightIsOver(now) => saved.plan = p
  BY <1>4, <1>8 DEF PlanKept, PlanUsable
<1> HIDE DEF saved, r
<1>10. ASSUME NEW s \in Slots, NEW x \in Usable, NEW date \in Dates,
              ChoiceBy(db, Usable, date, s, x), s # Slot(now) \/ ~ NightIsOver(now)
       PROVE  ChoiceBy(r, Usable, date, s, x)
  <2>1. /\ r.override[date].theme = db.override[date].theme
        /\ \/ r.override[date].direct = db.override[date].direct
           \/ r.override[date].direct = Nothing /\ db.override[date].direct \notin Usable
    BY <1>6, <1>7
  <2>2. CASE db.override[date].direct \in Usable
    BY <1>10, <2>1, <2>2 DEF ChoiceBy
  <2>3. CASE db.override[date].direct \notin Usable
    <3>1. /\ db.plan[s] # Nothing /\ db.plan[s].loop = x
          /\ \/ db.override[date].theme \in {Nothing, x.theme}
             \/ ~ \E l \in Usable : l.period = s.period /\ l.theme = db.override[date].theme
      BY <1>10, <2>3 DEF ChoiceBy
    <3>2. r.plan[s] = db.plan[s]
      BY <1>7, <1>9, <1>10, <3>1
    <3>3. r.override[date].direct \notin Usable
      BY <1>1, <2>1, <2>3
    <3> QED
      BY <2>1, <3>1, <3>2, <3>3 DEF ChoiceBy
  <2> QED
    BY <2>2, <2>3
<1>11. ASSUME Tame
       PROVE  Stands(promise, now, r, Usable)
  <2> SUFFICES ASSUME NEW s \in Slots, promise[s] \in Usable
               PROVE  HoldsFor(promise[s], s, now, r, Usable)
    BY DEF Stands
  <2>1. HoldsFor(promise[s], s, now, db, Usable)
    BY <1>11 DEF Promised, Tame, Stands
  <2>2. s.date >= Date(now) => s # Slot(now) \/ ~ NightIsOver(now)
    BY <1>1, <1>2, EarlySlot
  <2>3. s.date >= Date(now) => ChoiceBy(r, Usable, s.date, s, promise[s])
    BY <1>10, <2>1, <2>2, SlotsKnown DEF HoldsFor
  <2>4. ASSUME s = Slot(now), Early(now), r.override[PlanDate(now)] = NoOverride
        PROVE  ChoiceBy(r, Usable, Date(now), s, promise[s])
    <3>1. db.override[PlanDate(now)] = NoOverride /\ ~ NightIsOver(now)
      BY <1>1, <1>2, <1>7, <2>4, EarlySlot DEF NightIsOver
    <3>2. ChoiceBy(db, Usable, Date(now), s, promise[s])
      BY <2>1, <2>4, <3>1 DEF HoldsFor
    <3> QED
      BY <1>2, <1>10, <3>1, <3>2
  <2> QED
    BY <2>3, <2>4 DEF HoldsFor
<1>12. Tame => Ahead' /\ ActiveKept' /\ Stands(promise', now', db', Usable')
               /\ Stands(promise', now', r, op'.usable)
  <2>1. Tame => Ahead /\ ActiveKept /\ Stands(promise, now, db, Usable)
    BY DEF Promised, Tame
  <2> QED
    BY <1>4, <1>5, <1>11, <2>1 DEF Ahead, ActiveKept
<1> QED
  BY <1>4, <1>5, <1>12 DEF Promised, Tame, r

\* A choice that was cut short leaves behind a store by which what is promised
\* is chosen again.
LEMMA InterruptedStands ==
  ASSUME Typed, Promised, Tame, op.pc = "choose", db' \in Interrupted(op.at, Redraw)
  PROVE  Stands(Outlived(op.at), now, db', Usable) /\ \A d \in Dates : d > Date(now) =>
           db'.override[d] = NoOverride
<1>1. /\ op \in Ops /\ op.at = now /\ now \in Instants /\ Redraw \in BOOLEAN
      /\ db \in Stores /\ Nothing \notin Usable
  BY Underway, TypeParts, NothingAssumption DEF Working, Redraw, Typed, Usable
<1>2. Slot(now) \in Slots /\ Date(now) \in Int
  BY <1>1, InstantsKnown, EarlySlot
<1>3. /\ \A s \in Slots : Outlived(now)[s] \in {promise[s], Nothing}
      /\ NightIsOver(now) => Outlived(now)[Slot(now)] = Nothing
  BY <1>1, LeftPromises DEF Left
<1>4. Stands(promise, now, db, Usable) /\ Ahead
  BY DEF Promised
<1>5. CASE db' = db
  BY <1>1, <1>3, <1>4, <1>5, StandsWithLess DEF Ahead
<1>6. CASE TidiedFrom(Expired(now), db', now)
  <2> DEFINE x == Outlived(now)[Slot(now)]
  <2>1. ASSUME x \in Usable
        PROVE  ChoiceBy(db', Usable, Date(now), Slot(now), x)
    <3>1. x = promise[Slot(now)] /\ ~ NightIsOver(now) /\ ~ Redraw
      BY <1>1, <1>2, <1>3, <2>1 DEF Promised, Redraw
    <3> HIDE DEF x
    <3>2. HoldsFor(x, Slot(now), now, db, Usable)
      BY <1>2, <1>4, <2>1, <3>1 DEF Stands
    <3>3. ChoiceBy(Expired(now), Usable, Date(now), Slot(now), x)
      BY <1>1, <3>1, <3>2, HoldsNow
    <3>4. CASE db' \in {db, Expired(now)}
      BY <3>1, <3>3, <3>4 DEF Expired
    <3>5. CASE Expired(now).override[Date(now)].direct \in Usable
      <4>1. db'.override[Date(now)].direct = Expired(now).override[Date(now)].direct
        BY <1>6, <3>5 DEF TidiedFrom
      <4> QED
        BY <3>3, <3>5, <4>1 DEF ChoiceBy
    <3>6. CASE /\ db' \in {DirectTidied(now), Tidied(now, Redraw, TRUE)}
               /\ Expired(now).override[Date(now)].direct \notin Usable
      <4> DEFINE p == Expired(now).plan[Slot(now)]
      <4>1. p # Nothing /\ p.loop = x
        BY <3>3, <3>6 DEF ChoiceBy
      <4>2. Tidied(now, Redraw, TRUE) = DirectTidied(now)
        BY <2>1, <3>1, <4>1 DEF Tidied
      <4>3. db'.plan[Slot(now)] = p
        BY <1>1, <3>6, <4>2, TidiedStore
      <4>4. /\ db'.override[Date(now)].direct \notin Usable
            /\ db'.override[Date(now)].theme = Expired(now).override[Date(now)].theme
        BY <1>1, <1>6, <3>6 DEF TidiedFrom
      <4> QED
        BY <3>3, <3>6, <4>3, <4>4 DEF ChoiceBy
    <3> QED
      BY <1>1, <3>4, <3>5, <3>6 DEF Interrupted
  <2>2. Stands(Outlived(now), now, db', Usable)
    BY <1>3, <1>4, <1>6, <2>1, StandsAfterChoice
  <2>3. Date(now) >= Date(now)
    BY <1>2
  <2> QED
    BY <1>1, <1>4, <1>6, <2>2, <2>3, AheadAfterChoice
<1> QED
  BY <1>1, <1>5, <1>6, InterruptedStore

\* A process ends and another one begins.
LEMMA PromisedRestart ==
  ASSUME Typed, Promised, Restart
  PROVE  Promised'
<1>1. /\ op'.redraw = FALSE /\ op'.pc = "idle" /\ now' = now /\ active' = Nothing
      /\ Usable' = snapshot'
  BY DEF Restart, Idle, Usable
<1>2. Nothing \notin Usable' /\ (Tame' => Tame)
  BY NothingAssumption DEF Restart, Usable, Tame
<1>3. Tame' => Ahead' /\ (promise' # NoPromise => Stands(Carried, now, db', Usable))
  <2> SUFFICES ASSUME Tame'
               PROVE  Ahead' /\ Stands(Carried, now, db', Usable)
    OBVIOUS
  <2>1. CASE op.pc = "choose"
    BY <1>1, <1>2, <2>1, InterruptedStands DEF Restart, Carried, Ahead
  <2>2. CASE op.pc # "choose"
    BY <1>1, <1>2, <2>2 DEF Restart, Carried, Ahead, Promised
  <2> QED
    BY <2>1, <2>2
<1>4. Tame' => Stands(promise', now', db', Usable')
  <2>1. CASE promise' = NoPromise
    BY <1>2, <2>1, NoPromiseYet, StandsEmpty
  <2>2. ASSUME promise' # NoPromise, Tame'
        PROVE  Stands(promise', now', db', Usable')
    <3>1. promise' = StillThere(Carried) /\ snapshot' \subseteq Usable \cup HeldBack
      BY <2>2 DEF Restart, Carried
    <3>2. HeldBack \cap snapshot' = {}
      BY <2>2 DEF Restart, Tame
    <3>3. Usable' \subseteq Usable
      BY <1>1, <3>1, <3>2
    <3>4. \A s \in Slots : promise'[s] \in {Carried[s], Nothing}
      BY <3>1 DEF StillThere
    <3> QED
      BY <1>1, <1>2, <1>3, <2>2, <3>3, <3>4, StandsWithLess
  <2> QED
    BY <2>1, <2>2
<1>5. ActiveKept'
  BY <1>1 DEF ActiveKept
<1> QED
  BY <1>1, <1>3, <1>4, <1>5 DEF Promised, Working

LEMMA PromisedChooseFails ==
  ASSUME Typed, Promised, ChooseFails
  PROVE  Promised'
<1>1. /\ op \in Ops /\ op.at = now /\ now \in Instants /\ op.pc \in Working
      /\ Redraw \in BOOLEAN /\ db \in Stores /\ snapshot \subseteq Loops
      /\ Nothing \notin Usable /\ moves \in Int
  BY Underway, TypeParts, NothingAssumption DEF ChooseFails, Working, Redraw, Typed, Usable
<1>2. /\ op'.pc = "undo" /\ op'.saved = op.saved /\ op'.at = op.at /\ op'.usable = op.usable
      /\ op'.redraw = op.redraw /\ now' = now /\ Usable' = Usable /\ active' = active
      /\ odd' = odd
  BY <1>1 DEF ChooseFails, Ops, Usable
<1>3. PICK ok \in BOOLEAN :
        /\ promise' = Left(ok)
        /\ IF ok THEN Chosen(now, Redraw, TRUE) = {} /\ db' = Tidied(now, Redraw, TRUE)
           ELSE db' \in Interrupted(now, Redraw)
  <2>1. CASE Chosen(now, Redraw, TRUE) = {} /\ db' = Tidied(now, Redraw, TRUE) /\ UNCHANGED moves
    <3>1. promise' = Left(TRUE)
      BY <2>1 DEF ChooseFails, Left
    <3> QED
      BY <2>1, <3>1
  <2>2. CASE Move /\ db' \in Interrupted(now, Redraw)
    <3>1. promise' = Left(FALSE)
      BY <1>1, <2>2 DEF ChooseFails, Left, Move
    <3> QED
      BY <2>2, <3>1
  <2> QED
    BY <1>1, <2>1, <2>2 DEF ChooseFails
<1>4. /\ \A s \in Slots : promise'[s] \in {promise[s], Nothing}
      /\ NightIsOver(now) \/ ~ ok => promise'[Slot(now)] = Nothing
  BY <1>1, <1>3, LeftPromises
<1>5. db' = db \/ TidiedFrom(Expired(now), db', now)
  <2>1. TidiedFrom(Expired(now), Expired(now), now)
    BY <1>1, ExpiredStore DEF TidiedFrom
  <2> QED
    <3>1. /\ TidiedFrom(Expired(now), DirectTidied(now), now)
          /\ TidiedFrom(Expired(now), Tidied(now, Redraw, TRUE), now)
      BY <1>1, TidiedStore
    <3>2. db' \in {db, Expired(now), DirectTidied(now), Tidied(now, Redraw, TRUE)}
      BY <1>3 DEF Interrupted
    <3> QED
      BY <2>1, <3>1, <3>2
<1>6. Slot(now) \in Slots /\ Date(now) \in Dates
  BY <1>1, InstantsKnown
<1>7. op.redraw => \A s \in Slots : promise'[s] = Nothing
  BY <1>4 DEF Promised
<1> SUFFICES ASSUME Tame
             PROVE  /\ Stands(promise', now, db', Usable) /\ Ahead' /\ ActiveKept'
                    /\ Stands(promise', now, Restored(op)', op.usable)
  BY <1>2, <1>7 DEF Promised, Tame
<1>8. /\ Stands(promise, now, db, Usable) /\ Ahead /\ ActiveKept
      /\ Stands(promise, now, Restored(op), op.usable)
  BY <1>1 DEF Promised, Tame
<1>9. Ahead'
  <2>1. CASE db' = db
    BY <1>2, <1>8, <2>1 DEF Ahead
  <2>2. CASE TidiedFrom(Expired(now), db', now)
    <3>1. Date(now) >= Date(now)
      <4>1. Date(now) \in Int
        BY <1>1, EarlySlot
      <4> QED
        BY <4>1
    <3> QED
      BY <1>1, <1>2, <1>8, <2>2, <3>1, AheadAfterChoice DEF Ahead
  <2> QED
    BY <1>5, <2>1, <2>2
<1>10. ActiveKept'
  BY <1>2, <1>4, <1>6, <1>8, ActiveStays
<1>11. Stands(promise', now, db', Usable)
  <2>1. CASE db' = db
    BY <1>1, <1>4, <1>8, <2>1, StandsWithLess
  <2>2. CASE TidiedFrom(Expired(now), db', now)
    <3>1. promise'[Slot(now)] \notin Usable
      <4> SUFFICES ASSUME promise'[Slot(now)] \in Usable
                   PROVE  FALSE
        OBVIOUS
      <4>1. /\ ok /\ ~ NightIsOver(now) /\ ~ op.redraw /\ promise'[Slot(now)] = promise[Slot(now)]
        BY <1>1, <1>4, <1>6, <1>7
      <4>2. HoldsFor(promise[Slot(now)], Slot(now), now, db, Usable)
        BY <1>6, <1>8, <4>1 DEF Stands
      <4>3. ChoiceBy(Expired(now), Usable, Date(now), Slot(now), promise[Slot(now)])
        BY <1>1, <4>1, <4>2, HoldsNow
      <4>4. Chosen(now, FALSE, TRUE) # {}
        BY <1>1, <4>1, <4>3, ChosenAgain
      <4> QED
        BY <1>3, <4>1, <4>4 DEF Redraw
    <3> QED
      BY <1>4, <1>8, <2>2, <3>1, StandsAfterChoice
  <2> QED
    BY <1>5, <2>1, <2>2
<1>12. Stands(promise', now, Restored(op)', op.usable)
  <2>1. db' \in Stores
    BY <1>1, <1>5 DEF TidiedFrom
  <2>2. \A d \in Dates \ {Date(now)} :
           db'.override[d] = db.override[d] \/ (NightIsOver(now) /\ d = PlanDate(now))
    BY <1>1, <1>5, ExpiredStore DEF TidiedFrom
  <2>3. \A s \in Slots \ {Slot(now)} : db'.plan[s] = db.plan[s]
    BY <1>1, <1>5, ExpiredStore DEF TidiedFrom
  <2> QED
    BY <1>1, <1>2, <1>4, <1>8, <2>1, <2>2, <2>3, SavedStandsAfter
<1> QED
  BY <1>9, <1>10, <1>11, <1>12

\* What is chosen is what has been promised for the slot already.
LEMMA ChooseAgain ==
  ASSUME Typed, Promised, Tame, op.pc = "choose", ~ NightIsOver(now),
         promise[Slot(now)] \in Usable, NEW ok \in BOOLEAN, NEW c \in Chosen(now, Redraw, ok)
  PROVE  c.loop = promise[Slot(now)]
<1>1. now \in Instants /\ Nothing \notin Usable
  BY TypeParts, NothingAssumption DEF Typed, Usable
<1>2. Slot(now) \in Slots
  BY <1>1, InstantsKnown
<1>3. Redraw = FALSE
  <2>1. ~ op.redraw
    BY <1>1, <1>2 DEF Promised
  <2> QED
    BY <2>1 DEF Redraw
<1>4. HoldsFor(promise[Slot(now)], Slot(now), now, db, Usable)
  BY <1>2 DEF Promised, Tame, Stands
<1>5. ChoiceBy(Expired(now), Usable, Date(now), Slot(now), promise[Slot(now)])
  BY <1>1, <1>4, HoldsNow
<1> QED
  BY <1>1, <1>3, <1>5, ChosenAgain

LEMMA PromisedChoose ==
  ASSUME Typed, Promised, ChooseLoop
  PROVE  Promised'
<1>1. /\ op \in Ops /\ op.at = now /\ now \in Instants /\ op.pc \in Working
      /\ op.pc = "choose"
      /\ Redraw \in BOOLEAN /\ db \in Stores /\ snapshot \subseteq Loops
      /\ Nothing \notin Usable
  BY Underway, TypeParts, NothingAssumption DEF ChooseLoop, Working, Redraw, Typed, Usable
<1>2. /\ now' = now /\ Usable' = Usable /\ active' = active /\ odd' = odd
  BY DEF ChooseLoop, Usable
<1>3. PICK ok \in BOOLEAN : \E c \in Chosen(now, Redraw, ok) : Choice(c, ok)
  BY <1>1, ChooseCase
<1>4. PICK c \in Chosen(now, Redraw, ok) : Choice(c, ok)
  BY <1>3
<1>5. /\ db' = c.db /\ TidiedFrom(Expired(now), db', now)
      /\ ChoiceBy(db', Usable, Date(now), Slot(now), c.loop)
      /\ c.loop \in Usable
  BY <1>1, <1>4, ChosenStore, ChosenHolds DEF Choice
<1>6. Slot(now) \in Slots /\ Date(now) \in Dates /\ Date(now) \in Int
  BY <1>1, InstantsKnown, EarlySlot
<1>7. /\ \A s \in Slots : Left(ok)[s] \in {promise[s], Nothing}
      /\ NightIsOver(now) \/ ~ ok => Left(ok)[Slot(now)] = Nothing
  BY <1>1, LeftPromises
<1>8. Tame => /\ Stands(promise, now, db, Usable) /\ Ahead /\ ActiveKept
              /\ Stands(promise, now, Restored(op), op.usable)
  BY <1>1 DEF Promised, Tame
<1>9. Tame => Ahead'
  <2>1. Date(now) >= Date(now)
    BY <1>6
  <2> QED
    BY <1>1, <1>2, <1>5, <1>8, <2>1, AheadAfterChoice DEF Ahead
<1>10. CASE NeedsPlay(c.loop)
  <2>1. /\ op'.pc = "play" /\ op'.pick = c.loop /\ op'.saved = op.saved /\ op'.at = op.at
        /\ op'.usable = op.usable /\ op'.redraw = op.redraw
        /\ promise' = Left(ok)
    <3>1. /\ op' = [op EXCEPT !.pc = "play", !.pick = c.loop, !.under = c.under]
          /\ promise' = Left(ok)
      BY <1>4, <1>10 DEF Choice
    <3> QED
      BY <1>1, <3>1 DEF Ops
  <2>2. op'.redraw => \A s \in Slots : promise'[s] = Nothing
    BY <1>7, <2>1 DEF Promised
  <2>3. Tame /\ promise'[Slot(now)] \in Usable => promise'[Slot(now)] = c.loop
    BY <1>1, <1>4, <1>6, <1>7, <2>1, ChooseAgain
  <2>4. Tame => Stands(promise', now, db', Usable)
    BY <1>5, <1>7, <1>8, <2>1, <2>3, StandsAfterChoice
  <2>5. Tame => Stands(promise', now, Restored(op)', op.usable)
    <3>1. db' \in Stores
      BY <1>5 DEF TidiedFrom
    <3>2. \A d \in Dates \ {Date(now)} :
             db'.override[d] = db.override[d] \/ (NightIsOver(now) /\ d = PlanDate(now))
      BY <1>1, <1>5, ExpiredStore DEF TidiedFrom
    <3>3. \A s \in Slots \ {Slot(now)} : db'.plan[s] = db.plan[s]
      BY <1>1, <1>5, ExpiredStore DEF TidiedFrom
    <3> QED
      BY <1>1, <1>7, <1>8, <2>1, <3>1, <3>2, <3>3, SavedStandsAfter
  <2>6. Tame => ActiveKept'
    BY <1>2, <1>6, <1>7, <1>8, <2>1, ActiveStays
  <2>7. Tame => PickStands'
    BY <1>1, <1>2, <1>5, <2>1, <2>3 DEF PickStands
  <2> QED
    BY <1>2, <1>9, <2>1, <2>2, <2>4, <2>5, <2>6, <2>7 DEF Promised, Tame
<1>11. CASE ~ NeedsPlay(c.loop)
  <2>1. Succeed(c.loop, c.under, Left(ok))
    BY <1>4, <1>11 DEF Choice
  <2>2. /\ op'.pc = "idle" /\ op'.redraw = FALSE /\ promise'[Slot(now)] = c.loop
        /\ \A s \in Slots \ {Slot(now)} : promise'[s] \in {promise[s], Nothing}
    BY <1>1, <1>6, <1>7, <2>1 DEF Succeed, Idle
  <2>3. Tame => Stands(promise', now, db', Usable)
    BY <1>5, <1>8, <2>2, StandsAfterChoice
  <2>4. Tame => ActiveKept'
    <3>1. active.loop = c.loop
      BY <1>11 DEF NeedsPlay
    <3> QED
      BY <1>2, <1>8, <2>2, <3>1 DEF ActiveKept
  <2> QED
    BY <1>2, <1>9, <2>2, <2>3, <2>4 DEF Promised, Tame, Working
<1> QED
  BY <1>10, <1>11

LEMMA PromisedTrying ==
  ASSUME Typed, Promised, FoundUnhealthy \/ PlayCut \/ PlayRejected
  PROVE  Promised'
<1>1. /\ op \in Ops /\ op.at = now /\ now \in Instants /\ op.pc \in Working
      /\ Nothing \notin Usable' /\ Nothing \notin op.usable
  <2>1. TypeOK'
    BY TypedStep DEF Next, Typed
  <2>2. op \in Ops /\ op.pc = "play" /\ op.at = now /\ now \in Instants
    BY Underway DEF FoundUnhealthy, PlayCut, PlayRejected, Working
  <2> QED
    BY <2>1, <2>2, TypePartsAfter, NothingAssumption DEF Usable, Ops, Working
<1>2. /\ SameAim /\ op'.pc \in {"choose", "undo"}
      /\ Usable' \subseteq Usable
      /\ \A s \in Slots : promise'[s] \in {promise[s], Nothing}
  <2>1. CASE FoundUnhealthy
    BY <2>1, UnhealthyCase DEF FoundUnhealthy, Usable
  <2>2. CASE PlayCut
    BY <1>1, <2>2 DEF PlayCut, SameAim, Ops, Usable
  <2>3. CASE PlayRejected
    <3>1. /\ SameAim /\ op'.pc \in {"choose", "undo"}
          /\ Blamed(op.pick) \/ Spared(op.pick)
      BY <2>3, RejectedCase
    <3> QED
      BY <2>3, <3>1 DEF PlayRejected, Usable, Blamed, Spared
  <2> QED
    BY <2>1, <2>2, <2>3
<1>3. now' = now /\ db' = db /\ odd' = odd /\ active' \in {active, Nothing}
  BY DEF FoundUnhealthy, PlayCut, PlayRejected
<1>4. Slot(now) \in Slots
  BY <1>1, InstantsKnown
<1>5. op'.redraw => \A s \in Slots : promise'[s] = Nothing
  BY <1>2 DEF Promised, SameAim
<1>6. Tame => /\ Stands(promise, now, db, Usable) /\ Ahead /\ ActiveKept
              /\ Stands(promise, now, Restored(op), op.usable)
  BY <1>1 DEF Promised, Tame
<1>7. Tame => Stands(promise', now, db, Usable')
  BY <1>1, <1>2, <1>6, StandsWithLess
<1>8. Tame => Stands(promise', now, Restored(op)', op'.usable)
  <2>1. Restored(op)' = Restored(op) /\ op'.usable = op.usable
    BY <1>2, <1>3 DEF Restored, SameAim
  <2>2. Tame => Stands(promise', now, Restored(op), op.usable)
    BY <1>1, <1>2, <1>6, StandsWithLess
  <2> QED
    BY <2>1, <2>2
<1>9. (Ahead => Ahead') /\ (ActiveKept => ActiveKept')
  BY <1>2, <1>3, <1>4, ActiveStays DEF Ahead
<1> QED
  BY <1>2, <1>3, <1>5, <1>6, <1>7, <1>8, <1>9 DEF Promised, Tame

LEMMA PromisedPlay ==
  ASSUME Typed, Promised, Play
  PROVE  Promised'
<1>1. /\ op \in Ops /\ op.at = now /\ now \in Instants /\ op.pick \in Loops /\ op.pc = "play"
      /\ promise \in [Slots -> Loops \cup {Nothing}] /\ Nothing \notin Usable
  BY Trying, TypeParts, NothingAssumption DEF Play, Typed, Usable
<1>2. /\ now' = now /\ Usable' = Usable /\ odd' = odd /\ db' = db
      /\ active' = [loop |-> op.pick, period |-> PeriodAt(now), ends |-> PeriodEnd(now)]
  BY <1>1 DEF Play, Usable
<1>3. Slot(now) \in Slots /\ Slot(now).date = PlanDate(now) /\ PeriodEnd(now) \in Nat
  BY <1>1, InstantsKnown, Clock
<1>4. /\ op'.pc = "idle" /\ op'.redraw = FALSE /\ promise'[Slot(now)] = op.pick
      /\ \A s \in Slots \ {Slot(now)} : promise'[s] \in {promise[s], Nothing}
  BY <1>1, <1>3 DEF Play, Succeed, Idle
<1>5. Tame => Stands(promise, now, db, Usable) /\ Ahead /\ PickStands
  BY <1>1 DEF Promised, Tame
<1>6. Tame => Stands(promise', now, db, Usable)
  <2> SUFFICES ASSUME Tame, NEW s \in Slots, promise'[s] \in Usable
               PROVE  HoldsFor(promise'[s], s, now, db, Usable)
    BY DEF Stands
  <2>1. CASE s = Slot(now)
    <3>1. ChoiceBy(db, Usable, Date(now), s, promise'[s])
      BY <1>1, <1>4, <1>5, <2>1 DEF PickStands
    <3>2. s.date >= Date(now) => s.date = Date(now)
      BY <1>1, <1>3, <2>1, EarlySlot
    <3> QED
      BY <3>1, <3>2 DEF HoldsFor
  <2>2. CASE s # Slot(now)
    BY <1>1, <1>4, <1>5, <2>2 DEF Stands
  <2> QED
    BY <2>1, <2>2
<1>7. ActiveKept'
  <2>1. active'.ends = PeriodEnd(now) /\ active'.loop = op.pick
    BY <1>2
  <2> QED
    BY <1>2, <1>3, <1>4, <2>1 DEF ActiveKept
<1>8. Ahead => Ahead'
  BY <1>2 DEF Ahead
<1> QED
  BY <1>2, <1>4, <1>5, <1>6, <1>7, <1>8 DEF Promised, Tame, Working

\* A failed activation goes back to a selection by which the promises stand.
LEMMA PromisedUndo ==
  ASSUME Typed, Aiming, Promised, Undo
  PROVE  Promised'
<1>1. /\ op \in Ops /\ op.at = now /\ now \in Instants /\ op.pc \in Working
      /\ db \in Stores /\ Nothing \notin op.usable
  BY Underway, TypeParts, NothingAssumption DEF Undo, Working, Typed, Ops
<1>2. op'.pc \in {"idle", "close"} /\ (op'.redraw => op.redraw)
  BY <1>1, Blank DEF Undo, Leave, Ops, Idle
<1>3. /\ now' = now /\ active' = active /\ snapshot' = snapshot /\ promise' = promise
      /\ quarantine' = quarantine \ op.tentative
  BY DEF Undo, Withdrawn
<1>4. Slot(now) \in Slots /\ Date(now) \in Dates /\ Date(now) \in Int
  BY <1>1, InstantsKnown, EarlySlot
<1>5. /\ op.usable \subseteq snapshot /\ snapshot \ op.usable \subseteq quarantine
      /\ op.tentative \subseteq op.usable /\ (op.tentative # {} => op.asked)
  BY <1>1 DEF Aiming, Aim
<1>6. Usable' \subseteq op.usable /\ Nothing \notin Usable'
  BY <1>1, <1>3, <1>5 DEF Usable
<1>7. Tame => /\ Stands(promise, now, db, Usable) /\ Ahead /\ ActiveKept
              /\ Stands(promise, now, Restored(op), op.usable)
  BY <1>1 DEF Promised, Tame
<1>8. CASE odd' = odd \cup {"lost"}
  BY <1>2, <1>3, <1>8 DEF Promised, Tame, Working
<1>9. CASE ~ op.asked /\ db' = db /\ odd' = odd
  <2>1. Usable' = Usable
    BY <1>3, <1>5, <1>9 DEF Usable
  <2> QED
    BY <1>2, <1>3, <1>9, <2>1, PromisedLess DEF Working
<1>10. CASE db' = Restored(op) /\ odd' = odd
  <2>1. Tame => Stands(promise', now, db', Usable')
    BY <1>3, <1>6, <1>7, <1>10, StandsWithLess
  <2>2. Tame => Ahead'
    <3>1. \A d \in Dates : d > Date(now) => db'.override[d] = db.override[d]
      BY <1>1, <1>4, <1>10, RestoredStore
    <3> QED
      BY <1>3, <1>7, <3>1 DEF Ahead
  <2>3. Tame => ActiveKept'
    BY <1>3, <1>7, <1>10, ActiveStays
  <2>4. op'.redraw => \A s \in Slots : promise'[s] = Nothing
    BY <1>2, <1>3 DEF Promised
  <2> QED
    BY <1>2, <1>3, <1>10, <2>1, <2>2, <2>3, <2>4 DEF Promised, Tame, Working
<1> QED
  BY <1>8, <1>9, <1>10 DEF Undo

LEMMA PromisedStep == Typed /\ Fitting /\ Aiming /\ Promised /\ [Next]_vars => Promised'
<1> SUFFICES ASSUME Typed, Fitting, Aiming, Promised, [Next]_vars
             PROVE  Promised'
  OBVIOUS
<1>1. CASE UNCHANGED vars
  <2>1. /\ now' = now /\ db' = db /\ op' = op /\ promise' = promise /\ odd' = odd
        /\ active' = active /\ Usable' = Usable
    BY <1>1 DEF vars, Usable
  <2>2. /\ Restored(op)' = Restored(op) /\ (Ahead => Ahead') /\ (ActiveKept => ActiveKept')
        /\ (PickStands => PickStands')
    BY <2>1 DEF Restored, Ahead, ActiveKept, PickStands
  <2> QED
    BY <2>1, <2>2 DEF Promised, Tame
<1>2. CASE Next
  <2>1. CASE \/ \E theme \in Themes : SetTheme(theme)
             \/ ClearTheme
             \/ \E loop \in Loops : SelectLoop(loop)
             \/ SkipLoop
    BY <2>1, PromisedCommand DEF SetTheme, ClearTheme, SelectLoop, SkipLoop
  <2> QED
    BY <1>2, <2>1, PromisedTorn, PromisedAround, PromisedTick, PromisedPreview, PromisedCapture,
       PromisedChooseFails, PromisedRestart, PromisedChoose, PromisedTrying, PromisedPlay, PromisedUndo DEF Next
<1> QED
  BY <1>1, <1>2

LEMMA PromisedInit == Init => Promised
<1> SUFFICES ASSUME Init
             PROVE  Promised
  OBVIOUS
<1>1. Typed /\ now \in Instants /\ op.pc = "idle" /\ op.redraw = FALSE
  BY TypedInit, TypeParts DEF Init, Idle, Typed
<1>2. Nothing \notin Usable /\ \A s \in Slots : promise[s] = Nothing
  BY NothingAssumption DEF Init, Usable, NoPromise
<1>3. Stands(promise, now, db, Usable)
  BY <1>2, StandsEmpty
<1>4. Ahead /\ ActiveKept
  BY DEF Init, Ahead, ActiveKept
<1> QED
  BY <1>1, <1>2, <1>3, <1>4 DEF Promised, Working

-----------------------------------------------------------------------------

\* What becomes of a promise in a step.
LEMMA PromiseKept ==
  ASSUME Typed, Promised, [Next]_vars, NEW s \in Slots,
         Tame, promise[s] \in Usable, promise'[s] # Nothing
  PROVE  promise'[s] = promise[s]
<1>1. /\ now \in Instants /\ promise \in [Slots -> Loops \cup {Nothing}] /\ Nothing \notin Usable
  BY TypeParts, NothingAssumption DEF Typed, Usable
<1>2. CASE \/ promise' = promise
           \/ promise' = NoPromise
           \/ promise' = Standing
  BY <1>2, NoPromiseYet, StandingPromises
<1>3. CASE PreviewLoop
  <2>1. PeriodEnd(now) \in Instants /\ Slot(PeriodEnd(now)) \in Slots
    BY <1>3, InstantsKnown DEF PreviewLoop
  <2>2. ASSUME NEW c \in Chosen(PeriodEnd(now), FALSE, TRUE),
               promise' = [promise EXCEPT ![Slot(PeriodEnd(now))] = c.loop]
        PROVE  promise'[s] = promise[s]
    BY <1>1, <2>1, <2>2, PreviewAgain
  <2> QED
    BY <1>2, <1>3, <2>2 DEF PreviewLoop
<1>4. CASE ChooseLoop
  <2>1. op.at = now /\ op.pc = "choose"
    BY <1>4, Underway DEF ChooseLoop, Working
  <2>2. PICK ok \in BOOLEAN : \E c \in Chosen(now, Redraw, ok) : Choice(c, ok)
    BY <1>4, <2>1, ChooseCase
  <2>3. PICK c \in Chosen(now, Redraw, ok) : Choice(c, ok)
    BY <2>2
  <2>4. \A r \in Slots : Left(ok)[r] \in {promise[r], Nothing}
    BY <1>1, <2>1, LeftPromises
  <2>5. CASE NeedsPlay(c.loop)
    BY <2>3, <2>4, <2>5 DEF Choice
  <2>6. CASE ~ NeedsPlay(c.loop)
    <3>1. Succeed(c.loop, c.under, Left(ok))
      BY <2>3, <2>6 DEF Choice
    <3>2. CASE s # Slot(now)
      BY <2>1, <2>4, <3>1, <3>2 DEF Succeed
    <3>3. CASE s = Slot(now)
      <4>1. promise'[s] = c.loop
        BY <2>1, <3>1, <3>3 DEF Succeed
      <4>2. promise[s] = c.loop
        <5>1. active = [loop |-> c.loop, period |-> PeriodAt(now), ends |-> PeriodEnd(now)]
          BY <2>1, <2>6 DEF NeedsPlay
        <5>2. c.loop \in Loops
          <6>1. Redraw \in BOOLEAN
            BY <2>1, Underway DEF Redraw, Working, Ops
          <6> QED
            BY <1>1, <6>1, ChosenStore, TypeParts DEF Typed
        <5>3. active # Nothing /\ active.loop = c.loop /\ active.ends = PeriodEnd(now)
          BY <1>1, <5>1, <5>2, ActivationKnown
        <5> QED
          BY <1>1, <3>3, <5>3 DEF Promised, Tame, ActiveKept
      <4> QED
        BY <4>1, <4>2
    <3> QED
      BY <3>2, <3>3
  <2> QED
    BY <2>5, <2>6
<1>5. CASE ChooseFails
  <2>1. op.at \in Instants
    BY <1>5, Underway DEF ChooseFails, Working
  <2>2. promise' = Left(TRUE) \/ promise' = Left(FALSE)
    BY <1>5 DEF ChooseFails, Left
  <2> QED
    BY <2>1, <2>2, LeftPromises
<1>6. CASE Play
  <2>1. op.at = now /\ op.pc = "play" /\ PickStands
    BY <1>6, Underway DEF Play, Working, Promised, Tame
  <2> QED
    BY <1>6, <2>1 DEF Play, Succeed, PickStands
<1>7. CASE PublishScan
  BY <1>2, <1>7 DEF PublishScan
<1>12. CASE Restart
  <2>1. \A r \in Slots : Carried[r] \in {promise[r], Nothing}
    <3>1. CASE op.pc = "choose"
      <4>1. op.at \in Instants
        BY <3>1, Underway DEF Working
      <4> QED
        BY <3>1, <4>1, LeftPromises DEF Carried, Left
    <3>2. CASE op.pc # "choose"
      BY <3>2 DEF Carried
    <3> QED
      BY <3>1, <3>2
  <2> QED
    BY <1>2, <1>12, <2>1, RestartPromises DEF StillThere
<1>8. CASE \/ \E theme \in Themes : SetTheme(theme)
           \/ ClearTheme
           \/ \E loop \in Loops : SelectLoop(loop)
           \/ SkipLoop
           \/ \E theme \in Themes \cup {Nothing} : ThemeTorn(theme)
           \/ \E loop \in Loops : ReplaceFile(loop)
  BY <1>2, <1>8 DEF SetTheme, ClearTheme, SelectLoop, SkipLoop, Command, ThemeTorn, ReplaceFile
<1>9. CASE RepairLoop
  BY <1>2, <1>9 DEF RepairLoop
<1>10. CASE \/ EnsureLibraryPlayback \/ Capture \/ CaptureRefused \/ FoundUnhealthy \/ PlayCut
            \/ PlayRejected \/ Undo \/ LeaveOn \/ StopExpired \/ GoDark \/ Tick
  BY <1>2, <1>10 DEF EnsureLibraryPlayback, Capture, CaptureRefused, FoundUnhealthy, PlayCut,
                     PlayRejected, Undo, LeaveOn, StopExpired, GoDark, Tick
<1>11. CASE UNCHANGED vars
  BY <1>2, <1>11 DEF vars
<1> QED
  BY <1>3, <1>4, <1>5, <1>6, <1>7, <1>8, <1>9, <1>10, <1>11, <1>12 DEF Next

\* A loop announced by /preview or played in a period stays the choice for that
\* period, unless a command is given, it can no longer be used, a loop is added
\* or comes back, the clock is set back, the state store fails, or an activation
\* that OBS made fail is not followed by its restore: because the fail-closed
\* budget is used up, or because the process ends first.
THEOREM PromisesAreKept == Spec => PromisesStand
<1>1. Typed /\ Promised /\ [Next]_vars =>
        [odd \cap {"setback", "lost", "cut"} = {} => PromisesHold]_vars
  BY PromiseKept DEF Tame, PromisesHold
<1> QED
  BY <1>1, TypedInit, TypedStep, FittingInit, FittingStep, AimingInit, AimingStep,
     PromisedInit, PromisedStep, PTL
  DEF Spec, PromisesStand
=============================================================================
