--------------------------- MODULE SupervisorProofs ---------------------------
(***************************************************************************)
(* Proofs about Supervisor, for any number of workers, scopes, frames and  *)
(* ticks.  They are about                                                  *)
(*   - who is responsible for what runs while a generation starts and ends *)
(*     (GenerationInv: OneGeneration and Custody);                         *)
(*   - what a worker shows (TypeInv with WorkersInv: the active scopes in  *)
(*     the order of their tokens) and that no frame is refused (ChainInv:  *)
(*     each frame follows the one before it);                              *)
(*   - how old a worker's value is (TimeInv: where its last value is on    *)
(*     the way from the registry to the supervisor, and since when), from  *)
(*     which both follow: a silent worker is found, a healthy generation   *)
(*     is not stopped;                                                     *)
(*   - how long a restart waits (BackOff).                                 *)
(* StageInv holds what these need of a generation's stages.                *)
(***************************************************************************)
EXTENDS Supervisor, WellFoundedInduction, TLAPS

\* Between its record and its end a generation is named in the state file; one
\* that is reaped has exited, one that is drained has been reaped, and when
\* the supervisor is gone only what cannot be killed is left.
Custody ==
  /\ recorded \in BOOLEAN /\ left \in BOOLEAN
  /\ pc \in {"watch", "race", "look", "failed", "reap", "drain"} => recorded
  /\ pc = "wait" => ~recorded
  /\ pc = "reap" => app \in Statuses
  /\ pc = "drain" => app = "none" /\ reader = "none"
  /\ pc = "ended" => app = "unkillable" \/ (app = "none" /\ ~left)

GenerationInv == OneGeneration /\ Custody

(* What the application and the reader do to each other's processes.        *)

LEMMA WorkersOnlyReport ==
  ASSUME NEW w \in Workers, Works(w) \/ Hang(w)
  PROVE  app' = app /\ reader' = reader
  BY DEF Works, Hang, Advance, Scope, Close, Checkpoint, Becomes, appVars, readerVars

\* Nothing comes to life by itself, and nothing that has exited changes its
\* status.
LEMMA NothingRevives ==
  ASSUME AppSteps \/ AppLeaves
  PROVE  /\ app \in {"none", "unkillable"} \cup Statuses => app' = app
         /\ reader = "none" => reader' = "none"
<1>1. CASE AppLeaves
  BY <1>1 DEF AppLeaves, AppExits, Exits, Statuses, readerVars
<1>2. CASE AppSteps
  <2>1. CASE \E w \in Workers : Works(w) \/ Hang(w)
    BY <2>1, WorkersOnlyReport
  <2>2. CASE AppReady \/ SendReport \/ Freeze \/ AppStops \/ AppRefuses \/ AppContended
    BY <2>2 DEF AppReady, SendReport, Freeze, AppStops, AppRefuses, AppContended, Exits, Send,
                Statuses, readerVars
  <2>3. CASE ReaderReads \/ ReaderEnds \/ ReaderExits \/ ReaderFails \/ ReaderStalls
    BY <2>3 DEF ReaderReads, ReaderEnds, ReaderExits, ReaderFails, ReaderStalls, appVars
  <2> QED
    BY <1>2, <2>1, <2>2, <2>3 DEF AppSteps
<1> QED
  BY <1>1, <1>2

LEMMA GenerationStart == Init => GenerationInv
  BY DEF Init, LivenessInit, GenerationInv, OneGeneration, Custody

LEMMA GenerationStep == GenerationInv /\ [Next]_vars => GenerationInv'
<1> SUFFICES ASSUME GenerationInv, [Next]_vars
             PROVE  GenerationInv'
  OBVIOUS
<1> USE DEF GenerationInv, OneGeneration, Custody, Statuses
<1>1. CASE pc # "ended" /\ AppSteps
  BY <1>1, NothingRevives DEF AppSteps, supervisorVars, groupVars
<1>2. CASE pc # "ended" /\ AppLeaves
  <2>1. left' \in BOOLEAN /\ app \in {"running", "draining"} /\ pc' = pc /\ recorded' = recorded
    BY <1>2 DEF AppLeaves, AppExits
  <2> QED
    BY <1>2, <2>1, NothingRevives
<1>3. CASE pc # "ended" /\ HelperEnds
  BY <1>3 DEF HelperEnds, livenessVars, appVars, readerVars
<1>4. CASE PrepareFails \/ Launch \/ Record
  <2>1. CASE PrepareFails
    BY <2>1 DEF PrepareFails, Leaves, livenessVars, appVars, readerVars, groupVars
  <2>2. CASE Launch
    BY <2>2 DEF Launch, groupVars
  <2>3. CASE Record
    BY <2>3 DEF Record, livenessVars, appVars, readerVars
  <2> QED
    BY <1>4, <2>1, <2>2, <2>3
<1>5. CASE RecordFails \/ StopGeneration \/ Drain \/ Trap
  BY <1>5 DEF RecordFails, StopGeneration, Drain, Trap, GroupEnds, GroupStays, GroupIs,
              ReaderStops, Leaves, readerVars
<1>6. CASE CheckProcesses \/ CheckRace \/ Look \/ LookFails
  BY <1>6 DEF CheckProcesses, CheckRace, Look, LookFails, Goes, Fails, livenessVars, appVars,
              readerVars, groupVars
<1>7. CASE Reap
  BY <1>7 DEF Reap, ReaderStops, groupVars
<1>8. CASE ClearFails \/ WaitEnds \/ \E lasted \in BOOLEAN : Clear(lasted)
  <2>1. CASE ClearFails
    BY <2>1 DEF ClearFails, Leaves, livenessVars, appVars, readerVars
  <2>2. CASE WaitEnds
    BY <2>2 DEF WaitEnds, livenessVars, appVars, readerVars, groupVars
  <2>3. ASSUME NEW lasted \in BOOLEAN, Clear(lasted)
        PROVE  GenerationInv'
    BY <2>3 DEF Clear, appVars, readerVars
  <2> QED
    BY <1>8, <2>1, <2>2, <2>3
<1>9. CASE UNCHANGED vars
  BY <1>9 DEF vars, livenessVars, appVars, readerVars, supervisorVars, groupVars
<1> QED
  BY <1>1, <1>2, <1>3, <1>4, <1>5, <1>6, <1>7, <1>8, <1>9 DEF Next, Supervise, Ended

\* A generation is started only when nothing of the one before is left, and
\* what runs is named in the state file (supervise_service,
\* drain_process_group).
THEOREM GenerationsDoNotOverlap == Spec => []OneGeneration
<1>1. GenerationInv => OneGeneration
  BY DEF GenerationInv
<1> QED
  BY <1>1, GenerationStart, GenerationStep, PTL DEF Spec

-----------------------------------------------------------------------------
(* What a worker shows.  Its active scopes stand in the order of their      *)
(* tokens, they are the ones that are open, and the phase follows from      *)
(* them: the newest one's, or the one the worker has without them.          *)

WorkerRec == [phase : Phases, base : Phases, scopes : Seq(ActiveScope),
              token : Tokens \cup {0}, moved : BOOLEAN, quiet : Nat,
              advanced : Phases, opened : SUBSET ActiveScope]

InOrder(scopes) ==
  \A i, j \in DOMAIN scopes : i < j => scopes[i].token < scopes[j].token

ScopesAgree(r) ==
  /\ \A i \in DOMAIN r.scopes : r.scopes[i].token <= r.token
  /\ InOrder(r.scopes)
  /\ r.opened = {r.scopes[i] : i \in DOMAIN r.scopes}
  /\ r.scopes = << >> => r.phase = r.advanced
  /\ r.scopes # << >> => r.phase = r.scopes[Len(r.scopes)].phase /\ r.base = r.advanced

LEMMA TokensAreNumbers == MaxScopes \in Nat /\ Tokens \subseteq Nat
  BY LivenessAssumption DEF Tokens

LEMMA TokenIsNumber == \A r \in WorkerRec : r.token \in Nat
<1> SUFFICES ASSUME NEW r \in WorkerRec
             PROVE  r.token \in Nat
  OBVIOUS
<1>1. r.token \in Tokens \/ r.token = 0
  BY DEF WorkerRec
<1>2. CASE r.token \in Tokens
  BY <1>2, TokensAreNumbers, Zenon
<1>3. CASE r.token = 0
  BY <1>3
<1> QED
  BY <1>1, <1>2, <1>3

LEMMA FreshAgrees == Fresh \in WorkerRec /\ ScopesAgree(Fresh)
  BY DEF Fresh, WorkerRec, ScopesAgree, InOrder, Phases, NormalPhases

LEMMA PublishAgrees ==
  ASSUME NEW r \in WorkerRec, NEW phase \in Phases,
         ScopesAgree([r EXCEPT !.phase = phase])
  PROVE  Publish(r, phase) \in WorkerRec /\ ScopesAgree(Publish(r, phase))
<1> DEFINE m == Publish(r, phase)
           n == [r EXCEPT !.phase = phase]
<1>1. /\ m \in WorkerRec
      /\ m.phase = n.phase /\ m.base = n.base /\ m.scopes = n.scopes /\ m.token = n.token
      /\ m.advanced = n.advanced /\ m.opened = n.opened
  BY DEF Publish, WorkerRec
<1>2. ScopesAgree(n)
  OBVIOUS
<1> HIDE DEF m, n
<1>3. ScopesAgree(m)
  BY <1>1, <1>2 DEF ScopesAgree
<1> QED
  BY <1>1, <1>3 DEF m

\* The removal of one scope keeps the order of the others (restoreScope).
LEMMA RemovalKeepsOrder ==
  ASSUME NEW scopes \in Seq(ActiveScope), InOrder(scopes), NEW t \in Tokens,
         Without(scopes, t) # scopes
  PROVE  LET s == Without(scopes, t) IN
         /\ s \in Seq(ActiveScope)
         /\ InOrder(s)
         /\ scopes # << >>
         /\ {s[i] : i \in DOMAIN s}
              = {x \in {scopes[i] : i \in DOMAIN scopes} : x.token # t}
<1> DEFINE s == Without(scopes, t)
           at == {i \in DOMAIN scopes : scopes[i].token = t}
           index == CHOOSE i \in at : TRUE
           n == Len(scopes)
<1>1. at # {}
  BY DEF Without
<1>2. index \in at
  BY <1>1
<1>3. s = [i \in 1 .. n - 1 |-> IF i < index THEN scopes[i] ELSE scopes[i + 1]]
  BY <1>1 DEF Without
<1>4. index \in 1 .. n /\ scopes[index].token = t /\ n \in Nat /\ DOMAIN scopes = 1 .. n
  BY <1>2
<1> HIDE DEF s, index, at, n
<1>5. n - 1 \in Nat /\ DOMAIN s = 1 .. n - 1
  BY <1>3, <1>4
<1>6. \A i \in 1 .. n - 1 : /\ i < index => s[i] = scopes[i]
                            /\ i >= index => s[i] = scopes[i + 1]
  BY <1>3, <1>4
<1>7. \A i \in 1 .. n : scopes[i] \in ActiveScope /\ scopes[i].token \in Nat
  <2>1. \A i \in 1 .. n : scopes[i] \in ActiveScope
    BY <1>4
  <2>2. \A x \in ActiveScope : x.token \in Nat
    BY TokensAreNumbers DEF ActiveScope
  <2> QED
    BY <2>1, <2>2
<1>8. \A i \in 1 .. n - 1 : s[i] \in ActiveScope
  BY <1>4, <1>5, <1>6, <1>7
<1>9. s \in Seq(ActiveScope)
  <2>1. s = [i \in 1 .. n - 1 |-> s[i]]
    BY <1>3
  <2> QED
    BY <2>1, <1>5, <1>8
<1>10. InOrder(s)
  <2> SUFFICES ASSUME NEW i \in 1 .. n - 1, NEW j \in 1 .. n - 1, i < j
               PROVE  s[i].token < s[j].token
    BY <1>5 DEF InOrder
  <2>1. \A k, l \in 1 .. n : k < l => scopes[k].token < scopes[l].token
    BY <1>4 DEF InOrder
  <2> QED
    BY <2>1, <1>4, <1>5, <1>6
<1>11. \A i \in 1 .. n : i # index => scopes[i].token # t
  <2> SUFFICES ASSUME NEW i \in 1 .. n, i # index
               PROVE  scopes[i].token # t
    OBVIOUS
  <2>1. i < index \/ index < i
    BY <1>4
  <2>2. \A k, l \in 1 .. n : k < l => scopes[k].token < scopes[l].token
    BY <1>4 DEF InOrder
  <2>3. scopes[i].token < scopes[index].token \/ scopes[index].token < scopes[i].token
    BY <2>1, <2>2, <1>4
  <2> QED
    BY <2>3, <1>4, <1>7
<1>12. \A x : (\E i \in 1 .. n - 1 : x = s[i])
                <=> \E i \in 1 .. n : x = scopes[i] /\ i # index
  <2> TAKE x
  <2>1. ASSUME NEW i \in 1 .. n - 1, x = s[i]
        PROVE  \E k \in 1 .. n : x = scopes[k] /\ k # index
    <3>1. CASE i < index
      BY <3>1, <2>1, <1>4, <1>5, <1>6
    <3>2. CASE ~(i < index)
      <4>1. i >= index /\ i + 1 \in 1 .. n /\ i + 1 # index
        BY <3>2, <1>4, <1>5
      <4> QED
        BY <4>1, <2>1, <1>6
    <3> QED
      BY <3>1, <3>2
  <2>2. ASSUME NEW k \in 1 .. n, x = scopes[k], k # index
        PROVE  \E i \in 1 .. n - 1 : x = s[i]
    <3>1. CASE k < index
      <4>1. k \in 1 .. n - 1
        BY <3>1, <1>4
      <4> QED
        BY <4>1, <3>1, <2>2, <1>6
    <3>2. CASE ~(k < index)
      <4>1. k - 1 \in 1 .. n - 1 /\ k - 1 >= index /\ (k - 1) + 1 = k
        BY <3>2, <2>2, <1>4
      <4> QED
        BY <4>1, <2>2, <1>6
    <3> QED
      BY <3>1, <3>2
  <2> QED
    BY <2>1, <2>2
<1>13. {s[i] : i \in DOMAIN s} = {x \in {scopes[i] : i \in DOMAIN scopes} : x.token # t}
  <2>1. \A x : x \in {s[i] : i \in DOMAIN s} <=> \E i \in 1 .. n - 1 : x = s[i]
    BY <1>5
  <2>2. \A x : x \in {x1 \in {scopes[i] : i \in DOMAIN scopes} : x1.token # t}
                 <=> \E i \in 1 .. n : x = scopes[i] /\ x.token # t
    BY <1>4
  <2>3. \A x : (\E i \in 1 .. n : x = scopes[i] /\ x.token # t)
                 <=> \E i \in 1 .. n : x = scopes[i] /\ i # index
    BY <1>4, <1>11
  <2> QED
    BY <2>1, <2>2, <2>3, <1>12
<1>14. scopes # << >>
  BY <1>4
<1> QED
  BY <1>9, <1>10, <1>13, <1>14 DEF s

LEMMA AdvanceAgrees ==
  ASSUME NEW r \in WorkerRec, NEW phase \in NormalPhases
  PROVE  LET n == Publish([r EXCEPT !.scopes = << >>, !.base = "unknown",
                                    !.advanced = phase, !.opened = {}], phase) IN
         n \in WorkerRec /\ ScopesAgree(n) /\ n.moved /\ n.quiet = 0
<1> DEFINE m == [r EXCEPT !.scopes = << >>, !.base = "unknown",
                          !.advanced = phase, !.opened = {}]
           n == Publish(m, phase)
<1>1. phase \in Phases /\ "unknown" \in Phases
  BY DEF Phases
<1>2. << >> \in Seq(ActiveScope) /\ {} \in SUBSET ActiveScope
  OBVIOUS
<1>3. m \in WorkerRec
  BY <1>1, <1>2 DEF WorkerRec
<1>4. n \in WorkerRec
  BY <1>1, <1>3 DEF Publish, WorkerRec
<1>5. /\ n.scopes = << >> /\ n.opened = {} /\ n.phase = phase /\ n.advanced = phase
      /\ n.moved /\ n.quiet = 0
  BY DEF Publish, WorkerRec
<1> HIDE DEF m, n
<1>6. ScopesAgree(n)
  BY <1>5 DEF ScopesAgree, InOrder
<1> QED
  BY <1>4, <1>5, <1>6 DEF m, n

LEMMA ScopeAgrees ==
  ASSUME NEW r \in WorkerRec, ScopesAgree(r), r.token < MaxScopes, NEW phase \in SpecialPhases
  PROVE  LET t == r.token + 1
             outer == IF r.phase \in NormalPhases THEN r.phase ELSE "operation"
             n == Publish([r EXCEPT !.token = t,
                                    !.base = IF r.scopes = << >> THEN outer ELSE @,
                                    !.advanced = IF r.opened = {} THEN outer ELSE @,
                                    !.scopes = Append(@, [token |-> t, phase |-> phase]),
                                    !.opened = @ \cup {[token |-> t, phase |-> phase]}], phase) IN
         n \in WorkerRec /\ ScopesAgree(n) /\ n.moved /\ n.quiet = 0
<1> DEFINE t == r.token + 1
           outer == IF r.phase \in NormalPhases THEN r.phase ELSE "operation"
           new == [token |-> t, phase |-> phase]
           m == [r EXCEPT !.token = t,
                          !.base = IF r.scopes = << >> THEN outer ELSE @,
                          !.advanced = IF r.opened = {} THEN outer ELSE @,
                          !.scopes = Append(@, [token |-> t, phase |-> phase]),
                          !.opened = @ \cup {[token |-> t, phase |-> phase]}]
           n == Publish(m, phase)
           len == Len(r.scopes)
<1>1. /\ r.token \in Nat /\ r.scopes \in Seq(ActiveScope) /\ r.opened \subseteq ActiveScope
      /\ r.base \in Phases /\ r.advanced \in Phases /\ r.quiet \in Nat /\ r.moved \in BOOLEAN
  <2>1. r.token \in Tokens \cup {0} /\ r.scopes \in Seq(ActiveScope)
    BY DEF WorkerRec
  <2>2. r.opened \subseteq ActiveScope /\ r.base \in Phases /\ r.advanced \in Phases
    BY DEF WorkerRec
  <2>3. r.quiet \in Nat /\ r.moved \in BOOLEAN
    BY DEF WorkerRec
  <2>4. r.token \in Nat
    BY TokenIsNumber
  <2> QED
    BY <2>1, <2>2, <2>3, <2>4
<1>2. t \in Tokens /\ t \in Nat /\ t > r.token
  BY <1>1, TokensAreNumbers DEF Tokens
<1>3. new \in ActiveScope /\ new.token = t /\ new.phase = phase
  BY <1>2 DEF ActiveScope
<1>4. outer \in Phases /\ phase \in Phases
  BY DEF Phases, NormalPhases
<1>5. /\ n.token = t /\ n.scopes = Append(r.scopes, new) /\ n.opened = r.opened \cup {new}
      /\ n.base = (IF r.scopes = << >> THEN outer ELSE r.base)
      /\ n.advanced = (IF r.opened = {} THEN outer ELSE r.advanced)
      /\ n.phase = phase /\ n.moved /\ n.quiet = 0
  BY DEF Publish, WorkerRec
<1> HIDE DEF t, outer, new, m, n
<1>7. n \in WorkerRec
  <2>1. Append(r.scopes, new) \in Seq(ActiveScope) /\ r.opened \cup {new} \in SUBSET ActiveScope
    BY <1>1, <1>3
  <2>2. \A b, a \in Phases, s \in Seq(ActiveScope), o \in SUBSET ActiveScope :
          [r EXCEPT !.token = t, !.base = b, !.advanced = a, !.scopes = s, !.opened = o] \in WorkerRec
    BY <1>2 DEF WorkerRec
  <2>3. m \in WorkerRec
    <3>1. (IF r.scopes = << >> THEN outer ELSE r.base) \in Phases
      BY <1>1, <1>4
    <3>2. (IF r.opened = {} THEN outer ELSE r.advanced) \in Phases
      BY <1>1, <1>4
    <3> QED
      BY <3>1, <3>2, <2>1, <2>2 DEF m, new
  <2> QED
    BY <2>3, <1>4 DEF n, Publish, WorkerRec
<1>8. /\ len \in Nat /\ DOMAIN r.scopes = 1 .. len /\ DOMAIN n.scopes = 1 .. len + 1
      /\ \A i \in 1 .. len : n.scopes[i] = r.scopes[i]
      /\ n.scopes[len + 1] = new /\ Len(n.scopes) = len + 1
  BY <1>1, <1>3, <1>5
<1>9. \A i \in 1 .. len : r.scopes[i].token \in Nat /\ r.scopes[i].token <= r.token
  <2>1. \A i \in 1 .. len : r.scopes[i] \in ActiveScope
    BY <1>1, <1>8
  <2> QED
    BY <2>1, <1>8, TokensAreNumbers DEF ActiveScope, ScopesAgree
<1> HIDE DEF len
<1>10. \A i \in DOMAIN n.scopes : n.scopes[i].token <= n.token
  <2> SUFFICES ASSUME NEW i \in 1 .. len + 1
               PROVE  n.scopes[i].token <= t
    BY <1>5, <1>8
  <2>1. CASE i = len + 1
    BY <2>1, <1>2, <1>3, <1>8
  <2>2. CASE i \in 1 .. len
    BY <2>2, <1>1, <1>2, <1>8, <1>9, SMTT(30)
  <2> QED
    BY <2>1, <2>2, <1>8
<1>11. InOrder(n.scopes)
  <2> SUFFICES ASSUME NEW i \in 1 .. len + 1, NEW j \in 1 .. len + 1, i < j
               PROVE  n.scopes[i].token < n.scopes[j].token
    BY <1>8 DEF InOrder
  <2>1. i \in 1 .. len
    BY <1>8
  <2>2. CASE j = len + 1
    <3>1. n.scopes[j].token = t /\ n.scopes[i] = r.scopes[i]
      BY <2>1, <2>2, <1>3, <1>8
    <3> QED
      BY <3>1, <2>1, <1>1, <1>2, <1>9
  <2>3. CASE j \in 1 .. len
    BY <2>1, <2>3, <1>8 DEF ScopesAgree, InOrder
  <2> QED
    BY <2>2, <2>3, <1>8
<1>12. n.opened = {n.scopes[i] : i \in DOMAIN n.scopes}
  <2>1. \A x : x \in r.opened <=> \E i \in 1 .. len : x = r.scopes[i]
    BY <1>8 DEF ScopesAgree
  <2>2. \A x : x \in n.opened <=> x = new \/ \E i \in 1 .. len : x = r.scopes[i]
    BY <2>1, <1>5
  <2>3. \A x : (\E i \in 1 .. len + 1 : x = n.scopes[i])
                 <=> x = new \/ \E i \in 1 .. len : x = r.scopes[i]
    BY <1>8
  <2>4. \A x : x \in n.opened <=> \E i \in 1 .. len + 1 : x = n.scopes[i]
    BY <2>2, <2>3
  <2> QED
    BY <2>4, <1>8
<1>13. n.scopes # << >> /\ n.phase = n.scopes[Len(n.scopes)].phase
  <2>1. n.scopes # << >>
    BY <1>8
  <2>2. n.scopes[Len(n.scopes)] = new
    BY <1>8
  <2> QED
    BY <2>1, <2>2, <1>3, <1>5
<1>14. n.base = n.advanced
  <2>1. r.scopes = << >> <=> r.opened = {}
    <3>1. \A x : x \in r.opened <=> \E i \in 1 .. len : x = r.scopes[i]
      BY <1>8 DEF ScopesAgree
    <3>2. CASE r.scopes = << >>
      BY <3>2 DEF ScopesAgree
    <3>3. CASE r.scopes # << >>
      <4>1. 1 \in 1 .. len
        BY <3>3, <1>1, <1>8 DEF len
      <4> QED
        BY <4>1, <3>1, <3>3
    <3> QED
      BY <3>2, <3>3
  <2>2. r.scopes # << >> => r.base = r.advanced
    BY DEF ScopesAgree
  <2> QED
    BY <2>1, <2>2, <1>5
<1>15. ScopesAgree(n)
  BY <1>10, <1>11, <1>12, <1>13, <1>14 DEF ScopesAgree
<1> QED
  BY <1>5, <1>7, <1>15 DEF m, n, new, t, outer

LEMMA CloseAgrees ==
  ASSUME NEW r \in WorkerRec, ScopesAgree(r), NEW t \in Tokens,
         Without(r.scopes, t) # r.scopes
  PROVE  LET s == [r EXCEPT !.scopes = Without(@, t)]
             base == IF s.scopes = << >> THEN "unknown" ELSE s.base
             n == Publish([s EXCEPT !.base = base, !.opened = @ \ Handles(s, t)], Effective(s)) IN
         n \in WorkerRec /\ ScopesAgree(n) /\ n.moved /\ n.quiet = 0
<1> DEFINE k == Without(r.scopes, t)
           s == [r EXCEPT !.scopes = Without(@, t)]
           base == IF s.scopes = << >> THEN "unknown" ELSE s.base
           m == [s EXCEPT !.base = base, !.opened = @ \ Handles(s, t)]
           n == Publish(m, Effective(s))
<1>1. /\ r.scopes \in Seq(ActiveScope) /\ r.opened \subseteq ActiveScope
      /\ r.base \in Phases /\ r.advanced \in Phases
  BY DEF WorkerRec
<1>2. InOrder(r.scopes)
  BY DEF ScopesAgree
<1>3. /\ k \in Seq(ActiveScope) /\ InOrder(k) /\ r.scopes # << >>
      /\ {k[i] : i \in DOMAIN k} = {x \in {r.scopes[i] : i \in DOMAIN r.scopes} : x.token # t}
  BY <1>1, <1>2, RemovalKeepsOrder
<1>4. /\ s \in WorkerRec /\ s.scopes = k /\ s.opened = r.opened /\ s.base = r.base
      /\ s.advanced = r.advanced /\ s.token = r.token
  BY <1>3 DEF WorkerRec
<1> HIDE DEF k, s
<1>5. base \in Phases
  BY <1>1, <1>4 DEF Phases
<1>6. Effective(s) = IF k = << >> THEN r.base ELSE k[Len(k)].phase
  BY <1>4 DEF Effective
<1>7. Effective(s) \in Phases
  <2>1. CASE k = << >>
    BY <2>1, <1>1, <1>6
  <2>2. CASE k # << >>
    <3>1. k[Len(k)] \in ActiveScope
      BY <2>2, <1>3
    <3> QED
      BY <3>1, <2>2, <1>6 DEF ActiveScope, Phases
  <2> QED
    BY <2>1, <2>2
<1> HIDE DEF base
<1>8. m \in WorkerRec
  BY <1>4, <1>5 DEF WorkerRec
<1>9. n \in WorkerRec
  BY <1>7, <1>8 DEF Publish, WorkerRec
<1>10. /\ n.scopes = k /\ n.base = base /\ n.opened = r.opened \ Handles(s, t)
       /\ n.advanced = r.advanced /\ n.token = r.token /\ n.phase = Effective(s)
       /\ n.moved /\ n.quiet = 0
  BY <1>4 DEF Publish, WorkerRec
<1> HIDE DEF m, n
<1>11. n.opened = {k[i] : i \in DOMAIN k}
  <2>1. n.opened = {x \in r.opened : x.token # t}
    BY <1>4, <1>10 DEF Handles
  <2>2. r.opened = {r.scopes[i] : i \in DOMAIN r.scopes}
    BY DEF ScopesAgree
  <2> QED
    BY <2>1, <2>2, <1>3
<1>12. \A i \in DOMAIN k : k[i].token <= r.token
  <2> SUFFICES ASSUME NEW i \in DOMAIN k
               PROVE  k[i].token <= r.token
    OBVIOUS
  <2>1. k[i] \in {r.scopes[j] : j \in DOMAIN r.scopes}
    BY <1>3
  <2>2. PICK j \in DOMAIN r.scopes : k[i] = r.scopes[j]
    BY <2>1
  <2> QED
    BY <2>2 DEF ScopesAgree
<1>13. k = << >> => n.phase = n.advanced
  BY <1>3, <1>6, <1>10 DEF ScopesAgree
<1>14. k # << >> => n.phase = k[Len(k)].phase /\ n.base = n.advanced
  <2>1. k # << >> => base = r.base
    BY <1>4 DEF base
  <2> QED
    BY <2>1, <1>3, <1>6, <1>10 DEF ScopesAgree
<1>15. ScopesAgree(n)
  BY <1>3, <1>10, <1>11, <1>12, <1>13, <1>14 DEF ScopesAgree
<1> QED
  BY <1>9, <1>10, <1>15 DEF n, m, s, base

LEMMA CheckpointAgrees ==
  ASSUME NEW r \in WorkerRec, ScopesAgree(r), r.scopes # << >>
  PROVE  LET n == Publish(r, r.scopes[Len(r.scopes)].phase) IN
         n \in WorkerRec /\ ScopesAgree(n) /\ n.moved /\ n.quiet = 0
<1> DEFINE p == r.scopes[Len(r.scopes)].phase
           n == Publish(r, p)
<1>1. r.phase = p /\ r.phase \in Phases
  BY DEF ScopesAgree, WorkerRec
<1> HIDE DEF p
<1>2. /\ n \in WorkerRec /\ n.phase = r.phase /\ n.base = r.base /\ n.scopes = r.scopes
      /\ n.token = r.token /\ n.advanced = r.advanced /\ n.opened = r.opened
      /\ n.moved /\ n.quiet = 0
  BY <1>1 DEF Publish, WorkerRec
<1> HIDE DEF n
<1>3. ScopesAgree(n)
  BY <1>2 DEF ScopesAgree
<1> QED
  BY <1>2, <1>3 DEF n, p

WorkersInv == worker \in [Workers -> WorkerRec] /\ \A w \in Workers : ScopesAgree(worker[w])

\* Whatever a worker calls, it publishes what its scopes say.
LEMMA WorkersPublish ==
  ASSUME WorkersInv, NEW w \in Workers, Works(w)
  PROVE  /\ Acts(w)
         /\ \E r \in WorkerRec : /\ ScopesAgree(r) /\ r.moved /\ r.quiet = 0
                                 /\ Becomes(w, r)
<1>1. worker[w] \in WorkerRec /\ ScopesAgree(worker[w])
  BY DEF WorkersInv
<1>2. CASE Advance(w)
  BY <1>1, <1>2, AdvanceAgrees DEF Advance
<1>3. CASE Scope(w)
  <2> DEFINE t == worker[w].token + 1
             outer == IF worker[w].phase \in NormalPhases THEN worker[w].phase ELSE "operation"
             new(phase) == Publish([worker[w] EXCEPT
                             !.token = t,
                             !.base = IF worker[w].scopes = << >> THEN outer ELSE @,
                             !.advanced = IF worker[w].opened = {} THEN outer ELSE @,
                             !.scopes = Append(@, [token |-> t, phase |-> phase]),
                             !.opened = @ \cup {[token |-> t, phase |-> phase]}], phase)
  <2>1. Acts(w) /\ worker[w].token < MaxScopes
    BY <1>3 DEF Scope
  <2>2. PICK phase \in SpecialPhases : Becomes(w, new(phase))
    BY <1>3 DEF Scope
  <2>3. /\ new(phase) \in WorkerRec /\ ScopesAgree(new(phase))
        /\ new(phase).moved /\ new(phase).quiet = 0
    BY <1>1, <2>1, ScopeAgrees
  <2> QED
    BY <2>1, <2>2, <2>3
<1>4. ASSUME NEW t \in Tokens, Close(w, t)
      PROVE  Acts(w) /\ \E r \in WorkerRec : /\ ScopesAgree(r) /\ r.moved /\ r.quiet = 0
                                            /\ Becomes(w, r)
  <2>1. [worker[w] EXCEPT !.scopes = Without(@, t)].scopes = Without(worker[w].scopes, t)
    BY <1>1 DEF WorkerRec
  <2> QED
    BY <1>1, <1>4, <2>1, CloseAgrees DEF Close
<1>5. ASSUME NEW t \in Tokens, Checkpoint(w, t)
      PROVE  Acts(w) /\ \E r \in WorkerRec : /\ ScopesAgree(r) /\ r.moved /\ r.quiet = 0
                                            /\ Becomes(w, r)
  BY <1>1, <1>5, CheckpointAgrees DEF Checkpoint
<1> QED
  BY <1>2, <1>3, <1>4, <1>5 DEF Works

LEMMA WorkersInvStart == Init => WorkersInv
  BY FreshAgrees DEF Init, LivenessInit, Registry, WorkersInv

\* The counters are no part of what the scopes say.
LEMMA CountersAside ==
  ASSUME NEW r \in WorkerRec, ScopesAgree(r)
  PROVE  /\ LET n == [r EXCEPT !.moved = FALSE] IN n \in WorkerRec /\ ScopesAgree(n)
         /\ LET n == [r EXCEPT !.quiet = @ + 1] IN n \in WorkerRec /\ ScopesAgree(n)
<1>1. ASSUME NEW n \in WorkerRec, n.phase = r.phase, n.base = r.base, n.scopes = r.scopes,
             n.token = r.token, n.advanced = r.advanced, n.opened = r.opened
      PROVE  ScopesAgree(n)
  BY <1>1 DEF ScopesAgree
<1>2. LET n == [r EXCEPT !.moved = FALSE] IN
      /\ n \in WorkerRec /\ n.phase = r.phase /\ n.base = r.base /\ n.scopes = r.scopes
      /\ n.token = r.token /\ n.advanced = r.advanced /\ n.opened = r.opened
  BY DEF WorkerRec
<1>3. LET n == [r EXCEPT !.quiet = @ + 1] IN
      /\ n \in WorkerRec /\ n.phase = r.phase /\ n.base = r.base /\ n.scopes = r.scopes
      /\ n.token = r.token /\ n.advanced = r.advanced /\ n.opened = r.opened
  BY DEF WorkerRec
<1> QED
  BY <1>1, <1>2, <1>3, Zenon

\* What becomes of the registry in a step.
LEMMA WorkersSteps ==
  ASSUME [Next]_vars
  PROVE  \/ worker' = worker
         \/ worker' = Registry
         \/ \E w \in Workers : Works(w)
         \/ worker' = [w \in Workers |-> [worker[w] EXCEPT !.moved = FALSE]]
         \/ worker' = [w \in Workers |-> [worker[w] EXCEPT !.quiet = @ + 1]]
<1>1. CASE AppSteps
  <2>1. ASSUME NEW w \in Workers, Hang(w)
        PROVE  worker' = worker
    BY <2>1 DEF Hang
  <2>2. CASE AppReady \/ SendReport
    BY <2>2 DEF AppReady, SendReport, Send
  <2>3. CASE Freeze \/ AppStops \/ AppRefuses \/ AppContended
    BY <2>3 DEF Freeze, AppStops, AppRefuses, AppContended, Exits, ReportsEnd, registryVars
  <2>4. CASE ReaderReads \/ ReaderEnds \/ ReaderExits \/ ReaderFails \/ ReaderStalls
    BY <2>4 DEF ReaderReads, ReaderEnds, ReaderExits, ReaderFails, ReaderStalls, registryVars
  <2> QED
    BY <1>1, <2>1, <2>2, <2>3, <2>4 DEF AppSteps
<1>2. CASE AppLeaves \/ HelperEnds
  BY <1>2 DEF AppLeaves, AppExits, Exits, ReportsEnd, HelperEnds, livenessVars, registryVars
<1>3. CASE PrepareFails \/ Launch \/ Record \/ LookFails \/ CheckProcesses \/ CheckRace \/ Reap
  BY <1>3 DEF PrepareFails, Launch, Record, LookFails, CheckProcesses, CheckRace, Reap, Goes,
              livenessVars, registryVars
<1>4. CASE RecordFails \/ StopGeneration \/ Drain \/ Trap
  BY <1>4 DEF RecordFails, StopGeneration, Drain, Trap, GroupEnds, GroupStays, GroupIs, ReportsEnd
<1>5. CASE Look
  BY <1>5 DEF Look, TimePasses
<1>6. CASE ClearFails \/ WaitEnds \/ \E lasted \in BOOLEAN : Clear(lasted)
  BY <1>6 DEF ClearFails, WaitEnds, Clear, livenessVars, registryVars
<1>7. CASE UNCHANGED vars
  BY <1>7 DEF vars, livenessVars, registryVars
<1> QED
  BY <1>1, <1>2, <1>3, <1>4, <1>5, <1>6, <1>7 DEF Next, Supervise, Ended

LEMMA WorkersInvStep ==
  ASSUME WorkersInv, [Next]_vars
  PROVE  WorkersInv'
<1>0. worker \in [Workers -> WorkerRec] /\ \A w \in Workers : ScopesAgree(worker[w])
  BY DEF WorkersInv
<1> SUFFICES worker' \in [Workers -> WorkerRec] /\ \A w \in Workers : ScopesAgree(worker'[w])
  BY DEF WorkersInv
<1>1. CASE worker' = worker
  BY <1>0, <1>1
<1>2. CASE worker' = Registry
  BY <1>2, FreshAgrees DEF Registry
<1>3. ASSUME NEW w \in Workers, Works(w)
      PROVE  worker' \in [Workers -> WorkerRec] /\ \A v \in Workers : ScopesAgree(worker'[v])
  <2>1. PICK r \in WorkerRec : ScopesAgree(r) /\ worker' = [worker EXCEPT ![w] = r]
    BY <1>3, WorkersPublish DEF Becomes
  <2> QED
    BY <2>1, <1>0
<1>4. CASE worker' = [w \in Workers |-> [worker[w] EXCEPT !.moved = FALSE]]
  BY <1>0, <1>4, CountersAside
<1>5. CASE worker' = [w \in Workers |-> [worker[w] EXCEPT !.quiet = @ + 1]]
  BY <1>0, <1>5, CountersAside
<1> QED
  BY <1>1, <1>2, <1>3, <1>4, <1>5, WorkersSteps

LEMMA ShowsItsScopes ==
  ASSUME NEW r \in WorkerRec, ScopesAgree(r)
  PROVE  {r.phase} = Shows(r)
<1> DEFINE n == Len(r.scopes)
           S == {o.token : o \in r.opened}
           last == r.scopes[n]
<1>1. /\ r.scopes \in Seq(ActiveScope) /\ r.opened \subseteq ActiveScope
      /\ r.opened = {r.scopes[i] : i \in DOMAIN r.scopes}
  BY DEF WorkerRec, ScopesAgree
<1>2. n \in Nat /\ DOMAIN r.scopes = 1 .. n
  BY <1>1
<1>3. CASE r.scopes = << >>
  <2>1. r.opened = {}
    BY <1>1, <1>3
  <2> QED
    BY <2>1, <1>3 DEF Shows, ScopesAgree
<1>4. CASE r.scopes # << >>
  <2>1. n \in 1 .. n /\ last \in r.opened /\ r.opened # {}
    <3>1. n # 0
      BY <1>1, <1>4
    <3>2. n \in DOMAIN r.scopes
      BY <3>1, <1>2
    <3>3. last \in r.opened
      BY <3>2, <1>1, Zenon
    <3> QED
      BY <3>2, <3>3, <1>2
  <2> HIDE DEF n
  <2>2. \A i \in 1 .. n : r.scopes[i].token \in Nat
    BY <1>1, <1>2, TokensAreNumbers DEF ActiveScope
  <2>3. \A i \in 1 .. n : i # n => r.scopes[i].token < last.token
    BY <1>2, <2>1 DEF ScopesAgree, InOrder
  <2>4. last.token \in S /\ \A x \in S : x \in Nat /\ x <= last.token
    <3>1. last.token \in S
      BY <2>1
    <3>2. ASSUME NEW o \in r.opened
          PROVE  o.token \in Nat /\ o.token <= last.token
      <4>1. PICK i \in 1 .. n : o = r.scopes[i]
        BY <1>1, <1>2
      <4> QED
        BY <4>1, <2>1, <2>2, <2>3
    <3> QED
      BY <3>1, <3>2
  <2> HIDE DEF S, last
  <2>5. Max(S) \in S /\ \A x \in S : Max(S) >= x
    <3>1. \E m \in S : \A x \in S : m >= x
      BY <2>4
    <3> QED
      BY <3>1, Zenon DEF Max
  <2>6. Max(S) = last.token
    BY <2>4, <2>5
  <2>7. Handles(r, last.token) = {last}
    <3>1. \A o \in r.opened : o.token = last.token => o = last
      <4> SUFFICES ASSUME NEW i \in 1 .. n, r.scopes[i].token = last.token
                   PROVE  r.scopes[i] = last
        BY <1>1, <1>2
      <4>1. i = n
        BY <2>2, <2>1, <2>3 DEF last
      <4> QED
        BY <4>1 DEF last
    <3> QED
      BY <3>1, <2>1 DEF Handles
  <2>8. r.phase = last.phase
    BY <1>4 DEF ScopesAgree, last, n
  <2>9. Shows(r) = {s.phase : s \in Handles(r, Max(S))}
    BY <2>1 DEF Shows, S
  <2> QED
    BY <2>6, <2>7, <2>8, <2>9
<1> QED
  BY <1>3, <1>4

-----------------------------------------------------------------------------
(* The types of everything else.                                            *)

AppTyped ==
  /\ hung \subseteq Workers
  /\ app \in {"none", "starting", "running", "draining", "unkillable"} \cup Statuses
  /\ sink \in BOOLEAN /\ frozen \in BOOLEAN
  /\ sinceReport \in 0 .. ReportEvery

ReaderTyped ==
  /\ pipe \in Seq(Frames) /\ Len(pipe) <= PipeSize
  /\ reader \in {"none", "reading", "closing", "eof", "failed"}
  /\ stalled \in BOOLEAN
  /\ file \in [line : Lines, frame : Frames]

WatchTyped ==
  /\ pc \in Steps
  /\ seen \in [Workers -> [phase : Phases, age : Nat]]
  /\ heard \in BOOLEAN
  /\ startupAge \in -1 .. StartupGrace
  /\ pc \in {"record", "watch", "race", "look"} => startupAge < StartupGrace
  /\ failure \in {"none", "startup", "stale", "channel", "reader"}
  /\ status \in Statuses

DelayTyped == delay \in 1 .. MaxDelay /\ streak \in Nat

LEMMA AppTypedStep ==
  ASSUME AppTyped, [Next]_vars
  PROVE  AppTyped'
<1> USE DEF AppTyped, Statuses
<1>0. ReportEvery \in Nat /\ 0 \in 0 .. ReportEvery
  BY LivenessAssumption
<1>1. CASE AppSteps
  <2>1. ASSUME NEW w \in Workers, Works(w)
        PROVE  AppTyped'
    BY <2>1 DEF Works, Advance, Scope, Close, Checkpoint, Becomes, appVars
  <2>2. ASSUME NEW w \in Workers, Hang(w)
        PROVE  AppTyped'
    BY <2>2 DEF Hang, appVars
  <2>3. CASE AppReady \/ SendReport
    BY <1>0, <2>3 DEF AppReady, SendReport, Send
  <2>4. CASE Freeze \/ AppStops \/ AppRefuses \/ AppContended
    <3>1. CASE Freeze
      BY <3>1 DEF Freeze, registryVars
    <3>2. CASE AppStops
      BY <1>0, <3>2, Zenon DEF AppStops, ReportsEnd
    <3>3. CASE AppRefuses \/ AppContended
      BY <1>0, <3>3 DEF AppRefuses, AppContended, Exits, ReportsEnd
    <3> QED
      BY <2>4, <3>1, <3>2, <3>3
  <2>5. CASE ReaderReads \/ ReaderEnds \/ ReaderExits \/ ReaderFails \/ ReaderStalls
    BY <2>5 DEF ReaderReads, ReaderEnds, ReaderExits, ReaderFails, ReaderStalls, registryVars, appVars
  <2> QED
    BY <1>1, <2>1, <2>2, <2>3, <2>4, <2>5 DEF AppSteps
<1>2. CASE AppLeaves \/ HelperEnds
  <2>1. CASE AppLeaves
    BY <1>0, <2>1 DEF AppLeaves, AppExits, Exits, ReportsEnd
  <2>2. CASE HelperEnds
    BY <2>2 DEF HelperEnds, livenessVars, registryVars, appVars
  <2> QED
    BY <1>2, <2>1, <2>2
<1>3. CASE PrepareFails \/ Launch \/ Record \/ LookFails \/ CheckProcesses \/ CheckRace \/ Reap
  BY <1>3 DEF PrepareFails, Launch, Record, LookFails, CheckProcesses, CheckRace, Reap, Goes,
              livenessVars, registryVars, appVars
<1>4. CASE RecordFails \/ StopGeneration \/ Drain \/ Trap
  <2>1. /\ app' \in {"none", "unkillable"} /\ sinceReport' = 0 /\ sink' = FALSE
        /\ hung' = {} /\ frozen' = FALSE
    BY <1>4 DEF RecordFails, StopGeneration, Drain, Trap, GroupEnds, GroupStays, GroupIs, ReportsEnd
  <2> QED
    BY <1>0, <2>1
<1>5. CASE Look
  <2>1. sinceReport' \in 0 .. ReportEvery
    BY <1>0, <1>5 DEF Look, TimePasses
  <2> QED
    BY <1>5, <2>1 DEF Look
<1>6. CASE ClearFails \/ WaitEnds \/ \E lasted \in BOOLEAN : Clear(lasted)
  BY <1>6 DEF ClearFails, WaitEnds, Clear, livenessVars, registryVars, appVars
<1>7. CASE UNCHANGED vars
  BY <1>7 DEF vars, livenessVars, registryVars, appVars
<1> QED
  BY <1>1, <1>2, <1>3, <1>4, <1>5, <1>6, <1>7 DEF Next, Supervise, Ended

LEMMA SnapshotsAreFrames ==
  ASSUME WorkersInv
  PROVE  Snapshots \in Frames
  BY DEF WorkersInv, WorkerRec, Snapshots, Frames, Report

LEMMA MergedIsFrame ==
  ASSUME file \in [line : Lines, frame : Frames], NEW f \in Frames
  PROVE  Merged(f) \in Frames
  BY DEF Merged, Frames, Report

LEMMA SilenceIsFrame == Silence \in Frames
  BY DEF Silence, Frames, Report, Phases

LEMMA ReaderTypedStep ==
  ASSUME WorkersInv, ReaderTyped, [Next]_vars
  PROVE  ReaderTyped'
<1> USE DEF ReaderTyped
<1>0. /\ PipeSize \in Nat \ {0} /\ << >> \in Seq(Frames) /\ Len(<< >>) = 0
      /\ \A line \in Lines : Says(line) \in [line : Lines, frame : Frames]
  BY LivenessAssumption, SilenceIsFrame DEF Says
<1>1. CASE AppSteps
  <2>1. ASSUME NEW w \in Workers, Works(w) \/ Hang(w)
        PROVE  ReaderTyped'
    BY <2>1 DEF Works, Advance, Scope, Close, Checkpoint, Becomes, readerVars, Hang
  <2>2. CASE AppReady \/ SendReport
    <3>1. UNCHANGED <<readerVars, file>>
      BY <2>2 DEF AppReady, SendReport, Send
    <3>2. pipe' = pipe \/ (Len(pipe) < PipeSize /\ pipe' = Append(pipe, Snapshots))
      BY <2>2 DEF AppReady, SendReport, Send
    <3>3. pipe' \in Seq(Frames) /\ Len(pipe') <= PipeSize
      BY <1>0, <3>2, SnapshotsAreFrames
    <3> QED
      BY <3>1, <3>3 DEF readerVars
  <2>3. CASE Freeze \/ AppStops \/ AppRefuses \/ AppContended
    BY <2>3 DEF Freeze, AppStops, AppRefuses, AppContended, Exits, readerVars
  <2>4. CASE ReaderReads
    <3>1. pipe \in Seq(Frames) /\ pipe # << >> /\ Head(pipe) \in Frames
      BY <2>4 DEF ReaderReads
    <3>2. pipe' \in Seq(Frames) /\ Len(pipe') <= PipeSize
      BY <1>0, <3>1, <2>4 DEF ReaderReads
    <3>3. file' \in [line : Lines, frame : Frames]
      <4>1. "frame" \in Lines /\ "refused" \in Lines
        BY DEF Lines
      <4>2. file' = [line |-> "frame", frame |-> Merged(Head(pipe))] \/ file' = Says("refused")
        BY <2>4 DEF ReaderReads
      <4> QED
        BY <4>1, <4>2, <1>0, <3>1, MergedIsFrame
    <3> QED
      BY <3>2, <3>3, <2>4 DEF ReaderReads
  <2>5. CASE ReaderEnds \/ ReaderExits \/ ReaderFails \/ ReaderStalls
    <3>1. file' = file \/ file' = Says("eof")
      BY <2>5 DEF ReaderEnds, ReaderExits, ReaderFails, ReaderStalls
    <3>2. file' \in [line : Lines, frame : Frames]
      BY <1>0, <3>1 DEF Lines
    <3> QED
      BY <2>5, <3>2 DEF ReaderEnds, ReaderExits, ReaderFails, ReaderStalls
  <2> QED
    BY <1>1, <2>1, <2>2, <2>3, <2>4, <2>5 DEF AppSteps
<1>2. CASE AppLeaves \/ HelperEnds
  BY <1>2 DEF AppLeaves, AppExits, Exits, HelperEnds, livenessVars, readerVars
<1>3. CASE PrepareFails \/ Launch \/ Record \/ LookFails \/ CheckProcesses \/ CheckRace
  BY <1>3 DEF PrepareFails, Launch, Record, LookFails, CheckProcesses, CheckRace, Goes,
              livenessVars, readerVars
<1>4. CASE RecordFails \/ StopGeneration \/ Reap \/ Drain \/ Trap
  <2>1. pipe' = pipe \/ pipe' = << >>
    BY <1>4 DEF RecordFails, StopGeneration, Reap, Drain, Trap, ReaderStops
  <2>2. file' = file \/ file' = Says("none")
    BY <1>4 DEF RecordFails, StopGeneration, Reap, Drain, Trap
  <2>3. UNCHANGED <<reader, stalled>> \/ (reader' = "none" /\ stalled' = FALSE)
    BY <1>4 DEF RecordFails, StopGeneration, Reap, Drain, Trap, ReaderStops, readerVars
  <2>4. pipe' \in Seq(Frames) /\ Len(pipe') <= PipeSize
    <3>1. CASE pipe' = pipe
      BY <3>1
    <3>2. CASE pipe' = << >>
      BY <1>0, <3>2
    <3> QED
      BY <2>1, <3>1, <3>2
  <2>5. file' \in [line : Lines, frame : Frames]
    BY <1>0, <2>2 DEF Lines
  <2> QED
    BY <2>3, <2>4, <2>5
<1>5. CASE Look
  <2>1. file' = file \/ file' = [line |-> "consumed",
                   frame |-> [w \in Workers |-> [file.frame[w] EXCEPT !.moved = FALSE]]]
    BY <1>5 DEF Look
  <2>2. [w \in Workers |-> [file.frame[w] EXCEPT !.moved = FALSE]] \in Frames
    BY DEF Frames, Report
  <2>3. file' \in [line : Lines, frame : Frames]
    <3> DEFINE g == [w \in Workers |-> [file.frame[w] EXCEPT !.moved = FALSE]]
    <3>1. g \in Frames /\ "consumed" \in Lines
      BY <2>2 DEF Lines
    <3> HIDE DEF g
    <3>2. [line |-> "consumed", frame |-> g] \in [line : Lines, frame : Frames]
      BY <3>1
    <3> QED
      BY <2>1, <3>2 DEF g
  <2> QED
    BY <1>5, <2>3 DEF Look, readerVars
<1>6. CASE ClearFails \/ WaitEnds \/ \E lasted \in BOOLEAN : Clear(lasted)
  <2>1. UNCHANGED <<pipe, readerVars>> /\ (file' = file \/ file' = Says("none"))
    BY <1>6 DEF ClearFails, WaitEnds, Clear, livenessVars
  <2>2. file' \in [line : Lines, frame : Frames]
    BY <1>0, <2>1 DEF Lines
  <2> QED
    BY <2>1, <2>2 DEF readerVars
<1>7. CASE UNCHANGED vars
  BY <1>7 DEF vars, livenessVars, readerVars
<1> QED
  BY <1>1, <1>2, <1>3, <1>4, <1>5, <1>6, <1>7 DEF Next, Supervise, Ended

LEMMA AgedTyped ==
  ASSUME ReaderTyped, WatchTyped
  PROVE  Aged \in [Workers -> [phase : Phases, age : Nat]]
<1>1. \A w \in Workers : seen[w] \in [phase : Phases, age : Nat]
  BY DEF WatchTyped
<1>2. \A w \in Workers : file.frame[w].phase \in Phases
  BY DEF ReaderTyped, Frames, Report
<1>3. \A w \in Workers : [seen[w] EXCEPT !.age = @ + 1] \in [phase : Phases, age : Nat]
  BY <1>1
<1>4. \A w \in Workers : [phase |-> file.frame[w].phase, age |-> 0] \in [phase : Phases, age : Nat]
  BY <1>2
<1> QED
  BY <1>3, <1>4 DEF Aged, Older

LEMMA NewWatchTyped ==
  /\ StartupGrace \in Nat \ {0}
  /\ Unseen \in [Workers -> [phase : Phases, age : Nat]]
  /\ -1 \in -1 .. StartupGrace /\ -1 < StartupGrace
<1>1. StartupGrace \in Nat \ {0}
  BY SupervisorAssumption
<1>2. Unseen \in [Workers -> [phase : Phases, age : Nat]]
  BY DEF Unseen, Phases
<1> QED
  BY <1>1, <1>2

LEMMA WatchTypedStep ==
  ASSUME ReaderTyped, WatchTyped, GenerationInv, [Next]_vars
  PROVE  WatchTyped'
<1> USE DEF WatchTyped
<1>0. /\ StartupGrace \in Nat \ {0}
      /\ Unseen \in [Workers -> [phase : Phases, age : Nat]]
      /\ -1 \in -1 .. StartupGrace /\ -1 < StartupGrace
  BY NewWatchTyped
<1>1. CASE AppSteps \/ AppLeaves \/ HelperEnds
  BY <1>1 DEF AppSteps, AppLeaves, HelperEnds, supervisorVars, watchVars
<1>2. CASE NewWatch /\ pc' \in Steps /\ status' = status
  BY <1>0, <1>2 DEF NewWatch
<1>3. CASE UNCHANGED watchVars /\ pc' \in Steps \ {"record", "watch", "race", "look"} /\ status' \in Statuses
  BY <1>3 DEF watchVars
<1>4. CASE PrepareFails \/ RecordFails \/ Trap \/ ClearFails
  BY <1>2, <1>4 DEF PrepareFails, RecordFails, Trap, ClearFails, Leaves, Steps
<1>5. CASE Launch
  <2>1. "record" \in Steps /\ "ok" \in Statuses
    BY DEF Steps, Statuses
  <2> QED
    BY <1>0, <1>5, <2>1 DEF Launch, NewWatch
<1>6. CASE Record
  BY <1>6 DEF Record, watchVars, Steps
<1>7. CASE LookFails \/ CheckProcesses \/ CheckRace
  BY <1>7 DEF LookFails, CheckProcesses, CheckRace, Goes, Fails, watchVars, Steps
<1>8. CASE Look
  <2>1. seen' = seen \/ seen' = Aged
    BY <1>8 DEF Look
  <2>2. seen' \in [Workers -> [phase : Phases, age : Nat]]
    BY <2>1, AgedTyped
  <2>3. heard' \in BOOLEAN /\ status' = status
    BY <1>8 DEF Look
  <2>4. startupAge' \in -1 .. StartupGrace
    BY <1>0, <1>8 DEF Look
  <2>5. /\ pc' \in {"failed", "watch"}
        /\ pc' = "watch" => startupAge' < StartupGrace
        /\ failure' \in {failure, "stale", "startup"}
    BY <1>0, <1>8 DEF Look, Fails
  <2> QED
    BY <2>2, <2>3, <2>4, <2>5 DEF Steps
<1>9. CASE StopGeneration \/ Drain
  <2>1. CASE StopGeneration
    <3>1. status' \in Statuses
      BY <2>1 DEF StopGeneration, Statuses
    <3>2. (pc' = "drain" /\ UNCHANGED watchVars) \/ (pc' = "ended" /\ NewWatch)
      BY <2>1 DEF StopGeneration, Leaves
    <3> QED
      BY <3>1, <3>2, <1>0 DEF Steps, NewWatch, watchVars
  <2>2. CASE Drain
    <3>1. (pc' = "clear" /\ UNCHANGED watchVars) \/ (pc' = "ended" /\ NewWatch)
      BY <2>2 DEF Drain, Leaves
    <3>2. status' = status
      BY <2>2 DEF Drain
    <3> QED
      BY <3>1, <3>2, <1>0 DEF Steps, NewWatch, watchVars
  <2> QED
    BY <1>9, <2>1, <2>2
<1>10. CASE Reap
  <2>1. app \in Statuses
    BY <1>10 DEF Reap, GenerationInv, Custody
  <2> QED
    BY <1>3, <1>10, <2>1 DEF Reap, Steps
<1>11. CASE WaitEnds
  BY <1>11, <1>3 DEF WaitEnds, Steps
<1>12. ASSUME NEW lasted \in BOOLEAN, Clear(lasted)
       PROVE  WatchTyped'
  BY <1>12, <1>2 DEF Clear, Steps
<1>13. CASE UNCHANGED vars
  BY <1>13 DEF vars, supervisorVars, watchVars
<1> QED
  BY <1>1, <1>4, <1>5, <1>6, <1>7, <1>8, <1>9, <1>10, <1>11, <1>12, <1>13 DEF Next, Supervise, Ended

LEMMA DelayTypedStep ==
  ASSUME DelayTyped, [Next]_vars
  PROVE  DelayTyped'
<1> USE DEF DelayTyped
<1>0. MaxDelay \in Nat \ {0}
  BY SupervisorAssumption
<1>1. CASE UNCHANGED delayVars
  BY <1>1 DEF delayVars
<1>2. CASE AppSteps \/ AppLeaves \/ HelperEnds
  BY <1>1, <1>2 DEF AppSteps, AppLeaves, HelperEnds, supervisorVars
<1>3. CASE PrepareFails \/ RecordFails \/ Trap \/ ClearFails \/ Launch \/ Record \/ LookFails
           \/ CheckProcesses \/ CheckRace \/ Look \/ StopGeneration \/ Drain \/ Reap
  BY <1>1, <1>3 DEF PrepareFails, RecordFails, Trap, ClearFails, Launch, Record, LookFails,
                    CheckProcesses, CheckRace, Look, StopGeneration, Drain, Reap, Goes
<1>4. CASE WaitEnds
  <2>1. delay' = Doubled
    BY <1>4 DEF WaitEnds
  <2>2. streak' = streak + 1 \/ streak' = streak
    BY <1>4, Zenon DEF WaitEnds
  <2>3. delay' \in 1 .. MaxDelay
    BY <1>0, <2>1 DEF Doubled
  <2> QED
    BY <2>2, <2>3
<1>5. ASSUME NEW lasted \in BOOLEAN, Clear(lasted)
      PROVE  DelayTyped'
  BY <1>0, <1>5 DEF Clear
<1>6. CASE UNCHANGED vars
  BY <1>1, <1>6 DEF vars, supervisorVars
<1> QED
  BY <1>2, <1>3, <1>4, <1>5, <1>6 DEF Next, Supervise, Ended

TypeInv == WorkersInv /\ AppTyped /\ ReaderTyped /\ WatchTyped /\ DelayTyped /\ GenerationInv

LEMMA TypeInvStart == Init => TypeInv
<1> SUFFICES ASSUME Init
             PROVE  TypeInv
  OBVIOUS
<1> USE DEF Init, LivenessInit
<1>0. ReportEvery \in Nat /\ PipeSize \in Nat
  BY LivenessAssumption
<1>1. AppTyped
  <2>1. 0 \in 0 .. ReportEvery
    BY <1>0
  <2>2. sinceReport \in 0 .. ReportEvery
    BY <2>1
  <2>3. sink \in BOOLEAN /\ frozen \in BOOLEAN
    OBVIOUS
  <2>4. hung \subseteq Workers
    OBVIOUS
  <2> QED
    BY <2>2, <2>3, <2>4 DEF AppTyped
<1>2. ReaderTyped
  <2>1. << >> \in Seq(Frames) /\ Len(<< >>) <= PipeSize
    BY <1>0
  <2>2. Says("none") \in [line : Lines, frame : Frames]
    BY SilenceIsFrame DEF Says, Lines
  <2> QED
    BY <2>1, <2>2 DEF ReaderTyped
<1>3. WatchTyped
  BY NewWatchTyped DEF WatchTyped, Steps, Statuses
<1>4. DelayTyped
  BY SupervisorAssumption DEF DelayTyped
<1> QED
  BY <1>1, <1>2, <1>3, <1>4, WorkersInvStart, GenerationStart DEF TypeInv

LEMMA TypeInvStep == TypeInv /\ [Next]_vars => TypeInv'
  BY WorkersInvStep, AppTypedStep, ReaderTypedStep, WatchTypedStep, DelayTypedStep, GenerationStep
  DEF TypeInv

LEMMA TypesOK == TypeInv => SupervisorTypeOK
<1> SUFFICES ASSUME TypeInv
             PROVE  SupervisorTypeOK
  OBVIOUS
<1>1. ASSUME NEW w \in Workers
      PROVE  /\ {worker[w].phase, worker[w].base, worker[w].advanced} \subseteq Phases
             /\ worker[w].scopes \in Seq(ActiveScope)
             /\ worker[w].token \in Tokens \cup {0}
             /\ worker[w].moved \in BOOLEAN
             /\ worker[w].quiet \in Nat
             /\ worker[w].opened \subseteq ActiveScope
  <2>1. worker[w] \in WorkerRec
    BY DEF TypeInv, WorkersInv
  <2> QED
    BY <2>1 DEF WorkerRec
<1>2. LivenessTypeOK
  BY <1>1 DEF TypeInv, AppTyped, ReaderTyped, LivenessTypeOK
<1>3. {heard, recorded, left} \subseteq BOOLEAN
  BY DEF TypeInv, WatchTyped, GenerationInv, Custody
<1> QED
  BY <1>2, <1>3 DEF TypeInv, WatchTyped, DelayTyped, SupervisorTypeOK

-----------------------------------------------------------------------------
(* The stages of a generation: what is there before the first frame, and    *)
(* what is left after the last one.                                         *)

AllQuietZero == \A w \in Workers : worker[w].quiet = 0

StageInv ==
  /\ app \notin {"starting", "running"} => worker = Registry /\ sinceReport = 0
  /\ app = "starting" => /\ pipe = << >> /\ file.line = "none" /\ ~heard
                         /\ sinceReport = 0 /\ AllQuietZero
  /\ app \in {"starting", "running"} => sink /\ reader \in {"reading", "failed"}
  /\ sink => app \in {"starting", "running"} \/ frozen
  /\ reader = "none" => pipe = << >> /\ ~stalled
  /\ pc \in {"prepare", "wait"} => file.line = "none"
  /\ reader \in {"closing", "eof"} => file.line = "eof"
  /\ reader = "reading" => file.line \notin Errors
  /\ pc = "record" => AllQuietZero
  /\ pc \in {"record", "watch", "race", "look"} => reader # "none"

LEMMA RegistryIsQuiet == \A w \in Workers : Registry[w].quiet = 0
  BY DEF Registry, Fresh

\* The group and the reader of a generation are gone.
LEMMA StageEnds ==
  ASSUME TypeInv, StageInv,
         app' \in {"none", "unkillable"} \cup Statuses, worker' = Registry, sinceReport' = 0,
         sink' => frozen',
         reader' = "none", stalled' = FALSE, pipe' = << >>,
         pc' \in {"drain", "clear", "ended"}
  PROVE  StageInv'
  BY DEF StageInv, Statuses

LEMMA StageStep ==
  ASSUME TypeInv, StageInv, [Next]_vars
  PROVE  StageInv'
<1> USE DEF StageInv, Statuses, Errors
<1>1. ASSUME NEW w \in Workers, Works(w), UNCHANGED supervisorVars
      PROVE  StageInv'
  <2>1. PICK r \in WorkerRec : r.quiet = 0 /\ Becomes(w, r) /\ Acts(w)
    BY <1>1, WorkersPublish DEF TypeInv
  <2>2. /\ worker' = [worker EXCEPT ![w] = r] /\ worker \in [Workers -> WorkerRec]
        /\ UNCHANGED <<app, sink, sinceReport, frozen, pipe, reader, stalled, file, pc, heard>>
        /\ app \in {"starting", "running"}
    BY <1>1, <2>1 DEF Becomes, Acts, appVars, readerVars, supervisorVars, watchVars, TypeInv, WorkersInv
  <2>3. AllQuietZero => AllQuietZero'
    BY <2>1, <2>2 DEF AllQuietZero
  <2> QED
    BY <2>2, <2>3
<1>2. ASSUME NEW w \in Workers, Hang(w), UNCHANGED supervisorVars
      PROVE  StageInv'
  BY <1>2 DEF Hang, appVars, readerVars, supervisorVars, watchVars, AllQuietZero
<1>3. CASE (AppReady \/ SendReport) /\ UNCHANGED supervisorVars
  <2>1. /\ app \in {"starting", "running"} /\ app' = "running"
        /\ UNCHANGED <<sink, frozen, reader, stalled, file, pc, heard>>
    BY <1>3 DEF AppReady, SendReport, Send, readerVars, supervisorVars, watchVars
  <2>2. worker' = worker \/ worker' = [w \in Workers |-> [worker[w] EXCEPT !.moved = FALSE]]
    BY <1>3 DEF AppReady, SendReport, Send
  <2>3. AllQuietZero => AllQuietZero'
    <3>1. \A w \in Workers : worker[w] \in WorkerRec
      BY DEF TypeInv, WorkersInv
    <3>2. \A w \in Workers : [worker[w] EXCEPT !.moved = FALSE].quiet = worker[w].quiet
      BY <3>1 DEF WorkerRec
    <3>3. \A w \in Workers : worker'[w].quiet = worker[w].quiet
      BY <2>2, <3>2
    <3> QED
      BY <3>3 DEF AllQuietZero
  <2> QED
    BY <2>1, <2>3
<1>4. CASE (Freeze \/ AppStops \/ AppRefuses \/ AppContended) /\ UNCHANGED supervisorVars
  <2>1. CASE Freeze
    BY <1>4, <2>1 DEF Freeze, registryVars, readerVars, supervisorVars, watchVars, AllQuietZero
  <2>2. CASE AppStops
    BY <1>4, <2>2, RegistryIsQuiet DEF AppStops, ReportsEnd, readerVars, supervisorVars, watchVars, AllQuietZero
  <2>3. CASE AppRefuses \/ AppContended
    BY <1>4, <2>3, RegistryIsQuiet DEF AppRefuses, AppContended, Exits, ReportsEnd, readerVars, supervisorVars,
                                  watchVars, AllQuietZero
  <2> QED
    BY <1>4, <2>1, <2>2, <2>3
<1>5. CASE ReaderReads /\ UNCHANGED supervisorVars
  <2>1. /\ UNCHANGED <<worker, app, sink, sinceReport, frozen, stalled, pc, heard>>
        /\ reader = "reading" /\ pipe # << >>
    BY <1>5 DEF ReaderReads, registryVars, appVars, supervisorVars, watchVars
  <2>2. (reader' = "reading" /\ file'.line = "frame") \/ reader' = "failed"
    BY <1>5 DEF ReaderReads
  <2>3. AllQuietZero' = AllQuietZero
    BY <2>1 DEF AllQuietZero
  <2>4. pc \notin {"prepare", "wait"}
    BY <2>1 DEF TypeInv, GenerationInv, OneGeneration
  <2> QED
    BY <2>1, <2>2, <2>3, <2>4
<1>6. CASE (ReaderEnds \/ ReaderExits \/ ReaderFails \/ ReaderStalls) /\ UNCHANGED supervisorVars
  <2>1. UNCHANGED <<worker, app, sink, sinceReport, frozen, pipe, pc, heard>>
    BY <1>6 DEF ReaderEnds, ReaderExits, ReaderFails, ReaderStalls, registryVars, appVars,
                supervisorVars, watchVars
  <2>2. AllQuietZero' = AllQuietZero
    BY <2>1 DEF AllQuietZero
  <2>3. pc \in {"prepare", "wait"} => reader = "none"
    BY DEF TypeInv, GenerationInv, OneGeneration
  <2>4. CASE ReaderEnds
    BY <2>1, <2>2, <2>3, <2>4 DEF ReaderEnds, Says
  <2>5. CASE ReaderExits \/ ReaderFails \/ ReaderStalls
    BY <2>1, <2>2, <2>3, <2>5 DEF ReaderExits, ReaderFails, ReaderStalls
  <2> QED
    BY <1>6, <2>4, <2>5
<1>7. CASE AppLeaves
  <2>1. /\ worker' = Registry /\ sinceReport' = 0 /\ sink' = FALSE /\ app' \in Statuses
        /\ UNCHANGED <<frozen, pipe, reader, stalled, file, pc, heard>>
    BY <1>7 DEF AppLeaves, AppExits, Exits, ReportsEnd, readerVars, watchVars
  <2> QED
    BY <2>1, RegistryIsQuiet DEF AllQuietZero
<1>8. CASE HelperEnds
  BY <1>8 DEF HelperEnds, livenessVars, registryVars, appVars, readerVars, watchVars, AllQuietZero
<1>9. CASE PrepareFails \/ ClearFails
  BY <1>9 DEF PrepareFails, ClearFails, Leaves, NewWatch, livenessVars, registryVars, appVars, readerVars,
              AllQuietZero
<1>10. CASE Launch
  <2>1. app = "none" /\ reader = "none" /\ file.line = "none" /\ pipe = << >> /\ ~stalled
    BY <1>10 DEF Launch, TypeInv, GenerationInv, OneGeneration
  <2>2. worker = Registry /\ sinceReport = 0
    BY <2>1
  <2>3. /\ pc' = "record" /\ app' = "starting" /\ sink' = TRUE /\ reader' = "reading" /\ heard' = FALSE
        /\ UNCHANGED <<worker, sinceReport, pipe, file>>
    BY <1>10 DEF Launch, NewWatch, registryVars
  <2>4. AllQuietZero'
    BY <2>2, <2>3, RegistryIsQuiet DEF AllQuietZero
  <2> QED
    BY <2>1, <2>2, <2>3, <2>4
<1>11. CASE Record \/ CheckProcesses \/ CheckRace \/ LookFails
  <2>1. /\ UNCHANGED <<livenessVars, heard>> /\ pc' \in {"watch", "race", "look", "reap", "failed"}
        /\ pc \in {"record", "watch", "race", "look"}
    BY <1>11 DEF Record, CheckProcesses, CheckRace, LookFails, Goes, Fails, watchVars
  <2> QED
    BY <2>1 DEF livenessVars, registryVars, appVars, readerVars, AllQuietZero
<1>12. CASE RecordFails \/ StopGeneration \/ Drain \/ Trap
  <2>1. /\ app' \in {"none", "unkillable"} /\ worker' = Registry /\ sinceReport' = 0 /\ sink' = FALSE
        /\ pc' \in {"drain", "clear", "ended"}
    BY <1>12 DEF RecordFails, StopGeneration, Drain, Trap, GroupEnds, GroupStays, GroupIs, ReportsEnd, Leaves
  <2>2. reader' = "none" /\ stalled' = FALSE /\ pipe' = << >>
    <3>1. CASE Drain
      BY <3>1 DEF Drain, readerVars, TypeInv, GenerationInv, Custody, ReaderTyped
    <3> QED
      BY <1>12, <3>1 DEF RecordFails, StopGeneration, Trap, ReaderStops
  <2> QED
    BY <2>1, <2>2, StageEnds
<1>13. CASE Reap
  <2>1. app \in Statuses
    BY <1>13 DEF Reap, TypeInv, GenerationInv, Custody
  <2>2. worker' = Registry /\ sinceReport' = 0 /\ (sink' => frozen')
    BY <1>13, <2>1 DEF Reap, registryVars
  <2> QED
    BY <1>13, <2>2, StageEnds DEF Reap, ReaderStops
<1>14. CASE Look
  <2>1. /\ UNCHANGED <<app, sink, frozen, pipe, reader, stalled>> /\ pc = "look" /\ pc' \in {"watch", "failed"}
        /\ app # "running" => UNCHANGED <<worker, sinceReport>>
    BY <1>14 DEF Look, TimePasses, Fails, readerVars
  <2>2. /\ file.line = "none" => file' = file /\ heard' = heard
        /\ file'.line \in {file.line, "consumed"}
        /\ file.line \notin {"refused", "eof"}
    BY <1>14 DEF Look, WatchTyped, TypeInv
  <2>3. app # "running" /\ AllQuietZero => AllQuietZero'
    BY <2>1 DEF AllQuietZero
  <2> QED
    BY <2>1, <2>2, <2>3
<1>15. CASE WaitEnds
  BY <1>15 DEF WaitEnds, livenessVars, registryVars, appVars, readerVars, watchVars, AllQuietZero
<1>16. ASSUME NEW lasted \in BOOLEAN, Clear(lasted)
       PROVE  StageInv'
  <2>1. app = "none" /\ reader = "none" /\ pc' \in {"ended", "wait"} /\ file'.line = "none"
    BY <1>16 DEF Clear, Says, TypeInv, GenerationInv, OneGeneration
  <2>2. UNCHANGED <<worker, app, sink, sinceReport, frozen, pipe, reader, stalled>>
    BY <1>16 DEF Clear, registryVars, appVars, readerVars
  <2> QED
    BY <2>1, <2>2
<1>17. CASE UNCHANGED vars
  BY <1>17 DEF vars, livenessVars, registryVars, appVars, readerVars, supervisorVars, watchVars, AllQuietZero
<1> QED
  BY <1>1, <1>2, <1>3, <1>4, <1>5, <1>6, <1>7, <1>8, <1>9, <1>10, <1>11, <1>12, <1>13, <1>14, <1>15,
     <1>16, <1>17 DEF Next, AppSteps, Supervise, Ended

LEMMA StageStart == Init => StageInv
  BY DEF Init, LivenessInit, StageInv, Says, Errors

-----------------------------------------------------------------------------
(* No frame is refused.  Each frame follows the one before it, the next one *)
(* would follow the last, and the reader compares with the last one it has  *)
(* read: a phase is another one only where the sequence has moved.          *)

Follow(f, g) == \A w \in Workers : g[w].moved \/ g[w].phase = f[w].phase

Reporting == app \in {"starting", "running"}

ChainInv ==
  /\ file.line # "refused"
  /\ reader = "reading" /\ pipe # << >> /\ file.line # "none" => Follow(file.frame, pipe[1])
  /\ \A i \in 1 .. Len(pipe) - 1 : Follow(pipe[i], pipe[i + 1])
  /\ Reporting /\ pipe # << >> => Follow(pipe[Len(pipe)], Snapshots)
  /\ Reporting /\ pipe = << >> /\ reader = "reading" /\ file.line # "none" =>
       Follow(file.frame, Snapshots)

LEMMA ChainStart == Init => ChainInv
  BY DEF Init, LivenessInit, ChainInv, Says, Reporting

LEMMA WorksFollows ==
  ASSUME WorkersInv, NEW w \in Workers, Works(w), NEW f, Follow(f, Snapshots)
  PROVE  Follow(f, Snapshots')
<1>1. PICK r \in WorkerRec : r.moved /\ worker' = [worker EXCEPT ![w] = r]
  BY WorkersPublish DEF Becomes
<1>2. worker \in [Workers -> WorkerRec]
  BY DEF WorkersInv
<1>3. worker'[w] = r /\ \A v \in Workers \ {w} : worker'[v] = worker[v]
  BY <1>1, <1>2
<1>4. Snapshots'[w].moved /\ \A v \in Workers \ {w} : Snapshots'[v] = Snapshots[v]
  BY <1>1, <1>3 DEF Snapshots
<1> QED
  BY <1>4 DEF Follow

\* Nothing is reported any more, or nothing has been.
LEMMA ChainEnds ==
  ASSUME pipe' = << >>, file'.line # "refused",
         app' \notin {"starting", "running"} \/ reader' # "reading" \/ file'.line = "none"
  PROVE  ChainInv'
<1>1. Len(pipe') = 0
  BY Zenon
<1>2. 1 .. Len(pipe') - 1 = {}
  BY <1>1
<1> QED
  BY <1>2 DEF ChainInv, Reporting

\* The frames and what is compared with them stay.
LEMMA ChainStays ==
  ASSUME ChainInv, UNCHANGED <<pipe, file, Snapshots>>,
         reader' = "reading" => reader = "reading",
         app' \in {"starting", "running"} => app \in {"starting", "running"}
  PROVE  ChainInv'
  BY DEF ChainInv, Reporting, Follow

LEMMA ChainStep ==
  ASSUME TypeInv, StageInv, ChainInv, [Next]_vars
  PROVE  ChainInv'
<1>1. ASSUME NEW w \in Workers, Works(w), UNCHANGED supervisorVars
      PROVE  ChainInv'
  <2>1. UNCHANGED <<app, pipe, reader, file>>
    BY <1>1, WorkersPublish DEF Becomes, appVars, readerVars, TypeInv
  <2>2. \A f : Follow(f, Snapshots) => Follow(f, Snapshots')
    BY <1>1, WorksFollows DEF TypeInv
  <2> QED
    BY <2>1, <2>2 DEF ChainInv, Reporting, Follow
<1>2. ASSUME NEW w \in Workers, Hang(w)
      PROVE  ChainInv'
  BY <1>2, ChainStays DEF Hang, appVars, readerVars, Snapshots
<1>3. CASE AppReady \/ SendReport
  <2> DEFINE n == Len(pipe)
  <2>1. app \in {"starting", "running"} /\ UNCHANGED <<reader, file>>
    BY <1>3 DEF AppReady, SendReport, Send, readerVars
  <2>2. CASE ~(n < PipeSize)
    <3>1. pipe' = pipe /\ worker' = worker
      BY <1>3, <2>2 DEF AppReady, SendReport, Send
    <3> QED
      BY <2>1, <3>1, ChainStays DEF Snapshots
  <2>3. CASE n < PipeSize
    <3>1. /\ pipe' = Append(pipe, Snapshots)
          /\ worker' = [w \in Workers |-> [worker[w] EXCEPT !.moved = FALSE]]
      BY <1>3, <2>3 DEF AppReady, SendReport, Send
    <3>2. pipe \in Seq(Frames) /\ Snapshots \in Frames /\ worker \in [Workers -> WorkerRec]
      BY SnapshotsAreFrames DEF TypeInv, ReaderTyped, WorkersInv
    <3>3. /\ n \in Nat /\ Len(pipe') = n + 1 /\ pipe' # << >> /\ pipe'[n + 1] = Snapshots
          /\ \A i \in 1 .. n : pipe'[i] = pipe[i]
          /\ n = 0 <=> pipe = << >>
      BY <3>1, <3>2
    <3> HIDE DEF n
    <3>4. Follow(Snapshots, Snapshots')
      <4>1. \A w \in Workers : worker'[w].phase = worker[w].phase
        BY <3>1, <3>2 DEF WorkerRec
      <4> QED
        BY <4>1 DEF Follow, Snapshots
    <3>5. pipe # << >> => Follow(pipe[n], Snapshots)
      BY <2>1 DEF ChainInv, Reporting, n
    <3>6. ASSUME NEW i \in 1 .. Len(pipe') - 1
          PROVE  Follow(pipe'[i], pipe'[i + 1])
      <4>1. CASE i = n
        <5>1. pipe # << >> /\ pipe'[i] = pipe[n] /\ pipe'[i + 1] = Snapshots
          BY <3>3, <3>6, <4>1
        <5> QED
          BY <5>1, <3>5
      <4>2. CASE i # n
        <5>1. i \in 1 .. n - 1 /\ pipe'[i] = pipe[i] /\ pipe'[i + 1] = pipe[i + 1]
          BY <3>3, <3>6, <4>2
        <5>2. Follow(pipe[i], pipe[i + 1])
          BY <5>1 DEF ChainInv, n
        <5> QED
          BY <5>1, <5>2
      <4> QED
        BY <4>1, <4>2
    <3>7. reader = "reading" /\ file.line # "none" => Follow(file.frame, pipe'[1])
      <4>1. CASE pipe = << >>
        BY <4>1, <2>1, <3>3 DEF ChainInv, Reporting
      <4>2. CASE pipe # << >>
        <5>1. pipe'[1] = pipe[1]
          BY <4>2, <3>3
        <5> QED
          BY <4>2, <5>1 DEF ChainInv
      <4> QED
        BY <4>1, <4>2
    <3>8. Follow(pipe'[Len(pipe')], Snapshots')
      BY <3>3, <3>4
    <3>9. file'.line # "refused"
      BY <2>1 DEF ChainInv
    <3> HIDE <3>1
    <3> QED
      BY <2>1, <3>3, <3>6, <3>7, <3>8, <3>9 DEF ChainInv
  <2> QED
    BY <2>2, <2>3
<1>4. CASE Freeze
  BY <1>4, ChainStays DEF Freeze, registryVars, readerVars, Snapshots
<1>5. CASE AppStops \/ AppRefuses \/ AppContended \/ AppLeaves
  <2>1. app' \notin {"starting", "running"} /\ UNCHANGED <<pipe, reader, file>>
    BY <1>5 DEF AppStops, AppRefuses, AppContended, AppLeaves, AppExits, Exits, readerVars
  <2> QED
    BY <2>1 DEF ChainInv, Reporting, Follow
<1>6. CASE ReaderReads
  <2> DEFINE n == Len(pipe)
  <2>1. /\ reader = "reading" /\ pipe # << >> /\ pipe \in Seq(Frames) /\ pipe' = Tail(pipe)
        /\ UNCHANGED <<app, worker>>
    BY <1>6 DEF ReaderReads, TypeInv, ReaderTyped, registryVars, appVars
  <2>2. /\ n \in Nat \ {0} /\ Len(pipe') = n - 1 /\ Head(pipe) = pipe[1]
        /\ \A i \in 1 .. n - 1 : pipe'[i] = pipe[i + 1]
        /\ pipe' = << >> <=> n = 1
    <3>1. pipe' \in Seq(Frames) /\ Len(pipe') = n - 1 /\ n \in Nat \ {0}
      BY <2>1
    <3>2. Head(pipe) = pipe[1] /\ \A i \in 1 .. n - 1 : pipe'[i] = pipe[i + 1]
      BY <2>1
    <3>3. pipe' = << >> <=> Len(pipe') = 0
      BY <3>1, SMTT(30)
    <3> QED
      BY <3>1, <3>2, <3>3
  <2>3. Orderly(Head(pipe))
    <3>1. file.line # "none" => Follow(file.frame, pipe[1])
      BY <2>1 DEF ChainInv
    <3> QED
      BY <3>1, <2>2 DEF Orderly, Follow
  <2>4. file' = [line |-> "frame", frame |-> Merged(Head(pipe))] /\ reader' = "reading"
    BY <1>6, <2>3 DEF ReaderReads
  <2>5. file'.line = "frame" /\ \A w \in Workers : file'.frame[w].phase = pipe[1][w].phase
    BY <2>2, <2>4 DEF Merged
  <2>6. \A g : Follow(pipe[1], g) => Follow(file'.frame, g)
    BY <2>5 DEF Follow
  <2>7. Snapshots' = Snapshots
    BY <2>1 DEF Snapshots
  <2>8. \A i \in 1 .. n - 1 : Follow(pipe[i], pipe[i + 1])
    BY DEF ChainInv
  <2> HIDE DEF n
  <2>9. \A i \in 1 .. Len(pipe') - 1 : Follow(pipe'[i], pipe'[i + 1])
    <3> SUFFICES ASSUME NEW i \in 1 .. Len(pipe') - 1
                 PROVE  Follow(pipe'[i], pipe'[i + 1])
      OBVIOUS
    <3>1. i + 1 \in 1 .. n - 1 /\ i \in 1 .. n - 1 /\ pipe'[i] = pipe[i + 1] /\ pipe'[i + 1] = pipe[i + 1 + 1]
      BY <2>2
    <3> QED
      BY <3>1, <2>8
  <2>10. pipe' # << >> => Follow(file'.frame, pipe'[1])
    <3>1. pipe' # << >> => 1 \in 1 .. n - 1 /\ pipe'[1] = pipe[1 + 1]
      BY <2>2
    <3> QED
      BY <3>1, <2>6, <2>8
  <2>11. Reporting => Follow(pipe[n], Snapshots)
    BY <2>1 DEF ChainInv, n
  <2>12. Reporting' = Reporting
    BY <2>1 DEF Reporting
  <2>13. Reporting' /\ pipe' # << >> => Follow(pipe'[Len(pipe')], Snapshots')
    <3>1. pipe' # << >> => pipe'[n - 1] = pipe[n]
      BY <2>2
    <3> QED
      BY <3>1, <2>2, <2>7, <2>11, <2>12
  <2>14. Reporting' /\ pipe' = << >> => Follow(file'.frame, Snapshots')
    BY <2>2, <2>6, <2>7, <2>11, <2>12
  <2> QED
    BY <2>5, <2>9, <2>10, <2>13, <2>14 DEF ChainInv
<1>7. CASE ReaderEnds
  <2>1. pipe' = << >> /\ file'.line = "eof" /\ reader' = "closing"
    BY <1>7 DEF ReaderEnds, Says
  <2> QED
    BY <2>1, ChainEnds
<1>8. CASE ReaderExits \/ ReaderFails \/ ReaderStalls
  BY <1>8, ChainStays DEF ReaderExits, ReaderFails, ReaderStalls, registryVars, appVars, Snapshots
<1>9. CASE HelperEnds \/ PrepareFails \/ ClearFails \/ Record \/ CheckProcesses \/ CheckRace \/ LookFails
           \/ WaitEnds
  <2>1. UNCHANGED livenessVars
    BY <1>9 DEF HelperEnds, PrepareFails, ClearFails, Record, CheckProcesses, CheckRace, LookFails, WaitEnds, Goes
  <2> QED
    BY <2>1, ChainStays DEF livenessVars, registryVars, appVars, readerVars, Snapshots
<1>10. CASE Launch
  <2>1. pipe' = << >> /\ file'.line = "none"
    BY <1>10 DEF Launch, StageInv, TypeInv, GenerationInv, OneGeneration
  <2> QED
    BY <2>1, ChainEnds
<1>11. CASE RecordFails \/ StopGeneration \/ Drain \/ Trap
  <2>1. pipe' = << >>
    BY <1>11 DEF RecordFails, StopGeneration, Drain, Trap, ReaderStops, StageInv, TypeInv, GenerationInv, Custody
  <2>2. app' \notin {"starting", "running"}
    BY <1>11 DEF RecordFails, StopGeneration, Drain, Trap, GroupEnds, GroupStays, GroupIs
  <2>3. file' = file \/ file' = Says("none")
    BY <1>11 DEF RecordFails, StopGeneration, Drain, Trap
  <2>4. file'.line # "refused"
    BY <2>3 DEF ChainInv, Says
  <2> QED
    BY <2>1, <2>2, <2>4, ChainEnds
<1>12. CASE Reap
  <2>1. pipe' = << >> /\ app' = "none" /\ file' = file
    BY <1>12 DEF Reap, ReaderStops
  <2> QED
    BY <2>1, ChainEnds DEF ChainInv
<1>13. CASE Look
  <2>1. UNCHANGED <<app, pipe, reader>>
    BY <1>13 DEF Look, readerVars
  <2>2. \/ file' = file
        \/ /\ file.line = "frame"
           /\ file' = [line |-> "consumed",
                       frame |-> [w \in Workers |-> [file.frame[w] EXCEPT !.moved = FALSE]]]
    BY <1>13 DEF Look
  <2>3. file.frame \in Frames
    BY DEF TypeInv, ReaderTyped
  <2>4. /\ file'.line = "none" <=> file.line = "none"
        /\ file'.line # "refused"
    BY <2>2 DEF ChainInv
  <2>5. \A w \in Workers : file'.frame[w].phase = file.frame[w].phase
    BY <2>2, <2>3 DEF Frames, Report
  <2>6. \A g : Follow(file.frame, g) => Follow(file'.frame, g)
    BY <2>5 DEF Follow
  <2>7. \A w \in Workers : /\ worker'[w].phase = worker[w].phase
                           /\ worker'[w].moved = worker[w].moved
    <3>1. worker' = worker \/ worker' = [w \in Workers |-> [worker[w] EXCEPT !.quiet = @ + 1]]
      BY <1>13 DEF Look, TimePasses
    <3>2. worker \in [Workers -> WorkerRec]
      BY DEF TypeInv, WorkersInv
    <3> QED
      BY <3>1, <3>2 DEF WorkerRec
  <2>8. Snapshots' = Snapshots
    BY <2>7 DEF Snapshots
  <2>9. Reporting' = Reporting
    BY <2>1 DEF Reporting
  <2> QED
    BY <2>1, <2>4, <2>6, <2>8, <2>9 DEF ChainInv, Follow
<1>14. ASSUME NEW lasted \in BOOLEAN, Clear(lasted)
       PROVE  ChainInv'
  <2>1. /\ app' = "none" /\ pipe' = << >> /\ file'.line = "none"
    BY <1>14 DEF Clear, appVars, Says, StageInv, TypeInv, GenerationInv, OneGeneration
  <2> QED
    BY <2>1, ChainEnds
<1>15. CASE UNCHANGED vars
  BY <1>15, ChainStays DEF vars, livenessVars, registryVars, appVars, readerVars, Snapshots
<1> QED
  BY <1>1, <1>2, <1>3, <1>4, <1>5, <1>6, <1>7, <1>8, <1>9, <1>10, <1>11, <1>12, <1>13, <1>14, <1>15
  DEF Next, AppSteps, Supervise, Ended

\* What a worker shows is what its calls say, and no snapshot is refused
\* (Worker.Scope, ScopeHandle.Close, restoreScope).
THEOREM SnapshotsAreTrue == Spec => []SnapshotsTellTruth
<1>1. Init => TypeInv /\ StageInv /\ ChainInv
  BY TypeInvStart, StageStart, ChainStart
<1>2. TypeInv /\ StageInv /\ ChainInv /\ [Next]_vars => (TypeInv /\ StageInv /\ ChainInv)'
  BY TypeInvStep, StageStep, ChainStep
<1>3. TypeInv /\ StageInv /\ ChainInv => SnapshotsTellTruth
  BY TypesOK, ShowsItsScopes DEF SnapshotsTellTruth, TypeInv, WorkersInv, ChainInv
<1> QED
  BY <1>1, <1>2, <1>3, PTL DEF Spec

-----------------------------------------------------------------------------
(* The kinds of steps, as far as silence and age go.                        *)

WatchedVars == <<livenessVars, heard, seen, startupAge>>

\* The application ends; what it has written stays.
Quits ==
  /\ app' \notin {"starting", "running"}
  /\ UNCHANGED <<hung, frozen, pipe, reader, stalled, file, pc, heard, seen, startupAge>>

\* The supervisor goes on, and nothing that is watched changes.
Watches ==
  /\ UNCHANGED WatchedVars
  /\ pc' \in {"record", "watch", "look"} => pc \in {"record", "watch", "look"}
  /\ pc' = "look" /\ reader = "failed" => pc = "look"

\* The generation is over.
Finishes ==
  /\ reader' = "none"
  /\ app' \notin {"starting", "running"}
  /\ pc' \notin {"record", "watch", "look"}
  /\ hung' \in {hung, {}} /\ frozen' \in {frozen, FALSE} /\ stalled' \in {stalled, FALSE}
  /\ file' \in {file, Says("none")}

LEMMA StepKinds ==
  ASSUME TypeInv, [Next]_vars
  PROVE  \/ (\E w \in Workers : Works(w) \/ Hang(w)) /\ UNCHANGED supervisorVars
         \/ (AppReady \/ SendReport \/ Freeze) /\ UNCHANGED supervisorVars
         \/ (ReaderReads \/ ReaderEnds \/ ReaderExits \/ ReaderFails \/ ReaderStalls)
              /\ UNCHANGED supervisorVars
         \/ Quits \/ Watches \/ Finishes \/ Launch \/ Look
<1>1. CASE AppSteps
  <2>1. CASE AppStops \/ AppRefuses \/ AppContended
    BY <1>1, <2>1 DEF AppSteps, AppStops, AppRefuses, AppContended, Exits, Quits, readerVars,
                      supervisorVars, watchVars
  <2> QED
    BY <1>1, <2>1 DEF AppSteps
<1>2. CASE AppLeaves
  BY <1>2 DEF AppLeaves, AppExits, Exits, Quits, readerVars, watchVars, Statuses
<1>3. CASE HelperEnds
  BY <1>3 DEF HelperEnds, Watches, WatchedVars, watchVars
<1>4. CASE Record \/ CheckProcesses \/ CheckRace \/ LookFails \/ WaitEnds
  BY <1>4 DEF Record, CheckProcesses, CheckRace, LookFails, WaitEnds, Goes, Fails, Watches, WatchedVars,
              watchVars
<1>5. CASE PrepareFails \/ ClearFails
  BY <1>5 DEF PrepareFails, ClearFails, Leaves, Finishes, livenessVars, registryVars, appVars, readerVars,
              TypeInv, GenerationInv, OneGeneration
<1>6. ASSUME NEW lasted \in BOOLEAN, Clear(lasted)
      PROVE  Finishes
  BY <1>6 DEF Clear, Finishes, registryVars, appVars, readerVars, TypeInv, GenerationInv, OneGeneration
<1>7. CASE RecordFails \/ StopGeneration \/ Drain \/ Trap
  <2>1. /\ app' \in {"none", "unkillable"} /\ pc' \in {"drain", "clear", "ended"}
        /\ hung' = {} /\ frozen' = FALSE
    BY <1>7 DEF RecordFails, StopGeneration, Drain, Trap, GroupEnds, GroupStays, GroupIs, Leaves
  <2>2. reader' = "none" /\ stalled' \in {stalled, FALSE}
    <3>1. CASE Drain
      BY <3>1 DEF Drain, readerVars, TypeInv, GenerationInv, Custody
    <3> QED
      BY <1>7, <3>1 DEF RecordFails, StopGeneration, Trap, ReaderStops
  <2>3. file' \in {file, Says("none")}
    BY <1>7 DEF RecordFails, StopGeneration, Drain, Trap
  <2> QED
    BY <2>1, <2>2, <2>3 DEF Finishes
<1>8. CASE Reap
  BY <1>8 DEF Reap, ReaderStops, Finishes, registryVars
<1>9. CASE UNCHANGED vars
  BY <1>9 DEF vars, supervisorVars, watchVars, Watches, WatchedVars
<1> QED
  BY <1>1, <1>2, <1>3, <1>4, <1>5, <1>6, <1>7, <1>8, <1>9 DEF Next, Supervise, Ended

(* Whoever is healthy is not quiet for longer than its phase allows, and a  *)
(* value that has been consumed has not moved.                              *)

HealthyQuiet ==
  app = "running" => \A w \in Workers \ hung : worker[w].quiet <= Quiet(worker[w].phase)

Consumed == file.line = "consumed" => \A w \in Workers : ~file.frame[w].moved

LEMMA Limits ==
  /\ ReportEvery \in Nat \ {0}
  /\ \A p : Quiet(p) \in Nat /\ Stale(p) \in Nat /\ Quiet(p) + ReportEvery < Stale(p)
<1>1. /\ {ReportEvery} \subseteq Nat \ {0}
      /\ {NormalQuiet, ProbeQuiet, LongQuiet, NormalStale, ProbeStale, LongStale} \subseteq Nat
      /\ NormalQuiet + ReportEvery < NormalStale
      /\ ProbeQuiet + ReportEvery < ProbeStale
      /\ LongQuiet + ReportEvery < LongStale
  BY LivenessAssumption, SupervisorAssumption
<1>2. ASSUME NEW p
      PROVE  Quiet(p) \in Nat /\ Stale(p) \in Nat /\ Quiet(p) + ReportEvery < Stale(p)
  <2>1. CASE p = "probe"
    BY <1>1, <2>1 DEF Quiet, Stale
  <2>2. CASE p = "scan"
    BY <1>1, <2>2 DEF Quiet, Stale
  <2>3. CASE p \notin {"probe", "scan"}
    BY <1>1, <2>3 DEF Quiet, Stale
  <2> QED
    BY <2>1, <2>2, <2>3
<1> QED
  BY <1>1, <1>2

LEMMA HealthyQuietStep ==
  ASSUME TypeInv, StageInv, HealthyQuiet, [Next]_vars
  PROVE  HealthyQuiet'
<1>0. worker \in [Workers -> WorkerRec]
  BY DEF TypeInv, WorkersInv
<1>1. ASSUME NEW w \in Workers, Works(w)
      PROVE  HealthyQuiet'
  <2>1. PICK r \in WorkerRec : /\ r.quiet = 0
                               /\ worker' = [worker EXCEPT ![w] = r] /\ UNCHANGED <<hung, app>>
    BY <1>1, WorkersPublish DEF TypeInv, Becomes, appVars
  <2>2. worker'[w].quiet <= Quiet(worker'[w].phase)
    BY <1>0, <2>1, Limits
  <2>3. \A v \in Workers \ {w} : worker'[v] = worker[v]
    BY <1>0, <2>1
  <2> QED
    BY <2>1, <2>2, <2>3 DEF HealthyQuiet
<1>2. ASSUME NEW w \in Workers, Hang(w)
      PROVE  HealthyQuiet'
  BY <1>2 DEF Hang, appVars, HealthyQuiet
<1>3. CASE AppReady \/ SendReport
  <2>1. \A w \in Workers : worker'[w].quiet = worker[w].quiet /\ worker'[w].phase = worker[w].phase
    <3>1. worker' = worker \/ worker' = [w \in Workers |-> [worker[w] EXCEPT !.moved = FALSE]]
      BY <1>3 DEF AppReady, SendReport, Send
    <3> QED
      BY <1>0, <3>1 DEF WorkerRec
  <2>2. hung' = hung /\ (app = "starting" \/ app = "running")
    BY <1>3 DEF AppReady, SendReport, Send
  <2>3. CASE app = "starting"
    <3>1. \A w \in Workers : worker'[w].quiet = 0
      BY <2>1, <2>3 DEF StageInv, AllQuietZero
    <3> QED
      BY <3>1, Limits DEF HealthyQuiet
  <2>4. CASE app = "running"
    BY <2>1, <2>2, <2>4 DEF HealthyQuiet
  <2> QED
    BY <2>2, <2>3, <2>4
<1>4. CASE Freeze
  BY <1>4 DEF Freeze, registryVars, HealthyQuiet
<1>5. CASE ReaderReads \/ ReaderEnds \/ ReaderExits \/ ReaderFails \/ ReaderStalls
  BY <1>5 DEF ReaderReads, ReaderEnds, ReaderExits, ReaderFails, ReaderStalls, registryVars, appVars, HealthyQuiet
<1>6. CASE Quits \/ Finishes \/ Launch
  <2>1. app' # "running"
    BY <1>6 DEF Quits, Finishes, Launch
  <2> QED
    BY <2>1 DEF HealthyQuiet
<1>7. CASE Watches
  BY <1>7 DEF Watches, WatchedVars, livenessVars, registryVars, appVars, HealthyQuiet
<1>8. CASE Look
  <2>1. UNCHANGED <<hung, app>>
    BY <1>8 DEF Look
  <2>2. SUFFICES ASSUME app = "running", NEW w \in Workers \ hung
                 PROVE  worker'[w].quiet <= Quiet(worker'[w].phase)
    BY <2>1 DEF HealthyQuiet
  <2>3. worker[w].quiet < Quiet(worker[w].phase)
    BY <1>8, <2>2 DEF Look, Punctual
  <2>4. worker' = [v \in Workers |-> [worker[v] EXCEPT !.quiet = @ + 1]]
    BY <1>8, <2>2 DEF Look, TimePasses
  <2>5. worker'[w].quiet = worker[w].quiet + 1 /\ worker'[w].phase = worker[w].phase
        /\ worker[w].quiet \in Nat
    BY <1>0, <2>4 DEF WorkerRec
  <2>6. Quiet(worker[w].phase) \in Nat
    BY Limits
  <2> QED
    BY <2>3, <2>5, <2>6
<1> QED
  BY <1>1, <1>2, <1>3, <1>4, <1>5, <1>6, <1>7, <1>8, StepKinds

LEMMA ConsumedStep ==
  ASSUME TypeInv, Consumed, [Next]_vars
  PROVE  Consumed'
<1> USE DEF Consumed
<1>1. ASSUME NEW w \in Workers, Works(w) \/ Hang(w)
      PROVE  Consumed'
  BY <1>1 DEF Works, Advance, Scope, Close, Checkpoint, Becomes, Hang
<1>2. CASE AppReady \/ SendReport \/ Freeze
  BY <1>2 DEF AppReady, SendReport, Send, Freeze
<1>3. CASE ReaderReads
  <2>1. file'.line # "consumed"
    BY <1>3 DEF ReaderReads, Says
  <2> QED
    BY <2>1
<1>4. CASE ReaderEnds \/ ReaderExits \/ ReaderFails \/ ReaderStalls
  BY <1>4 DEF ReaderEnds, ReaderExits, ReaderFails, ReaderStalls, Says
<1>5. CASE Quits \/ Watches \/ Launch
  BY <1>5 DEF Quits, Watches, WatchedVars, livenessVars, Launch
<1>6. CASE Finishes
  BY <1>6 DEF Finishes, Says
<1>7. CASE Look
  <2>1. \/ file' = file
        \/ file' = [line |-> "consumed",
                    frame |-> [w \in Workers |-> [file.frame[w] EXCEPT !.moved = FALSE]]]
    BY <1>7 DEF Look
  <2>2. \A w \in Workers : file.frame[w] \in Report
    BY DEF TypeInv, ReaderTyped, Frames
  <2>3. \A w \in Workers : ~[file.frame[w] EXCEPT !.moved = FALSE].moved
    BY <2>2 DEF Report
  <2>4. CASE file' = file
    BY <2>4
  <2>5. CASE file' = [line |-> "consumed",
                      frame |-> [w \in Workers |-> [file.frame[w] EXCEPT !.moved = FALSE]]]
    <3>1. \A w \in Workers : file'.frame[w] = [file.frame[w] EXCEPT !.moved = FALSE]
      BY <2>5
    <3> QED
      BY <3>1, <2>3
  <2> QED
    BY <2>1, <2>4, <2>5
<1> QED
  BY <1>1, <1>2, <1>3, <1>4, <1>5, <1>6, <1>7, StepKinds

-----------------------------------------------------------------------------
(* How old a worker's value may be.  As long as the reporter and the reader *)
(* work, what a worker has last said is in the registry (it has moved since *)
(* the last frame), in the pipe, in the state file or with the supervisor,  *)
(* and in each of these places for one tick or one report at most.          *)

\* The reporter and the reader work, as far as the supervisor may still look.
Heeded ==
  /\ ~frozen /\ ~stalled
  /\ file.line \notin Errors
  /\ reader = "reading" \/ (reader = "failed" /\ pc = "look")

\* Where the worker's last value is: in the pipe, in the file, or consumed.
Unread(w) == pipe # << >> /\ (pipe[1][w].moved \/ file.line = "none")
Kept(w) == file.line = "frame" /\ file.frame[w].moved
Told(w) == ~Unread(w) /\ ~Kept(w)

Timing(w) ==
  /\ worker[w].moved => worker[w].quiet <= sinceReport
  /\ ~worker[w].moved /\ pipe # << >> => pipe[1][w].phase = worker[w].phase
  /\ ~worker[w].moved /\ ~Unread(w) => file.frame[w].phase = worker[w].phase
  /\ ~worker[w].moved /\ (Unread(w) \/ Kept(w)) => worker[w].quiet <= ReportEvery
  /\ ~worker[w].moved /\ Told(w) =>
       /\ heard
       /\ seen[w].phase = worker[w].phase
       /\ worker[w].quiet <= seen[w].age + ReportEvery + 1
       /\ seen[w].age < worker[w].quiet
  /\ w \notin hung /\ heard /\ Told(w) /\ worker[w].moved =>
       seen[w].age < Quiet(seen[w].phase) + sinceReport

OnTime ==
  /\ Len(pipe) <= 1
  /\ pipe # << >> => sinceReport = 0
  /\ file.line = "none" => pipe # << >>
  /\ \A w \in Workers : Timing(w)

\* The ages of the healthy workers, and the first frame, which counts as moved.
Young ==
  Heeded /\ heard => \A w \in Workers \ hung : seen[w].age < Quiet(seen[w].phase) + ReportEvery

NewFrame ==
  Heeded /\ ~heard => /\ file.line # "consumed"
                      /\ file.line = "frame" => \A w \in Workers : file.frame[w].moved

\* Whatever gets stuck: a value that still reaches the supervisor is no older
\* than a report, and the supervisor has aged as long as the worker was silent
\* since, or since the start.
Arriving(w) ==
  /\ reader = "reading" /\ ~stalled /\ Unread(w) => worker[w].quiet <= ReportEvery
  /\ Kept(w) => worker[w].quiet <= ReportEvery
  /\ heard => worker[w].quiet <= seen[w].age + ReportEvery + 1
  /\ ~heard => /\ file.line = "frame" => file.frame[w].moved
               /\ worker[w].quiet <= startupAge + 1

OnTheWay ==
  app = "running" =>
    /\ reader = "reading" /\ ~stalled => Len(pipe) <= 1
    /\ ~heard => file.line # "consumed"
    /\ \A w \in Workers : Arriving(w)

\* The supervisor goes on looking only while no limit is reached.
WithinLimits ==
  pc \in {"record", "watch", "look"} =>
    /\ startupAge < StartupGrace
    /\ heard => \A w \in Workers : seen[w].age < Stale(seen[w].phase)

\* A silent worker among a reporter and a reader that work.
FoundAtOnce ==
  app = "running" /\ pc \in {"watch", "look"} /\ ~frozen /\ ~stalled =>
    \A w \in Workers : worker[w].quiet <= Stale(worker[w].phase) + ReportEvery

TimeInv ==
  /\ HealthyQuiet /\ Consumed
  /\ Young /\ NewFrame
  /\ Heeded /\ app = "running" => OnTime
  /\ FoundAtOnce
  /\ OnTheWay /\ WithinLimits

TypedNumbers(w) ==
  /\ worker[w].quiet \in Nat /\ worker[w].moved \in BOOLEAN /\ sinceReport \in Nat
  /\ seen[w].age \in Nat /\ heard \in BOOLEAN

LEMMA NumbersTyped ==
  ASSUME TypeInv, NEW w \in Workers
  PROVE  TypedNumbers(w)
<1>1. worker[w] \in WorkerRec /\ seen[w] \in [phase : Phases, age : Nat]
  BY DEF TypeInv, WorkersInv, WatchTyped
<1>2. sinceReport \in Nat /\ heard \in BOOLEAN
  BY Limits DEF TypeInv, AppTyped, WatchTyped
<1> QED
  BY <1>1, <1>2 DEF TypedNumbers, WorkerRec

LEMMA HeededBefore ==
  ASSUME TypeInv, StageInv, [Next]_vars, ~Launch, Heeded'
  PROVE  Heeded
<1> USE DEF Heeded
<1>1. ASSUME NEW w \in Workers, Works(w) \/ Hang(w), UNCHANGED supervisorVars
      PROVE  Heeded
  <2>1. UNCHANGED <<frozen, stalled, file, reader>>
    BY <1>1 DEF Works, Advance, Scope, Close, Checkpoint, Becomes, Hang, appVars, readerVars
  <2>2. pc' = pc
    BY <1>1 DEF supervisorVars
  <2> QED
    BY <2>1, <2>2
<1>2. CASE (AppReady \/ SendReport \/ Freeze) /\ UNCHANGED supervisorVars
  BY <1>2 DEF AppReady, SendReport, Send, Freeze, readerVars, supervisorVars
<1>3. CASE (ReaderReads \/ ReaderEnds \/ ReaderExits \/ ReaderFails \/ ReaderStalls) /\ UNCHANGED supervisorVars
  <2>1. frozen' = frozen /\ pc' = pc /\ (reader = "reading" \/ reader = "closing")
    BY <1>3 DEF ReaderReads, ReaderEnds, ReaderExits, ReaderFails, ReaderStalls, appVars, supervisorVars
  <2>2. stalled => stalled'
    BY <1>3 DEF ReaderReads, ReaderEnds, ReaderExits, ReaderFails, ReaderStalls
  <2>3. CASE reader = "reading"
    BY <2>1, <2>2, <2>3 DEF StageInv
  <2>4. CASE reader = "closing"
    <3>1. file.line = "eof" /\ file' = file
      BY <1>3, <2>4 DEF ReaderReads, ReaderEnds, ReaderExits, ReaderFails, ReaderStalls, StageInv
    <3> QED
      BY <3>1 DEF Errors
  <2> QED
    BY <2>1, <2>3, <2>4
<1>4. CASE Quits \/ Watches
  BY <1>4 DEF Quits, Watches, WatchedVars, livenessVars, appVars, readerVars
<1>5. CASE Finishes
  BY <1>5 DEF Finishes
<1>6. CASE Look
  BY <1>6 DEF Look, Fails, readerVars
<1> QED
  BY <1>1, <1>2, <1>3, <1>4, <1>5, <1>6, StepKinds

LEMMA TimingWorks ==
  ASSUME TypeInv, HealthyQuiet, OnTime, app = "running", NEW w \in Workers, Works(w),
         UNCHANGED supervisorVars
  PROVE  OnTime'
<1>1. PICK r \in WorkerRec : r.moved /\ r.quiet = 0 /\ Becomes(w, r) /\ w \notin hung
  BY WorkersPublish DEF TypeInv, Acts
<1>2. /\ worker' = [worker EXCEPT ![w] = r] /\ worker \in [Workers -> WorkerRec]
      /\ UNCHANGED <<hung, sinceReport, pipe, file, seen, heard>>
  BY <1>1 DEF Becomes, appVars, supervisorVars, watchVars, TypeInv, WorkersInv
<1>3. worker'[w].moved /\ worker'[w].quiet = 0
  BY <1>1, <1>2
<1>4. \A v \in Workers \ {w} : worker'[v] = worker[v]
  BY <1>2
<1>5. \A v \in Workers : (Unread(v) <=> Unread(v)') /\ (Kept(v) <=> Kept(v)') /\ (Told(v) <=> Told(v)')
  BY <1>2 DEF Unread, Kept, Told
<1>6. ASSUME NEW v \in Workers \ {w}
      PROVE  Timing(v)'
  <2>1. Timing(v)
    BY DEF OnTime
  <2> QED
    BY <2>1, <1>2, <1>4, <1>5 DEF Timing
<1>7. Timing(w)'
  <2>1. Timing(w) /\ TypedNumbers(w)
    BY NumbersTyped DEF OnTime
  <2>2. heard /\ Told(w) => seen[w].age < Quiet(seen[w].phase) + sinceReport
    <3>1. worker[w].quiet <= Quiet(worker[w].phase)
      BY <1>1 DEF HealthyQuiet
    <3>2. CASE worker[w].moved
      BY <1>1, <2>1, <3>2 DEF Timing
    <3>3. CASE ~worker[w].moved /\ Told(w)
      <4>1. seen[w].phase = worker[w].phase /\ seen[w].age < worker[w].quiet
        BY <2>1, <3>3 DEF Timing
      <4>2. seen[w].age \in Nat /\ worker[w].quiet \in Nat /\ sinceReport \in Nat
        BY <2>1 DEF TypedNumbers
      <4> QED
        BY <4>1, <4>2, <3>1, Limits
    <3> QED
      BY <3>2, <3>3
  <2>3. 0 <= sinceReport
    BY <2>1 DEF TypedNumbers
  <2> QED
    BY <1>2, <1>3, <1>5, <2>2, <2>3 DEF Timing
<1> QED
  BY <1>2, <1>6, <1>7 DEF OnTime

LEMMA TimingSends ==
  ASSUME TypeInv, StageInv, app = "running" => OnTime, NEW first \in BOOLEAN,
         first => AppReady, ~first => SendReport, UNCHANGED supervisorVars
  PROVE  OnTime'
<1>0. Send /\ UNCHANGED <<hung, file, seen, heard>>
  BY DEF AppReady, SendReport, Send, supervisorVars, watchVars
<1>1. pipe = << >>
  <2>1. CASE first
    BY <2>1 DEF AppReady, StageInv
  <2>2. CASE ~first
    BY <2>2, Limits DEF SendReport, OnTime
  <2> QED
    BY <2>1, <2>2
<1>2. pipe' = << Snapshots >> /\ worker' = [w \in Workers |-> [worker[w] EXCEPT !.moved = FALSE]]
  <2>1. Len(pipe) < PipeSize
    BY <1>1, LivenessAssumption
  <2> QED
    BY <1>0, <1>1, <2>1 DEF Send
<1>3. Len(pipe') = 1 /\ pipe' # << >> /\ pipe'[1] = Snapshots /\ sinceReport' = 0
  BY <1>0, <1>2 DEF Send
<1>4. ASSUME NEW w \in Workers
      PROVE  Timing(w)'
  <2>1. worker[w] \in WorkerRec
    BY DEF TypeInv, WorkersInv
  <2>2. ~worker'[w].moved /\ worker'[w].phase = worker[w].phase /\ worker'[w].quiet = worker[w].quiet
    BY <1>2, <2>1 DEF WorkerRec
  <2>3. pipe'[1][w].phase = worker[w].phase /\ pipe'[1][w].moved = worker[w].moved
    BY <1>3 DEF Snapshots
  <2>4. Unread(w)' <=> worker[w].moved \/ file.line = "none"
    BY <1>0, <1>3, <2>3 DEF Unread
  <2>5. Kept(w)' <=> Kept(w)
    BY <1>0 DEF Kept
  <2>6. ~Unread(w)
    BY <1>1 DEF Unread
  <2>7. CASE first
    <3>1. file.line = "none" /\ worker[w].quiet = 0
      BY <2>7 DEF AppReady, StageInv, AllQuietZero
    <3>2. worker'[w].quiet <= ReportEvery
      BY <2>2, <3>1, Limits
    <3> QED
      BY <2>2, <2>3, <2>4, <3>1, <3>2 DEF Timing, Told
  <2>8. CASE ~first
    <3>1. Timing(w) /\ sinceReport = ReportEvery /\ file.line # "none"
      BY <1>1, <2>8 DEF SendReport, OnTime
    <3>2. Unread(w)' => worker'[w].quiet <= ReportEvery
      BY <2>2, <2>4, <3>1 DEF Timing
    <3>3. ~Unread(w)' => ~worker[w].moved
      BY <2>4
    <3> QED
      BY <1>0, <2>2, <2>3, <2>5, <2>6, <3>1, <3>2, <3>3 DEF Timing, Told
  <2> QED
    BY <2>7, <2>8
<1> QED
  BY <1>3, <1>4 DEF OnTime

LEMMA OneLeft ==
  ASSUME NEW S, NEW s \in Seq(S), s # << >>, Len(s) <= 1
  PROVE  Len(s) = 1 /\ Tail(s) = << >> /\ Head(s) = s[1]
<1>1. Len(s) \in Nat /\ Len(s) # 0
  OBVIOUS
<1>2. Len(s) = 1
  BY <1>1
<1>3. Tail(s) \in Seq(S) /\ Len(Tail(s)) = 0
  BY <1>2
<1>4. Tail(s) = << >>
  BY <1>3
<1> QED
  BY <1>2, <1>4

LEMMA TimingReads ==
  ASSUME TypeInv, StageInv, Consumed, OnTime, ReaderReads, UNCHANGED supervisorVars, Orderly(Head(pipe))
  PROVE  OnTime'
<1>1. /\ pipe \in Seq(Frames) /\ pipe # << >> /\ Len(pipe) <= 1
      /\ pipe' = Tail(pipe) /\ file' = [line |-> "frame", frame |-> Merged(Head(pipe))]
      /\ UNCHANGED <<worker, hung, sinceReport, seen, heard>>
  BY DEF TypeInv, ReaderTyped, OnTime, ReaderReads, registryVars, appVars, supervisorVars, watchVars
<1>2. pipe' = << >> /\ Head(pipe) = pipe[1] /\ Len(pipe') = 0
  <2>1. pipe \in Seq(Frames) /\ pipe # << >> /\ Len(pipe) <= 1
    BY <1>1
  <2>2. Tail(pipe) = << >> /\ Head(pipe) = pipe[1]
    BY <2>1, OneLeft
  <2> QED
    BY <1>1, <2>2
<1>3. ASSUME NEW w \in Workers
      PROVE  Timing(w)'
  <2>1. Timing(w)
    BY DEF OnTime
  <2>2. file'.line = "frame" /\ file'.frame[w].phase = pipe[1][w].phase
    BY <1>1, <1>2 DEF Merged
  <2>3. file'.frame[w].moved <=> pipe[1][w].moved \/ file.line = "none" \/ file.frame[w].moved
    BY <1>1, <1>2 DEF Merged
  <2>4. ~Unread(w)'
    BY <1>2 DEF Unread
  <2>5. file.line \in {"none", "frame", "consumed"} =>
          (file'.frame[w].moved <=> Unread(w) \/ Kept(w))
    BY <1>1, <2>3 DEF Unread, Kept, Consumed
  <2>6. file.line \in {"none", "frame", "consumed"}
    <3>1. file.line \in Lines
      BY DEF TypeInv, ReaderTyped
    <3> QED
      BY <3>1 DEF Lines, StageInv, ReaderReads, Errors
  <2>7. Kept(w)' <=> Unread(w) \/ Kept(w)
    BY <2>2, <2>5, <2>6 DEF Kept
  <2>8. Told(w)' <=> Told(w)
    BY <2>4, <2>7 DEF Told
  <2> QED
    BY <1>1, <1>2, <2>1, <2>2, <2>4, <2>7, <2>8 DEF Timing, Told
<1> QED
  BY <1>1, <1>2, <1>3 DEF OnTime

\* What a look does to a worker that runs, whatever it makes of it.
LEMMA LookNumbers ==
  ASSUME TypeInv, Look, NEW w \in Workers
  PROVE  /\ app = "running" => /\ worker'[w].moved = worker[w].moved
                               /\ worker'[w].phase = worker[w].phase
                               /\ worker'[w].quiet = worker[w].quiet + 1
         /\ heard' = (heard \/ file.line = "frame")
         /\ heard' /\ Kept(w) => seen'[w].phase = file.frame[w].phase /\ seen'[w].age = 0
         /\ heard' /\ ~Kept(w) => seen'[w].phase = seen[w].phase /\ seen'[w].age = seen[w].age + 1
<1>1. worker[w] \in WorkerRec /\ seen[w] \in [phase : Phases, age : Nat]
  BY DEF TypeInv, WorkersInv, WatchTyped
<1>2. app = "running" => worker'[w] = [worker[w] EXCEPT !.quiet = @ + 1]
  BY DEF Look, TimePasses
<1>3. heard' = (heard \/ file.line = "frame") /\ (heard' => seen' = Aged)
  BY DEF Look
<1>4. heard' /\ Kept(w) => seen'[w] = [phase |-> file.frame[w].phase, age |-> 0]
  BY <1>3 DEF Aged, Kept
<1>5. heard' /\ ~Kept(w) => seen'[w] = [seen[w] EXCEPT !.age = @ + 1]
  BY <1>3 DEF Aged, Older, Kept
<1>6. [worker[w] EXCEPT !.quiet = @ + 1].moved = worker[w].moved
      /\ [worker[w] EXCEPT !.quiet = @ + 1].phase = worker[w].phase
      /\ [worker[w] EXCEPT !.quiet = @ + 1].quiet = worker[w].quiet + 1
  BY <1>1 DEF WorkerRec
<1>7. [seen[w] EXCEPT !.age = @ + 1].phase = seen[w].phase
      /\ [seen[w] EXCEPT !.age = @ + 1].age = seen[w].age + 1
  BY <1>1
<1>8. app = "running" => /\ worker'[w].moved = worker[w].moved
                         /\ worker'[w].phase = worker[w].phase
                         /\ worker'[w].quiet = worker[w].quiet + 1
  BY <1>2, <1>6
<1>9. heard' /\ Kept(w) => seen'[w].phase = file.frame[w].phase /\ seen'[w].age = 0
  BY <1>4
<1>10. heard' /\ ~Kept(w) => seen'[w].phase = seen[w].phase /\ seen'[w].age = seen[w].age + 1
  BY <1>5, <1>7
<1> QED
  BY <1>3, <1>8, <1>9, <1>10

LEMMA TimingLooks ==
  ASSUME TypeInv, StageInv, NewFrame, OnTime, Heeded, Look, app = "running", reader = "reading"
  PROVE  /\ OnTime'
         /\ \A w \in Workers \ hung : seen'[w].age < Quiet(seen'[w].phase) + ReportEvery
<1>1. /\ pipe = << >> /\ pipe' = << >> /\ sinceReport' = sinceReport + 1 /\ sinceReport < ReportEvery
      /\ UNCHANGED <<hung, app, reader>>
  BY DEF Heeded, Look, Punctual, TimePasses, readerVars
<1>2. file.line \in {"frame", "consumed"}
  <2>1. file.line \in Lines /\ file.line \notin Errors /\ file.line # "none"
    BY <1>1 DEF TypeInv, ReaderTyped, Heeded, OnTime
  <2> QED
    BY <2>1 DEF Lines, Errors
<1>3. heard' /\ (~heard => file.line = "frame" /\ \A w \in Workers : file.frame[w].moved)
  BY <1>2 DEF NewFrame, Heeded, Look, TypeInv, WatchTyped
<1>4. /\ file'.line = "consumed"
      /\ \A w \in Workers : file'.frame[w].phase = file.frame[w].phase
      /\ \A w \in Workers : ~Kept(w)' /\ ~Unread(w) /\ ~Unread(w)'
  <2>1. \A w \in Workers : file.frame[w] \in Report
    BY DEF TypeInv, ReaderTyped, Frames
  <2>2. \A w \in Workers : [file.frame[w] EXCEPT !.moved = FALSE].phase = file.frame[w].phase
    BY <2>1 DEF Report
  <2>3. \/ file' = file /\ file.line = "consumed"
        \/ file' = [line |-> "consumed",
                    frame |-> [w \in Workers |-> [file.frame[w] EXCEPT !.moved = FALSE]]]
    BY <1>2 DEF Look
  <2>4. file'.line = "consumed"
    BY <2>3
  <2>5. ASSUME NEW w \in Workers
        PROVE  file'.frame[w].phase = file.frame[w].phase
    <3>1. CASE file' = file
      BY <3>1
    <3>2. CASE file' = [line |-> "consumed",
                        frame |-> [v \in Workers |-> [file.frame[v] EXCEPT !.moved = FALSE]]]
      <4>1. file'.frame[w] = [file.frame[w] EXCEPT !.moved = FALSE]
        BY <3>2
      <4> QED
        BY <4>1, <2>2
    <3> QED
      BY <2>3, <3>1, <3>2
  <2> QED
    BY <1>1, <2>4, <2>5 DEF Kept, Unread
<1>5. ASSUME NEW w \in Workers
      PROVE  /\ Timing(w)'
             /\ w \notin hung => seen'[w].age < Quiet(seen'[w].phase) + ReportEvery
  <2>1. Timing(w) /\ TypedNumbers(w)
    BY NumbersTyped DEF OnTime
  <2>2. /\ worker'[w].moved = worker[w].moved /\ worker'[w].phase = worker[w].phase
        /\ worker'[w].quiet = worker[w].quiet + 1
    BY LookNumbers
  <2>3. /\ Kept(w) => seen'[w].phase = file.frame[w].phase /\ seen'[w].age = 0
        /\ ~Kept(w) => seen'[w].phase = seen[w].phase /\ seen'[w].age = seen[w].age + 1
    BY <1>3, LookNumbers
  <2>4. worker[w].quiet \in Nat /\ sinceReport \in Nat /\ seen[w].age \in Nat
        /\ Quiet(seen[w].phase) \in Nat /\ Quiet(seen'[w].phase) \in Nat /\ ReportEvery \in Nat \ {0}
    BY <2>1, Limits DEF TypedNumbers
  <2>5. ~Kept(w) => Told(w) /\ heard
    BY <1>3, <1>4 DEF Told, Kept
  <2>6. w \notin hung => worker[w].quiet < Quiet(worker[w].phase)
    BY DEF Look, Punctual
  <2>7. CASE worker[w].moved
    <3>1. worker[w].quiet <= sinceReport
      BY <2>1, <2>7 DEF Timing
    <3>2. worker'[w].quiet <= sinceReport'
      BY <1>1, <2>2, <2>4, <3>1
    <3>3. w \notin hung => seen'[w].age < Quiet(seen'[w].phase) + sinceReport'
      <4>1. CASE Kept(w)
        BY <4>1, <1>1, <2>3, <2>4
      <4>2. CASE ~Kept(w)
        <5>1. w \notin hung => seen[w].age < Quiet(seen[w].phase) + sinceReport
          BY <2>1, <2>5, <2>7, <4>2 DEF Timing
        <5> QED
          BY <5>1, <4>2, <1>1, <2>3, <2>4
      <4> QED
        BY <4>1, <4>2
    <3>4. w \notin hung => seen'[w].age < Quiet(seen'[w].phase) + ReportEvery
      <4>1. sinceReport' <= ReportEvery /\ sinceReport' \in Nat
        BY <1>1, <2>4
      <4>2. seen'[w].age \in Nat
        BY <2>3, <2>4
      <4> QED
        BY <3>3, <4>1, <4>2, <2>4
    <3>5. worker'[w].moved
      BY <2>2, <2>7
    <3> QED
      BY <1>1, <3>2, <3>3, <3>4, <3>5 DEF Timing
  <2>8. CASE ~worker[w].moved
    <3>1. ~worker'[w].moved /\ pipe' = << >>
      BY <1>1, <2>2, <2>8
    <3>2. file'.frame[w].phase = worker'[w].phase /\ file.frame[w].phase = worker[w].phase
      BY <1>4, <2>1, <2>2, <2>8 DEF Timing
    <3>3. CASE Kept(w)
      <4>1. worker[w].quiet <= ReportEvery
        BY <2>1, <2>8, <3>3 DEF Timing
      <4>2. /\ seen'[w].phase = worker'[w].phase
            /\ worker'[w].quiet <= seen'[w].age + ReportEvery + 1
            /\ seen'[w].age < worker'[w].quiet
            /\ seen'[w].age < Quiet(seen'[w].phase) + ReportEvery
        BY <4>1, <2>2, <2>3, <2>4, <3>2, <3>3
      <4> QED
        BY <1>3, <1>4, <3>1, <3>2, <4>2 DEF Timing
    <3>4. CASE ~Kept(w)
      <4>1. /\ seen[w].phase = worker[w].phase
            /\ worker[w].quiet <= seen[w].age + ReportEvery + 1
            /\ seen[w].age < worker[w].quiet
        BY <2>1, <2>5, <2>8, <3>4 DEF Timing
      <4>2. /\ seen'[w].phase = worker'[w].phase
            /\ worker'[w].quiet <= seen'[w].age + ReportEvery + 1
            /\ seen'[w].age < worker'[w].quiet
        BY <4>1, <2>2, <2>3, <2>4, <3>4
      <4>3. w \notin hung => seen'[w].age < Quiet(seen'[w].phase) + ReportEvery
        BY <4>1, <2>3, <2>4, <2>6, <3>4
      <4> QED
        BY <1>3, <1>4, <3>1, <3>2, <4>2, <4>3 DEF Timing
    <3> QED
      BY <3>3, <3>4
  <2> QED
    BY <2>7, <2>8
<1> QED
  BY <1>1, <1>4, <1>5 DEF OnTime

LEMMA YoungStep ==
  ASSUME TypeInv, StageInv, TimeInv, [Next]_vars
  PROVE  Young'
<1>1. CASE Launch
  BY <1>1 DEF Launch, NewWatch, Young
<1>2. SUFFICES ASSUME ~Launch, Heeded'
               PROVE  Young'
  BY <1>1 DEF Young
<1>3. Heeded /\ Young
  BY <1>2, HeededBefore DEF TimeInv
<1>4. CASE UNCHANGED <<heard, seen>> /\ hung \subseteq hung'
  BY <1>3, <1>4 DEF Young
<1>5. ASSUME NEW w \in Workers, Works(w), UNCHANGED supervisorVars
      PROVE  Young'
  BY <1>4, <1>5, WorkersPublish DEF TypeInv, Becomes, supervisorVars, watchVars
<1>6. ASSUME NEW w \in Workers, Hang(w), UNCHANGED supervisorVars
      PROVE  Young'
  BY <1>4, <1>6 DEF Hang, supervisorVars, watchVars
<1>7. CASE (AppReady \/ SendReport \/ Freeze) /\ UNCHANGED supervisorVars
  BY <1>4, <1>7 DEF AppReady, SendReport, Send, Freeze, registryVars, supervisorVars, watchVars
<1>8. CASE (ReaderReads \/ ReaderEnds \/ ReaderExits \/ ReaderFails \/ ReaderStalls) /\ UNCHANGED supervisorVars
  BY <1>4, <1>8 DEF ReaderReads, ReaderEnds, ReaderExits, ReaderFails, ReaderStalls, registryVars,
                    supervisorVars, watchVars
<1>9. CASE Quits \/ Watches
  BY <1>4, <1>9 DEF Quits, Watches, WatchedVars, livenessVars, registryVars
<1>10. CASE Finishes
  BY <1>2, <1>10 DEF Finishes, Heeded
<1>11. CASE Look
  <2>1. reader = "reading" /\ hung' = hung
    BY <1>2, <1>11 DEF Look, Fails, Heeded, readerVars
  <2>2. CASE app = "running"
    BY <1>3, <1>11, <2>1, <2>2, TimingLooks DEF TimeInv, Young
  <2>3. CASE app = "starting"
    BY <1>11, <2>3 DEF Look, StageInv, Young
  <2>4. CASE app \notin {"starting", "running"}
    <3>1. ~sink
      BY <1>3, <2>4 DEF StageInv, Heeded
    <3>2. sink \/ file.line = "refused"
      BY <1>3, <1>11, <2>1 DEF Look, Punctual, Heeded
    <3> QED
      BY <1>3, <3>1, <3>2 DEF Heeded, Errors
  <2> QED
    BY <2>2, <2>3, <2>4
<1> QED
  BY <1>2, <1>5, <1>6, <1>7, <1>8, <1>9, <1>10, <1>11, StepKinds

LEMMA NewFrameStep ==
  ASSUME TypeInv, StageInv, TimeInv, [Next]_vars
  PROVE  NewFrame'
<1>1. CASE Launch
  BY <1>1 DEF Launch, StageInv, NewFrame
<1>2. SUFFICES ASSUME ~Launch, Heeded', ~heard'
               PROVE  NewFrame'
  BY <1>1 DEF NewFrame
<1>3. Heeded /\ NewFrame
  BY <1>2, HeededBefore DEF TimeInv
<1>4. CASE UNCHANGED <<heard, file>>
  BY <1>3, <1>4 DEF NewFrame
<1>5. ASSUME NEW w \in Workers, Works(w), UNCHANGED supervisorVars
      PROVE  NewFrame'
  BY <1>4, <1>5, WorkersPublish DEF TypeInv, Becomes, supervisorVars, watchVars
<1>6. ASSUME NEW w \in Workers, Hang(w), UNCHANGED supervisorVars
      PROVE  NewFrame'
  BY <1>4, <1>6 DEF Hang, supervisorVars, watchVars
<1>7. CASE (AppReady \/ SendReport \/ Freeze) /\ UNCHANGED supervisorVars
  BY <1>4, <1>7 DEF AppReady, SendReport, Send, Freeze, supervisorVars, watchVars
<1>8. CASE ReaderReads /\ UNCHANGED supervisorVars
  <2>1. ~heard
    BY <1>2, <1>8 DEF supervisorVars, watchVars
  <2>2. file' = [line |-> "frame", frame |-> Merged(Head(pipe))] \/ file' = Says("refused")
    BY <1>8 DEF ReaderReads
  <2>3. file' = [line |-> "frame", frame |-> Merged(Head(pipe))]
    BY <1>2, <2>2 DEF Heeded, Says, Errors
  <2>4. file.line \in {"none", "frame"}
    <3>1. file.line \in Lines /\ file.line \notin Errors /\ file.line # "consumed"
      BY <1>3, <2>1 DEF TypeInv, ReaderTyped, Heeded, NewFrame
    <3> QED
      BY <3>1 DEF Lines, Errors
  <2>5. \A w \in Workers : file.line = "none" \/ file.frame[w].moved
    BY <1>3, <2>1, <2>4 DEF NewFrame
  <2>6. \A w \in Workers : Merged(Head(pipe))[w].moved
    BY <2>5 DEF Merged
  <2> QED
    BY <2>3, <2>6 DEF NewFrame
<1>9. CASE ReaderEnds /\ UNCHANGED supervisorVars
  BY <1>2, <1>9 DEF ReaderEnds, Says, Heeded, Errors
<1>10. CASE (ReaderExits \/ ReaderFails \/ ReaderStalls) /\ UNCHANGED supervisorVars
  BY <1>4, <1>10 DEF ReaderExits, ReaderFails, ReaderStalls, supervisorVars, watchVars
<1>11. CASE Quits \/ Watches
  BY <1>4, <1>11 DEF Quits, Watches, WatchedVars, livenessVars
<1>12. CASE Finishes
  BY <1>2, <1>12 DEF Finishes, Heeded
<1>13. CASE Look
  <2>1. heard \in BOOLEAN
    BY DEF TypeInv, WatchTyped
  <2>2. UNCHANGED <<heard, file>>
    BY <1>2, <1>13, <2>1 DEF Look
  <2> QED
    BY <1>4, <2>2
<1> QED
  BY <1>2, <1>5, <1>6, <1>7, <1>8, <1>9, <1>10, <1>11, <1>12, <1>13, StepKinds

LEMMA TimingStays ==
  ASSUME OnTime, UNCHANGED <<worker, sinceReport, pipe, file, seen, heard>>, hung \subseteq hung'
  PROVE  OnTime'
<1>1. \A w \in Workers : (Unread(w) <=> Unread(w)') /\ (Kept(w) <=> Kept(w)') /\ (Told(w) <=> Told(w)')
  BY DEF Unread, Kept, Told
<1>2. ASSUME NEW w \in Workers
      PROVE  Timing(w)'
  BY <1>1 DEF OnTime, Timing
<1> QED
  BY <1>2 DEF OnTime

LEMMA OnTimeStep ==
  ASSUME TypeInv, StageInv, TimeInv, [Next]_vars, Heeded', app' = "running"
  PROVE  OnTime'
<1>1. ~Launch /\ ~Quits /\ ~Finishes
  BY DEF Launch, Quits, Finishes
<1>2. Heeded
  BY <1>1, HeededBefore
<1>3. app = "running" => OnTime
  BY <1>2 DEF TimeInv
<1>4. ASSUME NEW w \in Workers, Works(w), UNCHANGED supervisorVars
      PROVE  OnTime'
  <2>1. app = "running"
    BY <1>4, WorkersPublish DEF TypeInv, Becomes, appVars
  <2> QED
    BY <1>3, <1>4, <2>1, TimingWorks DEF TimeInv
<1>5. ASSUME NEW w \in Workers, Hang(w), UNCHANGED supervisorVars
      PROVE  OnTime'
  BY <1>3, <1>5, TimingStays DEF Hang, appVars, supervisorVars, watchVars
<1>6. CASE AppReady /\ UNCHANGED supervisorVars
  <2>1. (TRUE => AppReady) /\ (~TRUE => SendReport) /\ TRUE \in BOOLEAN
    BY <1>6
  <2> QED
    BY <1>3, <1>6, <2>1, TimingSends
<1>7. CASE SendReport /\ UNCHANGED supervisorVars
  <2>1. (FALSE => AppReady) /\ (~FALSE => SendReport) /\ FALSE \in BOOLEAN
    BY <1>7
  <2> QED
    BY <1>3, <1>7, <2>1, TimingSends
<1>8. CASE Freeze
  BY <1>8 DEF Freeze, Heeded
<1>9. CASE ReaderReads /\ UNCHANGED supervisorVars
  <2>1. app = "running"
    BY <1>9 DEF ReaderReads, appVars
  <2>2. Orderly(Head(pipe))
    BY <1>9 DEF ReaderReads, Says, Heeded, Errors
  <2> QED
    BY <1>3, <1>9, <2>1, <2>2, TimingReads DEF TimeInv
<1>10. CASE ReaderEnds
  BY <1>10 DEF ReaderEnds, Says, Heeded, Errors
<1>11. CASE (ReaderExits \/ ReaderFails \/ ReaderStalls) /\ UNCHANGED supervisorVars
  BY <1>3, <1>11, TimingStays DEF ReaderExits, ReaderFails, ReaderStalls, registryVars, appVars,
                                  supervisorVars, watchVars
<1>12. CASE Watches
  BY <1>3, <1>12, TimingStays DEF Watches, WatchedVars, livenessVars, registryVars, appVars
<1>13. CASE Look
  <2>1. reader = "reading" /\ app = "running"
    BY <1>13 DEF Look, Fails, Heeded, readerVars
  <2> QED
    BY <1>2, <1>3, <1>13, <2>1, TimingLooks DEF TimeInv
<1> QED
  BY <1>1, <1>4, <1>5, <1>6, <1>7, <1>8, <1>9, <1>10, <1>11, <1>12, <1>13, StepKinds

\* A look at a generation that runs: whether it is found to be stale or not,
\* nobody has been quiet for longer than the limit when it is not.
LEMMA FoundLook ==
  ASSUME TypeInv, StageInv, TimeInv, HealthyQuiet', Look, app = "running", pc' = "watch",
         ~frozen, ~stalled, NEW w \in Workers
  PROVE  worker'[w].quiet <= Stale(worker'[w].phase) + ReportEvery
<1>1. TypedNumbers(w)
  BY NumbersTyped
<1>2. /\ worker'[w].quiet = worker[w].quiet + 1 /\ worker'[w].phase = worker[w].phase
      /\ hung' = hung /\ app' = "running" /\ pc = "look"
  BY LookNumbers DEF Look
<1>3. /\ worker[w].quiet \in Nat /\ sinceReport \in Nat /\ seen[w].age \in Nat
      /\ ReportEvery \in Nat \ {0} /\ sinceReport <= ReportEvery
      /\ Stale(worker[w].phase) \in Nat /\ Quiet(worker[w].phase) \in Nat
      /\ Quiet(worker[w].phase) + ReportEvery < Stale(worker[w].phase)
  BY <1>1, Limits DEF TypedNumbers, TypeInv, AppTyped
<1>4. CASE w \notin hung
  <2>1. worker'[w].quiet <= Quiet(worker'[w].phase)
    BY <1>2, <1>4 DEF HealthyQuiet
  <2> QED
    BY <2>1, <1>2, <1>3
<1>5. CASE w \in hung
  <2>1. Heeded
    BY <1>2, <1>5 DEF Heeded, Look, StageInv
  <2>2. Timing(w)
    BY <2>1 DEF TimeInv, OnTime
  <2>3. CASE worker[w].moved \/ Unread(w) \/ Kept(w)
    <3>1. worker[w].quiet <= ReportEvery
      BY <1>1, <1>3, <2>2, <2>3 DEF Timing, TypedNumbers
    <3> QED
      BY <1>2, <1>3, <3>1
  <2>4. CASE ~worker[w].moved /\ ~Unread(w) /\ ~Kept(w)
    <3>1. /\ heard /\ seen[w].phase = worker[w].phase
          /\ worker[w].quiet <= seen[w].age + ReportEvery + 1
      BY <2>2, <2>4 DEF Timing, Told
    <3>2. heard' /\ seen'[w].phase = worker[w].phase /\ seen'[w].age = seen[w].age + 1
      BY <2>4, <3>1, LookNumbers
    <3>3. ~(seen'[w].age >= Stale(seen'[w].phase))
      BY <3>2 DEF Look, Fails
    <3>4. seen[w].age + 1 < Stale(worker[w].phase)
      BY <1>3, <3>2, <3>3
    <3> QED
      BY <1>2, <1>3, <3>1, <3>4
  <2> QED
    BY <2>3, <2>4
<1> QED
  BY <1>4, <1>5

LEMMA FoundAtOnceStep ==
  ASSUME TypeInv, StageInv, TimeInv, HealthyQuiet', [Next]_vars
  PROVE  FoundAtOnce'
<1> DEFINE Found(w) == worker'[w].quiet <= Stale(worker'[w].phase) + ReportEvery
<1>0. SUFFICES ASSUME app' = "running", pc' \in {"watch", "look"}, ~frozen', ~stalled'
               PROVE  \A w \in Workers : Found(w)
  BY DEF FoundAtOnce
<1>1. worker \in [Workers -> WorkerRec]
  BY DEF TypeInv, WorkersInv
<1>2. \A p : 0 <= Stale(p) + ReportEvery
  <2> TAKE p
  <2>1. Stale(p) \in Nat /\ ReportEvery \in Nat
    BY Limits
  <2> QED
    BY <2>1
<1>3. app = "running" /\ pc \in {"watch", "look"} /\ ~frozen /\ ~stalled =>
        \A w \in Workers : worker[w].quiet <= Stale(worker[w].phase) + ReportEvery
  BY DEF TimeInv, FoundAtOnce
<1>4. ASSUME NEW w \in Workers, Works(w), UNCHANGED supervisorVars
      PROVE  \A v \in Workers : Found(v)
  <2>1. PICK r \in WorkerRec : /\ r.quiet = 0 /\ worker' = [worker EXCEPT ![w] = r] /\ app' = app
                              /\ frozen' = frozen /\ stalled' = stalled
    BY <1>4, WorkersPublish DEF TypeInv, Becomes, appVars, readerVars
  <2>2. pc' = pc
    BY <1>4 DEF supervisorVars
  <2>3. Found(w)
    BY <1>1, <1>2, <2>1
  <2>4. \A v \in Workers \ {w} : worker'[v] = worker[v]
    BY <1>1, <2>1
  <2> QED
    BY <1>0, <1>3, <2>1, <2>2, <2>3, <2>4
<1>5. ASSUME NEW w \in Workers, Hang(w), UNCHANGED supervisorVars
      PROVE  \A v \in Workers : Found(v)
  BY <1>0, <1>3, <1>5 DEF Hang, appVars, readerVars, supervisorVars
<1>6. CASE (AppReady \/ SendReport) /\ UNCHANGED supervisorVars
  <2>1. \A w \in Workers : worker'[w].quiet = worker[w].quiet /\ worker'[w].phase = worker[w].phase
    <3>1. worker' = worker \/ worker' = [w \in Workers |-> [worker[w] EXCEPT !.moved = FALSE]]
      BY <1>6 DEF AppReady, SendReport, Send
    <3> QED
      BY <1>1, <3>1 DEF WorkerRec
  <2>2. pc' = pc /\ frozen' = frozen /\ stalled' = stalled /\ (app = "starting" \/ app = "running")
    BY <1>6 DEF AppReady, SendReport, Send, readerVars, supervisorVars
  <2>3. CASE app = "starting"
    <3>1. \A w \in Workers : worker'[w].quiet = 0
      BY <2>1, <2>3 DEF StageInv, AllQuietZero
    <3> QED
      BY <3>1, <1>2
  <2>4. CASE app = "running"
    BY <1>0, <1>3, <2>1, <2>2, <2>4
  <2> QED
    BY <2>2, <2>3, <2>4
<1>7. CASE (Freeze \/ ReaderReads \/ ReaderEnds \/ ReaderExits \/ ReaderFails \/ ReaderStalls)
             /\ UNCHANGED supervisorVars
  BY <1>0, <1>3, <1>7 DEF Freeze, ReaderReads, ReaderEnds, ReaderExits, ReaderFails, ReaderStalls,
                          registryVars, appVars, supervisorVars
<1>8. CASE Quits \/ Finishes \/ Launch
  BY <1>0, <1>8 DEF Quits, Finishes, Launch
<1>9. CASE Watches
  <2>1. worker' = worker /\ app' = app /\ frozen' = frozen /\ stalled' = stalled
    BY <1>9 DEF Watches, WatchedVars, livenessVars, registryVars, appVars, readerVars
  <2>2. CASE pc = "record"
    <3>1. \A w \in Workers : worker'[w].quiet = 0
      BY <2>1, <2>2 DEF StageInv, AllQuietZero
    <3> QED
      BY <3>1, <1>2
  <2>3. CASE pc \in {"watch", "look"}
    BY <1>0, <1>3, <2>1, <2>3
  <2> QED
    BY <1>0, <1>9, <2>2, <2>3 DEF Watches
<1>10. CASE Look
  <2>1. app = "running" /\ pc' = "watch"
    BY <1>0, <1>10 DEF Look, Fails
  <2> QED
    BY <1>0, <1>10, <2>1, FoundLook DEF Look, readerVars
<1> QED
  BY <1>4, <1>5, <1>6, <1>7, <1>8, <1>9, <1>10, StepKinds

AgesTyped(w) ==
  /\ worker[w].quiet \in Nat /\ seen[w].age \in Nat
  /\ startupAge \in -1 .. StartupGrace /\ StartupGrace \in Nat \ {0}

LEMMA NumbersAged ==
  ASSUME TypeInv, NEW w \in Workers
  PROVE  AgesTyped(w)
BY NumbersTyped, SupervisorAssumption DEF AgesTyped, TypedNumbers, TypeInv, WatchTyped

\* What still reaches the supervisor is not delayed by a step that leaves it alone.
LEMMA ArrivingStays ==
  ASSUME OnTheWay, app = "running", reader' = "reading" /\ ~stalled' => reader = "reading" /\ ~stalled,
         UNCHANGED <<worker, pipe, file, heard, seen, startupAge>>
  PROVE  OnTheWay'
<1>1. \A w \in Workers : Arriving(w)'
  BY DEF OnTheWay, Arriving, Unread, Kept
<1> QED
  BY <1>1 DEF OnTheWay

\* A worker's own step, and one that is nothing to it.
LEMMA ArrivingFresh ==
  ASSUME TypeInv, OnTheWay, app = "running", NEW w \in Workers, Works(w), UNCHANGED supervisorVars
  PROVE  OnTheWay'
<1>1. PICK r \in WorkerRec : r.quiet = 0 /\ Becomes(w, r)
  BY WorkersPublish DEF TypeInv
<1>2. /\ worker' = [worker EXCEPT ![w] = r] /\ worker \in [Workers -> WorkerRec]
      /\ UNCHANGED <<app, pipe, reader, stalled, file, heard, seen, startupAge>>
  BY <1>1 DEF Becomes, appVars, readerVars, supervisorVars, watchVars, TypeInv, WorkersInv
<1>3. worker'[w].quiet = 0 /\ \A v \in Workers \ {w} : worker'[v] = worker[v]
  BY <1>1, <1>2
<1>4. Arriving(w)'
  <2>1. AgesTyped(w) /\ Arriving(w)
    BY NumbersAged DEF OnTheWay
  <2> QED
    BY <1>2, <1>3, <2>1, Limits DEF AgesTyped, Arriving, Unread, Kept
<1>5. ASSUME NEW v \in Workers \ {w} PROVE Arriving(v)'
  <2>1. Arriving(v)
    BY DEF OnTheWay
  <2> QED
    BY <1>2, <1>3, <2>1 DEF Arriving, Unread, Kept
<1> QED
  BY <1>2, <1>4, <1>5 DEF OnTheWay

\* A frame is written: the first one, or one of a reporter that works.
LEMMA ArrivingSent ==
  ASSUME TypeInv, TypeInv', StageInv, StageInv', OnTheWay, Heeded' => OnTime',
         AppReady \/ SendReport, UNCHANGED supervisorVars
  PROVE  OnTheWay'
<1>1. /\ Send /\ app' = "running" /\ (SendReport => app = "running" /\ ~frozen)
      /\ UNCHANGED <<frozen, reader, stalled, file, heard, seen, startupAge>>
  BY DEF AppReady, SendReport, Send, readerVars, supervisorVars, watchVars
<1>2. ASSUME NEW w \in Workers PROVE worker'[w].quiet = worker[w].quiet /\ AgesTyped(w)
  <2>1. worker[w] \in WorkerRec
    BY DEF TypeInv, WorkersInv
  <2>2. worker' = worker \/ worker'[w] = [worker[w] EXCEPT !.moved = FALSE]
    BY <1>1 DEF Send
  <2> QED
    BY <2>1, <2>2, NumbersAged DEF WorkerRec
<1>3. CASE AppReady
  <2>1. pipe = << >> /\ file.line = "none" /\ ~heard /\ \A w \in Workers : worker[w].quiet = 0
    BY <1>3 DEF AppReady, StageInv, AllQuietZero
  <2>2. Len(pipe') <= 1
    <3>1. pipe' = Append(<< >>, Snapshots) \/ pipe' = << >>
      BY <1>1, <2>1 DEF Send
    <3>2. \A s : Len(Append(<< >>, s)) = 1
      OBVIOUS
    <3>3. Len(pipe') \in {0, 1}
      BY <3>1, <3>2
    <3>4. \A n \in {0, 1} : n <= 1
      OBVIOUS
    <3> QED
      BY <3>3, <3>4
  <2>3. ASSUME NEW w \in Workers PROVE Arriving(w)'
    BY <1>1, <1>2, <2>1, Limits DEF Arriving, Kept, AgesTyped
  <2> QED
    BY <1>1, <2>1, <2>2, <2>3 DEF OnTheWay
<1>4. CASE SendReport
  <2>1. ASSUME reader' = "reading", ~stalled'
        PROVE  Len(pipe') <= 1 /\ \A w \in Workers : Unread(w)' => worker'[w].quiet <= ReportEvery
    <3>1. OnTime'
      BY <1>1, <1>4, <2>1 DEF Heeded, StageInv
    <3>2. ASSUME NEW w \in Workers, Unread(w)' PROVE worker'[w].quiet <= ReportEvery
      <4>1. Timing(w)' /\ sinceReport' \in 0..ReportEvery /\ worker'[w].quiet \in Nat
        BY <1>2, <3>1 DEF OnTime, TypeInv, AppTyped, AgesTyped
      <4> QED
        BY <3>2, <4>1, Limits DEF Timing
    <3> QED
      BY <3>1, <3>2 DEF OnTime
  <2>2. ASSUME NEW w \in Workers PROVE Arriving(w)'
    <3>1. Arriving(w)
      BY <1>1, <1>4 DEF OnTheWay
    <3> QED
      BY <1>1, <1>2, <2>1, <3>1 DEF Arriving, Kept
  <2> QED
    BY <1>1, <1>4, <2>1, <2>2 DEF OnTheWay
<1> QED
  BY <1>3, <1>4

\* A frame that is read is no older than it was in the pipe.
LEMMA ArrivingRead ==
  ASSUME TypeInv, StageInv, Consumed, OnTheWay, app = "running", ReaderReads, UNCHANGED supervisorVars
  PROVE  OnTheWay'
<1>1. /\ pipe \in Seq(Frames) /\ pipe # << >> /\ Len(pipe) <= 1 /\ pipe' = Tail(pipe)
      /\ reader = "reading" /\ ~stalled /\ file.line \in {"none", "frame", "consumed"}
      /\ UNCHANGED <<worker, app, heard, seen, startupAge>>
      /\ file' \in {[line |-> "frame", frame |-> Merged(Head(pipe))], Says("refused")}
  BY DEF TypeInv, ReaderTyped, OnTheWay, ReaderReads, registryVars, appVars, supervisorVars, watchVars,
         StageInv, Lines, Errors
<1>2. Tail(pipe) = << >> /\ Head(pipe) = pipe[1]
  BY <1>1, OneLeft
<1>3. pipe' = << >> /\ Len(pipe') <= 1
  BY <1>1, <1>2
<1>4. ASSUME NEW w \in Workers PROVE Arriving(w)'
  <2>1. Arriving(w)
    BY DEF OnTheWay
  <2>2. ~Unread(w)'
    BY <1>3 DEF Unread
  <2>3. CASE file' = Says("refused")
    BY <1>1, <2>1, <2>2, <2>3 DEF Arriving, Kept, Says
  <2>4. CASE file' = [line |-> "frame", frame |-> Merged(Head(pipe))]
    <3>1. file'.line = "frame"
          /\ (file'.frame[w].moved <=> pipe[1][w].moved \/ file.line = "none" \/ file.frame[w].moved)
      BY <1>2, <2>4 DEF Merged
    <3>2. Kept(w)' => Unread(w) \/ Kept(w)
      BY <1>1, <3>1 DEF Kept, Unread, Consumed
    <3>3. ~heard => file'.frame[w].moved
      BY <1>1, <2>1, <3>1 DEF Arriving, OnTheWay
    <3> QED
      BY <1>1, <2>1, <2>2, <3>2, <3>3 DEF Arriving
  <2> QED
    BY <1>1, <2>3, <2>4
<1>5. file'.line # "consumed"
  BY <1>1 DEF Says
<1> QED
  BY <1>1, <1>3, <1>4, <1>5 DEF OnTheWay

\* A look takes in what the file holds; what it does not is a tick older.
LEMMA ArrivingLook ==
  ASSUME TypeInv, TypeInv', OnTheWay, app = "running", Look
  PROVE  OnTheWay'
<1>1. /\ UNCHANGED <<app, pipe, reader, stalled>> /\ heard \in BOOLEAN
      /\ (reader = "reading" /\ ~stalled => pipe = << >>)
      /\ heard' = (heard \/ file.line = "frame") /\ (~heard' => startupAge' = startupAge + 1)
      /\ file'.line # "frame" /\ (~heard' => file' = file)
  BY DEF Look, Punctual, readerVars, TypeInv, WatchTyped
<1>2. ASSUME NEW w \in Workers PROVE Arriving(w)'
  <2>1. Arriving(w) /\ AgesTyped(w)
    BY NumbersAged DEF OnTheWay
  <2>0. worker'[w].quiet \in Nat /\ seen'[w].age \in Nat /\ startupAge' \in -1 .. StartupGrace
    <3>1. worker'[w] \in WorkerRec /\ seen'[w] \in [phase : Phases, age : Nat]
          /\ startupAge' \in -1 .. StartupGrace
      BY DEF TypeInv, WorkersInv, WatchTyped
    <3> QED
      BY <3>1 DEF WorkerRec
  <2>2. worker'[w].quiet = worker[w].quiet + 1
    BY LookNumbers
  <2>3. /\ heard' /\ Kept(w) => seen'[w].age = 0
        /\ heard' /\ ~Kept(w) => heard /\ seen'[w].age = seen[w].age + 1
    BY <1>1, <2>1, LookNumbers DEF Kept, Arriving
  <2>4. heard' => worker'[w].quiet <= seen'[w].age + ReportEvery + 1
    BY <2>0, <2>1, <2>2, <2>3, Limits DEF Arriving, AgesTyped
  <2>5. ~heard' => worker'[w].quiet <= startupAge' + 1
    BY <1>1, <2>0, <2>1, <2>2 DEF Arriving, AgesTyped
  <2> QED
    BY <1>1, <2>4, <2>5 DEF Arriving, Unread, Kept
<1> QED
  BY <1>1, <1>2 DEF OnTheWay

LEMMA OnTheWayStep ==
  ASSUME TypeInv, TypeInv', StageInv, StageInv', TimeInv, [Next]_vars,
         Heeded' /\ app' = "running" => OnTime'
  PROVE  OnTheWay'
<1>0. SUFFICES ASSUME app' = "running"
               PROVE  OnTheWay'
  BY DEF OnTheWay
<1>1. OnTheWay /\ Consumed
  BY DEF TimeInv
<1>2. ASSUME NEW w \in Workers, Works(w), UNCHANGED supervisorVars
      PROVE  OnTheWay'
  <2>1. app = "running"
    BY <1>0, <1>2, WorkersPublish DEF TypeInv, Becomes, appVars
  <2> QED
    BY <1>1, <1>2, <2>1, ArrivingFresh
<1>3. ASSUME NEW w \in Workers, Hang(w), UNCHANGED supervisorVars
      PROVE  OnTheWay'
  BY <1>0, <1>1, <1>3, ArrivingStays DEF Hang, appVars, readerVars, supervisorVars, watchVars
<1>4. CASE (AppReady \/ SendReport) /\ UNCHANGED supervisorVars
  BY <1>0, <1>1, <1>4, ArrivingSent
<1>5. CASE Freeze /\ UNCHANGED supervisorVars
  BY <1>1, <1>5, ArrivingStays DEF Freeze, registryVars, readerVars, supervisorVars, watchVars
<1>6. CASE ReaderReads /\ UNCHANGED supervisorVars
  <2>1. app = "running"
    BY <1>0, <1>6 DEF ReaderReads, appVars
  <2> QED
    BY <1>1, <1>6, <2>1, ArrivingRead
<1>7. CASE (ReaderExits \/ ReaderFails \/ ReaderStalls) /\ UNCHANGED supervisorVars
  BY <1>0, <1>1, <1>7, ArrivingStays DEF ReaderExits, ReaderFails, ReaderStalls, registryVars, appVars,
                                    supervisorVars, watchVars
<1>8. CASE ReaderEnds /\ UNCHANGED supervisorVars
  BY <1>0, <1>8 DEF ReaderEnds, StageInv, appVars
<1>9. CASE Quits \/ Finishes \/ Launch
  BY <1>0, <1>9 DEF Quits, Finishes, Launch
<1>10. CASE Watches
  BY <1>0, <1>1, <1>10, ArrivingStays DEF Watches, WatchedVars, livenessVars, registryVars, appVars, readerVars
<1>11. CASE Look
  <2>1. app = "running"
    BY <1>0, <1>11 DEF Look
  <2> QED
    BY <1>1, <1>11, <2>1, ArrivingLook
<1> QED
  BY <1>2, <1>3, <1>4, <1>5, <1>6, <1>7, <1>8, <1>9, <1>10, <1>11, StepKinds

LEMMA WithinLimitsStep ==
  ASSUME TypeInv, TypeInv', TimeInv, [Next]_vars
  PROVE  WithinLimits'
<1>0. WithinLimits
  BY DEF TimeInv
<1>1. CASE UNCHANGED <<pc, heard, seen, startupAge>>
  BY <1>0, <1>1 DEF WithinLimits
<1>2. CASE UNCHANGED supervisorVars \/ Quits
  BY <1>1, <1>2 DEF supervisorVars, watchVars, Quits
<1>3. CASE Watches
  BY <1>0, <1>3 DEF Watches, WatchedVars, WithinLimits
<1>4. CASE Finishes
  BY <1>4 DEF Finishes, WithinLimits
<1>5. CASE Launch
  <2>1. startupAge' = -1 /\ heard' = FALSE /\ StartupGrace \in Nat \ {0}
    BY <1>5, SupervisorAssumption DEF Launch, NewWatch
  <2> QED
    BY <2>1 DEF WithinLimits
<1>6. CASE Look
  <2>1. SUFFICES ASSUME pc' \in {"record", "watch", "look"}
                 PROVE  /\ startupAge' < StartupGrace
                        /\ heard' => \A w \in Workers : seen'[w].age < Stale(seen'[w].phase)
    BY DEF WithinLimits
  <2>2. /\ heard' => ~\E w \in Workers : seen'[w].age >= Stale(seen'[w].phase)
        /\ heard' => startupAge' = startupAge
        /\ ~heard' => ~(startupAge' >= StartupGrace)
        /\ startupAge < StartupGrace
    BY <1>0, <1>6, <2>1 DEF Look, Fails, WithinLimits
  <2>3. /\ startupAge' \in -1 .. StartupGrace /\ StartupGrace \in Nat
        /\ \A w \in Workers : seen'[w].age \in Nat /\ Stale(seen'[w].phase) \in Nat
    BY SupervisorAssumption, Limits DEF TypeInv, WatchTyped
  <2> QED
    BY <2>2, <2>3
<1> QED
  BY <1>2, <1>3, <1>4, <1>5, <1>6, StepKinds

TimingInv == TypeInv /\ StageInv /\ TimeInv

LEMMA TimingInvStart == Init => TimingInv
<1> SUFFICES ASSUME Init
             PROVE  TimingInv
  OBVIOUS
<1>1. TypeInv /\ StageInv
  BY TypeInvStart, StageStart
<1>2. app = "none" /\ hung = {} /\ heard = FALSE /\ reader = "none" /\ file.line = "none"
  BY DEF Init, LivenessInit, Says
<1>3. pc \notin {"record", "watch", "look"}
  BY DEF Init
<1> QED
  BY <1>1, <1>2, <1>3 DEF TimingInv, TimeInv, HealthyQuiet, Consumed, Young, NewFrame, FoundAtOnce, Heeded,
                    OnTheWay, WithinLimits

LEMMA TimingInvStep == TimingInv /\ [Next]_vars => TimingInv'
<1> SUFFICES ASSUME TimingInv, [Next]_vars
             PROVE  TimingInv'
  OBVIOUS
<1>0. TypeInv /\ StageInv /\ TimeInv
  BY DEF TimingInv
<1>1. HealthyQuiet /\ Consumed
  BY <1>0 DEF TimeInv
<1>2. TypeInv' /\ StageInv'
  BY <1>0, TypeInvStep, StageStep
<1>3. HealthyQuiet' /\ Consumed'
  BY <1>0, <1>1, HealthyQuietStep, ConsumedStep
<1>4. Young' /\ NewFrame' /\ (Heeded' /\ app' = "running" => OnTime')
  BY <1>0, YoungStep, NewFrameStep, OnTimeStep
<1>5. FoundAtOnce'
  BY <1>0, <1>3, FoundAtOnceStep
<1>6. OnTheWay' /\ WithinLimits'
  BY <1>0, <1>2, <1>4, OnTheWayStep, WithinLimitsStep
<1> QED
  BY <1>2, <1>3, <1>4, <1>5, <1>6 DEF TimingInv, TimeInv

LEMMA TimingInvHolds == Spec => []TimingInv
  BY TimingInvStart, TimingInvStep, PTL DEF Spec

\* A worker that says nothing is found: within the limit of its phase and the time
\* between two frames while the reporter and the reader work, and within that of
\* the phase last heard of, or the startup grace, when they are stuck as well
\* (tick_liveness_watchdog).
THEOREM StallsAreFound == Spec => []StallsFound
<1>1. TimingInv => StallsFound
  <2> SUFFICES ASSUME TimingInv, app = "running", pc \in {"watch", "look"}, NEW w \in Workers
               PROVE  /\ ~frozen /\ ~stalled => worker[w].quiet <= Stale(worker[w].phase) + ReportEvery
                      /\ heard  => worker[w].quiet <= Stale(seen[w].phase) + ReportEvery
                      /\ ~heard => worker[w].quiet <= StartupGrace
    BY DEF StallsFound
  <2>1. Arriving(w) /\ WithinLimits /\ FoundAtOnce /\ AgesTyped(w)
    BY NumbersAged DEF TimingInv, TimeInv, OnTheWay
  <2>2. Stale(seen[w].phase) \in Nat /\ ReportEvery \in Nat
    BY Limits
  <2> QED
    BY <2>1, <2>2 DEF Arriving, WithinLimits, FoundAtOnce, AgesTyped
<1> QED
  BY <1>1, TimingInvHolds, PTL

\* A generation is given up as stale by a look only.
LEMMA OnlyLooksFindStale ==
  ASSUME [Next]_vars, failure' = "stale", failure # "stale"
  PROVE  Look /\ heard' /\ \E w \in Workers : seen'[w].age >= Stale(seen'[w].phase)
<1>1. CASE AppSteps \/ AppLeaves \/ HelperEnds
  BY <1>1 DEF AppSteps, AppLeaves, HelperEnds, supervisorVars, watchVars
<1>2. CASE NewWatch \/ failure' = failure
  BY <1>2 DEF NewWatch
<1>3. CASE PrepareFails \/ RecordFails \/ Trap \/ ClearFails \/ Launch \/ Record \/ StopGeneration
           \/ Drain \/ Reap \/ WaitEnds \/ \E lasted \in BOOLEAN : Clear(lasted)
  BY <1>2, <1>3 DEF PrepareFails, RecordFails, Trap, ClearFails, Launch, Record, StopGeneration, Drain,
                    Reap, WaitEnds, Clear, Leaves, watchVars
<1>4. CASE LookFails \/ CheckProcesses \/ CheckRace
  BY <1>4 DEF LookFails, CheckProcesses, CheckRace, Goes, Fails, watchVars
<1>5. CASE Look
  BY <1>5 DEF Look, Fails
<1>6. CASE UNCHANGED vars
  BY <1>6 DEF vars, supervisorVars, watchVars
<1> QED
  BY <1>1, <1>3, <1>4, <1>5, <1>6 DEF Next, Supervise, Ended

LEMMA HealthyLook ==
  ASSUME TimingInv, Look, heard', Healthy, NEW w \in Workers
  PROVE  seen'[w].age < Stale(seen'[w].phase)
<1>0. TypeInv /\ StageInv /\ Young /\ NewFrame /\ seen[w].age \in Nat
  BY NumbersTyped DEF TimingInv, TimeInv, TypedNumbers
<1>1. Heeded
  BY <1>0 DEF Look, Punctual, Heeded, Healthy, StageInv, TypeInv, ReaderTyped, Errors
<1>2. CASE Kept(w)
  <2>1. seen'[w].age = 0
    BY <1>0, <1>2, LookNumbers
  <2> QED
    BY <2>1, Limits
<1>3. CASE ~Kept(w)
  <2>1. heard
    BY <1>0, <1>1, <1>3, LookNumbers DEF NewFrame, Kept
  <2>2. seen'[w].phase = seen[w].phase /\ seen'[w].age = seen[w].age + 1
    BY <1>0, <1>3, LookNumbers
  <2>3. seen[w].age < Quiet(seen[w].phase) + ReportEvery
    BY <1>0, <1>1, <2>1 DEF Young, Healthy
  <2>4. /\ ReportEvery \in Nat /\ Quiet(seen[w].phase) \in Nat /\ Stale(seen[w].phase) \in Nat
        /\ Quiet(seen[w].phase) + ReportEvery < Stale(seen[w].phase)
    BY Limits
  <2> QED
    BY <1>0, <2>2, <2>3, <2>4
<1> QED
  BY <1>2, <1>3

\* A generation in which everything works is never stopped as stale
\* (consume_liveness_state, tick_liveness_watchdog).
THEOREM HealthyIsNotStopped == Spec => HealthyNotKilled
<1>1. TimingInv /\ [Next]_vars => [failure' = "stale" /\ failure # "stale" => ~Healthy]_vars
  <2> SUFFICES ASSUME TimingInv, [Next]_vars, failure' = "stale", failure # "stale", Healthy
               PROVE  FALSE
    OBVIOUS
  <2>1. Look /\ heard' /\ \E w \in Workers : seen'[w].age >= Stale(seen'[w].phase)
    BY OnlyLooksFindStale
  <2>2. PICK w \in Workers : seen'[w].age >= Stale(seen'[w].phase)
    BY <2>1
  <2>3. seen'[w].age < Stale(seen'[w].phase)
    BY <2>1, HealthyLook
  <2>4. seen'[w].age \in Nat /\ Stale(seen'[w].phase) \in Nat
    <3>1. TypeInv'
      BY TypeInvStep DEF TimingInv
    <3>2. seen' \in [Workers -> [phase : Phases, age : Nat]]
      BY <3>1 DEF TypeInv, WatchTyped
    <3> QED
      BY <3>2, Limits
  <2> QED
    BY <2>2, <2>3, <2>4
<1> QED
  BY <1>1, TimingInvHolds, PTL DEF Spec, HealthyNotKilled

-----------------------------------------------------------------------------
(* The restart delay.  The provers know no powers, and nothing of a          *)
(* recursive function but its definition, so that TwoTo's equation is        *)
(* derived first: from the solutions up to each number, by induction.        *)

\* A solution of TwoTo's recursion up to n.
Doubles(f, n) == f = [i \in 0 .. n |-> IF i = 0 THEN 1 ELSE 2 * f[i - 1]]

LEMMA DoublesNext ==
  ASSUME NEW n \in Nat, NEW f, Doubles(f, n)
  PROVE  \E g : Doubles(g, n + 1)
<1> DEFINE g == [i \in 0 .. n + 1 |-> IF i = n + 1 THEN 2 * f[n] ELSE f[i]]
<1>1. \A i \in 0 .. n : f[i] = IF i = 0 THEN 1 ELSE 2 * f[i - 1]
  BY DEF Doubles
<1>2. \A i \in 0 .. n + 1 : g[i] = IF i = 0 THEN 1 ELSE 2 * g[i - 1]
  <2> TAKE i \in 0 .. n + 1
  <2>1. CASE i = n + 1
    <3>1. i - 1 = n /\ i # 0 /\ n \in 0 .. n + 1 /\ n # n + 1
      BY <2>1
    <3> QED
      BY <2>1, <3>1
  <2>2. CASE i # n + 1 /\ i # 0
    <3>1. i \in 0 .. n /\ i - 1 \in 0 .. n /\ i - 1 # n + 1 /\ i - 1 \in 0 .. n + 1
      BY <2>2
    <3> QED
      BY <1>1, <2>2, <3>1
  <2>3. CASE i = 0
    BY <1>1, <2>3
  <2> QED
    BY <2>1, <2>2, <2>3
<1>3. g = [i \in 0 .. n + 1 |-> g[i]]
  OBVIOUS
<1> HIDE DEF g
<1>4. [i \in 0 .. n + 1 |-> g[i]] = [i \in 0 .. n + 1 |-> IF i = 0 THEN 1 ELSE 2 * g[i - 1]]
  BY <1>2
<1> QED
  BY <1>3, <1>4 DEF Doubles

\* Induction over the numbers: a set of counterexamples has a least one.
LEMMA LeastOne ==
  ASSUME NEW T, T \subseteq Nat, T # {}
  PROVE  \E n \in T : \A m \in T : n <= m
<1>1. PICK n \in T : \A m \in T : ~ (<<m, n>> \in OpToRel(<, Nat))
  BY NatLessThanWellFounded, WFMin
<1>2. \A m \in T : ~ (m < n)
  BY <1>1 DEF OpToRel
<1> QED
  BY <1>2

\* There is a solution up to every number, and it is the only one.
LEMMA DoublesUpTo == \A n \in Nat : \E f : Doubles(f, n)
<1> DEFINE T == {n \in Nat : ~ \E f : Doubles(f, n)}
<1> SUFFICES T = {}
  OBVIOUS
<1> SUFFICES ASSUME T # {} PROVE FALSE
  OBVIOUS
<1>1. PICK n \in T : \A m \in T : n <= m
  BY LeastOne
<1>2. n \in Nat /\ ~ \E f : Doubles(f, n)
  BY <1>1
<1>3. n # 0
  <2> DEFINE f == [i \in 0 .. 0 |-> 1]
  <2>1. Doubles(f, 0)
    BY DEF Doubles
  <2> QED
    BY <1>2, <2>1
<1>4. n - 1 \in Nat /\ n - 1 \notin T
  BY <1>1, <1>2, <1>3
<1>5. PICK f : Doubles(f, n - 1)
  BY <1>4
<1>6. \E g : Doubles(g, n - 1 + 1)
  BY <1>4, <1>5, DoublesNext
<1> QED
  BY <1>2, <1>6

LEMMA DoublesAgree ==
  ASSUME NEW n \in Nat, NEW m \in Nat, NEW f, NEW g, Doubles(f, n), Doubles(g, m)
  PROVE  \A i \in Nat : i <= n /\ i <= m => f[i] = g[i]
<1> DEFINE T == {i \in Nat : i <= n /\ i <= m /\ f[i] # g[i]}
<1> SUFFICES ASSUME T # {} PROVE FALSE
  OBVIOUS
<1>1. PICK i \in T : \A j \in T : i <= j
  BY LeastOne
<1>2. i \in Nat /\ i <= n /\ i <= m /\ f[i] # g[i]
  BY <1>1
<1>3. f[i] = (IF i = 0 THEN 1 ELSE 2 * f[i - 1]) /\ g[i] = (IF i = 0 THEN 1 ELSE 2 * g[i - 1])
  BY <1>2 DEF Doubles
<1>4. i # 0
  BY <1>2, <1>3
<1>5. i - 1 \in Nat /\ i - 1 \notin T /\ i - 1 <= n /\ i - 1 <= m
  BY <1>1, <1>2, <1>4
<1>6. f[i - 1] = g[i - 1]
  BY <1>5
<1> QED
  BY <1>2, <1>3, <1>4, <1>6

\* The recursive definition of TwoTo has a solution.
LEMMA TwoToDefined == TwoTo = [n \in Nat |-> IF n = 0 THEN 1 ELSE 2 * TwoTo[n - 1]]
<1> DEFINE Up(n) == CHOOSE f : Doubles(f, n)
           h == [n \in Nat |-> Up(n)[n]]
<1>1. \A n \in Nat : Doubles(Up(n), n)
  BY DoublesUpTo
<1> HIDE DEF Up
<1>2. \A n \in Nat : h[n] = IF n = 0 THEN 1 ELSE 2 * h[n - 1]
  <2> TAKE n \in Nat
  <2>1. Up(n)[n] = IF n = 0 THEN 1 ELSE 2 * Up(n)[n - 1]
    BY <1>1 DEF Doubles
  <2>2. CASE n = 0
    BY <2>1, <2>2
  <2>3. CASE n # 0
    <3>1. n - 1 \in Nat /\ n - 1 <= n /\ n - 1 <= n - 1
      BY <2>3
    <3>2. Doubles(Up(n), n) /\ Doubles(Up(n - 1), n - 1)
      BY <1>1, <3>1
    <3>3. Up(n)[n - 1] = Up(n - 1)[n - 1]
      BY <3>1, <3>2, DoublesAgree
    <3> QED
      BY <2>1, <2>3, <3>1, <3>3
  <2> QED
    BY <2>2, <2>3
<1>3. h = [n \in Nat |-> h[n]]
  OBVIOUS
<1> HIDE DEF h
<1>4. h = [n \in Nat |-> IF n = 0 THEN 1 ELSE 2 * h[n - 1]]
  BY <1>2, <1>3
<1> QED
  BY <1>4 DEF TwoTo

LEMMA TwoToDoubles ==
  /\ TwoTo[0] = 1
  /\ \A n \in Nat : TwoTo[n + 1] = 2 * TwoTo[n]
<1>1. TwoTo[0] = 1
  BY TwoToDefined
<1>2. ASSUME NEW n \in Nat PROVE TwoTo[n + 1] = 2 * TwoTo[n]
  <2>1. n + 1 \in Nat /\ n + 1 # 0 /\ n + 1 - 1 = n
    OBVIOUS
  <2>2. \A m \in Nat : TwoTo[m] = IF m = 0 THEN 1 ELSE 2 * TwoTo[m - 1]
    BY TwoToDefined
  <2> QED
    BY <2>1, <2>2
<1> QED
  BY <1>1, <1>2

LEMMA TwoToIsNumber == \A n \in Nat : TwoTo[n] \in Nat \ {0}
<1> DEFINE T == {n \in Nat : TwoTo[n] \notin Nat \ {0}}
<1> SUFFICES ASSUME T # {} PROVE FALSE
  OBVIOUS
<1>1. PICK n \in T : \A m \in T : n <= m
  BY LeastOne
<1>2. n \in Nat /\ n # 0
  BY <1>1, TwoToDoubles
<1>3. n - 1 \in Nat /\ n - 1 \notin T
  BY <1>1, <1>2
<1>4. TwoTo[n - 1] \in Nat \ {0}
  BY <1>3
<1>5. TwoTo[n] = 2 * TwoTo[n - 1]
  BY <1>2, <1>3, TwoToDoubles
<1> QED
  BY <1>1, <1>4, <1>5

LEMMA LesserOf ==
  \A a, b \in Nat : Min({a, b}) = IF a <= b THEN a ELSE b
<1> SUFFICES ASSUME NEW a \in Nat, NEW b \in Nat
             PROVE  Min({a, b}) = IF a <= b THEN a ELSE b
  OBVIOUS
<1> DEFINE c == IF a <= b THEN a ELSE b
<1>1. c \in {a, b} /\ \A y \in {a, b} : c <= y
  OBVIOUS
<1>2. \A x \in {a, b} : (\A y \in {a, b} : x <= y) => x = c
  OBVIOUS
<1> HIDE DEF c
<1>3. Min({a, b}) = c
  BY <1>1, <1>2 DEF Min
<1> QED
  BY <1>3 DEF c

\* As long as the supervisor runs, the delay is what the streak says: both
\* are reset together, unless the supervisor leaves, and move together.
BackOff == pc # "ended" => delay = Min({TwoTo[streak], MaxDelay})

LEMMA BackOffStart == Init => BackOff
<1> SUFFICES ASSUME Init PROVE delay = Min({TwoTo[streak], MaxDelay})
  BY DEF BackOff
<1>1. TwoTo[streak] = 1 /\ delay = 1
  BY TwoToDoubles DEF Init
<1> QED
  BY <1>1, LesserOf, SupervisorAssumption

LEMMA BackOffStep ==
  ASSUME DelayTyped, BackOff, [Next]_vars
  PROVE  BackOff'
<1>0. MaxDelay \in Nat \ {0} /\ streak \in Nat /\ delay \in Nat
  BY SupervisorAssumption DEF DelayTyped
<1>1. CASE UNCHANGED delayVars /\ (pc' # "ended" => pc # "ended")
  BY <1>1 DEF BackOff, delayVars
<1>2. CASE pc # "ended" /\ (AppSteps \/ AppLeaves \/ HelperEnds)
  BY <1>1, <1>2 DEF AppSteps, AppLeaves, HelperEnds, supervisorVars
<1>3. CASE PrepareFails \/ RecordFails \/ Trap \/ ClearFails \/ Launch \/ Record \/ LookFails
           \/ CheckProcesses \/ CheckRace \/ Look \/ StopGeneration \/ Drain \/ Reap
  BY <1>1, <1>3 DEF PrepareFails, RecordFails, Trap, ClearFails, Launch, Record, LookFails,
                    CheckProcesses, CheckRace, Look, StopGeneration, Drain, Reap, Goes
<1>4. CASE WaitEnds
  <2>1. /\ delay' = (IF 2 * delay < MaxDelay THEN 2 * delay ELSE MaxDelay)
        /\ delay = Min({TwoTo[streak], MaxDelay})
    BY <1>4 DEF WaitEnds, Doubled, BackOff
  <2>2. streak' = IF TwoTo[streak] < MaxDelay THEN streak + 1 ELSE streak
    BY <1>4 DEF WaitEnds
  <2>3. TwoTo[streak] \in Nat \ {0} /\ TwoTo[streak + 1] = 2 * TwoTo[streak]
    BY <1>0, TwoToDoubles, TwoToIsNumber
  <2>4. delay = IF TwoTo[streak] <= MaxDelay THEN TwoTo[streak] ELSE MaxDelay
    BY <1>0, <2>1, <2>3, LesserOf
  <2>5. CASE TwoTo[streak] < MaxDelay
    <3>1. TwoTo[streak'] = 2 * TwoTo[streak] /\ delay = TwoTo[streak]
      BY <1>0, <2>2, <2>3, <2>4, <2>5
    <3>2. delay' = Min({2 * TwoTo[streak], MaxDelay})
      BY <1>0, <2>1, <2>3, <3>1, LesserOf
    <3> QED
      BY <3>1, <3>2 DEF BackOff
  <2>6. CASE ~ (TwoTo[streak] < MaxDelay)
    <3>1. streak' = streak /\ delay = MaxDelay
      BY <1>0, <2>2, <2>3, <2>4, <2>6
    <3>2. delay' = MaxDelay
      BY <1>0, <2>1, <3>1
    <3>3. delay' = Min({TwoTo[streak'], MaxDelay})
      BY <2>1, <3>1, <3>2
    <3> QED
      BY <3>3 DEF BackOff
  <2> QED
    BY <2>5, <2>6
<1>5. ASSUME NEW lasted \in BOOLEAN, Clear(lasted)
      PROVE  BackOff'
  <2>1. CASE ~ lasted \/ status = "contended"
    BY <1>5, <2>1 DEF Clear, BackOff
  <2>2. CASE lasted /\ status # "contended"
    <3>1. delay' = 1 /\ streak' = 0
      BY <1>5, <2>2 DEF Clear
    <3>2. Min({TwoTo[0], MaxDelay}) = 1
      BY <1>0, TwoToDoubles, LesserOf
    <3> QED
      BY <3>1, <3>2 DEF BackOff
  <2> QED
    BY <2>1, <2>2
<1>6. CASE UNCHANGED vars
  BY <1>1, <1>6 DEF vars, supervisorVars
<1>7. CASE Ended
  BY <1>6, <1>7 DEF Ended
<1> QED
  BY <1>2, <1>3, <1>4, <1>5, <1>6, <1>7 DEF Next, Supervise

\* The n-th restart in a row of generations that did not last waits 2^(n-1)
\* times the shortest delay, up to the longest (RESTART_RESET_AFTER_SECONDS,
\* delay_next), for every bound on the delay.
THEOREM DelaysDouble == Spec => []DelaysBackOff
<1>1. Init => DelayTyped /\ BackOff
  BY TypeInvStart, BackOffStart DEF TypeInv
<1>2. DelayTyped /\ BackOff /\ [Next]_vars => (DelayTyped /\ BackOff)'
  BY DelayTypedStep, BackOffStep
<1>3. BackOff => DelaysBackOff
  BY DEF BackOff, DelaysBackOff
<1> QED
  BY <1>1, <1>2, <1>3, PTL DEF Spec

=============================================================================
