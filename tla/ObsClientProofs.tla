-------------------------- MODULE ObsClientProofs --------------------------
(***************************************************************************)
(* Proofs about ObsClient, for every set of callers and dialers and any    *)
(* number of requests and connections.  The inductive invariant is IInv:   *)
(* the three safety invariants rest on Bookkeeping, because an answer is   *)
(* its own only if IDs are never used again, and a disconnect fails every  *)
(* waiting caller only if all of them are on the current connection.       *)
(***************************************************************************)
EXTENDS ObsClient, TLAPS

(* What the changes of the callers' table do to its fields.                *)

LEMMA GoesFields ==
  ASSUME req \in [Callers -> Request], NEW r \in Callers, NEW place \in Places
  PROVE  /\ Goes(r, place) \in [Callers -> Request]
         /\ \A q \in Callers :
              /\ Goes(r, place)[q].at = IF q = r THEN place ELSE req[q].at
              /\ Goes(r, place)[q].conn = req[q].conn
              /\ Goes(r, place)[q].id = req[q].id
              /\ Goes(r, place)[q].reply = req[q].reply
              /\ q # r => Goes(r, place)[q] = req[q]
  BY DEF Goes, Request

LEMMA EndsFields ==
  ASSUME req \in [Callers -> Request], NEW r \in Callers
  PROVE  /\ Ends(r) \in [Callers -> Request]
         /\ \A q \in Callers : Ends(r)[q] = IF q = r THEN Idle ELSE req[q]
         /\ Idle.at = "idle" /\ Idle.id = 0 /\ Idle.conn = None /\ Idle.reply = "none"
  BY DEF Ends, Idle, Request, Places, Replies

LEMMA FailPendingFields ==
  ASSUME NEW callers \in [Callers -> Request]
  PROVE  /\ FailPending(callers) \in [Callers -> Request]
         /\ \A q \in Callers :
              /\ FailPending(callers)[q].at = callers[q].at
              /\ FailPending(callers)[q].conn = callers[q].conn
              /\ FailPending(callers)[q].id = callers[q].id
              /\ FailPending(callers)[q].reply =
                   IF callers[q].id \in pending THEN "error" ELSE callers[q].reply
              /\ callers[q].id \notin pending => FailPending(callers)[q] = callers[q]
  BY DEF FailPending, Request, Replies

LEMMA AnsweredFields ==
  ASSUME req \in [Callers -> Request], NEW i
  PROVE  /\ Answered(i) \in [Callers -> Request]
         /\ \A q \in Callers :
              /\ Answered(i)[q].at = req[q].at
              /\ Answered(i)[q].conn = req[q].conn
              /\ Answered(i)[q].id = req[q].id
              /\ Answered(i)[q].reply =
                   IF i \in pending /\ req[q].id = i THEN "answer" ELSE req[q].reply
              /\ ~(i \in pending /\ req[q].id = i) => Answered(i)[q] = req[q]
  BY DEF Answered, Request, Replies

-----------------------------------------------------------------------------

(* TypeOK is kept; a request that is sent has an ID and a connection.      *)
LEMMA TypeStep ==
  ASSUME TypeOK, Bookkeeping, [Next]_vars
  PROVE  TypeOK'
<1> USE BoundsAreNaturals DEF TypeOK, None, Replies, Places, clientVars, obsVars
<1>0. \A r \in Callers : req[r].at # "idle" => req[r].id \in Ids /\ req[r].conn \in Conns
  BY DEF Bookkeeping, CallsAreApart, Ids, Request
<1>1. ASSUME NEW k \in Dialers, Connect(k) PROVE TypeOK'
  BY <1>0, <1>1 DEF Connect
<1>2. ASSUME NEW k \in Dialers, DialFails(k) PROVE TypeOK'
  BY <1>0, <1>2 DEF DialFails
<1>3. ASSUME NEW k \in Dialers, DialSucceeds(k) PROVE TypeOK'
  BY <1>0, <1>3 DEF DialSucceeds, NextConn, Shut
<1>4. ASSUME Close PROVE TypeOK'
  <2>1. req' \in [Callers -> Request]
    BY <1>4, FailPendingFields DEF Close, Shut
  <2> QED
    BY <1>0, <1>4, <2>1 DEF Close, Shut
<1>5. ASSUME NEW r \in Callers, StartRequest(r) PROVE TypeOK'
  BY <1>0, <1>5 DEF StartRequest, Request, Ids
<1>6. ASSUME NEW r \in Callers, Register(r) PROVE TypeOK'
  <2>1. Goes(r, "gate") \in [Callers -> Request] /\ Ends(r) \in [Callers -> Request]
    BY GoesFields, EndsFields
  <2> QED
    BY <1>0, <1>6, <2>1 DEF Register
<1>7. ASSUME NEW r \in Callers, TakeGate(r) PROVE TypeOK'
  <2>1. req' \in [Callers -> Request]
    BY <1>7, GoesFields DEF TakeGate
  <2> QED
    BY <1>0, <1>7, <2>1 DEF TakeGate
<1>8. ASSUME NEW r \in Callers, LeaveGate(r) PROVE TypeOK'
  <2>1. req' \in [Callers -> Request]
    BY <1>8, GoesFields DEF LeaveGate
  <2> QED
    BY <1>0, <1>8, <2>1 DEF LeaveGate
<1>9. ASSUME NEW r \in Callers, Write(r) PROVE TypeOK'
  <2>1. req' \in [Callers -> Request]
    BY <1>9, GoesFields DEF Write, Sent
  <2> QED
    BY <1>0, <1>9, <2>1 DEF Write, Sent
<1>10. ASSUME NEW r \in Callers, WriteFails(r) PROVE TypeOK'
  <2>1. req' \in [Callers -> Request]
    BY <1>10, GoesFields DEF WriteFails, Sent, Shut
  <2> QED
    BY <1>0, <1>10, <2>1 DEF WriteFails, Sent, Shut
<1>11. ASSUME NEW r \in Callers, GiveUp(r) PROVE TypeOK'
  <2>1. Ends(r) \in [Callers -> Request]
    BY EndsFields
  <2>2. req' \in [Callers -> Request]
    BY <1>11, <2>1, FailPendingFields DEF GiveUp, DisconnectIfCurrent, Shut
  <2> QED
    BY <1>11, <2>2 DEF GiveUp, DisconnectIfCurrent, Shut
<1>12. ASSUME NEW r \in Callers, Timeout(r) PROVE TypeOK'
  <2>1. req' \in [Callers -> Request]
    BY <1>12, GoesFields DEF Timeout
  <2> QED
    BY <1>0, <1>12, <2>1 DEF Timeout
<1>13. ASSUME NEW r \in Callers, Return(r) PROVE TypeOK'
  <2>1. req' \in [Callers -> Request]
    BY <1>13, EndsFields DEF Return
  <2> QED
    BY <1>0, <1>13, <2>1 DEF Return
<1>14. ASSUME NEW r \in Callers, Cancel(r) PROVE TypeOK'
  <2>1. req' \in [Callers -> Request]
    BY <1>14, EndsFields DEF Cancel
  <2> QED
    BY <1>0, <1>14, <2>1 DEF Cancel
<1>15. ASSUME NEW g \in Conns, ReadFails(g) PROVE TypeOK'
  <2>1. req' \in [Callers -> Request]
    BY <1>15, FailPendingFields DEF ReadFails, DisconnectIfCurrent, Shut
  <2> QED
    BY <1>0, <1>15, <2>1 DEF ReadFails, DisconnectIfCurrent, Shut
<1>16. ASSUME NEW g \in Conns, Break(g) PROVE TypeOK'
  BY <1>0, <1>16 DEF Break, Shut
<1>17. ASSUME NEW g \in Conns, NEW i \in Ids, Receive(g, i) PROVE TypeOK'
  <2>1. req' \in [Callers -> Request]
    BY <1>17, AnsweredFields DEF Receive
  <2> QED
    BY <1>0, <1>17, <2>1 DEF Receive
<1>18. ASSUME NEW g \in Conns, NEW i \in Ids, Serve(g, i) PROVE TypeOK'
  BY <1>0, <1>18 DEF Serve
<1>19. CASE UNCHANGED vars
  BY <1>19 DEF vars
<1> QED
  BY <1>1, <1>2, <1>3, <1>4, <1>5, <1>6, <1>7, <1>8, <1>9, <1>10, <1>11, <1>12, <1>13, <1>14, <1>15, <1>16, <1>17, <1>18, <1>19 DEF Next, CallerStep

-----------------------------------------------------------------------------
(* What every action does to the callers' table, field by field.           *)

SameCall(q) == req'[q].at = req[q].at /\ req'[q].conn = req[q].conn /\ req'[q].id = req[q].id

\* Caller r moves to another place.
Moved(r, place) ==
  /\ req'[r].at = place /\ req'[r].conn = req[r].conn
  /\ req'[r].id = req[r].id /\ req'[r].reply = req[r].reply
  /\ \A q \in Callers : q # r => req'[q] = req[q]

\* Caller r returns.
Left(r) == req'[r] = Idle /\ \A q \in Callers : q # r => req'[q] = req[q]

\* The pending requests of the callers in Others fail.
Failed(Others) ==
  \A q \in Others : /\ SameCall(q)
                    /\ req'[q].reply = IF req[q].id \in pending THEN "error" ELSE req[q].reply

LEMMA IdleFields == Idle.at = "idle" /\ Idle.conn = None /\ Idle.id = 0 /\ Idle.reply = "none"
  BY DEF Idle

LEMMA Moves ==
  ASSUME TypeOK, NEW r \in Callers
  PROVE  /\ Register(r)   => Moved(r, "gate") \/ Left(r)
         /\ TakeGate(r)   => Moved(r, "writing")
         /\ LeaveGate(r)  => Moved(r, "broken")
         /\ Write(r)      => Moved(r, "await")
         /\ WriteFails(r) => Moved(r, "broken")
         /\ Timeout(r)    => Moved(r, "broken")
         /\ Cancel(r)     => Left(r)
         /\ Return(r)     => Left(r)
<1>1. \A place \in Places : req' = Goes(r, place) => Moved(r, place)
  BY GoesFields DEF Moved, TypeOK
<1>2. req' = Ends(r) => Left(r)
  BY EndsFields DEF Left, TypeOK
<1>3. {"gate", "writing", "broken", "await"} \subseteq Places
  BY DEF Places
<1> QED
  BY <1>1, <1>2, <1>3 DEF Register, TakeGate, LeaveGate, Write, WriteFails, Timeout, Cancel, Return

LEMMA Disconnects ==
  ASSUME TypeOK, NEW g
  PROVE  /\ \A r \in Callers : DisconnectIfCurrent(g, Ends(r), {req[r].id}) =>
              /\ req'[r] = Idle
              /\ \/ /\ conn = g /\ conn' = None /\ state' = "disconnected" /\ pending' = {}
                    /\ Failed(Callers \ {r})
                 \/ /\ Left(r) /\ pending' = pending \ {req[r].id}
                    /\ conn' = conn /\ state' = state /\ sock' = sock
         /\ DisconnectIfCurrent(g, req, {}) =>
              \/ conn = g /\ conn' = None /\ state' = "disconnected" /\ pending' = {} /\ Failed(Callers)
              \/ req' = req /\ pending' = pending /\ conn' = conn /\ state' = state /\ sock' = sock
         /\ Close => Failed(Callers)
<1>1. ASSUME NEW r \in Callers PROVE Ends(r) \in [Callers -> Request]
             /\ \A q \in Callers : Ends(r)[q] = IF q = r THEN Idle ELSE req[q]
  BY EndsFields DEF TypeOK
<1>2. 0 \notin pending
  BY DEF TypeOK, Ids
<1>3. ASSUME NEW r \in Callers, req' = FailPending(Ends(r))
      PROVE  req'[r] = Idle /\ Failed(Callers \ {r})
  BY <1>1, <1>2, <1>3, FailPendingFields, IdleFields DEF Failed, SameCall
<1>4. req' = FailPending(req) => Failed(Callers)
  BY FailPendingFields DEF Failed, SameCall, TypeOK
<1> QED
  BY <1>1, <1>3, <1>4 DEF DisconnectIfCurrent, Close, Left

LEMMA GivesUp ==
  ASSUME TypeOK, NEW r \in Callers, GiveUp(r)
  PROVE  /\ req'[r] = Idle
         /\ \/ /\ conn' = None /\ state' = "disconnected" /\ pending' = {}
               /\ Failed(Callers \ {r})
            \/ /\ Left(r) /\ pending' = pending \ {req[r].id}
               /\ conn' = conn /\ state' = state /\ sock' = sock
<1>1. DisconnectIfCurrent(req[r].conn, Ends(r), {req[r].id})
  BY DEF GiveUp
<1> QED
  BY <1>1, Disconnects

LEMMA Answers ==
  ASSUME TypeOK, NEW g, NEW i, Receive(g, i)
  PROVE  \A q \in Callers :
           /\ SameCall(q)
           /\ req'[q].reply = IF i \in pending /\ req[q].id = i THEN "answer" ELSE req[q].reply
  BY AnsweredFields DEF Receive, TypeOK, SameCall

(* ConnectionsAreOwned is kept: only DialSucceeds opens a socket.          *)
LEMMA OwnedStep ==
  ASSUME TypeOK, Bookkeeping, ConnectionsAreOwned, [Next]_vars
  PROVE  ConnectionsAreOwned'
<1> USE DEF ConnectionsAreOwned, Bookkeeping, CallsAreApart, TrafficInPlace, DialsAlone, TypeOK, None, clientVars, obsVars
<1>1. ASSUME NEW k \in Dialers, Connect(k) PROVE ConnectionsAreOwned'
  BY <1>1 DEF Connect
<1>2. ASSUME NEW k \in Dialers, DialFails(k) PROVE ConnectionsAreOwned'
  BY <1>2 DEF DialFails
<1>3. ASSUME NEW k \in Dialers, DialSucceeds(k) PROVE ConnectionsAreOwned'
  <2>1. dialing = {k} /\ dialing' = {}
    BY <1>3 DEF DialSucceeds
  <2>2. PICK g \in Conns :
          /\ NextConn(g)
          /\ \/ /\ closed
                /\ sock' = Shut(g)
                /\ UNCHANGED <<state, conn, readers>>
             \/ /\ ~closed
                /\ sock' = [sock EXCEPT ![g] = "open"]
                /\ conn' = g /\ state' = "connected"
                /\ readers' = readers \cup {g}
    BY <1>3 DEF DialSucceeds
  <2>3. CASE closed
    BY <1>3, <2>1, <2>2, <2>3 DEF DialSucceeds, Shut
  <2>4. CASE ~closed
    <3>1. conn = None /\ \A c \in Conns : sock[c] # "open"
      BY <2>1 DEF Conns
    <3>2. g # None
      BY DEF Conns
    <3> QED
      BY <1>3, <2>1, <2>2, <2>4, <3>1, <3>2 DEF DialSucceeds
  <2> QED
    BY <2>3, <2>4
<1>4. ASSUME Close PROVE ConnectionsAreOwned'
  BY <1>4 DEF Close, Shut
<1>5. ASSUME NEW r \in Callers, StartRequest(r) PROVE ConnectionsAreOwned'
  BY <1>5 DEF StartRequest, Request
<1>6. ASSUME NEW r \in Callers, Register(r) PROVE ConnectionsAreOwned'
  BY <1>6 DEF Register
<1>7. ASSUME NEW r \in Callers, TakeGate(r) PROVE ConnectionsAreOwned'
  BY <1>7 DEF TakeGate
<1>8. ASSUME NEW r \in Callers, LeaveGate(r) PROVE ConnectionsAreOwned'
  BY <1>8 DEF LeaveGate
<1>9. ASSUME NEW r \in Callers, Write(r) PROVE ConnectionsAreOwned'
  BY <1>9 DEF Write, Sent
<1>10. ASSUME NEW r \in Callers, WriteFails(r) PROVE ConnectionsAreOwned'
  BY <1>10 DEF WriteFails, Sent, Shut
<1>11. ASSUME NEW r \in Callers, GiveUp(r) PROVE ConnectionsAreOwned'
  BY <1>11 DEF GiveUp, DisconnectIfCurrent, Shut
<1>12. ASSUME NEW r \in Callers, Timeout(r) PROVE ConnectionsAreOwned'
  BY <1>12 DEF Timeout
<1>13. ASSUME NEW r \in Callers, Return(r) PROVE ConnectionsAreOwned'
  BY <1>13 DEF Return
<1>14. ASSUME NEW r \in Callers, Cancel(r) PROVE ConnectionsAreOwned'
  BY <1>14 DEF Cancel
<1>15. ASSUME NEW g \in Conns, ReadFails(g) PROVE ConnectionsAreOwned'
  BY <1>15 DEF ReadFails, DisconnectIfCurrent, Shut
<1>16. ASSUME NEW g \in Conns, Break(g) PROVE ConnectionsAreOwned'
  BY <1>16 DEF Break, Shut
<1>17. ASSUME NEW g \in Conns, NEW i \in Ids, Receive(g, i) PROVE ConnectionsAreOwned'
  BY <1>17 DEF Receive
<1>18. ASSUME NEW g \in Conns, NEW i \in Ids, Serve(g, i) PROVE ConnectionsAreOwned'
  BY <1>18 DEF Serve
<1>19. CASE UNCHANGED vars
  BY <1>19 DEF vars
<1> QED
  BY <1>1, <1>2, <1>3, <1>4, <1>5, <1>6, <1>7, <1>8, <1>9, <1>10, <1>11, <1>12, <1>13, <1>14, <1>15, <1>16, <1>17, <1>18, <1>19 DEF Next, CallerStep

(* AnswerIsOwn is kept: an answer is taken from the connection of its request.*)
LEMMA AnswerStep ==
  ASSUME TypeOK, Bookkeeping, AnswerIsOwn, [Next]_vars
  PROVE  AnswerIsOwn'
<1> USE DEF AnswerIsOwn, Bookkeeping, CallsAreApart, TrafficInPlace, DialsAlone, TypeOK, clientVars, obsVars
<1>1. ASSUME NEW k \in Dialers, Connect(k) PROVE AnswerIsOwn'
  BY <1>1 DEF Connect
<1>2. ASSUME NEW k \in Dialers, DialFails(k) PROVE AnswerIsOwn'
  BY <1>2 DEF DialFails
<1>3. ASSUME NEW k \in Dialers, DialSucceeds(k) PROVE AnswerIsOwn'
  BY <1>3 DEF DialSucceeds, NextConn, Shut, Conns
<1>4. ASSUME Close PROVE AnswerIsOwn'
  <2>1. Failed(Callers)
    BY <1>4, Disconnects
  <2> QED
    BY <1>4, <2>1 DEF Close, Failed, SameCall
<1>5. ASSUME NEW r \in Callers, StartRequest(r) PROVE AnswerIsOwn'
  BY <1>5 DEF StartRequest, Request
<1>6. ASSUME NEW r \in Callers, Register(r) PROVE AnswerIsOwn'
  <2>1. Moved(r, "gate") \/ Left(r)
    BY <1>6, Moves
  <2> QED
    BY <1>6, <2>1, IdleFields DEF Register, Moved, Left
<1>7. ASSUME NEW r \in Callers, TakeGate(r) PROVE AnswerIsOwn'
  <2>1. Moved(r, "writing")
    BY <1>7, Moves
  <2> QED
    BY <1>7, <2>1, IdleFields DEF TakeGate, Moved, Left
<1>8. ASSUME NEW r \in Callers, LeaveGate(r) PROVE AnswerIsOwn'
  <2>1. Moved(r, "broken")
    BY <1>8, Moves
  <2> QED
    BY <1>8, <2>1, IdleFields DEF LeaveGate, Moved, Left
<1>9. ASSUME NEW r \in Callers, Write(r) PROVE AnswerIsOwn'
  <2>1. Moved(r, "await")
    BY <1>9, Moves
  <2> QED
    BY <1>9, <2>1, IdleFields DEF Write, Sent, Moved, Left
<1>10. ASSUME NEW r \in Callers, WriteFails(r) PROVE AnswerIsOwn'
  <2>1. Moved(r, "broken")
    BY <1>10, Moves
  <2> QED
    BY <1>10, <2>1, IdleFields DEF WriteFails, Sent, Shut, Moved, Left
<1>11. ASSUME NEW r \in Callers, GiveUp(r) PROVE AnswerIsOwn'
  <2>1. /\ req'[r] = Idle
        /\ \/ /\ conn' = None /\ state' = "disconnected" /\ pending' = {}
              /\ Failed(Callers \ {r})
           \/ /\ Left(r) /\ pending' = pending \ {req[r].id}
              /\ conn' = conn /\ state' = state /\ sock' = sock
    BY <1>11, GivesUp
  <2> QED
    BY <1>11, <2>1, IdleFields DEF GiveUp, Left, Failed, SameCall
<1>12. ASSUME NEW r \in Callers, Timeout(r) PROVE AnswerIsOwn'
  <2>1. Moved(r, "broken")
    BY <1>12, Moves
  <2> QED
    BY <1>12, <2>1, IdleFields DEF Timeout, Moved, Left
<1>13. ASSUME NEW r \in Callers, Return(r) PROVE AnswerIsOwn'
  <2>1. Left(r)
    BY <1>13, Moves
  <2> QED
    BY <1>13, <2>1, IdleFields DEF Return, Moved, Left
<1>14. ASSUME NEW r \in Callers, Cancel(r) PROVE AnswerIsOwn'
  <2>1. Left(r)
    BY <1>14, Moves
  <2> QED
    BY <1>14, <2>1, IdleFields DEF Cancel, Moved, Left
<1>15. ASSUME NEW g \in Conns, ReadFails(g) PROVE AnswerIsOwn'
  <2>1. \/ conn' = None /\ state' = "disconnected" /\ pending' = {} /\ Failed(Callers)
        \/ req' = req /\ pending' = pending /\ conn' = conn /\ state' = state /\ sock' = sock
    BY <1>15, Disconnects DEF ReadFails
  <2> QED
    BY <1>15, <2>1 DEF ReadFails, Failed, SameCall
<1>16. ASSUME NEW g \in Conns, Break(g) PROVE AnswerIsOwn'
  BY <1>16 DEF Break, Shut
<1>17. ASSUME NEW g \in Conns, NEW i \in Ids, Receive(g, i) PROVE AnswerIsOwn'
  <2>1. \A q \in Callers :
          /\ SameCall(q)
          /\ req'[q].reply = IF i \in pending /\ req[q].id = i THEN "answer" ELSE req[q].reply
    BY <1>17, Answers
  <2> QED
    BY <1>17, <2>1 DEF Receive, SameCall
<1>18. ASSUME NEW g \in Conns, NEW i \in Ids, Serve(g, i) PROVE AnswerIsOwn'
  BY <1>18 DEF Serve
<1>19. CASE UNCHANGED vars
  BY <1>19 DEF vars
<1> QED
  BY <1>1, <1>2, <1>3, <1>4, <1>5, <1>6, <1>7, <1>8, <1>9, <1>10, <1>11, <1>12, <1>13, <1>14, <1>15, <1>16, <1>17, <1>18, <1>19 DEF Next, CallerStep

(* NobodyWaitsInVain is kept: a disconnect fails everything that is pending.*)
LEMMA WaitStep ==
  ASSUME TypeOK, Bookkeeping, NobodyWaitsInVain, [Next]_vars
  PROVE  NobodyWaitsInVain'
<1> USE DEF NobodyWaitsInVain, Calling, Bookkeeping, CallsAreApart, TrafficInPlace, DialsAlone, TypeOK, None, clientVars, obsVars
<1>1. ASSUME NEW k \in Dialers, Connect(k) PROVE NobodyWaitsInVain'
  BY <1>1 DEF Connect
<1>2. ASSUME NEW k \in Dialers, DialFails(k) PROVE NobodyWaitsInVain'
  BY <1>2 DEF DialFails
<1>3. ASSUME NEW k \in Dialers, DialSucceeds(k) PROVE NobodyWaitsInVain'
  BY <1>3 DEF DialSucceeds, NextConn, Shut, Conns
<1>4. ASSUME Close PROVE NobodyWaitsInVain'
  <2>1. Failed(Callers)
    BY <1>4, Disconnects
  <2> QED
    BY <1>4, <2>1 DEF Close, Failed, SameCall
<1>5. ASSUME NEW r \in Callers, StartRequest(r) PROVE NobodyWaitsInVain'
  <2>1. /\ req'[r].at = "register" /\ pending' = pending /\ conn' = conn
        /\ \A q \in Callers : q # r => req'[q] = req[q]
    BY <1>5 DEF StartRequest
  <2>2. req[r].id \notin Ids
    BY <1>5, IdleFields DEF StartRequest, Ids
  <2> QED
    BY <2>1, <2>2
<1>6. ASSUME NEW r \in Callers, Register(r) PROVE NobodyWaitsInVain'
  <2>1. \/ Moved(r, "gate") /\ pending' = pending \cup {req[r].id} /\ req[r].conn = conn
        \/ Left(r) /\ pending' = pending
    <3>1. CASE req' = Goes(r, "gate") /\ pending' = pending \cup {req[r].id} /\ req[r].conn = conn
      <4>1. "gate" \in Places
        BY DEF Places
      <4> QED
        BY <3>1, <4>1, GoesFields DEF Moved
    <3>2. CASE req' = Ends(r) /\ pending' = pending
      BY <3>2, EndsFields DEF Left
    <3> QED
      BY <1>6, <3>1, <3>2 DEF Register
  <2>2. CASE Moved(r, "gate") /\ pending' = pending \cup {req[r].id} /\ req[r].conn = conn
    BY <1>6, <2>2 DEF Register, Moved
  <2>3. CASE Left(r) /\ pending' = pending
    BY <1>6, <2>3, IdleFields DEF Register, Left
  <2> QED
    BY <2>1, <2>2, <2>3
<1>7. ASSUME NEW r \in Callers, TakeGate(r) PROVE NobodyWaitsInVain'
  <2>1. Moved(r, "writing")
    BY <1>7, Moves
  <2> QED
    BY <1>7, <2>1, IdleFields DEF TakeGate, Moved, Left
<1>8. ASSUME NEW r \in Callers, LeaveGate(r) PROVE NobodyWaitsInVain'
  <2>1. Moved(r, "broken")
    BY <1>8, Moves
  <2> QED
    BY <1>8, <2>1, IdleFields DEF LeaveGate, Moved, Left
<1>9. ASSUME NEW r \in Callers, Write(r) PROVE NobodyWaitsInVain'
  <2>1. Moved(r, "await")
    BY <1>9, Moves
  <2> QED
    BY <1>9, <2>1, IdleFields DEF Write, Sent, Moved, Left
<1>10. ASSUME NEW r \in Callers, WriteFails(r) PROVE NobodyWaitsInVain'
  <2>1. Moved(r, "broken")
    BY <1>10, Moves
  <2> QED
    BY <1>10, <2>1, IdleFields DEF WriteFails, Sent, Shut, Moved, Left
<1>11. ASSUME NEW r \in Callers, GiveUp(r) PROVE NobodyWaitsInVain'
  <2>1. /\ req'[r] = Idle
        /\ \/ /\ conn' = None /\ state' = "disconnected" /\ pending' = {}
              /\ Failed(Callers \ {r})
           \/ /\ Left(r) /\ pending' = pending \ {req[r].id}
              /\ conn' = conn /\ state' = state /\ sock' = sock
    BY <1>11, GivesUp
  <2> QED
    BY <1>11, <2>1, IdleFields DEF GiveUp, Left, Failed, SameCall
<1>12. ASSUME NEW r \in Callers, Timeout(r) PROVE NobodyWaitsInVain'
  <2>1. Moved(r, "broken")
    BY <1>12, Moves
  <2> QED
    BY <1>12, <2>1, IdleFields DEF Timeout, Moved, Left
<1>13. ASSUME NEW r \in Callers, Return(r) PROVE NobodyWaitsInVain'
  <2>1. Left(r)
    BY <1>13, Moves
  <2> QED
    BY <1>13, <2>1, IdleFields DEF Return, Moved, Left
<1>14. ASSUME NEW r \in Callers, Cancel(r) PROVE NobodyWaitsInVain'
  <2>1. Left(r)
    BY <1>14, Moves
  <2> QED
    BY <1>14, <2>1, IdleFields DEF Cancel, Moved, Left
<1>15. ASSUME NEW g \in Conns, ReadFails(g) PROVE NobodyWaitsInVain'
  <2>1. \/ conn' = None /\ state' = "disconnected" /\ pending' = {} /\ Failed(Callers)
        \/ req' = req /\ pending' = pending /\ conn' = conn /\ state' = state /\ sock' = sock
    BY <1>15, Disconnects DEF ReadFails
  <2> QED
    BY <1>15, <2>1 DEF ReadFails, Failed, SameCall
<1>16. ASSUME NEW g \in Conns, Break(g) PROVE NobodyWaitsInVain'
  BY <1>16 DEF Break, Shut
<1>17. ASSUME NEW g \in Conns, NEW i \in Ids, Receive(g, i) PROVE NobodyWaitsInVain'
  <2>1. \A q \in Callers :
          /\ SameCall(q)
          /\ req'[q].reply = IF i \in pending /\ req[q].id = i THEN "answer" ELSE req[q].reply
    BY <1>17, Answers
  <2> QED
    BY <1>17, <2>1 DEF Receive, SameCall
<1>18. ASSUME NEW g \in Conns, NEW i \in Ids, Serve(g, i) PROVE NobodyWaitsInVain'
  BY <1>18 DEF Serve
<1>19. CASE UNCHANGED vars
  BY <1>19 DEF vars
<1> QED
  BY <1>1, <1>2, <1>3, <1>4, <1>5, <1>6, <1>7, <1>8, <1>9, <1>10, <1>11, <1>12, <1>13, <1>14, <1>15, <1>16, <1>17, <1>18, <1>19 DEF Next, CallerStep

(* DialsAlone is kept.                                                     *)
LEMMA DialStep ==
  ASSUME TypeOK, Bookkeeping, ConnectionsAreOwned, [Next]_vars
  PROVE  DialsAlone'
<1> USE DEF ConnectionsAreOwned, Bookkeeping, DialsAlone, TypeOK, None, clientVars, obsVars
<1>1. ASSUME NEW k \in Dialers, Connect(k) PROVE DialsAlone'
  BY <1>1 DEF Connect
<1>2. ASSUME NEW k \in Dialers, DialFails(k) PROVE DialsAlone'
  BY <1>2 DEF DialFails
<1>3. ASSUME NEW k \in Dialers, DialSucceeds(k) PROVE DialsAlone'
  BY <1>3 DEF DialSucceeds, NextConn, Shut, Conns
<1>4. ASSUME Close PROVE DialsAlone'
  BY <1>4 DEF Close, Shut, Conns
<1>5. ASSUME NEW r \in Callers, StartRequest(r) PROVE DialsAlone'
  BY <1>5 DEF StartRequest, Request
<1>6. ASSUME NEW r \in Callers, Register(r) PROVE DialsAlone'
  BY <1>6 DEF Register
<1>7. ASSUME NEW r \in Callers, TakeGate(r) PROVE DialsAlone'
  BY <1>7 DEF TakeGate
<1>8. ASSUME NEW r \in Callers, LeaveGate(r) PROVE DialsAlone'
  BY <1>8 DEF LeaveGate
<1>9. ASSUME NEW r \in Callers, Write(r) PROVE DialsAlone'
  BY <1>9 DEF Write, Sent
<1>10. ASSUME NEW r \in Callers, WriteFails(r) PROVE DialsAlone'
  BY <1>10 DEF WriteFails, Sent, Shut
<1>11. ASSUME NEW r \in Callers, GiveUp(r) PROVE DialsAlone'
  <2>1. \/ ~closed /\ conn = req[r].conn /\ conn' = None /\ state' = "disconnected" /\ sock' = Shut(conn)
        \/ UNCHANGED <<conn, state, sock>>
    BY <1>11 DEF GiveUp, DisconnectIfCurrent
  <2>2. UNCHANGED <<closed, dialing, readers>> /\ req[r].conn \in Conns
    BY <1>11 DEF GiveUp, CallsAreApart
  <2>3. None \notin Conns
    BY DEF Conns
  <2>4. \A c \in Conns : sock'[c] = "unused" => sock[c] = "unused"
    BY <2>1 DEF Shut
  <2>5. CASE conn' = None /\ state' = "disconnected" /\ ~closed /\ conn # None
    BY <2>2, <2>3, <2>4, <2>5
  <2>6. CASE UNCHANGED <<conn, state, sock>>
    BY <2>2, <2>6
  <2> QED
    BY <2>1, <2>2, <2>3, <2>5, <2>6
<1>12. ASSUME NEW r \in Callers, Timeout(r) PROVE DialsAlone'
  BY <1>12 DEF Timeout
<1>13. ASSUME NEW r \in Callers, Return(r) PROVE DialsAlone'
  BY <1>13 DEF Return
<1>14. ASSUME NEW r \in Callers, Cancel(r) PROVE DialsAlone'
  BY <1>14 DEF Cancel
<1>15. ASSUME NEW g \in Conns, ReadFails(g) PROVE DialsAlone'
  <2>1. \/ ~closed /\ conn = g /\ conn' = None /\ state' = "disconnected" /\ sock' = Shut(conn)
        \/ UNCHANGED <<conn, state, sock>>
    BY <1>15 DEF ReadFails, DisconnectIfCurrent
  <2>2. UNCHANGED <<closed, dialing>> /\ readers' \subseteq readers
    BY <1>15 DEF ReadFails
  <2>3. None \notin Conns
    BY DEF Conns
  <2>4. \A c \in Conns : sock'[c] = "unused" => sock[c] = "unused"
    BY <2>1 DEF Shut
  <2>5. CASE conn' = None /\ state' = "disconnected" /\ ~closed /\ conn # None
    BY <2>2, <2>3, <2>4, <2>5
  <2>6. CASE UNCHANGED <<conn, state, sock>>
    BY <2>2, <2>6
  <2> QED
    BY <2>1, <2>2, <2>3, <2>5, <2>6
<1>16. ASSUME NEW g \in Conns, Break(g) PROVE DialsAlone'
  BY <1>16 DEF Break, Shut
<1>17. ASSUME NEW g \in Conns, NEW i \in Ids, Receive(g, i) PROVE DialsAlone'
  BY <1>17 DEF Receive
<1>18. ASSUME NEW g \in Conns, NEW i \in Ids, Serve(g, i) PROVE DialsAlone'
  BY <1>18 DEF Serve
<1>19. CASE UNCHANGED vars
  BY <1>19 DEF vars
<1> QED
  BY <1>1, <1>2, <1>3, <1>4, <1>5, <1>6, <1>7, <1>8, <1>9, <1>10, <1>11, <1>12, <1>13, <1>14, <1>15, <1>16, <1>17, <1>18, <1>19 DEF Next, CallerStep

(* CallsAreApart is kept: IDs are never used again.                        *)
LEMMA CallStep ==
  ASSUME TypeOK, Bookkeeping, NobodyWaitsInVain, [Next]_vars
  PROVE  CallsAreApart'
<1>0. 0 \notin Ids /\ Ids \subseteq Nat /\ nextID \in Nat /\ None \notin Conns
  BY BoundsAreNaturals DEF Ids, Conns, None, TypeOK
<1> USE <1>0 DEF NobodyWaitsInVain, Bookkeeping, DialsAlone, CallsAreApart, TypeOK, None, clientVars, obsVars
<1>1. ASSUME NEW k \in Dialers, Connect(k) PROVE CallsAreApart'
  BY <1>1 DEF Connect
<1>2. ASSUME NEW k \in Dialers, DialFails(k) PROVE CallsAreApart'
  BY <1>2 DEF DialFails
<1>3. ASSUME NEW k \in Dialers, DialSucceeds(k) PROVE CallsAreApart'
  <2>2. \A c \in Conns : sock'[c] = "unused" => sock[c] = "unused"
    BY <1>3 DEF DialSucceeds, NextConn, Shut
  <2>3. UNCHANGED <<req, nextID, gate, pending>>
    BY <1>3 DEF DialSucceeds
  <2> QED
    BY <2>2, <2>3
<1>4. ASSUME Close PROVE CallsAreApart'
  <2>1. Failed(Callers)
    BY <1>4, Disconnects
  <2>2. \A c \in Conns : sock'[c] = "unused" => sock[c] = "unused"
    BY <1>4 DEF Close, Shut
  <2>3. UNCHANGED <<nextID, gate>> /\ pending' = {}
    BY <1>4 DEF Close
  <2> QED
    BY <2>1, <2>2, <2>3 DEF Failed, SameCall
<1>5. ASSUME NEW r \in Callers, StartRequest(r) PROVE CallsAreApart'
  BY <1>5 DEF StartRequest, Request
<1>6. ASSUME NEW r \in Callers, Register(r) PROVE CallsAreApart'
  <2>1. Moved(r, "gate") \/ Left(r)
    BY <1>6, Moves
  <2> QED
    BY <1>6, <2>1, IdleFields DEF Register, Moved, Left
<1>7. ASSUME NEW r \in Callers, TakeGate(r) PROVE CallsAreApart'
  <2>1. Moved(r, "writing")
    BY <1>7, Moves
  <2> QED
    BY <1>7, <2>1, IdleFields DEF TakeGate, Moved, Left
<1>8. ASSUME NEW r \in Callers, LeaveGate(r) PROVE CallsAreApart'
  <2>1. Moved(r, "broken")
    BY <1>8, Moves
  <2> QED
    BY <1>8, <2>1, IdleFields DEF LeaveGate, Moved, Left
<1>9. ASSUME NEW r \in Callers, Write(r) PROVE CallsAreApart'
  <2>1. Moved(r, "await")
    BY <1>9, Moves
  <2> QED
    BY <1>9, <2>1, IdleFields DEF Write, Sent, Moved, Left
<1>10. ASSUME NEW r \in Callers, WriteFails(r) PROVE CallsAreApart'
  <2>1. Moved(r, "broken")
    BY <1>10, Moves
  <2> QED
    BY <1>10, <2>1, IdleFields DEF WriteFails, Sent, Shut, Moved, Left
<1>11. ASSUME NEW r \in Callers, GiveUp(r) PROVE CallsAreApart'
  <2>1. /\ req'[r] = Idle
        /\ \/ pending' = {} /\ Failed(Callers \ {r})
           \/ pending' = pending \ {req[r].id} /\ Left(r)
    BY <1>11, GivesUp
  <2>2. \A c \in Conns : sock'[c] = "unused" => sock[c] = "unused"
    BY <1>11 DEF GiveUp, DisconnectIfCurrent, Shut
  <2>3. UNCHANGED <<nextID, gate>> /\ req[r].at = "broken"
    BY <1>11 DEF GiveUp
  <2>4. CASE pending' = {} /\ Failed(Callers \ {r})
    BY <2>1, <2>2, <2>3, <2>4, IdleFields DEF Failed, SameCall
  <2>5. CASE pending' = pending \ {req[r].id} /\ Left(r)
    BY <2>1, <2>2, <2>3, <2>5, IdleFields DEF Left
  <2> QED
    BY <2>1, <2>4, <2>5
<1>12. ASSUME NEW r \in Callers, Timeout(r) PROVE CallsAreApart'
  <2>1. Moved(r, "broken")
    BY <1>12, Moves
  <2> QED
    BY <1>12, <2>1, IdleFields DEF Timeout, Moved, Left
<1>13. ASSUME NEW r \in Callers, Return(r) PROVE CallsAreApart'
  <2>1. Left(r)
    BY <1>13, Moves
  <2> QED
    BY <1>13, <2>1, IdleFields DEF Return, Moved, Left
<1>14. ASSUME NEW r \in Callers, Cancel(r) PROVE CallsAreApart'
  <2>1. Left(r)
    BY <1>14, Moves
  <2> QED
    BY <1>14, <2>1, IdleFields DEF Cancel, Moved, Left
<1>15. ASSUME NEW g \in Conns, ReadFails(g) PROVE CallsAreApart'
  <2>1. \/ pending' = {} /\ Failed(Callers)
        \/ pending' = pending /\ req' = req
    BY <1>15, Disconnects DEF ReadFails
  <2>2. \A c \in Conns : sock'[c] = "unused" => sock[c] = "unused"
    BY <1>15 DEF ReadFails, DisconnectIfCurrent, Shut
  <2>3. UNCHANGED <<nextID, gate>>
    BY <1>15 DEF ReadFails
  <2>4. CASE pending' = {} /\ Failed(Callers)
    BY <2>2, <2>3, <2>4 DEF Failed, SameCall
  <2>5. CASE pending' = pending /\ req' = req
    BY <2>2, <2>3, <2>5
  <2> QED
    BY <2>1, <2>4, <2>5
<1>16. ASSUME NEW g \in Conns, Break(g) PROVE CallsAreApart'
  BY <1>16 DEF Break, Shut
<1>17. ASSUME NEW g \in Conns, NEW i \in Ids, Receive(g, i) PROVE CallsAreApart'
  <2>1. \A q \in Callers :
          /\ SameCall(q)
          /\ req'[q].reply = IF i \in pending /\ req[q].id = i THEN "answer" ELSE req[q].reply
    BY <1>17, Answers
  <2> QED
    BY <1>17, <2>1 DEF Receive, SameCall
<1>18. ASSUME NEW g \in Conns, NEW i \in Ids, Serve(g, i) PROVE CallsAreApart'
  BY <1>18 DEF Serve
<1>19. CASE UNCHANGED vars
  BY <1>19 DEF vars
<1> QED
  BY <1>1, <1>2, <1>3, <1>4, <1>5, <1>6, <1>7, <1>8, <1>9, <1>10, <1>11, <1>12, <1>13, <1>14, <1>15, <1>16, <1>17, <1>18, <1>19 DEF Next, CallerStep

(* TrafficInPlace is kept: only Write and WriteFails send, only Serve answers.*)
LEMMA TrafficStep ==
  ASSUME TypeOK, Bookkeeping, [Next]_vars
  PROVE  TrafficInPlace'
<1>0. 0 \notin Ids /\ Ids \subseteq Nat /\ nextID \in Nat /\ None \notin Conns
  BY BoundsAreNaturals DEF Ids, Conns, None, TypeOK
<1> USE <1>0 DEF Bookkeeping, CallsAreApart, TrafficInPlace, TypeOK, None, clientVars, obsVars
<1>1. ASSUME NEW k \in Dialers, Connect(k) PROVE TrafficInPlace'
  BY <1>1 DEF Connect
<1>2. ASSUME NEW k \in Dialers, DialFails(k) PROVE TrafficInPlace'
  BY <1>2 DEF DialFails
<1>3. ASSUME NEW k \in Dialers, DialSucceeds(k) PROVE TrafficInPlace'
  BY <1>3 DEF DialSucceeds, NextConn, Shut, Conns
<1>4. ASSUME Close PROVE TrafficInPlace'
  <2>1. Failed(Callers)
    BY <1>4, Disconnects
  <2> QED
    BY <1>4, <2>1 DEF Close, Failed, SameCall
<1>5. ASSUME NEW r \in Callers, StartRequest(r) PROVE TrafficInPlace'
  BY <1>5 DEF StartRequest, Request
<1>6. ASSUME NEW r \in Callers, Register(r) PROVE TrafficInPlace'
  <2>1. Moved(r, "gate") \/ Left(r)
    BY <1>6, Moves
  <2> QED
    BY <1>6, <2>1, IdleFields DEF Register, Moved, Left
<1>7. ASSUME NEW r \in Callers, TakeGate(r) PROVE TrafficInPlace'
  <2>1. Moved(r, "writing")
    BY <1>7, Moves
  <2> QED
    BY <1>7, <2>1, IdleFields DEF TakeGate, Moved, Left
<1>8. ASSUME NEW r \in Callers, LeaveGate(r) PROVE TrafficInPlace'
  <2>1. Moved(r, "broken")
    BY <1>8, Moves
  <2> QED
    BY <1>8, <2>1, IdleFields DEF LeaveGate, Moved, Left
<1>9. ASSUME NEW r \in Callers, Write(r) PROVE TrafficInPlace'
  <2>1. Moved(r, "await")
    BY <1>9, Moves
  <2>2. /\ UNCHANGED <<nextID, outbox, served>> /\ req[r].at = "writing"
        /\ \A g \in Conns : \A i \in inbox'[g] \cup outbox'[g] :
              i \in inbox[g] \cup outbox[g] \/ (g = req[r].conn /\ i = req[r].id)
    BY <1>9 DEF Write, Sent
  <2>3. req[r].id < nextID
    BY <2>2
  <2>4. \A q \in Callers : req[q].id = req[r].id => req[q].conn = req[r].conn
    BY <2>2
  <2>5. \A q \in Callers : req'[q].id = req[q].id /\ req'[q].conn = req[q].conn
    BY <2>1 DEF Moved
  <2>6. ASSUME NEW g \in Conns, NEW i \in inbox'[g] \cup outbox'[g]
        PROVE  i < nextID' /\ \A q \in Callers : req'[q].id = i => req'[q].conn = g
    <3>1. CASE i \in inbox[g] \cup outbox[g]
      <4>1. i < nextID /\ \A q \in Callers : req[q].id = i => req[q].conn = g
        BY <3>1
      <4> QED
        BY <2>2, <2>5, <4>1
    <3>2. CASE g = req[r].conn /\ i = req[r].id
      BY <2>2, <2>3, <2>4, <2>5, <3>2
    <3> QED
      BY <2>2, <3>1, <3>2
  <2> QED
    BY <2>2, <2>6
<1>10. ASSUME NEW r \in Callers, WriteFails(r) PROVE TrafficInPlace'
  <2>1. Moved(r, "broken")
    BY <1>10, Moves
  <2>2. /\ UNCHANGED <<nextID, outbox, served>> /\ req[r].at = "writing"
        /\ \A g \in Conns : \A i \in inbox'[g] \cup outbox'[g] :
              i \in inbox[g] \cup outbox[g] \/ (g = req[r].conn /\ i = req[r].id)
    BY <1>10 DEF WriteFails, Sent
  <2>3. req[r].id < nextID
    BY <2>2
  <2>4. \A q \in Callers : req[q].id = req[r].id => req[q].conn = req[r].conn
    BY <2>2
  <2>5. \A q \in Callers : req'[q].id = req[q].id /\ req'[q].conn = req[q].conn
    BY <2>1 DEF Moved
  <2>6. ASSUME NEW g \in Conns, NEW i \in inbox'[g] \cup outbox'[g]
        PROVE  i < nextID' /\ \A q \in Callers : req'[q].id = i => req'[q].conn = g
    <3>1. CASE i \in inbox[g] \cup outbox[g]
      <4>1. i < nextID /\ \A q \in Callers : req[q].id = i => req[q].conn = g
        BY <3>1
      <4> QED
        BY <2>2, <2>5, <4>1
    <3>2. CASE g = req[r].conn /\ i = req[r].id
      BY <2>2, <2>3, <2>4, <2>5, <3>2
    <3> QED
      BY <2>2, <3>1, <3>2
  <2> QED
    BY <2>2, <2>6
<1>11. ASSUME NEW r \in Callers, GiveUp(r) PROVE TrafficInPlace'
  <2>1. /\ req'[r] = Idle
        /\ \/ /\ conn' = None /\ state' = "disconnected" /\ pending' = {}
              /\ Failed(Callers \ {r})
           \/ /\ Left(r) /\ pending' = pending \ {req[r].id}
              /\ conn' = conn /\ state' = state /\ sock' = sock
    BY <1>11, GivesUp
  <2> QED
    BY <1>11, <2>1, IdleFields DEF GiveUp, Left, Failed, SameCall
<1>12. ASSUME NEW r \in Callers, Timeout(r) PROVE TrafficInPlace'
  <2>1. Moved(r, "broken")
    BY <1>12, Moves
  <2> QED
    BY <1>12, <2>1, IdleFields DEF Timeout, Moved, Left
<1>13. ASSUME NEW r \in Callers, Return(r) PROVE TrafficInPlace'
  <2>1. Left(r)
    BY <1>13, Moves
  <2> QED
    BY <1>13, <2>1, IdleFields DEF Return, Moved, Left
<1>14. ASSUME NEW r \in Callers, Cancel(r) PROVE TrafficInPlace'
  <2>1. Left(r)
    BY <1>14, Moves
  <2> QED
    BY <1>14, <2>1, IdleFields DEF Cancel, Moved, Left
<1>15. ASSUME NEW g \in Conns, ReadFails(g) PROVE TrafficInPlace'
  <2>1. \/ conn' = None /\ state' = "disconnected" /\ pending' = {} /\ Failed(Callers)
        \/ req' = req /\ pending' = pending /\ conn' = conn /\ state' = state /\ sock' = sock
    BY <1>15, Disconnects DEF ReadFails
  <2> QED
    BY <1>15, <2>1 DEF ReadFails, Failed, SameCall
<1>16. ASSUME NEW g \in Conns, Break(g) PROVE TrafficInPlace'
  BY <1>16 DEF Break, Shut
<1>17. ASSUME NEW g \in Conns, NEW i \in Ids, Receive(g, i) PROVE TrafficInPlace'
  <2>1. \A q \in Callers :
          /\ SameCall(q)
          /\ req'[q].reply = IF i \in pending /\ req[q].id = i THEN "answer" ELSE req[q].reply
    BY <1>17, Answers
  <2> QED
    BY <1>17, <2>1 DEF Receive, SameCall
<1>18. ASSUME NEW g \in Conns, NEW i \in Ids, Serve(g, i) PROVE TrafficInPlace'
  BY <1>18 DEF Serve
<1>19. CASE UNCHANGED vars
  BY <1>19 DEF vars
<1> QED
  BY <1>1, <1>2, <1>3, <1>4, <1>5, <1>6, <1>7, <1>8, <1>9, <1>10, <1>11, <1>12, <1>13, <1>14, <1>15, <1>16, <1>17, <1>18, <1>19 DEF Next, CallerStep

-----------------------------------------------------------------------------
(* The theorems.                                                           *)

LEMMA Initially == Init => IInv
<1> SUFFICES ASSUME Init PROVE IInv
  OBVIOUS
<1>1. \A r \in Callers : req[r] = Idle
  BY DEF Init
<1>2. \A g \in Conns : sock[g] = "unused" /\ inbox[g] = {} /\ outbox[g] = {}
  BY DEF Init
<1>3. req \in [Callers -> Request]
  BY DEF Init, Idle, Request, Places, Replies
<1>4. TypeOK
  <2>1. 1 \in 1..(MaxRequests + 1)
    BY BoundsAreNaturals
  <2> QED
    BY <1>3, <2>1 DEF Init, TypeOK
<1>5. Bookkeeping
  BY <1>1, <1>2, IdleFields DEF Init, Bookkeeping, CallsAreApart, TrafficInPlace, DialsAlone, Conns, None
<1>6. NobodyWaitsInVain /\ AnswerIsOwn /\ ConnectionsAreOwned
  BY <1>1, <1>2, IdleFields
     DEF Init, NobodyWaitsInVain, Calling, AnswerIsOwn, ConnectionsAreOwned
<1> QED
  BY <1>4, <1>5, <1>6 DEF IInv

LEMMA Inductive == IInv /\ [Next]_vars => IInv'
<1> SUFFICES ASSUME IInv, [Next]_vars PROVE IInv'
  OBVIOUS
<1>1. TypeOK /\ Bookkeeping /\ NobodyWaitsInVain /\ AnswerIsOwn /\ ConnectionsAreOwned
  BY DEF IInv
<1>2. TypeOK'
  BY <1>1, TypeStep
<1>3. Bookkeeping'
  BY <1>1, DialStep, CallStep, TrafficStep DEF Bookkeeping
<1>4. NobodyWaitsInVain' /\ AnswerIsOwn' /\ ConnectionsAreOwned'
  BY <1>1, WaitStep, AnswerStep, OwnedStep
<1> QED
  BY <1>2, <1>3, <1>4 DEF IInv

THEOREM Invariance == Spec => []IInv
  BY Initially, Inductive, PTL DEF Spec

(* Type correctness of the client, for any number of callers, dialers,     *)
(* requests and connections.                                               *)
THEOREM ClientTypes == Spec => []TypeOK
  BY Invariance, PTL DEF IInv

(* NobodyWaitsInVain: the pending table and the callers agree whatever the *)
(* order of registrations, disconnects, timeouts and answers.              *)
THEOREM TableMatchesCallers == Spec => []NobodyWaitsInVain
  BY Invariance, PTL DEF IInv

(* AnswerIsOwn: an answer reaches only the request OBS gave it to.         *)
THEOREM AnswersAreOwn == Spec => []AnswerIsOwn
  BY Invariance, PTL DEF IInv

(* ConnectionsAreOwned: no socket is open that nobody will close, and a    *)
(* closed client stays without a connection.                               *)
THEOREM NoConnectionLeaks == Spec => []ConnectionsAreOwned
  BY Invariance, PTL DEF IInv

(* FaultsStayAtHome: only the current connection's own reader or requests, *)
(* or Close, give it up.                                                   *)
THEOREM OldFaultsAreHarmless == Spec => FaultsStayAtHome
<1> DEFINE Home == conn # None /\ conn' # conn
                     => /\ conn' = None
                        /\ \/ closed'
                           \/ sock[conn] = "shut"
                           \/ \E r \in Callers : req[r].at = "broken" /\ req[r].conn = conn
<1>1. IInv /\ [Next]_vars => [Home]_vars
  <2> SUFFICES ASSUME IInv, Next, conn # None, conn' # conn
               PROVE  /\ conn' = None
                      /\ \/ closed'
                         \/ sock[conn] = "shut"
                         \/ \E r \in Callers : req[r].at = "broken" /\ req[r].conn = conn
    OBVIOUS
  <2>1. dialing = {}
    BY DEF IInv, Bookkeeping, DialsAlone
  <2>2. CASE Close
    BY <2>2 DEF Close
  <2>3. CASE \E r \in Callers : GiveUp(r)
    BY <2>3 DEF GiveUp, DisconnectIfCurrent
  <2>4. CASE \E g \in Conns : ReadFails(g)
    BY <2>4 DEF ReadFails, DisconnectIfCurrent
  <2> QED
    BY <2>1, <2>2, <2>3, <2>4
       DEF Next, CallerStep, Connect, DialFails, DialSucceeds, StartRequest, Register, TakeGate,
           LeaveGate, Write, WriteFails, Timeout, Return, Cancel, Break, Receive, Serve,
           clientVars
<1> QED
  BY <1>1, Invariance, PTL DEF Spec, FaultsStayAtHome

-----------------------------------------------------------------------------
(* Every step treats requests as ObsRequests says, or leaves them.          *)

LEMMA KnownCalls ==
  ASSUME IInv
  PROVE  /\ TypeOK /\ 0 \notin Ids /\ 0 \notin pending /\ None \notin Conns
         /\ \A r \in Callers : req[r].at = "idle" => req[r] = Idle
         /\ \A r \in Callers : req[r].at # "idle" =>
              /\ req[r].id \in 1 .. (nextID - 1) /\ req[r].id # 0
              /\ req[r].conn \in Conns /\ sock[req[r].conn] # "unused"
         /\ \A r \in Callers : req[r].at = "register" =>
              req[r].id \notin pending /\ req[r].reply = "none"
         /\ \A q, r \in Callers : req[q].id = req[r].id /\ req[q].at # "idle" => q = r
         /\ \A r \in Callers : req[r].id \in pending =>
              req[r].at \notin {"idle", "register"} /\ req[r].reply = "none"
<1>1. TypeOK /\ 0 \notin Ids /\ 0 \notin pending /\ None \notin Conns
  BY DEF IInv, TypeOK, Ids, None, Conns
<1>2. ASSUME NEW r \in Callers, req[r].at = "idle" PROVE req[r] = Idle
  BY <1>1, <1>2 DEF TypeOK, Request, Idle, IInv, Bookkeeping, CallsAreApart
<1>3. \A r \in Callers : req[r].at # "idle" =>
              /\ req[r].id \in 1 .. (nextID - 1) /\ req[r].id # 0
              /\ req[r].conn \in Conns /\ sock[req[r].conn] # "unused"
  BY <1>1 DEF IInv, Bookkeeping, CallsAreApart, TypeOK
<1>4. /\ \A r \in Callers : req[r].at = "register" =>
              req[r].id \notin pending /\ req[r].reply = "none"
      /\ \A q, r \in Callers : req[q].id = req[r].id /\ req[q].at # "idle" => q = r
  BY DEF IInv, Bookkeeping, CallsAreApart
<1>5. ASSUME NEW r \in Callers, req[r].id \in pending
      PROVE  req[r].at \notin {"idle", "register"} /\ req[r].reply = "none"
  <2>1. req[r].at # "idle"
    BY <1>1, <1>2, <1>5, IdleFields
  <2>2. PICK q \in Callers : req[q].id = req[r].id /\ req[q].at # "register" /\ req[q].reply = "none"
    BY <1>5 DEF IInv, NobodyWaitsInVain
  <2> QED
    BY <1>4, <2>1, <2>2
<1> QED
  BY <1>1, <1>2, <1>3, <1>4, <1>5

\* The status, without the order of the cases.
LEMMA StatusIs ==
  ASSUME IInv, NEW r \in Callers
  PROVE  /\ Status(r) = "idle" <=> req[r].at = "idle"
         /\ Status(r) = "waiting" <=> req[r].id \in pending
         /\ req[r].at = "idle" => Calls[r] = Requests!NoCall
         /\ req[r].at = "register" => Status(r) = "asked"
         /\ Calls[r].status = Status(r) /\ Calls[r].link = req[r].conn
         /\ Calls[r].number = req[r].id
         /\ \A status : [Calls[r] EXCEPT !.status = status] =
              [status |-> status, link |-> req[r].conn, number |-> req[r].id]
<1>1. /\ Status(r) = "idle" <=> req[r].at = "idle"
      /\ Status(r) = "waiting" <=> req[r].id \in pending
      /\ req[r].at = "register" => Status(r) = "asked"
  <2>1. req[r].id \in pending => req[r].at # "idle"
    BY KnownCalls
  <2>2. req[r].at = "register" => req[r].id \notin pending /\ req[r].reply = "none"
    BY KnownCalls
  <2>3. CASE req[r].at = "idle"
    BY <2>1, <2>3 DEF Status
  <2>4. CASE req[r].id \in pending
    BY <2>1, <2>2, <2>4 DEF Status
  <2>5. CASE req[r].at # "idle" /\ req[r].id \notin pending
    <3>1. req[r].reply \in {"none", "answer", "error"}
      BY KnownCalls DEF TypeOK, Request, Replies
    <3> QED
      BY <2>2, <2>5, <3>1 DEF Status
  <2> QED
    BY <2>3, <2>4, <2>5
<1>2. req[r].at = "idle" => Calls[r] = Requests!NoCall
  BY <1>1, KnownCalls, IdleFields DEF Calls, Requests!NoCall
<1> QED
  BY <1>1, <1>2 DEF Calls

\* What becomes of one call, and of the others.
CallStays(q) ==
  /\ SameCall(q) /\ req'[q].reply = req[q].reply
  /\ req[q].id \in pending' <=> req[q].id \in pending

LEMMA CallStaysSame ==
  ASSUME NEW q \in Callers, CallStays(q)
  PROVE  Calls'[q] = Calls[q]
  BY DEF Calls, Status, CallStays, SameCall

LEMMA AllStay == (\A q \in Callers : CallStays(q)) => Calls' = Calls
<1> SUFFICES ASSUME \A q \in Callers : CallStays(q) PROVE Calls' = Calls
  OBVIOUS
<1>1. \A q \in Callers : Calls'[q] = Calls[q]
  BY CallStaysSame
<1> QED
  BY <1>1 DEF Calls

LEMMA OneChanges ==
  ASSUME NEW r \in Callers, NEW c, Calls'[r] = c,
         \A q \in Callers \ {r} : CallStays(q)
  PROVE  Calls' = [Calls EXCEPT ![r] = c]
<1>1. \A q \in Callers \ {r} : Calls'[q] = Calls[q]
  BY CallStaysSame
<1> QED
  BY <1>1 DEF Calls

SameRequest(q) == req'[q].conn = req[q].conn /\ req'[q].id = req[q].id

LEMMA StatusChanges ==
  ASSUME NEW r \in Callers, NEW status, Status(r)' = status, SameRequest(r),
         \A q \in Callers \ {r} : CallStays(q)
  PROVE  Calls' = [Calls EXCEPT ![r].status = status]
<1>1. Calls'[r] = [Calls[r] EXCEPT !.status = status]
  BY DEF Calls, SameRequest
<1> QED
  BY <1>1, OneChanges

Unseen == UNCHANGED <<conn, sock, closed, nextID, Calls, served>>

LEMMA UnseenStutters == Unseen => UNCHANGED Requests!vars
  BY DEF Unseen, Requests!vars

LEMMA InitRequests == Init => Requests!Init
<1> SUFFICES ASSUME Init PROVE Requests!Init
  OBVIOUS
<1>1. sock = [g \in Conns |-> "unused"]
  BY DEF Init
<1>2. nextID - 1 = 0
  BY DEF Init
<1>3. Calls = [r \in Callers |-> Requests!NoCall]
  BY IdleFields DEF Init, Calls, Status, Requests!NoCall
<1> QED
  BY <1>1, <1>2, <1>3 DEF Init, Requests!Init

\* The connection and the dialers.
LEMMA DialRequests ==
  ASSUME IInv, NEW k \in Dialers, DialSucceeds(k)
  PROVE  \E g \in Conns : Requests!Open(g)
<1>1. conn = None /\ TypeOK
  BY KnownCalls DEF IInv, Bookkeeping, DialsAlone, DialSucceeds
<1>2. PICK g \in Conns :
        /\ NextConn(g)
        /\ \/ closed /\ sock' = Shut(g) /\ UNCHANGED conn
           \/ ~closed /\ sock' = [sock EXCEPT ![g] = "open"] /\ conn' = g
  BY DEF DialSucceeds
<1>3. /\ sock[g] = "unused"
      /\ sock' = [sock EXCEPT ![g] = IF closed THEN "shut" ELSE "open"]
  BY <1>2 DEF NextConn, Shut
<1>4. UNCHANGED <<closed, nextID, served, req, pending>>
  BY DEF DialSucceeds, obsVars
<1>5. Calls' = Calls
  BY <1>4, AllStay DEF CallStays, SameCall
<1> QED
  BY <1>1, <1>2, <1>3, <1>4, <1>5 DEF Requests!Open

LEMMA QuietRequests ==
  ASSUME IInv, (\E k \in Dialers : Connect(k) \/ DialFails(k)) \/ UNCHANGED vars
  PROVE  Unseen
<1>1. UNCHANGED <<conn, sock, closed, nextID, served, req, pending>>
  BY DEF Connect, DialFails, vars, clientVars, obsVars
<1> QED
  BY <1>1, AllStay DEF CallStays, SameCall, Unseen

LEMMA BreakRequests == ASSUME IInv, NEW g \in Conns, Break(g) PROVE Requests!Break(g)
<1>1. UNCHANGED <<conn, closed, nextID, served, req, pending>>
  BY DEF Break, clientVars, obsVars
<1>2. Calls' = Calls
  BY <1>1, AllStay DEF CallStays, SameCall
<1> QED
  BY <1>1, <1>2 DEF Break, Shut, Requests!Break

LEMMA ServeRequests ==
  ASSUME IInv, NEW g \in Conns, NEW i \in Ids, Serve(g, i)
  PROVE  Requests!Serve
<1>1. i \in 1 .. (nextID - 1)
  BY DEF IInv, Bookkeeping, TrafficInPlace, Serve, TypeOK, Ids
<1>2. UNCHANGED <<conn, closed, nextID, sock, req, pending>> /\ served' = served \cup {<<g, i>>}
  BY DEF Serve, clientVars
<1>3. Calls' = Calls
  BY <1>2, AllStay DEF CallStays, SameCall
<1> QED
  BY <1>1, <1>2, <1>3 DEF Requests!Serve

\* The callers, one at a time.
LEMMA AskRequests ==
  ASSUME IInv, NEW r \in Callers, StartRequest(r)
  PROVE  Requests!Ask(r)
<1>1. UNCHANGED <<conn, closed, sock, served, pending>> /\ nextID' = nextID + 1
  BY DEF StartRequest, clientVars, obsVars
<1>2. /\ req'[r] = [at |-> "register", conn |-> conn, id |-> nextID, reply |-> "none"]
      /\ \A q \in Callers \ {r} : req'[q] = req[q]
      /\ req[r].at = "idle" /\ conn # None
  BY KnownCalls DEF StartRequest, TypeOK
<1>3. nextID \notin pending /\ nextID \in Nat
  <2>1. \A i \in pending : i \in 1 .. (nextID - 1)
    BY KnownCalls DEF IInv, NobodyWaitsInVain, TypeOK
  <2> QED
    BY <2>1, KnownCalls DEF TypeOK
<1>4. Calls'[r] = [status |-> "asked", link |-> conn, number |-> nextID]
  BY <1>1, <1>2, <1>3 DEF Calls, Status
<1>5. Calls' = [Calls EXCEPT ![r] = [status |-> "asked", link |-> conn, number |-> nextID]]
  BY <1>1, <1>2, <1>4, OneChanges DEF CallStays, SameCall
<1>6. nextID' - 1 = nextID /\ nextID = (nextID - 1) + 1
  BY <1>1, <1>3
<1>7. Calls[r] = Requests!NoCall
  BY <1>2, StatusIs
<1> QED
  BY <1>1, <1>2, <1>5, <1>6, <1>7 DEF Requests!Ask

\* A caller that goes takes no other's request out of the table.
LEMMA LeftRequests ==
  ASSUME IInv, NEW r \in Callers, Left(r), req[r].at # "idle",
         pending' \in {pending, pending \ {req[r].id}},
         UNCHANGED <<conn, sock, closed, nextID, served>>
  PROVE  Requests!Leave(r)
<1>1. \A q \in Callers \ {r} : CallStays(q)
  BY KnownCalls DEF CallStays, SameCall, Left
<1>2. Calls'[r] = Requests!NoCall
  BY IdleFields DEF Left, Calls, Status, Requests!NoCall
<1>3. Calls' = [Calls EXCEPT ![r] = Requests!NoCall]
  BY <1>1, <1>2, OneChanges
<1> QED
  BY <1>3, StatusIs DEF Requests!Leave

LEMMA MovesRequests ==
  ASSUME IInv, NEW r \in Callers, TakeGate(r) \/ LeaveGate(r) \/ Write(r) \/ WriteFails(r)
  PROVE  Unseen \/ (Requests!Break(req[r].conn) /\ req[r].conn \in Conns)
<1>1. UNCHANGED <<conn, closed, nextID, served, pending>>
  BY DEF TakeGate, LeaveGate, Write, WriteFails, clientVars, obsVars
<1>2. \E place \in {"writing", "broken", "await"} : Moved(r, place)
  BY Moves, KnownCalls
<1>3. req[r].at \in {"gate", "writing"}
  BY DEF TakeGate, LeaveGate, Write, WriteFails
<1>4. Calls'[r] = Calls[r]
  BY <1>1, <1>2, <1>3 DEF Moved, Calls, Status
<1>5. \A q \in Callers \ {r} : Calls'[q] = Calls[q]
  BY <1>1, <1>2, CallStaysSame DEF Moved, CallStays, SameCall
<1>6. Calls' = Calls
  BY <1>4, <1>5 DEF Calls
<1>7. sock' \in {sock, Shut(req[r].conn)}
  BY DEF TakeGate, LeaveGate, Write, WriteFails
<1>8. req[r].conn \in Conns /\ sock[req[r].conn] # "unused"
  BY <1>3, KnownCalls
<1> QED
  BY <1>1, <1>6, <1>7, <1>8 DEF Unseen, Shut, Requests!Break

LEMMA RegisterRequests ==
  ASSUME IInv, NEW r \in Callers, Register(r)
  PROVE  Requests!Wait(r) \/ Requests!Leave(r)
<1>1. /\ UNCHANGED <<conn, closed, nextID, sock, served>>
      /\ req[r].at = "register"
  BY DEF Register, obsVars
<1>2. sock' = sock
  BY <1>1
<1>3. CASE req' = Ends(r) /\ UNCHANGED pending
  BY <1>1, <1>2, <1>3, LeftRequests, EndsFields, KnownCalls DEF Left, TypeOK
<1>4. CASE /\ conn = req[r].conn /\ pending' = pending \cup {req[r].id}
           /\ req' = Goes(r, "gate")
  <2>1. Moved(r, "gate")
    BY <1>4, KnownCalls, GoesFields DEF Moved, TypeOK, Places
  <2>2. \A q \in Callers \ {r} : CallStays(q)
    BY <1>1, <1>4, <2>1, KnownCalls DEF CallStays, SameCall, Moved
  <2>3. Status(r)' = "waiting" /\ SameRequest(r)
    <3>1. req'[r].at = "gate" /\ req'[r].id = req[r].id /\ req[r].id \in pending'
      BY <1>4, <2>1 DEF Moved
    <3> QED
      BY <2>1, <3>1 DEF Status, SameRequest, Moved
  <2>4. Calls' = [Calls EXCEPT ![r].status = "waiting"]
    BY <2>2, <2>3, StatusChanges
  <2> QED
    BY <1>1, <1>2, <1>4, <2>4, StatusIs DEF Requests!Wait, Requests!Becomes
<1> QED
  BY <1>3, <1>4 DEF Register

LEMMA TimeoutRequests ==
  ASSUME IInv, NEW r \in Callers, Timeout(r)
  PROVE  Requests!Withdraw(r) \/ Unseen
<1>1. /\ UNCHANGED <<conn, closed, nextID, sock, served>>
      /\ req[r].at = "await" /\ pending' = pending \ {req[r].id} /\ Moved(r, "broken")
  BY Moves, KnownCalls DEF Timeout, obsVars
<1>2. sock' = sock
  BY <1>1
<1>3. \A q \in Callers \ {r} : CallStays(q)
  BY <1>1, KnownCalls DEF CallStays, SameCall, Moved
<1>4. CASE req[r].id \in pending
  <2>1. Status(r)' = "withdrawn" /\ SameRequest(r)
    <3>1. req'[r].at = "broken" /\ req'[r].id = req[r].id /\ req'[r].reply = "none"
      BY <1>1, <1>4, KnownCalls DEF Moved
    <3>2. req'[r].id \notin pending'
      BY <1>1, <3>1
    <3> QED
      BY <1>1, <3>1, <3>2 DEF Status, SameRequest, Moved
  <2>2. Calls' = [Calls EXCEPT ![r].status = "withdrawn"]
    BY <1>3, <2>1, StatusChanges
  <2> QED
    BY <1>1, <1>2, <1>4, <2>2, StatusIs DEF Requests!Withdraw, Requests!Becomes
<1>5. CASE req[r].id \notin pending
  <2>1. Calls'[r] = Calls[r]
    BY <1>1, <1>5 DEF Calls, Status, Moved
  <2>2. Calls' = Calls
    BY <1>3, <2>1, CallStaysSame DEF Calls
  <2> QED
    BY <1>1, <1>2, <2>2 DEF Unseen
<1> QED
  BY <1>4, <1>5

LEMMA ReturnRequests ==
  ASSUME IInv, NEW r \in Callers, Cancel(r) \/ Return(r)
  PROVE  Requests!Leave(r)
<1>1. /\ UNCHANGED <<conn, closed, nextID, sock, served>>
      /\ req[r].at = "await" /\ pending' \in {pending, pending \ {req[r].id}} /\ Left(r)
  BY Moves, KnownCalls DEF Cancel, Return, clientVars, obsVars
<1>2. sock' = sock
  BY <1>1
<1> QED
  BY <1>1, <1>2, LeftRequests

\* An answer for a request nobody waits for is not seen.
LEMMA ReceiveRequests ==
  ASSUME IInv, NEW g \in Conns, NEW i \in Ids, Receive(g, i)
  PROVE  (\E r \in Callers : Requests!Answer(r)) \/ Unseen
<1>1. /\ UNCHANGED <<conn, closed, nextID, sock, served>>
      /\ pending' = pending \ {i} /\ i \in outbox[g]
  BY DEF Receive
<1>2. sock' = sock
  BY <1>1
<1>3. \A q \in Callers :
        /\ SameCall(q)
        /\ req'[q].reply = IF i \in pending /\ req[q].id = i THEN "answer" ELSE req[q].reply
  BY KnownCalls, Answers
<1>4. CASE i \notin pending
  <2>1. \A q \in Callers : CallStays(q)
    BY <1>1, <1>3, <1>4 DEF CallStays
  <2> QED
    BY <1>1, <1>2, <2>1, AllStay DEF Unseen
<1>5. CASE i \in pending
  <2>1. PICK r \in Callers : req[r].id = i
    BY <1>5 DEF IInv, NobodyWaitsInVain
  <2>2. \A q \in Callers \ {r} : CallStays(q)
    BY <1>1, <1>3, <1>5, <2>1, KnownCalls DEF CallStays, SameCall
  <2>3. Status(r)' = "answered" /\ SameRequest(r)
    BY <1>1, <1>3, <1>5, <2>1, KnownCalls DEF Status, SameCall, SameRequest
  <2>4. Calls' = [Calls EXCEPT ![r].status = "answered"]
    BY <2>2, <2>3, StatusChanges
  <2>5. <<req[r].conn, req[r].id>> \in served
    BY <1>1, <2>1 DEF IInv, Bookkeeping, TrafficInPlace
  <2> QED
    BY <1>1, <1>2, <1>5, <2>1, <2>4, <2>5, StatusIs DEF Requests!Answer, Requests!Becomes
<1> QED
  BY <1>4, <1>5

\* The connection goes, and with it whoever gave it up.
LEMMA DropRequests ==
  ASSUME IInv, NEW gone \in SUBSET Callers,
         \A r \in gone : req'[r] = Idle,
         Failed(Callers \ gone), pending' = {}, conn' = None,
         sock' = IF conn = None THEN sock ELSE Shut(conn),
         UNCHANGED <<nextID, served>>
  PROVE  Requests!Drop(gone)
<1>1. ASSUME NEW r \in gone PROVE Calls'[r] = Requests!NoCall
  BY IdleFields DEF Calls, Status, Requests!NoCall
<1>2. ASSUME NEW r \in Callers \ gone, Calls[r].status = "waiting"
      PROVE  Calls'[r] = [Calls[r] EXCEPT !.status = "failed"]
  <2>1. req[r].id \in pending
    BY <1>2, StatusIs
  <2>2. Status(r)' = "failed" /\ SameCall(r)
    BY <2>1, KnownCalls DEF Failed, SameCall, Status
  <2> QED
    BY <2>2 DEF Calls, SameCall
<1>3. ASSUME NEW r \in Callers \ gone, Calls[r].status # "waiting"
      PROVE  Calls'[r] = Calls[r]
  <2>1. req[r].id \notin pending
    BY <1>3, StatusIs
  <2>2. CallStays(r)
    BY <2>1 DEF Failed, CallStays, SameCall
  <2> QED
    BY <2>2, CallStaysSame
<1>4. Calls' = [r \in Callers |->
                  CASE r \in gone -> Requests!NoCall
                    [] r \notin gone /\ Calls[r].status = "waiting"
                         -> [Calls[r] EXCEPT !.status = "failed"]
                    [] OTHER -> Calls[r]]
  <2>1. \A r \in Callers : Calls'[r] =
          CASE r \in gone -> Requests!NoCall
            [] r \notin gone /\ Calls[r].status = "waiting"
                 -> [Calls[r] EXCEPT !.status = "failed"]
            [] OTHER -> Calls[r]
    BY <1>1, <1>2, <1>3
  <2> QED
    BY <2>1 DEF Calls
<1> QED
  BY <1>4 DEF Requests!Drop, Shut

LEMMA CloseRequests == ASSUME IInv, Close PROVE Requests!End
<1>1. Failed(Callers) /\ pending' = {} /\ conn' = None /\ UNCHANGED <<nextID, served>>
  BY Disconnects, KnownCalls DEF Close, obsVars
<1>2. sock' = IF conn = None THEN sock ELSE Shut(conn)
  BY DEF Close
<1>3. Requests!Drop({})
  BY <1>1, <1>2, DropRequests
<1> QED
  BY <1>3 DEF Close, Requests!End

LEMMA GiveUpRequests ==
  ASSUME IInv, NEW r \in Callers, GiveUp(r)
  PROVE  Requests!Lose \/ Requests!Leave(r)
<1>1. /\ UNCHANGED <<closed, nextID, served>>
      /\ req[r].at = "broken" /\ req[r].conn # None
  BY KnownCalls DEF GiveUp, obsVars
<1>2. CASE conn = req[r].conn /\ ~closed
  <2>1. sock' = Shut(conn) /\ pending' = {} /\ conn' = None
    BY <1>2 DEF GiveUp, DisconnectIfCurrent
  <2>2. req'[r] = Idle /\ Failed(Callers \ {r})
    <3>1. req' = FailPending(Ends(r))
      BY <1>2 DEF GiveUp, DisconnectIfCurrent
    <3>2. /\ Ends(r) \in [Callers -> Request]
          /\ \A q \in Callers : Ends(r)[q] = IF q = r THEN Idle ELSE req[q]
      BY KnownCalls, EndsFields DEF TypeOK
    <3> QED
      BY <3>1, <3>2, FailPendingFields, KnownCalls, IdleFields DEF Failed, SameCall
  <2>4. Requests!Drop({r})
    BY <1>1, <1>2, <2>1, <2>2, DropRequests
  <2>5. Calls[r].link = conn
    BY <1>2, StatusIs
  <2> QED
    BY <1>1, <1>2, <2>4, <2>5 DEF Requests!Lose
<1>3. CASE ~(conn = req[r].conn /\ ~closed)
  <2>1. /\ req' = Ends(r) /\ pending' = pending \ {req[r].id}
        /\ UNCHANGED <<conn, sock>>
    BY <1>3 DEF GiveUp, DisconnectIfCurrent
  <2>2. Left(r)
    BY <2>1, EndsFields, KnownCalls DEF Left, TypeOK
  <2> QED
    BY <1>1, <2>1, <2>2, LeftRequests
<1> QED
  BY <1>2, <1>3

LEMMA ReadFailsRequests ==
  ASSUME IInv, NEW g \in Conns, ReadFails(g)
  PROVE  Requests!Lose \/ Unseen
<1>1. UNCHANGED <<closed, nextID, served>>
  BY DEF ReadFails, obsVars
<1>2. CASE conn = g /\ ~closed
  <2>1. sock' = Shut(conn) /\ pending' = {} /\ conn' = None /\ conn # None
    BY <1>2, KnownCalls DEF ReadFails, DisconnectIfCurrent
  <2>2. Failed(Callers)
    BY <1>2, KnownCalls, FailPendingFields
       DEF ReadFails, DisconnectIfCurrent, Failed, SameCall, TypeOK
  <2>4. Requests!Drop({})
    BY <1>1, <2>1, <2>2, DropRequests
  <2> QED
    BY <1>1, <1>2, <2>1, <2>4 DEF Requests!Lose, ReadFails
<1>3. CASE ~(conn = g /\ ~closed)
  <2>1. req' = req /\ pending' = pending /\ UNCHANGED <<conn, sock>>
    BY <1>3 DEF ReadFails, DisconnectIfCurrent
  <2>2. Calls' = Calls
    BY <2>1, AllStay DEF CallStays, SameCall
  <2> QED
    BY <1>1, <2>1, <2>2 DEF Unseen
<1> QED
  BY <1>2, <1>3

LEMMA RequestsStep == IInv /\ [Next]_vars => [Requests!Next]_(Requests!vars)
<1> SUFFICES ASSUME IInv, [Next]_vars
             PROVE  Requests!Next \/ Unseen
  BY UnseenStutters
<1>1. ASSUME NEW r \in Callers, StartRequest(r) \/ CallerStep(r) \/ Cancel(r)
      PROVE  Requests!Next \/ Unseen
  BY <1>1, AskRequests, MovesRequests, RegisterRequests, TimeoutRequests, ReturnRequests,
     GiveUpRequests DEF CallerStep, Requests!Next
<1>2. ASSUME NEW g \in Conns, ReadFails(g) \/ Break(g)
      PROVE  Requests!Next \/ Unseen
  BY <1>2, ReadFailsRequests, BreakRequests DEF Requests!Next
<1>3. ASSUME NEW g \in Conns, NEW i \in Ids, Receive(g, i) \/ Serve(g, i)
      PROVE  Requests!Next \/ Unseen
  BY <1>3, ReceiveRequests, ServeRequests DEF Requests!Next
<1>4. ASSUME NEW k \in Dialers, Connect(k) \/ DialFails(k) \/ DialSucceeds(k)
      PROVE  Requests!Next \/ Unseen
  BY <1>4, DialRequests, QuietRequests DEF Requests!Next
<1>5. CASE Close
  BY <1>5, CloseRequests DEF Requests!Next
<1>6. CASE UNCHANGED vars
  BY <1>6, QuietRequests
<1> QED
  BY <1>1, <1>2, <1>3, <1>4, <1>5, <1>6 DEF Next

(* ImplementsObsRequests: behind the table, the gate, timeouts and dials,   *)
(* every request is answered for itself or fails with its connection.      *)
THEOREM RequestsAreServed == Spec => ImplementsObsRequests
  BY InitRequests, Invariance, RequestsStep, PTL DEF Spec, ImplementsObsRequests, Requests!Spec

=============================================================================
