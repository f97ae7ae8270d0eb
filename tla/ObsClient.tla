------------------------------ MODULE ObsClient ------------------------------
(***************************************************************************)
(* The connection of internal/obs/client.go: Connect, Close, the requests   *)
(* of concurrent callers, the one reader goroutine of every connection, and *)
(* the three ways in which a connection is given up (an error of its        *)
(* reader, an error or timeout of a request, Close).                        *)
(*                                                                         *)
(* OBS itself is external: it may answer a request late, in any order or    *)
(* never, and the socket may break at any moment.  Every section the code   *)
(* runs under Client.mu is one step.  What the requests say and what the    *)
(* events carry is left out; the tracked files are another matter.          *)
(***************************************************************************)
EXTENDS Naturals

CONSTANTS Callers,       \* goroutines that issue requests
          Dialers,       \* goroutines that call Connect
          MaxRequests,   \* bound on the requests issued
          MaxConns       \* bound on the connections made

ASSUME BoundsAreNaturals == MaxRequests \in Nat /\ MaxConns \in Nat

Conns == 1..MaxConns
Ids   == 1..MaxRequests
None  == 0               \* no connection

VARIABLES
    closed,    \* Client.closed
    state,     \* Client.state
    conn,      \* Client.conn: the current connection, or None
    pending,   \* Client.pending: the requests that have a reply channel
    nextID,    \* Client.nextID
    gate,      \* Client.writeGate: the callers that hold it
    req,       \* per caller: its place in requestResponse and its locals
    dialing,   \* the goroutines between the two locked sections of Connect
    readers,   \* the connections whose readLoop runs
    sock,      \* per connection: "unused", "open" or "shut"
    inbox,     \* per connection: requests on their way to OBS
    outbox,    \* per connection: answers on their way to the client
    served     \* history: the requests OBS has answered, with the connection

clientVars == <<closed, state, conn, pending>>
obsVars    == <<inbox, outbox, served>>
vars == <<clientVars, nextID, gate, req, dialing, readers, sock, obsVars>>

Replies == {"none", "answer", "error"}
Places  == {"idle", "register", "gate", "writing", "await", "broken"}
Request == [at : Places, conn : Conns \cup {None}, id : Ids \cup {0}, reply : Replies]
Idle    == [at |-> "idle", conn |-> None, id |-> 0, reply |-> "none"]
Shut(g) == [sock EXCEPT ![g] = "shut"]

\* The connections are made in the order of their numbers.
NextConn(g) == sock[g] = "unused" /\ \A c \in Conns : c < g => sock[c] # "unused"

TypeOK ==
    /\ closed \in BOOLEAN
    /\ state \in {"disconnected", "connecting", "connected", "closed"}
    /\ conn \in Conns \cup {None}
    /\ pending \subseteq Ids
    /\ nextID \in 1..(MaxRequests + 1)
    /\ gate \subseteq Callers /\ \A q, r \in gate : q = r
    /\ req \in [Callers -> Request]
    /\ dialing \subseteq Dialers
    /\ readers \subseteq Conns
    /\ sock \in [Conns -> {"unused", "open", "shut"}]
    /\ inbox \in [Conns -> SUBSET Ids]
    /\ outbox \in [Conns -> SUBSET Ids]
    /\ served \subseteq Conns \X Ids

Init ==
    /\ closed = FALSE /\ state = "disconnected" /\ conn = None
    /\ pending = {} /\ nextID = 1 /\ gate = {} /\ dialing = {} /\ readers = {}
    /\ req = [r \in Callers |-> Idle]
    /\ sock = [g \in Conns |-> "unused"]
    /\ inbox = [g \in Conns |-> {}] /\ outbox = [g \in Conns |-> {}]
    /\ served = {}

-----------------------------------------------------------------------------
(* Connect and Close *)

\* The first locked section of Connect.  A refused call changes nothing.
Connect(k) ==
    /\ k \notin dialing
    /\ ~closed /\ conn = None /\ state # "connecting"
    /\ \E g \in Conns : sock[g] = "unused"     \* bound
    /\ state' = "connecting"
    /\ dialing' = dialing \cup {k}
    /\ UNCHANGED <<closed, conn, pending, nextID, gate, req, readers, sock, obsVars>>

\* Mutant: a failed dial that does not reset the state.
DialFailsQuietly(k) ==
    /\ k \in dialing
    /\ dialing' = dialing \ {k}
    /\ UNCHANGED <<clientVars, pending, nextID, gate, req, readers, sock, obsVars>>

\* The dial or the handshake fails: setDisconnected.
DialFails(k) ==
    /\ k \in dialing
    /\ dialing' = dialing \ {k}
    /\ state' = IF closed THEN state ELSE "disconnected"
    /\ UNCHANGED <<closed, conn, pending, nextID, gate, req, readers, sock, obsVars>>

\* Mutants: a Connect that does not look at closed again, and one that
\* starts the request IDs of every connection from 1.
DialSucceedsBlindly(k) ==
    /\ k \in dialing
    /\ dialing' = dialing \ {k}
    /\ \E g \in Conns :
         /\ NextConn(g)
         /\ sock' = [sock EXCEPT ![g] = "open"]
         /\ conn' = g /\ state' = "connected"
         /\ readers' = readers \cup {g}
    /\ UNCHANGED <<closed, pending, nextID, gate, req, obsVars>>

DialSucceedsFreshIDs(k) ==
    /\ ~closed
    /\ k \in dialing
    /\ dialing' = dialing \ {k}
    /\ \E g \in Conns :
         /\ NextConn(g)
         /\ sock' = [sock EXCEPT ![g] = "open"]
         /\ conn' = g /\ state' = "connected"
         /\ readers' = readers \cup {g}
    /\ nextID' = 1
    /\ UNCHANGED <<closed, pending, gate, req, obsVars>>

\* The second locked section.  Close may have come first: the connection is
\* dropped.  Otherwise it becomes the current one and gets a reader.
DialSucceeds(k) ==
    /\ k \in dialing
    /\ dialing' = dialing \ {k}
    /\ \E g \in Conns :
         /\ NextConn(g)
         /\ \/ /\ closed
               /\ sock' = Shut(g)
               /\ UNCHANGED <<state, conn, readers>>
            \/ /\ ~closed
               /\ sock' = [sock EXCEPT ![g] = "open"]
               /\ conn' = g /\ state' = "connected"
               /\ readers' = readers \cup {g}
    /\ UNCHANGED <<closed, pending, nextID, gate, req, obsVars>>

\* failPendingLocked: every pending request gets an error in its channel, which
\* holds one reply.  callers is the callers' state the failure is added to.
FailPending(callers) ==
    [r \in Callers |->
        IF callers[r].id \in pending
        THEN [callers[r] EXCEPT !.reply = "error"] ELSE callers[r]]

Close ==
    /\ ~closed
    /\ closed' = TRUE /\ state' = "closed" /\ conn' = None
    /\ pending' = {} /\ req' = FailPending(req)
    /\ sock' = IF conn = None THEN sock ELSE Shut(conn)
    /\ UNCHANGED <<nextID, gate, dialing, readers, obsVars>>

\* Mutant: a disconnect that does not ask which connection is current.
DisconnectAny(g, callers, left) ==
    IF conn # None /\ ~closed
    THEN /\ conn' = None /\ state' = "disconnected"
         /\ pending' = {} /\ req' = FailPending(callers)
         /\ sock' = Shut(conn)
    ELSE /\ pending' = pending \ left /\ req' = callers
         /\ UNCHANGED <<conn, state, sock>>

\* disconnectIfCurrent(g) by a goroutine that leaves the callers in the state
\* callers and has the requests in left no longer pending.
DisconnectIfCurrent(g, callers, left) ==
    IF conn = g /\ ~closed
    THEN /\ conn' = None /\ state' = "disconnected"
         /\ pending' = {} /\ req' = FailPending(callers)
         /\ sock' = Shut(g)
    ELSE /\ pending' = pending \ left /\ req' = callers
         /\ UNCHANGED <<conn, state, sock>>

-----------------------------------------------------------------------------
(* requestResponse *)

Goes(r, place) == [req EXCEPT ![r].at = place]
Ends(r) == [req EXCEPT ![r] = Idle]

\* connectedConn reads the connection; the request gets its ID.
StartRequest(r) ==
    /\ req[r].at = "idle"
    /\ conn # None /\ state = "connected" /\ ~closed
    /\ nextID <= MaxRequests                   \* bound
    /\ req' = [req EXCEPT ![r] = [at |-> "register", conn |-> conn,
                                  id |-> nextID, reply |-> "none"]]
    /\ nextID' = nextID + 1
    /\ UNCHANGED <<clientVars, gate, dialing, readers, sock, obsVars>>

\* Mutant: a registration that does not look at the connection again.
RegisterBlindly(r) ==
    /\ req[r].at = "register"
    /\ pending' = pending \cup {req[r].id}
    /\ req' = Goes(r, "gate")
    /\ UNCHANGED <<closed, state, conn, nextID, gate, dialing, readers, sock, obsVars>>

\* The connection is looked at again before the reply channel is registered.  A
\* caller whose context is over leaves at once, and takes its channel with it.
Register(r) ==
    /\ req[r].at = "register"
    /\ \/ /\ conn = req[r].conn /\ state = "connected"
          /\ pending' = pending \cup {req[r].id}
          /\ req' = Goes(r, "gate")
       \/ /\ req' = Ends(r)
          /\ UNCHANGED pending
    /\ UNCHANGED <<closed, state, conn, nextID, gate, dialing, readers, sock, obsVars>>

TakeGate(r) ==
    /\ req[r].at = "gate" /\ gate = {}
    /\ gate' = gate \cup {r}
    /\ req' = Goes(r, "writing")
    /\ UNCHANGED <<clientVars, nextID, dialing, readers, sock, obsVars>>

\* The caller's context or the request's timeout is over, or the request was
\* failed, before the gate was free.
LeaveGate(r) ==
    /\ req[r].at = "gate"
    /\ req' = Goes(r, "broken")
    /\ UNCHANGED <<clientVars, nextID, gate, dialing, readers, sock, obsVars>>

Sent(r) == [inbox EXCEPT ![req[r].conn] = @ \cup {req[r].id}]

\* A write to a socket the other end has closed may succeed and be lost.
Write(r) ==
    /\ req[r].at = "writing"
    /\ \/ sock[req[r].conn] = "open" /\ inbox' = Sent(r)
       \/ sock[req[r].conn] = "shut" /\ UNCHANGED inbox
    /\ gate' = gate \ {r}
    /\ req' = Goes(r, "await")
    /\ UNCHANGED <<clientVars, nextID, dialing, readers, sock, outbox, served>>

\* The write fails, or is interrupted by closing the socket under it, or ends
\* when the context is already over; the request may be on its way all the same.
WriteFails(r) ==
    /\ req[r].at = "writing"
    /\ sock' \in {sock, Shut(req[r].conn)}
    /\ \/ UNCHANGED inbox
       \/ sock[req[r].conn] = "open" /\ inbox' = Sent(r)
    /\ gate' = gate \ {r}
    /\ req' = Goes(r, "broken")
    /\ UNCHANGED <<clientVars, nextID, dialing, readers, outbox, served>>

\* The caller takes its connection down, if it is still the current one, and
\* returns an error.
GiveUp(r) ==
    /\ req[r].at = "broken"
    /\ DisconnectIfCurrent(req[r].conn, Ends(r), {req[r].id})
    /\ UNCHANGED <<closed, nextID, gate, dialing, readers, obsVars>>

\* The caller's context is over: the connection stays.
Cancel(r) ==
    /\ req[r].at = "await"
    /\ pending' = pending \ {req[r].id}
    /\ req' = Ends(r)
    /\ UNCHANGED <<closed, state, conn, nextID, gate, dialing, readers, sock, obsVars>>

\* RequestTimeout is over: the connection is taken down in a step of its own.
Timeout(r) ==
    /\ req[r].at = "await"
    /\ pending' = pending \ {req[r].id}
    /\ req' = Goes(r, "broken")
    /\ UNCHANGED <<closed, state, conn, nextID, gate, dialing, readers, sock, obsVars>>

Return(r) ==
    /\ req[r].at = "await" /\ req[r].reply # "none"
    /\ req' = Ends(r)
    /\ UNCHANGED <<clientVars, nextID, gate, dialing, readers, sock, obsVars>>

-----------------------------------------------------------------------------
(* readLoop and OBS *)

Answered(i) ==
    [r \in Callers |->
        IF i \in pending /\ req[r].id = i
        THEN [req[r] EXCEPT !.reply = "answer"] ELSE req[r]]

\* handleRequestResponse: an answer nobody waits for is dropped.  The reader of
\* a connection that was given up may still find answers in its buffer.
Receive(g, i) ==
    /\ g \in readers /\ i \in outbox[g]
    /\ outbox' = [outbox EXCEPT ![g] = @ \ {i}]
    /\ req' = Answered(i)
    /\ pending' = pending \ {i}
    /\ UNCHANGED <<closed, state, conn, nextID, gate, dialing, readers, sock, inbox, served>>

\* ReadJSON returns an error: the reader ends, and its connection with it.
ReadFails(g) ==
    /\ g \in readers /\ sock[g] = "shut"
    /\ readers' = readers \ {g}
    /\ DisconnectIfCurrent(g, req, {})
    /\ UNCHANGED <<closed, nextID, gate, dialing, obsVars>>

Serve(g, i) ==
    /\ i \in inbox[g]
    /\ inbox' = [inbox EXCEPT ![g] = @ \ {i}]
    /\ outbox' = [outbox EXCEPT ![g] = @ \cup {i}]
    /\ served' = served \cup {<<g, i>>}
    /\ UNCHANGED <<clientVars, nextID, gate, req, dialing, readers, sock>>

Break(g) ==
    /\ sock[g] = "open"
    /\ sock' = Shut(g)
    /\ UNCHANGED <<clientVars, nextID, gate, req, dialing, readers, obsVars>>

-----------------------------------------------------------------------------
\* What a caller does of its own accord: each of these ends by the request's
\* timeout at the latest.  Cancel is the environment's.
CallerStep(r) ==
    \/ Register(r) \/ TakeGate(r) \/ LeaveGate(r) \/ Write(r) \/ WriteFails(r)
    \/ GiveUp(r) \/ Timeout(r) \/ Return(r)

Next ==
    \/ \E k \in Dialers : Connect(k) \/ DialFails(k) \/ DialSucceeds(k)
    \/ Close
    \/ \E r \in Callers : StartRequest(r) \/ CallerStep(r) \/ Cancel(r)
    \/ \E g \in Conns : ReadFails(g) \/ Break(g)
    \/ \E g \in Conns, i \in Ids : Receive(g, i) \/ Serve(g, i)

Spec == Init /\ [][Next]_vars

\* Requests carry a timeout of their own and Connect a context with one; a
\* reader whose socket is shut is told so.
Fairness ==
    /\ \A r \in Callers : WF_vars(CallerStep(r))
    /\ \A k \in Dialers : WF_vars(DialFails(k) \/ DialSucceeds(k))
    /\ \A g \in Conns : WF_vars(ReadFails(g))

FairSpec == Spec /\ Fairness

-----------------------------------------------------------------------------
Calling(r) == req[r].at \in {"gate", "writing", "await"}

\* A request that has not been replied to is registered, and on the current
\* connection: whatever happened between connectedConn and the registration,
\* nobody waits on a connection that cannot fail its request any more.  And a
\* table entry belongs to a caller that will take it out again and whose channel
\* is empty, so that a send under the mutex never blocks.
NobodyWaitsInVain ==
    /\ \A r \in Callers : Calling(r) /\ req[r].reply = "none"
                            => req[r].id \in pending /\ req[r].conn = conn
    /\ \A i \in pending : \E r \in Callers :
          req[r].id = i /\ req[r].at # "register" /\ req[r].reply = "none"

\* What makes the three invariants around it inductive.  The callers' requests
\* have different IDs, below the next one, and an ID enters the table only when it
\* is registered.
CallsAreApart ==
    /\ \A r \in Callers :
         /\ req[r].at = "idle" =>
              req[r].id = 0 /\ req[r].conn = None /\ req[r].reply = "none"
         /\ req[r].at # "idle" => /\ req[r].id \in 1..(nextID - 1)
                                 /\ req[r].conn \in Conns
                                 /\ sock[req[r].conn] # "unused"
         /\ req[r].at = "register" => req[r].id \notin pending /\ req[r].reply = "none"
         /\ r \in gate <=> req[r].at = "writing"
    /\ \A q, r \in Callers : req[q].id = req[r].id /\ req[q].at # "idle" => q = r

\* A message travels on the connection its request was issued on, and an answer
\* only comes from OBS.
TrafficInPlace ==
    /\ \A g \in Conns : \A i \in inbox[g] \cup outbox[g] :
         /\ i < nextID
         /\ \A r \in Callers : req[r].id = i => req[r].conn = g
    /\ \A g \in Conns : \A i \in outbox[g] : <<g, i>> \in served

\* A connection that was never made has no reader, and nobody dials while there
\* is a connection or the client is disconnected.
DialsAlone ==
    /\ \A g \in Conns : sock[g] = "unused" => g \notin readers /\ g # conn
    /\ state = "closed" <=> closed
    /\ dialing # {} => conn = None /\ state \in {"connecting", "closed"}

Bookkeeping == CallsAreApart /\ TrafficInPlace /\ DialsAlone

\* An answer handed to a caller is one OBS gave to that very request on that
\* very connection, although readers of older connections may still deliver.
AnswerIsOwn ==
    \A r \in Callers :
        req[r].reply = "answer" => <<req[r].conn, req[r].id>> \in served

\* Every open socket is the current connection's, the current connection has a
\* reader, at most one goroutine dials, and a closed client has no connection
\* and is never taken for a merely disconnected one, whatever was under way
\* when Close came.
ConnectionsAreOwned ==
    /\ \A g \in Conns : sock[g] = "open" => g = conn
    /\ conn # None => conn \in readers
    /\ \A k, l \in dialing : k = l
    /\ closed => conn = None /\ pending = {} /\ state = "closed"
    /\ (state = "connected") <=> (conn # None)

IInv == TypeOK /\ Bookkeeping /\ NobodyWaitsInVain /\ AnswerIsOwn /\ ConnectionsAreOwned

\* A connection is given up only by Close, by its own reader, or by a request
\* that was issued on it: an error of an older connection never takes the new
\* one down.
FaultsStayAtHome ==
    [][conn # None /\ conn' # conn
         => /\ conn' = None
            /\ \/ closed'
               \/ sock[conn] = "shut"
               \/ \E r \in Callers : req[r].at = "broken" /\ req[r].conn = conn]_vars

\* What has become of the request of r.
Status(r) ==
    LET gone == req[r].at # "idle" /\ req[r].id \notin pending IN
    CASE req[r].at = "idle" -> "idle"
      [] req[r].at # "idle" /\ req[r].id \in pending -> "waiting"
      [] gone /\ req[r].reply = "answer" -> "answered"
      [] gone /\ req[r].reply = "error" -> "failed"
      [] gone /\ req[r].reply = "none" /\ req[r].at = "register" -> "asked"
      [] gone /\ req[r].reply = "none" /\ req[r].at # "register" -> "withdrawn"

Calls == [r \in Callers |-> [status |-> Status(r), link |-> req[r].conn,
                            number |-> req[r].id]]

Requests == INSTANCE ObsRequests WITH
    Links <- Conns, link <- conn, line <- sock, ended <- closed,
    issued <- nextID - 1, call <- Calls

\* Each request is answered for itself or fails with its connection, whichever
\* way that one is given up, whatever the gate, timeouts, a second Connect and
\* readers of older connections do in the meantime.
ImplementsObsRequests == Requests!Spec

\* Every request returns, even if OBS never answers and the write gate is held
\* by another caller; and Connect never leaves the client connecting for ever.
CallsReturn ==
    /\ \A r \in Callers : req[r].at # "idle" ~> req[r].at = "idle"
    /\ state = "connecting" ~> state # "connecting"

=============================================================================
