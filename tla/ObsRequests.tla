----------------------------- MODULE ObsRequests -----------------------------
(***************************************************************************)
(* What the OBS client promises its callers: a request goes out on one     *)
(* connection under a number of its own, waits only as long as that        *)
(* connection is the current one, and gets the answer OBS gave to it or an *)
(* error.  A connection is lost because its line broke, or by a caller     *)
(* whose request was issued on it, and fails everyone who waits; no other  *)
(* line is open, and a client that has ended never connects again.         *)
(***************************************************************************)
EXTENDS Naturals

CONSTANTS Callers, Links, None

VARIABLES
  link,    \* the current connection, or None
  line,    \* per connection: "unused", "open" or "shut"
  ended,   \* whether the client was closed
  issued,  \* how many requests were issued
  call,    \* per caller: what has become of its request, its link and number
  served   \* the requests OBS has answered, each with the link it came by

vars == <<link, line, ended, issued, call, served>>

NoCall == [status |-> "idle", link |-> None, number |-> 0]

Init ==
  /\ link = None /\ line = [g \in Links |-> "unused"] /\ ended = FALSE /\ issued = 0
  /\ call = [r \in Callers |-> NoCall]
  /\ served = {}

(* A connection that is made after the end is given up at once.            *)
Open(g) ==
  /\ link = None /\ line[g] = "unused"
  /\ line' = [line EXCEPT ![g] = IF ended THEN "shut" ELSE "open"]
  /\ link' = IF ended THEN None ELSE g
  /\ UNCHANGED <<ended, issued, call, served>>

Break(g) ==
  /\ line[g] # "unused"
  /\ line' = [line EXCEPT ![g] = "shut"]
  /\ UNCHANGED <<link, ended, issued, call, served>>

Becomes(r, status) ==
  /\ call' = [call EXCEPT ![r].status = status]
  /\ UNCHANGED <<link, line, ended, issued, served>>

Ask(r) ==
  /\ call[r] = NoCall /\ link # None
  /\ issued' = issued + 1
  /\ call' = [call EXCEPT ![r] = [status |-> "asked", link |-> link, number |-> issued']]
  /\ UNCHANGED <<link, line, ended, served>>

Wait(r)     == call[r].status = "asked" /\ call[r].link = link /\ Becomes(r, "waiting")
Withdraw(r) == call[r].status = "waiting" /\ Becomes(r, "withdrawn")

Answer(r) ==
  /\ call[r].status = "waiting" /\ <<call[r].link, call[r].number>> \in served
  /\ Becomes(r, "answered")

Leave(r) ==
  /\ call[r].status # "idle"
  /\ call' = [call EXCEPT ![r] = NoCall]
  /\ UNCHANGED <<link, line, ended, issued, served>>

Serve ==
  /\ \E g \in Links, n \in 1 .. issued : served' = served \cup {<<g, n>>}
  /\ UNCHANGED <<link, line, ended, issued, call>>

(* The connection goes, with the callers in gone; whoever waits is told.   *)
Drop(gone) ==
  /\ link' = None
  /\ line' = IF link = None THEN line ELSE [line EXCEPT ![link] = "shut"]
  /\ call' = [r \in Callers |->
                CASE r \in gone -> NoCall
                  [] r \notin gone /\ call[r].status = "waiting"
                       -> [call[r] EXCEPT !.status = "failed"]
                  [] OTHER -> call[r]]
  /\ UNCHANGED <<issued, served>>

Lose ==
  /\ link # None
  /\ \/ line[link] = "shut" /\ Drop({})
     \/ \E r \in Callers : call[r].link = link /\ Drop({r})
  /\ UNCHANGED ended

End == ~ended /\ ended' = TRUE /\ Drop({})

Next ==
  \/ \E g \in Links : Open(g) \/ Break(g)
  \/ \E r \in Callers :
       Ask(r) \/ Wait(r) \/ Withdraw(r) \/ Answer(r) \/ Leave(r)
  \/ Serve \/ Lose \/ End

Spec == Init /\ [][Next]_vars

=============================================================================
