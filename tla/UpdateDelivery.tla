--------------------------- MODULE UpdateDelivery ---------------------------
(***************************************************************************)
(* What the poller, its journal and the supervisor promise together about  *)
(* each Telegram update: every update is settled at most once, handlers    *)
(* run one at a time and in the order of the update IDs, and an update     *)
(* that still waits is never overtaken.                                    *)
(***************************************************************************)
EXTENDS Integers

CONSTANT Updates

VARIABLES
  fate,      \* what has become of each update
  handling   \* the updates whose handler code is executing

vars == <<fate, handling>>

Fates == {"unsent", "waiting", "dropped", "done", "dead"}

Init ==
  /\ fate = [u \in Updates |-> "unsent"]
  /\ handling = {}

Become(u, f) == fate' = [fate EXCEPT ![u] = f]

Send(u) ==
  /\ \A v \in Updates : v >= u => fate[v] = "unsent"
  /\ Become(u, "waiting")
  /\ UNCHANGED handling

(* Telegram gives up on an update nobody fetched, or the journal abandons  *)
(* one that Telegram gave up on.                                           *)
Drop(u) ==
  /\ fate[u] = "waiting"
  /\ Become(u, "dropped")
  /\ UNCHANGED handling

Start(u) ==
  /\ handling = {}
  /\ fate[u] \in {"waiting", "dropped"}
  /\ \A v \in Updates : v < u => fate[v] # "waiting"
  /\ handling' = {u}
  /\ UNCHANGED fate

(* The handler returns, panics, or dies with its process.                  *)
Stop ==
  /\ handling # {}
  /\ handling' = {}
  /\ UNCHANGED fate

Finish(u) ==
  /\ handling = {}
  /\ fate[u] \in {"waiting", "dropped"}
  /\ Become(u, "done")
  /\ UNCHANGED handling

(* A handler that would not stop may still be executing when its update is *)
(* quarantined, but then no other update's handler is.                     *)
Quarantine(u) ==
  /\ handling \subseteq {u}
  /\ fate[u] \in {"waiting", "dropped"}
  /\ Become(u, "dead")
  /\ UNCHANGED handling

Next ==
  \/ \E u \in Updates : Send(u) \/ Drop(u) \/ Start(u) \/ Finish(u) \/ Quarantine(u)
  \/ Stop

Spec == Init /\ [][Next]_vars

=============================================================================
