----------------------------- MODULE LogDelivery -----------------------------
(***************************************************************************)
(* What the nonblocking log handler and the flush at the end of the        *)
(* process promise about each record: its call ends at once, with the      *)
(* record accepted or dropped and the drop counted; what was accepted      *)
(* reaches the sink at most once and in order; a record is dropped only    *)
(* when Capacity of them wait or the handler closes; a flush that does not *)
(* give up has left nothing behind, and one that does lets at most one     *)
(* more record through.                                                    *)
(***************************************************************************)
EXTENDS Integers, Sequences

CONSTANT Capacity

VARIABLES
  called,    \* calls of Handle
  accepted,  \* records accepted, numbered in their order
  dropped,   \* records dropped
  told,      \* drops that were reported to a sink that took the report
  log,       \* the records handed to the sink
  phase,     \* "open", "draining", "drained", "cut" or "silent"
  answer     \* what the flush has said: "none", "flushed" or "expired"

vars == <<called, accepted, dropped, told, log, phase, answer>>

Init ==
  /\ called = 0 /\ accepted = 0 /\ dropped = 0 /\ told = 0
  /\ log = <<>>
  /\ phase = "open" /\ answer = "none"

Waiting   == accepted - Len(log)
Undecided == called - accepted - dropped

Call ==
  /\ called' = called + 1
  /\ UNCHANGED <<accepted, dropped, told, log, phase, answer>>

(* One record more than Capacity may wait: the one the writer has taken.   *)
Accept ==
  /\ Undecided > 0 /\ phase = "open"
  /\ Waiting <= Capacity
  /\ accepted' = accepted + 1
  /\ UNCHANGED <<called, dropped, told, log, phase, answer>>

Drop ==
  /\ Undecided > 0
  /\ phase # "open" \/ Waiting >= Capacity
  /\ dropped' = dropped + 1
  /\ UNCHANGED <<called, accepted, told, log, phase, answer>>

Deliver ==
  /\ Waiting > 0 /\ phase \in {"open", "draining", "cut"}
  /\ log' = Append(log, Len(log) + 1)
  /\ phase' = IF phase = "cut" THEN "silent" ELSE phase
  /\ UNCHANGED <<called, accepted, dropped, told, answer>>

Report ==
  /\ told' \in told + 1 .. dropped
  /\ UNCHANGED <<called, accepted, dropped, log, phase, answer>>

Becomes(next) ==
  phase' = next /\ UNCHANGED <<called, accepted, dropped, told, log, answer>>

Close  == phase = "open" /\ Becomes("draining")
Finish == phase = "draining" /\ Waiting = 0 /\ Becomes("drained")
Cut    == phase = "draining" /\ answer = "expired" /\ Becomes("cut")

Answer ==
  /\ phase # "open" /\ answer = "none"
  /\ \/ answer' = "flushed" /\ phase = "drained"
     \/ answer' = "expired"
  /\ UNCHANGED <<called, accepted, dropped, told, log, phase>>

Next ==
  \/ Call \/ Accept \/ Drop \/ Deliver \/ Report
  \/ Close \/ Finish \/ Cut \/ Answer

Spec == Init /\ [][Next]_vars

=============================================================================
