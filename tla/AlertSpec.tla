------------------------------- MODULE AlertSpec -------------------------------
(***************************************************************************)
(* What alerting promises for each alert, a new issue or a regression that *)
(* somebody must hear of.  A raised alert is delivered at once, or queued  *)
(* in the alert_outbox table.  A queued alert is never lost again, whatever*)
(* stops the server: it is delivered or, in the end, dead-lettered.  Only  *)
(* an alert not yet queued may be lost, and only where MayLose says so.    *)
(***************************************************************************)
CONSTANTS
  Alerts,    \* the occurrences to announce
  MayLose    \* whether the server may stop, or a write to the outbox fail

VARIABLE stage    \* where each alert is

Stages == {"none", "raised", "queued", "delivered", "dead", "lost"}

Move(a, from, to) == stage[a] \in from /\ stage' = [stage EXCEPT ![a] = to]

Raise(a)   == Move(a, {"none"}, "raised")
Queue(a)   == Move(a, {"raised"}, "queued")
Deliver(a) == Move(a, {"raised", "queued"}, "delivered")
GiveUp(a)  == Move(a, {"queued"}, "dead")

(* A stop of the server loses every alert it holds only in memory. *)
Lose(S) ==
  /\ MayLose
  /\ \A a \in S : stage[a] = "raised"
  /\ stage' = [a \in Alerts |-> IF a \in S THEN "lost" ELSE stage[a]]

Init == stage = [a \in Alerts |-> "none"]

Next ==
  \/ \E a \in Alerts : Raise(a) \/ Queue(a) \/ Deliver(a) \/ GiveUp(a)
  \/ \E S \in SUBSET Alerts : Lose(S)

Spec == Init /\ [][Next]_stage
===============================================================================
