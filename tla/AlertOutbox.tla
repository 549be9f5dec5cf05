------------------------------ MODULE AlertOutbox ------------------------------
(***************************************************************************)
(* The alert_outbox table of internal/store: rows are appended, updated by *)
(* id and never deleted, so the table is a sequence whose index is the id. *)
(* The operators are the store's methods; each is one statement on the     *)
(* single write connection (or, for DueAlerts, one read).                  *)
(***************************************************************************)
EXTENDS Integers, Sequences, FiniteSets

CONSTANTS
  Alerts,                 \* what a row is about
  AlertMaxAttempts,       \* alertMaxAttempts
  AlertBackoffSchedule    \* alertBackoffSchedule, in clock ticks

ASSUME OutboxAssumption ==
  /\ AlertMaxAttempts \in Nat \ {0, 1}
  /\ AlertBackoffSchedule \in Seq(Nat \ {0})
  /\ AlertBackoffSchedule # << >>

VARIABLES
  now,      \* the wall clock
  outbox    \* the rows of alert_outbox, by id

OutboxStatus == {"pending", "delivered", "dead"}

OutboxRow ==
  [alert : Alerts, status : OutboxStatus, attempts : Nat, next_attempt_at : Nat]

(* The schedule's entries in order, then its last one for good. *)
AlertBackoff(attempts) ==
  AlertBackoffSchedule[IF attempts > Len(AlertBackoffSchedule)
                       THEN Len(AlertBackoffSchedule) ELSE attempts]

EnqueueAlert(a) ==
  outbox' = Append(outbox,
    [alert |-> a, status |-> "pending", attempts |-> 1,
     next_attempt_at |-> now + AlertBackoff(1)])

(* DueAlerts returns copies of rows: the caller works on a snapshot. *)
Entry(id) ==
  [id |-> id, alert |-> outbox[id].alert, attempts |-> outbox[id].attempts,
   next_attempt_at |-> outbox[id].next_attempt_at]

(* ORDER BY next_attempt_at ASC, id ASC *)
Before(d, e) ==
  \/ d.next_attempt_at < e.next_attempt_at
  \/ d.next_attempt_at = e.next_attempt_at /\ d.id < e.id

(* Operators named ...Slip are near misses of the definition they precede.  *)
(* No specification uses them: put in its place, each breaks a property.    *)
DueSlip ==    \* no status = 'pending'
  {Entry(id) : id \in {i \in DOMAIN outbox : outbox[i].next_attempt_at <= now}}

Due ==
  {Entry(id) : id \in {i \in DOMAIN outbox :
                         /\ outbox[i].status = "pending"
                         /\ outbox[i].next_attempt_at <= now}}

DueAlerts(limit) ==
  {e \in Due : Cardinality({d \in Due : Before(d, e)}) < limit}

(* The updates name the row by its id only, whatever its status is by then. *)
MarkAlertDelivered(id) == outbox' = [outbox EXCEPT ![id].status = "delivered"]

MarkAlertFailedEarlySlip(id, attempts) ==    \* the maximum off by one
  outbox' = [outbox EXCEPT ![id] =
    IF attempts >= AlertMaxAttempts - 1
    THEN [@ EXCEPT !.status = "dead", !.attempts = attempts]
    ELSE [@ EXCEPT !.attempts = attempts,
                   !.next_attempt_at = now + AlertBackoff(attempts)]]

MarkAlertFailedForgetfulSlip(id, attempts) ==    \* attempts not written
  outbox' = [outbox EXCEPT ![id] =
    IF attempts >= AlertMaxAttempts
    THEN [@ EXCEPT !.status = "dead", !.attempts = attempts]
    ELSE [@ EXCEPT !.next_attempt_at = now]]

MarkAlertFailedWordSlip(id, attempts) ==    \* a status nobody knows
  outbox' = [outbox EXCEPT ![id] =
    IF attempts >= AlertMaxAttempts
    THEN [@ EXCEPT !.status = "failed", !.attempts = attempts]
    ELSE [@ EXCEPT !.attempts = attempts,
                   !.next_attempt_at = now + AlertBackoff(attempts)]]

MarkAlertFailed(id, attempts) ==
  outbox' = [outbox EXCEPT ![id] =
    IF attempts >= AlertMaxAttempts
    THEN [@ EXCEPT !.status = "dead", !.attempts = attempts]
    ELSE [@ EXCEPT !.attempts = attempts,
                   !.next_attempt_at = now + AlertBackoff(attempts)]]
===============================================================================
