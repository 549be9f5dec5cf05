----------------------------- MODULE AlertDelivery -----------------------------
(***************************************************************************)
(* Alert delivery across internal/ingest, internal/alert and cmd/trackdown:*)
(* a goroutine per alert that tries once and enqueues on failure           *)
(* (notifyAsync), the retry loop over alert_outbox (retryDueAlerts), the   *)
(* call of Notify that either makes, target by target under one deadline,  *)
(* and the shutdown, crash and restart of the server underneath it all.    *)
(*                                                                         *)
(* now advances only while a pending row waits for it.  Times are only     *)
(* compared with next_attempt_at, so time nobody waits for shows nowhere.  *)
(***************************************************************************)
EXTENDS AlertOutbox

CONSTANTS
  Notifiers,     \* the configured targets, in the order MultiNotifier has them
  Untimed,       \* the targets that ignore the deadline: SMTPNotifier
  Healthy,       \* the targets that answer at once and accept what reaches them
  BatchSize,     \* alertRetryBatchSize
  WriteFaults,   \* whether a write to the outbox may fail
  MaxCrashes,    \* bound: crashes of the server
  MaxShutdowns   \* bound: graceful shutdowns

Targets == {Notifiers[n] : n \in 1 .. Len(Notifiers)}

(* Without a target there is no notifier, and nothing of this runs. *)
ASSUME DeliveryAssumption ==
  /\ Len(Notifiers) \in Nat \ {0}
  /\ Untimed \subseteq Targets /\ Healthy \subseteq Targets
  /\ BatchSize \in Nat \ {0}
  /\ WriteFaults \in BOOLEAN
  /\ MaxCrashes \in Nat /\ MaxShutdowns \in Nat

VARIABLES
  server,      \* "up"; "stopping": context canceled, still draining; "down"
  firstTry,    \* the notifyAsync goroutine of each alert
  attempt,     \* its call of Notify, while it is "sending"
  batch,       \* the rest of the snapshot retryDueAlerts works through
  redelivery,  \* the loop's call of Notify for the head of batch
  received,    \* history: which alerts the Healthy targets have, as <<alert, target>>
  notified,    \* history: the alerts for which some Notify returned nil
  failures,    \* history: failed Notify calls per alert, up to the maximum
  unrecorded,  \* history: the alerts a delivery of which was never recorded
  crashes, shutdowns

goroutines == <<firstTry, attempt>>
loop == <<batch, redelivery>>
history == <<received, notified, failures, unrecorded>>
stops == <<crashes, shutdowns>>
vars == <<now, outbox, server, goroutines, loop, history, stops>>

Running == server \in {"up", "stopping"}

-------------------------------------------------------------------------------
(* A call of MultiNotifier.Notify: the target it is at, whether the deadline *)
(* of its context has passed, and whether some target failed.                *)
Call == [next : 1 .. Len(Notifiers) + 1, late : BOOLEAN, failed : BOOLEAN]
NewCall == [next |-> 1, late |-> FALSE, failed |-> FALSE]

Over(c) == c.next > Len(Notifiers)
Target(c) == Notifiers[c.next]

(* What a target may answer: whether it accepts, and whether the deadline of *)
(* the call is over by then.  All targets of a call share one deadline.  One *)
(* that heeds it fails when it is over, be it before its turn; one that does *)
(* not may accept long after it, or never answer at all.                     *)
Answer == [ok : BOOLEAN, late : BOOLEAN]
Answers(c) ==
  {r \in Answer :
     LET expired == r.late /\ Target(c) \notin Untimed
     IN  /\ c.late => r.late
         /\ expired => ~ r.ok
         /\ Target(c) \in Healthy => r.late = c.late /\ (r.ok \/ expired)}

(* Every target is tried in turn, whatever the others answered. *)
AfterSlip(c, r) ==    \* returns at the first error
  [next |-> IF r.ok THEN c.next + 1 ELSE Len(Notifiers) + 1,
   late |-> r.late, failed |-> c.failed \/ ~ r.ok]

After(c, r) ==
  [next |-> c.next + 1, late |-> r.late, failed |-> c.failed \/ ~ r.ok]

(* errors.Join: one target that fails makes the whole call fail. *)
Result(c) ==
  IF ~ Over(c) THEN "none" ELSE IF c.failed THEN "failed" ELSE "delivered"

(* One target of a call about alert a answers. *)
Notify(a, c, r) ==
  LET result == Result(After(c, r))
  IN  /\ r \in Answers(c)
      /\ received' = received \cup {<<a, t>> : t \in {u \in Healthy : r.ok /\ u = Target(c)}}
      /\ notified' = IF result = "delivered" THEN notified \cup {a} ELSE notified
      /\ failures' = [failures EXCEPT ![a] =
                        IF result = "failed" /\ @ < AlertMaxAttempts THEN @ + 1 ELSE @]
      /\ UNCHANGED unrecorded

-------------------------------------------------------------------------------
(* notifyAsync: handlers still running during a shutdown call it too. *)
Raise(a) ==
  /\ Running
  /\ firstTry[a] = "none"
  /\ firstTry' = [firstTry EXCEPT ![a] = "sending"]
  /\ UNCHANGED <<now, outbox, server, attempt, loop, history, stops>>

NextTry(a, c, after) ==    \* where the goroutine is after an answer
  /\ firstTry' = [firstTry EXCEPT ![a] = after]
  /\ attempt' = [attempt EXCEPT ![a] = IF Over(c) THEN NewCall ELSE c]

TryStageSlip(c) ==    \* a failure is logged, that is all
  IF Over(c) THEN "done" ELSE "sending"

TryStage(c) ==
  CASE Result(c) = "none" -> "sending"
    [] Result(c) = "failed" -> "failed"
    [] Result(c) = "delivered" -> "done"

FirstAttempt(a, r) ==
  /\ Running
  /\ firstTry[a] = "sending"
  /\ Notify(a, attempt[a], r)
  /\ LET c == After(attempt[a], r) IN NextTry(a, c, TryStage(c))
  /\ UNCHANGED <<now, outbox, server, loop, stops>>

EnqueueSlip(a) ==    \* the goroutine does not end
  /\ Running
  /\ firstTry[a] = "failed"
  /\ EnqueueAlert(a)
  /\ UNCHANGED <<now, server, goroutines, loop, history, stops>>

Enqueue(a) ==
  /\ Running
  /\ firstTry[a] = "failed"
  /\ EnqueueAlert(a)
  /\ firstTry' = [firstTry EXCEPT ![a] = "done"]
  /\ UNCHANGED <<now, server, attempt, loop, history, stops>>

(* A failed enqueue is logged, and the goroutine ends. *)
EnqueueFails(a) ==
  /\ Running
  /\ WriteFaults
  /\ firstTry[a] = "failed"
  /\ firstTry' = [firstTry EXCEPT ![a] = "lost"]
  /\ UNCHANGED <<now, outbox, server, attempt, loop, history, stops>>

-------------------------------------------------------------------------------
(* The retry loop.  A tick of its timer starts the next batch only when the *)
(* last one is finished; with the context canceled the read fails.          *)
Poll ==
  /\ server = "up"
  /\ batch = {}
  /\ Due # {}
  /\ batch' = DueAlerts(BatchSize)
  /\ UNCHANGED <<now, outbox, server, goroutines, redelivery, history, stops>>

IsHead(e) == e \in batch /\ \A d \in batch \ {e} : Before(e, d)

outcome == Result(redelivery)    \* of the head of batch, not yet recorded

(* Notify runs on a fresh context: a shutdown does not interrupt it. *)
Redeliver(e, r) ==
  /\ Running
  /\ outcome = "none"
  /\ IsHead(e)
  /\ Notify(e.alert, redelivery, r)
  /\ redelivery' = After(redelivery, r)
  /\ UNCHANGED <<now, outbox, server, goroutines, batch, stops>>

NextInBatch(e) ==
  /\ batch' = batch \ {e}
  /\ redelivery' = NewCall
  /\ UNCHANGED <<now, server, goroutines, received, notified, failures, stops>>

(* The outcome is recorded with the loop's own context. *)
Record(e) ==
  /\ server = "up"
  /\ IsHead(e)
  /\ \/ outcome = "delivered" /\ MarkAlertDelivered(e.id)
     \/ outcome = "failed" /\ MarkAlertFailed(e.id, e.attempts + 1)
  /\ UNCHANGED unrecorded
  /\ NextInBatch(e)

(* The head of batch is forgotten before its delivery, if any, is recorded. *)
ForgetOutcome ==
  unrecorded' = unrecorded \cup
    {e.alert : e \in {d \in batch : IsHead(d) /\ outcome = "delivered"}}

(* Canceled context or failed write: logged, and the row stays as it was. *)
RecordFails(e) ==
  /\ server = "stopping" \/ (server = "up" /\ WriteFaults)
  /\ IsHead(e)
  /\ outcome # "none"
  /\ ForgetOutcome
  /\ UNCHANGED outbox
  /\ NextInBatch(e)

-------------------------------------------------------------------------------
(* An interrupt, or the service manager's stop: the context is canceled     *)
(* first, then srv.Shutdown waits for the requests in flight.               *)
Shutdown ==
  /\ server = "up"
  /\ shutdowns < MaxShutdowns
  /\ shutdowns' = shutdowns + 1
  /\ server' = "stopping"
  /\ UNCHANGED <<now, outbox, goroutines, loop, history, crashes>>

(* The process ends: nobody waits for the goroutines or the loop. *)
Halt ==
  /\ server' = "down"
  /\ firstTry' = [a \in Alerts |-> IF firstTry[a] \in {"sending", "failed"}
                                   THEN "lost" ELSE firstTry[a]]
  /\ attempt' = [a \in Alerts |-> NewCall]
  /\ batch' = {}
  /\ redelivery' = NewCall
  /\ ForgetOutcome
  /\ UNCHANGED <<now, outbox, received, notified, failures, shutdowns>>

Exit == server = "stopping" /\ Halt /\ UNCHANGED crashes

Crash ==
  /\ Running
  /\ crashes < MaxCrashes
  /\ crashes' = crashes + 1
  /\ Halt

Start ==
  /\ server = "down"
  /\ server' = "up"
  /\ UNCHANGED <<now, outbox, goroutines, loop, history, stops>>

Tick ==
  /\ \E id \in DOMAIN outbox : /\ outbox[id].status = "pending"
                               /\ outbox[id].next_attempt_at > now
  /\ now' = now + 1
  /\ UNCHANGED <<outbox, server, goroutines, loop, history, stops>>

-------------------------------------------------------------------------------
Init ==
  /\ now = 0
  /\ outbox = << >>
  /\ server = "up"
  /\ firstTry = [a \in Alerts |-> "none"]
  /\ attempt = [a \in Alerts |-> NewCall]
  /\ batch = {}
  /\ redelivery = NewCall
  /\ received = {}
  /\ notified = {}
  /\ failures = [a \in Alerts |-> 0]
  /\ unrecorded = {}
  /\ crashes = 0
  /\ shutdowns = 0

FirstTry(a) ==
  (\E r \in Answer : FirstAttempt(a, r)) \/ Enqueue(a) \/ EnqueueFails(a)

Retry ==
  \/ Poll
  \/ \E e \in batch :
       (\E r \in Answer : Redeliver(e, r)) \/ Record(e) \/ RecordFails(e)

Next ==
  \/ \E a \in Alerts : Raise(a) \/ FirstTry(a)
  \/ Retry
  \/ Shutdown \/ Exit \/ Crash \/ Start
  \/ Tick

Spec == Init /\ [][Next]_vars

(* A call that nothing but its target can end: the target knows no deadline. *)
AtUntimed(c) == Target(c) \in Untimed \ Healthy
TryWaits(a) == firstTry[a] = "sending" /\ AtUntimed(attempt[a])
LoopWaits == batch # {} /\ outcome = "none" /\ AtUntimed(redelivery)

(* Goroutines and the loop's timer are scheduled, and a target that heeds    *)
(* the deadline has answered when it is over; of the others nothing is       *)
(* assumed.  The clock advances, a canceled server exits and a stopped one   *)
(* is restarted.  A write that can be tried again and again does not fail    *)
(* for ever.                                                                 *)
Fairness ==
  /\ \A a \in Alerts : WF_vars(~ TryWaits(a) /\ FirstTry(a))
  /\ WF_vars(~ LoopWaits /\ Retry)
  /\ SF_vars(\E e \in batch : Record(e))
  /\ WF_vars(Exit) /\ WF_vars(Start) /\ WF_vars(Tick)

FairSpec == Spec /\ Fairness

-------------------------------------------------------------------------------
TypeOK ==
  /\ now \in Nat
  /\ outbox \in Seq(OutboxRow)
  /\ server \in {"up", "stopping", "down"}
  /\ firstTry \in [Alerts -> {"none", "sending", "failed", "done", "lost"}]
  /\ attempt \in [Alerts -> {c \in Call : ~ Over(c)}]
  /\ batch \in SUBSET [id : Nat, alert : Alerts, attempts : Nat,
                       next_attempt_at : Nat]
  /\ redelivery \in Call
  /\ received \in SUBSET (Alerts \X Healthy)
  /\ notified \in SUBSET Alerts
  /\ failures \in [Alerts -> 0 .. AlertMaxAttempts]
  /\ unrecorded \in SUBSET Alerts
  /\ crashes \in Nat /\ shutdowns \in Nat

RowsOf(a) == {id \in DOMAIN outbox : outbox[id].alert = a}

(* The goroutine of an alert enqueues it at most once, and never an alert    *)
(* whose first attempt got through, so there are no two rows to deliver.     *)
OneRowPerAlert ==
  \A i, j \in DOMAIN outbox : outbox[i].alert = outbox[j].alert => i = j

(* retryDueAlerts works on a snapshot and updates rows by id, whatever they  *)
(* became since: what it still has to process must be as it was read.        *)
BatchIsCurrent ==
  \A e \in batch : /\ e.id \in DOMAIN outbox
                   /\ outbox[e.id].status = "pending"
                   /\ e = Entry(e.id)

(* The loop and the goroutines never work on the same row or alert. *)
OutboxConsistent == OneRowPerAlert /\ BatchIsCurrent

(* A row is dead-lettered only when alertMaxAttempts deliveries of its alert *)
(* really failed, and no row claims more attempts than were made: neither a  *)
(* restart nor an unrecorded outcome uses an attempt up.                     *)
DeadLettersEarned ==
  \A id \in DOMAIN outbox :
    /\ outbox[id].attempts <= failures[outbox[id].alert]
    /\ outbox[id].status = "dead" => failures[outbox[id].alert] = AlertMaxAttempts

Served(a) == \A t \in Healthy : <<a, t>> \in received

(* "always attempting all of them regardless of individual failures": a call *)
(* of Notify that returns before its deadline has brought the alert to every *)
(* working target, whichever others refused it.                              *)
ServedInTime ==
  [][/\ \A a \in Alerts, r \in Answer :
          FirstAttempt(a, r) /\ firstTry'[a] # "sending" /\ ~ r.late => Served(a)'
     /\ \A e \in batch, r \in Answer :
          Redeliver(e, r) /\ outcome' # "none" /\ ~ r.late => Served(e.alert)']_vars

(* A row that is delivered or dead stays so, and changes no more, though the *)
(* updates of the table do not look at the status they overwrite.            *)
SettledStays ==
  [][\A id \in DOMAIN outbox :
       outbox[id].status # "pending" => outbox'[id] = outbox[id]]_vars

(* "If that first attempt fails, it's no longer dropped": an alert leaves    *)
(* the hands of a goroutine whose attempt failed only by being queued.       *)
FailedAttemptKept ==
  [][\A a \in Alerts :
       firstTry[a] = "failed" /\ firstTry'[a] # "failed" => RowsOf(a)' # {}]_vars

(* "succeeds: MarkAlertDelivered marks the entry delivered (it stops showing *)
(* up in DueAlerts)": an alert that got through is sent again only if that   *)
(* could not be recorded, because the server stopped or the write failed.    *)
SuccessNotRepeated ==
  [][\A e \in batch, r \in Answer :
       Redeliver(e, r) => e.alert \notin notified \ unrecorded]_vars

-------------------------------------------------------------------------------
(* Where each alert is, in the terms of AlertSpec. *)
Stage(a) ==
  IF a \in notified THEN "delivered"
  ELSE IF \E id \in RowsOf(a) : outbox[id].status = "dead" THEN "dead"
  ELSE IF RowsOf(a) # {} THEN "queued"
  ELSE IF firstTry[a] \in {"sending", "failed"} THEN "raised"
  ELSE firstTry[a]

Promise == INSTANCE AlertSpec
  WITH stage <- [a \in Alerts |-> Stage(a)],
       MayLose <- WriteFaults \/ MaxCrashes + MaxShutdowns > 0

(* The server keeps AlertSpec's promise: a queued alert outlives any stop,   *)
(* and only a stop or a failed write loses one that is not queued yet.       *)
KeepsPromise == Promise!Spec

(* No target keeps a call of Notify for ever.  The code cannot promise that: *)
(* an SMTP server that accepts a connection and stays silent does just this. *)
CallsEnd == /\ \A a \in Alerts : []<>(~ TryWaits(a))
            /\ []<>(~ LoopWaits)

(* Every queued row is settled, if every call ends: the retry loop reaches   *)
(* it however often a write fails or the server restarts, and whatever is    *)
(* due before it, and it does not retry for ever.                            *)
EveryRowSettles ==
  CallsEnd =>
    \A id \in 1 .. Cardinality(Alerts) :
      (id \in DOMAIN outbox) ~> (id \in DOMAIN outbox /\ outbox[id].status # "pending")

(* Every alert raised leaves the hands of its goroutine, if every call ends, *)
(* and is delivered, dead-lettered, or lost to a stop or a failed write.     *)
EveryAlertSettles ==
  CallsEnd =>
    \A a \in Alerts :
      (Stage(a) = "raised") ~> (Stage(a) \in {"delivered", "dead", "lost"})

Redelivering(a) == outcome = "none" /\ \E e \in batch : IsHead(e) /\ e.alert = a

(* "a slow or unreachable notifier must not stall the loop", and "one down   *)
(* notifier must not prevent a working webhook from firing": where a working *)
(* target still waits for an alert, the loop's call about it gets there, or  *)
(* at least ends.                                                            *)
NobodyStallsLoop ==
  \A a \in Alerts, t \in Healthy :
    (Redelivering(a) /\ <<a, t>> \notin received)
      ~> (~ Redelivering(a) \/ <<a, t>> \in received)
===============================================================================
