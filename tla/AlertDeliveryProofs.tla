-------------------------- MODULE AlertDeliveryProofs --------------------------
(***************************************************************************)
(* The safety of AlertDelivery, for any number of alerts and targets, any  *)
(* schedule, batch size and number of attempts, and any number of crashes, *)
(* shutdowns and failed writes.                                            *)
(***************************************************************************)
EXTENDS AlertDelivery, SequenceTheorems, TLAPS

(* A row belongs to an alert whose goroutine has ended. *)
RowsAreHandedOver ==
  \A id \in DOMAIN outbox : firstTry[outbox[id].alert] = "done"

(* Pending rows have attempts left, and none is recorded that was not made. *)
PendingHaveAttempts ==
  \A id \in DOMAIN outbox :
    outbox[id].status = "pending" => outbox[id].attempts < AlertMaxAttempts

FailuresCounted ==
  /\ \A a \in Alerts : firstTry[a] = "failed" => failures[a] >= 1
  /\ outcome = "failed" =>
       \A e \in batch : IsHead(e) => failures[e.alert] >= e.attempts + 1

(* Between batches no call is under way, and no outcome waits. *)
LoopIdle == batch = {} => redelivery = NewCall

IInv ==
  /\ TypeOK
  /\ OneRowPerAlert
  /\ BatchIsCurrent
  /\ RowsAreHandedOver
  /\ PendingHaveAttempts
  /\ FailuresCounted
  /\ LoopIdle
  /\ DeadLettersEarned

-------------------------------------------------------------------------------
(* A call that begins has a target before it, and no result. *)
LEMMA NewCallFacts == NewCall \in Call /\ ~ Over(NewCall) /\ Result(NewCall) = "none"
  BY DeliveryAssumption DEF NewCall, Call, Over, Result

(* An answer leads to the next target, or to the end of the call. *)
LEMMA AfterFacts ==
  ASSUME NEW c \in Call, ~ Over(c), NEW r \in Answer
  PROVE  After(c, r) \in Call
  BY DeliveryAssumption DEF Call, Answer, After, Over

(* A call has a result exactly when every target has been tried. *)
LEMMA ResultFacts ==
  ASSUME NEW c
  PROVE  /\ Result(c) \in {"none", "failed", "delivered"}
         /\ Result(c) = "none" <=> ~ Over(c)
  BY DEF Result

(* The empty outbox of a server just started satisfies the invariant. *)
LEMMA InitIInv == Init => IInv
  BY OutboxAssumption, NewCallFacts DEF Init, IInv, TypeOK, OneRowPerAlert,
     BatchIsCurrent, RowsAreHandedOver, PendingHaveAttempts, FailuresCounted, LoopIdle,
     DeadLettersEarned

(* The wait before a retry is an entry of the schedule. *)
LEMMA BackoffType ==
  ASSUME NEW attempts \in Nat \ {0}
  PROVE  AlertBackoff(attempts) \in Nat \ {0}
<1>1. AlertBackoffSchedule \in Seq(Nat \ {0}) /\ Len(AlertBackoffSchedule) \in Nat \ {0}
  BY OutboxAssumption, EmptySeq
<1>2. QED
  BY <1>1 DEF AlertBackoff

(* EnqueueAlert appends one row and leaves the others alone. *)
LEMMA EnqueueFacts ==
  ASSUME outbox \in Seq(OutboxRow), now \in Nat, NEW a \in Alerts, EnqueueAlert(a)
  PROVE  LET id == Len(outbox) + 1
         IN  /\ id \notin DOMAIN outbox
             /\ outbox' \in Seq(OutboxRow)
             /\ DOMAIN outbox' = DOMAIN outbox \cup {id}
             /\ \A i \in DOMAIN outbox : outbox'[i] = outbox[i]
             /\ outbox'[id].alert = a
             /\ outbox'[id].status = "pending"
             /\ outbox'[id].attempts = 1
<1> DEFINE row == [alert |-> a, status |-> "pending", attempts |-> 1,
                   next_attempt_at |-> now + AlertBackoff(1)]
<1>1. outbox' = Append(outbox, row)
  BY DEF EnqueueAlert
<1>2. row \in OutboxRow
  BY BackoffType DEF OutboxRow, OutboxStatus
<1>3. QED
  BY <1>1, <1>2

(* MarkAlertDelivered changes the status of one row. *)
LEMMA DeliveredFacts ==
  ASSUME outbox \in Seq(OutboxRow), NEW id \in DOMAIN outbox, MarkAlertDelivered(id)
  PROVE  /\ outbox' \in Seq(OutboxRow)
         /\ DOMAIN outbox' = DOMAIN outbox
         /\ \A i \in DOMAIN outbox : i # id => outbox'[i] = outbox[i]
         /\ outbox'[id].alert = outbox[id].alert
         /\ outbox'[id].status = "delivered"
         /\ outbox'[id].attempts = outbox[id].attempts
<1> DEFINE row == [outbox[id] EXCEPT !.status = "delivered"]
<1>1. outbox[id] \in OutboxRow
  OBVIOUS
<1>2. /\ row \in OutboxRow
      /\ row.alert = outbox[id].alert
      /\ row.status = "delivered"
      /\ row.attempts = outbox[id].attempts
  BY <1>1 DEF OutboxRow, OutboxStatus
<1>3. outbox' = [outbox EXCEPT ![id] = row]
  BY DEF MarkAlertDelivered
<1> HIDE DEF row
<1>4. QED
  BY <1>2, <1>3

(* MarkAlertFailed reschedules one row, or dead-letters it. *)
LEMMA FailedFacts ==
  ASSUME outbox \in Seq(OutboxRow), now \in Nat, NEW id \in DOMAIN outbox,
         NEW n \in Nat \ {0}, MarkAlertFailed(id, n)
  PROVE  /\ outbox' \in Seq(OutboxRow)
         /\ DOMAIN outbox' = DOMAIN outbox
         /\ \A i \in DOMAIN outbox : i # id => outbox'[i] = outbox[i]
         /\ outbox'[id].alert = outbox[id].alert
         /\ outbox'[id].attempts = n
         /\ outbox'[id].status = IF n >= AlertMaxAttempts THEN "dead"
                                 ELSE outbox[id].status
<1>1. AlertBackoff(n) \in Nat
  BY BackoffType
<1>2. outbox[id] \in OutboxRow
  OBVIOUS
<1> DEFINE row == IF n >= AlertMaxAttempts
                  THEN [outbox[id] EXCEPT !.status = "dead", !.attempts = n]
                  ELSE [outbox[id] EXCEPT !.attempts = n,
                                          !.next_attempt_at = now + AlertBackoff(n)]
<1>3. /\ row \in OutboxRow
      /\ row.alert = outbox[id].alert
      /\ row.attempts = n
      /\ row.status = IF n >= AlertMaxAttempts THEN "dead" ELSE outbox[id].status
  <2>1. CASE n >= AlertMaxAttempts
    <3>1. row = [alert |-> outbox[id].alert, status |-> "dead", attempts |-> n,
                 next_attempt_at |-> outbox[id].next_attempt_at]
      BY <1>2, <2>1, Zenon DEF OutboxRow
    <3>2. QED
      BY <1>2, <2>1, <3>1 DEF OutboxRow, OutboxStatus
  <2>2. CASE ~ (n >= AlertMaxAttempts)
    <3>1. row = [alert |-> outbox[id].alert, status |-> outbox[id].status,
                 attempts |-> n, next_attempt_at |-> now + AlertBackoff(n)]
      BY <1>2, <2>2, Zenon DEF OutboxRow
    <3>2. now + AlertBackoff(n) \in Nat
      BY <1>1
    <3>3. QED
      BY <1>2, <2>2, <3>1, <3>2 DEF OutboxRow, OutboxStatus
  <2>3. QED
    BY <2>1, <2>2
<1>4. outbox' = [outbox EXCEPT ![id] = row]
  BY DEF MarkAlertFailed
<1>5. QED
  BY <1>3, <1>4

-------------------------------------------------------------------------------
(* The types of what rows, snapshot entries and counters hold. *)
LEMMA RowTypes ==
  ASSUME TypeOK
  PROVE  /\ \A id \in DOMAIN outbox : /\ outbox[id] \in OutboxRow
                                      /\ outbox[id].alert \in Alerts
                                      /\ outbox[id].attempts \in Nat
                                      /\ outbox[id].next_attempt_at \in Nat
         /\ \A e \in batch : e.alert \in Alerts /\ e.attempts \in Nat
         /\ \A a \in Alerts : failures[a] \in Nat /\ failures[a] <= AlertMaxAttempts
<1>1. \A id \in DOMAIN outbox : outbox[id] \in OutboxRow
  BY DEF TypeOK
<1>2. \A a \in Alerts : failures[a] \in 0 .. AlertMaxAttempts
  BY DEF TypeOK
<1>3. \A e \in batch : e.alert \in Alerts /\ e.attempts \in Nat
  BY DEF TypeOK
<1>4. QED
  BY <1>1, <1>2, <1>3, OutboxAssumption DEF OutboxRow

(* A batch has one head. *)
LEMMA HeadUnique ==
  ASSUME TypeOK, NEW d \in batch, NEW e \in batch, IsHead(d), IsHead(e)
  PROVE  d = e
<1>1. \A x \in batch : x.id \in Nat /\ x.next_attempt_at \in Nat
  BY DEF TypeOK
<1>2. QED
  BY <1>1 DEF IsHead, Before

(* What the steps that leave the outbox and the loop alone have to show. *)
LEMMA OutsideLoopStep ==
  ASSUME IInv, TypeOK', UNCHANGED <<outbox, batch, redelivery>>,
         \A a \in Alerts : firstTry[a] = "done" => firstTry'[a] = "done",
         \A a \in Alerts : failures[a] <= failures'[a],
         \A a \in Alerts : firstTry'[a] = "failed" => failures'[a] >= 1
  PROVE  IInv'
<1>1. \A id \in DOMAIN outbox : outbox[id] \in OutboxRow
  BY DEF IInv, TypeOK
<1>2. \A id \in DOMAIN outbox : outbox[id].alert \in Alerts /\ outbox[id].attempts \in Nat
  BY <1>1 DEF OutboxRow
<1>3. \A a \in Alerts : /\ failures[a] \in Nat /\ failures'[a] \in Nat
                        /\ failures'[a] <= AlertMaxAttempts
  BY OutboxAssumption DEF IInv, TypeOK
<1>4. \A e \in batch : e.alert \in Alerts /\ e.attempts \in Nat
  BY DEF IInv, TypeOK
<1>5. OneRowPerAlert' /\ BatchIsCurrent' /\ PendingHaveAttempts' /\ LoopIdle'
  BY DEF IInv, OneRowPerAlert, BatchIsCurrent, PendingHaveAttempts, LoopIdle, Entry
<1>6. RowsAreHandedOver'
  BY <1>2 DEF IInv, RowsAreHandedOver
<1>7. FailuresCounted'
  <2>1. outcome = "failed" => \A e \in batch : IsHead(e) => failures[e.alert] >= e.attempts + 1
    BY DEF IInv, FailuresCounted
  <2>2. outcome = "failed" => \A e \in batch : IsHead(e) => failures'[e.alert] >= e.attempts + 1
    BY <2>1, <1>3, <1>4
  <2>3. outcome' = outcome
    BY DEF outcome
  <2>4. QED
    BY <2>2, <2>3 DEF FailuresCounted, IsHead
<1>8. DeadLettersEarned'
  BY <1>2, <1>3, OutboxAssumption DEF IInv, DeadLettersEarned
<1>9. QED
  BY <1>5, <1>6, <1>7, <1>8 DEF IInv

(* What an answer does to what is counted and remembered. *)
LEMMA NotifyFacts ==
  ASSUME TypeOK, NEW a \in Alerts, NEW c, NEW r, Notify(a, c, r)
  PROVE  /\ received' \in SUBSET (Alerts \X Healthy)
         /\ received \subseteq received'
         /\ notified' = IF Result(After(c, r)) = "delivered"
                        THEN notified \cup {a} ELSE notified
         /\ notified' \in SUBSET Alerts
         /\ unrecorded' = unrecorded
         /\ failures' \in [Alerts -> 0 .. AlertMaxAttempts]
         /\ \A b \in Alerts : failures[b] <= failures'[b]
         /\ Result(After(c, r)) = "failed" =>
              \/ failures'[a] = failures[a] + 1
              \/ failures'[a] = AlertMaxAttempts
<1>1. AlertMaxAttempts \in Nat /\ \A b \in Alerts : failures[b] \in 0 .. AlertMaxAttempts
  BY OutboxAssumption DEF TypeOK
<1>2. received' \in SUBSET (Alerts \X Healthy) /\ received \subseteq received'
  BY DEF Notify, TypeOK
<1>3. /\ notified' = IF Result(After(c, r)) = "delivered"
                     THEN notified \cup {a} ELSE notified
      /\ failures' = [failures EXCEPT ![a] =
                        IF Result(After(c, r)) = "failed" /\ failures[a] < AlertMaxAttempts
                        THEN failures[a] + 1 ELSE failures[a]]
      /\ unrecorded' = unrecorded
  BY DEF Notify
<1>4. notified' \in SUBSET Alerts
  BY <1>3 DEF TypeOK
<1>5. failures' \in [Alerts -> 0 .. AlertMaxAttempts]
  BY <1>1, <1>3 DEF TypeOK
<1>6. \A b \in Alerts : failures[b] <= failures'[b]
  BY <1>1, <1>3 DEF TypeOK
<1>7. Result(After(c, r)) = "failed" =>
        failures'[a] = failures[a] + 1 \/ failures'[a] = AlertMaxAttempts
  BY <1>1, <1>3 DEF TypeOK
<1>8. QED
  BY <1>2, <1>3, <1>4, <1>5, <1>6, <1>7

(* Where an answer leaves the goroutine of an alert and its call. *)
LEMMA FirstAttemptFacts ==
  ASSUME TypeOK, NEW a \in Alerts, NEW r \in Answer, FirstAttempt(a, r),
         NEW c, c = After(attempt[a], r)
  PROVE  /\ c \in Call /\ attempt[a] \in Call /\ ~ Over(attempt[a])
         /\ Notify(a, attempt[a], r)
         /\ firstTry[a] = "sending"
         /\ firstTry' \in [Alerts -> {"none", "sending", "failed", "done", "lost"}]
         /\ \A b \in Alerts : b # a => firstTry'[b] = firstTry[b]
         /\ firstTry'[a] \in {"sending", "failed", "done"}
         /\ firstTry'[a] = "sending" <=> Result(c) = "none"
         /\ firstTry'[a] = "failed" <=> Result(c) = "failed"
         /\ firstTry'[a] = "done" <=> Result(c) = "delivered"
         /\ attempt' \in [Alerts -> {d \in Call : ~ Over(d)}]
         /\ \A b \in Alerts : b # a => attempt'[b] = attempt[b]
         /\ attempt'[a] = IF Over(c) THEN NewCall ELSE c
         /\ UNCHANGED <<now, outbox, server, batch, redelivery, crashes, shutdowns>>
<1>1. attempt[a] \in Call /\ ~ Over(attempt[a])
  BY DEF TypeOK
<1>2. c \in Call
  BY <1>1, AfterFacts
<1>3. /\ Notify(a, attempt[a], r) /\ firstTry[a] = "sending"
      /\ firstTry' = [firstTry EXCEPT ![a] = TryStage(c)]
      /\ attempt' = [attempt EXCEPT ![a] = IF Over(c) THEN NewCall ELSE c]
      /\ UNCHANGED <<now, outbox, server, batch, redelivery, crashes, shutdowns>>
  BY DEF FirstAttempt, NextTry, loop, stops
<1>4. /\ TryStage(c) \in {"sending", "failed", "done"}
      /\ TryStage(c) = "sending" <=> Result(c) = "none"
      /\ TryStage(c) = "failed" <=> Result(c) = "failed"
      /\ TryStage(c) = "done" <=> Result(c) = "delivered"
  BY ResultFacts DEF TryStage
<1>5. (IF Over(c) THEN NewCall ELSE c) \in {d \in Call : ~ Over(d)}
  BY <1>2, NewCallFacts
<1>6. /\ firstTry' \in [Alerts -> {"none", "sending", "failed", "done", "lost"}]
      /\ firstTry'[a] = TryStage(c)
      /\ \A b \in Alerts : b # a => firstTry'[b] = firstTry[b]
  BY <1>3, <1>4 DEF TypeOK
<1> DEFINE NoLonger == {d \in Call : ~ Over(d)}
<1>7. attempt \in [Alerts -> NoLonger] /\ (IF Over(c) THEN NewCall ELSE c) \in NoLonger
  BY <1>5 DEF TypeOK
<1>8. /\ attempt' \in [Alerts -> NoLonger]
      /\ attempt'[a] = IF Over(c) THEN NewCall ELSE c
      /\ \A b \in Alerts : b # a => attempt'[b] = attempt[b]
  <2> HIDE DEF NoLonger
  <2>1. QED
    BY <1>3, <1>7
<1>9. QED
  BY <1>1, <1>2, <1>3, <1>4, <1>6, <1>8

(* A step of the loop's call leads to its result, or to the next target. *)
LEMMA RedeliverFacts ==
  ASSUME TypeOK, NEW e \in batch, NEW r \in Answer, Redeliver(e, r),
         NEW c, c = After(redelivery, r)
  PROVE  /\ c \in Call /\ redelivery \in Call /\ ~ Over(redelivery)
         /\ e.alert \in Alerts /\ IsHead(e)
         /\ Notify(e.alert, redelivery, r)
         /\ outcome = "none"
         /\ redelivery' = c
         /\ outcome' = Result(c)
         /\ UNCHANGED <<now, outbox, server, firstTry, attempt, batch, crashes, shutdowns>>
<1>1. /\ IsHead(e) /\ Notify(e.alert, redelivery, r)
      /\ outcome = "none" /\ redelivery' = c /\ outcome' = Result(c)
      /\ UNCHANGED <<now, outbox, server, firstTry, attempt, batch, crashes, shutdowns>>
  BY DEF Redeliver, goroutines, stops, outcome
<1>2. redelivery \in Call /\ ~ Over(redelivery)
  BY <1>1, ResultFacts DEF TypeOK, outcome
<1>3. e.alert \in Alerts
  BY RowTypes
<1>4. QED
  BY <1>1, <1>2, <1>3, AfterFacts

(* The first attempt of an alert preserves the invariant. *)
LEMMA FirstAttemptStep ==
  ASSUME IInv, NEW a \in Alerts, NEW r \in Answer, FirstAttempt(a, r)
  PROVE  IInv'
<1>1. TypeOK
  BY DEF IInv
<1>2. PICK c : c = After(attempt[a], r)
  OBVIOUS
<1>3. /\ Notify(a, attempt[a], r)
      /\ firstTry[a] = "sending"
      /\ firstTry' \in [Alerts -> {"none", "sending", "failed", "done", "lost"}]
      /\ \A b \in Alerts : b # a => firstTry'[b] = firstTry[b]
      /\ firstTry'[a] = "failed" <=> Result(c) = "failed"
      /\ attempt' \in [Alerts -> {d \in Call : ~ Over(d)}]
      /\ UNCHANGED <<now, outbox, server, batch, redelivery, crashes, shutdowns>>
  BY <1>1, <1>2, FirstAttemptFacts
<1>4. /\ received' \in SUBSET (Alerts \X Healthy)
      /\ notified' \in SUBSET Alerts
      /\ unrecorded' = unrecorded
      /\ failures' \in [Alerts -> 0 .. AlertMaxAttempts]
      /\ \A b \in Alerts : failures[b] <= failures'[b]
      /\ Result(c) = "failed" => \/ failures'[a] = failures[a] + 1
                                 \/ failures'[a] = AlertMaxAttempts
  BY <1>1, <1>2, <1>3, NotifyFacts
<1>5. \A b \in Alerts : failures[b] \in Nat /\ failures'[b] \in Nat
  <2>1. AlertMaxAttempts \in Nat
    BY OutboxAssumption
  <2>2. QED
    BY <1>1, <1>4, <2>1, RowTypes
<1>6. TypeOK'
  BY <1>1, <1>3, <1>4 DEF TypeOK
<1>7. \A b \in Alerts : firstTry[b] = "done" => firstTry'[b] = "done"
  BY <1>3
<1>8. ASSUME NEW b \in Alerts, firstTry'[b] = "failed"
      PROVE  failures'[b] >= 1
  <2>1. CASE b = a
    BY <2>1, <1>3, <1>4, <1>5, <1>8, OutboxAssumption
  <2>2. CASE b # a
    <3>1. firstTry[b] = "failed"
      BY <2>2, <1>3, <1>8
    <3>2. failures[b] >= 1
      BY <3>1 DEF IInv, FailuresCounted
    <3>3. QED
      BY <3>2, <1>4, <1>5
  <2>3. QED
    BY <2>1, <2>2
<1>9. QED
  BY <1>3, <1>4, <1>6, <1>7, <1>8, OutsideLoopStep

(* So do the steps that touch neither the outbox nor the loop. *)
LEMMA QuietStep ==
  ASSUME IInv, TypeOK', UNCHANGED <<outbox, batch, redelivery, failures>>,
         \A b \in Alerts : /\ firstTry[b] = "done" => firstTry'[b] = "done"
                           /\ firstTry'[b] = "failed" => firstTry[b] = "failed"
  PROVE  IInv'
<1>1. TypeOK /\ FailuresCounted /\ failures' = failures
  BY DEF IInv
<1>2. \A b \in Alerts : failures[b] \in Nat
  BY <1>1, RowTypes
<1>3. \A b \in Alerts : failures[b] <= failures'[b]
  BY <1>1, <1>2
<1>4. \A b \in Alerts : firstTry'[b] = "failed" => failures'[b] >= 1
  BY <1>1 DEF FailuresCounted
<1>5. QED
  BY <1>3, <1>4, OutsideLoopStep

(* What is forgotten was about alerts. *)
LEMMA ForgetFacts ==
  ASSUME TypeOK, ForgetOutcome
  PROVE  /\ unrecorded' \in SUBSET Alerts
         /\ unrecorded \subseteq unrecorded'
         /\ \A e \in batch : IsHead(e) /\ outcome = "delivered" => e.alert \in unrecorded'
<1>1. \A e \in batch : e.alert \in Alerts
  BY RowTypes
<1>2. QED
  BY <1>1 DEF ForgetOutcome, TypeOK

(* A stop of the server forgets the batch and ends the goroutines. *)
LEMMA HaltStep ==
  ASSUME IInv, Halt, crashes' \in Nat
  PROVE  IInv'
<1>1. /\ TypeOK /\ batch' = {} /\ redelivery' = NewCall /\ server' = "down"
      /\ attempt' = [a \in Alerts |-> NewCall] /\ ForgetOutcome
      /\ UNCHANGED <<now, outbox, received, notified, failures, shutdowns>>
      /\ firstTry' = [a \in Alerts |-> IF firstTry[a] \in {"sending", "failed"}
                                       THEN "lost" ELSE firstTry[a]]
  BY DEF IInv, Halt
<1>2. TypeOK'
  BY <1>1, ForgetFacts, NewCallFacts DEF TypeOK
<1>3. \A id \in DOMAIN outbox : outbox[id].alert \in Alerts
  BY <1>1, RowTypes
<1>4. RowsAreHandedOver'
  BY <1>1, <1>3 DEF IInv, RowsAreHandedOver
<1>5. FailuresCounted'
  BY <1>1 DEF IInv, FailuresCounted
<1>6. QED
  BY <1>1, <1>2, <1>4, <1>5 DEF IInv, OneRowPerAlert, BatchIsCurrent,
     PendingHaveAttempts, LoopIdle, DeadLettersEarned

(* Enqueueing a failed alert adds a row of its own. *)
LEMMA EnqueueStep ==
  ASSUME IInv, NEW a \in Alerts, Enqueue(a)
  PROVE  IInv'
<1>1. /\ TypeOK /\ firstTry[a] = "failed" /\ EnqueueAlert(a)
      /\ firstTry' = [firstTry EXCEPT ![a] = "done"]
      /\ UNCHANGED <<now, server, attempt, batch, redelivery, received, notified,
                     failures, unrecorded, crashes, shutdowns>>
  BY DEF IInv, Enqueue, loop, history, stops
<1> DEFINE id == Len(outbox) + 1
<1>2. /\ id \notin DOMAIN outbox
      /\ outbox' \in Seq(OutboxRow)
      /\ DOMAIN outbox' = DOMAIN outbox \cup {id}
      /\ \A i \in DOMAIN outbox : outbox'[i] = outbox[i]
      /\ outbox'[id].alert = a
      /\ outbox'[id].status = "pending"
      /\ outbox'[id].attempts = 1
  BY <1>1, EnqueueFacts DEF TypeOK
<1> HIDE DEF id
<1>3. \A i \in DOMAIN outbox : outbox[i].alert \in Alerts /\ outbox[i].alert # a
  BY <1>1, RowTypes DEF IInv, RowsAreHandedOver
<1>4. TypeOK'
  BY <1>1, <1>2 DEF TypeOK
<1>5. OneRowPerAlert'
  BY <1>2, <1>3 DEF IInv, OneRowPerAlert
<1>6. BatchIsCurrent'
  BY <1>1, <1>2 DEF IInv, BatchIsCurrent, Entry
<1>7. RowsAreHandedOver'
  BY <1>1, <1>2, <1>3 DEF IInv, RowsAreHandedOver, TypeOK
<1>8. PendingHaveAttempts'
  BY <1>2, OutboxAssumption DEF IInv, PendingHaveAttempts
<1>9. FailuresCounted'
  BY <1>1 DEF IInv, FailuresCounted, IsHead, TypeOK, outcome
<1>10. DeadLettersEarned'
  <2>1. failures[a] >= 1
    BY <1>1 DEF IInv, FailuresCounted
  <2>2. failures[a] \in Nat
    BY <1>1, OutboxAssumption DEF TypeOK
  <2>3. outbox'[id].attempts <= failures[a] /\ outbox'[id].status # "dead"
    BY <1>2, <2>1, <2>2
  <2>4. QED
    BY <1>1, <1>2, <2>3 DEF IInv, DeadLettersEarned
<1>11. QED
  BY <1>1, <1>4, <1>5, <1>6, <1>7, <1>8, <1>9, <1>10 DEF IInv, LoopIdle

(* A poll reads rows as they are, and only pending ones. *)
LEMMA PollStep ==
  ASSUME IInv, Poll
  PROVE  IInv'
<1>1. /\ TypeOK /\ batch = {} /\ redelivery = NewCall
      /\ batch' \subseteq Due
      /\ UNCHANGED <<now, outbox, server, firstTry, attempt, redelivery, received,
                     notified, failures, unrecorded, crashes, shutdowns>>
  BY DEF IInv, LoopIdle, Poll, DueAlerts, goroutines, history, stops
<1>2. \A e \in batch' : /\ e.id \in DOMAIN outbox
                        /\ outbox[e.id].status = "pending"
                        /\ e = Entry(e.id)
  BY <1>1 DEF Due, Entry
<1>3. \A id \in DOMAIN outbox :
        Entry(id) \in [id : Nat, alert : Alerts, attempts : Nat, next_attempt_at : Nat]
  <2>1. \A id \in DOMAIN outbox : id \in Nat
    BY <1>1 DEF TypeOK
  <2>2. QED
    BY <1>1, <2>1, RowTypes DEF Entry
<1>4. TypeOK'
  BY <1>1, <1>2, <1>3 DEF TypeOK
<1>5. BatchIsCurrent'
  BY <1>1, <1>2 DEF BatchIsCurrent, Entry
<1>6. FailuresCounted'
  <2>1. outcome' = "none"
    BY <1>1, NewCallFacts DEF outcome
  <2>2. QED
    BY <1>1, <2>1 DEF IInv, FailuresCounted
<1>7. QED
  BY <1>1, <1>4, <1>5, <1>6 DEF IInv, OneRowPerAlert, RowsAreHandedOver,
     PendingHaveAttempts, LoopIdle, DeadLettersEarned

(* A retry counts its failure before anything is recorded of it. *)
LEMMA RedeliverStep ==
  ASSUME IInv, NEW e \in batch, NEW r \in Answer, Redeliver(e, r)
  PROVE  IInv'
<1> PICK c : c = After(redelivery, r)
  OBVIOUS
<1>1. /\ TypeOK /\ IsHead(e) /\ Notify(e.alert, redelivery, r)
      /\ c \in Call /\ redelivery' = c /\ outcome' = Result(c)
      /\ UNCHANGED <<now, outbox, server, firstTry, attempt, batch, crashes, shutdowns>>
  BY RedeliverFacts DEF IInv
<1>2. e.alert \in Alerts /\ e.attempts \in Nat
  BY <1>1, RowTypes
<1>3. /\ received' \in SUBSET (Alerts \X Healthy)
      /\ notified' \in SUBSET Alerts
      /\ unrecorded' = unrecorded
      /\ failures' \in [Alerts -> 0 .. AlertMaxAttempts]
      /\ \A b \in Alerts : failures[b] <= failures'[b]
      /\ Result(c) = "failed" => \/ failures'[e.alert] = failures[e.alert] + 1
                                 \/ failures'[e.alert] = AlertMaxAttempts
  BY <1>1, <1>2, NotifyFacts
<1>4. TypeOK'
  BY <1>1, <1>3 DEF TypeOK
<1>5. \A b \in Alerts : /\ failures[b] \in Nat /\ failures'[b] \in Nat
                        /\ failures'[b] <= AlertMaxAttempts
  <2>1. AlertMaxAttempts \in Nat
    BY OutboxAssumption
  <2>2. QED
    BY <1>1, <1>3, <2>1, RowTypes
<1>6. BatchIsCurrent'
  BY <1>1 DEF IInv, BatchIsCurrent, Entry
<1>7. FailuresCounted'
  <2>1. /\ e.id \in DOMAIN outbox
        /\ outbox[e.id].status = "pending"
        /\ outbox[e.id].alert = e.alert
        /\ outbox[e.id].attempts = e.attempts
    BY DEF IInv, BatchIsCurrent, Entry
  <2>2. e.attempts <= failures[e.alert] /\ e.attempts < AlertMaxAttempts
    BY <2>1 DEF IInv, DeadLettersEarned, PendingHaveAttempts
  <2>3. outcome' = "failed" => failures'[e.alert] >= e.attempts + 1
    BY <1>1, <1>2, <1>3, <1>5, <2>2, OutboxAssumption
  <2>4. \A d \in batch : IsHead(d) => d = e
    BY <1>1, HeadUnique
  <2>5. \A a \in Alerts : firstTry[a] = "failed" => failures'[a] >= 1
    BY <1>3, <1>5 DEF IInv, FailuresCounted
  <2>6. QED
    BY <1>1, <2>3, <2>4, <2>5 DEF FailuresCounted, IsHead
<1>8. DeadLettersEarned'
  <2>1. \A id \in DOMAIN outbox : /\ outbox[id].alert \in Alerts
                                  /\ outbox[id].attempts \in Nat
    BY <1>1, RowTypes
  <2>2. AlertMaxAttempts \in Nat
    BY OutboxAssumption
  <2>3. \A id \in DOMAIN outbox :
          /\ outbox[id].attempts <= failures'[outbox[id].alert]
          /\ outbox[id].status = "dead" => failures'[outbox[id].alert] = AlertMaxAttempts
    BY <1>3, <1>5, <2>1, <2>2 DEF IInv, DeadLettersEarned
  <2>4. QED
    BY <1>1, <2>3 DEF DeadLettersEarned
<1>9. OneRowPerAlert' /\ RowsAreHandedOver' /\ PendingHaveAttempts' /\ LoopIdle'
  BY <1>1 DEF IInv, OneRowPerAlert, RowsAreHandedOver, PendingHaveAttempts, LoopIdle
<1>10. QED
  BY <1>4, <1>6, <1>7, <1>8, <1>9 DEF IInv

(* Distinct entries of a batch are copies of distinct rows. *)
LEMMA BatchIdsDistinct ==
  ASSUME BatchIsCurrent, NEW d \in batch, NEW e \in batch, d # e
  PROVE  d.id # e.id
  BY DEF BatchIsCurrent

(* Recording an outcome settles or reschedules the row it is about. *)
LEMMA RecordStep ==
  ASSUME IInv, NEW e \in batch, Record(e)
  PROVE  IInv'
<1>1. /\ TypeOK /\ IsHead(e) /\ batch' = batch \ {e} /\ redelivery' = NewCall
      /\ UNCHANGED <<now, server, firstTry, attempt, received, notified, failures,
                     unrecorded, crashes, shutdowns>>
      /\ \/ MarkAlertDelivered(e.id)
         \/ outcome = "failed" /\ MarkAlertFailed(e.id, e.attempts + 1)
  BY DEF IInv, Record, NextInBatch, goroutines, stops
<1>2. /\ e.id \in DOMAIN outbox
      /\ outbox[e.id].status = "pending"
      /\ outbox[e.id].alert = e.alert
      /\ outbox[e.id].attempts = e.attempts
      /\ e.alert \in Alerts
      /\ e.attempts \in Nat
  BY <1>1, RowTypes DEF IInv, BatchIsCurrent, Entry
<1>3. /\ outbox' \in Seq(OutboxRow)
      /\ DOMAIN outbox' = DOMAIN outbox
      /\ \A i \in DOMAIN outbox : i # e.id => outbox'[i] = outbox[i]
      /\ outbox'[e.id].alert = e.alert
      /\ \/ /\ outbox'[e.id].status = "delivered"
            /\ outbox'[e.id].attempts = e.attempts
         \/ /\ outcome = "failed"
            /\ outbox'[e.id].attempts = e.attempts + 1
            /\ outbox'[e.id].status = IF e.attempts + 1 >= AlertMaxAttempts
                                      THEN "dead" ELSE "pending"
  <2>1. outbox \in Seq(OutboxRow) /\ now \in Nat /\ e.attempts + 1 \in Nat \ {0}
    BY <1>1, <1>2 DEF TypeOK
  <2>2. CASE MarkAlertDelivered(e.id)
    BY <1>2, <2>1, <2>2, DeliveredFacts
  <2>3. CASE outcome = "failed" /\ MarkAlertFailed(e.id, e.attempts + 1)
    BY <1>2, <2>1, <2>3, FailedFacts
  <2>4. QED
    BY <1>1, <2>2, <2>3
<1>4. TypeOK'
  BY <1>1, <1>3, NewCallFacts DEF TypeOK
<1>5. \A i \in DOMAIN outbox : outbox'[i].alert = outbox[i].alert
  BY <1>2, <1>3
<1>6. OneRowPerAlert' /\ RowsAreHandedOver'
  BY <1>1, <1>3, <1>5 DEF IInv, OneRowPerAlert, RowsAreHandedOver
<1>7. BatchIsCurrent'
  <2>1. \A d \in batch' : d \in batch /\ d.id # e.id
    BY <1>1, BatchIdsDistinct DEF IInv
  <2>2. QED
    BY <1>1, <1>3, <2>1 DEF IInv, BatchIsCurrent, Entry
<1>8. PendingHaveAttempts'
  <2>1. outbox'[e.id].status = "pending" => outbox'[e.id].attempts < AlertMaxAttempts
    BY <1>2, <1>3, OutboxAssumption
  <2>2. QED
    BY <1>3, <2>1 DEF IInv, PendingHaveAttempts
<1>9. FailuresCounted'
  <2>1. outcome' = "none"
    BY <1>1, NewCallFacts DEF outcome
  <2>2. QED
    BY <1>1, <2>1 DEF IInv, FailuresCounted
<1>10. DeadLettersEarned'
  <2>1. failures[e.alert] \in Nat /\ failures[e.alert] <= AlertMaxAttempts
    BY <1>1, <1>2, RowTypes
  <2>2. e.attempts <= failures[e.alert]
    BY <1>2 DEF IInv, DeadLettersEarned
  <2>3. outcome = "failed" => e.attempts + 1 <= failures[e.alert]
    BY <1>1, <1>2, <2>1 DEF IInv, FailuresCounted
  <2>4. /\ outbox'[e.id].attempts <= failures[e.alert]
        /\ outbox'[e.id].status = "dead" => failures[e.alert] = AlertMaxAttempts
    BY <1>2, <1>3, <2>1, <2>2, <2>3, OutboxAssumption
  <2>5. QED
    BY <1>1, <1>3, <2>4 DEF IInv, DeadLettersEarned
<1>11. QED
  BY <1>1, <1>4, <1>6, <1>7, <1>8, <1>9, <1>10 DEF IInv, LoopIdle

(* An outcome that is not recorded leaves the row as it was. *)
LEMMA RecordFailsStep ==
  ASSUME IInv, NEW e \in batch, RecordFails(e)
  PROVE  IInv'
<1>1. /\ TypeOK /\ batch' = batch \ {e} /\ redelivery' = NewCall
      /\ outcome' = "none" /\ ForgetOutcome
      /\ UNCHANGED <<now, outbox, server, firstTry, attempt, received, notified,
                     failures, crashes, shutdowns>>
  BY NewCallFacts DEF IInv, RecordFails, NextInBatch, goroutines, stops, outcome
<1>2. TypeOK'
  BY <1>1, ForgetFacts, NewCallFacts DEF TypeOK
<1>3. BatchIsCurrent'
  BY <1>1 DEF IInv, BatchIsCurrent, Entry
<1>4. FailuresCounted'
  BY <1>1 DEF IInv, FailuresCounted
<1>5. QED
  BY <1>1, <1>2, <1>3, <1>4 DEF IInv, OneRowPerAlert, RowsAreHandedOver,
     PendingHaveAttempts, LoopIdle, DeadLettersEarned

-------------------------------------------------------------------------------
(* Every step of the server preserves the inductive invariant. *)
LEMMA NextIInv == IInv /\ [Next]_vars => IInv'
<1> SUFFICES ASSUME IInv, [Next]_vars
             PROVE  IInv'
  OBVIOUS
<1>1. TypeOK
  BY DEF IInv
<1>2. ASSUME NEW a \in Alerts, Raise(a)
      PROVE  IInv'
  <2>1. TypeOK'
    BY <1>1, <1>2 DEF Raise, TypeOK, loop, history, stops
  <2>2. QED
    BY <1>1, <1>2, <2>1, QuietStep DEF Raise, TypeOK, loop, history
<1>3. ASSUME NEW a \in Alerts, NEW r \in Answer, FirstAttempt(a, r)
      PROVE  IInv'
  BY <1>3, FirstAttemptStep
<1>4. ASSUME NEW a \in Alerts, Enqueue(a)
      PROVE  IInv'
  BY <1>4, EnqueueStep
<1>5. ASSUME NEW a \in Alerts, EnqueueFails(a)
      PROVE  IInv'
  <2>1. TypeOK'
    BY <1>1, <1>5 DEF EnqueueFails, TypeOK, loop, history, stops
  <2>2. QED
    BY <1>1, <1>5, <2>1, QuietStep DEF EnqueueFails, TypeOK, loop, history
<1>6. CASE Poll
  BY <1>6, PollStep
<1>7. ASSUME NEW e \in batch, NEW r \in Answer, Redeliver(e, r)
      PROVE  IInv'
  BY <1>7, RedeliverStep
<1>8. ASSUME NEW e \in batch, Record(e)
      PROVE  IInv'
  BY <1>8, RecordStep
<1>9. ASSUME NEW e \in batch, RecordFails(e)
      PROVE  IInv'
  BY <1>9, RecordFailsStep
<1>10. CASE Shutdown
  <2>1. TypeOK'
    BY <1>1, <1>10 DEF Shutdown, TypeOK, goroutines, loop, history
  <2>2. QED
    BY <1>10, <2>1, QuietStep DEF Shutdown, goroutines, loop, history
<1>11. CASE Exit \/ Crash
  <2>1. Halt /\ crashes' \in Nat
    BY <1>1, <1>11 DEF Exit, Crash, TypeOK
  <2>2. QED
    BY <2>1, HaltStep
<1>12. CASE Start
  <2>1. TypeOK'
    BY <1>1, <1>12 DEF Start, TypeOK, goroutines, loop, history, stops
  <2>2. QED
    BY <1>12, <2>1, QuietStep DEF Start, goroutines, loop, history
<1>13. CASE Tick
  <2>1. TypeOK'
    BY <1>1, <1>13 DEF Tick, TypeOK, goroutines, loop, history, stops
  <2>2. QED
    BY <1>13, <2>1, QuietStep DEF Tick, goroutines, loop, history
<1>14. CASE UNCHANGED vars
  <2>1. TypeOK'
    BY <1>1, <1>14 DEF vars, TypeOK, goroutines, loop, history, stops
  <2>2. QED
    BY <1>14, <2>1, QuietStep DEF vars, goroutines, loop, history
<1>15. QED
  BY <1>2, <1>3, <1>4, <1>5, <1>6, <1>7, <1>8, <1>9, <1>10, <1>11, <1>12, <1>13,
     <1>14 DEF Next, FirstTry, Retry

(* The inductive invariant holds of every behaviour. *)
LEMMA IInvHolds == Spec => []IInv
  BY InitIInv, NextIInv, PTL DEF Spec

(* Type correctness of the outbox, the goroutines and the loop. *)
THEOREM TypeCorrect == Spec => []TypeOK
<1>1. IInv => TypeOK
  BY DEF IInv
<1>2. QED
  BY <1>1, IInvHolds, PTL

(* Whatever crashes, shuts down or fails to be written, the rows the retry   *)
(* loop has yet to process are still pending and still as it read them.      *)
THEOREM SnapshotCurrent == Spec => []BatchIsCurrent
<1>1. IInv => BatchIsCurrent
  BY DEF IInv
<1>2. QED
  BY <1>1, IInvHolds, PTL

(* An alert is never queued twice. *)
THEOREM QueuedOnce == Spec => []OneRowPerAlert
<1>1. IInv => OneRowPerAlert
  BY DEF IInv
<1>2. QED
  BY <1>1, IInvHolds, PTL

(* Both: the retry loop has every alert to itself once it is queued. *)
THEOREM LoopAlone == Spec => []OutboxConsistent
<1>1. IInv => OutboxConsistent
  BY DEF IInv, OutboxConsistent
<1>2. QED
  BY <1>1, IInvHolds, PTL

(* An alert is dead-lettered only after alertMaxAttempts failed deliveries,  *)
(* however many restarts lie between them.                                   *)
THEOREM NoEarlyDeadLetter == Spec => []DeadLettersEarned
<1>1. IInv => DeadLettersEarned
  BY DEF IInv
<1>2. QED
  BY <1>1, IInvHolds, PTL

(* A delivered or dead row never changes again, though no update asks for    *)
(* the row's status: the loop only updates rows it holds as pending.         *)
THEOREM SettledForGood == Spec => SettledStays
<1> DEFINE Step(id) == outbox[id].status # "pending" => outbox'[id] = outbox[id]
<1>1. ASSUME IInv, [Next]_vars
      PROVE  [\A id \in DOMAIN outbox : Step(id)]_vars
  <2>1. ASSUME UNCHANGED outbox
        PROVE  \A id \in DOMAIN outbox : Step(id)
    BY <2>1
  <2>2. ASSUME NEW a \in Alerts, Enqueue(a)
        PROVE  \A id \in DOMAIN outbox : Step(id)
    BY <1>1, <2>2, EnqueueFacts DEF Enqueue, IInv, TypeOK
  <2>3. ASSUME NEW e \in batch, Record(e)
        PROVE  \A id \in DOMAIN outbox : Step(id)
    <3>1. e.id \in DOMAIN outbox /\ outbox[e.id].status = "pending"
      BY <1>1 DEF IInv, BatchIsCurrent
    <3>2. \A i \in DOMAIN outbox : i # e.id => outbox'[i] = outbox[i]
      <4>1. TypeOK /\ e.attempts + 1 \in Nat \ {0}
        BY <1>1, RowTypes DEF IInv
      <4>2. CASE MarkAlertDelivered(e.id)
        BY <3>1, <4>1, <4>2, DeliveredFacts DEF TypeOK
      <4>3. CASE MarkAlertFailed(e.id, e.attempts + 1)
        BY <3>1, <4>1, <4>3, FailedFacts DEF TypeOK
      <4>4. QED
        BY <2>3, <4>2, <4>3 DEF Record
    <3>3. QED
      BY <3>1, <3>2
  <2>4. QED
    BY <1>1, <2>1, <2>2, <2>3 DEF Next, vars, FirstTry, Retry, Raise, FirstAttempt,
       EnqueueFails, Poll, Redeliver, RecordFails, Shutdown, Exit, Crash, Halt,
       Start, Tick
<1>2. QED
  BY <1>1, IInvHolds, PTL DEF Spec, SettledStays
-------------------------------------------------------------------------------
(* Before its deadline, a call has brought its alert to every working target *)
(* whose turn is over.                                                       *)
Brought(a, c, have) ==
  ~ c.late => \A n \in 1 .. c.next - 1 :
                Notifiers[n] \in Healthy => <<a, Notifiers[n]>> \in have

CallsBring ==
  /\ \A a \in Alerts : Brought(a, attempt[a], received)
  /\ \A e \in batch : IsHead(e) => Brought(e.alert, redelivery, received)

(* A call that begins has brought nothing yet, and need not have. *)
LEMMA NothingBrought ==
  ASSUME NEW a, NEW have
  PROVE  Brought(a, NewCall, have)
  BY DEF Brought, NewCall

(* What was received stays received. *)
LEMMA BroughtStays ==
  ASSUME NEW a, NEW c, NEW have, NEW more, have \subseteq more, Brought(a, c, have)
  PROVE  Brought(a, c, more)
  BY DEF Brought

(* A working target accepts what reaches it before the deadline, though the  *)
(* targets before it refused or were slow.                                   *)
LEMMA NotifyBrings ==
  ASSUME NEW a \in Alerts, NEW c \in Call, ~ Over(c), NEW r \in Answer,
         Notify(a, c, r), Brought(a, c, received)
  PROVE  Brought(a, After(c, r), received')
<1> SUFFICES ASSUME ~ After(c, r).late, NEW n \in 1 .. After(c, r).next - 1,
                    Notifiers[n] \in Healthy
             PROVE  <<a, Notifiers[n]>> \in received'
  BY DEF Brought
<1>1. ~ r.late /\ n \in 1 .. c.next /\ c.next \in Nat
  BY DeliveryAssumption DEF After, Call
<1>2. r \in Answers(c) /\ received \subseteq received'
      /\ \A t \in Healthy : r.ok /\ t = Target(c) => <<a, t>> \in received'
  BY DEF Notify
<1>3. ~ c.late
  BY <1>1, <1>2 DEF Answers
<1>4. CASE n = c.next
  <2>1. Target(c) = Notifiers[n]
    BY <1>4 DEF Target
  <2>2. r.ok
    BY <1>1, <1>2, <2>1 DEF Answers
  <2>3. QED
    BY <1>2, <2>1, <2>2
<1>5. CASE n \in 1 .. c.next - 1
  BY <1>2, <1>3, <1>5 DEF Brought
<1>6. QED
  BY <1>1, <1>4, <1>5

(* A call that is over has tried every target. *)
LEMMA BroughtToAll ==
  ASSUME NEW a, NEW c \in Call, NEW have, Over(c), ~ c.late, Brought(a, c, have)
  PROVE  \A t \in Healthy : <<a, t>> \in have
<1> SUFFICES ASSUME NEW t \in Healthy
             PROVE  <<a, t>> \in have
  OBVIOUS
<1>1. PICK n \in 1 .. Len(Notifiers) : t = Notifiers[n]
  BY DeliveryAssumption DEF Targets
<1>2. n \in 1 .. c.next - 1
  BY DeliveryAssumption DEF Over, Call
<1>3. QED
  BY <1>1, <1>2 DEF Brought

(* Every call preserves it, be it a goroutine's or the loop's. *)
LEMMA NextBrings == IInv /\ CallsBring /\ [Next]_vars => CallsBring'
<1> SUFFICES ASSUME IInv, CallsBring, [Next]_vars
             PROVE  CallsBring'
  OBVIOUS
<1>1. TypeOK
  BY DEF IInv
<1>2. ASSUME NEW a \in Alerts, NEW r \in Answer, FirstAttempt(a, r)
      PROVE  CallsBring'
  <2> PICK c : c = After(attempt[a], r)
    OBVIOUS
  <2>1. /\ attempt[a] \in Call /\ ~ Over(attempt[a])
        /\ Notify(a, attempt[a], r)
        /\ \A b \in Alerts : b # a => attempt'[b] = attempt[b]
        /\ attempt'[a] = IF Over(c) THEN NewCall ELSE c
        /\ UNCHANGED <<batch, redelivery>>
    BY <1>1, <1>2, FirstAttemptFacts
  <2>2. received \subseteq received'
    BY <1>1, <2>1, NotifyFacts
  <2>3. Brought(a, c, received')
    BY <2>1, NotifyBrings DEF CallsBring
  <2>4. ASSUME NEW b \in Alerts
        PROVE  Brought(b, attempt'[b], received')
    <3>1. CASE b = a
      BY <2>1, <2>3, <3>1, NothingBrought
    <3>2. CASE b # a
      <4>1. Brought(b, attempt[b], received')
        BY <2>2, BroughtStays DEF CallsBring
      <4>2. QED
        BY <2>1, <3>2, <4>1
    <3>3. QED
      BY <3>1, <3>2
  <2>5. ASSUME NEW d \in batch, IsHead(d)
        PROVE  Brought(d.alert, redelivery, received')
    BY <2>2, <2>5, BroughtStays DEF CallsBring
  <2>6. QED
    BY <2>1, <2>4, <2>5 DEF CallsBring, IsHead
<1>3. ASSUME NEW e \in batch, NEW r \in Answer, Redeliver(e, r)
      PROVE  CallsBring'
  <2> PICK c : c = After(redelivery, r)
    OBVIOUS
  <2>1. /\ redelivery \in Call /\ ~ Over(redelivery)
        /\ e.alert \in Alerts /\ IsHead(e)
        /\ Notify(e.alert, redelivery, r)
        /\ redelivery' = c
        /\ UNCHANGED <<attempt, batch>>
    BY <1>1, <1>3, RedeliverFacts
  <2>2. received \subseteq received'
    BY <1>1, <2>1, NotifyFacts
  <2>3. Brought(e.alert, c, received')
    BY <2>1, NotifyBrings DEF CallsBring
  <2>4. ASSUME NEW b \in Alerts
        PROVE  Brought(b, attempt[b], received')
    BY <2>2, BroughtStays DEF CallsBring
  <2>5. \A d \in batch : IsHead(d) => d = e
    BY <1>1, <2>1, HeadUnique
  <2>6. \A d \in batch : IsHead(d) => Brought(d.alert, redelivery', received')
    BY <2>1, <2>3, <2>5
  <2>7. QED
    BY <2>1, <2>4, <2>6 DEF CallsBring, IsHead
<1>4. ASSUME UNCHANGED received,
             \/ UNCHANGED attempt
             \/ attempt' = [a \in Alerts |-> NewCall],
             \/ UNCHANGED <<batch, redelivery>>
             \/ redelivery' = NewCall
      PROVE  CallsBring'
  <2>1. ASSUME NEW a \in Alerts
        PROVE  Brought(a, attempt'[a], received')
    BY <1>4, NothingBrought DEF CallsBring
  <2>2. CASE UNCHANGED <<batch, redelivery>>
    BY <1>4, <2>1, <2>2 DEF CallsBring, IsHead
  <2>3. CASE redelivery' = NewCall
    <3>1. \A d \in batch' : Brought(d.alert, redelivery', received')
      BY <2>3, NothingBrought
    <3>2. QED
      BY <2>1, <3>1 DEF CallsBring
  <2>4. QED
    BY <1>4, <2>2, <2>3
<1>5. CASE Poll
  BY <1>4, <1>5 DEF Poll, IInv, LoopIdle, goroutines, history
<1>6. ASSUME \/ \E a \in Alerts : Raise(a) \/ Enqueue(a) \/ EnqueueFails(a)
             \/ \E e \in batch : Record(e) \/ RecordFails(e)
             \/ Shutdown \/ Exit \/ Crash \/ Start \/ Tick \/ UNCHANGED vars
      PROVE  CallsBring'
  BY <1>4, <1>6 DEF Raise, Enqueue, EnqueueFails, Record, RecordFails, NextInBatch,
     Shutdown, Exit, Crash, Halt, Start, Tick, vars, goroutines, loop, history
<1>7. QED
  BY <1>2, <1>3, <1>5, <1>6 DEF Next, FirstTry, Retry

(* A call of Notify that returns before its deadline has brought the alert   *)
(* to every working target, whichever others refused it and in whatever      *)
(* order they are configured: a goroutine's call, and the retry loop's.      *)
THEOREM BroughtInTime == Spec => ServedInTime
<1>1. Init => CallsBring
  BY NothingBrought DEF Init, CallsBring
<1>2. ASSUME IInv, CallsBring, NEW a \in Alerts, NEW r \in Answer,
             FirstAttempt(a, r), firstTry'[a] # "sending", ~ r.late
      PROVE  Served(a)'
  <2> PICK c : c = After(attempt[a], r)
    OBVIOUS
  <2>1. /\ c \in Call /\ attempt[a] \in Call /\ ~ Over(attempt[a])
        /\ Notify(a, attempt[a], r)
        /\ firstTry'[a] = "sending" <=> Result(c) = "none"
    BY <1>2, FirstAttemptFacts DEF IInv
  <2>2. Over(c) /\ ~ c.late
    BY <1>2, <2>1, ResultFacts DEF After
  <2>3. Brought(a, c, received')
    BY <1>2, <2>1, NotifyBrings DEF CallsBring
  <2>4. \A t \in Healthy : <<a, t>> \in received'
    BY <2>1, <2>2, <2>3, BroughtToAll
  <2>5. QED
    BY <2>4 DEF Served
<1>3. ASSUME IInv, CallsBring, NEW e \in batch, NEW r \in Answer,
             Redeliver(e, r), outcome' # "none", ~ r.late
      PROVE  Served(e.alert)'
  <2> PICK c : c = After(redelivery, r)
    OBVIOUS
  <2>1. /\ c \in Call /\ redelivery \in Call /\ ~ Over(redelivery)
        /\ e.alert \in Alerts /\ IsHead(e)
        /\ Notify(e.alert, redelivery, r)
        /\ outcome' = Result(c)
    BY <1>3, RedeliverFacts DEF IInv
  <2>2. Over(c) /\ ~ c.late
    BY <1>3, <2>1, ResultFacts DEF After
  <2>3. Brought(e.alert, c, received')
    BY <1>3, <2>1, NotifyBrings DEF CallsBring
  <2>4. \A t \in Healthy : <<e.alert, t>> \in received'
    BY <2>1, <2>2, <2>3, BroughtToAll
  <2>5. QED
    BY <2>4 DEF Served
<1>4. IInv /\ CallsBring =>
        [/\ \A a \in Alerts, r \in Answer :
              FirstAttempt(a, r) /\ firstTry'[a] # "sending" /\ ~ r.late => Served(a)'
         /\ \A e \in batch, r \in Answer :
              Redeliver(e, r) /\ outcome' # "none" /\ ~ r.late => Served(e.alert)']_vars
  BY <1>2, <1>3
<1>5. QED
  BY <1>1, <1>4, NextBrings, IInvHolds, PTL DEF Spec, ServedInTime

-------------------------------------------------------------------------------
(* What got through is out of everyone's hands, but for the row whose        *)
(* delivery is being recorded and those whose delivery never was.            *)
NotifiedIsSettled ==
  /\ \A a \in notified : firstTry[a] = "done"
  /\ \A id \in DOMAIN outbox :
       outbox[id].status = "pending" /\ outbox[id].alert \in notified \ unrecorded
         => \E e \in batch : IsHead(e) /\ e.id = id /\ outcome = "delivered"

(* A step that sends nothing and leaves the outbox and the loop alone. *)
LEMMA SettledUnchanged ==
  ASSUME NotifiedIsSettled, UNCHANGED <<outbox, batch, redelivery, notified, unrecorded>>,
         \A a \in notified : firstTry[a] = "done" => firstTry'[a] = "done"
  PROVE  NotifiedIsSettled'
  BY DEF NotifiedIsSettled, IsHead, outcome

(* A first attempt is about an alert that is not queued yet. *)
LEMMA SettledFirstAttempt ==
  ASSUME IInv, NotifiedIsSettled, NEW a \in Alerts, NEW r \in Answer,
         FirstAttempt(a, r)
  PROVE  NotifiedIsSettled'
<1> PICK c : c = After(attempt[a], r)
  OBVIOUS
<1>1. /\ TypeOK /\ firstTry[a] = "sending" /\ Notify(a, attempt[a], r)
      /\ \A b \in Alerts : b # a => firstTry'[b] = firstTry[b]
      /\ firstTry'[a] = "done" <=> Result(c) = "delivered"
      /\ UNCHANGED <<outbox, batch, redelivery>>
  BY FirstAttemptFacts DEF IInv
<1>2. /\ notified' = IF Result(c) = "delivered" THEN notified \cup {a} ELSE notified
      /\ unrecorded' = unrecorded
  BY <1>1, NotifyFacts
<1>3. a \notin notified /\ notified \subseteq Alerts
  BY <1>1 DEF NotifiedIsSettled, TypeOK
<1>4. \A b \in notified' : firstTry'[b] = "done"
  BY <1>1, <1>2, <1>3 DEF NotifiedIsSettled
<1>5. \A id \in DOMAIN outbox : outbox[id].alert # a
  BY <1>1 DEF IInv, RowsAreHandedOver
<1>6. QED
  BY <1>1, <1>2, <1>4, <1>5 DEF NotifiedIsSettled, IsHead, outcome

(* Only alerts whose first attempt failed are queued. *)
LEMMA SettledEnqueue ==
  ASSUME IInv, NotifiedIsSettled, NEW a \in Alerts, Enqueue(a)
  PROVE  NotifiedIsSettled'
<1>1. /\ TypeOK /\ firstTry[a] = "failed" /\ EnqueueAlert(a)
      /\ firstTry' = [firstTry EXCEPT ![a] = "done"]
      /\ UNCHANGED <<batch, redelivery, notified, unrecorded>>
  BY DEF IInv, Enqueue, loop, history
<1> DEFINE id == Len(outbox) + 1
<1>2. /\ DOMAIN outbox' = DOMAIN outbox \cup {id}
      /\ \A i \in DOMAIN outbox : outbox'[i] = outbox[i]
      /\ outbox'[id].alert = a
  BY <1>1, EnqueueFacts DEF TypeOK
<1> HIDE DEF id
<1>3. a \notin notified
  BY <1>1 DEF NotifiedIsSettled
<1>4. \A b \in notified : firstTry'[b] = "done"
  BY <1>1 DEF NotifiedIsSettled, TypeOK
<1>5. QED
  BY <1>1, <1>2, <1>3, <1>4 DEF NotifiedIsSettled, IsHead, outcome

(* A batch is read when no outcome waits to be recorded. *)
LEMMA SettledPoll ==
  ASSUME NotifiedIsSettled, Poll
  PROVE  NotifiedIsSettled'
<1>1. batch = {} /\ UNCHANGED <<outbox, firstTry, notified, unrecorded>>
  BY DEF Poll, goroutines, history
<1>2. QED
  BY <1>1 DEF NotifiedIsSettled

(* The row of the alert that got through is the head of the batch. *)
LEMMA SettledRedeliver ==
  ASSUME IInv, NotifiedIsSettled, NEW e \in batch, NEW r \in Answer, Redeliver(e, r)
  PROVE  NotifiedIsSettled'
<1> PICK c : c = After(redelivery, r)
  OBVIOUS
<1>1. /\ TypeOK /\ IsHead(e) /\ outcome = "none" /\ Notify(e.alert, redelivery, r)
      /\ outcome' = Result(c)
      /\ UNCHANGED <<outbox, firstTry, batch>>
  BY RedeliverFacts DEF IInv
<1>2. /\ e.alert \in Alerts
      /\ e.id \in DOMAIN outbox
      /\ outbox[e.id].alert = e.alert
  BY <1>1, RowTypes DEF IInv, BatchIsCurrent, Entry
<1>3. /\ notified' = IF Result(c) = "delivered"
                     THEN notified \cup {e.alert} ELSE notified
      /\ unrecorded' = unrecorded
  BY <1>1, <1>2, NotifyFacts
<1>4. \A b \in notified' : firstTry'[b] = "done"
  BY <1>1, <1>2, <1>3 DEF NotifiedIsSettled, IInv, RowsAreHandedOver
<1>5. ASSUME NEW id \in DOMAIN outbox, outbox[id].status = "pending",
             outbox[id].alert \in notified' \ unrecorded
      PROVE  e.id = id /\ outcome' = "delivered"
  <2>1. outbox[id].alert \notin notified
    BY <1>1, <1>5 DEF NotifiedIsSettled
  <2>2. outbox[id].alert = e.alert /\ Result(c) = "delivered"
    BY <1>3, <1>5, <2>1
  <2>3. id = e.id
    BY <1>2, <2>2 DEF IInv, OneRowPerAlert
  <2>4. QED
    BY <1>1, <2>2, <2>3
<1>6. IsHead(e)'
  BY <1>1 DEF IsHead
<1>7. QED
  BY <1>1, <1>3, <1>4, <1>5, <1>6 DEF NotifiedIsSettled

(* Recording settles the row whose alert got through. *)
LEMMA SettledRecord ==
  ASSUME IInv, NotifiedIsSettled, NEW e \in batch, Record(e)
  PROVE  NotifiedIsSettled'
<1>1. /\ TypeOK /\ IsHead(e) /\ UNCHANGED <<firstTry, notified, unrecorded>>
      /\ \/ outcome = "delivered" /\ MarkAlertDelivered(e.id)
         \/ outcome = "failed" /\ MarkAlertFailed(e.id, e.attempts + 1)
  BY DEF IInv, Record, NextInBatch, goroutines
<1>2. /\ e.id \in DOMAIN outbox
      /\ e.attempts + 1 \in Nat \ {0}
      /\ outbox[e.id].status = "pending"
  BY <1>1, RowTypes DEF IInv, BatchIsCurrent
<1>3. \A id \in DOMAIN outbox :
        outbox[id].status = "pending" /\ outbox[id].alert \in notified \ unrecorded
          => id = e.id /\ outcome = "delivered"
  BY <1>1, HeadUnique DEF NotifiedIsSettled
<1>4. /\ DOMAIN outbox' = DOMAIN outbox
      /\ \A id \in DOMAIN outbox : id # e.id => outbox'[id] = outbox[id]
      /\ outbox'[e.id].alert = outbox[e.id].alert
      /\ outcome = "delivered" => outbox'[e.id].status = "delivered"
  <2>1. CASE outcome = "delivered" /\ MarkAlertDelivered(e.id)
    BY <1>1, <1>2, <2>1, DeliveredFacts DEF TypeOK
  <2>2. CASE outcome = "failed" /\ MarkAlertFailed(e.id, e.attempts + 1)
    BY <1>1, <1>2, <2>2, FailedFacts DEF TypeOK
  <2>3. QED
    BY <1>1, <2>1, <2>2
<1>5. \A id \in DOMAIN outbox' :
        ~ (outbox'[id].status = "pending" /\ outbox'[id].alert \in notified \ unrecorded)
  BY <1>2, <1>3, <1>4
<1>6. QED
  BY <1>1, <1>5 DEF NotifiedIsSettled

(* An outcome that is forgotten is remembered as never recorded. *)
LEMMA SettledForget ==
  ASSUME NotifiedIsSettled, BatchIsCurrent, TypeOK, ForgetOutcome,
         UNCHANGED <<outbox, notified>>,
         \A a \in notified : firstTry[a] = "done" => firstTry'[a] = "done"
  PROVE  NotifiedIsSettled'
<1>1. ASSUME NEW id \in DOMAIN outbox, outbox[id].status = "pending",
             outbox[id].alert \in notified \ unrecorded'
      PROVE  FALSE
  <2>1. outbox[id].alert \in notified \ unrecorded
    BY <1>1, ForgetFacts
  <2>2. PICK e \in batch : IsHead(e) /\ e.id = id /\ outcome = "delivered"
    BY <1>1, <2>1 DEF NotifiedIsSettled
  <2>3. e.alert = outbox[id].alert
    BY <2>2 DEF BatchIsCurrent, Entry
  <2>4. e.alert \in unrecorded'
    BY <2>2, ForgetFacts
  <2>5. QED
    BY <1>1, <2>3, <2>4
<1>2. \A a \in notified' : firstTry'[a] = "done"
  BY DEF NotifiedIsSettled
<1>3. QED
  BY <1>1, <1>2 DEF NotifiedIsSettled

(* Every step of the server keeps settled what got through. *)
LEMMA NextSettled == IInv /\ NotifiedIsSettled /\ [Next]_vars => NotifiedIsSettled'
<1> SUFFICES ASSUME IInv, NotifiedIsSettled, [Next]_vars
             PROVE  NotifiedIsSettled'
  OBVIOUS
<1>1. TypeOK /\ BatchIsCurrent /\ notified \subseteq Alerts
  BY DEF IInv, TypeOK
<1>2. ASSUME NEW a \in Alerts, Raise(a) \/ EnqueueFails(a)
      PROVE  NotifiedIsSettled'
  <2>1. UNCHANGED <<outbox, batch, redelivery, notified, unrecorded>>
    BY <1>2 DEF Raise, EnqueueFails, loop, history
  <2>2. \A b \in notified : firstTry[b] = "done" => firstTry'[b] = "done"
    BY <1>1, <1>2 DEF Raise, EnqueueFails, TypeOK
  <2>3. QED
    BY <2>1, <2>2, SettledUnchanged
<1>3. ASSUME NEW e \in batch, RecordFails(e)
      PROVE  NotifiedIsSettled'
  <2>1. ForgetOutcome /\ UNCHANGED <<outbox, notified, firstTry>>
    BY <1>3 DEF RecordFails, NextInBatch, goroutines
  <2>2. QED
    BY <1>1, <2>1, SettledForget
<1>4. CASE Exit \/ Crash
  <2>1. ForgetOutcome /\ UNCHANGED <<outbox, notified>>
    BY <1>4 DEF Exit, Crash, Halt
  <2>2. \A b \in notified : firstTry[b] = "done" => firstTry'[b] = "done"
    BY <1>1, <1>4 DEF Exit, Crash, Halt
  <2>3. QED
    BY <1>1, <2>1, <2>2, SettledForget
<1>5. CASE Shutdown \/ Start \/ Tick \/ UNCHANGED vars
  <2>1. UNCHANGED <<outbox, firstTry, batch, redelivery, notified, unrecorded>>
    BY <1>5 DEF Shutdown, Start, Tick, vars, goroutines, loop, history
  <2>2. QED
    BY <2>1, SettledUnchanged
<1>6. QED
  BY <1>2, <1>3, <1>4, <1>5, SettledFirstAttempt, SettledEnqueue, SettledPoll,
     SettledRedeliver, SettledRecord DEF Next, FirstTry, Retry

(* The retry loop sends no alert that got through, unless that could not be  *)
(* recorded: MarkAlertDelivered comes before the next poll, and a stop or a  *)
(* failed write is the only way round it.                                    *)
THEOREM SuccessIsFinal == Spec => SuccessNotRepeated
<1>1. Init => NotifiedIsSettled
  BY DEF Init, NotifiedIsSettled
<1>2. ASSUME IInv, NotifiedIsSettled, NEW e \in batch, NEW r \in Answer, Redeliver(e, r)
      PROVE  e.alert \notin notified \ unrecorded
  BY <1>2 DEF IInv, NotifiedIsSettled, BatchIsCurrent, Entry, Redeliver
<1>3. IInv /\ NotifiedIsSettled =>
        [\A e \in batch, r \in Answer :
           Redeliver(e, r) => e.alert \notin notified \ unrecorded]_vars
  BY <1>2
<1>4. QED
  BY <1>1, <1>3, NextSettled, IInvHolds, PTL DEF Spec, SuccessNotRepeated

-------------------------------------------------------------------------------
(***************************************************************************)
(* AlertDelivery implements AlertSpec: each of its steps is, seen through  *)
(* Stage, one step of an alert, a loss that AlertSpec allows, or nothing.  *)
(***************************************************************************)

(* An alert got through exactly when the code has reason to think so. *)
NotifiedKnown ==
  /\ \A a \in Alerts : firstTry[a] # "done" => a \notin notified
  /\ \A a \in Alerts : firstTry[a] = "done" /\ RowsOf(a) = {} => a \in notified
  /\ \A id \in DOMAIN outbox :
       outbox[id].status = "delivered" => outbox[id].alert \in notified
  /\ outcome = "delivered" =>
       \A e \in batch : IsHead(e) => e.alert \in notified

(* A server is stopping only if it may be shut down. *)
StoppingAllowed == server = "stopping" => MaxShutdowns > 0

RInv == IInv /\ NotifiedKnown /\ StoppingAllowed

stageMap == [a \in Alerts |-> Stage(a)]

-------------------------------------------------------------------------------
(* The strengthening holds initially. *)
LEMMA InitRInv == Init => RInv
  BY InitIInv DEF Init, RInv, NotifiedKnown, StoppingAllowed

(* NotifiedKnown is preserved by steps that leave the outbox alone and end   *)
(* no goroutine without a word.                                              *)
LEMMA QuietNotified ==
  ASSUME RInv, UNCHANGED <<outbox, notified>>,
         \A a \in Alerts : firstTry'[a] = "done" <=> firstTry[a] = "done",
         \/ UNCHANGED <<batch, redelivery>>
         \/ outcome' = "none"
  PROVE  NotifiedKnown'
<1>1. outcome' = "none" \/ (outcome' = outcome /\ batch' = batch)
  BY DEF outcome
<1>2. QED
  BY <1>1 DEF RInv, NotifiedKnown, RowsOf, IsHead

(* NotifiedKnown is preserved by every step. *)
LEMMA NextNotified == RInv /\ [Next]_vars => NotifiedKnown'
<1> SUFFICES ASSUME RInv, [Next]_vars
             PROVE  NotifiedKnown'
  OBVIOUS
<1>1. TypeOK /\ IInv /\ NotifiedKnown
  BY DEF RInv, IInv
<1>2. ASSUME NEW a \in Alerts, Raise(a)
      PROVE  NotifiedKnown'
  BY <1>1, <1>2, QuietNotified DEF Raise, TypeOK, loop, history
<1>3. ASSUME NEW a \in Alerts, NEW r \in Answer, FirstAttempt(a, r)
      PROVE  NotifiedKnown'
  <2> PICK c : c = After(attempt[a], r)
    OBVIOUS
  <2>1. /\ firstTry[a] = "sending" /\ Notify(a, attempt[a], r)
        /\ \A b \in Alerts : b # a => firstTry'[b] = firstTry[b]
        /\ firstTry'[a] = "done" <=> Result(c) = "delivered"
        /\ UNCHANGED <<outbox, batch, redelivery>>
    BY <1>1, <1>3, FirstAttemptFacts
  <2>2. notified' = IF Result(c) = "delivered" THEN notified \cup {a} ELSE notified
    BY <1>1, <2>1, NotifyFacts
  <2>3. CASE Result(c) = "delivered"
    BY <1>1, <2>1, <2>2, <2>3 DEF NotifiedKnown, RowsOf, IsHead, outcome
  <2>4. CASE Result(c) # "delivered"
    BY <1>1, <2>1, <2>2, <2>4, QuietNotified
  <2>5. QED
    BY <2>3, <2>4
<1>4. ASSUME NEW a \in Alerts, Enqueue(a)
      PROVE  NotifiedKnown'
  <2>1. /\ firstTry[a] = "failed" /\ firstTry' = [firstTry EXCEPT ![a] = "done"]
        /\ UNCHANGED <<batch, redelivery, notified>>
    BY <1>4 DEF Enqueue, loop, history
  <2> DEFINE id == Len(outbox) + 1
  <2>2. /\ DOMAIN outbox' = DOMAIN outbox \cup {id}
        /\ \A i \in DOMAIN outbox : outbox'[i] = outbox[i]
        /\ outbox'[id].alert = a
        /\ outbox'[id].status = "pending"
    BY <1>1, <1>4, EnqueueFacts DEF Enqueue, TypeOK
  <2> HIDE DEF id
  <2>3. \A b \in Alerts : RowsOf(b) \subseteq RowsOf(b)'
    BY <2>2 DEF RowsOf
  <2>4. RowsOf(a)' # {}
    BY <2>2 DEF RowsOf
  <2>5. \A b \in Alerts : firstTry'[b] # "done" => b \notin notified
    BY <1>1, <2>1 DEF NotifiedKnown, TypeOK
  <2>6. \A b \in Alerts : firstTry'[b] = "done" /\ RowsOf(b)' = {} => b \in notified
    BY <1>1, <2>1, <2>3, <2>4 DEF NotifiedKnown, TypeOK
  <2>7. \A i \in DOMAIN outbox' :
          outbox'[i].status = "delivered" => outbox'[i].alert \in notified
    BY <1>1, <2>2 DEF NotifiedKnown
  <2>8. QED
    BY <1>1, <2>1, <2>5, <2>6, <2>7 DEF NotifiedKnown, IsHead, outcome
<1>5. ASSUME NEW a \in Alerts, EnqueueFails(a)
      PROVE  NotifiedKnown'
  BY <1>1, <1>5, QuietNotified DEF EnqueueFails, TypeOK, loop, history
<1>6. CASE Poll
  BY <1>1, <1>6, QuietNotified, NewCallFacts DEF Poll, IInv, LoopIdle, goroutines,
     history, outcome
<1>7. ASSUME NEW e \in batch, NEW r \in Answer, Redeliver(e, r)
      PROVE  NotifiedKnown'
  <2> PICK c : c = After(redelivery, r)
    OBVIOUS
  <2>1. /\ e.alert \in Alerts /\ IsHead(e) /\ Notify(e.alert, redelivery, r)
        /\ outcome' = Result(c)
        /\ UNCHANGED <<outbox, firstTry, batch>>
    BY <1>1, <1>7, RedeliverFacts
  <2>2. notified' = IF Result(c) = "delivered"
                    THEN notified \cup {e.alert} ELSE notified
    BY <1>1, <2>1, NotifyFacts
  <2>3. \A d \in batch : IsHead(d) => d = e
    BY <1>1, <2>1, HeadUnique
  <2>4. firstTry[e.alert] = "done"
    BY <1>1 DEF IInv, BatchIsCurrent, Entry, RowsAreHandedOver
  <2>5. QED
    BY <1>1, <2>1, <2>2, <2>3, <2>4 DEF NotifiedKnown, RowsOf, IsHead
<1>8. ASSUME NEW e \in batch, Record(e)
      PROVE  NotifiedKnown'
  <2>1. /\ IsHead(e) /\ outcome' = "none" /\ UNCHANGED <<firstTry, notified>>
        /\ \/ outcome = "delivered" /\ MarkAlertDelivered(e.id)
           \/ outcome = "failed" /\ MarkAlertFailed(e.id, e.attempts + 1)
    BY <1>8, NewCallFacts DEF Record, NextInBatch, goroutines, outcome
  <2>2. /\ e.id \in DOMAIN outbox /\ outbox[e.id].alert = e.alert
        /\ outbox[e.id].status = "pending"
    BY <1>1 DEF IInv, BatchIsCurrent, Entry
  <2>3. e.attempts + 1 \in Nat \ {0}
    BY <1>1, RowTypes
  <2>4. /\ DOMAIN outbox' = DOMAIN outbox
        /\ \A i \in DOMAIN outbox : i # e.id => outbox'[i] = outbox[i]
        /\ outbox'[e.id].alert = e.alert
        /\ outbox'[e.id].status = "delivered" => outcome = "delivered"
    <3>1. CASE outcome = "delivered" /\ MarkAlertDelivered(e.id)
      BY <1>1, <2>2, <3>1, DeliveredFacts DEF TypeOK
    <3>2. CASE outcome = "failed" /\ MarkAlertFailed(e.id, e.attempts + 1)
      BY <1>1, <2>2, <2>3, <3>2, FailedFacts DEF TypeOK
    <3>3. QED
      BY <2>1, <3>1, <3>2
  <2>5. \A b \in Alerts : RowsOf(b)' = RowsOf(b)
    BY <2>2, <2>4 DEF RowsOf
  <2>6. QED
    BY <1>1, <2>1, <2>4, <2>5 DEF NotifiedKnown
<1>9. ASSUME NEW e \in batch, RecordFails(e)
      PROVE  NotifiedKnown'
  BY <1>1, <1>9, QuietNotified, NewCallFacts DEF RecordFails, NextInBatch, goroutines,
     outcome
<1>10. CASE Shutdown \/ Start \/ Tick \/ UNCHANGED vars
  BY <1>1, <1>10, QuietNotified DEF Shutdown, Start, Tick, vars, goroutines, loop,
     history
<1>11. CASE Exit \/ Crash
  <2>1. /\ outcome' = "none" /\ UNCHANGED <<outbox, notified>>
        /\ firstTry' = [a \in Alerts |-> IF firstTry[a] \in {"sending", "failed"}
                                         THEN "lost" ELSE firstTry[a]]
    BY <1>11, NewCallFacts DEF Exit, Crash, Halt, outcome
  <2>2. QED
    BY <2>1, QuietNotified
<1>12. QED
  BY <1>2, <1>3, <1>4, <1>5, <1>6, <1>7, <1>8, <1>9, <1>10, <1>11
     DEF Next, FirstTry, Retry

(* The strengthened invariant holds of every behaviour. *)
LEMMA RInvHolds == Spec => []RInv
<1>1. RInv /\ [Next]_vars => StoppingAllowed'
  BY DeliveryAssumption DEF RInv, IInv, TypeOK, StoppingAllowed, Next, vars, FirstTry,
     Retry, Raise, FirstAttempt, Enqueue, EnqueueFails, Poll, Redeliver, Record,
     RecordFails, NextInBatch, Shutdown, Exit, Crash, Halt, Start, Tick
<1>2. RInv /\ [Next]_vars => RInv'
  BY <1>1, NextIInv, NextNotified DEF RInv
<1>3. QED
  BY InitRInv, <1>2, PTL DEF Spec

-------------------------------------------------------------------------------
(* An alert whose goroutine, rows and deliveries do not change keeps its     *)
(* stage.                                                                    *)
LEMMA SameStage ==
  ASSUME NEW a \in Alerts, firstTry'[a] = firstTry[a],
         a \in notified' <=> a \in notified,
         RowsOf(a)' = RowsOf(a),
         \A id \in RowsOf(a) : (outbox'[id].status = "dead" <=> outbox[id].status = "dead")
  PROVE  Stage(a)' = Stage(a)
  BY DEF Stage

(* A step of one alert from a stage to another is the abstract one. *)
LEMMA OneMoves ==
  ASSUME NEW a \in Alerts, NEW from, NEW to, Stage(a) \in from, Stage(a)' = to,
         \A b \in Alerts : b # a => Stage(b)' = Stage(b)
  PROVE  Promise!Move(a, from, to)
  BY DEF Promise!Move

(* A step in which no alert moves is a stuttering step of AlertSpec. *)
LEMMA NoneMoves ==
  ASSUME \A a \in Alerts : Stage(a)' = Stage(a)
  PROVE  UNCHANGED stageMap
  BY DEF stageMap

(* Raising an alert is Raise. *)
LEMMA RaiseMaps ==
  ASSUME RInv, NEW a \in Alerts, Raise(a)
  PROVE  Promise!Raise(a)
<1>1. /\ firstTry[a] = "none" /\ firstTry' = [firstTry EXCEPT ![a] = "sending"]
      /\ UNCHANGED <<outbox, notified>> /\ TypeOK
  BY DEF Raise, history, RInv, IInv
<1>2. RowsOf(a) = {} /\ a \notin notified /\ RowsOf(a)' = {}
  BY <1>1 DEF RInv, IInv, RowsAreHandedOver, RowsOf, NotifiedKnown
<1>3. Stage(a) = "none" /\ Stage(a)' = "raised"
  BY <1>1, <1>2 DEF Stage, TypeOK
<1>4. ASSUME NEW b \in Alerts, b # a
      PROVE  Stage(b)' = Stage(b)
  BY <1>1, <1>4, SameStage DEF RowsOf, TypeOK
<1>5. QED
  BY <1>3, <1>4, OneMoves DEF Promise!Raise

(* A first attempt that succeeds is Deliver; one that fails, or has targets  *)
(* to come, shows nothing.                                                   *)
LEMMA FirstAttemptMaps ==
  ASSUME RInv, NEW a \in Alerts, NEW r \in Answer, FirstAttempt(a, r)
  PROVE  Promise!Deliver(a) \/ UNCHANGED stageMap
<1> PICK c : c = After(attempt[a], r)
  OBVIOUS
<1>1. /\ TypeOK /\ firstTry[a] = "sending" /\ Notify(a, attempt[a], r)
      /\ \A b \in Alerts : b # a => firstTry'[b] = firstTry[b]
      /\ firstTry'[a] \in {"sending", "failed", "done"}
      /\ firstTry'[a] = "done" <=> Result(c) = "delivered"
      /\ UNCHANGED outbox
  BY FirstAttemptFacts DEF RInv, IInv
<1>2. notified' = IF Result(c) = "delivered" THEN notified \cup {a} ELSE notified
  BY <1>1, NotifyFacts
<1>3. RowsOf(a) = {} /\ a \notin notified /\ RowsOf(a)' = {}
  BY <1>1 DEF RInv, IInv, RowsAreHandedOver, RowsOf, NotifiedKnown
<1>4. Stage(a) = "raised"
  BY <1>1, <1>3 DEF Stage
<1>5. ASSUME NEW b \in Alerts, b # a
      PROVE  Stage(b)' = Stage(b)
  BY <1>1, <1>2, <1>5, SameStage DEF RowsOf
<1>6. CASE Result(c) = "delivered"
  <2>1. Stage(a)' = "delivered"
    BY <1>2, <1>6 DEF Stage
  <2>2. QED
    BY <2>1, <1>4, <1>5, OneMoves DEF Promise!Deliver
<1>7. CASE Result(c) # "delivered"
  <2>1. Stage(a)' = "raised"
    BY <1>1, <1>2, <1>3, <1>7 DEF Stage
  <2>2. QED
    BY <2>1, <1>4, <1>5, NoneMoves
<1>8. QED
  BY <1>6, <1>7

(* Enqueueing an alert is Queue. *)
LEMMA EnqueueMaps ==
  ASSUME RInv, NEW a \in Alerts, Enqueue(a)
  PROVE  Promise!Queue(a)
<1>1. /\ firstTry[a] = "failed" /\ firstTry' = [firstTry EXCEPT ![a] = "done"]
      /\ UNCHANGED notified /\ TypeOK /\ EnqueueAlert(a)
  BY DEF Enqueue, history, RInv, IInv
<1> DEFINE id == Len(outbox) + 1
<1>2. /\ id \notin DOMAIN outbox
      /\ DOMAIN outbox' = DOMAIN outbox \cup {id}
      /\ \A i \in DOMAIN outbox : outbox'[i] = outbox[i]
      /\ outbox'[id].alert = a
      /\ outbox'[id].status = "pending"
  BY <1>1, EnqueueFacts DEF TypeOK
<1> HIDE DEF id
<1>3. RowsOf(a) = {} /\ a \notin notified
  BY <1>1 DEF RInv, IInv, RowsAreHandedOver, RowsOf, NotifiedKnown
<1>4. Stage(a) = "raised"
  BY <1>1, <1>3 DEF Stage
<1>5. RowsOf(a)' = {id}
  BY <1>2, <1>3 DEF RowsOf
<1>6. Stage(a)' = "queued"
  BY <1>1, <1>2, <1>3, <1>5 DEF Stage
<1>7. ASSUME NEW b \in Alerts, b # a
      PROVE  Stage(b)' = Stage(b)
  <2>1. RowsOf(b)' = RowsOf(b)
    BY <1>2, <1>7 DEF RowsOf
  <2>2. QED
    BY <1>1, <1>2, <1>7, <2>1, SameStage DEF RowsOf, TypeOK
<1>8. QED
  BY <1>4, <1>6, <1>7, OneMoves DEF Promise!Queue

(* Goroutines that end without a word lose their alerts, all at once.        *)
LEMMA LossMaps ==
  ASSUME RInv, NEW S \in SUBSET Alerts, UNCHANGED <<outbox, notified>>,
         \A a \in S : firstTry[a] \in {"sending", "failed"},
         firstTry' = [a \in Alerts |-> IF a \in S THEN "lost" ELSE firstTry[a]],
         WriteFaults \/ MaxCrashes + MaxShutdowns > 0
  PROVE  Promise!Lose(S)
<1>1. \A a \in Alerts : RowsOf(a)' = RowsOf(a)
  BY DEF RowsOf
<1>2. ASSUME NEW a \in S
      PROVE  Stage(a) = "raised" /\ Stage(a)' = "lost"
  <2>1. RowsOf(a) = {} /\ a \notin notified
    BY <1>2 DEF RInv, IInv, RowsAreHandedOver, RowsOf, NotifiedKnown
  <2>2. QED
    BY <1>1, <1>2, <2>1 DEF Stage
<1>3. ASSUME NEW b \in Alerts, b \notin S
      PROVE  Stage(b)' = Stage(b)
  BY <1>1, <1>3, SameStage DEF RowsOf
<1>4. [a \in Alerts |-> Stage(a)]' =
        [a \in Alerts |-> IF a \in S THEN "lost" ELSE [b \in Alerts |-> Stage(b)][a]]
  BY <1>2, <1>3
<1>5. \A a \in S : [b \in Alerts |-> Stage(b)][a] = "raised"
  BY <1>2
<1>6. QED
  BY <1>4, <1>5 DEF Promise!Lose

(* A retry that gets through is Deliver, the first time; otherwise nothing   *)
(* shows.                                                                    *)
LEMMA RedeliverMaps ==
  ASSUME RInv, NEW e \in batch, NEW r \in Answer, Redeliver(e, r)
  PROVE  Promise!Deliver(e.alert) \/ UNCHANGED stageMap
<1> PICK c : c = After(redelivery, r)
  OBVIOUS
<1>1. /\ TypeOK /\ e.alert \in Alerts /\ Notify(e.alert, redelivery, r)
      /\ UNCHANGED <<outbox, firstTry>>
  BY RedeliverFacts DEF RInv, IInv
<1>2. notified' = IF Result(c) = "delivered"
                  THEN notified \cup {e.alert} ELSE notified
  BY <1>1, NotifyFacts
<1>3. /\ e.id \in DOMAIN outbox /\ outbox[e.id].alert = e.alert
      /\ outbox[e.id].status = "pending" /\ e.alert \in Alerts
  BY RowTypes DEF RInv, IInv, BatchIsCurrent, Entry
<1>4. RowsOf(e.alert) = {e.id}
  BY <1>3 DEF RInv, IInv, OneRowPerAlert, RowsOf
<1>6. ASSUME NEW b \in Alerts, b # e.alert
      PROVE  Stage(b)' = Stage(b)
  BY <1>1, <1>2, <1>6, SameStage DEF RowsOf
<1>7. CASE Result(c) = "delivered" /\ e.alert \notin notified
  <2>1. Stage(e.alert)' = "delivered"
    BY <1>2, <1>7 DEF Stage
  <2>2. Stage(e.alert) = "queued"
    BY <1>3, <1>4, <1>7 DEF Stage
  <2>3. QED
    BY <2>1, <2>2, <1>3, <1>6, OneMoves DEF Promise!Deliver
<1>8. CASE Result(c) # "delivered" \/ e.alert \in notified
  <2>1. Stage(e.alert)' = Stage(e.alert)
    BY <1>1, <1>2, <1>3, <1>8, SameStage DEF RowsOf
  <2>2. QED
    BY <2>1, <1>6, NoneMoves
<1>9. QED
  BY <1>7, <1>8

(* Recording the last failure of an alert nobody got is GiveUp; recording    *)
(* anything else shows nothing.                                              *)
LEMMA RecordMaps ==
  ASSUME RInv, NEW e \in batch, Record(e)
  PROVE  Promise!GiveUp(e.alert) \/ UNCHANGED stageMap
<1>1. /\ IsHead(e) /\ UNCHANGED <<firstTry, notified>> /\ TypeOK
      /\ \/ outcome = "delivered" /\ MarkAlertDelivered(e.id)
         \/ outcome = "failed" /\ MarkAlertFailed(e.id, e.attempts + 1)
  BY DEF Record, NextInBatch, goroutines, RInv, IInv
<1>2. /\ e.id \in DOMAIN outbox /\ outbox[e.id].alert = e.alert
      /\ outbox[e.id].status = "pending" /\ e.alert \in Alerts
      /\ e.attempts + 1 \in Nat \ {0}
  BY RowTypes DEF RInv, IInv, BatchIsCurrent, Entry
<1>3. /\ DOMAIN outbox' = DOMAIN outbox
      /\ \A i \in DOMAIN outbox : i # e.id => outbox'[i] = outbox[i]
      /\ outbox'[e.id].alert = e.alert
      /\ outbox'[e.id].status = "dead" => outcome = "failed"
  <2>1. CASE outcome = "delivered" /\ MarkAlertDelivered(e.id)
    BY <1>1, <1>2, <2>1, DeliveredFacts DEF TypeOK
  <2>2. CASE outcome = "failed" /\ MarkAlertFailed(e.id, e.attempts + 1)
    BY <1>1, <1>2, <2>2, FailedFacts DEF TypeOK
  <2>3. QED
    BY <1>1, <2>1, <2>2
<1>4. \A b \in Alerts : RowsOf(b)' = RowsOf(b)
  BY <1>2, <1>3 DEF RowsOf
<1>5. RowsOf(e.alert) = {e.id}
  BY <1>2 DEF RInv, IInv, OneRowPerAlert, RowsOf
<1>6. ASSUME NEW b \in Alerts, b # e.alert
      PROVE  Stage(b)' = Stage(b)
  <2>1. \A id \in RowsOf(b) : id # e.id /\ id \in DOMAIN outbox
    BY <1>2, <1>6 DEF RowsOf
  <2>2. QED
    BY <1>1, <1>3, <1>4, <2>1, SameStage
<1>7. CASE outbox'[e.id].status = "dead" /\ e.alert \notin notified
  <2>1. Stage(e.alert) = "queued" /\ Stage(e.alert)' = "dead"
    BY <1>1, <1>2, <1>4, <1>5, <1>7 DEF Stage
  <2>2. QED
    BY <2>1, <1>2, <1>6, OneMoves DEF Promise!GiveUp
<1>8. CASE outbox'[e.id].status # "dead" \/ e.alert \in notified
  <2>1. Stage(e.alert)' = Stage(e.alert)
    BY <1>1, <1>2, <1>4, <1>5, <1>8 DEF Stage
  <2>2. QED
    BY <2>1, <1>6, NoneMoves
<1>9. QED
  BY <1>7, <1>8

-------------------------------------------------------------------------------
(* Alert delivery keeps AlertSpec's promise, whatever the numbers of alerts, *)
(* targets, attempts, crashes and shutdowns: a queued alert is never lost,   *)
(* and an alert is lost at all only where the server may stop or a write to  *)
(* the outbox fail.                                                          *)
THEOREM PromiseKept == Spec => KeepsPromise
<1>1. Init => Promise!Init
  BY DEF Init, Promise!Init, Stage, RowsOf
<1>2. ASSUME RInv, [Next]_vars
      PROVE  [Promise!Next]_stageMap
  <2>1. ASSUME NEW a \in Alerts, Raise(a)
        PROVE  [Promise!Next]_stageMap
    BY <1>2, <2>1, RaiseMaps DEF Promise!Next
  <2>2. ASSUME NEW a \in Alerts, NEW r \in Answer, FirstAttempt(a, r)
        PROVE  [Promise!Next]_stageMap
    BY <1>2, <2>2, FirstAttemptMaps DEF Promise!Next
  <2>3. ASSUME NEW a \in Alerts, Enqueue(a)
        PROVE  [Promise!Next]_stageMap
    BY <1>2, <2>3, EnqueueMaps DEF Promise!Next
  <2>4. ASSUME NEW a \in Alerts, EnqueueFails(a)
        PROVE  [Promise!Next]_stageMap
    <3>1. /\ firstTry[a] = "failed" /\ WriteFaults
          /\ firstTry' = [b \in Alerts |-> IF b \in {a} THEN "lost" ELSE firstTry[b]]
          /\ UNCHANGED <<outbox, notified>>
      BY <1>2, <2>4 DEF EnqueueFails, history, RInv, IInv, TypeOK
    <3>2. Promise!Lose({a})
      BY <1>2, <3>1, LossMaps
    <3>3. QED
      BY <3>2 DEF Promise!Next
  <2>5. ASSUME NEW e \in batch, NEW r \in Answer, Redeliver(e, r)
        PROVE  [Promise!Next]_stageMap
    <3>1. e.alert \in Alerts
      BY <1>2, RowTypes DEF RInv, IInv
    <3>2. QED
      BY <1>2, <2>5, <3>1, RedeliverMaps DEF Promise!Next
  <2>6. ASSUME NEW e \in batch, Record(e)
        PROVE  [Promise!Next]_stageMap
    <3>1. e.alert \in Alerts
      BY <1>2, RowTypes DEF RInv, IInv
    <3>2. QED
      BY <1>2, <2>6, <3>1, RecordMaps DEF Promise!Next
  <2>7. CASE Exit \/ Crash
    <3> DEFINE S == {a \in Alerts : firstTry[a] \in {"sending", "failed"}}
    <3>1. /\ firstTry' = [a \in Alerts |-> IF a \in S THEN "lost" ELSE firstTry[a]]
          /\ UNCHANGED <<outbox, notified>>
      BY <2>7 DEF Exit, Crash, Halt
    <3>2. MaxCrashes + MaxShutdowns > 0
      BY <1>2, <2>7, DeliveryAssumption
         DEF Exit, Crash, RInv, StoppingAllowed, IInv, TypeOK
    <3>3. Promise!Lose(S)
      BY <1>2, <3>1, <3>2, LossMaps
    <3>4. QED
      BY <3>3 DEF Promise!Next
  <2>8. ASSUME UNCHANGED <<outbox, firstTry, notified>>
        PROVE  [Promise!Next]_stageMap
    <3>1. \A a \in Alerts : Stage(a)' = Stage(a)
      BY <2>8 DEF Stage, RowsOf
    <3>2. QED
      BY <3>1, NoneMoves
  <2>9. QED
    BY <1>2, <2>1, <2>2, <2>3, <2>4, <2>5, <2>6, <2>7, <2>8 DEF Next, FirstTry, Retry,
       vars, Poll, RecordFails, NextInBatch, Shutdown, Start, Tick, goroutines, history
<1>3. QED
  BY <1>1, <1>2, RInvHolds, PTL DEF Spec, KeepsPromise, Promise!Spec, stageMap
===============================================================================
