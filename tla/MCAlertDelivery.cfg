\* Stops, crashes and failing writes, all at once, and a backlog longer than a batch;
\* the mail server may be slow or silent.
SPECIFICATION FairSpec
CONSTANTS
  Alerts = {a1, a2}
  AlertMaxAttempts = 3
  AlertBackoffSchedule <- MCSchedule
  smtp = smtp
  webhook = webhook
  Notifiers <- MCNotifiers
  Untimed = {smtp}
  Healthy = {webhook}
  BatchSize = 1
  WriteFaults = TRUE
  MaxCrashes = 1
  MaxShutdowns = 1
INVARIANTS
  TypeOK
  OutboxConsistent
  DeadLettersEarned
PROPERTIES
  ServedInTime
  SuccessNotRepeated
  KeepsPromise
  EveryAlertSettles
  EveryRowSettles
CHECK_DEADLOCK FALSE
