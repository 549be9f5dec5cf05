\* One graceful shutdown, no crash, no failing write.
SPECIFICATION FairSpec
CONSTANTS
  Alerts = {a1}
  AlertMaxAttempts = 3
  AlertBackoffSchedule <- MCSchedule
  smtp = smtp
  webhook = webhook
  Notifiers <- MCNotifiers
  Untimed = {smtp}
  Healthy = {webhook}
  BatchSize = 1
  WriteFaults = FALSE
  MaxCrashes = 0
  MaxShutdowns = 1
PROPERTY FailedAttemptKept
CHECK_DEADLOCK FALSE
