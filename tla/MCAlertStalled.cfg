\* A server that never stops and never fails to write; a mail server that may be silent.
SPECIFICATION FairSpec
CONSTANTS
  Alerts = {a1}
  AlertMaxAttempts = 3
  AlertBackoffSchedule <- MCSchedule
  smtp = smtp
  webhook = webhook
  Notifiers <- MCNotifiers
  Untimed = {smtp}
  Healthy = {webhook}
  BatchSize = 1
  WriteFaults = FALSE
  MaxCrashes = 0
  MaxShutdowns = 0
PROPERTY NobodyStallsLoop
CHECK_DEADLOCK FALSE
