\* A server one tick east of UTC; a retention of two ticks.
SPECIFICATION Spec
CONSTANTS
  Projects = {p1}
  Keys = {k1}
  EventIds = {e1, e2}
  Fingerprints = {f1}
  IssueIds = {i1}
  Retention = 2
  ZoneOffset = 1
  MaxTime = 2
PROPERTY RetentionHonoured
