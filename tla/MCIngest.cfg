\* Concurrent and repeated envelopes, failures, perhaps a crash; events may expire.
SPECIFICATION FairSpec
CONSTANTS
  p1 = p1
  k1 = k1
  k2 = k2
  e1 = e1
  e2 = e2
  f1 = f1
  Projects = {p1}
  Keys = {k1, k2}
  EventIds = {e1, e2}
  Fingerprints = {f1}
  IssueIds = {i1}
  Retention = 1
  ZoneOffset = 0
  MaxTime = 1
  Envelopes <- MCEnvelopes
  Handlers = {h1, h2}
  MaxCrashes = 1
INVARIANTS
  TypeOK
  AckMeansStored
  EachEventCountedOnce
  OpeningsMatchAlerts
  AnnouncedOnce
PROPERTIES
  UsesStore
  EveryOpeningAnnounced
