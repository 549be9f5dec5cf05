\* Two projects with two fingerprints each, one pruning of every event.
SPECIFICATION Spec
CONSTANTS
  Projects = {p1, p2}
  Keys = {k1, k2}
  EventIds = {e1, e2}
  Fingerprints = {f1, f2}
  IssueIds = {i1, i2, i3, i4}
  Retention = 1
  ZoneOffset = 0
  MaxTime = 1
SYMMETRY Symmetry
INVARIANTS
  TypeOK
  TablesConsistent
PROPERTIES
  CountMovesWithEvents
  SignalsMatchTransitions
  EventsOnlyRegress
