\* Three clients, a map swept from two; two thirds of a token per tick.
SPECIFICATION Spec
CONSTANTS
  Clients = {c1, c2, c3}
  Token = 3
  Rate = 2
  Burst <- IngestBurst
  StaleAfter = 3
  SweepAtSize = 2
  MaxTime = 6
SYMMETRY Symmetry
INVARIANTS
  TypeOK
  WindowBound
  PatientAllowed
PROPERTIES
  KeepsPromise
