\* Two items, cut anywhere.
SPECIFICATION Spec
CONSTANTS
  ExplicitPayloads <- Explicit
  ImplicitPayloads <- Implicit
  MaxItems = 2
CHECK_DEADLOCK FALSE
INVARIANTS
  RoundTrip
  CutHarmless
