\* Every pair of events, and what does not parse between them.
SPECIFICATION Spec
CONSTANTS
  Sent <- MCSent
  Broken <- MCBroken
  MaxEvents = 2
INVARIANTS
  GroupedIffAlike
  FormsAgree
  TitleDescribesGroup
CHECK_DEADLOCK FALSE
