\* One request and gc in another process.
SPECIFICATION Spec
CONSTANTS
  Callers = {h1}
  ReaderPoolSize = 1
  Loops = {}
  Detached = {}
INVARIANTS
  ContendersWait
CHECK_DEADLOCK FALSE
