\* Requests, a loop and a goroutine, one stop of any kind, gc in another process.
SPECIFICATION FairSpec
CONSTANTS
  Callers = {h1, loop, alert}
  ReaderPoolSize = 1
  Loops = {loop}
  Detached = {alert}
INVARIANTS
  TypeOK
  ReadsHold
  LockedOnlyByOthers
  StopsGracefully
PROPERTIES
  EveryCallEnds
  EveryStopEnds
CHECK_DEADLOCK FALSE
