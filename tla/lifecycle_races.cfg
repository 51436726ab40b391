SPECIFICATION FairSpec
CONSTANTS
  c1 = c1
  c2 = c2
  u1 = u1
  Commands = {c1, c2}
  Pauses = {c2}
  Cancellers = {u1}
  MaxCrashes = 1
  MaxStops = 1
  MaxGlitches = 1
INVARIANT RunningIsExecuting
INVARIANT AtMostOnce
INVARIANT QueuedHasJob
PROPERTY OnlyCancelRaces
PROPERTY ImplementsSpec
PROPERTY CommandsEnd
CHECK_DEADLOCK FALSE
