SPECIFICATION Spec
CONSTANTS
  MaxVersion = 2
  Jobs = {j1}
  Warmups = {warm}
  Probers = {periodic}
  Updaters = {periodic, admin}
  Periodic = periodic
  MaxPolls = 1
  MaxRollbacks = 1
  MaxMishaps = 1
INVARIANTS
  EtagNotAhead
  IndexCacheSound
  MemorySound
PROPERTIES
  SomeVersionKept
