SPECIFICATION Spec
CONSTANTS
  MaxVersion = 2
  Jobs = {j1}
  Warmups = {}
  Probers = {periodic}
  Updaters = {periodic, admin}
  Periodic = periodic
  MaxPolls = 1
  MaxRollbacks = 0
  MaxMishaps = 1
PROPERTIES
  UpdatesProgress
