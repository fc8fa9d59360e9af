SPECIFICATION Spec
CONSTANTS
  Anns = {a1, a2}
  Absent = Absent
  Iris <- MCIris
  Spotted = {"x"}
  Resolutions <- MCResolutions
  MaxEdits = 1
  MaxRaises = 1
  MaxMarks = 0
INVARIANTS
  EditsTracked
CHECK_DEADLOCK FALSE
