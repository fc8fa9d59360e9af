SPECIFICATION Spec
CONSTANTS
  Anns = {a1, a2}
  Absent = Absent
  Iris <- MCIris
  Spotted = {"x"}
  Resolutions <- MCResolutions
  MaxEdits = 2
  MaxRaises = 1
  MaxMarks = 1
INVARIANTS
  AnswersStand
  InsightsMatchJob
  CompleteIsFinal
SYMMETRY MCSymmetry
CHECK_DEADLOCK FALSE
