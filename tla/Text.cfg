SPECIFICATION MCSpec
CONSTANTS
  MaxMatches = 4
  MaxPosition = 5
  Labels = {"a", "b"}
  Inputs <- MCInputs
  MaxChars = 4
  OverlapChars = 2
  Texts <- MCTexts
  Jobs <- MCJobs
  NoIri = "none"
INVARIANTS
  SweepIsRescan
  LongestKept
  ChunksSound
  FormatsAgree
  RefersBack
  TagsNest
CHECK_DEADLOCK FALSE
