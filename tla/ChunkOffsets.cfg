SPECIFICATION ChunkSpec
CONSTANTS
  MaxChars = 4
  OverlapChars = 2
  Texts <- SpacedTexts
INVARIANTS
  ChunksIndexTheText
CHECK_DEADLOCK FALSE
