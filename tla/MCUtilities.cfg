SPECIFICATION AllSpec
CONSTANTS
  ByteValues = 2
  MaxFields = 3
  MaxReads = 4
  Inputs <- MCInputs
  Fields <- MCFields
  Bounds <- MCBounds
  MaxSize = 5
  MaxModifier = 6
  BlockSizes = {2, 3}
  Radix = 8
  Sequence = 6
  Integer = 2
  Texts <- MCTexts
  Numbers <- MCNumbers
  CipherSizes = {1, 2, 3, 4}
  CurveSizes = {0, 1, 2, 3}
  MaxInserts = 5
  MaxRoom = 4
  MaxLengths = 3
INVARIANTS
  SizesAsAsked
  RoundTrip
  PartsCover
  DigestOfCleartext
  UnpadsLikeLibraries
  SignaturesKept
  LengthsFit
  NeverAsserts
  NoStaleRead
PROPERTIES
  ReadsConsume
  Terminates
  FreesOwnBlocks
CHECK_DEADLOCK FALSE
