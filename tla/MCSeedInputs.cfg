SPECIFICATION Spec
CONSTANTS
  ByteValues = 256
  MaxVaried = 2
  Layouts <- SeedLayouts
  Draws <- SeedDraws
  Unfaithful = {}
INVARIANT InputsExecute
