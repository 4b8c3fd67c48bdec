SPECIFICATION Spec
CONSTANTS
  ByteValues = 256
  MaxVaried = 2
  Layouts <- MCLayouts
  Draws <- MCDraws
  Unfaithful <- MCUnfaithful
INVARIANTS
  RoundTrip
  MeantOrDropped
  FaithfulInputsDecode
  ParametersComplete
