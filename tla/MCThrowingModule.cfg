SPECIFICATION Spec
CONSTANTS
  Values = {1, 2, 3}
  Nullopt = Nullopt
  PublicKey <- MCPublicKey
  IDs = {1, 2, 3, 4}
  Loaded = {1, 2, 3}
  Throwing = {2}
  MaxOperations = 2
  MaxReads = 8
  ByteValues = 2
  InputModifiers <- MCModifiers
  Options <- LiveOptions
  Jobs <- LiveJobs
  NoModule = NoModule
  NoModulo = NoModulo
INVARIANT
  EveryModuleRuns
CHECK_DEADLOCK FALSE
