SPECIFICATION FairSpec
CONSTANTS
  Values = {1, 2, 3}
  Nullopt = Nullopt
  PublicKey <- MCPublicKey
  IDs = {1, 2, 3, 4}
  Loaded = {1, 2, 3}
  Throwing = {3}
  MaxOperations = 2
  MaxReads = 6
  ByteValues = 2
  InputModifiers <- MCModifiers
  Options <- MCOptions
  Jobs <- MCJobs
  NoModule = NoModule
  NoModulo = NoModulo
INVARIANTS
  IInv
  NoMissedDifference
  NoFalseAlarm
  ExactlyEnabledModulesRun
  NoRepeatedCall
PROPERTIES
  ExecutedOperationsFrozen
  ImplementsOracle
  RunsTerminate
CHECK_DEADLOCK FALSE
