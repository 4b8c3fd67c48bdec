SPECIFICATION BothSpec
CONSTANTS
  Nullopt = Nullopt
  Campaigns <- MCCampaigns
  Algorithms = {"small", "large"}
  KeySeeds <- MCKeySeeds
  EncapsSeeds <- MCEncapsSeeds
  Contexts <- MCContexts
  Orders <- MCOrders
  MaxRuns = 3
  sa = sa
  sb = sb
  short = short
  long = long
  empty = empty
  ka = ka
  kb = kb
  kc = kc
  prefixA = prefixA
  prefixC = prefixC
  NoSeed = NoSeed
  NoKey = NoKey
  Seeds <- MCSeeds
  SeedSize <- MCSeedSize
  Keys <- MCKeys
  Entropy <- MCEntropy
  DrawLength <- MCDrawLength
  Requests <- MCRequests
  FixedCapacity = 3
INVARIANTS
  NoFalseAlarm
  SeedsDecide
  ComparedByTwo
  SystemBetweenCalls
  SeedsVerbatim
  SigningReproducible
  UnseededIsRandom
CHECK_DEADLOCK FALSE
