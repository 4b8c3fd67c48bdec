CONSTANTS
  ByteValues = 256
  Layouts <- MCLayouts
  Draws <- MCDraws
  Unfaithful <- MCUnfaithful
  Slots = {1, 2}
  Pools = {"Bignum_Primes", "CurvePrivkey", "CurveKeypair", "BLS_BatchSignature", "CurveBLSG2"}
  Values <- MCValues
  Digits <- MCDigits
  BytePowers <- MCBytePowers
  ByteLimit = 16
  kMaxBignumSize = 2
  MaxZeros = 1
  Orders <- MCOrders
SPECIFICATION Spec
INVARIANTS DrawsParse BignumsBounded PrimesFit GuardSuffices
