------------------------- MODULE MutatorPoolsProofs -------------------------
(***************************************************************************)
(* The mutator pools for any number of slots, any numbers and any limit:   *)
(* what is stored parses, stays below the byte limit, primes fit, and the  *)
(* flag of one pool is a sufficient guard for reading another.             *)
(***************************************************************************)
EXTENDS MutatorPools, TLAPS

(* What a slot of either number pool may hold. *)
Storable(s) == s \in Strings /\ Parses(s)

BignumSlots == /\ bignums \in [Slots -> Strings]
               /\ \A i \in Slots : Storable(bignums[i]) /\ bignums[i].value < ByteLimit

PrimeSlots == /\ primes \in [Slots -> Strings]
              /\ \A i \in Slots : Storable(primes[i]) /\ Fits(primes[i])

Flags == /\ have \subseteq Pools
         /\ fallback \in {"none", "pool empty", "pool in use"}

(* The inductive invariant. *)
PoolsInv == BignumSlots /\ PrimeSlots /\ Flags /\ GuardSuffices

-----------------------------------------------------------------------------
(* Strings *)

LEMMA NumberStorable == \A v \in Values : Storable(Number(v)) /\ Number(v).value = v
  BY PoolsAssumption DEF Storable, Strings, Number, String, Parses

LEMMA EmptyStorable == Storable(Empty) /\ Fits(Empty) /\ Empty.value < ByteLimit
<1>1. Storable(Empty) /\ Empty.value = 0 /\ Empty.zeros = 0 /\ Empty.sign = "+"
  BY PoolsAssumption DEF Storable, Strings, Empty, String, Parses
<1>2. Digits(0) = 0 /\ kMaxBignumSize \in Nat /\ ByteLimit \in Nat \ {0}
  BY PoolsAssumption
<1>3. Size(Empty) = 0
  BY <1>1, <1>2 DEF Size
<1> QED
  BY <1>1, <1>2, <1>3 DEF Fits

LEMMA TrimmedStorable ==
  \A r \in Results \cup Inputs : /\ Storable(ToTrimmedString(r))
                                /\ r \in Strings
<1> SUFFICES ASSUME NEW r \in Results \cup Inputs
             PROVE  Storable(ToTrimmedString(r)) /\ r \in Strings
  OBVIOUS
<1>0. MaxZeros \in Nat
  BY PoolsAssumption
<1>1. r \in Strings /\ (r.sign = "-" => r.zeros = 0)
  BY <1>0 DEF Results, Inputs, Strings
<1>2. CASE r.sign = "-"
  BY <1>1, <1>2 DEF ToTrimmedString, Storable, Parses
<1>3. CASE r.sign # "-"
  BY <1>1, <1>3, NumberStorable DEF ToTrimmedString, Strings
<1> QED
  BY <1>1, <1>2, <1>3

LEMMA FitsBounded == \A s \in Strings : Fits(s) => s.value < ByteLimit
<1> SUFFICES ASSUME NEW s \in Strings, Fits(s)
             PROVE  s.value < ByteLimit
  OBVIOUS
<1>1. s.value \in Values /\ s.zeros \in Nat /\ Digits(s.value) \in Nat
  BY PoolsAssumption DEF Strings
<1>2. Digits(s.value) <= kMaxBignumSize
  BY <1>1, PoolsAssumption DEF Fits, Size
<1> QED
  BY <1>1, <1>2, PoolsAssumption

(* Trimming an operand never makes it longer than the limit it passed. *)
LEMMA TrimmedFits ==
  \A r \in Inputs : BignumCalcAccepts(r) => Fits(ToTrimmedString(r))
<1> SUFFICES ASSUME NEW r \in Inputs, BignumCalcAccepts(r)
             PROVE  Fits(ToTrimmedString(r))
  OBVIOUS
<1>0. kMaxBignumSize \in Nat /\ MaxZeros \in Nat
  BY PoolsAssumption
<1>1. r.sign = "+" /\ r.zeros \in Nat /\ r.value \in Values
  BY <1>0 DEF Inputs
<1>2. Digits(r.value) \in Nat /\ Digits(r.value) <= kMaxBignumSize
  <2>1. Digits(r.value) \in Nat
    BY <1>1, PoolsAssumption
  <2>2. 0 + r.zeros + Digits(r.value) <= kMaxBignumSize
    BY <1>1 DEF BignumCalcAccepts, Size
  <2> QED
    BY <1>0, <1>1, <2>1, <2>2
<1>3. ToTrimmedString(r) = Number(r.value)
  BY <1>1 DEF ToTrimmedString
<1>4. CASE r.value = 0
  <2>1. Size(Number(r.value)) = 1
    BY <1>4, PoolsAssumption DEF Size, Number, String
  <2> QED
    BY <1>3, <2>1, PoolsAssumption DEF Fits
<1>5. CASE r.value # 0
  <2>1. Size(Number(r.value)) = Digits(r.value)
    BY <1>2, <1>5 DEF Size, Number, String
  <2> QED
    BY <1>2, <1>3, <2>1 DEF Fits
<1> QED
  BY <1>4, <1>5

-----------------------------------------------------------------------------
(* What the mutator computes *)

LEMMA DrawStorable ==
  ASSUME BignumSlots, NEW s \in GetBignum
  PROVE  Storable(s) /\ s.value < ByteLimit
<1>1. CASE \E v \in Values : Digits(v) < kMaxBignumSize /\ s = Number(v)
  <2>1. PICK v \in Values : Digits(v) < kMaxBignumSize /\ s = Number(v)
    BY <1>1
  <2>2. v < ByteLimit
    BY <2>1, PoolsAssumption
  <2> QED
    BY <2>1, <2>2, NumberStorable
<1>2. CASE \E i \in Slots : s = StripSign(bignums[i])
  <2>1. PICK i \in Slots : s = StripSign(bignums[i])
    BY <1>2
  <2>2. bignums[i] \in Strings /\ Parses(bignums[i]) /\ bignums[i].value < ByteLimit
    BY DEF BignumSlots, Storable
  <2>3. /\ s = [sign |-> "+", zeros |-> bignums[i].zeros, value |-> bignums[i].value]
    BY <2>1 DEF StripSign, String
  <2>4. s \in Strings /\ s.value < ByteLimit
    BY <2>2, <2>3 DEF Strings
  <2>5. Parses(s)
    <3>1. CASE bignums[i].zeros = 0
      BY <2>3, <3>1 DEF Parses
    <3>2. CASE bignums[i] = Number(0)
      BY <2>3, <3>2 DEF Parses, Number, String
    <3> QED
      BY <2>2, <3>1, <3>2 DEF Parses
  <2> QED
    BY <2>4, <2>5 DEF Storable
<1> QED
  BY <1>1, <1>2 DEF GetBignum, Get

LEMMA MutationStorable ==
  ASSUME NEW s, Storable(s), s.value < ByteLimit, NEW y \in mutateBinary(s)
  PROVE  Storable(y) /\ y.value < ByteLimit
<1>1. CASE LeadsWithZero(s)
  BY <1>1 DEF mutateBinary
<1>2. CASE ~LeadsWithZero(s)
  <2>1. PICK w \in Values : /\ \A p \in BytePowers : s.value < p => w < p
                            /\ y = Number(w)
    BY <1>2 DEF mutateBinary
  <2>2. w < ByteLimit
    BY <2>1, PoolsAssumption
  <2> QED
    BY <2>1, <2>2, NumberStorable
<1> QED
  BY <1>1, <1>2

LEMMA MontStorable ==
  ASSUME NEW y, Storable(y), y.value < ByteLimit,
         NEW m, Storable(m), m.value < ByteLimit,
         NEW v \in from_mont(y, m)
  PROVE  Storable(v) /\ v.value < ByteLimit
<1>1. CASE v = y
  BY <1>1
<1>2. CASE \E w \in Values : w < m.value /\ v = Number(w)
  <2>1. PICK w \in Values : w < m.value /\ v = Number(w)
    BY <1>2
  <2>2. m.value \in Nat /\ w \in Nat
    BY PoolsAssumption DEF Storable, Strings
  <2>3. w < ByteLimit
    BY <2>1, <2>2, PoolsAssumption
  <2> QED
    BY <2>1, <2>3, NumberStorable
<1> QED
  BY <1>1, <1>2 DEF from_mont

LEMMA StoreMontKeeps ==
  ASSUME BignumSlots, NEW m, Storable(m), m.value < ByteLimit, StoreMont(m)
  PROVE  BignumSlots'
<1>1. PICK s \in GetBignum : \E y \in mutateBinary(s) :
                               \E v \in from_mont(y, m), i \in Slots :
                                 bignums' = [bignums EXCEPT ![i] = v]
  BY DEF StoreMont
<1>2. PICK y \in mutateBinary(s) : \E v \in from_mont(y, m), i \in Slots :
                                     bignums' = [bignums EXCEPT ![i] = v]
  BY <1>1
<1>3. PICK v \in from_mont(y, m), i \in Slots : bignums' = [bignums EXCEPT ![i] = v]
  BY <1>2
<1>4. Storable(s) /\ s.value < ByteLimit
  BY DrawStorable
<1>5. Storable(y) /\ y.value < ByteLimit
  BY <1>4, MutationStorable
<1>6. Storable(v) /\ v.value < ByteLimit
  BY <1>5, MontStorable
<1> QED
  BY <1>3, <1>6 DEF BignumSlots, Storable

-----------------------------------------------------------------------------
(* What the executor stores *)

LEMMA StoreBignumsKeeps ==
  ASSUME BignumSlots, NEW n, StoreBignums(n)
  PROVE  BignumSlots'
<1>1. PICK S \in SUBSET Slots :
        \E new \in [S -> {s \in {ToTrimmedString(r) : r \in Results} : Fits(s)}] :
          bignums' = [i \in Slots |-> IF i \in S THEN new[i] ELSE bignums[i]]
  BY DEF StoreBignums
<1>2. PICK new \in [S -> {s \in {ToTrimmedString(r) : r \in Results} : Fits(s)}] :
        bignums' = [i \in Slots |-> IF i \in S THEN new[i] ELSE bignums[i]]
  BY <1>1
<1>3. ASSUME NEW i \in S
      PROVE  Storable(new[i]) /\ new[i].value < ByteLimit
  <2>1. PICK r \in Results : new[i] = ToTrimmedString(r) /\ Fits(new[i])
    BY <1>2
  <2>2. Storable(new[i])
    BY <2>1, TrimmedStorable
  <2> QED
    BY <2>1, <2>2, FitsBounded DEF Storable
<1>4. ASSUME NEW i \in Slots
      PROVE  Storable(bignums'[i]) /\ bignums'[i].value < ByteLimit
  BY <1>2, <1>3 DEF BignumSlots
<1>5. bignums' \in [Slots -> Strings]
  BY <1>2, <1>3 DEF BignumSlots, Storable
<1> QED
  BY <1>4, <1>5 DEF BignumSlots

(* The pools that have to be stored in together. *)
Together(pools) == \A g \in CrossReads : g[1] \in pools => g[2] \in pools

LEMMA SetKeeps ==
  ASSUME have \subseteq Pools, GuardSuffices, NEW pools, Together(pools), Set(pools)
  PROVE  have' \subseteq Pools /\ GuardSuffices'
<1>1. have' = have \cup (pools \cap Pools)
  BY DEF Set
<1> QED
  BY <1>1 DEF GuardSuffices, Together, Have

LEMMA StoreKeeps ==
  ASSUME PoolsInv, NEW pools, NEW n, Together(pools), Store(pools, n)
  PROVE  PoolsInv'
<1>1. BignumSlots'
  BY StoreBignumsKeeps DEF PoolsInv, Store
<1>2. have' \subseteq Pools /\ GuardSuffices'
  BY SetKeeps DEF PoolsInv, Store, Flags
<1> QED
  BY <1>1, <1>2 DEF PoolsInv, Store, PrimeSlots, Flags

LEMMA BignumCalcKeeps == PoolsInv /\ BignumCalc => PoolsInv'
<1> SUFFICES ASSUME PoolsInv, BignumCalc
             PROVE  PoolsInv'
  OBVIOUS
<1> DEFINE prime(c, bn0, r) ==
      IF c = "Prime()" THEN ToTrimmedString(r) ELSE ToTrimmedString(bn0)
<1> DEFINE found(c, r) ==
      \/ c = "Prime()" /\ Fits(ToTrimmedString(r))
      \/ c = "IsPrime(A)" /\ ToTrimmedString(r) = Number(1)
<1>1. PICK c \in {"Prime()", "IsPrime(A)", "other"}, bn0 \in Inputs, r \in Results :
        /\ BignumCalcAccepts(bn0)
        /\ StoreBignum(ToTrimmedString(r))
        /\ IF found(c, r) THEN StorePrime(prime(c, bn0, r)) ELSE UNCHANGED <<have, primes>>
        /\ UNCHANGED fallback
  BY DEF BignumCalc
<1>2. BignumSlots'
  <2>1. CASE Fits(ToTrimmedString(r))
    <3>1. PICK i \in Slots : bignums' = [bignums EXCEPT ![i] = ToTrimmedString(r)]
      BY <1>1, <2>1 DEF StoreBignum
    <3>2. Storable(ToTrimmedString(r)) /\ ToTrimmedString(r).value < ByteLimit
      BY <2>1, TrimmedStorable, FitsBounded DEF Storable
    <3> QED
      BY <3>1, <3>2 DEF PoolsInv, BignumSlots, Storable
  <2>2. CASE ~Fits(ToTrimmedString(r))
    BY <1>1, <2>2 DEF StoreBignum, PoolsInv, BignumSlots
  <2> QED
    BY <2>1, <2>2
<1>3. PrimeSlots' /\ have' \subseteq Pools /\ GuardSuffices'
  <2>1. CASE found(c, r)
    <3>1. Storable(prime(c, bn0, r)) /\ Fits(prime(c, bn0, r))
      <4>1. CASE c = "Prime()"
        BY <2>1, <4>1, TrimmedStorable
      <4>2. CASE c # "Prime()"
        BY <1>1, <4>2, TrimmedStorable, TrimmedFits
      <4> QED
        BY <4>1, <4>2
    <3> HIDE DEF prime
    <3>2. /\ \E i \in Slots : primes' = [primes EXCEPT ![i] = prime(c, bn0, r)]
          /\ Set({"Bignum_Primes"})
      BY <1>1, <2>1 DEF StorePrime
    <3>3. PrimeSlots'
      BY <3>1, <3>2 DEF PoolsInv, PrimeSlots, Storable
    <3>4. Together({"Bignum_Primes"})
      BY DEF Together, CrossReads
    <3> QED
      BY <3>2, <3>3, <3>4, SetKeeps DEF PoolsInv, Flags
  <2>2. CASE ~found(c, r)
    BY <1>1, <2>2 DEF PoolsInv, PrimeSlots, Flags, GuardSuffices, Have
  <2> QED
    BY <2>1, <2>2
<1> QED
  BY <1>1, <1>2, <1>3 DEF PoolsInv, Flags

LEMMA CurveResultKeeps == PoolsInv /\ CurveResult => PoolsInv'
<1> SUFFICES ASSUME PoolsInv, CurveResult
             PROVE  PoolsInv'
  OBVIOUS
<1>1. CASE ECC_PrivateToPublic
  BY <1>1, StoreKeeps DEF ECC_PrivateToPublic, Together, CrossReads
<1>2. CASE ECC_GenerateKeyPair
  BY <1>2, StoreKeeps DEF ECC_GenerateKeyPair, Together, CrossReads
<1>3. CASE ECCSI_Sign
  BY <1>3, StoreKeeps DEF ECCSI_Sign, Together, CrossReads
<1>4. CASE ECDSA_Sign
  BY <1>4, StoreKeeps DEF ECDSA_Sign, Together, CrossReads
<1>5. CASE ECGDSA_Sign
  BY <1>5, StoreKeeps DEF ECGDSA_Sign, Together, CrossReads
<1>6. CASE ECRDSA_Sign
  BY <1>6, StoreKeeps DEF ECRDSA_Sign, Together, CrossReads
<1>7. CASE Schnorr_Sign
  BY <1>7, StoreKeeps DEF Schnorr_Sign, Together, CrossReads
<1>8. CASE ECC_Point_Add
  BY <1>8, StoreKeeps DEF ECC_Point_Add, Together, CrossReads
<1>9. CASE ECC_Point_Sub
  BY <1>9, StoreKeeps DEF ECC_Point_Sub, Together, CrossReads
<1>10. CASE ECC_Point_Mul
  BY <1>10, StoreKeeps DEF ECC_Point_Mul, Together, CrossReads
<1>11. CASE ECC_Point_Neg
  BY <1>11, StoreKeeps DEF ECC_Point_Neg, Together, CrossReads
<1>12. CASE ECC_Point_Dbl
  BY <1>12, StoreKeeps DEF ECC_Point_Dbl, Together, CrossReads
<1> QED
  BY <1>1, <1>2, <1>3, <1>4, <1>5, <1>6, <1>7, <1>8, <1>9, <1>10, <1>11,
     <1>12
  DEF CurveResult

LEMMA OtherResultKeeps == PoolsInv /\ OtherResult => PoolsInv'
<1> SUFFICES ASSUME PoolsInv, OtherResult
             PROVE  PoolsInv'
  OBVIOUS
<1>1. CASE DSA_Sign
  BY <1>1, StoreKeeps DEF DSA_Sign, Together, CrossReads
<1>2. CASE DSA_GenerateKeyPair
  BY <1>2, StoreKeeps DEF DSA_GenerateKeyPair, Together, CrossReads
<1>3. CASE DSA_GenerateParameters
  BY <1>3, StoreKeeps DEF DSA_GenerateParameters, Together, CrossReads
<1>4. CASE DH_GenerateKeyPair
  BY <1>4, StoreKeeps DEF DH_GenerateKeyPair, Together, CrossReads
<1>5. CASE BignumCalc_Fp2
  BY <1>5, StoreKeeps DEF BignumCalc_Fp2, Together, CrossReads
<1>6. CASE BignumCalc_Fp12
  BY <1>6, StoreKeeps DEF BignumCalc_Fp12, Together, CrossReads
<1>7. CASE KEM_GenerateKeyPair
  BY <1>7, StoreKeeps DEF KEM_GenerateKeyPair, Together, CrossReads
<1>8. CASE KEM_Encapsulate
  BY <1>8, StoreKeeps DEF KEM_Encapsulate, Together, CrossReads
<1>9. CASE PQSign_GenerateKeyPair
  BY <1>9, StoreKeeps DEF PQSign_GenerateKeyPair, Together, CrossReads
<1>10. CASE PQSign_Sign
  BY <1>10, StoreKeeps DEF PQSign_Sign, Together, CrossReads
<1>11. CASE BignumCalc
  BY <1>11, BignumCalcKeeps
<1> QED
  BY <1>1, <1>2, <1>3, <1>4, <1>5, <1>6, <1>7, <1>8, <1>9, <1>10, <1>11
  DEF OtherResult

LEMMA PairingResultKeeps == PoolsInv /\ PairingResult => PoolsInv'
<1> SUFFICES ASSUME PoolsInv, PairingResult
             PROVE  PoolsInv'
  OBVIOUS
<1>1. CASE BLS_PrivateToPublic
  BY <1>1, StoreKeeps DEF BLS_PrivateToPublic, Together, CrossReads
<1>2. CASE BLS_PrivateToPublic_G2
  BY <1>2, StoreKeeps DEF BLS_PrivateToPublic_G2, Together, CrossReads
<1>3. CASE BLS_Sign
  BY <1>3, StoreKeeps DEF BLS_Sign, Together, CrossReads
<1>4. CASE BLS_Pairing
  BY <1>4, StoreKeeps DEF BLS_Pairing, Together, CrossReads
<1>5. CASE BLS_MillerLoop
  BY <1>5, StoreKeeps DEF BLS_MillerLoop, Together, CrossReads
<1>6. CASE BLS_FinalExp
  BY <1>6, StoreKeeps DEF BLS_FinalExp, Together, CrossReads
<1>7. CASE BLS_HashToG1
  BY <1>7, StoreKeeps DEF BLS_HashToG1, Together, CrossReads
<1>8. CASE BLS_MapToG1
  BY <1>8, StoreKeeps DEF BLS_MapToG1, Together, CrossReads
<1>9. CASE BLS_MapToG2
  BY <1>9, StoreKeeps DEF BLS_MapToG2, Together, CrossReads
<1>10. CASE BLS_GenerateKeyPair
  BY <1>10, StoreKeeps DEF BLS_GenerateKeyPair, Together, CrossReads
<1>11. CASE BLS_Decompress_G1
  BY <1>11, StoreKeeps DEF BLS_Decompress_G1, Together, CrossReads
<1>12. CASE BLS_Compress_G1
  BY <1>12, StoreKeeps DEF BLS_Compress_G1, Together, CrossReads
<1>13. CASE BLS_Decompress_G2
  BY <1>13, StoreKeeps DEF BLS_Decompress_G2, Together, CrossReads
<1>14. CASE BLS_Compress_G2
  BY <1>14, StoreKeeps DEF BLS_Compress_G2, Together, CrossReads
<1>15. CASE BLS_G1_Add
  BY <1>15, StoreKeeps DEF BLS_G1_Add, Together, CrossReads
<1>16. CASE BLS_G1_Mul
  BY <1>16, StoreKeeps DEF BLS_G1_Mul, Together, CrossReads
<1>17. CASE BLS_G1_Neg
  BY <1>17, StoreKeeps DEF BLS_G1_Neg, Together, CrossReads
<1>18. CASE BLS_G2_Add
  BY <1>18, StoreKeeps DEF BLS_G2_Add, Together, CrossReads
<1>19. CASE BLS_G2_Mul
  BY <1>19, StoreKeeps DEF BLS_G2_Mul, Together, CrossReads
<1>20. CASE BLS_G2_Neg
  BY <1>20, StoreKeeps DEF BLS_G2_Neg, Together, CrossReads
<1>21. CASE BLS_G1_MultiExp
  BY <1>21, StoreKeeps DEF BLS_G1_MultiExp, Together, CrossReads
<1>22. CASE BLS_HashToG2
  BY <1>22, StoreKeeps DEF BLS_HashToG2, Together, CrossReads
<1>23. CASE BLS_BatchSign
  BY <1>23, StoreKeeps DEF BLS_BatchSign, Together, CrossReads
<1> QED
  BY <1>1, <1>2, <1>3, <1>4, <1>5, <1>6, <1>7, <1>8, <1>9, <1>10, <1>11,
     <1>12, <1>13, <1>14, <1>15, <1>16, <1>17, <1>18, <1>19, <1>20, <1>21,
     <1>22, <1>23
  DEF PairingResult

LEMMA MutateKeeps == PoolsInv /\ Mutate => PoolsInv'
<1> SUFFICES ASSUME PoolsInv, Mutate
             PROVE  PoolsInv'
  OBVIOUS
<1>1. CASE hint_ecc_mont
  <2>1. PICK o \in Orders : StoreMont(Number(o))
    BY <1>1 DEF hint_ecc_mont
  <2>2. o \in Values /\ o < ByteLimit
    BY PoolsAssumption
  <2>3. BignumSlots'
    BY <2>1, <2>2, NumberStorable, StoreMontKeeps DEF PoolsInv
  <2> QED
    BY <1>1, <2>3 DEF hint_ecc_mont, PoolsInv, PrimeSlots, Flags, GuardSuffices, Have
<1>2. CASE HintModulus
  <2>1. PICK m \in GetBignum : StoreMont(m)
    BY <1>2 DEF HintModulus
  <2>2. BignumSlots'
    BY <2>1, DrawStorable, StoreMontKeeps DEF PoolsInv
  <2> QED
    BY <1>2, <2>2 DEF HintModulus, PoolsInv, PrimeSlots, Flags, GuardSuffices, Have
<1>3. CASE generateECCPoint
  <2>1. PICK pool \in {"CurveBLSG1", "CurveECC_Point"} : Set({pool})
    BY <1>3 DEF generateECCPoint
  <2>2. Together({pool})
    BY DEF Together, CrossReads
  <2>3. have' \subseteq Pools /\ GuardSuffices'
    BY <2>1, <2>2, SetKeeps DEF PoolsInv, Flags
  <2> QED
    BY <1>3, <2>3 DEF generateECCPoint, PoolsInv, BignumSlots, PrimeSlots, Flags
<1>4. CASE get_prime
  <2>1. fallback' \in {"none", "pool empty", "pool in use"}
    BY <1>4 DEF get_prime
  <2> QED
    BY <1>4, <2>1 DEF get_prime, PoolsInv, BignumSlots, PrimeSlots, Flags, GuardSuffices, Have
<1> QED
  BY <1>1, <1>2, <1>3, <1>4 DEF Mutate

-----------------------------------------------------------------------------
LEMMA InitPools == Init => PoolsInv
<1> SUFFICES ASSUME Init PROVE PoolsInv
  OBVIOUS
<1>1. BignumSlots /\ PrimeSlots
  BY EmptyStorable DEF Init, BignumSlots, PrimeSlots, Storable
<1> QED
  BY <1>1 DEF Init, PoolsInv, Flags, GuardSuffices, Have

LEMMA StepPools == PoolsInv /\ [Next]_vars => PoolsInv'
<1>1. CASE UNCHANGED vars
  BY <1>1 DEF vars, PoolsInv, BignumSlots, PrimeSlots, Flags, GuardSuffices, Have
<1>2. CASE Next
  BY <1>2, CurveResultKeeps, OtherResultKeeps, PairingResultKeeps, MutateKeeps DEF Next
<1> QED
  BY <1>1, <1>2

(* The invariant holds of every behaviour of the fuzz loop.                *)
THEOREM PoolsInvariant == Spec => []PoolsInv
  BY InitPools, StepPools, PTL DEF Spec

(* Slots hold decimal strings and flags are those of tracked pools.        *)
THEOREM PoolsTyped == Spec => []TypeOK
<1>1. PoolsInv => TypeOK
  BY DEF PoolsInv, BignumSlots, PrimeSlots, Flags, TypeOK
<1> QED
  BY <1>1, PoolsInvariant, PTL

(* Nothing drawn from the number pools carries a superfluous leading zero. *)
THEOREM NumbersAlwaysParse == Spec => []DrawsParse
<1>1. PoolsInv => DrawsParse
  BY DrawStorable DEF PoolsInv, PrimeSlots, DrawsParse, Storable, Get
<1> QED
  BY <1>1, PoolsInvariant, PTL

(* Numbers that go round through mutator and pool do not keep growing.     *)
THEOREM NumbersStayBounded == Spec => []BignumsBounded
<1>1. PoolsInv => BignumsBounded
  BY DEF PoolsInv, BignumSlots, BignumsBounded
<1> QED
  BY <1>1, PoolsInvariant, PTL

(* Every prime of the pool has at most kMaxBignumSize digits.              *)
THEOREM PrimesAlwaysFit == Spec => []PrimesFit
<1>1. PoolsInv => PrimesFit
  BY DEF PoolsInv, PrimeSlots, PrimesFit
<1> QED
  BY <1>1, PoolsInvariant, PTL

(* A guard on one pool suffices for the reads of another.                  *)
THEOREM GuardsSuffice == Spec => []GuardSuffices
<1>1. PoolsInv => GuardSuffices
  BY DEF PoolsInv
<1> QED
  BY <1>1, PoolsInvariant, PTL
=============================================================================
