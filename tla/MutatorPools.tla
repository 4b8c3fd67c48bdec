---------------------------- MODULE MutatorPools ----------------------------
(***************************************************************************)
(* The mutator pools: fixed arrays of earlier results that the executor    *)
(* fills after every operation (postprocess) and the mutator draws from    *)
(* when it builds the next input.  Executor and mutator run in turn in one *)
(* thread, so a behaviour is a sequence of whole handlers; together they   *)
(* form a loop: what the mutator derives from pool entries goes back into  *)
(* the pools.                                                              *)
(*                                                                         *)
(* Of most pools only the flag `set' is kept, which is all that anything   *)
(* is decided on; of Pool_Bignum and Pool_Bignum_Primes the slots are kept *)
(* too.  A decimal string is a record: a sign, the number of leading zeros *)
(* and the value of the digits after them, so that "" is no zeros and      *)
(* value 0, "0" one zero and value 0, "007" two zeros and value 7.         *)
(***************************************************************************)
EXTENDS Integers, FiniteSets

CONSTANTS Slots,          \* the indices of a pool's array
          Pools,          \* the pools whose `set' flag the instance tracks
          Values,         \* the values numbers have
          Digits(_),      \* how many decimal digits a value has, 0 for 0
          BytePowers,     \* the powers of 256 above 1
          ByteLimit,      \* the power of 256 that holds kMaxBignumSize digits
          kMaxBignumSize,
          MaxZeros,       \* bound: leading zeros of what modules return
          Orders          \* the orders of the curves the repository knows

VARIABLES have,           \* the pools in which something was stored
          bignums,        \* the slots of Pool_Bignum
          primes,         \* the slots of Pool_Bignum_Primes
          fallback        \* history: what the last draw of a prime met

vars == <<have, bignums, primes, fallback>>

ASSUME PoolsAssumption ==
  /\ Values \subseteq Nat /\ 0 \in Values
  /\ kMaxBignumSize \in Nat /\ kMaxBignumSize > 1 /\ MaxZeros \in Nat
  /\ BytePowers \subseteq Nat \ {0} /\ ByteLimit \in BytePowers
  /\ Digits(0) = 0 /\ \A v \in Values : Digits(v) \in Nat
  /\ \A v \in Values : Digits(v) <= kMaxBignumSize => v < ByteLimit
  /\ Orders \subseteq Values \ {0}
  /\ \A o \in Orders : Digits(o) <= kMaxBignumSize

-----------------------------------------------------------------------------
(* Decimal strings *)

String(sign, zeros, value) == [sign |-> sign, zeros |-> zeros, value |-> value]

Empty == String("+", 0, 0)

Number(v) == String("+", IF v = 0 THEN 1 ELSE 0, v)

Size(s) == (IF s.sign = "-" THEN 1 ELSE 0) + s.zeros + Digits(s.value)

\* fault: the string is stored as the module returned it
FaultUntrimmed(s) == s

ToTrimmedString(s) == IF s.sign = "-" THEN s ELSE Number(s.value)

StripSign(s) == String("+", s.zeros, s.value)

(* A library prints a minus sign only in front of a number; leading zeros *)
(* come with fixed-width output.                                          *)
Results == [sign : {"+"}, zeros : 0 .. MaxZeros, value : Values]
             \cup [sign : {"-"}, zeros : {0}, value : Values \ {0}]

(* The bignum of a deserialised operation: Bignum::transform leaves only *)
(* digits.                                                               *)
Inputs == [sign : {"+"}, zeros : 0 .. MaxZeros, value : Values]

-----------------------------------------------------------------------------
(* MutatorPool *)

Set(pools) == have' = have \cup (pools \cap Pools)

Have(pool) == pool \in have

Get(slots) == {slots[i] : i \in Slots}

Init == /\ have = {}
        /\ bignums = [i \in Slots |-> Empty]
        /\ primes = [i \in Slots |-> Empty]
        /\ fallback = "none"

-----------------------------------------------------------------------------
(* The executor: what postprocess stores of a module's result *)

Fits(s) == Size(s) <= kMaxBignumSize

(* Up to n results go into slots drawn at random: a later one may hit the *)
(* slot of an earlier one, and one that is too long is left out.          *)
StoreBignums(n) ==
  \E S \in SUBSET Slots :
    /\ Cardinality(S) <= n
    /\ \E new \in [S -> {s \in {ToTrimmedString(r) : r \in Results} : Fits(s)}] :
         bignums' = [i \in Slots |-> IF i \in S THEN new[i] ELSE bignums[i]]

Store(pools, n) == /\ Set(pools)
                   /\ StoreBignums(n)
                   /\ UNCHANGED <<primes, fallback>>

ECC_PrivateToPublic ==
  Store({"CurveECC_Point", "CurveKeypair", "CurvePrivkey"}, 2)

\* fault: the new key goes into the pool of private keys only
FaultKeyWithoutPair == Store({"CurveECC_Point", "CurvePrivkey"}, 0)

ECC_GenerateKeyPair ==
  Store({"CurveECC_Point", "CurveKeypair", "CurvePrivkey"}, 0)
ECCSI_Sign == Store({"CurveECCSISignature", "CurveECC_Point"}, 6)
ECDSA_Sign == Store({"CurveECC_Point", "CurveECDSASignature"}, 4)
ECGDSA_Sign == Store({"CurveECC_Point", "CurveECDSASignature"}, 4)
ECRDSA_Sign == Store({"CurveECC_Point", "CurveECDSASignature"}, 4)
Schnorr_Sign == Store({"CurveECC_Point", "CurveECDSASignature"}, 4)
DSA_Sign == Store({"DSASignature"}, 2)
DSA_GenerateKeyPair == Store({"DSA_PubPriv"}, 0)
DSA_GenerateParameters == Store({"DSA_PQG"}, 3)
ECC_Point_Add == Store({"CurveECC_Point"}, 2)
ECC_Point_Sub == Store({"CurveECC_Point"}, 2)
ECC_Point_Mul == Store({"CurveECC_Point"}, 2)
ECC_Point_Neg == Store({"CurveECC_Point"}, 2)
ECC_Point_Dbl == Store({"CurveECC_Point"}, 2)
DH_GenerateKeyPair == Store({"DH_PrivateKey", "DH_PublicKey"}, 0)
BignumCalc_Fp2 == Store({}, 2)
BignumCalc_Fp12 == Store({"Fp12"}, 0)
BLS_PrivateToPublic == Store({"CurveBLSG1"}, 2)
BLS_PrivateToPublic_G2 == Store({"CurveBLSG2"}, 4)
BLS_Sign == Store({"CurveBLSG1", "CurveBLSG2", "CurveBLSSignature"}, 6)
BLS_Pairing == Store({"Fp12"}, 0)
BLS_MillerLoop == Store({"Fp12"}, 0)
BLS_FinalExp == Store({"Fp12"}, 0)
BLS_HashToG1 == Store({"CurveBLSG1"}, 2)
BLS_MapToG1 == Store({"CurveBLSG1"}, 2)
BLS_MapToG2 == Store({"CurveBLSG2"}, 4)
BLS_GenerateKeyPair == Store({"CurveBLSG1"}, 3)
BLS_Decompress_G1 == Store({"CurveBLSG1"}, 2)
BLS_Compress_G1 == Store({}, 1)
BLS_Decompress_G2 == Store({"CurveBLSG2"}, 4)
BLS_Compress_G2 == Store({"CurveBLSG1"}, 2)
BLS_G1_Add == Store({"CurveBLSG1"}, 2)
BLS_G1_Mul == Store({"CurveBLSG1"}, 2)
BLS_G1_Neg == Store({"CurveBLSG1"}, 2)
BLS_G2_Add == Store({"CurveBLSG2"}, 4)
BLS_G2_Mul == Store({"CurveBLSG2"}, 4)
BLS_G2_Neg == Store({"CurveBLSG2"}, 4)
BLS_G1_MultiExp == Store({"CurveBLSG1"}, 2)
BLS_HashToG2 == Store({"CurveBLSG2"}, 4)
KEM_GenerateKeyPair == Store({"KEM_PrivateKey", "KEM_PublicKey"}, 0)
KEM_Encapsulate == Store({"KEM_Ciphertext", "KEM_SharedSecret"}, 0)
PQSign_GenerateKeyPair == Store({"PQSign_PrivateKey", "PQSign_PublicKey"}, 0)
PQSign_Sign == Store({"PQSign_Signature"}, 0)

(* Every signature of a batch has at least the aggregate as a pair. *)
BLS_BatchSign == Store({"CurveBLSG1", "CurveBLSG2", "BLS_BatchSignature"}, 0)

\* fault: the first operand is not measured
FaultNoSizeLimit(bn0) == TRUE

(* callModule refuses numbers that are too long. *)
BignumCalcAccepts(bn0) == Size(bn0) <= kMaxBignumSize

StoreBignum(s) == IF Fits(s) THEN \E i \in Slots : bignums' = [bignums EXCEPT ![i] = s]
                             ELSE UNCHANGED bignums

StorePrime(s) == /\ \E i \in Slots : primes' = [primes EXCEPT ![i] = s]
                 /\ Set({"Bignum_Primes"})

(* Only the results of Prime() and the operands that IsPrime(A) confirms *)
(* count as primes.                                                      *)
BignumCalc ==
  \E calcOp \in {"Prime()", "IsPrime(A)", "other"}, bn0 \in Inputs, r \in Results :
    LET bignum == ToTrimmedString(r)
        prime  == IF calcOp = "Prime()" THEN bignum ELSE ToTrimmedString(bn0)
        found  == \/ calcOp = "Prime()" /\ Fits(bignum)
                  \/ calcOp = "IsPrime(A)" /\ bignum = Number(1)
    IN  /\ BignumCalcAccepts(bn0)
        /\ StoreBignum(bignum)
        /\ IF found THEN StorePrime(prime) ELSE UNCHANGED <<have, primes>>
        /\ UNCHANGED fallback

-----------------------------------------------------------------------------
(* The mutator *)

(* getBignum: generated, from the table of numbers, or from the pool. *)
GetBignum == {Number(v) : v \in {v \in Values : Digits(v) < kMaxBignumSize}}
               \cup {StripSign(s) : s \in Get(bignums)}

LeadsWithZero(s) == s.sign = "+" /\ s.zeros > 0

\* fault: the mutation may add bytes
FaultGrowingBytes(s) == IF LeadsWithZero(s) THEN {s} ELSE {Number(w) : w \in Values}

(* libFuzzer mutates the bytes of the number in place: the result has no *)
(* more bytes than the number has.                                       *)
mutateBinary(s) ==
  IF LeadsWithZero(s)
    THEN {s}
    ELSE {Number(w) : w \in {w \in Values : \A p \in BytePowers : s.value < p => w < p}}

(* Out of Montgomery form modulo m: some number below m. *)
from_mont(y, m) ==
  IF y = Empty \/ LeadsWithZero(y) \/ m = Empty \/ LeadsWithZero(m)
    THEN {y}
    ELSE {Number(w) : w \in {w \in Values : w < m.value}}

StoreMont(m) == \E s \in GetBignum : \E y \in mutateBinary(s) :
                  \E v \in from_mont(y, m), i \in Slots :
                    bignums' = [bignums EXCEPT ![i] = v]

hint_ecc_mont == /\ \E o \in Orders : StoreMont(Number(o))
                 /\ UNCHANGED <<have, primes, fallback>>

(* InvMod and ExpMod store a number reduced by their own modulus. *)
HintModulus == /\ \E m \in GetBignum : StoreMont(m)
               /\ UNCHANGED <<have, primes, fallback>>

generateECCPoint == /\ \E pool \in {"CurveBLSG1", "CurveECC_Point"} : Set({pool})
                    /\ UNCHANGED <<bignums, primes, fallback>>

(* get_prime: a number that is not positive makes it fall back to getBignum. *)
get_prime ==
  \E p \in Get(primes) :
    /\ fallback' = IF p.value > 0 /\ p.sign = "+" THEN "none"
                   ELSE IF Have("Bignum_Primes") THEN "pool in use" ELSE "pool empty"
    /\ UNCHANGED <<have, bignums, primes>>

-----------------------------------------------------------------------------
CurveResult ==
  \/ ECC_PrivateToPublic \/ ECC_GenerateKeyPair \/ ECCSI_Sign \/ ECDSA_Sign
  \/ ECGDSA_Sign \/ ECRDSA_Sign \/ Schnorr_Sign \/ ECC_Point_Add
  \/ ECC_Point_Sub \/ ECC_Point_Mul \/ ECC_Point_Neg \/ ECC_Point_Dbl

OtherResult ==
  \/ DSA_Sign \/ DSA_GenerateKeyPair \/ DSA_GenerateParameters
  \/ DH_GenerateKeyPair \/ BignumCalc_Fp2 \/ BignumCalc_Fp12
  \/ KEM_GenerateKeyPair \/ KEM_Encapsulate \/ PQSign_GenerateKeyPair
  \/ PQSign_Sign \/ BignumCalc

PairingResult ==
  \/ BLS_PrivateToPublic \/ BLS_PrivateToPublic_G2 \/ BLS_Sign \/ BLS_Pairing
  \/ BLS_MillerLoop \/ BLS_FinalExp \/ BLS_HashToG1 \/ BLS_MapToG1
  \/ BLS_MapToG2 \/ BLS_GenerateKeyPair \/ BLS_Decompress_G1
  \/ BLS_Compress_G1 \/ BLS_Decompress_G2 \/ BLS_Compress_G2 \/ BLS_G1_Add
  \/ BLS_G1_Mul \/ BLS_G1_Neg \/ BLS_G2_Add \/ BLS_G2_Mul \/ BLS_G2_Neg
  \/ BLS_G1_MultiExp \/ BLS_HashToG2 \/ BLS_BatchSign

Mutate == \/ hint_ecc_mont \/ HintModulus \/ generateECCPoint \/ get_prime

Next == \/ CurveResult
        \/ OtherResult
        \/ PairingResult
        \/ Mutate

Spec == Init /\ [][Next]_vars

-----------------------------------------------------------------------------
Strings == [sign : {"+", "-"}, zeros : Nat, value : Values]

(* What the pools hold: flags of tracked pools and strings of digits, with *)
(* an optional sign, in every slot of the two number pools.                *)
TypeOK == /\ have \subseteq Pools
          /\ bignums \in [Slots -> Strings]
          /\ primes \in [Slots -> Strings]
          /\ fallback \in {"none", "pool empty", "pool in use"}

Parses(s) == s.zeros = 0 \/ s = Number(0)

(* Nothing the mutator hands to cpp_int from the pools (the draws of       *)
(* getBignum in generateECCPoint and the malleability test of              *)
(* ECDSA_Verify, the draw of get_prime) has a superfluous leading zero,    *)
(* which cpp_int would read as an octal number or reject.  It depends on   *)
(* every writer: the trimming of the executor and the numbers that the     *)
(* mutator computes and puts back.                                         *)
DrawsParse == \A s \in GetBignum \cup Get(primes) : Parses(s)

(* Numbers do not grow without bound by going round through the pool, the  *)
(* mutation and the pool again, although the mutator stores what it        *)
(* computes without measuring it: a number never needs more bytes than     *)
(* one of kMaxBignumSize digits.                                           *)
BignumsBounded == \A i \in Slots : bignums[i].value < ByteLimit

(* Every prime is short enough for the pool: the operand of IsPrime(A) is  *)
(* stored without a test of its own, and relies on the one callModule made *)
(* before the module ran.                                                  *)
PrimesFit == \A i \in Slots : Fits(primes[i])

(* Reads of one pool that the mutator guards with the flag of another:     *)
(* ECDH_Derive asks for a private key and reads key pairs, BLS_BatchVerify *)
(* asks for a batch signature and reads points of both groups.             *)
CrossReads == { <<"CurvePrivkey", "CurveKeypair">>,
                <<"BLS_BatchSignature", "CurveBLSG1">>,
                <<"BLS_BatchSignature", "CurveBLSG2">> }

(* A guard that asks one pool suffices for reading the other: whichever    *)
(* handler stored in the first had something to store in the second.       *)
GuardSuffices == \A g \in CrossReads : Have(g[1]) /\ g[2] \in Pools => Have(g[2])

(* Drawing a prime falls back to an ordinary number only while no prime    *)
(* was ever stored, as the comment of get_prime says ("Prime pool is       *)
(* empty"): it does not hold, because Get may draw a slot that was never   *)
(* written although another one was.                                       *)
FallbackMeansEmpty == fallback # "pool in use"
=============================================================================
