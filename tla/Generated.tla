----------------------------- MODULE Generated -----------------------------
(***************************************************************************)
(* The parameters LLVMFuzzerCustomMutator draws for each operation: for    *)
(* every JSON key a case of its switch sets, a few of the values it may    *)
(* draw, the usual one first.  Which pool a value comes from makes no      *)
(* difference here, so a key stands for all branches that set it.          *)
(***************************************************************************)
EXTENDS Integers, Sequences, TLC

CONSTANTS
  ByteValues,   \* number of values of a byte
  MaxSize       \* the room libFuzzer gives the mutator

(* A number with as many bytes as its C++ type has.                        *)
Spelled(n, size) ==
  [i \in 1 .. size |-> IF i > 3 THEN 0 ELSE (n \div ByteValues ^ (i - 1)) % ByteValues]

(* getBuffer, DecToHex, the pools and get_BLS_predefined_DST; getBignum;   *)
(* "" where the mutator sets it; IDs of tables, in eight bytes; getBool;   *)
(* PRNG() % below; and the sizes of arrays.                                *)
Buffers(names) == [n \in names |-> <<<<7, 200>>, <<>>>>]
Bignums(names) == [n \in names |-> <<<<57, 49>>, <<48>>, <<>>>>]
Blank(names) == [n \in names |-> <<<<>>>>]
Types(names) == [n \in names |-> <<<<1, 2, 3, 4, 5, 6, 7, 248>>>>]
Flags(names) == [n \in names |-> <<<<1>>, <<0>>>>]
Below(name, size, below) == name :> <<Spelled(below - 1, size), Spelled(0, size)>>
Counts(name, counts) == name :> [i \in DOMAIN counts |-> Spelled(counts[i], 4)]

Cipher == Buffers({"cipher.iv", "cipher.key"}) @@ Types({"cipher.cipherType"})

SignatureOf ==
  Bignums({"signature[0]", "signature[1]", "pub[0]", "pub[1]"})

-----------------------------------------------------------------------------

Digest == Buffers({"cleartext"}) @@ Types({"digestType"})

HMAC == Cipher @@ Buffers({"cleartext"}) @@ Types({"digestType"})

UMAC ==
  Buffers({"cleartext", "key", "iv"}) @@ Below("type", 8, 4) @@
  Below("outSize", 8, 1024)

CMAC == Cipher @@ Buffers({"cleartext"})

SymmetricEncrypt ==
  Cipher @@ Flags({"aad_enabled", "tagSize_enabled"}) @@
  Buffers({"cleartext", "aad"}) @@ Below("tagSize", 8, 102400) @@
  Below("ciphertextSize", 8, MaxSize + 9)

SymmetricDecrypt ==
  Cipher @@ Flags({"aad_enabled", "tag_enabled"}) @@
  Buffers({"ciphertext", "aad", "tag"}) @@
  Below("cleartextSize", 8, MaxSize + 9)

BignumCalc ==
  Types({"calcOp"}) @@ Bignums({"bn1", "bn2", "bn3"}) @@ Blank({"bn4"})

BignumCalc_Fp2 ==
  Types({"calcOp"}) @@ Bignums({"bn1", "bn2"}) @@ Blank({"bn3", "bn4"})

BignumCalc_Fp12 ==
  Types({"calcOp"}) @@ Bignums({"bn1", "bn2"}) @@ Blank({"bn3", "bn4"})

ECC_PrivateToPublic == Types({"curveType"}) @@ Bignums({"priv"})

ECC_ValidatePubkey == Types({"curveType"}) @@ Bignums({"pub_x", "pub_y"})

DSA_GenerateParameters == <<>>

DSA_PrivateToPublic == Bignums({"p", "g", "priv"})

DSA_GenerateKeyPair == Bignums({"p", "q", "g"})

DSA_Verify ==
  Bignums({"p", "q", "g", "pub", "signature[0]", "signature[1]"}) @@
  Buffers({"cleartext"})

DSA_Sign == Bignums({"p", "q", "g", "priv"}) @@ Buffers({"cleartext"})

ECDH_Derive == Types({"curveType"}) @@ Bignums({"priv", "pub_x", "pub_y"})

ECCSI_Sign ==
  Types({"curveType", "digestType"}) @@ Bignums({"priv"}) @@
  Buffers({"cleartext", "id"})

ECDSA_Sign ==
  Types({"curveType", "digestType"}) @@ Bignums({"priv", "nonce"}) @@
  Buffers({"cleartext"}) @@ Below("nonceSource", 1, 3)

ECGDSA_Sign == ECDSA_Sign

ECRDSA_Sign == ECDSA_Sign

Schnorr_Sign == ECDSA_Sign

ECCSI_Verify ==
  Types({"curveType", "digestType"}) @@ SignatureOf @@
  Bignums({"pvt[0]", "pvt[1]"}) @@ Buffers({"cleartext", "id"})

ECDSA_Verify ==
  Types({"curveType", "digestType"}) @@ SignatureOf @@ Buffers({"cleartext"})

ECGDSA_Verify == ECDSA_Verify

ECRDSA_Verify == ECDSA_Verify

Schnorr_Verify == ECDSA_Verify

ECDSA_Recover ==
  Types({"curveType", "digestType"}) @@
  Bignums({"signature[0]", "signature[1]"}) @@ Buffers({"cleartext"}) @@
  Below("id", 1, 4)

ECC_GenerateKeyPair == Types({"curveType"})

ECIES_Encrypt ==
  Buffers({"cleartext"}) @@ Bignums({"priv", "pub_x", "pub_y"}) @@
  Types({"curveType", "cipherType"}) @@ ("iv_enabled" :> <<<<0>>>>)

ECIES_Decrypt ==
  Buffers({"ciphertext"}) @@ Bignums({"priv", "pub_x", "pub_y"}) @@
  Types({"curveType", "cipherType"}) @@ ("iv_enabled" :> <<<<0>>>>)

ECC_Point_Add == Types({"curveType"}) @@ Bignums({"a_x", "a_y", "b_x", "b_y"})

ECC_Point_Sub == ECC_Point_Add

ECC_Point_Mul == Types({"curveType"}) @@ Bignums({"a_x", "a_y", "b"})

ECC_Point_Neg == Types({"curveType"}) @@ Bignums({"a_x", "a_y"})

ECC_Point_Dbl == ECC_Point_Neg

ECC_Point_Cmp == ECC_Point_Add

KDF_SCRYPT ==
  Buffers({"password", "salt"}) @@ Below("N", 8, 5) @@ Below("r", 8, 9) @@
  Below("p", 8, 5) @@ Below("keySize", 8, 1024)

KDF_HKDF ==
  Types({"digestType"}) @@ Buffers({"password", "salt", "info"}) @@
  Below("keySize", 8, 17000)

KDF_TLS1_PRF ==
  Types({"digestType"}) @@ Buffers({"secret", "seed"}) @@
  Below("keySize", 8, 1024)

KDF_PBKDF ==
  Types({"digestType"}) @@ Buffers({"password", "salt"}) @@
  Below("iterations", 8, 5) @@ Below("keySize", 8, 1024)

KDF_PBKDF1 == KDF_PBKDF

KDF_PBKDF2 == KDF_PBKDF

KDF_ARGON2 ==
  Buffers({"password", "salt"}) @@ Below("type", 1, 3) @@
  Below("threads", 1, 256) @@ Below("memory", 4, 64 * 1024) @@
  Below("iterations", 4, 3) @@ Below("keySize", 4, 1024)

KDF_SSH ==
  Types({"digestType"}) @@
  Buffers({"key", "xcghash", "session_id", "type"}) @@
  Below("keySize", 8, 1024)

KDF_X963 ==
  Types({"digestType"}) @@ Buffers({"secret", "info"}) @@
  Below("keySize", 8, 1024)

KDF_SP_800_108 ==
  Flags({"mech.mode"}) @@ Types({"mech.type"}) @@
  Buffers({"secret", "salt", "label"}) @@ Below("mode", 1, 3) @@
  Below("keySize", 8, 17000)

KDF_SRTP ==
  Buffers({"key", "salt"}) @@ Below("kdr", 1, 256) @@
  Below("index", 8, 32767) @@ Below("key1Size", 8, 1024 * 1024) @@
  Below("key2Size", 8, 1024 * 1024) @@ Below("key3Size", 8, 1024 * 1024)

KDF_SRTCP ==
  Buffers({"key", "salt"}) @@ Below("kdr", 1, 256) @@
  Below("index", 4, 32767) @@ Below("key1Size", 8, 1024 * 1024) @@
  Below("key2Size", 8, 1024 * 1024) @@ Below("key3Size", 8, 1024 * 1024)

DH_GenerateKeyPair == Bignums({"prime", "base"})

DH_Derive == Bignums({"prime", "base", "pub", "priv"})

BLS_PrivateToPublic == Types({"curveType"}) @@ Bignums({"priv"})

BLS_PrivateToPublic_G2 == Types({"curveType"}) @@ Bignums({"priv"})

FaultBLS_Sign ==   \* fault: the signature is drawn without aug
  Types({"curveType"}) @@ Flags({"hashOrPoint"}) @@
  Bignums({"priv", "point_v", "point_w", "point_x", "point_y"}) @@
  Buffers({"cleartext", "dest"})

BLS_Sign ==
  Types({"curveType"}) @@ Flags({"hashOrPoint"}) @@
  Bignums({"priv", "point_v", "point_w", "point_x", "point_y"}) @@
  Buffers({"cleartext", "dest"}) @@ Blank({"aug"})

BLS_Verify ==
  Types({"curveType"}) @@ Flags({"hashOrPoint"}) @@
  Bignums({"point_v", "point_w", "point_x", "point_y"}) @@
  Bignums({"pub_x", "pub_y", "sig_v", "sig_w", "sig_x", "sig_y"}) @@
  Buffers({"cleartext", "dest"})

BLS_BatchSign == Counts("bf", <<1, 2>>) @@ Bignums({"priv", "g1_x", "g1_y"})

BLS_BatchVerify ==
  Counts("bf", <<1, 0>>) @@
  Bignums({"g1_x", "g1_y", "g2_v", "g2_w", "g2_x", "g2_y"})

BLS_IsG1OnCurve == Types({"curveType"}) @@ Bignums({"g1_x", "g1_y"})

BLS_IsG2OnCurve ==
  Types({"curveType"}) @@ Bignums({"g2_v", "g2_w", "g2_x", "g2_y"})

BLS_GenerateKeyPair == Types({"curveType"}) @@ Buffers({"ikm", "info"})

BLS_Decompress_G1 == Types({"curveType"}) @@ Bignums({"compressed"})

BLS_Compress_G1 == BLS_IsG1OnCurve

BLS_Decompress_G2 == BLS_IsG1OnCurve

BLS_Compress_G2 == BLS_IsG2OnCurve

BLS_HashToG1 == Types({"curveType"}) @@ Buffers({"cleartext", "dest", "aug"})

BLS_HashToG2 == BLS_HashToG1

BLS_MapToG1 == Types({"curveType"}) @@ Bignums({"u", "v"})

BLS_MapToG2 == Types({"curveType"}) @@ Bignums({"u[0]", "u[1]", "v[0]", "v[1]"})

BLS_Pairing ==
  Types({"curveType"}) @@
  Bignums({"g1_x", "g1_y", "g2_v", "g2_w", "g2_x", "g2_y"})

BLS_MillerLoop == BLS_Pairing

BLS_FinalExp == Types({"curveType"}) @@ Bignums({"fp12"})

BLS_G1_Add == ECC_Point_Add

BLS_G1_Mul == ECC_Point_Mul

BLS_G1_IsEq == ECC_Point_Add

BLS_G1_Neg == ECC_Point_Neg

BLS_G2_Add ==
  Types({"curveType"}) @@ Bignums({"a_v", "a_w", "a_x", "a_y"}) @@
  Bignums({"b_v", "b_w", "b_x", "b_y"})

BLS_G2_Mul == Types({"curveType"}) @@ Bignums({"a_v", "a_w", "a_x", "a_y", "b"})

BLS_G2_IsEq == BLS_G2_Add

BLS_G2_Neg == Types({"curveType"}) @@ Bignums({"a_v", "a_w", "a_x", "a_y"})

BLS_G1_MultiExp ==
  Types({"curveType"}) @@ Counts("points_scalars", <<2, 3>>) @@
  Bignums({"x", "y", "scalar"})

SR25519_Verify ==
  Bignums({"signature[0]", "signature[1]", "pub"}) @@ Buffers({"cleartext"})

KEM_GenerateKeyPair ==
  Types({"kemType"}) @@ Flags({"seed_enabled"}) @@ Buffers({"seed"})

KEM_Encapsulate ==
  Types({"kemType"}) @@ Flags({"seed_enabled"}) @@ Buffers({"pub", "seed"})

KEM_Decapsulate == Types({"kemType"}) @@ Buffers({"priv", "ciphertext"})

PQSign_GenerateKeyPair ==
  Types({"pqsignType"}) @@ Flags({"seed_enabled"}) @@ Buffers({"seed"})

PQSign_Sign ==
  Types({"pqsignType"}) @@ Flags({"context_enabled"}) @@
  Buffers({"priv", "message", "context"})

PQSign_Verify ==
  Types({"pqsignType"}) @@ Flags({"context_enabled"}) @@
  Buffers({"pub", "message", "signature", "context"})

(* The cases of the switch by the operation they are for.                  *)
GeneratedDraws ==
  [Digest |-> Digest, HMAC |-> HMAC, UMAC |-> UMAC, CMAC |-> CMAC,
   SymmetricEncrypt |-> SymmetricEncrypt,
   SymmetricDecrypt |-> SymmetricDecrypt, BignumCalc |-> BignumCalc,
   BignumCalc_Fp2 |-> BignumCalc_Fp2, BignumCalc_Fp12 |-> BignumCalc_Fp12,
   ECC_PrivateToPublic |-> ECC_PrivateToPublic,
   ECC_ValidatePubkey |-> ECC_ValidatePubkey,
   DSA_GenerateParameters |-> DSA_GenerateParameters,
   DSA_PrivateToPublic |-> DSA_PrivateToPublic,
   DSA_GenerateKeyPair |-> DSA_GenerateKeyPair, DSA_Verify |-> DSA_Verify,
   DSA_Sign |-> DSA_Sign, ECDH_Derive |-> ECDH_Derive,
   ECCSI_Sign |-> ECCSI_Sign, ECDSA_Sign |-> ECDSA_Sign,
   ECGDSA_Sign |-> ECGDSA_Sign, ECRDSA_Sign |-> ECRDSA_Sign,
   Schnorr_Sign |-> Schnorr_Sign, ECCSI_Verify |-> ECCSI_Verify,
   ECDSA_Verify |-> ECDSA_Verify, ECGDSA_Verify |-> ECGDSA_Verify,
   ECRDSA_Verify |-> ECRDSA_Verify, Schnorr_Verify |-> Schnorr_Verify,
   ECDSA_Recover |-> ECDSA_Recover,
   ECC_GenerateKeyPair |-> ECC_GenerateKeyPair,
   ECIES_Encrypt |-> ECIES_Encrypt, ECIES_Decrypt |-> ECIES_Decrypt,
   ECC_Point_Add |-> ECC_Point_Add, ECC_Point_Sub |-> ECC_Point_Sub,
   ECC_Point_Mul |-> ECC_Point_Mul, ECC_Point_Neg |-> ECC_Point_Neg,
   ECC_Point_Dbl |-> ECC_Point_Dbl, ECC_Point_Cmp |-> ECC_Point_Cmp,
   KDF_SCRYPT |-> KDF_SCRYPT, KDF_HKDF |-> KDF_HKDF,
   KDF_TLS1_PRF |-> KDF_TLS1_PRF, KDF_PBKDF |-> KDF_PBKDF,
   KDF_PBKDF1 |-> KDF_PBKDF1, KDF_PBKDF2 |-> KDF_PBKDF2,
   KDF_ARGON2 |-> KDF_ARGON2, KDF_SSH |-> KDF_SSH, KDF_X963 |-> KDF_X963,
   KDF_SP_800_108 |-> KDF_SP_800_108, KDF_SRTP |-> KDF_SRTP,
   KDF_SRTCP |-> KDF_SRTCP, DH_GenerateKeyPair |-> DH_GenerateKeyPair,
   DH_Derive |-> DH_Derive, BLS_PrivateToPublic |-> BLS_PrivateToPublic,
   BLS_PrivateToPublic_G2 |-> BLS_PrivateToPublic_G2, BLS_Sign |-> BLS_Sign,
   BLS_Verify |-> BLS_Verify, BLS_BatchSign |-> BLS_BatchSign,
   BLS_BatchVerify |-> BLS_BatchVerify, BLS_IsG1OnCurve |-> BLS_IsG1OnCurve,
   BLS_IsG2OnCurve |-> BLS_IsG2OnCurve,
   BLS_GenerateKeyPair |-> BLS_GenerateKeyPair,
   BLS_Decompress_G1 |-> BLS_Decompress_G1,
   BLS_Compress_G1 |-> BLS_Compress_G1,
   BLS_Decompress_G2 |-> BLS_Decompress_G2,
   BLS_Compress_G2 |-> BLS_Compress_G2, BLS_HashToG1 |-> BLS_HashToG1,
   BLS_HashToG2 |-> BLS_HashToG2, BLS_MapToG1 |-> BLS_MapToG1,
   BLS_MapToG2 |-> BLS_MapToG2, BLS_Pairing |-> BLS_Pairing,
   BLS_MillerLoop |-> BLS_MillerLoop, BLS_FinalExp |-> BLS_FinalExp,
   BLS_G1_Add |-> BLS_G1_Add, BLS_G1_Mul |-> BLS_G1_Mul,
   BLS_G1_IsEq |-> BLS_G1_IsEq, BLS_G1_Neg |-> BLS_G1_Neg,
   BLS_G2_Add |-> BLS_G2_Add, BLS_G2_Mul |-> BLS_G2_Mul,
   BLS_G2_IsEq |-> BLS_G2_IsEq, BLS_G2_Neg |-> BLS_G2_Neg,
   BLS_G1_MultiExp |-> BLS_G1_MultiExp, SR25519_Verify |-> SR25519_Verify,
   KEM_GenerateKeyPair |-> KEM_GenerateKeyPair,
   KEM_Encapsulate |-> KEM_Encapsulate, KEM_Decapsulate |-> KEM_Decapsulate,
   PQSign_GenerateKeyPair |-> PQSign_GenerateKeyPair,
   PQSign_Sign |-> PQSign_Sign, PQSign_Verify |-> PQSign_Verify]

=============================================================================
