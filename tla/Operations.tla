----------------------------- MODULE Operations -----------------------------
(***************************************************************************)
(* What the operations of operations.h look like in an input.  A layout is *)
(* the sequence of items that the constructor taking a Datasource reads,   *)
(* in its order, each with how Serialize writes it.  Values are strings of *)
(* bytes; a number is spelled with as many bytes as its C++ type has.      *)
(*                                                                         *)
(* An item says what it is called in the JSON parameters, how the reader   *)
(* takes it (kind), the sizes it asks the data source for (max = 0 is      *)
(* none), the modulus it applies (0 is none), how it is written (put), and *)
(* which items follow it when it is true, or once for each it counts.      *)
(***************************************************************************)
EXTENDS Integers, Sequences

TenMB == 10 * 1024 * 1024

Item(name, kind, min, max, below) ==
  [name |-> name, kind |-> kind, min |-> min, max |-> max, below |-> below,
   put |-> "all", gives |-> <<>>]

(* Type, Get<uint64_t>() % below, Get<bool>(), Buffer, and Bignum.         *)
Number(name, size, below) == Item(name, "number", size, size, below)
Type(name) == Number(name, 8, 0)
Flag(name) == Item(name, "flag", 1, 1, 0)
Data(name) == Item(name, "bytes", 0, TenMB, 0)
Big(name) == Item(name, "digits", 0, TenMB, 0)
Bigs(names) == [i \in DOMAIN names |-> Big(names[i])]

(* An optional item, behind a flag that says it is there ...               *)
Present(name, item) == [Flag(name) EXCEPT !.gives = <<item>>]

(* ... or, in most of the operations, that it is not; and a counted list.  *)
Absent(name, item) == [Present(name, item) EXCEPT !.kind = "absence"]
Each(name, items) == [Number(name, 4, 0) EXCEPT !.kind = "count", !.gives = items]

(* Items whose Serialize does not write what the constructor reads.        *)
LowByte(item) == [item EXCEPT !.put = "low byte"]
Unwritten(item) == [item EXCEPT !.put = "nothing"]

(* The components: SymmetricCipher, ECDSA_Signature, DSA_Parameters, and   *)
(* elements of extension fields with n coordinates.                        *)
Cipher == <<Data("cipher.iv"), Data("cipher.key"), Type("cipher.cipherType")>>
Signature == Bigs(<<"signature[0]", "signature[1]", "pub[0]", "pub[1]">>)
DSA_Parameters == Bigs(<<"p", "q", "g">>)
Tower(names, n) == [i \in 1 .. n * Len(names) |-> Big(names[(i - 1) \div n + 1])]

-----------------------------------------------------------------------------

Digest == <<Data("cleartext"), Type("digestType")>>

HMAC == <<Data("cleartext"), Type("digestType")>> \o Cipher

UMAC ==
  <<Data("cleartext"), Data("key"), Data("iv"), LowByte(Number("type", 8, 4)),
   Number("outSize", 8, 1024)>>

SymmetricEncrypt ==
  <<Data("cleartext")>> \o Cipher \o <<Absent("aad_enabled", Data("aad")),
   Number("ciphertextSize", 8, TenMB),
   Absent("tagSize_enabled", Number("tagSize", 8, TenMB))>>

SymmetricDecrypt ==
  <<Data("ciphertext")>> \o Cipher \o <<Absent("tag_enabled", Data("tag")),
   Absent("aad_enabled", Data("aad")), Number("cleartextSize", 8, TenMB)>>

KDF_SCRYPT ==
  <<Data("password"), Data("salt"), Number("N", 8, 5), Number("r", 8, 9),
   Number("p", 8, 5), Number("keySize", 8, 1024)>>

FaultKDF_HKDF ==   \* fault: the bound of the other derivations
  <<Type("digestType"), Data("password"), Data("salt"), Data("info"),
   Number("keySize", 8, 1024)>>

KDF_HKDF ==
  <<Type("digestType"), Data("password"), Data("salt"), Data("info"),
   Number("keySize", 8, 17000)>>

KDF_TLS1_PRF ==
  <<Type("digestType"), Data("secret"), Data("seed"),
   Number("keySize", 8, 1024)>>

KDF_PBKDF ==
  <<Type("digestType"), Data("password"), Data("salt"),
   Number("iterations", 8, 5), Number("keySize", 8, 1024)>>

KDF_PBKDF1 == KDF_PBKDF

KDF_PBKDF2 == KDF_PBKDF

KDF_ARGON2 ==
  <<Data("password"), Data("salt"), Number("type", 1, 0),
   Number("threads", 1, 0), Number("memory", 4, 64 * 1024),
   Number("iterations", 4, 3), Number("keySize", 4, 1024)>>

KDF_SSH ==
  <<Type("digestType"), Data("key"), Data("xcghash"), Data("session_id"),
   Data("type"), Number("keySize", 8, 1024)>>

KDF_X963 ==
  <<Type("digestType"), Data("secret"), Data("info"),
   Number("keySize", 8, 1024)>>

KDF_SP_800_108 ==
  <<Flag("mech.mode"), Type("mech.type"), Data("secret"), Data("salt"),
   Data("label"), Number("mode", 1, 0), Number("keySize", 8, 17000)>>

KDF_SRTP ==
  <<Data("key"), Data("salt"), Number("kdr", 1, 0),
   Unwritten(Number("index", 8, 0)), Number("key1Size", 8, 1024 * 1024),
   Number("key2Size", 8, 1024 * 1024), Number("key3Size", 8, 1024 * 1024)>>

KDF_SRTCP ==
  <<Data("key"), Data("salt"), Number("kdr", 1, 0),
   Unwritten(Number("index", 4, 0)), Number("key1Size", 8, 1024 * 1024),
   Number("key2Size", 8, 1024 * 1024), Number("key3Size", 8, 1024 * 1024)>>

CMAC == <<Data("cleartext")>> \o Cipher

ECC_PrivateToPublic == <<Type("curveType"), Big("priv")>>

ECC_ValidatePubkey == <<Type("curveType")>> \o Bigs(<<"pub_x", "pub_y">>)

ECC_GenerateKeyPair == <<Type("curveType")>>

ECCSI_Sign ==
  <<Type("curveType"), Big("priv"), Data("cleartext"), Data("id"),
   Type("digestType")>>

ECDSA_Sign ==
  <<Type("curveType"), Big("priv"), Big("nonce"), Data("cleartext"),
   Number("nonceSource", 1, 0), Type("digestType")>>

ECGDSA_Sign == ECDSA_Sign

ECRDSA_Sign == ECDSA_Sign

Schnorr_Sign == ECDSA_Sign

ECCSI_Verify ==
  <<Type("curveType"), Data("cleartext"), Data("id")>> \o
   Bigs(<<"signature[0]", "signature[1]">>) \o Bigs(<<"pub[0]", "pub[1]">>) \o
   Bigs(<<"pvt[0]", "pvt[1]">>) \o <<Type("digestType")>>

ECDSA_Verify ==
  <<Type("curveType"), Data("cleartext")>> \o Signature \o
   <<Type("digestType")>>

ECGDSA_Verify == ECDSA_Verify

ECRDSA_Verify == ECDSA_Verify

ECDSA_Recover ==
  <<Type("curveType"), Data("cleartext")>> \o
   Bigs(<<"signature[0]", "signature[1]">>) \o <<Type("digestType"),
   Number("id", 1, 0)>>

DSA_GenerateParameters == <<>>

DSA_PrivateToPublic == <<Unwritten(Big("g")), Unwritten(Big("p")), Big("priv")>>

DSA_GenerateKeyPair == Bigs(<<"p", "q", "g">>)

DSA_Sign == DSA_Parameters \o <<Big("priv"), Data("cleartext")>>

DSA_Verify ==
  DSA_Parameters \o <<Big("pub")>> \o Bigs(<<"signature[0]", "signature[1]">>)
  \o <<Data("cleartext")>>

Schnorr_Verify == ECDSA_Verify

ECDH_Derive == <<Type("curveType"), Big("priv")>> \o Bigs(<<"pub_x", "pub_y">>)

KEM_GenerateKeyPair ==
  <<Type("kemType"), Present("seed_enabled", Data("seed"))>>

KEM_Encapsulate ==
  <<Type("kemType"), Data("pub"), Present("seed_enabled", Data("seed"))>>

KEM_Decapsulate == <<Type("kemType"), Data("priv"), Data("ciphertext")>>

PQSign_GenerateKeyPair ==
  <<Type("pqsignType"), Present("seed_enabled", Data("seed"))>>

PQSign_Sign ==
  <<Type("pqsignType"), Data("priv"), Data("message"),
   Present("context_enabled", Data("context"))>>

PQSign_Verify ==
  <<Type("pqsignType"), Data("pub"), Data("message"), Data("signature"),
   Present("context_enabled", Data("context"))>>

ECIES_Encrypt ==
  <<Data("cleartext"), Type("curveType"), Big("priv")>> \o
   Bigs(<<"pub_x", "pub_y">>) \o <<Type("cipherType"),
   Absent("iv_enabled", Data("iv"))>>

ECIES_Decrypt ==
  <<Data("ciphertext"), Type("curveType"), Big("priv")>> \o
   Bigs(<<"pub_x", "pub_y">>) \o <<Type("cipherType"),
   Absent("iv_enabled", Data("iv"))>>

ECC_Point_Add == <<Type("curveType")>> \o Bigs(<<"a_x", "a_y", "b_x", "b_y">>)

ECC_Point_Sub == ECC_Point_Add

ECC_Point_Mul == <<Type("curveType")>> \o Bigs(<<"a_x", "a_y", "b">>)

ECC_Point_Neg == <<Type("curveType")>> \o Bigs(<<"a_x", "a_y">>)

ECC_Point_Dbl == ECC_Point_Neg

ECC_Point_Cmp == ECC_Point_Add

DH_GenerateKeyPair == Bigs(<<"prime", "base">>)

DH_Derive == Bigs(<<"prime", "base", "pub", "priv">>)

BignumCalc == <<Type("calcOp")>> \o Bigs(<<"bn1", "bn2", "bn3", "bn4">>)

BignumCalc_Fp2 == <<Type("calcOp")>> \o Tower(<<"bn1", "bn2", "bn3", "bn4">>, 2)

BignumCalc_Fp12 ==
  <<Type("calcOp")>> \o Tower(<<"bn1", "bn2", "bn3", "bn4">>, 12)

BLS_PrivateToPublic == ECC_PrivateToPublic

BLS_PrivateToPublic_G2 == ECC_PrivateToPublic

BLS_Sign ==
  <<Type("curveType"), Big("priv"), Flag("hashOrPoint")>> \o
   Bigs(<<"point_v", "point_w", "point_x", "point_y">>) \o <<Data("cleartext"),
   Data("dest"), Data("aug")>>

BLS_Verify ==
  <<Type("curveType")>> \o Bigs(<<"pub_x", "pub_y">>) \o
   <<Flag("hashOrPoint")>> \o
   Bigs(<<"point_v", "point_w", "point_x", "point_y">>) \o <<Data("cleartext"),
   Data("dest")>> \o Bigs(<<"sig_v", "sig_w", "sig_x", "sig_y">>)

BLS_BatchSign == <<Each("bf", Bigs(<<"priv", "g1_x", "g1_y">>))>>

BLS_BatchVerify ==
  <<Each("bf", Bigs(<<"g1_x", "g1_y", "g2_v", "g2_w", "g2_x", "g2_y">>))>>

BLS_Aggregate_G1 == <<Type("curveType"), Each("points", Bigs(<<"x", "y">>))>>

BLS_Aggregate_G2 ==
  <<Type("curveType"), Each("points", Bigs(<<"v", "w", "x", "y">>))>>

BLS_Pairing ==
  <<Type("curveType")>> \o
   Bigs(<<"g1_x", "g1_y", "g2_v", "g2_w", "g2_x", "g2_y">>)

BLS_MillerLoop == BLS_Pairing

BLS_FinalExp == <<Type("curveType")>> \o Tower(<<"fp12">>, 12)

BLS_HashToG1 ==
  <<Type("curveType"), Data("cleartext"), Data("dest"), Data("aug")>>

BLS_HashToG2 == BLS_HashToG1

BLS_MapToG1 == <<Type("curveType")>> \o Bigs(<<"u", "v">>)

BLS_MapToG2 == <<Type("curveType")>> \o Bigs(<<"u[0]", "u[1]", "v[0]", "v[1]">>)

BLS_IsG1OnCurve == <<Type("curveType")>> \o Bigs(<<"g1_x", "g1_y">>)

BLS_IsG2OnCurve ==
  <<Type("curveType")>> \o Bigs(<<"g2_v", "g2_w", "g2_x", "g2_y">>)

BLS_GenerateKeyPair == <<Type("curveType"), Data("ikm"), Data("info")>>

BLS_Decompress_G1 == <<Type("curveType"), Big("compressed")>>

BLS_Compress_G1 == BLS_IsG1OnCurve

BLS_Decompress_G2 == BLS_IsG1OnCurve

BLS_Compress_G2 == BLS_IsG2OnCurve

BLS_G1_Add == ECC_Point_Add

BLS_G1_IsEq == ECC_Point_Add

BLS_G1_Mul == ECC_Point_Mul

BLS_G1_Neg == ECC_Point_Neg

BLS_G2_Add ==
  <<Type("curveType")>> \o Bigs(<<"a_v", "a_w", "a_x", "a_y">>) \o
   Bigs(<<"b_v", "b_w", "b_x", "b_y">>)

BLS_G2_IsEq == BLS_G2_Add

BLS_G2_Mul == <<Type("curveType")>> \o Bigs(<<"a_v", "a_w", "a_x", "a_y", "b">>)

BLS_G2_Neg == <<Type("curveType")>> \o Bigs(<<"a_v", "a_w", "a_x", "a_y">>)

BLS_G1_MultiExp ==
  <<Type("curveType"), Each("points_scalars", Bigs(<<"x", "y", "scalar">>))>>

Misc == <<Type("operation")>>

SR25519_Verify ==
  <<Data("cleartext")>> \o Bigs(<<"signature[0]", "signature[1]", "pub">>)

(* The operations by name.                                                 *)
OperationLayouts ==
  [Digest |-> Digest, HMAC |-> HMAC, UMAC |-> UMAC,
   SymmetricEncrypt |-> SymmetricEncrypt,
   SymmetricDecrypt |-> SymmetricDecrypt, KDF_SCRYPT |-> KDF_SCRYPT,
   KDF_HKDF |-> KDF_HKDF, KDF_TLS1_PRF |-> KDF_TLS1_PRF,
   KDF_PBKDF |-> KDF_PBKDF, KDF_PBKDF1 |-> KDF_PBKDF1,
   KDF_PBKDF2 |-> KDF_PBKDF2, KDF_ARGON2 |-> KDF_ARGON2, KDF_SSH |-> KDF_SSH,
   KDF_X963 |-> KDF_X963, KDF_SP_800_108 |-> KDF_SP_800_108,
   KDF_SRTP |-> KDF_SRTP, KDF_SRTCP |-> KDF_SRTCP, CMAC |-> CMAC,
   ECC_PrivateToPublic |-> ECC_PrivateToPublic,
   ECC_ValidatePubkey |-> ECC_ValidatePubkey,
   ECC_GenerateKeyPair |-> ECC_GenerateKeyPair, ECCSI_Sign |-> ECCSI_Sign,
   ECDSA_Sign |-> ECDSA_Sign, ECGDSA_Sign |-> ECGDSA_Sign,
   ECRDSA_Sign |-> ECRDSA_Sign, Schnorr_Sign |-> Schnorr_Sign,
   ECCSI_Verify |-> ECCSI_Verify, ECDSA_Verify |-> ECDSA_Verify,
   ECGDSA_Verify |-> ECGDSA_Verify, ECRDSA_Verify |-> ECRDSA_Verify,
   ECDSA_Recover |-> ECDSA_Recover,
   DSA_GenerateParameters |-> DSA_GenerateParameters,
   DSA_PrivateToPublic |-> DSA_PrivateToPublic,
   DSA_GenerateKeyPair |-> DSA_GenerateKeyPair, DSA_Sign |-> DSA_Sign,
   DSA_Verify |-> DSA_Verify, Schnorr_Verify |-> Schnorr_Verify,
   ECDH_Derive |-> ECDH_Derive, KEM_GenerateKeyPair |-> KEM_GenerateKeyPair,
   KEM_Encapsulate |-> KEM_Encapsulate, KEM_Decapsulate |-> KEM_Decapsulate,
   PQSign_GenerateKeyPair |-> PQSign_GenerateKeyPair,
   PQSign_Sign |-> PQSign_Sign, PQSign_Verify |-> PQSign_Verify,
   ECIES_Encrypt |-> ECIES_Encrypt, ECIES_Decrypt |-> ECIES_Decrypt,
   ECC_Point_Add |-> ECC_Point_Add, ECC_Point_Sub |-> ECC_Point_Sub,
   ECC_Point_Mul |-> ECC_Point_Mul, ECC_Point_Neg |-> ECC_Point_Neg,
   ECC_Point_Dbl |-> ECC_Point_Dbl, ECC_Point_Cmp |-> ECC_Point_Cmp,
   DH_GenerateKeyPair |-> DH_GenerateKeyPair, DH_Derive |-> DH_Derive,
   BignumCalc |-> BignumCalc, BignumCalc_Fp2 |-> BignumCalc_Fp2,
   BignumCalc_Fp12 |-> BignumCalc_Fp12,
   BLS_PrivateToPublic |-> BLS_PrivateToPublic,
   BLS_PrivateToPublic_G2 |-> BLS_PrivateToPublic_G2, BLS_Sign |-> BLS_Sign,
   BLS_Verify |-> BLS_Verify, BLS_BatchSign |-> BLS_BatchSign,
   BLS_BatchVerify |-> BLS_BatchVerify, BLS_Aggregate_G1 |-> BLS_Aggregate_G1,
   BLS_Aggregate_G2 |-> BLS_Aggregate_G2, BLS_Pairing |-> BLS_Pairing,
   BLS_MillerLoop |-> BLS_MillerLoop, BLS_FinalExp |-> BLS_FinalExp,
   BLS_HashToG1 |-> BLS_HashToG1, BLS_HashToG2 |-> BLS_HashToG2,
   BLS_MapToG1 |-> BLS_MapToG1, BLS_MapToG2 |-> BLS_MapToG2,
   BLS_IsG1OnCurve |-> BLS_IsG1OnCurve, BLS_IsG2OnCurve |-> BLS_IsG2OnCurve,
   BLS_GenerateKeyPair |-> BLS_GenerateKeyPair,
   BLS_Decompress_G1 |-> BLS_Decompress_G1,
   BLS_Compress_G1 |-> BLS_Compress_G1,
   BLS_Decompress_G2 |-> BLS_Decompress_G2,
   BLS_Compress_G2 |-> BLS_Compress_G2, BLS_G1_Add |-> BLS_G1_Add,
   BLS_G1_IsEq |-> BLS_G1_IsEq, BLS_G1_Mul |-> BLS_G1_Mul,
   BLS_G1_Neg |-> BLS_G1_Neg, BLS_G2_Add |-> BLS_G2_Add,
   BLS_G2_IsEq |-> BLS_G2_IsEq, BLS_G2_Mul |-> BLS_G2_Mul,
   BLS_G2_Neg |-> BLS_G2_Neg, BLS_G1_MultiExp |-> BLS_G1_MultiExp,
   Misc |-> Misc, SR25519_Verify |-> SR25519_Verify]

=============================================================================
