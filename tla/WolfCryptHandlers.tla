------------------------- MODULE WolfCryptHandlers ---------------------------
(***************************************************************************)
(* What the handlers of the wolfCrypt module do with memory. They lend     *)
(* their data source to the allocator and take it back behind `end:'. A    *)
(* context is freed behind `end:' if its flag says that it was             *)
(* initialised; those no handler frees there, GMAC's included, which is    *)
(* freed on success alone, are left out. Keys and points are objects that  *)
(* export and import what they point to when they are asked for it,        *)
(* numbers are not replaced. A constructor that throws is caught, which    *)
(* ends the handler; a number's does not throw.                            *)
(***************************************************************************)
EXTENDS HandlerSteps

Lent(atEnd, steps) == Handler(atEnd \cup {"ds"}, <<Built(Raw("ds"))>> \o steps)

Mallocs(names) == [i \in DOMAIN names |-> Built(Raw(names[i]))]

Out == Plain(Raw("out"))
OutTag == Plain(Raw("outTag"))

-----------------------------------------------------------------------------
(* Digests and authentication codes.                                       *)

InitUpdateFinal(ctx, init, update, final, into) ==
  <<Made(ctx, init, <<>>)>> \o Repeatedly(<<Check(update, <<Plain(ctx)>>)>>)
    \o <<Check(final, <<Plain(ctx)>> \o into)>>

DigestOneShot == <<Lookup>> \o Mallocs(<<"out">>) \o <<Check("wc_Hash", <<Out>>)>>

RunDigest ==
  Either(<<Check("oneShot", <<>>)>>,
         InitUpdateFinal(Raw("ctx"), "Initialize", "Update", "Finalize", <<>>))

OpDigest == Lent({"out", "ctx"}, Either(DigestOneShot, <<Lookup>> \o RunDigest))

(* A context of which nothing is freed: on the stack, given to every call. *)
OnStack(calls) == [i \in DOMAIN calls |-> Check(calls[i], <<>>)]
StreamedOnStack(init, update, final) ==
  <<Check(init, <<>>)>> \o Repeatedly(<<Check(update, <<>>)>>) \o <<Check(final, <<>>)>>

Blake2MAC == Lent({}, StreamedOnStack("wc_InitBlake2_WithKey", "wc_Blake2Update", "wc_Blake2Final"))

SIPHASH ==
  Lent({}, <<Lookup>> \o
    Either(<<Check("wc_SipHash", <<>>)>>,
           StreamedOnStack("wc_InitSipHash", "wc_SipHashUpdate", "wc_SipHashFinal")))

OpHMAC ==
  LET ctx == Raw("ctx")
  IN  Lent({"ctx", "out"}, <<Lookup, Lookup>> \o Mallocs(<<"out">>)
        \o <<Made(ctx, "wc_HmacInit", <<>>), Check("wc_HmacSetKey", <<Plain(ctx)>>)>>
        \o Repeatedly(<<Check("wc_HmacUpdate", <<Plain(ctx)>>)>>)
        \o <<Check("wc_HmacFinal", <<Plain(ctx), Out>>)>>)

OpCMAC ==
  Lent({}, Either(<<Check("wc_AesCmacGenerate", <<>>)>>,
                  StreamedOnStack("wc_InitCmac", "wc_CmacUpdate", "wc_CmacFinal"))
           \o <<Called("wc_AesCmacVerify", <<>>)>>)

-----------------------------------------------------------------------------
(* Ciphers.  Whichever is asked for, all of these are freed at the end.    *)

Encrypts(steps) == Lent({"aes", "eax", "out", "outTag"}, steps)
Decrypts(steps) == Lent({"aes", "eax", "in", "out"}, steps)

Aes == Raw("aes")
AesKeyed(buffers) ==
  <<Lookup>> \o Mallocs(buffers)
    \o <<Made(Aes, "wc_AesInit", <<>>), Check("wc_AesSetKey", <<Plain(Aes)>>)>>

EncryptCBC == Encrypts(AesKeyed(<<"out">>) \o <<Check("wc_AesCbcEncrypt", <<Plain(Aes), Out>>)>>)

EncryptCamellia ==
  Encrypts(<<Lookup>> \o Mallocs(<<"out">>) \o
    <<Check("wc_CamelliaSetKey", <<>>), Check("wc_CamelliaCbcEncrypt", <<Out>>)>>)

(* Streamed or at once; the streamed form initialises with key and iv.     *)
WithGCM(buffers, last) ==
  AesKeyed(buffers) \o
  Either(Repeatedly(<<Check("wc_AesGcmUpdate", <<Plain(Aes)>>)>>)
           \o Repeatedly(<<Check("wc_AesGcmUpdate", <<Plain(Aes), Out>>)>>)
           \o <<Check("wc_AesGcmFinal", <<Plain(Aes)>> \o last)>>,
         <<Check("wc_AesGcm", <<Plain(Aes), Out>> \o last)>>)

EncryptGCM == Encrypts(WithGCM(<<"out", "outTag">>, <<OutTag>>))

EncryptCCM ==
  Encrypts(AesKeyed(<<"out", "outTag">>) \o <<Check("wc_AesCcmEncrypt", <<Plain(Aes), Out, OutTag>>)>>)

ChaChaPoly(buffers, last) ==
  <<Lookup>> \o Mallocs(buffers) \o
  Either(<<Check("wc_ChaCha20Poly1305", <<Out>> \o last)>>,
         <<Check("wc_ChaCha20Poly1305_Init", <<>>)>>
           \o Repeatedly(<<Check("wc_ChaCha20Poly1305_UpdateAad", <<>>)>>)
           \o Repeatedly(<<Check("wc_ChaCha20Poly1305_UpdateData", <<Out>>)>>)
           \o <<Check("wc_ChaCha20Poly1305_Final", last)>>)

EncryptChaChaPoly == Encrypts(ChaChaPoly(<<"out", "outTag">>, <<OutTag>>))

EncryptXChaCha ==
  Encrypts(<<Lookup>> \o Mallocs(<<"out">>) \o <<Check("wc_XChaCha20Poly1305_Encrypt", <<Out>>)>>)

AesStreamed == AesKeyed(<<"out">>) \o Repeatedly(<<Check("wc_AesCrypt", <<Plain(Aes), Out>>)>>)

(* CTR, ECB and XTS.                                                       *)
EncryptCounter ==
  Encrypts(Either(AesStreamed,
    Either(AesKeyed(<<"out">>) \o <<Check("wc_AesEcbEncrypt", <<Plain(Aes), Out>>)>>,
           <<Lookup>> \o Mallocs(<<"out">>) \o <<Check("wc_AesXtsSetKey", <<>>), Check("wc_AesXtsEncrypt", <<Out>>)>>)))

(* CFB, CFB1, CFB8 and OFB.                                                *)
EncryptFeedback == Encrypts(AesStreamed)

(* RC4, CHACHA20, DES and DES3, in both directions.                        *)
OwnContext ==
  Mallocs(<<"out">>) \o OnStack(<<"Init", "SetKey">>) \o Repeatedly(<<Check("Crypt", <<Out>>)>>)

EncryptOwnContext == Encrypts(Optionally(<<Lookup>>) \o OwnContext)

(* WRAP, GMAC and SIV.                                                     *)
EncryptAtOnce ==
  Encrypts(Either(<<Lookup>> \o Mallocs(<<"out">>) \o <<Check("wc_AesKeyWrap", <<Out>>)>>,
    Either(<<Lookup>> \o Mallocs(<<"outTag">>)
             \o <<Check("wc_AesInit", <<>>), Check("wc_GmacSetKey", <<>>), Check("wc_GmacUpdate", <<OutTag>>)>>,
           Mallocs(<<"out", "outTag">>) \o <<Check("wc_AesSivEncrypt", <<OutTag, Out>>)>>)))

EncryptSM4 ==
  Encrypts(<<Lookup>> \o
    Either(Mallocs(<<"out">>) \o <<Check("wc_Sm4SetKey", <<>>), Check("wc_Sm4SetIV", <<>>),
                                   Check("wc_Sm4Encrypt", <<Out>>)>>,
           Mallocs(<<"out", "outTag">>) \o <<Check("wc_Sm4SetKey", <<>>),
                                   Check("wc_Sm4Encrypt", <<Out, OutTag>>)>>))

Eax == Raw("eax")
WithEAX(buffers, last) ==
  <<Lookup>> \o Mallocs(buffers) \o
  Either(<<Check("wc_AesEaxAuth", <<Out>> \o last)>>,
         <<Made(Eax, "wc_AesEaxInit", <<>>)>>
           \o Repeatedly(<<Check("wc_AesEaxUpdate", <<Plain(Eax), Out>>)>>)
           \o <<Check("wc_AesEaxFinal", <<Plain(Eax)>> \o last)>>)

EncryptEAX == Encrypts(WithEAX(<<"out", "outTag">>, <<OutTag>>))

-----------------------------------------------------------------------------
(* The other direction uses contexts of its own, except for CBC.           *)

Unpadded == Lookup   \* Pkcs7Unpad

DecryptCBC ==
  Decrypts(AesKeyed(<<"out">>) \o <<Check("wc_AesCbcDecrypt", <<Plain(Aes), Out>>), Unpadded>>)

DecryptCamellia ==
  Decrypts(<<Lookup>> \o Mallocs(<<"out">>) \o
    <<Check("wc_CamelliaSetKey", <<>>), Check("wc_CamelliaCbcDecrypt", <<Out>>), Unpadded>>)

DecryptGCM == Decrypts(WithGCM(<<"out">>, <<>>))

DecryptCCM ==
  Decrypts(<<Lookup>> \o Mallocs(<<"out">>) \o OnStack(<<"wc_AesInit", "wc_AesCcmSetKey">>)
    \o <<Check("wc_AesCcmDecrypt", <<Out>>)>>)

DecryptChaChaPoly == Decrypts(ChaChaPoly(<<"out">>, <<>>))

DecryptXChaCha ==
  Decrypts(<<Lookup>> \o Mallocs(<<"in", "out">>)
    \o <<Check("wc_XChaCha20Poly1305_Decrypt", <<Out, Plain(Raw("in"))>>)>>)

(* CTR, ECB and XTS; CFB, CFB1, CFB8 and OFB.                              *)
DecryptCounter == Decrypts(<<Lookup>> \o OwnContext)
DecryptFeedback == Decrypts(<<Lookup>> \o OwnContext)

(* RC4, CHACHA20, DES and DES3.                                            *)
DecryptOwnContext == Decrypts(Optionally(<<Lookup>>) \o OwnContext \o Optionally(<<Unpadded>>))

DecryptAtOnce ==
  Decrypts(Either(<<Lookup>> \o Mallocs(<<"out">>) \o <<Check("wc_AesKeyUnWrap", <<Out>>)>>,
    Either(<<Lookup, Check("wc_GmacVerify", <<>>)>>,
           Mallocs(<<"out">>) \o <<Lookup, Check("wc_AesSivDecrypt", <<Out>>)>>)))

DecryptSM4 == Decrypts(<<Lookup>> \o OwnContext \o Optionally(<<Unpadded>>))

DecryptEAX == Decrypts(WithEAX(<<"out">>, <<>>))

-----------------------------------------------------------------------------
(* Keys derived from passwords and secrets.                                *)

DerivesKey(checks, fn) ==
  Lent({"out"}, Mallocs(<<"out">>) \o checks \o <<Check(fn, <<Out>>)>>)

OpKDFPBKDF == DerivesKey(<<Lookup>>, "wc_PKCS12_PBKDF")
OpKDFPBKDF1 == DerivesKey(<<Lookup>>, "wc_PBKDF1")
OpKDFPBKDF2 == DerivesKey(<<Lookup>>, "wc_PBKDF2")
OpKDFSCRYPT == DerivesKey(<<Lookup>>, "wc_scrypt")
OpKDFHKDF == DerivesKey(<<Lookup>>, "wc_HKDF")
OpKDFTLS1PRF == DerivesKey(<<Lookup>>, "wc_PRF_TLSv1")
OpKDFX963 == DerivesKey(<<Lookup>>, "wc_X963_KDF")

(* Three keys; these two do not lend their data source.                    *)
ThreeKeys(fn) ==
  LET names == <<"index", "key1", "key2", "key3">>
  IN  Handler({names[i] : i \in DOMAIN names},
        Mallocs(names) \o <<Check(fn, [i \in DOMAIN names |-> Plain(Raw(names[i]))])>>)

OpKDFSRTP == ThreeKeys("wc_SRTP_KDF")
OpKDFSRTCP == ThreeKeys("wc_SRTCP_KDF")

-----------------------------------------------------------------------------
(* Diffie-Hellman and DSA.  A key is zeroed, so that freeing it is right   *)
(* even when it could not be initialised; GenerateParameters relies on     *)
(* wc_InitDsaKey not failing.  Numbers made from a key's own are views.    *)

Key == Plain(Raw("key"))
KeyZeroed(init) == <<Built(Raw("key")), Check(init, <<Key>>)>>

NumbersMade(names) == [i \in DOMAIN names |-> Built(Number(names[i]))]
ToDecString(name) == Check("ToDecString", <<Plain(Number(name))>>)
Views(fn, n) == [i \in 1 .. n |-> Check(fn, <<Key>>)]

DHKeySet == <<Check("ToBin", <<>>), Check("ToBin", <<>>), Check("wc_DhSetKey", <<Key>>)>>

OpDHGenerateKeyPair ==
  LET priv == Plain(Raw("priv_bytes"))  pub == Plain(Raw("pub_bytes"))
  IN  Lent({"priv_bytes", "pub_bytes", "key"},
        <<Built(Raw("key"))>> \o Mallocs(<<"priv_bytes", "pub_bytes">>)
        \o <<Lookup, Check("wc_InitDhKey", <<Key>>)>> \o DHKeySet
        \o <<Check("wc_DhGenerateKeyPair", <<Key, priv, pub>>)>> \o NumbersMade(<<"pub", "priv">>)
        \o <<Check("mp_read_unsigned_bin", <<Plain(Number("pub")), pub>>),
              Check("mp_read_unsigned_bin", <<Plain(Number("priv")), priv>>),
              ToDecString("pub"), ToDecString("priv")>>)

OpDHDerive ==
  Lent({"key"},
    <<Built(Raw("key")), Lookup, Check("wc_InitDhKey", <<Key>>)>> \o DHKeySet
    \o <<Check("ToBin", <<>>), Check("ToBin", <<>>), Check("wc_DhAgree", <<Key>>)>>
    \o NumbersMade(<<"derived">>)
    \o <<Check("mp_read_unsigned_bin", <<Plain(Number("derived"))>>), ToDecString("derived")>>)

OpDSAVerify ==
  Lent({"key"}, KeyZeroed("wc_InitDsaKey") \o Views("Set", 4)
    \o <<Lookup, Check("ToBin", <<>>), Check("ToBin", <<>>), Check("wc_DsaVerify", <<Key>>)>>)

OpDSASign ==
  LET key2 == Raw("key2")  signature == Raw("signature")
  IN  Lent({"key", "key2", "signature"},
        <<Made(Raw("key"), "wc_InitDsaKey", <<>>), Lookup>> \o Views("Set", 4)
        \o <<Check("mp_exptmod_ex", <<Key>>), Check("wc_DsaKeyToDer", <<Key>>),
              Made(key2, "wc_InitDsaKey", <<>>), Check("wc_DsaPrivateKeyDecode", <<Plain(key2)>>),
              Built(signature), Check("wc_DsaSign", <<Plain(signature), Plain(key2)>>)>>
        \o NumbersMade(<<"r", "s">>)
        \o <<Check("mp_read_unsigned_bin", <<Plain(Number("r")), Plain(signature)>>),
              Check("mp_read_unsigned_bin", <<Plain(Number("s")), Plain(signature)>>),
              ToDecString("r"), ToDecString("s")>> \o Views("ToDecString", 1))

OpDSAGenerateParameters ==
  Lent({"key"}, <<Made(Raw("key"), "wc_InitDsaKey", <<>>), Check("wc_MakeDsaParameters", <<Key>>)>>
    \o Views("ToDecString", 3))

OpDSAPrivateToPublic ==
  LET names == <<"g", "p", "priv", "pub">>
      priv == Plain(Number("priv"))
  IN  Lent({}, NumbersMade(names) \o [i \in 1 .. 3 |-> Check("Set", <<priv>>)]
        \o <<Check("mp_exptmod", [i \in 1 .. 4 |-> Plain(Number(names[i]))])>>)

OpDSAGenerateKeyPair ==
  Lent({"key"}, KeyZeroed("wc_InitDsaKey")
    \o <<Check("wc_DsaImportParamsRaw", <<Key>>), Check("wc_MakeDsaKey", <<Key>>)>> \o Views("ToDecString", 2))
-----------------------------------------------------------------------------
(* Elliptic curves.                                                        *)

SetCurve(key) == <<Lookup, Check("wc_ecc_set_curve", <<Ptr(key)>>)>>
LoadPrivateKey(key) == <<Check("ToBin", <<>>), Check("wc_ecc_import_private_key_ex", <<Ptr(key)>>)>>
SetRNG(key) == <<Check("wc_ecc_set_rng", <<Ptr(key)>>)>>
Imported(key) == <<Lookup, Lookup, Check("wc_ecc_import_raw", <<Ptr(key)>>)>>

Private(key) == <<Made(key, "wc_ecc_key_new", <<>>)>> \o SetCurve(key) \o LoadPrivateKey(key)

(* The point is handed out as a copy.  One that has no value yet is not    *)
(* exported, so its pointer stays.                                         *)
MakePub(key, pub) ==
  LET local == ECCPoint("local")
  IN  <<Made(local, "wc_ecc_new_point_h", <<>>), Check("wc_ecc_make_pub", <<Ptr(key), Plain(local)>>),
        Made(pub, "wc_ecc_copy_point", <<Plain(local)>>), Freed({local})>>

SetPoint(p) ==
  LET x == Number("x")  y == Number("y")  z == Number("z")
  IN  NumbersMade(<<"x", "y", "z">>) \o
      <<Check("Set", <<Plain(x), Plain(y), Plain(z)>>), Check("mp_copy", <<Plain(x), Plain(p)>>),
        Check("mp_copy", <<Plain(y), Plain(p)>>), Check("mp_copy", <<Plain(z), Plain(p)>>), Freed({x, y, z})>>

Prime == Plain(Number("prime"))
Af == Plain(Number("Af"))

ToProjective(p) ==
  LET mu == Number("local_mu")
  IN  <<Built(mu), Check("mp_montgomery_calc_normalization", <<Plain(mu), Prime>>)>>
      \o Optionally(<<Check("mp_mulmod", <<Plain(p), Plain(mu), Prime>>)>>) \o <<Locked(p), Freed({mu})>>

(* Both numbers are views of the point, whose pointer is asked for again   *)
(* for the second, and stays where it is once it is locked.                *)
ToBignumPair(point) ==
  <<Borrowed(Raw("pub_x"), <<point>>), Locked(point.of), Borrowed(Raw("pub_y"), <<point>>),
    Check("ToDecString", <<Plain(point.of)>>), Check("ToDecString", <<Plain(point.of)>>)>>

CurveKey == ECCKey("key")
Pub == ECCPoint("pub")

PrivateToPublic == Lent({}, Private(CurveKey) \o MakePub(CurveKey, Pub) \o ToBignumPair(Ptr(Pub)))

ValidatePubkey ==
  Lent({}, <<Made(CurveKey, "wc_ecc_key_new", <<>>)>> \o Imported(CurveKey)
    \o <<Called("wc_ecc_check_key", <<Ptr(CurveKey)>>)>>)

(* A key of one of the four curves of their own, or else.                  *)
GeneratedOn(key) ==
  LET priv == Raw("priv_bytes")  pub == Raw("pub_bytes")
  IN  <<Made(key, "init", <<>>), Check("make_key", <<Plain(key)>>), Called("check_key", <<Plain(key)>>),
        Built(priv), Check("export_private", <<Plain(key), Plain(priv)>>), Check("BinToBignum", <<Plain(priv)>>),
        Built(pub), Check("export_public", <<Plain(key), Plain(pub)>>), Check("BinToBignum", <<Plain(pub)>>)>>

GenerateKeyPair ==
  Lent({"e25519_key", "e448_key", "c25519_key", "c448_key", "key", "priv_bytes", "pub_bytes"},
    Either(GeneratedOn(Raw("e25519_key")), Either(GeneratedOn(Raw("e448_key")),
      Either(GeneratedOn(Raw("c25519_key")), Either(GeneratedOn(Raw("c448_key")),
        <<Lookup, Made(Raw("key"), "wc_ecc_key_new", <<>>), Check("wc_ecc_make_key_ex", <<Key>>),
          Called("wc_ecc_check_key", <<Key>>)>> \o Views("ToDecString", 3))))))

Sig == Plain(Raw("sig"))
Hash == Plain(Raw("hash"))
HashedOrNot ==
  Optionally(<<Lookup, Built(Raw("hash")), Check("wc_Hash", <<Hash>>)>>)

ECDSAVerify ==
  Lent({"sig", "hash"}, Mallocs(<<"sig">>) \o <<Made(CurveKey, "wc_ecc_key_new", <<>>)>> \o Imported(CurveKey)
    \o <<Check("wc_ecc_check_key", <<Ptr(CurveKey)>>), Check("wc_ecc_rs_to_sig", <<Sig>>)>> \o HashedOrNot
    \o <<Check("wc_ecc_verify_hash", <<Sig, Ptr(CurveKey)>>)>>)

(* On two curves the larger s is replaced by the smaller one.              *)
ECDSASign ==
  LET r == Plain(Number("r"))  s == Plain(Number("s"))  nonce == Number("nonce")
      sMax == Number("SMax")  sSub == Number("SSub")
      smaller ==
        <<Built(sMax), Check("Set", <<Plain(sMax)>>)>> \o
        Optionally(<<Built(sSub), Check("Set", <<Plain(sSub)>>), Check("mp_sub", <<Plain(sSub), s>>),
                     Freed({sSub})>>) \o <<Freed({sMax})>>
  IN  Lent({"sig", "hash", "nonce_bytes"},
        NumbersMade(<<"nonce", "r", "s">>) \o <<Lookup>> \o Mallocs(<<"sig">>) \o Private(CurveKey)
        \o <<Called("type", <<Ptr(CurveKey)>>)>>
        \o Optionally(<<Check("Set", <<Plain(nonce)>>), Built(Raw("nonce_bytes")),
              Check("mp_to_unsigned_bin", <<Plain(nonce), Plain(Raw("nonce_bytes"))>>),
              Check("wc_ecc_sign_set_k", <<Plain(Raw("nonce_bytes")), Ptr(CurveKey)>>)>>)
        \o MakePub(CurveKey, Pub) \o HashedOrNot
        \o <<Check("wc_ecc_sign_hash", <<Sig, Ptr(CurveKey)>>), Called("wc_ecc_verify_hash", <<Sig, Ptr(CurveKey)>>),
              Check("DecodeECC_DSA_Sig", <<Sig, r, s>>)>>
        \o Optionally(smaller) \o <<ToDecString("r"), ToDecString("s")>> \o ToBignumPair(Ptr(Pub)))

Eccsi == Plain(Raw("eccsi"))

ECCSISign ==
  LET pvt == Plain(ECCPoint("pvt"))  ssk == Plain(Number("ssk"))  encoded == Plain(Raw("encoded"))
  IN  Lent({"eccsi", "hash", "encoded"},
        Mallocs(<<"hash">>) \o <<Made(CurveKey, "wc_ecc_key_new", <<>>)>> \o SetCurve(CurveKey)
        \o <<Check("size", <<Ptr(CurveKey)>>)>> \o LoadPrivateKey(CurveKey)
        \o MakePub(CurveKey, Pub) \o ToBignumPair(Ptr(Pub)) \o Mallocs(<<"encoded">>)
        \o <<Check("mp_to_unsigned_bin_len", <<Ptr(CurveKey), encoded>>),
              Check("mp_to_unsigned_bin_len", <<Ptr(Pub), encoded>>),
              Check("mp_to_unsigned_bin_len", <<Ptr(Pub), encoded>>), Freed({CurveKey, Pub}),
              Lookup, Made(Raw("eccsi"), "wc_InitEccsiKey_ex", <<>>), Check("wc_ImportEccsiKey", <<Eccsi, encoded>>),
              Made(ECCPoint("pvt"), "wc_ecc_new_point_h", <<>>), Built(Number("ssk")), Lookup,
              Check("wc_MakeEccsiPair", <<Eccsi, ssk, pvt>>), Check("wc_HashEccsiId", <<Eccsi, pvt, Hash>>),
              Check("wc_SetEccsiHash", <<Eccsi, Hash>>), Check("wc_SetEccsiPair", <<Eccsi, ssk, pvt>>),
              Check("wc_SignEccsiHash", <<Eccsi>>)>>
        \o NumbersMade(<<"r", "s">>)
        \o <<Check("mp_read_unsigned_bin", <<Plain(Number("r"))>>), ToDecString("r"),
              Check("mp_read_unsigned_bin", <<Plain(Number("s"))>>), ToDecString("s")>> \o ToBignumPair(pvt))

ECCSIVerify ==
  LET pvt == Plain(ECCPoint("pvt"))
  IN  Lent({"eccsi", "hash"},
        Mallocs(<<"hash">>) \o <<Lookup, Lookup, Made(CurveKey, "wc_ecc_key_new", <<>>)>> \o SetCurve(CurveKey)
        \o <<Check("size", <<Ptr(CurveKey)>>), Freed({CurveKey}), Check("ToBin", <<>>),
              Made(ECCPoint("pvt"), "wc_ecc_new_point_h", <<>>), Made(Raw("eccsi"), "wc_InitEccsiKey_ex", <<>>),
              Check("wc_ImportEccsiPublicKey", <<Eccsi>>), Check("wc_DecodeEccsiPvtFromSig", <<Eccsi, pvt>>),
              Check("wc_HashEccsiId", <<Eccsi, pvt, Hash>>), Check("wc_SetEccsiHash", <<Eccsi, Hash>>),
              Check("wc_VerifyEccsiHash", <<Eccsi>>)>>)

(* With one's own key and another's.                                       *)
TwoKeys(ready) ==
  LET priv == ECCKey("priv")  pub == ECCKey("other")
  IN  <<Made(priv, "wc_ecc_key_new", <<>>), Made(pub, "wc_ecc_key_new", <<>>), Lookup>>
      \o SetCurve(priv) \o LoadPrivateKey(priv) \o SetRNG(priv) \o ready

ECIES(fn) ==
  Lent({"out"}, <<Lookup>> \o TwoKeys(Imported(ECCKey("other")) \o SetRNG(ECCKey("other")))
    \o Mallocs(<<"out">>) \o <<Check(fn, <<Ptr(ECCKey("priv")), Ptr(ECCKey("other")), Out>>)>>)

ECIESEncrypt == ECIES("wc_ecc_encrypt")
ECIESDecrypt == ECIES("wc_ecc_decrypt")

ECDHDerive ==
  LET priv == Ptr(ECCKey("priv"))  pub == Ptr(ECCKey("other"))
  IN  Lent({}, TwoKeys(<<Check("wc_ecc_set_flags", <<priv>>)>> \o Imported(ECCKey("other")))
        \o <<Check("wc_ecc_check_key", <<pub>>), Check("wc_ecc_shared_secret", <<priv, pub>>)>>)

PointA == ECCPoint("a")
PointB == ECCPoint("b")
Res == Plain(ECCPoint("res"))
PointsMade(points) == [i \in DOMAIN points |-> Made(points[i], "wc_ecc_new_point_h", <<>>)]

(* From projective coordinates: points are locked, so that they are not    *)
(* exported as they are.                                                   *)
Mapped ==
  <<Locked(Res.of), Check("ecc_map", <<Res, Prime>>), Lookup, Check("CurveCheck", <<Res>>)>> \o ToBignumPair(Res)

Doubled == Check("ecc_projective_dbl_point", <<Ptr(PointA), Res, Af, Prime>>)
CurveNumbers == <<Check("Set", <<Af>>), Check("Set", <<Prime>>)>>

PointAdd ==
  LET neg == Number("neg")
  IN  Lent({}, <<Lookup>> \o PointsMade(<<Res.of, PointA, PointB>>) \o NumbersMade(<<"Af", "prime", "mu">>)
        \o SetPoint(PointA) \o SetPoint(PointB) \o CurveNumbers
        \o <<Built(neg), Called("mp_sub", <<Prime, Ptr(PointB), Plain(neg)>>), Called("mp_cmp", <<Plain(PointA)>>),
              Freed({neg})>>
        \o ToProjective(PointA) \o ToProjective(PointB) \o <<Check("mp_montgomery_setup", <<Prime>>),
              Called("wc_ecc_cmp_point", <<Ptr(PointA), Ptr(PointB)>>)>>
        \o Either(<<Doubled>>,
                  <<Check("ecc_projective_add_point", <<Ptr(PointA), Ptr(PointB), Res, Af, Prime>>), Lookup>>)
        \o Mapped)

PointMul ==
  LET b == Plain(Number("b"))
  IN  Lent({}, <<Lookup>> \o PointsMade(<<Res.of, PointA>>) \o NumbersMade(<<"b", "Af", "prime">>)
        \o SetPoint(PointA) \o <<Check("Set", <<b>>)>> \o CurveNumbers
        \o <<Check("wc_ecc_mulmod_ex", <<b, Ptr(PointA), Res, Af, Prime>>), Lookup>> \o ToBignumPair(Res))

PointDbl ==
  Lent({}, <<Lookup>> \o PointsMade(<<Res.of, PointA>>) \o NumbersMade(<<"Af", "prime", "mu">>)
    \o SetPoint(PointA) \o CurveNumbers \o ToProjective(PointA)
    \o <<Check("mp_montgomery_setup", <<Prime>>), Doubled>> \o Mapped)

-----------------------------------------------------------------------------
(* Ed25519, Ed448 and their counterparts for agreement.                    *)

Inited == Made(Raw("key"), "init", <<>>)
PrivateLoaded == <<Check("ToBin", <<>>), Check("import_private_only", <<Key>>)>>
PublicMade == <<Check("make_public", <<Key>>), Check("BinToBignum", <<>>)>>

PrivateToPublicEd == Lent({"key"}, <<Inited>> \o PrivateLoaded \o PublicMade)
PrivateToPublicEd448 == Lent({"key"}, <<Inited>> \o PrivateLoaded \o <<Check("make_public", <<Key>>)>>)

PrivateToPublicX ==
  LET priv == Plain(Number("priv"))
  IN  Lent({}, NumbersMade(<<"priv", "pub">>) \o
        <<Check("Set", <<priv>>), Check("ToBin", <<priv>>), Check("wc_curve25519_make_pub", <<>>),
          Check("mp_read_unsigned_bin", <<Plain(Number("pub"))>>), ToDecString("pub")>>)

PrivateToPublicX448 == Lent({}, <<Lookup, Check("curve448", <<>>)>>)

SignEd ==
  Lent({"key"}, <<Inited>> \o PrivateLoaded \o <<Check("make_public", <<Key>>), Check("sign_msg", <<Key>>),
    Lookup, Check("BinToBignumPair", <<>>)>> \o PublicMade)

VerifyEd ==
  Lent({"key"}, <<Inited, Check("ToBin", <<>>), Check("import_public", <<Key>>), Check("ToBin", <<>>)>> \o
    Either(<<Check("verify_msg", <<Key>>)>>,
           <<Check("verify_msg_init", <<Key>>)>> \o Repeatedly(<<Check("verify_msg_update", <<Key>>)>>)
             \o <<Check("verify_msg_final", <<Key>>)>>))

SignEd448 == SignEd
VerifyEd448 == VerifyEd

-----------------------------------------------------------------------------
WolfCryptPrograms ==
  [wc_OpDigest |-> OpDigest, wc_Blake2MAC |-> Blake2MAC,
   wc_SIPHASH |-> SIPHASH, wc_OpHMAC |-> OpHMAC,
   wc_OpCMAC |-> OpCMAC, wc_EncryptCBC |-> EncryptCBC,
   wc_EncryptCamellia |-> EncryptCamellia, wc_EncryptGCM |-> EncryptGCM,
   wc_EncryptCCM |-> EncryptCCM, wc_EncryptChaChaPoly |-> EncryptChaChaPoly,
   wc_EncryptXChaCha |-> EncryptXChaCha, wc_EncryptCounter |-> EncryptCounter,
   wc_EncryptFeedback |-> EncryptFeedback, wc_EncryptOwnContext |-> EncryptOwnContext,
   wc_EncryptAtOnce |-> EncryptAtOnce, wc_EncryptSM4 |-> EncryptSM4,
   wc_EncryptEAX |-> EncryptEAX, wc_DecryptCBC |-> DecryptCBC,
   wc_DecryptCamellia |-> DecryptCamellia, wc_DecryptGCM |-> DecryptGCM,
   wc_DecryptCCM |-> DecryptCCM, wc_DecryptChaChaPoly |-> DecryptChaChaPoly,
   wc_DecryptXChaCha |-> DecryptXChaCha, wc_DecryptCounter |-> DecryptCounter,
   wc_DecryptFeedback |-> DecryptFeedback, wc_DecryptOwnContext |-> DecryptOwnContext,
   wc_DecryptAtOnce |-> DecryptAtOnce, wc_DecryptSM4 |-> DecryptSM4,
   wc_DecryptEAX |-> DecryptEAX, wc_OpKDFPBKDF |-> OpKDFPBKDF,
   wc_OpKDFPBKDF1 |-> OpKDFPBKDF1, wc_OpKDFPBKDF2 |-> OpKDFPBKDF2,
   wc_OpKDFSCRYPT |-> OpKDFSCRYPT, wc_OpKDFHKDF |-> OpKDFHKDF,
   wc_OpKDFTLS1PRF |-> OpKDFTLS1PRF, wc_OpKDFX963 |-> OpKDFX963,
   wc_OpKDFSRTP |-> OpKDFSRTP, wc_OpKDFSRTCP |-> OpKDFSRTCP,
   wc_OpDHGenerateKeyPair |-> OpDHGenerateKeyPair, wc_OpDHDerive |-> OpDHDerive,
   wc_OpDSAVerify |-> OpDSAVerify, wc_OpDSASign |-> OpDSASign,
   wc_OpDSAGenerateParameters |-> OpDSAGenerateParameters, wc_OpDSAPrivateToPublic |-> OpDSAPrivateToPublic,
   wc_OpDSAGenerateKeyPair |-> OpDSAGenerateKeyPair, wc_PrivateToPublic |-> PrivateToPublic,
   wc_ValidatePubkey |-> ValidatePubkey, wc_GenerateKeyPair |-> GenerateKeyPair,
   wc_ECDSAVerify |-> ECDSAVerify, wc_ECDSASign |-> ECDSASign,
   wc_ECCSISign |-> ECCSISign, wc_ECCSIVerify |-> ECCSIVerify,
   wc_ECIESEncrypt |-> ECIESEncrypt, wc_ECIESDecrypt |-> ECIESDecrypt,
   wc_ECDHDerive |-> ECDHDerive, wc_PointAdd |-> PointAdd,
   wc_PointMul |-> PointMul, wc_PointDbl |-> PointDbl,
   wc_PrivateToPublicEd |-> PrivateToPublicEd, wc_PrivateToPublicEd448 |-> PrivateToPublicEd448,
   wc_PrivateToPublicX |-> PrivateToPublicX, wc_PrivateToPublicX448 |-> PrivateToPublicX448,
   wc_SignEd |-> SignEd, wc_VerifyEd |-> VerifyEd,
   wc_SignEd448 |-> SignEd448, wc_VerifyEd448 |-> VerifyEd448]
=============================================================================
