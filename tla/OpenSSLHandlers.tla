-------------------------- MODULE OpenSSLHandlers ----------------------------
(***************************************************************************)
(* What the handlers of the OpenSSL module do with memory.                 *)
(* Contexts, keys, points and numbers are wrapped in objects: asking one   *)
(* for its pointer may replace what it points to by a copy and free the    *)
(* original.  Some functions take over what they are given.                *)
(* The build is against OpenSSL itself.                                    *)
(***************************************************************************)
EXTENDS HandlerSteps

-----------------------------------------------------------------------------
(* Digests, authentication codes and ciphers.                              *)

Streamed(ctx, init, update, final) ==
  <<Lookup, Check(init, <<Ptr(ctx)>>)>> \o Repeatedly(<<Check(update, <<Ptr(ctx)>>)>>)
    \o <<Check(final, <<Ptr(ctx)>>)>>

Digest ==
  Handler({}, <<Built(Ctx("ctx"))>> \o
    Streamed(Ctx("ctx"), "EVP_DigestInit_ex", "EVP_DigestUpdate", "EVP_DigestFinal_ex"))

HMACWithEVP ==
  LET ctx == Ctx("ctx")
  IN  Handler({"pkey"},
        <<Built(ctx), Lookup, Made(Raw("pkey"), "EVP_PKEY_new_mac_key", <<>>),
          Check("EVP_DigestSignInit", <<Ptr(ctx), Plain(Raw("pkey"))>>)>>
        \o Repeatedly(<<Check("EVP_DigestSignUpdate", <<Ptr(ctx)>>)>>)
        \o <<Check("EVP_DigestSignFinal", <<Ptr(ctx)>>)>>)

HMACWithHMAC ==
  Handler({}, <<Built(Ctx("ctx")), Called("HMAC_CTX_reset", <<Ptr(Ctx("ctx"))>>)>> \o
    Streamed(Ctx("ctx"), "HMAC_Init_ex", "HMAC_Update", "HMAC_Final"))

SipHash ==
  LET ctx == Raw("ctx")  out == Raw("out")
  IN  Handler({"out", "ctx", "siphash"},
        <<Built(Raw("siphash")), Built(ctx), Check("EVP_MAC_init", <<Plain(ctx)>>), Built(out)>>
        \o Repeatedly(<<Check("EVP_MAC_update", <<Plain(ctx)>>)>>)
        \o <<Check("EVP_MAC_final", <<Plain(ctx), Plain(out)>>)>>)

CMAC ==
  Handler({}, <<Built(Ctx("ctx"))>> \o
    Streamed(Ctx("ctx"), "CMAC_Init", "CMAC_Update", "CMAC_Final"))

(* Both ways: BIO_free_all frees the whole chain.                          *)
CryptWithBIO ==
  LET bio == Raw("bio_cipher")  out == Raw("out")
  IN  Handler({"bio_cipher", "out"},
        <<Built(out), Lookup, Made(bio, "BIO_new", <<>>), Check("BIO_set_cipher", <<Plain(bio)>>),
          Built(Raw("mem")), Kept("BIO_push", <<Plain(bio), Plain(Raw("mem"))>>),
          Check("BIO_read", <<Plain(bio), Plain(out)>>), Check("BIO_read", <<Plain(bio)>>)>>)

EncryptEVP(tagged) ==
  LET ctx == Ctx("ctx")  out == Raw("out")  tag == Raw("outTag")
  IN  Handler({"out", "outTag"},
        <<Built(ctx), Built(out)>> \o (IF tagged THEN <<Built(tag)>> ELSE <<>>) \o <<Lookup>>
        \o Optionally(<<Called("EVP_CIPHER_CTX_set_flags", <<Ptr(ctx)>>)>>)
        \o <<Check("EVP_EncryptInit_ex", <<Ptr(ctx)>>)>>
        \o Optionally(<<Check("checkSetIVLength", <<Ptr(ctx)>>)>>)
        \o <<Check("checkSetKeyLength", <<Ptr(ctx)>>), Check("EVP_EncryptInit_ex", <<Ptr(ctx)>>)>>
        \o Optionally(<<Check("EVP_CIPHER_CTX_set_padding", <<Ptr(ctx)>>)>>)
        \o Repeatedly(<<Check("EVP_EncryptUpdate", <<Ptr(ctx)>>)>>)
        \o Repeatedly(<<Check("EVP_EncryptUpdate", <<Ptr(ctx), Plain(out)>>)>>)
        \o <<Check("EVP_EncryptFinal_ex", <<Ptr(ctx), Plain(out)>>)>>
        \o (IF tagged THEN <<Check("EVP_CIPHER_CTX_ctrl", <<Ptr(ctx), Plain(tag)>>)>> ELSE <<>>))

Encrypt == EncryptEVP(FALSE)
EncryptTagged == EncryptEVP(TRUE)

Decrypt ==
  LET ctx == Ctx("ctx")  out == Raw("out")
  IN  Handler({"out"},
        <<Built(ctx), Built(out), Lookup>>
        \o Optionally(<<Called("EVP_CIPHER_CTX_set_flags", <<Ptr(ctx)>>)>>)
        \o <<Check("EVP_DecryptInit_ex", <<Ptr(ctx)>>)>>
        \o Optionally(<<Check("checkSetIVLength", <<Ptr(ctx)>>)>>)
        \o <<Check("checkSetKeyLength", <<Ptr(ctx)>>)>>
        \o Optionally(<<Check("EVP_CIPHER_CTX_ctrl", <<Ptr(ctx)>>)>>)
        \o <<Check("EVP_DecryptInit_ex", <<Ptr(ctx)>>)>>
        \o Optionally(<<Check("EVP_CIPHER_CTX_set_padding", <<Ptr(ctx)>>)>>)
        \o Repeatedly(<<Check("EVP_DecryptUpdate", <<Ptr(ctx)>>)>>)
        \o Repeatedly(<<Check("EVP_DecryptUpdate", <<Ptr(ctx), Plain(out)>>)>>)
        \o <<Check("EVP_DecryptFinal_ex", <<Ptr(ctx), Plain(out)>>)>>)

AESBlocks ==
  Handler({"out"}, <<Check("AES_set_encrypt_key", <<>>), Built(Raw("out"))>>
    \o Repeatedly(<<Called("AES_encrypt", <<Plain(Raw("out"))>>)>>))

(* SCRYPT, HKDF and TLS1_PRF with a context of a key.                      *)
DeriveWithPKEY ==
  LET pctx == Raw("pctx")  out == Raw("out")
  IN  Handler({"pctx", "out"},
        <<Built(out), Lookup, Made(pctx, "EVP_PKEY_CTX_new_id", <<>>),
          Check("EVP_PKEY_derive_init", <<Plain(pctx)>>), Check("EVP_PKEY_CTX_set", <<Plain(pctx)>>),
          Check("EVP_PKEY_derive", <<Plain(pctx), Plain(out)>>)>>)

(* SCRYPT, PBKDF, PBKDF2, SSH, X963 and SP 800-108.                        *)
DeriveWithKDF ==
  LET kctx == Raw("kctx")  kdf == Raw("kdf")  out == Raw("out")
  IN  Handler({"kctx", "out"},
        <<Built(out), Lookup, Made(kdf, "EVP_KDF_fetch", <<>>)>>
        \o Either(<<Built(kctx), Freed({kdf})>>, <<Freed({kdf}), GotoEnd>>)
        \o <<Check("EVP_KDF_derive", <<Plain(kctx), Plain(out)>>)>>)

-----------------------------------------------------------------------------
(* Elliptic curves.                                                        *)

GroupLocked == Locked(Group)

Curve ==
  <<Lookup, Made(Group, "EC_GROUP_new_by_curve_name", <<>>), GroupLocked,
    Check("GetPtr", <<Ptr(Group)>>)>>

(* EC_POINT_Copier::Set with its private set, in affine coordinates or, if *)
(* the numbers can be printed, in projective ones.  Compressed ones are    *)
(* disabled.                                                               *)
SetPoint(p, allowProjective) ==
  LET x == Number("_pub_x")  y == Number("_pub_y")  xStr == Raw("x_str")  yStr == Raw("y_str")
      px == Number("x")  py == Number("y")  pz == Number("z")
      affine == <<Check("EC_POINT_set_affine_coordinates", <<Ptr(Group), Ptr(p), Ptr(x), Ptr(y)>>)>>
      projective ==
        <<Made(px, "New", <<>>), Made(py, "New", <<>>), Made(pz, "New", <<>>),
          Check("Set", <<Plain(px), Plain(py), Plain(pz)>>),
          Check("EC_POINT_set_Jprojective_coordinates_GFp",
                  <<Ptr(Group), Ptr(p), Ptr(px), Ptr(py), Ptr(pz)>>),
          Check("EC_POINT_is_on_curve", <<Ptr(Group), Ptr(p)>>),
          Freed({px, py, pz})>>
      printed(o, str) == Does("call", "BN_bn2dec", <<Ptr(o)>>, {str}, {1})
      notPrinted(o) == <<Called("BN_bn2dec", <<Ptr(o)>>)>>
      anyway ==
        Either(affine,
          Either(notPrinted(x) \o affine,
            <<printed(x, xStr)>> \o Either(notPrinted(y) \o affine, <<printed(y, yStr)>> \o projective)))
  IN  <<Built(p), Made(x, "Set", <<>>), Made(y, "Set", <<>>)>>
      \o (IF allowProjective THEN anyway ELSE affine)
      \o <<Freed({x, y, xStr, yStr})>>

(* A point printed: a scope of its own, whose strings are freed at end:.   *)
Coordinates(p, x, y) ==
  <<Made(x, "New", <<>>), Made(y, "New", <<>>),
    Check("EC_POINT_get_affine_coordinates", <<Ptr(Group), Ptr(p), Ptr(x), Ptr(y)>>),
    Made(Raw("pub_x_str"), "BN_bn2dec", <<Ptr(x)>>), Made(Raw("pub_y_str"), "BN_bn2dec", <<Ptr(y)>>)>>

PointStrings == {"pub_x_str", "pub_y_str"}

PrivateKeyLoaded ==
  Curve \o
  <<Check("EC_KEY_set_group", <<Ptr(Ctx("key")), Ptr(Group)>>), Made(Number("prv"), "Set", <<>>),
    Check("EC_KEY_set_private_key", <<Ptr(Ctx("key")), Ptr(Number("prv"))>>)>>

PublicKeyComputed ==
  <<Built(Ctx("key"))>> \o PrivateKeyLoaded \o
  <<Built(ECPoint("pub")), Check("EC_POINT_mul", <<Ptr(Group), Ptr(ECPoint("pub")), Ptr(Number("prv"))>>)>>
  \o Coordinates(ECPoint("pub"), Number("pub_x"), Number("pub_y"))

PrivateToPublic == Handler(PointStrings, PublicKeyComputed)

(* x25519 and x448.                                                        *)
PrivateToPublicX ==
  LET pub == Number("pub")  priv == Number("priv")
  IN  Handler({"pub_x_str"},
        <<Made(pub, "New", <<>>), Made(priv, "Set", <<>>), Check("BN_bn2binpad", <<Ptr(priv)>>),
          Check("BN_bin2bn", <<Ptr(pub)>>), Made(Raw("pub_x_str"), "BN_bn2dec", <<Ptr(pub)>>)>>)

(* The private key is the key's own.                                       *)
GenerateKeyPair ==
  LET key == Raw("key")  x == Raw("pub_x")  y == Raw("pub_y")  pub == ECPoint("pub")
  IN  Handler({"key", "priv_str", "pub_x", "pub_y"} \cup PointStrings,
        <<Lookup, Made(key, "EC_KEY_new_by_curve_name", <<>>), Check("EC_KEY_generate_key", <<Plain(key)>>),
          Made(Raw("priv_str"), "BN_bn2dec", <<Plain(key)>>), Made(x, "BN_new", <<>>), Made(y, "BN_new", <<>>)>>
        \o Curve \o
        <<Built(pub), Check("EC_POINT_mul", <<Ptr(Group), Ptr(pub), Plain(key)>>),
          Check("EC_POINT_get_affine_coordinates", <<Ptr(Group), Ptr(pub), Plain(x), Plain(y)>>),
          Made(Raw("pub_x_str"), "BN_bn2dec", <<Plain(x)>>), Made(Raw("pub_y_str"), "BN_bn2dec", <<Plain(y)>>)>>)

ValidatePubkey ==
  LET key == Ctx("key")  pub == ECPoint("pub")
  IN  Handler({}, <<Built(key)>> \o Curve \o <<Check("EC_KEY_set_group", <<Ptr(key), Ptr(Group)>>)>>
        \o SetPoint(pub, FALSE)
        \o <<Lookup, Called("EC_KEY_set_public_key", <<Ptr(key), Ptr(pub)>>)>>
        \o Optionally(<<Called("EC_KEY_check_key", <<Ptr(key)>>)>>))

ECDSASign ==
  LET signature == Raw("signature")
  IN  Handler({"signature", "sig_r_str", "sig_s_str"} \cup PointStrings,
        PublicKeyComputed \o
        <<Made(signature, "ECDSA_do_sign", <<Ptr(Ctx("key"))>>), Check("ECDSA_SIG_get0", <<Plain(signature)>>),
          Made(Raw("sig_r_str"), "BN_bn2dec", <<Plain(signature)>>),
          Made(Raw("sig_s_str"), "BN_bn2dec", <<Plain(signature)>>)>>)

ECDSAVerify ==
  LET key == Ctx("key")  pub == ECPoint("pub")  signature == Raw("signature")
      r == Number("sig_r")  s == Number("sig_s")
  IN  Handler({"signature"},
        <<Built(key)>> \o Curve \o
        <<Check("EC_KEY_set_group", <<Ptr(key), Ptr(Group)>>), Made(r, "Set", <<>>), Made(s, "Set", <<>>),
          Made(signature, "ECDSA_SIG_new", <<>>),
          Taken("ECDSA_SIG_set0", <<Plain(signature), Plain(r), Plain(s)>>), Released(r), Released(s)>>
        \o SetPoint(pub, TRUE) \o
        <<Check("EC_KEY_set_public_key", <<Ptr(key), Ptr(pub)>>),
          Check("ECDSA_do_verify", <<Plain(signature), Ptr(key)>>)>>)

ECDHDerive ==
  Handler({"secret"}, <<Built(Ctx("key"))>> \o PrivateKeyLoaded \o SetPoint(ECPoint("pub"), FALSE) \o
    <<Built(Raw("secret")),
      Check("ECDH_compute_key", <<Plain(Raw("secret")), Ptr(ECPoint("pub")), Ptr(Ctx("key"))>>)>>)

OffCurve(p) ==
  Optionally(<<Built(BNCtx), Check("EC_POINT_is_on_curve", <<Ptr(Group), Ptr(p), Plain(BNCtx)>>), Freed({BNCtx})>>)

Combined(combine, checks) ==
  Handler(PointStrings, Curve \o combine \o checks \o Coordinates(ECPoint("res"), Number("x"), Number("y")))

PointA == ECPoint("a")
PointB == ECPoint("b")
PointRes == ECPoint("res")

PointAdd ==
  Combined(SetPoint(PointA, TRUE) \o SetPoint(PointB, TRUE) \o
        <<Built(PointRes), Check("EC_POINT_add", <<Ptr(Group), Ptr(PointRes), Ptr(PointA), Ptr(PointB)>>)>>,
      OffCurve(PointA) \o OffCurve(PointB))

PointDbl ==
  Combined(SetPoint(PointA, TRUE) \o
        <<Built(PointRes), Check("EC_POINT_dbl", <<Ptr(Group), Ptr(PointRes), Ptr(PointA)>>)>>, <<>>)

(* The assertions read points, too.                                        *)
PointMul ==
  LET b == Number("b")
      reads(given) == Optionally(<<Built(BNCtx), Called("EC_POINT_is_on_curve", given), Freed({BNCtx})>>)
  IN  Combined(SetPoint(PointA, TRUE) \o <<Built(PointRes), Made(b, "Set", <<>>)>>
          \o Optionally(<<Check("EC_GROUP_precompute_mult", <<Ptr(Group)>>)>>)
          \o <<Check("EC_POINT_mul", <<Ptr(Group), Ptr(PointRes), Ptr(PointA), Ptr(b)>>)>>
          \o Optionally(<<Called("EC_POINT_is_at_infinity", <<Ptr(Group), Ptr(PointRes)>>)>>),
        reads(<<Ptr(Group), Ptr(PointA), Plain(BNCtx)>>) \o reads(<<Ptr(Group), Ptr(PointRes), Plain(BNCtx)>>)
          \o OffCurve(PointA))

PointNeg ==
  Handler(PointStrings, Curve \o SetPoint(PointA, TRUE) \o <<Check("EC_POINT_invert", <<Ptr(Group), Ptr(PointA)>>)>>
    \o Coordinates(PointA, Number("x"), Number("y")))

PointCmp ==
  Handler({}, Curve \o SetPoint(PointA, TRUE) \o SetPoint(PointB, TRUE)
    \o <<Called("EC_POINT_cmp", <<Ptr(Group), Ptr(PointA), Ptr(PointB)>>)>>)

-----------------------------------------------------------------------------
(* Diffie-Hellman and DSA.                                                 *)

DHParameters ==
  LET dh == Raw("dh")  prime == Number("prime")  base == Number("base")
  IN  <<Made(dh, "DH_new", <<>>), Made(prime, "Set", <<>>), Made(base, "Set", <<>>),
        Taken("DH_set0_pqg", <<Plain(dh), Plain(prime), Plain(base)>>), Released(prime), Released(base)>>

DHGenerateKeyPair ==
  LET dh == Raw("dh")
  IN  Handler({"dh", "priv_str", "pub_str"}, DHParameters \o
        <<Check("DH_generate_key", <<Plain(dh)>>), Check("DH_get0_key", <<Plain(dh)>>),
          Made(Raw("priv_str"), "BN_bn2dec", <<Plain(dh)>>), Made(Raw("pub_str"), "BN_bn2dec", <<Plain(dh)>>)>>)

DHDerive ==
  LET dh == Raw("dh")  bytes == Raw("derived_bytes")
      priv == Number("priv")  pub == Number("pub")  derived == Number("derived")
  IN  Handler({"dh", "derived_bytes", "str"}, <<Lookup>> \o DHParameters \o
        <<Made(priv, "Set", <<>>), Taken("DH_set0_key", <<Plain(dh), Plain(priv)>>), Released(priv),
          Built(bytes), Made(pub, "Set", <<>>),
          Check("DH_compute_key", <<Plain(bytes), Ptr(pub), Plain(dh)>>),
          Made(derived, "New", <<>>), Check("BN_bin2bn", <<Plain(bytes), Ptr(derived)>>),
          Check("BN_is_zero", <<Ptr(derived)>>), Made(Raw("str"), "BN_bn2dec", <<Ptr(derived)>>)>>)

Printed(from) == <<Made(Raw("str"), "BN_bn2dec", <<Plain(from)>>), Freed({Raw("str")})>>

DSAPrivateToPublic ==
  LET dsa == Raw("dsa")  priv == Number("priv")
  IN  Handler({"dsa"},
        <<Made(priv, "Set", <<>>), Made(dsa, "DSA_new", <<>>),
          Taken("DSA_set0_key", <<Plain(dsa), Ptr(priv)>>), Released(priv),
          Check("DSA_generate_key", <<Plain(dsa)>>)>> \o Printed(dsa))

DSAGenerateParameters ==
  LET dsa == Raw("dsa")
  IN  Handler({"dsa"},
        <<Made(dsa, "DSA_new", <<>>), Check("DSA_generate_parameters_ex", <<Plain(dsa)>>)>>
        \o Printed(dsa) \o Printed(dsa) \o Printed(dsa))

DSAParameters ==
  LET p == Number("p")  q == Number("q")  g == Number("g")
  IN  <<Made(Raw("dsa"), "DSA_new", <<>>),
        Taken("DSA_set0_pqg", <<Plain(Raw("dsa")), Ptr(p), Ptr(q), Ptr(g)>>),
        Released(p), Released(q), Released(g)>>

NumbersSet(names) == [i \in DOMAIN names |-> Made(Number(names[i]), "Set", <<>>)]
Limited(name) == Check("BN_num_bits", <<Ptr(Number(name))>>)

DSASign ==
  LET dsa == Raw("dsa")  sig == Raw("dsa_sig")  bytes == Raw("signature")
      pub == Number("pub")  priv == Number("priv")
  IN  Handler({"dsa", "dsa_sig", "signature"},
        NumbersSet(<<"p", "q", "g">>) \o <<Limited("p"), Limited("q"), Limited("g")>>
        \o <<Made(pub, "New", <<>>), Made(priv, "Set", <<>>)>> \o DSAParameters \o
        <<Taken("DSA_set0_key", <<Plain(dsa), Ptr(pub), Ptr(priv)>>), Released(pub), Released(priv),
          Built(bytes), Check("DSA_sign", <<Plain(bytes), Plain(dsa)>>),
          Made(sig, "d2i_DSA_SIG", <<Plain(bytes)>>)>>
        \o Printed(sig) \o Printed(sig) \o <<Check("DSA_generate_key", <<Plain(dsa)>>)>> \o Printed(dsa))

DSAVerify ==
  LET dsa == Raw("dsa")  sig == Raw("dsa_sig")  bytes == Raw("signature")
      r == Number("r")  s == Number("s")  pub == Number("pub")
  IN  Handler({"dsa", "dsa_sig", "signature"},
        NumbersSet(<<"p", "q", "g", "r", "s", "pub">>) \o DSAParameters \o
        <<Taken("DSA_set0_key", <<Plain(dsa), Ptr(pub)>>), Released(pub), Made(sig, "DSA_SIG_new", <<>>),
          Taken("DSA_SIG_set0", <<Plain(sig), Ptr(r), Ptr(s)>>), Released(r), Released(s),
          Made(bytes, "i2d_DSA_SIG", <<Plain(sig)>>), Check("DSA_verify", <<Plain(bytes), Plain(dsa)>>)>>)

-----------------------------------------------------------------------------
OpenSSLPrograms ==
  [Digest |-> Digest, HMACWithEVP |-> HMACWithEVP, HMACWithHMAC |-> HMACWithHMAC,
   SipHash |-> SipHash, CMAC |-> CMAC, CryptWithBIO |-> CryptWithBIO, Encrypt |-> Encrypt,
   EncryptTagged |-> EncryptTagged,
   Decrypt |-> Decrypt, AESBlocks |-> AESBlocks, DeriveWithPKEY |-> DeriveWithPKEY,
   DeriveWithKDF |-> DeriveWithKDF, PrivateToPublic |-> PrivateToPublic,
   PrivateToPublicX |-> PrivateToPublicX, GenerateKeyPair |-> GenerateKeyPair,
   ValidatePubkey |-> ValidatePubkey, ECDSASign |-> ECDSASign, ECDSAVerify |-> ECDSAVerify,
   ECDHDerive |-> ECDHDerive, PointAdd |-> PointAdd, PointDbl |-> PointDbl, PointMul |-> PointMul,
   PointNeg |-> PointNeg, PointCmp |-> PointCmp, DHGenerateKeyPair |-> DHGenerateKeyPair,
   DHDerive |-> DHDerive, DSAPrivateToPublic |-> DSAPrivateToPublic,
   DSAGenerateParameters |-> DSAGenerateParameters, DSASign |-> DSASign, DSAVerify |-> DSAVerify]
=============================================================================
