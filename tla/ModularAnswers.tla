--------------------------- MODULE ModularAnswers ---------------------------
(***************************************************************************)
(* A BignumCalc with a modulus, asked of one module after another that     *)
(* looks at the modulus: each answers or refuses.  The executor aborts     *)
(* when two answers differ.                                                *)
(***************************************************************************)
EXTENDS WordModules, FieldModules, Sequences

CONSTANTS
  ModularOperands,  \* the operands: reduced ones, and larger numbers
  Ignored,          \* bound: of these, the ones an operation has no use for
  ModularExponents  \* bound: second operands of Exp, which the executor limits to two digits

(* A number is not below zero.  A modulus is a power of two or the size of *)
(* a field, and larger than any second operand of Exp.                     *)
ASSUME ModularAssumption ==
  /\ ModularOperands \subseteq Nat /\ Ignored \subseteq Nat
  /\ Moduli \subseteq Words \cup Fields
  /\ \A modulus \in Moduli :
       /\ Modulo(modulus) \in Nat \ {0, 1}
       /\ modulus \in Words => Modulo(modulus) % 2 = 0
       /\ ModularExponents \subseteq 0 .. Modulo(modulus) - 1

VARIABLES
  question,   \* [modulus, op, a, b, c]
  turn,       \* the number of modules that were asked
  answers     \* of each that did not refuse: [by, value]

answersVars == <<question, turn, answers>>

-----------------------------------------------------------------------------
(* The modules that compare the modulus of a question with this one.       *)
Answering(modulus) ==
  CASE modulus = "2^64"  -> <<"Botan", "CPU">>
    [] modulus = "2^128" -> <<"Botan", "intx", "uint128_t">>
    [] modulus = "2^256" ->
         <<"Botan", "intx", "decred-uint256", "holiman-uint256", "wide-integer", "rustcrypto",
           "Bitcoin", "rust-uint", "stint", "arkworks-algebra">>
    [] modulus = "2^512" -> <<"Botan", "intx">>
    [] modulus \in {"bn254_r", "bn254_p"} ->
         <<"Botan", "libff", "Constantine", "polygon-zkevm-prover", "arkworks-algebra",
           "gnark-bn254", "gnark-google-cloudflare">>
    [] modulus = "bls381_r" ->
         <<"Botan", "blst", "libff", "mcl", "Constantine", "OpenSSL", "ff", "arkworks-algebra",
           "circl", "gnark-google-cloudflare", "kilic-bls12-381", "Kryptology",
           "noble-bls12-381", "py_ecc">>
    [] modulus = "bls381_p" ->
         <<"Botan", "blst", "libff", "mcl", "Constantine", "OpenSSL", "arkworks-algebra",
           "circl", "gnark-google-cloudflare", "Kryptology", "noble-bls12-381", "py_ecc">>
    [] modulus \in {"bls377_r", "bls377_p"} -> <<"Botan", "Aleo", "arkworks-algebra">>
    [] modulus \in {"vesta_r", "vesta_p"} -> <<"Botan", "pasta_curves">>
    [] modulus \in {"edwards_r", "edwards_p"} -> <<"Botan", "libff">>
    [] modulus = "25519" -> <<"Botan", "Pornin-BinGCD">>
    [] modulus = "goldilocks" -> <<"Botan", "Goldilocks">>
    [] modulus = "secp256k1_r" -> <<"Botan", "secp256k1">>
    [] modulus = "secp256k1_p" -> <<"Botan", "secp256k1", "Kryptology">>

Outcomes(module, q) ==
  CASE module = "Botan"           -> Botan(q)
    [] module = "intx"            -> intx(q)
    [] module = "decred-uint256"  -> decred_uint256(q)
    [] module = "holiman-uint256" -> holiman_uint256(q)
    [] module = "wide-integer"    -> wide_integer(q)
    [] module = "rustcrypto"      -> rustcrypto(q)
    [] module = "Bitcoin"         -> Bitcoin(q)
    [] module = "rust-uint"       -> rust_uint(q)
    [] module = "stint"           -> stint(q)
    [] module = "uint128_t"       -> uint128_t(q)
    [] module = "CPU"             -> CPU(q)
    [] module = "arkworks-algebra" ->
         IF q.modulus \in Words THEN arkworks_words(q) ELSE arkworks_fields(q)
    [] module = "blst"            -> blst(q)
    [] module = "libff"           -> libff(q)
    [] module = "mcl"             -> mcl(q)
    [] module = "Constantine"     -> Constantine(q)
    [] module = "OpenSSL"         -> openssl(q)
    [] module = "polygon-zkevm-prover" -> polygon_zkevm_prover(q)
    [] module = "Pornin-BinGCD"   -> Pornin_BinGCD(q)
    [] module = "Goldilocks"      -> Goldilocks(q)
    [] module = "secp256k1"       -> secp256k1(q)
    [] module = "ff"              -> ff(q)
    [] module = "pasta_curves"    -> pasta_curves(q)
    [] module = "Aleo"            -> Aleo(q)
    [] module = "circl"           -> circl(q)
    [] module = "gnark-bn254"     -> gnark_bn254(q)
    [] module = "gnark-google-cloudflare" -> gnark_google_cloudflare(q)
    [] module = "kilic-bls12-381" -> kilic_bls12_381(q)
    [] module = "Kryptology"      -> Kryptology(q)
    [] module = "noble-bls12-381" -> noble_bls12_381(q)
    [] module = "py_ecc"          -> py_ecc(q)

(* Calculations with a modulus, of the sizes that callModule lets through. *)
ModularQuestions ==
  [modulus : Moduli \cap Words, op : Ternary, a : ModularOperands, b : ModularOperands, c : ModularOperands]
  \cup [modulus : Moduli, op : Binary \ {"Exp"}, a : ModularOperands, b : ModularOperands, c : Ignored]
  \cup [modulus : Moduli, op : {"Exp"}, a : ModularOperands, b : ModularExponents, c : Ignored]
  \cup [modulus : Moduli, op : Unary, a : ModularOperands, b : Ignored, c : Ignored]

AnswersInit == question \in ModularQuestions /\ turn = 0 /\ answers = <<>>

Ask ==
  LET modules == Answering(question.modulus)
      asked == modules[turn + 1]
  IN  /\ turn < Len(modules)
      /\ \E answer \in Outcomes(asked, question) :
           answers' = IF answer = Unanswered THEN answers
                      ELSE Append(answers, [by |-> asked, value |-> answer])
      /\ turn' = turn + 1
      /\ UNCHANGED question

AnswersSpec == AnswersInit /\ [][Ask]_answersVars

-----------------------------------------------------------------------------
(* A difference that the modules themselves make, whatever the libraries   *)
(* calculate.                                                              *)
Misanswered(module, q) ==
  \/ module = "kilic-bls12-381" /\ q.op \notin KilicOps
  \/ module = "Botan" /\ q.op = "RShift" /\ q.modulus \in Words /\ q.a % 2 = 1
  \/ module = "CPU" /\ q.op = "RShift" /\ q.b >= NumBits(Modulo(q.modulus) - 1)
  \/ module = "noble-bls12-381" /\ q.op = "Jacobi"

(* Modules that take a question agree on its answer, whatever each of them *)
(* does with operands that are not below the modulus, multiplies by adding *)
(* and shifting, or halves: apart from the differences that modules make   *)
(* themselves, compare finds only those of a library (the OpBignumCalc of  *)
(* thirty-one modules, ExecutorBase::compare).                             *)
AnswersAgree ==
  \A i, j \in DOMAIN answers :
    \/ answers[i].value = answers[j].value
    \/ Misanswered(answers[i].by, question) \/ Misanswered(answers[j].by, question)

=============================================================================
