-------------------------- MODULE PqcModulesProofs --------------------------
(***************************************************************************)
(* The post-quantum modules under the executor, for any parameter sets,    *)
(* seeds, contexts and orders of the modules, and any number of runs: what *)
(* is in the pools was made from known bytes, every answer is the one the  *)
(* standards allow for the question, and so no comparison ever aborts.     *)
(* Of the liboqs module, for any seeds, keys and requests: it restores the *)
(* system source, and what it draws depends on the request alone.          *)
(***************************************************************************)
EXTENDS LiboqsRng, PqcModules, FiniteSetTheorems, SequenceTheorems, TLAPS

-----------------------------------------------------------------------------
(* What a module may answer.                                               *)

(* Where a module's randomness comes from when there is no seed.           *)
Own(library) ==
  CASE library = "liboqs" -> "system"
    [] library = "OpenSSL" -> "openssl"
    [] library = "Botan" -> "modifier"

LEMMA OwnSources ==
  ASSUME NEW library \in Libraries
  PROVE  Own(library) \in Sources
BY DEF Own, Libraries, Sources

(* All three modules generate the key pair of the seed, or of their own    *)
(* randomness, and all three decline the same seeds.                       *)
LEMMA GeneratedKeyPairs ==
  ASSUME NEW library \in Libraries, question.kind \in GenerateKeyPair,
         NEW value \in CorrectAnswers(library)
  PROVE  IF SeedGiven(question) => question.seed.size = SeedLength(question.kind)
         THEN \E form \in {"seed", "expanded"} :
                value = KeyPair(question.alg, Random(question, Own(library)), form)
         ELSE value = Nullopt
<1> DEFINE Fits == SeedGiven(question) => question.seed.size = SeedLength(question.kind)
           Pair(form) == KeyPair(question.alg, Random(question, Own(library)), form)
<1>1. /\ question.kind # "KEM_Encapsulate" /\ question.kind # "KEM_Decapsulate"
      /\ question.kind # "PQSign_Sign" /\ question.kind # "PQSign_Verify"
  BY DEF GenerateKeyPair
<1>2. ASSUME NEW form \in {"seed", "expanded"},
             CorrectAnswers(library) = Given(Fits, {Pair(form)})
      PROVE  IF Fits THEN \E f \in {"seed", "expanded"} : value = Pair(f)
             ELSE value = Nullopt
  <2> HIDE DEF Fits, Pair
  <2> QED BY <1>2, Zenon DEF Given
<1>3. CASE library = "liboqs"
  <2>1. CorrectAnswers(library) = Liboqs(question) /\ Own(library) = "system"
    BY <1>3 DEF CorrectAnswers, Own
  <2>2. Liboqs(question) = Given(Fits, {KeyPair(question.alg, Random(question, "system"), "expanded")})
    BY <1>1 DEF Liboqs, SeedFits, Given
  <2>3. CorrectAnswers(library) = Given(Fits, {Pair("expanded")})
    BY ONLY <2>1, <2>2, Zenon
  <2> QED BY <2>3, <1>2
<1>4. CASE library = "OpenSSL"
  <2>1. CorrectAnswers(library) = OpenSSL(question, "openssl") /\ Own(library) = "openssl"
    BY <1>1, <1>4 DEF CorrectAnswers, Own
  <2>2. OpenSSL(question, "openssl")
          = Given(Fits, {KeyPair(question.alg, Random(question, "openssl"), "expanded")})
    BY <1>1 DEF OpenSSL, SeedFits, Given
  <2>3. CorrectAnswers(library) = Given(Fits, {Pair("expanded")})
    BY ONLY <2>1, <2>2, Zenon
  <2> QED BY <2>3, <1>2
<1>5. CASE library = "Botan"
  <2>1. CorrectAnswers(library) = Botan(question) /\ Own(library) = "modifier"
    BY <1>5 DEF CorrectAnswers, Own
  <2>2. Botan(question) = Given(Fits, {KeyPair(question.alg, Random(question, "modifier"), "seed")})
    BY <1>1 DEF Botan, SeedFits, Given
  <2>3. CorrectAnswers(library) = Given(Fits, {Pair("seed")})
    BY ONLY <2>1, <2>2, Zenon
  <2> QED BY <2>3, <1>2
<1> QED BY <1>3, <1>4, <1>5 DEF Libraries

LEMMA GeneratedEncapsulations ==
  ASSUME NEW library \in Libraries, question.kind = "KEM_Encapsulate",
         NEW value \in CorrectAnswers(library), value # Nullopt
  PROVE  value = Encapsulated(question, Random(question, Own(library)))
<1>1. question.kind \notin GenerateKeyPair
  BY DEF GenerateKeyPair
<1>2. CASE library = "liboqs"
  BY <1>1, <1>2 DEF CorrectAnswers, Liboqs, Given, MayRefuse, Own
<1>3. CASE library = "OpenSSL"
  <2>1. OpenSSL(question, Random(question, "openssl"))
          = {Encapsulated(question, Random(question, "openssl"))}
    BY <1>1 DEF OpenSSL
  <2> QED BY <1>3, <2>1 DEF CorrectAnswers, Given, MayRefuse, Own
<1>4. CASE library = "Botan"
  BY <1>1, <1>4 DEF CorrectAnswers, Botan, Given, MayRefuse, Own
<1> QED BY <1>2, <1>3, <1>4 DEF Libraries

LEMMA GeneratedSecrets ==
  ASSUME NEW library \in Libraries, question.kind = "KEM_Decapsulate",
         NEW value \in CorrectAnswers(library), value # Nullopt
  PROVE  value = Decapsulated(question)
<1>1. question.kind \notin GenerateKeyPair /\ question.kind # "KEM_Encapsulate"
  BY DEF GenerateKeyPair
<1>2. CASE library = "liboqs"
  BY <1>1, <1>2 DEF CorrectAnswers, Liboqs, Given, MayRefuse
<1>3. CASE library = "OpenSSL"
  <2>1. value \in OpenSSL(question, "openssl")
    BY <1>1, <1>3 DEF CorrectAnswers
  <2> QED BY <1>1, <2>1 DEF OpenSSL, Given, MayRefuse
<1>4. CASE library = "Botan"
  BY <1>1, <1>4 DEF CorrectAnswers, Botan, Given, MayRefuse
<1> QED BY <1>2, <1>3, <1>4 DEF Libraries

(* A module that does not pass the context on answers only when the empty  *)
(* context is meant, so its verdict is the one under the context.          *)
LEMMA EmptyContexts ==
  ASSUME NEW c \in Contexts, ~c.given \/ BotanContext(question),
         question.context = c
  PROVE  Valid(question, NoContext) = Valid(question, c)
<1>1. c.size = 0 /\ c.of = "none"
  BY PqcAssumption DEF BotanContext
<1>2. Text(c) = Text(NoContext)
  BY <1>1 DEF Text, NoContext
<1>3. Signature(question.alg, question.pub.of, c)
        = Signature(question.alg, question.pub.of, NoContext)
  BY <1>2 DEF Signature
<1>4. c.size <= 255 /\ NoContext.size <= 255
  BY <1>1 DEF NoContext
<1> QED BY ONLY <1>3, <1>4, Zenon DEF Valid

LEMMA GeneratedVerdicts ==
  ASSUME NEW library \in Libraries, question.kind = "PQSign_Verify",
         question.context \in Contexts,
         NEW value \in CorrectAnswers(library), value # Nullopt
  PROVE  value = Valid(question, question.context)
<1>1. /\ question.kind \notin GenerateKeyPair /\ question.kind # "KEM_Encapsulate"
      /\ question.kind # "KEM_Decapsulate" /\ question.kind # "PQSign_Sign"
  BY DEF GenerateKeyPair
<1> DEFINE own == Valid(question, question.context)
           none == Valid(question, NoContext)
<1>2. CASE library = "liboqs"
  <2>1. CorrectAnswers(library) = Given(question.pub.alg = question.alg, {own})
    BY <1>1, <1>2 DEF CorrectAnswers, Liboqs
  <2>2. value = own
    <3> HIDE DEF own
    <3> QED BY <2>1, Zenon DEF Given
  <2> QED BY <2>2
<1>3. CASE library = "OpenSSL"
  <2>1. CorrectAnswers(library)
          = Given(~question.context.given /\ question.pub.alg = question.alg,
                  MayRefuse(question.pub.of, {none} \cup Rejected(none)))
    BY <1>1, <1>3 DEF CorrectAnswers, OpenSSL
  <2>2. ~question.context.given /\ value = none
    <3> HIDE DEF none
    <3>1. /\ ~question.context.given
          /\ value \in MayRefuse(question.pub.of, {none} \cup Rejected(none))
      BY <2>1, Zenon DEF Given
    <3>2. value \in {none} \cup Rejected(none)
      BY <3>1, Zenon DEF MayRefuse
    <3> QED BY <3>1, <3>2, Zenon DEF Rejected
  <2> QED BY <2>2, EmptyContexts, Zenon
<1>4. CASE library = "Botan"
  <2>1. CorrectAnswers(library)
          = Given(BotanContext(question) /\ question.pub.alg = question.alg,
                  MayRefuse(question.pub.of, {none}))
    BY <1>1, <1>4 DEF CorrectAnswers, Botan
  <2>2. BotanContext(question) /\ value = none
    <3> HIDE DEF none
    <3>1. BotanContext(question) /\ value \in MayRefuse(question.pub.of, {none})
      BY <2>1, Zenon DEF Given
    <3> QED BY <3>1, Zenon DEF MayRefuse
  <2> QED BY <2>2, EmptyContexts, Zenon
<1> QED BY <1>2, <1>3, <1>4 DEF Libraries

-----------------------------------------------------------------------------
(* Questions are made from what is in the pools, answers from questions.   *)

LEMMA TypedQuestions ==
  ASSUME PqcTypeOK, NEW kind \in PqcKinds, NEW alg \in Algorithms,
         NEW ask, ask = Ask(kind, alg), Asks(ask)
  PROVE  /\ question'.kind = kind /\ question'.alg = alg
         /\ question'.pub \in PublicKeySet /\ question'.seed.of \in Sources
         /\ kind = "KEM_Decapsulate" =>
              question'.priv \in PrivateKeySet /\ question'.ciphertext \in CiphertextSet
         /\ kind = "PQSign_Verify" => question'.context \in Contexts
<1>1. /\ ask = [kind |-> kind, alg |-> alg, seed |-> Unseeded, pub |-> Public(alg, "none"),
               priv |-> Expanded(alg, "none"), ciphertext |-> Ciphertext(alg, "none", "none"),
               signature |-> Signature(alg, "none", NoContext), context |-> NoContext]
      /\ ask.kind = kind /\ ask.alg = alg
      /\ ask.pub = Public(alg, "none") /\ ask.seed = Unseeded
  BY DEF Ask
<1>2. /\ \A of \in Sources : Public(alg, of) \in PublicKeySet
      /\ \A of \in Sources : Expanded(alg, of) \in PrivateKeySet
      /\ \A of \in Sources : SeedKey(of) \in PrivateKeySet
      /\ \A of, m \in Sources : Ciphertext(alg, of, m) \in CiphertextSet
  BY DEF Public, Expanded, SeedKey, Ciphertext, PublicKeySet, PrivateKeySet, CiphertextSet
<1>3. {"none", "malformed", "garbage", "random"} \subseteq Sources
  BY DEF Sources
<1>4. /\ \A seed \in KeySeeds \cup EncapsSeeds : seed.of \in Sources
      /\ Unseeded.of \in Sources
  BY <1>3 DEF Sources, Unseeded
<1>5. CASE AskKeyPair(ask)
  BY <1>1, <1>2, <1>3, <1>4, <1>5 DEF AskKeyPair, GenerateKeyPair
<1>6. CASE AskEncapsulate(ask)
  <2>1. PICK pub \in PublicKeys(alg, "KEM_PublicKey"), s \in EncapsSeeds :
          question' = [ask EXCEPT !.pub = pub, !.seed = s]
    BY <1>1, <1>6 DEF AskEncapsulate
  <2>2. pub \in PublicKeySet
    BY <1>2, <1>3 DEF PublicKeys, PqcTypeOK
  <2> QED BY <2>1, <2>2, <1>1, <1>4, <1>6 DEF AskEncapsulate
<1>7. CASE AskDecapsulate(ask)
  <2>1. PICK priv \in PrivateKeys(alg, "KEM_PrivateKey"),
             ct \in pools["KEM_Ciphertext"] \cup {Ciphertext(alg, "garbage", "garbage")} :
          question' = [ask EXCEPT !.priv = priv, !.ciphertext = ct]
    BY <1>1, <1>7 DEF AskDecapsulate
  <2>2. priv \in PrivateKeySet /\ ct \in CiphertextSet
    BY <1>2, <1>3 DEF PrivateKeys, PqcTypeOK
  <2> QED BY <2>1, <2>2, <1>1, <1>2, <1>3, <1>4, <1>7 DEF AskDecapsulate
<1>8. CASE AskSign(ask)
  BY <1>1, <1>2, <1>3, <1>4, <1>8 DEF AskSign
<1>9. CASE AskVerify(ask)
  <2>1. PICK pub \in PublicKeys(alg, "PQSign_PublicKey"),
             sig \in pools["PQSign_Signature"] \cup {Signature(alg, "garbage", NoContext)},
             context \in Contexts :
          question' = [ask EXCEPT !.pub = pub, !.signature = sig, !.context = context]
    BY <1>1, <1>9 DEF AskVerify
  <2>2. pub \in PublicKeySet
    BY <1>2, <1>3 DEF PublicKeys, PqcTypeOK
  <2> QED BY <2>1, <2>2, <1>1, <1>4, <1>9 DEF AskVerify
<1> QED BY <1>5, <1>6, <1>7, <1>8, <1>9 DEF Asks

LEMMA RandomSources ==
  ASSUME NEW library \in Libraries, question.seed.of \in Sources
  PROVE  Random(question, Own(library)) \in Sources
BY OwnSources DEF Random

(* What a run puts into the pools was made by somebody, from known bytes.  *)
LEMMA TypedPools ==
  ASSUME PqcTypeOK, QuestionOK, order # <<>>, NEW library \in Libraries,
         NEW value \in CorrectAnswers(library), value # Nullopt, NEW newPools,
         newPools = Pooled(value)
  PROVE  /\ DOMAIN newPools = PoolNames
         /\ newPools["KEM_PublicKey"] \subseteq PublicKeySet
         /\ newPools["PQSign_PublicKey"] \subseteq PublicKeySet
         /\ newPools["KEM_PrivateKey"] \subseteq PrivateKeySet
         /\ newPools["PQSign_PrivateKey"] \subseteq PrivateKeySet
         /\ newPools["KEM_Ciphertext"] \subseteq CiphertextSet
<1> DEFINE random == Random(question, Own(library))
<1>1. /\ question.kind \in PqcKinds /\ question.alg \in Algorithms
      /\ question.pub \in PublicKeySet /\ random \in Sources
  BY RandomSources DEF QuestionOK, PublicKeySet
<1>2. CASE question.kind \in GenerateKeyPair
  <2>1. PICK form \in {"seed", "expanded"} : value = KeyPair(question.alg, random, form)
    BY <1>2, GeneratedKeyPairs, Zenon
  <2>2. value.pub \in PublicKeySet /\ value.priv \in PrivateKeySet
    <3> HIDE DEF random
    <3> QED BY <2>1, <1>1 DEF KeyPair, Public, SeedKey, Expanded, PublicKeySet, PrivateKeySet
  <2>3. CASE question.kind = "KEM_GenerateKeyPair"
    BY <2>2, <2>3 DEF Pooled, PooledPair, PqcTypeOK, PoolNames
  <2>4. CASE question.kind = "PQSign_GenerateKeyPair"
    BY <2>2, <2>4 DEF Pooled, PooledPair, PqcTypeOK, PoolNames
  <2> QED BY <1>2, <2>3, <2>4 DEF GenerateKeyPair
<1>3. CASE question.kind = "KEM_Encapsulate"
  <2>1. value = Encapsulated(question, random)
    BY <1>3, GeneratedEncapsulations, Zenon
  <2>2. value.ciphertext \in CiphertextSet
    <3> HIDE DEF random
    <3> QED BY <2>1, <1>1 DEF Encapsulated, Ciphertext, CiphertextSet, PublicKeySet
  <2> QED BY <1>3, <2>2 DEF Pooled, PqcTypeOK, PoolNames
<1>4. CASE question.kind = "PQSign_Sign"
  BY <1>4 DEF Pooled, PqcTypeOK, PoolNames
<1>5. CASE question.kind \in {"KEM_Decapsulate", "PQSign_Verify"}
  <2>1. newPools = pools
    BY <1>5 DEF Pooled
  <2> QED BY <2>1 DEF PqcTypeOK
<1> QED BY <1>1, <1>2, <1>3, <1>4, <1>5 DEF PqcKinds, GenerateKeyPair

-----------------------------------------------------------------------------
(* The inductive invariant.                                                *)

LEMMA PqcInitInv == PqcInit => PqcInv
<1> SUFFICES ASSUME PqcInit PROVE PqcInv
  OBVIOUS
<1>1. campaign \subseteq PqcKinds
  BY PqcAssumption DEF PqcInit
<1>2. PqcTypeOK
  BY <1>1 DEF PqcInit, PqcTypeOK, PoolNames
<1>3. QuestionOK
  BY DEF PqcInit, QuestionOK
<1>4. AnswersCorrect
  BY DEF PqcInit, AnswersCorrect
<1>5. RandomnessInPlace
  BY DEF PqcInit, RandomnessInPlace
<1>6. NoFalseAlarm
  BY DEF PqcInit, NoFalseAlarm
<1> QED BY <1>2, <1>3, <1>4, <1>5, <1>6 DEF PqcInv

LEMMA RunInv == PqcInv /\ Run => PqcInv'
<1> SUFFICES ASSUME PqcInv, Run PROVE PqcInv'
  OBVIOUS
<1> USE DEF PqcInv
<1>1. PICK kind \in campaign, alg \in Algorithms : Asks(Ask(kind, alg))
  BY DEF Run
<1>2. kind \in PqcKinds
  BY <1>1 DEF PqcTypeOK
<1>3. PqcTypeOK'
  BY PqcAssumption DEF Run, PqcTypeOK
<1>4. QuestionOK'
  BY <1>1, <1>2, TypedQuestions DEF QuestionOK, PublicKeySet
<1>5. AnswersCorrect'
  BY <1>3 DEF Run, AnswersCorrect, PqcTypeOK
<1>6. RandomnessInPlace'
  BY DEF Run, RandomnessInPlace, openssl
<1>7. NoFalseAlarm'
  BY DEF Run, NoFalseAlarm
<1> QED BY <1>3, <1>4, <1>5, <1>6, <1>7

(* What is an answer to the question stays one: no step but Run changes    *)
(* the question, or takes back that a library failed.                      *)
LEMMA AdmissibleStays ==
  ASSUME question' = question, refused => refused', NEW library, NEW value,
         Admissible(library, value)
  PROVE  Admissible(library, value)'
BY DEF Admissible, CorrectAnswers

LEMMA AnswerableStays ==
  ASSUME question' = question
  PROVE  Answerable' = Answerable
BY DEF Answerable, CorrectAnswers

LEMMA AdmissibleAnswerable ==
  ASSUME NEW library \in Libraries, NEW value,
         value \in CorrectAnswers(library) \/ value = Nullopt
  PROVE  value \in Answerable
<1> DEFINE All == {CorrectAnswers(l) : l \in Libraries}
<1>1. Answerable = (UNION All) \cup {Nullopt}
  BY DEF Answerable
<1>2. CorrectAnswers(library) \in All
  BY Zenon
<1> HIDE DEF All
<1> QED BY <1>1, <1>2

(* An answer that is allowed, put behind the others.                       *)
LEMMA AnswersStep ==
  ASSUME PqcTypeOK, QuestionOK, AnswersCorrect, Len(results) < Len(order),
         UNCHANGED <<campaign, question, order>>, refused => refused', phase' = "calling",
         NEW library, library = Called, NEW value, Answers(value),
         value \in CorrectAnswers(library) \/ (refused' /\ value = Nullopt)
  PROVE  PqcTypeOK' /\ QuestionOK' /\ AnswersCorrect'
<1>1. results \in Seq(Answerable)
  <2>1. CASE results = <<>>
    BY <2>1
  <2>2. CASE results # <<>>
    BY <2>2 DEF AnswersCorrect
  <2> QED BY <2>1, <2>2
<1>2. /\ order \in Seq(Libraries) /\ order # <<>> /\ library \in Libraries
      /\ Len(results) + 1 <= Len(order)
  BY <1>1 DEF PqcTypeOK, Called
<1>3. value \in Answerable
  BY <1>2, AdmissibleAnswerable
<1>4. /\ results' \in Seq(Answerable) /\ Len(results') = Len(results) + 1
      /\ \A i \in 1 .. Len(results) : results'[i] = results[i]
      /\ results'[Len(results) + 1] = value
  BY <1>1, <1>3, AppendProperties DEF Answers
<1>5. PqcTypeOK'
  <2>1. CASE value = Nullopt
    BY <2>1 DEF PqcTypeOK, Answers
  <2>2. CASE value # Nullopt
    <3>1. value \in CorrectAnswers(library) /\ pools' = Pooled(value)
      BY <2>2 DEF Answers
    <3> HIDE DEF PqcTypeOK
    <3>2. /\ DOMAIN pools' = PoolNames
          /\ pools'["KEM_PublicKey"] \subseteq PublicKeySet
          /\ pools'["PQSign_PublicKey"] \subseteq PublicKeySet
          /\ pools'["KEM_PrivateKey"] \subseteq PrivateKeySet
          /\ pools'["PQSign_PrivateKey"] \subseteq PrivateKeySet
          /\ pools'["KEM_Ciphertext"] \subseteq CiphertextSet
      BY <1>2, <2>2, <3>1, TypedPools
    <3> QED BY <3>2 DEF PqcTypeOK
  <2> QED BY <2>1, <2>2
<1>6. QuestionOK'
  BY DEF QuestionOK
<1>7. AnswersCorrect'
  <2>1. results' \in Seq(Answerable') /\ Len(results') <= Len(order')
    BY <1>1, <1>2, <1>4, AnswerableStays
  <2>2. Admissible(library, value)'
    BY AdmissibleStays DEF Admissible, CorrectAnswers
  <2>3. ASSUME NEW i \in DOMAIN results'
        PROVE  Admissible(order[i], results[i])'
    <3>1. CASE i \in 1 .. Len(results)
      <4>1. Admissible(order[i], results[i])
        BY <1>1, <3>1 DEF AnswersCorrect
      <4> QED BY <4>1, <3>1, <1>4, AdmissibleStays
    <3>2. CASE i = Len(results) + 1
      BY <2>2, <3>2, <1>4 DEF Called
    <3> QED BY <1>1, <1>4, <3>1, <3>2
  <2> QED BY <2>1, <2>3 DEF AnswersCorrect
<1> QED BY <1>5, <1>6, <1>7

LEMMA HandleInv ==
  ASSUME PqcInv, NEW library \in {"liboqs", "Botan"},
         Handle(library, CorrectAnswers(library))
  PROVE  PqcInv'
<1> USE DEF PqcInv
<1>1. /\ phase = "calling" /\ Len(results) < Len(order) /\ Called = library
      /\ UNCHANGED <<campaign, runs, question, order, logged, phase, openssl>>
  BY DEF Handle, Calls
<1>2. PICK value : /\ Answers(value)
                   /\ \/ value \in CorrectAnswers(library) /\ refused' = refused
                      \/ value = Nullopt /\ refused' = TRUE
  BY Zenon DEF Handle
<1>3. PqcTypeOK' /\ QuestionOK' /\ AnswersCorrect'
  BY <1>1, <1>2, AnswersStep
<1>4. RandomnessInPlace'
  BY <1>1 DEF RandomnessInPlace, openssl
<1>5. NoFalseAlarm'
  BY <1>1, <1>2 DEF NoFalseAlarm
<1> QED BY <1>3, <1>4, <1>5

LEMMA CallLiboqsInv == PqcInv /\ CallLiboqs => PqcInv'
<1>1. CorrectAnswers("liboqs") = Liboqs(question)
  BY DEF CorrectAnswers
<1> QED BY <1>1, HandleInv DEF CallLiboqs

LEMMA CallBotanInv == PqcInv /\ CallBotan => PqcInv'
<1>1. CorrectAnswers("Botan") = Botan(question)
  BY DEF CorrectAnswers
<1> QED BY <1>1, HandleInv DEF CallBotan

LEMMA CallOpenSSLInv == PqcInv /\ CallOpenSSL => PqcInv'
<1> SUFFICES ASSUME PqcInv, CallOpenSSL PROVE PqcInv'
  OBVIOUS
<1> USE DEF PqcInv
<1>1. /\ phase = "calling" /\ Len(results) < Len(order) /\ Called = "OpenSSL"
      /\ question.kind # "KEM_Encapsulate"
      /\ UNCHANGED <<campaign, runs, question, order, logged, phase, rand, randReplaced>>
  BY DEF CallOpenSSL, Calls
<1>2. Drawn = "openssl"
  BY <1>1 DEF Drawn, RandomnessInPlace
<1>3. CorrectAnswers("OpenSSL") = OpenSSL(question, Drawn)
  BY <1>1, <1>2 DEF CorrectAnswers
<1>4. PICK value : /\ Answers(value)
                   /\ \/ value \in CorrectAnswers("OpenSSL") /\ refused' = refused
                      \/ value = Nullopt /\ refused' = TRUE
  BY <1>3, Zenon DEF CallOpenSSL
<1>5. PqcTypeOK' /\ QuestionOK' /\ AnswersCorrect'
  BY <1>1, <1>4, AnswersStep
<1>6. RandomnessInPlace'
  BY <1>1 DEF RandomnessInPlace
<1>7. NoFalseAlarm'
  BY <1>1, <1>4 DEF NoFalseAlarm
<1> QED BY <1>5, <1>6, <1>7

(* What OpKEM_Encapsulate may leave in ret, after its import and at its    *)
(* end: nothing when the key or the seed is refused, and otherwise the     *)
(* encapsulation under the seed, or under OpenSSL's own randomness.        *)
LEMMA EncapsulateAnswers ==
  ASSUME question.kind = "KEM_Encapsulate"
  PROVE  LET imported == question.pub.alg = question.alg /\ SeedFits("OpenSSL", question)
         IN  /\ ~imported \/ question.pub.of = "malformed" =>
                  Nullopt \in CorrectAnswers("OpenSSL")
             /\ imported =>
                  Encapsulated(question, Random(question, "openssl"))
                    \in CorrectAnswers("OpenSSL")
<1> DEFINE imported == question.pub.alg = question.alg /\ SeedFits("OpenSSL", question)
           value == Encapsulated(question, Random(question, "openssl"))
<1>1. OpenSSL(question, Random(question, "openssl")) = {value}
  BY DEF OpenSSL, GenerateKeyPair
<1>2. CorrectAnswers("OpenSSL")
        = IF imported THEN MayRefuse(question.pub.of, {value}) ELSE {Nullopt}
  BY <1>1 DEF CorrectAnswers, Given
<1> HIDE DEF value
<1>3. ~imported \/ question.pub.of = "malformed" => Nullopt \in CorrectAnswers("OpenSSL")
  BY <1>2 DEF MayRefuse
<1>4. imported => value \in CorrectAnswers("OpenSSL")
  BY <1>2 DEF MayRefuse
<1> QED BY <1>3, <1>4 DEF value

LEMMA OpenSSLImportInv == PqcInv /\ OpenSSLImport => PqcInv'
<1> SUFFICES ASSUME PqcInv, OpenSSLImport PROVE PqcInv'
  OBVIOUS
<1> USE DEF PqcInv
<1>1. /\ phase = "calling" /\ Len(results) < Len(order) /\ Called = "OpenSSL"
      /\ question.kind = "KEM_Encapsulate" /\ answer' = Nullopt
      /\ UNCHANGED <<campaign, pools, runs, question, order, results, logged>>
  BY DEF OpenSSLImport, Calls
<1>2. rand = "module" /\ ~randReplaced
  BY <1>1 DEF RandomnessInPlace
<1>3. /\ phase' \in {"encapsulate", "end"}
      /\ refused => refused'
  BY DEF OpenSSLImport
<1>4. PqcTypeOK' /\ QuestionOK'
  BY <1>1, <1>3 DEF PqcTypeOK, QuestionOK
<1>5. AnswersCorrect'
  BY <1>1, <1>3, AdmissibleStays, AnswerableStays DEF AnswersCorrect
<1>6. RandomnessInPlace'
  <2>1. CASE phase' = "end"
    <3>1. rand' = "module" /\ ~randReplaced'
      BY <1>2, <2>1 DEF OpenSSLImport
    <3>2. Nullopt \in CorrectAnswers("OpenSSL") \/ refused'
      BY <1>1, <2>1, EncapsulateAnswers DEF OpenSSLImport
    <3>3. Admissible("OpenSSL", answer)'
      BY <1>1, <3>2 DEF Admissible, CorrectAnswers
    <3> QED BY <1>1, <2>1, <3>1, <3>3 DEF RandomnessInPlace, Called
  <2>2. CASE phase' = "encapsulate"
    <3>1. question.pub.alg = question.alg /\ SeedFits("OpenSSL", question)
      BY <2>2 DEF OpenSSLImport, SeedFits
    <3>2. /\ rand' = IF randReplaced' THEN "fixed" ELSE "module"
          /\ IF SeedGiven(question)
             THEN randReplaced' /\ encapsSeedBuf' = question.seed.of /\ ~encapsSeedUsed'
             ELSE ~randReplaced'
      BY <1>2, <2>2 DEF OpenSSLImport, Installed
    <3> QED BY <1>1, <2>2, <3>1, <3>2 DEF RandomnessInPlace, Called, SeedFits, SeedGiven, SeedLength
  <2> QED BY <1>3, <2>1, <2>2
<1>7. NoFalseAlarm'
  BY <1>1, <1>3 DEF NoFalseAlarm
<1> QED BY <1>4, <1>5, <1>6, <1>7

LEMMA OpenSSLEncapsulateInv == PqcInv /\ OpenSSLEncapsulate => PqcInv'
<1> SUFFICES ASSUME PqcInv, OpenSSLEncapsulate PROVE PqcInv'
  OBVIOUS
<1> USE DEF PqcInv
<1>1. /\ phase = "encapsulate" /\ phase' = "end" /\ question.kind = "KEM_Encapsulate"
      /\ Len(results) < Len(order) /\ Called = "OpenSSL" /\ answer = Nullopt
      /\ question.pub.alg = question.alg /\ SeedFits("OpenSSL", question)
      /\ UNCHANGED <<campaign, pools, runs, question, order, results, logged,
                     rand, encapsSeedBuf, randReplaced>>
  BY DEF OpenSSLEncapsulate, RandomnessInPlace
<1>2. Drawn = Random(question, "openssl")
  BY <1>1 DEF Drawn, Random, RandomnessInPlace
<1>3. /\ refused => refused'
      /\ answer' \in OpenSSL(question, Drawn) \/ (answer' = Nullopt /\ refused')
  BY <1>1 DEF OpenSSLEncapsulate
<1>4. PqcTypeOK' /\ QuestionOK'
  BY <1>1 DEF PqcTypeOK, QuestionOK
<1>5. AnswersCorrect'
  BY <1>1, <1>3, AdmissibleStays, AnswerableStays DEF AnswersCorrect
<1>6. RandomnessInPlace'
  <2>1. OpenSSL(question, Drawn) = {Encapsulated(question, Random(question, "openssl"))}
    BY <1>1, <1>2 DEF OpenSSL, GenerateKeyPair
  <2>2. answer' \in CorrectAnswers("OpenSSL") \/ (answer' = Nullopt /\ refused')
    BY <1>1, <1>3, <2>1, EncapsulateAnswers
  <2>3. Admissible("OpenSSL", answer)'
    BY <1>1, <2>2 DEF Admissible, CorrectAnswers
  <2> QED BY <1>1, <2>3 DEF RandomnessInPlace, Called
<1>7. NoFalseAlarm'
  BY <1>1, <1>3 DEF NoFalseAlarm
<1> QED BY <1>4, <1>5, <1>6, <1>7

LEMMA OpenSSLEndInv == PqcInv /\ OpenSSLEnd => PqcInv'
<1> SUFFICES ASSUME PqcInv, OpenSSLEnd PROVE PqcInv'
  OBVIOUS
<1> USE DEF PqcInv
<1>1. /\ phase = "end" /\ phase' = "calling" /\ Answers(answer) /\ ~randReplaced'
      /\ UNCHANGED <<campaign, runs, question, order, refused, logged>>
  BY DEF OpenSSLEnd
<1>2. /\ Len(results) < Len(order) /\ Called = "OpenSSL"
      /\ rand = IF randReplaced THEN "fixed" ELSE "module"
      /\ answer \in CorrectAnswers("OpenSSL") \/ (refused /\ answer = Nullopt)
  BY <1>1 DEF RandomnessInPlace, Admissible
<1>3. PqcTypeOK' /\ QuestionOK' /\ AnswersCorrect'
  BY <1>1, <1>2, AnswersStep
<1>4. rand' = "module"
  BY <1>2 DEF OpenSSLEnd, RestoresRand
<1>5. RandomnessInPlace'
  BY <1>1, <1>4 DEF RandomnessInPlace
<1>6. NoFalseAlarm'
  BY <1>1 DEF NoFalseAlarm
<1> QED BY <1>3, <1>5, <1>6

-----------------------------------------------------------------------------
(* The comparison.                                                         *)

(* What all modules say of a question that is compared with a reference.   *)
Agreed ==
  CASE question.kind = "KEM_Decapsulate" -> Decapsulated(question)
    [] question.kind = "PQSign_Verify" -> Valid(question, question.context)
    [] question.kind = "KEM_Encapsulate" -> Encapsulated(question, question.seed.of)

LEMMA AllAgree ==
  ASSUME PqcTypeOK, QuestionOK, AnswersCorrect,
         \/ question.kind \in {"KEM_Decapsulate", "PQSign_Verify"}
         \/ question.kind = "KEM_Encapsulate" /\ SeedGiven(question),
         NEW i \in DOMAIN results, results[i] # Nullopt
  PROVE  results[i] = Agreed
<1>1. /\ order[i] \in Libraries /\ order # <<>>
      /\ results[i] \in CorrectAnswers(order[i])
  BY DEF PqcTypeOK, AnswersCorrect, Admissible
<1>2. CASE question.kind = "KEM_Decapsulate"
  <2>1. results[i] = Decapsulated(question)
    BY <1>1, <1>2, GeneratedSecrets, Zenon
  <2> QED BY <1>2, <2>1 DEF Agreed
<1>3. CASE question.kind = "PQSign_Verify"
  <2>1. question.context \in Contexts
    BY <1>1, <1>3 DEF QuestionOK
  <2>2. results[i] = Valid(question, question.context)
    BY <1>1, <1>3, <2>1, GeneratedVerdicts, Zenon
  <2>3. Agreed = Valid(question, question.context)
    BY <1>3 DEF Agreed
  <2> QED BY ONLY <2>2, <2>3, Zenon
<1>4. CASE question.kind = "KEM_Encapsulate" /\ SeedGiven(question)
  <2>1. results[i] = Encapsulated(question, Random(question, Own(order[i])))
    BY <1>1, <1>4, GeneratedEncapsulations, Zenon
  <2>2. Random(question, Own(order[i])) = question.seed.of
    BY <1>4 DEF Random
  <2> QED BY <1>4, <2>1, <2>2 DEF Agreed
<1> QED BY <1>2, <1>3, <1>4

(* Under a seed all modules generate the same public key, or all decline.  *)
LEMMA SamePublicKeys ==
  ASSUME PqcTypeOK, QuestionOK, AnswersCorrect, ~refused,
         question.kind \in GenerateKeyPair, SeedGiven(question)
  PROVE  ~Comparing!PublicKeysDiffer(results)
<1> DEFINE fits == question.seed.size = SeedLength(question.kind)
           public == Public(question.alg, question.seed.of)
<1>1. ASSUME NEW i \in DOMAIN results
      PROVE  IF fits THEN results[i] # Nullopt /\ results[i].pub = public
             ELSE results[i] = Nullopt
  <2>1. /\ order[i] \in Libraries /\ order # <<>>
        /\ results[i] \in CorrectAnswers(order[i])
    BY DEF PqcTypeOK, AnswersCorrect, Admissible
  <2>2. Random(question, Own(order[i])) = question.seed.of
    BY DEF Random
  <2>3. IF fits
        THEN \E form \in {"seed", "expanded"} :
               results[i] = KeyPair(question.alg, question.seed.of, form)
        ELSE results[i] = Nullopt
    BY <2>1, <2>2, GeneratedKeyPairs
  <2>4. \A form \in {"seed", "expanded"} :
          LET pair == KeyPair(question.alg, question.seed.of, form)
          IN  pair \in KeyPairSet /\ pair.pub = public
    BY <2>1 DEF KeyPair, QuestionOK, KeyPairSet, Public, SeedKey, Expanded,
                PublicKeySet, PrivateKeySet
  <2> QED BY <2>3, <2>4, PqcAssumption
<1>2. ASSUME NEW i \in DOMAIN results, fits
      PROVE  Publics[results[i]] = public
  <2>1. results[i] \in {results[j] : j \in DOMAIN results} \ {Nullopt}
    BY <1>1, <1>2
  <2>2. Publics[results[i]] = results[i].pub
    BY <2>1, Zenon DEF Publics
  <2> QED BY <1>1, <1>2, <2>2
<1>3. \A i \in DOMAIN results : 1 \in DOMAIN results
  BY DEF AnswersCorrect
<1> HIDE DEF fits, public
<1> QED BY <1>1, <1>2, <1>3, Zenon DEF Comparing!PublicKeysDiffer

LEMMA CompareInv == PqcInv /\ Compare => PqcInv'
<1> SUFFICES ASSUME PqcInv, Compare PROVE PqcInv'
  OBVIOUS
<1> USE DEF PqcInv
<1>1. /\ phase = "calling"
      /\ UNCHANGED <<campaign, pools, runs, question, order, results, refused, openssl>>
  BY DEF Compare
<1>2. ~Comparing!Fatal(Style(question.kind), ComparedSeed(question), FALSE, results)
  <2>1. CASE question.kind \in {"KEM_Decapsulate", "PQSign_Verify"}
    <3>1. \A i \in DOMAIN results : results[i] # Nullopt => results[i] = Agreed
      BY <2>1, AllAgree
    <3>2. ~Comparing!ReferenceDiffer(results)
      BY ONLY <3>1, Zenon DEF Comparing!ReferenceDiffer, Comparing!Valued
    <3>3. Style(question.kind) = "reference"
      BY <2>1 DEF Style
    <3> QED BY <3>2, <3>3 DEF Comparing!Fatal
  <2>2. CASE question.kind = "KEM_Encapsulate"
    <3>1. Style(question.kind) = "seededReference"
      BY <2>2 DEF Style
    <3>2. CASE ComparedSeed(question)
      <4>1. \A i \in DOMAIN results : results[i] # Nullopt => results[i] = Agreed
        BY <2>2, <3>2, AllAgree DEF ComparedSeed, SeedGiven
      <4>2. ~Comparing!ReferenceDiffer(results)
        BY ONLY <4>1, Zenon DEF Comparing!ReferenceDiffer, Comparing!Valued
      <4> QED BY <3>1, <4>2 DEF Comparing!Fatal
    <3>3. CASE ~ComparedSeed(question)
      BY <3>1, <3>3 DEF Comparing!Fatal
    <3> QED BY <3>2, <3>3
  <2>3. CASE question.kind \notin {"KEM_Decapsulate", "PQSign_Verify", "KEM_Encapsulate"}
    <3>1. Style(question.kind) \in {"seededPublicKey", "none"}
      BY <2>3 DEF Style
    <3> QED BY <3>1 DEF Comparing!Fatal
  <2> QED BY <2>1, <2>2, <2>3
<1>3. Comparing!Logged(Style(question.kind), ComparedSeed(question), results) => refused
  <2> SUFFICES ASSUME Comparing!Logged(Style(question.kind), ComparedSeed(question), results),
                      ~refused
               PROVE  FALSE
    OBVIOUS
  <2>1. /\ Style(question.kind) = "seededPublicKey" /\ ComparedSeed(question)
        /\ Comparing!PublicKeysDiffer(results)
    BY DEF Comparing!Logged
  <2>2. question.kind = "KEM_GenerateKeyPair"
    BY <2>1 DEF Style
  <2>3. question.kind \in GenerateKeyPair /\ SeedGiven(question)
    BY <2>1, <2>2 DEF ComparedSeed, SeedGiven, GenerateKeyPair
  <2> QED BY <2>1, <2>3, SamePublicKeys
<1>4. phase' = "idle" /\ (logged' => refused')
  BY <1>1, <1>2, <1>3 DEF Compare
<1>5. PqcTypeOK' /\ QuestionOK'
  BY <1>1, <1>4 DEF PqcTypeOK, QuestionOK
<1>6. AnswersCorrect'
  BY <1>1, AdmissibleStays, AnswerableStays DEF AnswersCorrect
<1>7. RandomnessInPlace'
  BY <1>1, <1>4 DEF RandomnessInPlace, openssl
<1>8. NoFalseAlarm'
  BY <1>4 DEF NoFalseAlarm
<1> QED BY <1>5, <1>6, <1>7, <1>8

-----------------------------------------------------------------------------
(* The theorems.                                                           *)

(* The inductive invariant: keys, ciphertexts and questions are made from  *)
(* known bytes, answers are the ones the standards allow, and the seed of  *)
(* an encapsulation is in encaps_seed_buf exactly while OpenSSL is asked.  *)
THEOREM PqcInvariant == PqcSpec => []PqcInv
<1>1. PqcInv /\ [PqcNext]_pqcVars => PqcInv'
  <2> SUFFICES ASSUME PqcInv, [PqcNext]_pqcVars PROVE PqcInv'
    OBVIOUS
  <2>1. CASE Run
    BY <2>1, RunInv
  <2>2. CASE CallLiboqs
    BY <2>2, CallLiboqsInv
  <2>3. CASE CallBotan
    BY <2>3, CallBotanInv
  <2>4. CASE CallOpenSSL
    BY <2>4, CallOpenSSLInv
  <2>5. CASE OpenSSLImport
    BY <2>5, OpenSSLImportInv
  <2>6. CASE OpenSSLEncapsulate
    BY <2>6, OpenSSLEncapsulateInv
  <2>7. CASE OpenSSLEnd
    BY <2>7, OpenSSLEndInv
  <2>8. CASE Compare
    BY <2>8, CompareInv
  <2>9. CASE UNCHANGED pqcVars
    <3>1. UNCHANGED <<campaign, pools, question, order, results, refused, logged, phase,
                      rand, encapsSeedBuf, encapsSeedUsed, randReplaced, answer>>
      BY <2>9 DEF pqcVars, openssl
    <3>2. PqcTypeOK' /\ QuestionOK' /\ NoFalseAlarm'
      BY <3>1 DEF PqcInv, PqcTypeOK, QuestionOK, NoFalseAlarm
    <3>3. AnswersCorrect'
      BY <3>1, AdmissibleStays, AnswerableStays DEF PqcInv, AnswersCorrect
    <3>4. RandomnessInPlace'
      BY <3>1, AdmissibleStays DEF PqcInv, RandomnessInPlace, Called
    <3> QED BY <3>2, <3>3, <3>4 DEF PqcInv
  <2> QED BY <2>1, <2>2, <2>3, <2>4, <2>5, <2>6, <2>7, <2>8, <2>9 DEF PqcNext
<1> QED BY <1>1, PqcInitInv, PTL DEF PqcSpec

(* Modules that follow FIPS 203 and 204 never make the executor abort, in  *)
(* whichever order they are asked, whichever seeds, contexts and forms of  *)
(* keys they take: the comparisons of executor.cpp only let through what   *)
(* all modules agree about.                                                *)
THEOREM ModulesAgree == PqcSpec => []NoFalseAlarm
<1>1. PqcInv => NoFalseAlarm
  BY DEF PqcInv
<1> QED BY <1>1, PqcInvariant, PTL

(* A key or ciphertext is made from the question's seed if it has one, and *)
(* otherwise from the asked module's own randomness, whatever happened to  *)
(* the calls before (OpKEM_Encapsulate's encaps_seed_buf).                 *)
THEOREM SeedsAreObeyed == PqcSpec => []SeedsDecide
<1>1. ASSUME PqcInv PROVE SeedsDecide
  <2> DEFINE own == [liboqs |-> "system", OpenSSL |-> "openssl", Botan |-> "modifier"]
  <2> SUFFICES ASSUME question.kind \in GenerateKeyPair \cup {"KEM_Encapsulate"},
                      NEW i \in DOMAIN results, results[i] # Nullopt
               PROVE  Randomness(question, results[i]) =
                        IF SeedGiven(question) THEN question.seed.of ELSE own[order[i]]
    BY DEF SeedsDecide
  <2>1. order[i] \in Libraries /\ results[i] \in CorrectAnswers(order[i])
    BY <1>1 DEF PqcInv, PqcTypeOK, AnswersCorrect, Admissible
  <2>2. Own(order[i]) = own[order[i]]
    BY <2>1 DEF Own, Libraries
  <2>3. Randomness(question, results[i]) = Random(question, Own(order[i]))
    <3>1. CASE question.kind = "KEM_Encapsulate"
      <4>1. results[i] = Encapsulated(question, Random(question, Own(order[i])))
        BY <2>1, <3>1, GeneratedEncapsulations, Zenon
      <4> QED BY <3>1, <4>1 DEF Randomness, Encapsulated, Ciphertext
    <3>2. CASE question.kind \in GenerateKeyPair
      <4>1. PICK form \in {"seed", "expanded"} :
              results[i] = KeyPair(question.alg, Random(question, Own(order[i])), form)
        BY <2>1, <3>2, GeneratedKeyPairs, Zenon
      <4> QED BY <3>2, <4>1 DEF Randomness, KeyPair, Public, GenerateKeyPair
    <3> QED BY <3>1, <3>2
  <2> QED BY <2>2, <2>3 DEF Random
<1> QED BY <1>1, PqcInvariant, PTL

(* Two elements at least.                                                  *)
LEMMA TwoElements ==
  ASSUME NEW n \in Nat, NEW S \in SUBSET (1 .. n), NEW i \in S, NEW j \in S, i # j
  PROVE  Cardinality(S) >= 2
<1>1. IsFiniteSet(S)
  <2>1. IsFiniteSet(1 .. n)
    BY FS_Interval
  <2> QED BY <2>1, FS_Subset
<1>2. IsFiniteSet({i}) /\ Cardinality({i}) = 1
  BY FS_Singleton
<1>3. Cardinality({i} \cup {j}) = 2
  <2>1. j \notin {i}
    OBVIOUS
  <2>2. Cardinality({i} \cup {j}) = Cardinality({i}) + 1
    BY ONLY <1>2, <2>1, FS_AddElement, Zenon
  <2> QED BY <1>2, <2>2
<1>4. Cardinality({i} \cup {j}) <= Cardinality(S)
  <2>1. {i} \cup {j} \in SUBSET S
    OBVIOUS
  <2> QED BY ONLY <1>1, <2>1, FS_Subset, Zenon
<1>5. Cardinality(S) \in Nat
  BY <1>1, FS_CardinalityType
<1> QED BY <1>3, <1>4, <1>5

(* A module that knows the form of a well-formed key decapsulates with it. *)
LEMMA Decapsulates ==
  ASSUME QuestionOK, order # <<>>, question.kind = "KEM_Decapsulate",
         question.priv.of # "malformed", question.ciphertext.alg = question.alg,
         question.priv.alg \in {"any", question.alg}
  PROVE  /\ Nullopt \notin CorrectAnswers("OpenSSL")
         /\ question.priv.form = "expanded" => Nullopt \notin CorrectAnswers("liboqs")
         /\ question.priv.form = "seed" => Nullopt \notin CorrectAnswers("Botan")
<1>1. /\ question.priv.form = "seed" \/
           (question.priv.form = "expanded" /\ question.priv.alg = question.alg)
      /\ question.alg \in Algorithms /\ question.priv.of \in Sources
      /\ question.ciphertext \in CiphertextSet
  BY PqcAssumption DEF QuestionOK, PrivateKeySet
<1>2. Decapsulated(question) \in SecretSet
  BY <1>1 DEF Decapsulated, SecretSet, CiphertextSet
<1>3. Decapsulated(question) # Nullopt
  BY <1>2, PqcAssumption
<1>4. question.kind \notin GenerateKeyPair
  BY DEF GenerateKeyPair
<1> DEFINE secret == Decapsulated(question)
<1>5. CorrectAnswers("OpenSSL") = {secret}
  BY <1>1, <1>4 DEF CorrectAnswers, OpenSSL, Given, MayRefuse, Imports, OpenSSLForms
<1>6. question.priv.form = "expanded" => CorrectAnswers("liboqs") = {secret}
  BY <1>1, <1>4 DEF CorrectAnswers, Liboqs, Given, MayRefuse, Imports
<1>7. question.priv.form = "seed" => CorrectAnswers("Botan") = {secret}
  BY <1>1, <1>4 DEF CorrectAnswers, Botan, Given, Imports
<1> HIDE DEF secret
<1> QED BY <1>3, <1>5, <1>6, <1>7 DEF secret

(* Whoever made a private key, two modules at least decapsulate with it:   *)
(* OpenSSL, which knows both forms, and the one that made its form.        *)
THEOREM TwoCompared == PqcSpec => []ComparedByTwo
<1>1. ASSUME PqcInv PROVE ComparedByTwo
  <2> DEFINE valued == {i \in DOMAIN results : results[i] # Nullopt}
  <2> SUFFICES ASSUME question.kind = "KEM_Decapsulate", Len(results) = Len(order), ~refused,
                      {order[i] : i \in DOMAIN order} = Libraries,
                      question.priv.of # "malformed",
                      question.priv.alg \in {"any", question.alg},
                      question.ciphertext.alg = question.alg
               PROVE  Cardinality(valued) >= 2
    BY DEF ComparedByTwo
  <2>1. /\ order \in Seq(Libraries) /\ Len(order) \in Nat
        /\ QuestionOK /\ AnswersCorrect
    BY <1>1 DEF PqcInv, PqcTypeOK
  <2>2. ASSUME NEW library \in Libraries
        PROVE  \E i \in DOMAIN order : order[i] = library
    BY <2>2
  <2>3. order # <<>>
    BY <2>1, <2>2 DEF Libraries
  <2>4. DOMAIN results = 1 .. Len(order) /\ DOMAIN order = 1 .. Len(order)
    BY <2>1, <2>3 DEF AnswersCorrect
  <2>5. \A i \in DOMAIN order : results[i] \in CorrectAnswers(order[i])
    BY <2>1, <2>4 DEF AnswersCorrect, Admissible
  <2>6. ASSUME NEW library \in Libraries, Nullopt \notin CorrectAnswers(library)
        PROVE  \E i \in valued : order[i] = library
    BY <2>2, <2>4, <2>5, <2>6
  <2>7. PICK i \in valued : order[i] = "OpenSSL"
    BY <2>1, <2>3, <2>6, Decapsulates DEF Libraries
  <2>8. PICK j \in valued : order[j] \in {"liboqs", "Botan"}
    <3>1. question.priv.form \in {"seed", "expanded"}
      BY <2>1, <2>3 DEF QuestionOK, PrivateKeySet
    <3> QED BY <2>1, <2>3, <2>6, <3>1, Decapsulates DEF Libraries
  <2>9. valued \in SUBSET (1 .. Len(order)) /\ i # j
    BY <2>4, <2>7, <2>8
  <2> HIDE DEF valued
  <2> QED BY ONLY <2>1, <2>7, <2>8, <2>9, TwoElements
<1> QED BY <1>1, PqcInvariant, PTL

-----------------------------------------------------------------------------
(* The randomness of the liboqs module.                                    *)

(* What the checks of a handler establish about a seed that passes them    *)
(* (CF_CHECK_EQ on the seed's size in liboqs/module.cpp).                  *)
LEMMA AcceptedSeedFits ==
  ASSUME NEW r \in Requests, Acceptable(r), Seeded(r)
  PROVE  /\ r.kind \in SeededKinds
         /\ r.seed \in Seeds
         /\ SeedSize[r.seed] = DrawLength[r.kind]
BY LiboqsAssumption DEF Acceptable, Seeded

(* The invariant holds before the first call.                              *)
LEMMA InitEstablishes == Init => IInv
<1> SUFFICES ASSUME Init PROVE IInv
  OBVIOUS
<1>1. TypeOK
  <2>1. fixed \in [seed : Seeds \cup {NoSeed}, len : 0 .. FixedCapacity, pos : Nat]
    <3>1. 0 \in 0 .. FixedCapacity
      BY LiboqsAssumption
    <3> QED
      BY <3>1 DEF Init
  <2>2. drbg \in [seed : {Entropy[k] : k \in Keys} \cup {NoKey}, drawn : Nat]
    BY DEF Init
  <2> QED
    <3>1. fixed.pos <= fixed.len /\ (fixed.seed # NoSeed => fixed.len <= SeedSize[fixed.seed])
      BY DEF Init
    <3> QED
      BY <2>1, <2>2, <3>1 DEF Init, TypeOK, Phases
<1> QED
  BY <1>1 DEF Init, IInv, SystemBetweenCalls, AnswersExpected

(* Every step of a handler preserves the invariant.                        *)
LEMMA StepPreserves == IInv /\ [Next]_vars => IInv'
<1> SUFFICES ASSUME IInv, [Next]_vars PROVE IInv'
  OBVIOUS
<1> USE DEF Phases
<1>a. /\ TypeOK
      /\ AnswersExpected
      /\ pc \in {"idle", "check"} => rng = "system"
      /\ pc = "check" => ~answered
      /\ pc = "draw" => SourceReady
      /\ pc = "end" => rng = "system" \/ Restores
      /\ pc = "end" => (answered => drawn = Expected(request))
  BY DEF IInv, SystemBetweenCalls
<1>b. SUFFICES /\ TypeOK'
               /\ AnswersExpected'
               /\ (pc \in {"idle", "check"} => rng = "system")'
               /\ (pc = "check" => ~answered)'
               /\ (pc = "draw" => SourceReady)'
               /\ (pc = "end" => rng = "system" \/ Restores)'
               /\ (pc = "end" => (answered => drawn = Expected(request)))'
  BY DEF IInv, SystemBetweenCalls
<1>1. CASE Call
  BY <1>1, <1>a DEF Call, globals, TypeOK, AnswersExpected, Expected
<1>2. CASE Reject
  BY <1>2, <1>a DEF Reject, globals, TypeOK, AnswersExpected, Expected
<1>3. CASE Derandomised
  <2>1. Expected(request) = SeedBytes(request.seed)
    BY <1>3 DEF Derandomised, Expected
  <2>2. drawn' = Expected(request)'
    BY <1>3, <2>1 DEF Derandomised, Expected, SeedBytes, Seeded
  <2> QED
    BY <1>3, <1>a, <2>2 DEF Derandomised, globals, TypeOK, AnswersExpected, Expected
<1>4. CASE UseInstalled
  <2>1. SourceReady'
    BY <1>4, <1>a DEF UseInstalled, globals, SourceReady, Seeded
  <2> QED
    BY <1>4, <1>a, <2>1 DEF UseInstalled, globals, TypeOK, AnswersExpected, Expected
<1>5. CASE InstallFixed
  <2>1. /\ request \in Requests
        /\ request.kind = "PQSign_GenerateKeyPair"
        /\ request.seed \in Seeds
        /\ SeedSize[request.seed] = DrawLength[request.kind]
        /\ DrawLength[request.kind] \in Nat
        /\ DrawLength[request.kind] <= FixedCapacity
    BY <1>5, <1>a, AcceptedSeedFits, LiboqsAssumption DEF InstallFixed, TypeOK
  <2>2. fixed' = [seed |-> request.seed, len |-> DrawLength[request.kind], pos |-> 0]
    BY <1>5, <2>1, LiboqsAssumption DEF InstallFixed, SeededFixed
  <2>3. SourceReady'
    BY <1>5, <2>1, <2>2 DEF InstallFixed, SourceReady, Seeded
  <2>4. TypeOK'
    BY <1>5, <1>a, <2>1, <2>2, LiboqsAssumption DEF InstallFixed, TypeOK
  <2> QED
    BY <1>5, <1>a, <2>3, <2>4 DEF InstallFixed, AnswersExpected, Expected
<1>6. CASE InstallDrbg
  <2>1. request \in Requests /\ request.key \in Keys
    BY <1>6, <1>a, LiboqsAssumption DEF InstallDrbg, TypeOK
  <2>2. SourceReady'
    BY <1>6 DEF InstallDrbg, SourceReady, SeededDrbg
  <2>3. TypeOK'
    BY <1>6, <1>a, <2>1 DEF InstallDrbg, TypeOK, SeededDrbg
  <2> QED
    BY <1>6, <1>a, <2>2, <2>3 DEF InstallDrbg, AnswersExpected, Expected
<1>7. CASE Draw
  <2> DEFINE n == DrawLength[request.kind]
  <2>1. n \in Nat /\ request \in Requests
    BY <1>a, LiboqsAssumption DEF TypeOK
  <2>2. SourceReady
    BY <1>7, <1>a DEF Draw
  <2>3. drawn' = Expected(request)
    <3>1. CASE request.kind = "PQSign_Sign"
      <4>1. rng = "drbg" /\ drbg = [seed |-> Entropy[request.key], drawn |-> 0]
        BY <2>2, <3>1 DEF SourceReady
      <4>2. drawn' = [i \in 1 .. n |-> DrbgByte(i)]
        BY <1>7, <4>1 DEF Draw
      <4>3. \A i \in 1 .. n : DrbgByte(i) = <<"drbg", Entropy[request.key], i>>
        BY <4>1, <2>1 DEF DrbgByte
      <4> QED
        BY <4>2, <4>3, <3>1 DEF Expected
    <3>2. CASE request.kind # "PQSign_Sign" /\ Seeded(request)
      <4>1. /\ rng = "fixed"
            /\ SeedSize[request.seed] = n
            /\ fixed = [seed |-> request.seed, len |-> n, pos |-> 0]
        BY <2>2, <3>2 DEF SourceReady
      <4>2. drawn' = [i \in 1 .. n |-> FixedByte(i)]
        BY <1>7, <4>1 DEF Draw
      <4>3. \A i \in 1 .. n : FixedByte(i) = <<"seed", request.seed, i>>
        BY <4>1, <2>1 DEF FixedByte
      <4> QED
        BY <4>1, <4>2, <4>3, <3>2 DEF Expected, SeedBytes
    <3>3. CASE request.kind # "PQSign_Sign" /\ ~Seeded(request)
      <4>1. rng = "system"
        BY <2>2, <3>3 DEF SourceReady
      <4> QED
        BY <1>7, <4>1, <3>3 DEF Draw, Expected
    <3> QED
      BY <3>1, <3>2, <3>3
  <2>4. (rng = "system" \/ Restores)'
    BY <1>7, <2>2 DEF Draw, SourceReady, Restores
  <2>5. Expected(request)' = Expected(request)
    BY <1>7 DEF Draw, Expected, Seeded, SeedBytes
  <2>6. TypeOK'
    <3>1. (fixed \in [seed : Seeds \cup {NoSeed}, len : 0 .. FixedCapacity, pos : Nat]
             /\ fixed.pos <= fixed.len
             /\ (fixed.seed # NoSeed => fixed.len <= SeedSize[fixed.seed]))'
      <4>1. CASE rng = "fixed"
        <5>1. fixed' = [fixed EXCEPT !.pos = FixedPosAfter(n)]
          BY <1>7, <4>1 DEF Draw
        <5>2. FixedPosAfter(n) \in Nat /\ FixedPosAfter(n) <= fixed.len
          BY <1>a, <2>1 DEF TypeOK, FixedPosAfter
        <5> QED
          BY <5>1, <5>2, <1>a DEF TypeOK
      <4>2. CASE rng # "fixed"
        BY <1>7, <1>a, <4>2 DEF Draw, TypeOK
      <4> QED
        BY <4>1, <4>2
    <3>2. (drbg \in [seed : {Entropy[k] : k \in Keys} \cup {NoKey}, drawn : Nat])'
      BY <1>7, <1>a, <2>1 DEF Draw, TypeOK
    <3> QED
      BY <1>7, <1>a, <3>1, <3>2 DEF Draw, TypeOK
  <2> QED
    BY <1>7, <1>a, <2>3, <2>4, <2>5, <2>6 DEF Draw, AnswersExpected, Expected
<1>8. CASE Return
  <2>1. TypeOK'
    BY <1>8, <1>a DEF Return, TypeOK
  <2>2. rng' = "system"
    BY <1>8, <1>a DEF Return
  <2>3. AnswersExpected'
    <3>1. request \in Requests /\ (answered => drawn = Expected(request))
      BY <1>8, <1>a DEF Return, TypeOK
    <3>2. \A a \in answers' :
            a \in answers \/ (answered /\ a = [request |-> request, bytes |-> drawn])
      BY <1>8 DEF Return
    <3> QED
      BY <1>a, <3>1, <3>2 DEF AnswersExpected
  <2> QED
    BY <1>8, <2>1, <2>2, <2>3 DEF Return
<1>9. CASE UNCHANGED vars
  BY <1>9, <1>a
     DEF vars, TypeOK, AnswersExpected, SourceReady, Expected, Restores, Seeded, SeedBytes
<1> QED
  BY <1>1, <1>2, <1>3, <1>4, <1>5, <1>6, <1>7, <1>8, <1>9 DEF Next

(* The inductive invariant holds throughout.                               *)
THEOREM Invariance == Spec => []IInv
BY InitEstablishes, StepPreserves, PTL DEF Spec

(* Type correctness, the fixed buffer's bounds included.                   *)
THEOREM TypeCorrect == Spec => []TypeOK
<1>1. IInv => TypeOK
  BY DEF IInv
<1> QED
  BY <1>1, Invariance, PTL

(* Between calls liboqs always draws from the system source.               *)
THEOREM RestoresSystem == Spec => []SystemBetweenCalls
<1>1. IInv => SystemBetweenCalls
  BY DEF IInv
<1> QED
  BY <1>1, Invariance, PTL

(* An answer to a seeded request rests on the seed's bytes and no others.  *)
THEOREM PassesSeedsVerbatim == Spec => []SeedsVerbatim
<1>1. IInv => SeedsVerbatim
  <2> SUFFICES ASSUME IInv, NEW a \in answers, Seeded(a.request)
               PROVE  a.bytes = SeedBytes(a.request.seed)
    BY DEF SeedsVerbatim
  <2>1. a.request \in Requests /\ a.bytes = Expected(a.request)
    BY DEF IInv, AnswersExpected
  <2>2. a.request.kind # "PQSign_Sign"
    BY <2>1, LiboqsAssumption DEF Seeded, SeededKinds
  <2> QED
    BY <2>1, <2>2 DEF Expected
<1> QED
  BY <1>1, Invariance, PTL

(* Signing twice with keys of one entropy uses the same randomness.        *)
THEOREM SignsReproducibly == Spec => []SigningReproducible
<1>1. IInv => SigningReproducible
  <2> SUFFICES ASSUME IInv, NEW a \in answers, NEW b \in answers,
                      a.request.kind = "PQSign_Sign", b.request.kind = "PQSign_Sign",
                      Entropy[a.request.key] = Entropy[b.request.key]
               PROVE  a.bytes = b.bytes
    BY DEF SigningReproducible
  <2> DEFINE stream(e) ==
        [i \in 1 .. DrawLength["PQSign_Sign"] |-> <<"drbg", e, i>>]
  <2>1. a.bytes = stream(Entropy[a.request.key])
    BY DEF IInv, AnswersExpected, Expected
  <2>2. b.bytes = stream(Entropy[b.request.key])
    BY DEF IInv, AnswersExpected, Expected
  <2> QED
    BY <2>1, <2>2
<1> QED
  BY <1>1, Invariance, PTL

(* Unseeded operations draw nothing but system randomness.                 *)
THEOREM KeepsUnseededRandom == Spec => []UnseededIsRandom
<1>1. IInv => UnseededIsRandom
  <2> SUFFICES ASSUME IInv, NEW a \in answers, a.request.kind # "PQSign_Sign",
                      ~Seeded(a.request), NEW i \in DOMAIN a.bytes
               PROVE  a.bytes[i] = System
    BY DEF UnseededIsRandom
  <2>1. a.bytes = [k \in 1 .. DrawLength[a.request.kind] |-> System]
    BY DEF IInv, AnswersExpected, Expected
  <2> QED
    BY <2>1
<1> QED
  BY <1>1, Invariance, PTL
=============================================================================
