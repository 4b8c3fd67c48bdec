----------------------------- MODULE PqcModules -----------------------------
(***************************************************************************)
(* ML-KEM and ML-DSA in the three modules that implement them, liboqs,     *)
(* OpenSSL and Botan, under the executor: a run asks modules one question, *)
(* keeps what they produce in the mutator's pools and compares, and later  *)
(* questions are made from the pools.  Keys, ciphertexts and signatures    *)
(* are records of what they were made from; the bytes a library drew have  *)
(* a name that tells where they came from.  The libraries follow FIPS 203  *)
(* and 204, except that any call may fail.                                 *)
(***************************************************************************)
EXTENDS Integers, Sequences, FiniteSets

CONSTANTS
  Nullopt,      \* std::nullopt
  Campaigns,    \* sets of operations, one of which the options name
  Algorithms,   \* parameter sets: their keys and ciphertexts differ in size
  KeySeeds,     \* what seed a key generation may carry
  EncapsSeeds,  \* and an encapsulation
  Contexts,     \* of signatures
  Orders,       \* the modules a run calls, one after the other
  MaxRuns       \* bound: the operations of a behaviour

VARIABLES
  campaign,  \* the operations named
  pools,     \* what the pools may hold: everything that was ever put there
  runs,      \* the number of operations so far
  question,  \* of the run
  order,     \* the modules that are asked
  results,   \* the answers so far
  refused,   \* a library failed on a call it could have answered
  logged,    \* the executor reported key pairs that differ
  phase,     \* "idle", "calling", "encapsulate", "end" or "aborted"
  rand,      \* OpenSSL's RAND_METHOD: the module's own or fixed_rand_method
  encapsSeedBuf,
  encapsSeedUsed,  \* encaps_seed_pos is at the end of the buffer
  randReplaced,    \* while the handler runs
  answer     \* ret, likewise

openssl == <<rand, encapsSeedBuf, encapsSeedUsed, randReplaced, answer>>
pqcVars == <<campaign, pools, runs, question, order, results, refused, logged, phase, openssl>>

Libraries == {"liboqs", "OpenSSL", "Botan"}
PqcKinds == {"KEM_GenerateKeyPair", "KEM_Encapsulate", "KEM_Decapsulate",
             "PQSign_GenerateKeyPair", "PQSign_Sign", "PQSign_Verify"}
PoolNames == {"KEM_PublicKey", "KEM_PrivateKey", "KEM_Ciphertext",
              "PQSign_PublicKey", "PQSign_PrivateKey", "PQSign_Signature"}

-----------------------------------------------------------------------------
(* What is passed around.                                                  *)

Unseeded == [given |-> FALSE, size |-> 0, of |-> "none"]
Seed(size, of) == [given |-> TRUE, size |-> size, of |-> of]
NoContext == [given |-> FALSE, size |-> 0, of |-> "none"]
Context(size, of) == [given |-> TRUE, size |-> size, of |-> of]
Text(context) == [size |-> context.size, of |-> context.of]   \* none is the empty one

Public(alg, of) == [alg |-> alg, of |-> of]
Expanded(alg, of) == [form |-> "expanded", alg |-> alg, of |-> of]
SeedKey(of) == [form |-> "seed", alg |-> "any", of |-> of]   \* 64 or 32 bytes
Ciphertext(alg, of, m) == [alg |-> alg, of |-> of, m |-> m]
Signature(alg, of, context) == [alg |-> alg, of |-> of, context |-> Text(context)]

(* Where the bytes can come from that keys and ciphertexts are made of.    *)
Sources ==
  {"none", "malformed", "garbage", "random", "system", "openssl", "modifier"}
    \cup {seed.of : seed \in KeySeeds \cup EncapsSeeds}

PublicKeySet == [alg : Algorithms, of : Sources]
PrivateKeySet ==
  [form : {"expanded"}, alg : Algorithms, of : Sources]
    \cup [form : {"seed"}, alg : {"any"}, of : Sources]
CiphertextSet == [alg : Algorithms, of : Sources, m : Sources]
KeyPairSet == [pub : PublicKeySet, priv : PrivateKeySet]
SecretSet == [alg : Algorithms, of : Sources, m : Sources \cup CiphertextSet]

(* std::nullopt is no value, and all empty contexts are the same.          *)
ASSUME PqcAssumption ==
  /\ Campaigns \subseteq SUBSET PqcKinds
  /\ Orders \subseteq Seq(Libraries)
  /\ "any" \notin Algorithms
  /\ Nullopt \notin KeyPairSet /\ Nullopt \notin SecretSet
  /\ \A c \in Contexts :
       /\ ~c.given => c.size = 0
       /\ c.size = 0 => c.of = "none"

SeedLength(kind) == IF kind = "KEM_GenerateKeyPair" THEN 64 ELSE 32

SeedGiven(r) == r.seed.given /\ r.seed.size > 0

(* Fault: liboqs takes seeds of any size.                                  *)
FaultSeedFits(library, r) == library = "liboqs" \/ r.seed.size \in {0, SeedLength(r.kind)}

SeedFits(library, r) == SeedGiven(r) => r.seed.size = SeedLength(r.kind)

(* A question: fields an operation does not have hold a constant.          *)
Ask(kind, alg) ==
  [kind |-> kind, alg |-> alg, seed |-> Unseeded, pub |-> Public(alg, "none"),
   priv |-> Expanded(alg, "none"), ciphertext |-> Ciphertext(alg, "none", "none"),
   signature |-> Signature(alg, "none", NoContext), context |-> NoContext]

GenerateKeyPair == {"KEM_GenerateKeyPair", "PQSign_GenerateKeyPair"}

(* The mutator takes keys, ciphertexts and signatures from the pools, of   *)
(* whatever algorithm they are, or makes them up.                          *)
PublicKeys(alg, pool) == pools[pool] \cup {Public(alg, "malformed")}
PrivateKeys(alg, pool) ==
  pools[pool] \cup {Expanded(alg, "malformed"), SeedKey("random")}

AskKeyPair(ask) ==
  /\ ask.kind \in GenerateKeyPair
  /\ \E s \in KeySeeds : question' = [ask EXCEPT !.seed = s]

AskEncapsulate(ask) ==
  /\ ask.kind = "KEM_Encapsulate"
  /\ \E pub \in PublicKeys(ask.alg, "KEM_PublicKey"), s \in EncapsSeeds :
       question' = [ask EXCEPT !.pub = pub, !.seed = s]

AskDecapsulate(ask) ==
  /\ ask.kind = "KEM_Decapsulate"
  /\ \E priv \in PrivateKeys(ask.alg, "KEM_PrivateKey"),
        ct \in pools["KEM_Ciphertext"] \cup {Ciphertext(ask.alg, "garbage", "garbage")} :
       question' = [ask EXCEPT !.priv = priv, !.ciphertext = ct]

AskSign(ask) ==
  /\ ask.kind = "PQSign_Sign"
  /\ \E priv \in PrivateKeys(ask.alg, "PQSign_PrivateKey"), context \in Contexts :
       question' = [ask EXCEPT !.priv = priv, !.context = context]

AskVerify(ask) ==
  /\ ask.kind = "PQSign_Verify"
  /\ \E pub \in PublicKeys(ask.alg, "PQSign_PublicKey"),
        sig \in pools["PQSign_Signature"] \cup {Signature(ask.alg, "garbage", NoContext)},
        context \in Contexts :
       question' = [ask EXCEPT !.pub = pub, !.signature = sig, !.context = context]

Asks(ask) ==
  \/ AskKeyPair(ask) \/ AskEncapsulate(ask) \/ AskDecapsulate(ask)
  \/ AskSign(ask) \/ AskVerify(ask)

-----------------------------------------------------------------------------
(* What FIPS 203 and 204 say of a question, given the random bytes.        *)

KeyPair(alg, random, form) ==
  [pub |-> Public(alg, random),
   priv |-> IF form = "seed" THEN SeedKey(random) ELSE Expanded(alg, random)]

Encapsulated(r, m) ==
  [ciphertext |-> Ciphertext(r.alg, r.pub.of, m),
   sharedSecret |-> [alg |-> r.alg, of |-> r.pub.of, m |-> m]]

(* A ciphertext for another key is rejected implicitly: by a secret that   *)
(* follows from the key and from the ciphertext.                           *)
Decapsulated(r) ==
  IF r.ciphertext.of = r.priv.of
    THEN [alg |-> r.alg, of |-> r.priv.of, m |-> r.ciphertext.m]
    ELSE [alg |-> r.alg, of |-> r.priv.of, m |-> r.ciphertext]

Valid(r, context) == r.signature = Signature(r.alg, r.pub.of, context) /\ context.size <= 255

-----------------------------------------------------------------------------
(* The modules: the set of what a handler may return.                      *)

Random(r, source) == IF SeedGiven(r) THEN r.seed.of ELSE source

(* An import succeeds for a key of the right size; one that is malformed   *)
(* may be refused.                                                         *)
Imports(key, alg, forms) ==
  \/ "seed" \in forms /\ key.form = "seed"
  \/ "expanded" \in forms /\ key.form = "expanded" /\ key.alg = alg

Rejected(accepted) == IF accepted THEN {} ELSE {Nullopt}
Given(condition, S) == IF condition THEN S ELSE {Nullopt}
MayRefuse(of, S) == IF of = "malformed" THEN S \cup {Nullopt} ELSE S

Liboqs(r) ==
  CASE r.kind \in GenerateKeyPair ->
         Given(SeedFits("liboqs", r), {KeyPair(r.alg, Random(r, "system"), "expanded")})
    [] r.kind = "KEM_Encapsulate" ->
         Given(r.pub.alg = r.alg /\ SeedFits("liboqs", r),
               MayRefuse(r.pub.of, {Encapsulated(r, Random(r, "system"))}))
    [] r.kind = "KEM_Decapsulate" ->
         Given(Imports(r.priv, r.alg, {"expanded"}) /\ r.ciphertext.alg = r.alg,
               MayRefuse(r.priv.of, {Decapsulated(r)}))
    [] r.kind = "PQSign_Sign" ->
         Given(Imports(r.priv, r.alg, {"expanded"}) /\ r.context.size <= 255,
               {Signature(r.alg, r.priv.of, r.context)})
    [] r.kind = "PQSign_Verify" ->
         Given(r.pub.alg = r.alg, {Valid(r, r.context)})

BotanContext(r) == r.context.given => r.context.size = 0

(* Botan throws when it cannot decode, and its handlers return nothing.    *)
Botan(r) ==
  CASE r.kind \in GenerateKeyPair ->
         Given(SeedFits("Botan", r), {KeyPair(r.alg, Random(r, "modifier"), "seed")})
    [] r.kind = "KEM_Encapsulate" ->
         Given(r.pub.alg = r.alg /\ SeedFits("Botan", r),
               MayRefuse(r.pub.of, {Encapsulated(r, Random(r, "modifier"))}))
    [] r.kind = "KEM_Decapsulate" ->
         Given(Imports(r.priv, r.alg, {"seed"}) /\ r.ciphertext.alg = r.alg, {Decapsulated(r)})
    [] r.kind = "PQSign_Sign" ->
         Given(BotanContext(r) /\ Imports(r.priv, r.alg, {"seed"}),
               {Signature(r.alg, r.priv.of, NoContext)})
    [] r.kind = "PQSign_Verify" ->
         Given(BotanContext(r) /\ r.pub.alg = r.alg,
               MayRefuse(r.pub.of, {Valid(r, NoContext)}))

(* importKEMPrivKey and importDSAPrivKey tell the forms by their size.     *)
FaultOpenSSLForms == {"expanded"}   \* fault: they do not

OpenSSLForms == {"seed", "expanded"}

(* EVP_DigestVerifyFinal says 0 of a bad signature, or that it failed.     *)
OpenSSL(r, random) ==
  CASE r.kind \in GenerateKeyPair ->
         Given(SeedFits("OpenSSL", r), {KeyPair(r.alg, Random(r, random), "expanded")})
    [] r.kind = "KEM_Encapsulate" -> {Encapsulated(r, random)}
    [] r.kind = "KEM_Decapsulate" ->
         Given(Imports(r.priv, r.alg, OpenSSLForms) /\ r.ciphertext.alg = r.alg,
               MayRefuse(r.priv.of, {Decapsulated(r)}))
    [] r.kind = "PQSign_Sign" ->
         Given(~r.context.given /\ Imports(r.priv, r.alg, OpenSSLForms),
               MayRefuse(r.priv.of, {Signature(r.alg, r.priv.of, NoContext)}))
    [] r.kind = "PQSign_Verify" ->
         Given(~r.context.given /\ r.pub.alg = r.alg,
               MayRefuse(r.pub.of,
                         {Valid(r, NoContext)} \cup Rejected(Valid(r, NoContext))))

-----------------------------------------------------------------------------
PqcInit ==
  /\ campaign \in Campaigns
  /\ pools = [name \in PoolNames |-> {}]
  /\ runs = 0
  /\ question = Ask("none", "none") /\ order = <<>> /\ results = <<>>
  /\ refused = FALSE /\ logged = FALSE
  /\ phase = "idle"
  /\ rand = "module" /\ encapsSeedBuf = "zeros" /\ encapsSeedUsed = FALSE
  /\ randReplaced = FALSE /\ answer = Nullopt

Run ==
  /\ phase = "idle" /\ runs < MaxRuns
  /\ runs' = runs + 1
  /\ \E kind \in campaign, alg \in Algorithms : Asks(Ask(kind, alg))
  /\ order' \in Orders
  /\ results' = <<>> /\ refused' = FALSE /\ logged' = FALSE
  /\ phase' = "calling"
  /\ UNCHANGED <<campaign, pools, openssl>>

Called == order[Len(results) + 1]
Calls(library) == phase = "calling" /\ Len(results) < Len(order) /\ Called = library

PooledPair(value, public, private) ==
  [pools EXCEPT ![public] = @ \cup {value.pub}, ![private] = @ \cup {value.priv}]

(* postprocess of the operations: what an answer leaves in the pools.      *)
Pooled(value) ==
  CASE question.kind = "KEM_GenerateKeyPair" ->
         PooledPair(value, "KEM_PublicKey", "KEM_PrivateKey")
    [] question.kind = "PQSign_GenerateKeyPair" ->
         PooledPair(value, "PQSign_PublicKey", "PQSign_PrivateKey")
    [] question.kind = "KEM_Encapsulate" ->
         [pools EXCEPT !["KEM_Ciphertext"] = @ \cup {value.ciphertext}]
    [] question.kind = "PQSign_Sign" ->
         [pools EXCEPT !["PQSign_Signature"] = @ \cup {value}]
    [] OTHER -> pools

Answers(value) ==
  /\ results' = Append(results, value)
  /\ pools' = IF value = Nullopt THEN pools ELSE Pooled(value)

(* A handler of liboqs or Botan.  An exhausted modifier makes Botan's      *)
(* random numbers fail.                                                    *)
Handle(library, answers) ==
  /\ Calls(library)
  /\ \/ (\E value \in answers : Answers(value)) /\ UNCHANGED refused
     \/ answers # {Nullopt} /\ Answers(Nullopt) /\ refused' = TRUE
  /\ UNCHANGED <<campaign, runs, question, order, logged, phase, openssl>>

CallLiboqs == Handle("liboqs", Liboqs(question))
CallBotan == Handle("Botan", Botan(question))

(* OpenSSL draws through the RAND_METHOD that is set.                      *)
Drawn ==
  IF rand = "module" THEN "openssl"
  ELSE IF encapsSeedUsed THEN "zeros" ELSE encapsSeedBuf

Draws == encapsSeedUsed' = (encapsSeedUsed \/ rand = "fixed")

CallOpenSSL ==
  /\ Calls("OpenSSL") /\ question.kind # "KEM_Encapsulate"
  /\ LET answers == OpenSSL(question, Drawn)
     IN  \/ (\E value \in answers : Answers(value)) /\ UNCHANGED refused
         \/ answers # {Nullopt} /\ Answers(Nullopt) /\ refused' = TRUE
  /\ IF question.kind \in GenerateKeyPair /\ ~SeedGiven(question)
       THEN Draws ELSE UNCHANGED encapsSeedUsed
  /\ UNCHANGED <<campaign, runs, question, order, logged, phase, rand, encapsSeedBuf, randReplaced, answer>>

FaultInstalled == encapsSeedUsed   \* fault: encaps_seed_pos is not reset

Installed == FALSE

(* OpKEM_Encapsulate up to the library's call: the key, then the seed.     *)
OpenSSLImport ==
  /\ Calls("OpenSSL") /\ question.kind = "KEM_Encapsulate"
  /\ answer' = Nullopt
  /\ \/ /\ question.pub.alg # question.alg \/ question.pub.of = "malformed"
        /\ phase' = "end" /\ randReplaced' = FALSE
        /\ UNCHANGED <<rand, encapsSeedBuf, encapsSeedUsed, refused>>
     \/ /\ question.pub.alg = question.alg
        /\ phase' = "end" /\ randReplaced' = FALSE /\ refused' = TRUE
        /\ UNCHANGED <<rand, encapsSeedBuf, encapsSeedUsed>>
     \/ /\ question.pub.alg = question.alg /\ ~SeedFits("OpenSSL", question)
        /\ phase' = "end" /\ randReplaced' = FALSE
        /\ UNCHANGED <<rand, encapsSeedBuf, encapsSeedUsed, refused>>
     \/ /\ question.pub.alg = question.alg /\ SeedFits("OpenSSL", question) /\ SeedGiven(question)
        /\ encapsSeedBuf' = question.seed.of /\ encapsSeedUsed' = Installed
        /\ rand' = "fixed" /\ randReplaced' = TRUE
        /\ phase' = "encapsulate" /\ UNCHANGED refused
     \/ /\ question.pub.alg = question.alg /\ ~SeedGiven(question)
        /\ phase' = "encapsulate" /\ randReplaced' = FALSE
        /\ UNCHANGED <<rand, encapsSeedBuf, encapsSeedUsed, refused>>
  /\ UNCHANGED <<campaign, pools, runs, question, order, results, logged>>

OpenSSLEncapsulate ==
  /\ phase = "encapsulate"
  /\ \/ Draws /\ answer' \in OpenSSL(question, Drawn) /\ UNCHANGED refused
     \/ (Draws \/ UNCHANGED encapsSeedUsed) /\ UNCHANGED answer /\ refused' = TRUE
  /\ phase' = "end"
  /\ UNCHANGED <<campaign, pools, runs, question, order, results, logged, rand, encapsSeedBuf, randReplaced>>

RestoresRand == randReplaced

OpenSSLEnd ==
  /\ phase = "end"
  /\ rand' = IF RestoresRand THEN "module" ELSE rand
  /\ Answers(answer)
  /\ phase' = "calling" /\ randReplaced' = FALSE /\ answer' = Nullopt
  /\ UNCHANGED <<campaign, runs, question, order, refused, logged, encapsSeedBuf, encapsSeedUsed>>

-----------------------------------------------------------------------------
(* The comparison.                                                         *)

Style(kind) ==
  CASE kind = "KEM_GenerateKeyPair" -> "seededPublicKey"
    [] kind = "KEM_Encapsulate" -> "seededReference"
    [] kind \in {"KEM_Decapsulate", "PQSign_Verify"} -> "reference"
    [] OTHER -> "none"

(* "Only compare when all modules were given the same non-empty seed".     *)
(* Fault: encapsulations under an empty seed are compared as well.         *)
FaultComparedSeed(r) ==
  r.seed.given /\ (r.seed.size > 0 \/ r.kind = "KEM_Encapsulate")

ComparedSeed(r) == r.seed.given /\ r.seed.size > 0

Publics == [value \in {results[i] : i \in DOMAIN results} \ {Nullopt} |-> value.pub]

Comparing ==
  INSTANCE Comparison WITH Values <- {results[i] : i \in DOMAIN results} \ {Nullopt},
                           PublicKey <- Publics

Compare ==
  /\ phase = "calling" /\ Len(results) = Len(order)
  /\ phase' = IF Comparing!Fatal(Style(question.kind), ComparedSeed(question), FALSE, results)
             THEN "aborted" ELSE "idle"
  /\ logged' = Comparing!Logged(Style(question.kind), ComparedSeed(question), results)
  /\ UNCHANGED <<campaign, pools, runs, question, order, results, refused, openssl>>

PqcNext ==
  \/ Run \/ CallLiboqs \/ CallBotan \/ CallOpenSSL
  \/ OpenSSLImport \/ OpenSSLEncapsulate \/ OpenSSLEnd \/ Compare

PqcSpec == PqcInit /\ [][PqcNext]_pqcVars

-----------------------------------------------------------------------------
(* Modules whose libraries follow the standards never make the executor    *)
(* abort: whichever of them takes, refuses or empties a seed, understands  *)
(* contexts or imports a form of key (the comparisons of executor.cpp).    *)
(* Key pairs are reported to differ only when a library failed: all three  *)
(* modules take the same seeds (KEM_GenerateKeyPair's compare).            *)
NoFalseAlarm == phase # "aborted" /\ (logged => refused)

(* The randomness of every key and ciphertext is the seed of the question  *)
(* if there is one, and otherwise the module's own: never what an earlier  *)
(* call left in encaps_seed_buf, never the zeros behind it, also after an  *)
(* encapsulation that failed half way (OpKEM_Encapsulate's end:).          *)
Randomness(r, value) == IF r.kind = "KEM_Encapsulate" THEN value.ciphertext.m ELSE value.pub.of

SeedsDecide ==
  question.kind \in GenerateKeyPair \cup {"KEM_Encapsulate"} =>
    \A i \in DOMAIN results : results[i] # Nullopt =>
      LET own == [liboqs |-> "system", OpenSSL |-> "openssl", Botan |-> "modifier"]
      IN  Randomness(question, results[i]) =
            IF SeedGiven(question) THEN question.seed.of ELSE own[order[i]]

(* Whoever made a private key, two of the three modules decapsulate with   *)
(* it, so there is something to compare: OpenSSL tells both forms apart,   *)
(* liboqs and Botan know one each (importKEMPrivKey).                      *)
ComparedByTwo ==
  /\ question.kind = "KEM_Decapsulate" /\ Len(results) = Len(order) /\ ~refused
  /\ {order[i] : i \in DOMAIN order} = Libraries
  /\ question.priv.of # "malformed" /\ question.priv.alg \in {"any", question.alg}
  /\ question.ciphertext.alg = question.alg
  => Cardinality({i \in DOMAIN results : results[i] # Nullopt}) >= 2

-----------------------------------------------------------------------------
(* The inductive invariant behind them.                                    *)

(* What is passed around is what somebody made, from known bytes.          *)
PqcTypeOK ==
  /\ campaign \subseteq PqcKinds
  /\ pools["KEM_PublicKey"] \subseteq PublicKeySet
  /\ pools["PQSign_PublicKey"] \subseteq PublicKeySet
  /\ pools["KEM_PrivateKey"] \subseteq PrivateKeySet
  /\ pools["PQSign_PrivateKey"] \subseteq PrivateKeySet
  /\ pools["KEM_Ciphertext"] \subseteq CiphertextSet
  /\ DOMAIN pools = PoolNames
  /\ order \in Seq(Libraries)
  /\ phase \in {"idle", "calling", "encapsulate", "end", "aborted"}

QuestionOK ==
  order # <<>> =>
    /\ question.kind \in PqcKinds /\ question.alg \in Algorithms
    /\ question.pub \in [alg : Algorithms, of : Sources]
    /\ question.seed.of \in Sources
    /\ question.kind = "KEM_Decapsulate" =>
         question.priv \in PrivateKeySet /\ question.ciphertext \in CiphertextSet
    /\ question.kind = "PQSign_Verify" => question.context \in Contexts

(* What a module may say of the question when its library does not fail.   *)
CorrectAnswers(library) ==
  CASE library = "liboqs" -> Liboqs(question)
    [] library = "Botan" -> Botan(question)
    [] library = "OpenSSL" ->
         IF question.kind # "KEM_Encapsulate" THEN OpenSSL(question, "openssl")
         ELSE Given(question.pub.alg = question.alg /\ SeedFits("OpenSSL", question),
                    MayRefuse(question.pub.of, OpenSSL(question, Random(question, "openssl"))))

Answerable == (UNION {CorrectAnswers(library) : library \in Libraries}) \cup {Nullopt}

Admissible(library, value) ==
  value \in CorrectAnswers(library) \/ (refused /\ value = Nullopt)

AnswersCorrect ==
  /\ results # <<>> => results \in Seq(Answerable)
  /\ Len(results) <= Len(order)
  /\ \A i \in DOMAIN results : Admissible(order[i], results[i])

(* The seed is in the buffer exactly while the library is asked for it.    *)
RandomnessInPlace ==
  /\ phase \in {"idle", "calling", "aborted"} => rand = "module" /\ ~randReplaced
  /\ phase \in {"encapsulate", "end"} =>
       /\ question.kind = "KEM_Encapsulate"
       /\ Len(results) < Len(order) /\ Called = "OpenSSL"
       /\ rand = IF randReplaced THEN "fixed" ELSE "module"
  /\ phase = "encapsulate" =>
       /\ answer = Nullopt
       /\ question.pub.alg = question.alg /\ SeedFits("OpenSSL", question)
       /\ IF SeedGiven(question)
          THEN randReplaced /\ encapsSeedBuf = question.seed.of /\ ~encapsSeedUsed
          ELSE ~randReplaced
  /\ phase = "end" => Admissible("OpenSSL", answer)

PqcInv ==
  PqcTypeOK /\ QuestionOK /\ AnswersCorrect /\ RandomnessInPlace /\ NoFalseAlarm

=============================================================================
