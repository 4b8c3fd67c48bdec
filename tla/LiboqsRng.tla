----------------------------- MODULE LiboqsRng -----------------------------
(***************************************************************************)
(* The randomness of the liboqs module.  liboqs draws random bytes through *)
(* a process-wide source that its callers can replace.  The module passes  *)
(* seeds of KEM operations directly (the *_derand functions), replaces the *)
(* source by a fixed buffer for a seeded PQSign_GenerateKeyPair and by the *)
(* NIST DRBG for PQSign_Sign, and puts the system source back at `end:`.   *)
(* The buffer and the DRBG are globals that outlive the call.              *)
(*                                                                         *)
(* A random byte is known by where it comes from: <<"seed", s, i>> is byte *)
(* i of seed s, <<"drbg", e, i>> byte i of the DRBG's output after seeding *)
(* with e, <<"system">> is unpredictable, <<"zero">> fills in for a fixed  *)
(* buffer that is used up.  An answer is a function of its request and of  *)
(* the bytes drawn for it.                                                 *)
(***************************************************************************)
EXTENDS Integers, Sequences

CONSTANTS
  Seeds,          \* seeds an operation can carry, the empty one included
  SeedSize,       \* the number of bytes of each
  NoSeed,         \* op.seed is std::nullopt, or the operation has none
  Keys,           \* private signing keys
  Entropy,        \* the first 48 bytes of each
  NoKey,          \* the operation has no private signing key
  DrawLength,     \* bytes liboqs draws for each kind, also its seed's size
  FixedCapacity,  \* sizeof(fixed_buf)
  Requests        \* bound: the operations considered

Kinds == {"KEM_GenerateKeyPair", "KEM_Encapsulate", "KEM_Decapsulate",
          "PQSign_GenerateKeyPair", "PQSign_Sign", "PQSign_Verify"}

SeededKinds == {"KEM_GenerateKeyPair", "KEM_Encapsulate", "PQSign_GenerateKeyPair"}

ASSUME LiboqsAssumption ==
  /\ SeedSize \in [Seeds -> Nat]
  /\ NoSeed \notin Seeds
  /\ DOMAIN Entropy = Keys
  /\ NoKey \notin Keys
  /\ DrawLength \in [Kinds -> Nat]
  /\ \A kind \in SeededKinds : DrawLength[kind] > 0
  /\ DrawLength["KEM_Decapsulate"] = 0 /\ DrawLength["PQSign_Verify"] = 0
  /\ FixedCapacity \in Nat
  /\ DrawLength["PQSign_GenerateKeyPair"] <= FixedCapacity
  /\ \A r \in Requests :
       /\ r.kind \in Kinds
       /\ r.seed \in Seeds \cup {NoSeed}
       /\ r.kind \notin SeededKinds => r.seed = NoSeed
       /\ r.key \in Keys \cup {NoKey}
       /\ r.kind = "PQSign_Sign" => r.key \in Keys
       /\ r.wellFormed \in BOOLEAN

VARIABLES
  rng,       \* the source liboqs draws from
  fixed,     \* fixed_buf (as the seed copied into it), fixed_buf_len, fixed_buf_pos
  drbg,      \* state of the NIST DRBG: what it was seeded with, bytes drawn since
  pc,        \* where the call is: see Phases
  request,   \* the operation called
  replaced,  \* rng_replaced
  drawn,     \* random bytes this call got
  answered,  \* the return value is not std::nullopt
  answers    \* history: every answer given, as (request, bytes it rests on)

globals == <<rng, fixed, drbg>>
vars == <<rng, fixed, drbg, pc, request, replaced, drawn, answered, answers>>

Phases == {"idle", "check", "draw", "end"}

System == <<"system">>
Zero == <<"zero">>

Seeded(r) == r.seed # NoSeed /\ SeedSize[r.seed] > 0

(* The checks every handler makes before it touches the RNG: a known       *)
(* algorithm, operands of its sizes, and a seed of exactly its size.       *)
Acceptable(r) ==
  r.wellFormed /\ (Seeded(r) => SeedSize[r.seed] = DrawLength[r.kind])

-----------------------------------------------------------------------------

Init ==
  /\ rng = "system"
  /\ fixed = [seed |-> NoSeed, len |-> 0, pos |-> 0]
  /\ drbg = [seed |-> NoKey, drawn |-> 0]
  /\ pc = "idle"
  /\ request \in Requests
  /\ replaced = FALSE
  /\ drawn = <<>>
  /\ answered = FALSE
  /\ answers = {}

(* The executor calls one of the module's handlers.                        *)
Call ==
  /\ pc = "idle"
  /\ pc' = "check"
  /\ request' \in Requests
  /\ replaced' = FALSE
  /\ drawn' = <<>>
  /\ answered' = FALSE
  /\ UNCHANGED <<globals, answers>>

(* A CF_CHECK_* fails and jumps to `end:`.                                 *)
Reject ==
  /\ pc = "check"
  /\ ~Acceptable(request)
  /\ pc' = "end"
  /\ UNCHANGED <<globals, request, replaced, drawn, answered, answers>>

SeedBytes(seed) == [i \in 1 .. SeedSize[seed] |-> <<"seed", seed, i>>]

(* A seeded KEM operation hands its seed to liboqs as an argument.         *)
Derandomised ==
  /\ pc = "check"
  /\ Acceptable(request)
  /\ request.kind \in {"KEM_GenerateKeyPair", "KEM_Encapsulate"}
  /\ Seeded(request)
  /\ drawn' = SeedBytes(request.seed)
  /\ answered' \in BOOLEAN
  /\ pc' = "end"
  /\ UNCHANGED <<globals, request, replaced, answers>>

(* Operations that leave the source alone.                                 *)
UseInstalled ==
  /\ pc = "check"
  /\ Acceptable(request)
  /\ request.kind # "PQSign_Sign"
  /\ ~Seeded(request)
  /\ pc' = "draw"
  /\ UNCHANGED <<globals, request, replaced, drawn, answered, answers>>

(* seed_fixed_rng(): the seed is copied and reading starts over.           *)
FaultPositionKept(seed, len) ==   \* fault: fixed_buf_pos is not reset
  [seed |-> seed, len |-> len, pos |-> IF fixed.pos < len THEN fixed.pos ELSE len]

SeededFixed(seed, len) ==
  [seed |-> seed,
   len |-> IF len < FixedCapacity THEN len ELSE FixedCapacity,
   pos |-> 0]

InstallFixed ==
  /\ pc = "check"
  /\ Acceptable(request)
  /\ request.kind = "PQSign_GenerateKeyPair"
  /\ Seeded(request)
  /\ fixed' = SeededFixed(request.seed, DrawLength[request.kind])
  /\ rng' = "fixed"
  /\ replaced' = TRUE
  /\ pc' = "draw"
  /\ UNCHANGED <<drbg, request, drawn, answered, answers>>

(* seed_deterministic_rng(): the DRBG is initialised from the key.         *)
FaultSeededOnce(key) ==   \* fault: a DRBG that has state already is left as it is
  IF drbg.seed = NoKey THEN [seed |-> Entropy[key], drawn |-> 0] ELSE drbg

SeededDrbg(key) == [seed |-> Entropy[key], drawn |-> 0]

InstallDrbg ==
  /\ pc = "check"
  /\ Acceptable(request)
  /\ request.kind = "PQSign_Sign"
  /\ drbg' = SeededDrbg(request.key)
  /\ rng' = "drbg"
  /\ pc' = "draw"
  /\ UNCHANGED <<fixed, request, replaced, drawn, answered, answers>>

(* fixed_randombytes()                                                     *)
FixedByte(i) ==
  IF fixed.pos + i <= fixed.len THEN <<"seed", fixed.seed, fixed.pos + i>> ELSE Zero

FixedPosAfter(n) == IF fixed.pos + n <= fixed.len THEN fixed.pos + n ELSE fixed.len

(* deterministic_randombytes()                                             *)
DrbgByte(i) == <<"drbg", drbg.seed, drbg.drawn + i>>

(* liboqs draws from the source installed and succeeds or fails; a         *)
(* signature that does not verify is an answer, too.                       *)
Draw ==
  /\ pc = "draw"
  /\ LET n == DrawLength[request.kind] IN
       \/ /\ rng = "system"
          /\ drawn' = [i \in 1 .. n |-> System]
          /\ UNCHANGED <<fixed, drbg>>
       \/ /\ rng = "fixed"
          /\ drawn' = [i \in 1 .. n |-> FixedByte(i)]
          /\ fixed' = [fixed EXCEPT !.pos = FixedPosAfter(n)]
          /\ UNCHANGED drbg
       \/ /\ rng = "drbg"
          /\ drawn' = [i \in 1 .. n |-> DrbgByte(i)]
          /\ drbg' = [drbg EXCEPT !.drawn = @ + n]
          /\ UNCHANGED fixed
  /\ answered' \in BOOLEAN
  /\ request.kind = "PQSign_Verify" => answered'
  /\ pc' = "end"
  /\ UNCHANGED <<rng, request, replaced, answers>>

FaultOnSuccess ==   \* fault: a failed call leaves without restoring
  answered /\ (replaced \/ request.kind = "PQSign_Sign")

FaultSignRestores == request.kind = "PQSign_Sign"   \* fault: key generation does not

Restores == replaced \/ request.kind = "PQSign_Sign"

(* `end:` restores the system source and returns.                          *)
Return ==
  /\ pc = "end"
  /\ rng' = IF Restores THEN "system" ELSE rng
  /\ answers' =
       IF answered THEN answers \cup {[request |-> request, bytes |-> drawn]} ELSE answers
  /\ pc' = "idle"
  /\ UNCHANGED <<fixed, drbg, request, replaced, drawn, answered>>

Next ==
  \/ Call \/ Reject \/ Derandomised \/ UseInstalled
  \/ InstallFixed \/ InstallDrbg \/ Draw \/ Return

Spec == Init /\ [][Next]_vars

-----------------------------------------------------------------------------
(***************************************************************************)
(* Properties.                                                             *)
(***************************************************************************)

(* Every variable holds what its C++ counterpart can hold; in particular   *)
(* the copy into the fixed buffer does not read past the seed.             *)
TypeOK ==
  /\ rng \in {"system", "fixed", "drbg"}
  /\ fixed \in [seed : Seeds \cup {NoSeed}, len : 0 .. FixedCapacity, pos : Nat]
  /\ fixed.pos <= fixed.len
  /\ fixed.seed # NoSeed => fixed.len <= SeedSize[fixed.seed]
  /\ drbg \in [seed : {Entropy[k] : k \in Keys} \cup {NoKey}, drawn : Nat]
  /\ pc \in Phases
  /\ request \in Requests
  /\ replaced \in BOOLEAN
  /\ answered \in BOOLEAN

(* Whatever a call did and wherever it failed, the next one finds the      *)
(* system source installed (the restores at `end:` of                      *)
(* OpPQSign_GenerateKeyPair and OpPQSign_Sign).                            *)
SystemBetweenCalls == pc \in {"idle", "check"} => rng = "system"

(* Seeds reach the algorithm verbatim: an answer to a seeded request rests *)
(* on exactly the seed's bytes, in order, whatever was called before; so   *)
(* two modules given one seed can be compared (FIPS 203 and 204 comments   *)
(* in liboqs/module.cpp).                                                  *)
SeedsVerbatim ==
  \A a \in answers : Seeded(a.request) => a.bytes = SeedBytes(a.request.seed)

(* Signing is reproducible: two answers to sign requests with keys of one  *)
(* entropy rest on the same bytes, although the DRBG's state outlives a    *)
(* call (OpPQSign_Sign, cleanup_deterministic_rng).                        *)
SigningReproducible ==
  \A a, b \in answers :
    /\ a.request.kind = "PQSign_Sign"
    /\ b.request.kind = "PQSign_Sign"
    /\ Entropy[a.request.key] = Entropy[b.request.key]
    => a.bytes = b.bytes

(* Unseeded operations stay random: no byte of theirs comes from a buffer  *)
(* or DRBG another call left behind.                                       *)
UnseededIsRandom ==
  \A a \in answers :
    a.request.kind # "PQSign_Sign" /\ ~Seeded(a.request) =>
      \A i \in DOMAIN a.bytes : a.bytes[i] = System

(***************************************************************************)
(* The inductive invariant behind them.                                    *)
(***************************************************************************)

(* The bytes a well-behaved call rests on.                                 *)
Expected(r) ==
  IF r.kind = "PQSign_Sign"
  THEN [i \in 1 .. DrawLength[r.kind] |-> <<"drbg", Entropy[r.key], i>>]
  ELSE IF Seeded(r) THEN SeedBytes(r.seed)
  ELSE [i \in 1 .. DrawLength[r.kind] |-> System]

(* The source a request is to be served from, ready to be drawn from.      *)
SourceReady ==
  /\ request.kind = "PQSign_Sign" =>
       rng = "drbg" /\ drbg = [seed |-> Entropy[request.key], drawn |-> 0]
  /\ request.kind # "PQSign_Sign" /\ Seeded(request) =>
       /\ SeedSize[request.seed] = DrawLength[request.kind]
       /\ rng = "fixed" /\ replaced
       /\ fixed = [seed |-> request.seed, len |-> DrawLength[request.kind], pos |-> 0]
  /\ request.kind # "PQSign_Sign" /\ ~Seeded(request) => rng = "system"

AnswersExpected == \A a \in answers : a.request \in Requests /\ a.bytes = Expected(a.request)

IInv ==
  /\ TypeOK
  /\ SystemBetweenCalls
  /\ pc = "check" => ~answered
  /\ pc = "draw" => SourceReady
  /\ pc = "end" =>
       /\ rng = "system" \/ Restores
       /\ answered => drawn = Expected(request)
  /\ AnswersExpected

=============================================================================
