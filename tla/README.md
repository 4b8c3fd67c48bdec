# A TLA+ verification of cryptofuzz-pqc

cryptofuzz is a differential fuzzer for cryptographic libraries.  libFuzzer hands
it byte strings; it decodes each one into a cryptographic operation, runs that
operation on several libraries ("modules") and stops the process when their
answers disagree.  This fork adds post-quantum key encapsulation (KEM) and
signatures through the liboqs, OpenSSL and Botan modules.  A fuzzer whose own
logic is wrong fails in silence: it misses differences, reports ones that do not
exist, or wastes its time on calls that compare nothing.  The specifications
here state what that logic promises, TLC checks the promises on small instances,
and TLAPS proves the most important of them for every value of the constants.

Paths are relative to the repository's `src/`; `executor.cpp` stands for `src/executor.cpp`.

## 1. Inventory

### How the parts interact

```
 libFuzzer ──LLVMFuzzerCustomMutator──► Mutator ◄──── Get/Have ──── Mutator pools
     │                                     │ writes an input             ▲
     │ LLVMFuzzerTestOneInput              ▼                             │ Set
     └────────────► entry.cpp ──► Driver::Run ──► Executor::Run ──► postprocess
                    (options)       Datasource │       │  test / compare / abort
                                               │       ▼
                                               │   Module::Op… ──► library
                                               │       │  parts, paddings, allocator,
                                               │       │  global Datasource, RNG hooks
                                               └───────┴─ reads of the input
```

Everything runs on one thread.  What makes the code hard is not preemption but
state that outlives a call (function-local statics, process-wide RNG hooks,
global pointers, pools filled by earlier inputs), input that may end at any read,
two hand-written halves of one format, arguments evaluated in an order C++ leaves
open, and modules that may decline, throw or answer anything.

### Components

| Component | State | Operations | What is hard | What makes it correct |
|---|---|---|---|---|
| **Executor** (`executor.cpp`) | vector of (module, operation), vector of results | `Run`, `getOp`, `getModule`, `callModule`, `postprocess`, `filter`, `compare`, `abort` | the input may end at every read; `continue` in a do-while; results declined in the middle; the modifier of an entry changed in place; a module that throws; randomised operations | every enabled module is asked the same question; a difference is reported iff there is one; what ran is not altered; every run ends |
| **Driver** (`driver.cpp`) | module map, static executors, options | `LoadModule`, `Run` | `OutOfData` is swallowed here; the payload is read with a minimum of one byte | the operation decoded is the one the input spells |
| **Entry and options** (`entry.cpp`, `options.cpp`) | the driver, the options | `LLVMFuzzerInitialize`, `LLVMFuzzerTestOneInput` | options interact (`--force-module`, `--disable-modules`, `--min-modules`) | a disabled module never runs |
| **liboqs randomness** (`modules/liboqs`) | process-wide RNG hook, fixed buffer with its read position, NIST DRBG | six handlers | error paths jump to `end:`; buffer and DRBG outlive the call | the system source is back after every call; seeds are used byte for byte; signing is reproducible |
| **Post-quantum handlers** (`modules/liboqs`, `openssl`, `botan`) | OpenSSL's `RAND_METHOD` and `encaps_seed_buf`, pools of keys, ciphertexts, signatures | key generation, encapsulation, decapsulation, signing, verification | three libraries with different key forms, seeds and contexts; questions built from other modules' answers | correct libraries raise no alarm; seeds decide; at least two modules answer |
| **Data source** (`fuzzing-headers`) | bytes not yet read | `Get`, `GetData`, `Put`, `PutData` | lengths read from the input; a failed read consumes its header; callers go on after the exception | no read past the end; sizes honour their bounds; what is written is read back |
| **Components and operations** (`components.cpp`, `operations.h`) | none | constructors from JSON and from a data source, `Serialize` | writers and readers agree only by convention, item by item, also on what follows a flag or a count | decoding an encoded operation yields it |
| **Mutator** (`mutator.cpp`) | libFuzzer's PRNG, pools | `LLVMFuzzerCustomMutator`, `SplitLength`, `getBignum` | sets JSON keys a constructor asks for elsewhere; reduces numbers modulo other bounds; reuses fields of the old input | the generated input decodes to the operation it was generated for |
| **Mutator pools** (`mutatorpool.cpp`) | about 40 arrays of slots and a "set" flag each | `Set`, `Have`, `Get` | `Have` is true as soon as one slot is set, `Get` draws any slot; one pool guards the read of another; results come back as operands | numbers that go round stay short and can be parsed; a guard implies what it guards |
| **Multipart, allocator, global data source, encodings** (`util.cpp`) | process-wide `global_ds` | `ToParts`, `ToEqualParts`, `malloc`/`realloc`/`free`, `SetGlobalDs`/`UnsetGlobalDs`, Pkcs7, DER, ECDSA paddings | `OutOfData` inside `Split`; set and unset in pairs over exceptions; a null pointer recognised by asking again | the parts are the input; the asserts never fail; encodings are undone by their decoders |
| **Calculations** (`modules/openssl/bn_ops.*`, `modules/wolfcrypt/bn_ops.*`) | a cluster of four bignums per call | forty programs | any bignum of equal value may stand in for another, be replaced, or receive the result | no pointer outlives its bignum; the answer does not depend on the choices |
| **Result tests** (`tests.cpp`) | none | `tests::test` per operation | compare the lengths of digit strings, at zero, one and every change of length | no abort on a right answer |
| **Calculations with a modulus** (`modules/*`) | none | `OpBignumCalc` of thirty-one modules | each has its own operations, its own limits on operands and its own way to say no | modules that answer the same question answer it alike |
| **Other modules** (`modules/*`) | local and per-library state | one handler per operation | adapter code to about sixty libraries | answer with the library's answer or nullopt |
| **Corpus tools, repository, importers, stand-alone runner** | files, generated tables | — | seeds have to hold what the executor reads | a seed executes |

`PROJECT.json` lists them with their status, and under `hazards` every place
where the code can go wrong in a way a unit test would hardly reach.

## 2. Modules

| Module | Models | Kind |
|---|---|---|
| `Comparison` | `filter`, the generic `compare`, the specialised ones of the post-quantum operations | operators |
| `Executor` (extends `Comparison`) | `Driver::Run`'s dispatch, `ExecutorBase::Run`, `getOp`, `getModule`, `callModule`, `abort` | state machine |
| `DifferentialOracle` | what differential testing promises | abstract specification |
| `ExecutorOracle` | refinement mapping from `Executor` to `DifferentialOracle` | refinement |
| `LiboqsRng` | the six handlers of the liboqs module and its deterministic RNG | state machine |
| `PqcModules` | executor, pools and the post-quantum handlers of liboqs, OpenSSL and Botan together | composition |
| `FieldFormat` | a field of an input: its header and its length | operators |
| `Datasource` (extends `FieldFormat`) | `Datasource` and its counterpart that writes | state machine |
| `Operations` | the layout of 85 operation classes: the items their `Datasource` constructor reads and `Serialize` writes | data |
| `Inputs` (extends `Operations`) | the layout of whole inputs and of corpus seeds | data |
| `Generated` | the parameters `LLVMFuzzerCustomMutator` draws per operation | data |
| `Codec` (extends `Items`) | mutator → JSON → constructor → `Serialize` → constructor, for any layouts and draws | state machine |
| `MutatorPools` | every `postprocess` that stores, every draw and mutation that reads | state machine |
| `Multipart` | `Split`, `ToParts`, `ToEqualParts`, Botan's clear-and-restart digest loop | state machine |
| `Encodings` | Pkcs7, `ToDER` and decoding, ECDSA paddings, `SplitLength` | state machine |
| `GlobalDs` | the data source lent to the allocator, with Botan, secp256k1, mbedTLS, tf-psa-crypto and OpenSSL's hooks | state machine |
| `BignumCluster` | forty calculations of the OpenSSL and wolfCrypt modules | state machine |
| `HandlerSteps` | calls of a handler: which may fail, which pointers they get, what they allocate, take over or free | operators |
| `OpenSSLHandlers` (extends `HandlerSteps`) | thirty handlers of the OpenSSL module as lists of such calls | data |
| `WolfCryptHandlers` (extends `HandlerSteps`) | sixty-six handlers of the wolfCrypt module, likewise | data |
| `HandlerCourses` (extends `HandlerSteps`) | what a handler does to one object, and whether that is sound (`Disciplined`) | operators |
| `HandlerMemory` (extends `HandlerCourses`) | what becomes of the memory of a handler | state machine |
| `BigNumbers` | powers, roots and bits of numbers, as the libraries compute them | operators |
| `ModularNumbers` (extends `BigNumbers`) | moduli, questions and limits on operands of calculations with a modulus; Botan's | operators |
| `WordModules` (extends `ModularNumbers`) | eleven modules that calculate modulo powers of two | operators |
| `FieldModules` (extends `ModularNumbers`) | twenty modules that calculate modulo the primes of curves | operators |
| `ModularAnswers` (extends both) | one question asked of one module after another | state machine |
| `ResultTests` (extends `BigNumbers`) | `tests.cpp` for calculations, signatures, parameters and points | state machine |
| `Items` (extends `FieldFormat`) | how one item is put, taken and followed by others; whether draws fit their items (`DocumentsFit`) | operators |
| `AllDocuments` | the layouts and draws of every operation and of whole inputs | instance |
| `…Proofs` (eight modules) | — | theorems: `Executor`, `FieldFormat`, `Codec`, `MutatorPools`, `Utilities` (`Datasource`, `GlobalDs`, `Multipart`, `Encodings`), `PqcModules` (and `LiboqsRng`), `BignumCluster` (and `HandlerMemory`), `Calculations` (`ResultTests`, `ModularAnswers`) |
| `MC…` | — | instances for TLC |

`MCUtilities` checks `Datasource`, `Multipart`, `Encodings` and `GlobalDs` in one
run, `MCCalculations` checks `BignumCluster`, `ResultTests`, `ModularAnswers` and
`HandlerMemory` with `OpenSSLHandlers` and `WolfCryptHandlers`, and `MCPqcModules`
checks `PqcModules` and, byte by byte, `LiboqsRng`.  They touch no variable of each
other.  A behaviour exercises one of them while the others are at rest: every
state of each is reached, and none of their product.

### Executor

`pc` is the position in `Run`: `collect` and `more` are the body and the
condition of the do-while at 2724–2737, `augment` the block that adds modules
(2739–2775), `execute` the loop at 2780–2834, `compare` the call at 2838.  A crash of the
process (`abort`) is the phase `aborted`, which nothing leaves; a return, or the
`OutOfData` handler of `Driver::Run`, is `idle` with the way the run ended in
`outcome`.

* The *input* is abstracted to `left`, the number of reads it can still satisfy.
  What a read returns is chosen freely; since a field has a length of its own,
  any read may also find too few bytes left, whatever `left` is (`OutOfData`).
* A *modifier* is a size and a byte.  The C++ code changes all bytes of a
  modifier alike, so the first one stands for all.
* A *module* answers anything in `Results`.  The filters at the head of `callModule`
  that make every module decline are `job.enabled`; those that depend on a size
  are part of the freedom to answer `Nullopt`.
* Modules in `Throwing` let the `OutOfData` of their own reads out, when they are
  called or when `postprocess` asks them about their answer (tf-psa-crypto does):
  the exception unwinds `Run`, the outcome is `abandoned`.
* A *job* is the kind of operation and the part of its payload the executor
  looks at: how its results are compared (`style`), whether it carries a
  non-empty seed, `dontCompare`, `callModule`'s filters, whether `postprocess`
  asks the module to undo or verify its own answer (`check`), and the modulus
  that `getOpPostprocess` stamps on big-number operations.
* `tests::test` and the self-checks in `postprocess` abort or do not; what the
  tests demand is `ResultTests`, what the pools receive is `MutatorPools`.

`DifferentialOracle` knows a panel, who was asked, what was answered and a
verdict.  It declines a question before anyone is asked, asks everybody and
judges by the *set* of answers, or gives up when somebody throws.
`ExecutorOracle` maps the executor's vectors to those sets and claims
`ImplementsOracle`; so order, repetition and declined results cannot influence
what the fuzzer reports.

### LiboqsRng

`rng` is the source that liboqs draws from, `fixed` and `drbg` are the globals
of `deterministic_rng.cpp`.  A random byte is represented by where it comes
from — byte *i* of a seed, byte *i* of the DRBG seeded with given entropy, the system,
or the zero that fills in for a fixed buffer that is used up — so "the same
bytes" is equality.  A call goes through `check` (all `CF_CHECK_*`), `draw`
(the library at work) and `end` (the label `end:`, where the source is put
back).  `answers` is a history variable: every answer given with the bytes it
rests on.

### PqcModules

A run asks two or three modules one question; what they answer goes into the
pools, from which the next question is made.  Keys, ciphertexts and
signatures are records of what they were made from.  The libraries follow
FIPS 203 and 204, except that any call may fail; that, and the form in which
each library exports keys, is the external part (the forms are those
`executor.cpp:2841–2899` and `modules/openssl/module.cpp:4788` rely on).
Everything of the handlers that decides what is drawn, exported, imported,
refused or compared is modelled: OpenSSL's replaced `RAND_METHOD` with its static
buffer and position and its failures half way, Botan's generators over a
modifier or a seed, contexts that only some modules understand.  A behaviour is
about KEMs or about signatures (`campaign`): the two share no pool.

### Datasource

The input is a sequence of bytes.  `Get` reads a four-byte length, clamps it
and returns a field, or throws (`OutOfData`), having consumed the header when it
was the body that was missing; the caller may catch and go on.  `Put` writes such
a field.  The base of a byte is the constant `ByteValues`.

### Codec, Operations, Generated, Inputs

A layout is a sequence of items, each with the sizes and the modulus its reader
applies, how it is written, and the items that follow it when it is true, or once
for each it counts.  `Codec` is a pair of interpreters of such layouts: one
writes drawn parameters, one reads.  Nothing in an input says which items it
holds; the reader's `todo` must follow the writer's.  Layouts written by hand
apart from the code that reads them and found to disagree — UMAC, KDF_SRTP,
KDF_SRTCP, DSA_PrivateToPublic — are `Unfaithful`: the invariant for the rest does
not claim anything of those four, and the model contains both their halves.

### MutatorPools

A behaviour is a sequence of whole handlers: an operation's `postprocess`
with results a module may answer, or a mutation that draws and may store.  Slots
are kept for the number pools only; of the others the flag is all that anything
is decided on.  A decimal string is a sign, a number of leading zeros and a value.

### Multipart, Encodings, GlobalDs

`Multipart` keeps the offsets and lengths of parts and what a hash has absorbed
since it was last cleared; `curPos` is where the next part begins, and `before` remembers, for
each length, what was given away earlier.  `Encodings` writes something and reads it back
in two steps, with bytes of three bits so that every length that can wrap does.
`GlobalDs` runs handlers of twelve kinds one after the other, each with its order
of publishing, allocating, freeing and unsetting and the exceptions it catches; a
block is one of `::malloc`, the null pointer, the address 0x12 or an address the
input spells, and a pointer to a data source may be null, live or stale.

### HandlerMemory

A handler is written as its calls in their order: `Check` may jump to `end:`,
`Made` is a check that also allocates, `Taken` one that hands numbers over,
`Ptr(o)` an argument that is `o.GetPtr()` and may replace what the object points
to by a copy, `Plain(o)` a bare pointer.  `Either`, `Optionally` and
`Repeatedly` are the branches and loops, chosen freely, and an exception caught by a
handler is one more failure of the step that throws it.  At `end:` destructors free what their
objects still own, and the handler frees its own pointers, `atEnd`.  What a step does to
one object is `After` of `HandlerCourses`; `HandlerMemory` does it to all of them.

OpenSSL's contexts, numbers, points and groups are replaced by copies, and numbers
go over into keys and signatures.  wolfCrypt's keys and points are exported and
imported again while a call's arguments are evaluated; a number made of a part of
one (`Borrowed`) is a view of it that must not outlive it, and `ToBignumPair` locks the
point between its two views for that reason.  wolfCrypt's handlers also lend their data
source to the allocator, which is one more thing to be given back exactly once.

### ModularAnswers

A question is a modulus, an operation and three operands; the modules that look at
the modulus are asked in turn, and `answers` collects what was not `nullopt`.  A
module is a set of outcomes of a question — a set, since the modifier may choose
between two functions of a library with different limits.  What it models is
the adapter: which operations are known, whether an operand is refused because it
is not below the modulus (`Fit`), does not fit the bytes of an element
(`FitBytes`) or has too many digits (`FitDigits`), whether it is cut off
(`Truncated`) or left to the library to reduce, and how the adapter says no.  The
libraries' arithmetic (`OnWords`, `OnElements`) is external and the same for all.
Moduli are scaled to 16 and to 7, and with them the limits (`Sizes`); a limit keeps its place among the
others.  Operations that one module alone knows are left out.

### BignumCluster, ResultTests

A calculation is a list of calls on four bignums and a result; the modifier
chooses stand-ins, copies and the place of the result, and the arguments of one
call are evaluated in any order.  `ResultTests` asks a question, takes a right or
a wrong answer and aborts as `tests.cpp` does; numbers carry the length of
their digit string, and a negative one is longer by its sign.

## 3. Runs

| Run | Instance | Shows |
|---|---|---|
| `executor` | 3 loaded modules, one of which throws, and one that is not loaded; 4 command lines, 7 jobs, 3 answers, 2 modifiers, `MaxOperations` = 2, 6 reads, fairness; 545 105 states | the properties of the executor, the inductive invariant, the refinement, and that every run ends |
| `utilities` | see `MCUtilities`; 246 741 states | data source, multipart, encodings, lent data source |
| `codec` | every operation the mutator generates, byte values 0–255, every combination of up to two unusual parameters, and whole inputs; 133 675 states | what the mutator meant is what runs, or nothing runs |
| `pools` | 2 slots, 5 pools, numbers around each limit | what goes round through the pools stays short and can be parsed; guards suffice |
| `calculations` | all quadruples of four values for thirty-nine programs; operands of one to three digits; thirty handlers of OpenSSL's and sixty-six of wolfCrypt's; eighteen moduli, forty-six operations and twelve operands for thirty-one modules; 1 785 927 states | no dangling pointer, everything freed once, right results, no alarm for a right answer, one answer to a question |
| `pqc` | three operations in a row, two parameter sets, seeds of right and wrong sizes, contexts, two orders of modules; for liboqs' source, seeds of right, wrong and zero size and three signing keys of which two share their first 48 bytes; 4 056 632 states | seeds decide, correct libraries raise no alarm, two modules answer; the properties of the randomness |
| `min_modules`, `throwing_module`, `seed_inputs`, `prime_fallback`, `mask_result`, `modular_answers` | smaller instances of the same modules | one disagreement of code and documentation each, see below |

**Executor.**  `NoMissedDifference` and `NoFalseAlarm` state both directions of
the verdict over *results*, independent of how `compare` walks them.
`ExactlyEnabledModulesRun` says who is asked; `NoRepeatedCall` and
`ExecutedOperationsFrozen` are about the modifier that is changed in place between
two calls of a module; `RunsTerminate` says that skipping entries (`continue`)
cannot keep a run alive; `ImplementsOracle` is the refinement.  `IInv` holds the
type invariant, `SameQuestion` and `OperationsBounded` as conjuncts.

**Randomness.**  `SystemBetweenCalls`: between calls liboqs draws from the
system, whatever path the last call took.  `SeedsVerbatim`: a seeded answer rests
on exactly the bytes of its seed, in order, none repeated and none made up.
`SigningReproducible`: two signatures under keys with the same leading bytes drew
the same bytes, although the DRBG's state is never cleaned.  `UnseededIsRandom`:
no byte of an earlier seed reaches an unseeded answer.

**Utilities.**  Data source: `SizesAsAsked` (callers copy `sizeof(T)` bytes out of
what they get), `RoundTrip` (what was written is read back), `ReadsConsume` (loops
that read until the input runs dry rely on it).  Cutting: `PartsCover`,
`DigestOfCleartext` (a cleared hash starts over), `Terminates`.  Encodings:
`UnpadsLikeLibraries`, `SignaturesKept` (DER is read back as the same numbers
or refused; a length byte wraps only after the sign padding, and then decoding
refuses; and two paddings of one ECDSA input leave its number), `LengthsFit`.
Lending: `NeverAsserts`, `NoStaleRead` (mbedTLS's PBKDF and tf-psa-crypto leave a
stale pointer behind, and nothing reads it), `FreesOwnBlocks`, which
has an exception written into it: with `CRYPTOFUZZ_NULL_IS_BADPTR` set, Botan's
derivations with a key size of zero allocate before they publish their source and free while it is
published, so 0x12 may reach `::free`.

**Codec.**  `RoundTrip`: values that fit their items come back.  `MeantOrDropped`: an
operation never runs with other parameters than those drawn for it.
`FaithfulInputsDecode`: apart from four named classes every generated input
decodes.  `ParametersComplete`: the JSON holds every key the constructor asks for.

**Pools.**  `DrawsParse` (no draw is an octal literal for `cpp_int`),
`BignumsBounded` and `PrimesFit` (the mutator stores what it computes unmeasured),
`GuardSuffices` (the pool that is asked for implies the one that is read).

**Calculations.**  `CallsGetLivePointers`: no argument of a library call is
something that was freed, or that evaluating another argument of the call replaced
by a copy, in whatever order a compiler evaluates them: a bignum of a calculation,
or a point, a group, a key or a number of a handler.  `FreedOnce`: whichever call
sends a handler to `end:`, all it allocated is freed, and freed once; what
`DH_set0_pqg` and its like take over included.  `RightResult`: the choices do not change the answer,
and no path aborts.  `VerdictsJustified`: `tests.cpp` never aborts for a right
answer, and lets nothing through that exceeds its bound by more than a digit.
`AnswersAgree`: two modules that answer the same question answer it alike,
whatever operands are out of range, since `compare` takes every difference for one
between libraries.  Four differences are the adapters' own and excepted by name
(`Misanswered`): kilic's answer to operations it does not know; Botan's `RShift`
of an odd number, to which it adds the modulus also when that is a power of two
(`modules/botan/bn_ops.cpp:437`); the processor's `RShift`, which takes the count
modulo 64; and noble's Jacobi symbol −1, an element of the field and so p − 1.

**Post-quantum modules.**  `SeedsDecide`: what a key or ciphertext was made from
is the seed of the question, or else the module's own randomness — never what an
earlier call left in a static buffer.  `NoFalseAlarm`:
libraries that follow the standards are neither aborted for nor reported.
`ComparedByTwo`: whoever made a private key, two modules decapsulate with it.

**Bounds.**  Executor: three modules are enough for a result that is declined
between two that differ, and for a module named twice beside one that is added;
two modifiers for one that is empty and one that wraps at its byte;
`MaxOperations` = 2 for a vector that fills up and one that does not; six reads for
two collected entries, or a skipped one before a collected one; `--min-modules=3`
with two enabled modules is met by an input that names one twice and missed by
others.  Randomness: draws of two bytes distinguish order and repetition; a fixed
buffer of three (64 in the code) holds the draw of a key pair and is smaller than some seeds.
Data source: with bytes of two values, seven of them hold a header that
spells lengths up to 15, hence every case of too short, exact and too long.
Multipart: five bytes, blocks of two and three, six values in the modifier, so
that Botan's three restarts and a cut between them fit.  Encodings: texts of up
to four bytes, blocks up to four, three fields in four bytes of room, five inserts.
Codec: two unusual parameters at a time meet every pair of flag and count that
guards another item; sizes of counted lists are 0 to 2.  Pools: in base three with
`kMaxBignumSize` = 2, 8 is the largest short number and 15, 16 the neighbours of
the byte limit; two slots tell a set slot from an unset one.  Calculations: four
values, one negative and zero among them, leave every pattern of equal numbers;
base 4 is the smallest in which the last digit tells odd numbers and the sum of
digits those divisible by three, as in base ten.  Moduli: 7 is 3 modulo 4 like
most of the real primes, has residues and non-residues, and leaves operands that are
reduced, equal to it, between it and the 16 that the bytes of an element can spell,
and beyond; 16 plays the same part for words, whose 4 bits a count may exceed.  An
operand an operation has no use for takes the values of `Ignored` (one that fits
and one that does not), and `Exp` has second operands of two digits at most, as in
`callModule`.  Post-quantum: three operations are a
key pair, an encapsulation or signature with it, and what undoes that; two parameter sets are
enough for a key of the wrong size.

**Deadlock** is not checked where the process stops for good: the executor, the
calculations and the post-quantum modules (`abort`, one verdict per process), and
`utilities` (a cut or an encoding that is done).  `codec` and `pools` check it.

**Fairness.**  `FairSpec` of the executor is weak fairness of `Step`, the
disjunction of everything `Run` does once it has been entered; the same holds of
`Multipart`'s `CutNext` in `utilities`.  Both are sequential code called by libFuzzer; when
it can go on it does.  It includes the assumption that a library call returns
(libFuzzer's own time-out enforces it).  `Dispatch` is not fair: nothing promises
another input.

**Findings.**

* `min_modules`: `docs/pqc-build-and-fuzzing.md:7` describes campaigns with "a
  minimum module count of two to support differential comparison".
  `executor.cpp:2773` compares the option with the number of *entries*: an input
  that names the only enabled module twice is executed with nothing to compare.
* `throwing_module`: `executor.cpp:2743` says "run every operation on every loaded
  module".  tf-psa-crypto's handlers read the modifier outside any try block
  (`modules/tf-psa-crypto/module.cpp:577`); `OutOfData` leaves `Run`, the
  modules behind are not called and the results so far are not compared.
* `seed_inputs`: the four post-quantum corpus generators
  (`generate_kem_corpus.cpp:89`) write operation, payload and modifier only;
  `getModule` runs out of data, so a seed executes nothing.
* `prime_fallback`: `expmod.cpp:101` says "Prime pool is empty"; the branch is taken
  whenever the drawn slot was never written, although others were.
* `mask_result`: OpenSSL's `Mask` masks the bignum that stands in for the
  first number and copies from another that had its value
  (`modules/openssl/bn_ops.cpp:1434`): the unmasked number is the answer.
* `modular_answers`: kilic-bls12-381's chain of operations
  (`modules/kilic-bls12-381/cryptofuzz.go:717`) lacks the final `else { return }` of
  the other Go harnesses.  To what it does not know, `IsLt` for one, it answers 0; mcl
  answers 1 to `0 < 1`, and `compare` aborts with "Difference detected"
  although the libraries agree.  `docs/building.md:28`: "Cryptofuzz is built around
  differential fuzzing; having multiple libraries for a given primitive is helpful
  in finding bugs".

Met while reading, without a run: an empty payload (DSA_GenerateParameters,
`mutator.cpp:956`) is read by `driver.cpp:142` with a minimum of one byte, which
shifts what follows by a byte; `tests.cpp:713` and `:718` look at p and q
but never at the generator; the modulus test at `tests.cpp:1052` compares lengths
only; `modules/wolfcrypt/bn_ops.cpp:284` reads the sign of a dividend after the division;
the asserts at `modules/wolfcrypt/module.cpp:3528` and its like assign instead of
comparing; the copy constructor at `modules/wolfcrypt/bn_helper.cpp:218` frees a
number without clearing it when the copy fails; OpDSA_PrivateToPublic of wolfCrypt
never sets its answer.

Each property of a passing run has a mutant in `PROJECT.json`: a form of one
definition with a plausible bug (operators called `Fault…`), under which TLC
finds the property violated.

## 4. Theorems

| Theorem | Says |
|---|---|
| `ExecutorProofs!Invariance` | `Spec => []IInv`; from it `TypeCorrect`, `MissesNoDifference`, `RaisesNoFalseAlarm`, `RunsExactlyEnabledModules`, `AsksTheSameQuestion`, `RepeatsNoCall`, `BoundsOperations` |
| `ExecutorProofs!FreezesExecutedOperations` | the action property `ExecutedOperationsFrozen` |
| `ExecutorProofs!ExecutorImplementsOracle` | `Spec => ImplementsOracle` |
| `PqcModulesProofs!PqcInvariant` | `PqcSpec => []PqcInv`; from it `ModulesAgree` (no alarm among correct modules), `SeedsAreObeyed`, `TwoCompared` |
| `PqcModulesProofs!Invariance` | `Spec => []IInv` of `LiboqsRng`; from it `TypeCorrect`, `RestoresSystem`, `PassesSeedsVerbatim`, `SignsReproducibly`, `KeepsUnseededRandom` |
| `UtilitiesProofs!TypeCorrect`, `StaysInBounds`, `ReturnsSizesAsked`, `MakesProgress` | the safety of every read, for every input and every base |
| `UtilitiesProofs!ReadsBackWhatWasWritten` | fields put one after the other are got back, whatever their lengths |
| `UtilitiesProofs!AssertionsHold`, `ReadsLiveSources`, `FreesWhatMallocReturned` | no assertion about a lent data source fails, nothing reads through a stale one, only `::malloc`'s blocks are freed (with the exception written into `FreesOwnBlocks`) |
| `UtilitiesProofs!CleartextCovered`, `CleartextDigested` | however a cleartext is cut and a hash cleared, the parts cover it and it is digested once and in order |
| `UtilitiesProofs!LibrariesUnpadAlike` | `Pkcs7Unpad` gives what any library gives that looks at the whole padding |
| `UtilitiesProofs!SignaturesSurvive` | for every base, number, text and curve: a DER signature is read back as its two numbers or, when its length wrapped, refused; a padded ECDSA input stays the number it was |
| `UtilitiesProofs!LengthsShareRoom` | however many fields and however large the room, `SplitLength`'s lengths take together what was drawn of it |
| `CodecProofs!OperationsReadBack` | for any layouts, draws and base, parameters that fit their items come back in step and nothing is left unread |
| `CodecProofs!ParametersDrawn`, `FaithfulDecode`, `MeantAsDrawn` | where the draws fit the items: the JSON holds what the constructor asks for, and every faithful operation decodes and runs with exactly the parameters drawn |
| `MutatorPoolsProofs!PoolsInvariant` | `Spec => []PoolsInv`; from it `PoolsTyped`, `NumbersAlwaysParse`, `NumbersStayBounded`, `PrimesAlwaysFit`, `GuardsSuffice` |
| `BignumClusterProofs!PointersLive` | for every program, all numbers and every order of evaluation, no argument of a call is a freed bignum: the cluster's half of `CallsGetLivePointers` |
| `BignumClusterProofs!MemoryHeld` | `HandlersSpec => []MemoryInv`: in whatever order arguments are evaluated, objects copied and calls fail, each object of a handler is where its own course allows |
| `BignumClusterProofs!PointersGivenLive`, `AllFreedOnce` | `CallsGetLivePointers` and `FreedOnce` of calculations and handlers together, for any handlers whose objects are each treated right |
| `BignumClusterProofs!ResultsRight` | `RightResult` of every program but `Mask`, for all numbers |
| `CalculationsProofs!VerdictsStayJustified` | from `VerdictsGiven`: `VerdictsJustified` for numbers of any length, any sets of operands and answers, any curve's order, and any base that serves |
| `CalculationsProofs!ModulesAnswerAlike` | from `AnswersGiven`: `AnswersAgree` for every modulus, every operand and every limit on an operand |

**Assumptions.**  `ValuesAssumption` (a module's answer is not nullopt),
`ExecutorAssumption` (a full vector holds at least one entry, a byte has at least
two values, those that throw are loaded, options and jobs have the fields of
their C++ types), `LiboqsAssumption` (a seeded kind draws something, and the draw
of a signature key pair fits the fixed buffer), `PqcAssumption` (a
question is asked of the three modules, a key pair and a secret are not nullopt, a
context that is not given is empty), `ByteAssumption` (a byte has at least
two values), `DatasourceAssumption` (fields are as long as a header can
spell), `MultipartAssumption` (lengths and the modifier's values are numbers, blocks
are not empty), `EncodingsAssumption` (a base has at least two digits, DER's tags and the texts are
bytes, a block's size fits a byte; curves, rooms and bounds are naturals, numbers are
integers), `PoolsAssumption` (a number of at most `kMaxBignumSize` digits is below
`ByteLimit`; curve orders are short), `NumbersAssumption` (numbers are
integers), `ResultTestsAssumption` (a base of at least two that is 1 modulo 3, as ten is, so that
the sum of the digits tells the multiples of three; numbers are integers, exponents
naturals), `ModularAssumption` (a modulus is at least two, a power of two even; operands are
naturals, and exponents, which the executor limits to two digits, below the
modulus), `HandlersAssumption` (each handler is `Disciplined`: taken by itself, no
object is used after it was freed, freed twice, left behind, or copied
while another argument points to it).  TLC evaluates all of them in passing runs, the last for
the ninety-six handlers of the code; it fails when any `ReleaseOwnership` or `set0` is left
out of one.

Two theorems have a hypothesis besides.  The three about documents suppose
`DocumentsFit`, that each operation's draws fit its items and answer everything
they may ask for; it says something of the layouts that were read off the code
and is evaluated for all of them in the run `pools`, with the draws of the code.
`ResultsRight` supposes that `Mask` is left out: of `Mask` it is false, as
`mask_result` shows.

**The comparison.**  `ExecutorProofs` begins by showing that walking neighbours of the
filtered results, or comparing all with the first, finds a difference iff two
valued results differ.  For neighbours this is an argument about a least
counterexample: the last valued position before it that still agrees with the
first, and the next one, are neighbours that differ.

**The executor.**  `NoMissedDifference` alone is not inductive: it needs that
`outcome` is what `Fatal` said of *these* results (`OutcomeInv`), that results
are complete when compared (`CompareInv`), that nothing has run while entries are
collected (`CollectionInv`), and that only enabled modules are named (`PanelInv`).
`IInv` is the conjunction with the type invariant and the properties that are inductive
relative to it; the proof has one step per action.  The refinement uses `IInv`
before and after a step: collecting and adding entries are stutters of the oracle,
`Execute` is `Ask`, a throwing module is `Abandon`, the end of a run is `Judge`
or `Decline`.

**The randomness.**  `IInv` adds that the source is the one the request calls
for while drawing (`SourceReady`) and that at `end:` the bytes drawn are those
expected of the request; history is then a set of expected answers.

**The data source and the codec.**  `FieldFormatProofs` shows that a header
spells its length back in any base and that a field in the middle of a sequence of
bytes is read back.  For the data source, the starts of the fields, kept as
history, place each of them; the reader stands at the start of the next.  For the codec,
reader and writer run in lockstep: before its k-th value the reader has the items
to read that the writer had to write before its k-th, and stands where that value
starts.  No induction over the layout is needed: the items left are part of the state.

**The pools.**  Every slot holds a storable string below the byte limit
(`BignumSlots`, `PrimeSlots`); each writer, by lemma, keeps that, and `GuardSuffices` is
inductive since whoever stores in the first pool of a pair stores in the second.

For a document, `DrawnForItems` says that what was drawn is what its items ask for, value by
value; with `DocumentsFit` every value then fits, and the theorem above does the rest.

**Lent data sources.**  `LendInv`: util's pointer is set exactly from `SetGlobalDs`
to `end:` of a handler that publishes there, and the others' pointers are set anew
before they are read (`PointersPublished`); a block that is kept is `::malloc`'s or what
`malloc(0)` returned while nothing was published (`BlocksOwned`).  Every step of
every handler keeps both, the exceptions it catches and those it lets through
included.

**Cutting.**  `CutInv` relates lengths to what they leave over (`LengthsFollow`), parts
to lengths (`PartsFollow`: each starts where the one before ends, the last ends
where the cleartext does) and what the hash has absorbed to the parts it was fed
since it was last cleared (`AbsorbedInOrder`).

**Paddings.**  `PaddingInv` types the text; the rest is arithmetic: the padding
fills the block, its last byte spells its length since a block's size fits a
byte, so what one removes the other removes.

**Digits.**  Sums of lengths and numbers of bytes are one function, `ValuesOf`: what
the first digits of a sequence are worth in a base (a sum is base one).
Induction over sequences is out of the prover's reach, so each fact about it
is shown of the *set* of places where it holds: a place where it fails would have a
least one before it (`LeastOf`, from the well-foundedness of `<`), and there the
equation of `ValuesOf` contradicts it (`AllUpTo`, `AllBelow`).  The same way `BytesOf` is shown
to be defined by its equation, to spell bytes, and to be undone by `BinToDec`
(`BytesSpell`).  From there: leading zeros add nothing, so the sign byte of DER and
both paddings keep the number (`SignedKeeps`, `PadKeeps`, `RandomPadKeeps`); each
integer is found where `Enclosed` put it (`EnclosedHolds`), and a length that wrapped
is not the length of the data (`SignatureReads`).  `SignatureInv` and `HashInv` only record which
of these was done.  For `SplitLength`, `RoomInv` keeps what was drawn, what was taken and what
is left of the room equal to the room: taking a length out of the middle of a
sequence lowers its sum by that length (`TotalOfRemoved`).

**Post-quantum modules.**  `PqcInv`: keys, ciphertexts and questions are made from known
bytes, every answer is one the standards allow for the question or nullopt
(`AnswersCorrect`), and the seed of an encapsulation is in `encaps_seed_buf`, and
OpenSSL's generator replaced, exactly while OpenSSL is being asked
(`RandomnessInPlace`).  Then what `compare` looks at is the same for all.

**Bignum clusters.**  A pointer among the arguments of a call is either held
by the lock on its index, so that no later `operator[]` replaces it, or is the
bignum of its argument's own number, which no other argument has (`PointersSecured`).  For
results, one call of a program decides: those before it test, those after it
test or copy the result, and what it computes of its arguments is the meaning of the operation
(`Decisive`, `Sound`; shown of the programs one by one).  While a call is under way its arguments
stand for their numbers (`ArgumentsStand`); what may be written to was handed out, and then
nothing is compared with the cache (`HandedOut`, `EqualsCache`); the place of the result is drawn once
(`PlacedOnce`); until the deciding call the tests are known to have succeeded, and
from then on the result is there (`Stage`).

**Handlers.**  The hypothesis on a handler looks at one object at a time: the places it may be at
(step, what it points to, whether it is locked), found by following the handler's
steps with that object alone in view (`Course`).  `Disciplined` says that these are closed
under the handler's steps and each is sound (`GoodPlace`).  The behaviours of `HandlerMemory`
have all objects at once, an order of evaluation and a choice of copies; `MemoryInv` is that each
object is nevertheless at a place of its course, nothing was left behind by a copy, and what
was read of a call's arguments is alive.  Evaluating an argument moves the objects it
replaces within their courses, and no other argument points to those (`ReplacedWell`); a
call that succeeds moves all of them (`SucceedKeeps`), one that fails frees what the courses
say is left (`EndKeeps`).  A course need not be computed to the end for the proof, since
`Disciplined` demands that it is closed, so no induction over the steps is needed.

**Verdicts.**  `VerdictInv` records that a question was asked of this program, that it got
a result of its kind, and that the verdict is what the test said of these.  The rest is about
numbers.  Lengths: the number of digits never falls as a number grows
(`DigitsGrow`), and no longer than another means below it times the base (`DigitsBound`), so
comparing lengths neither refuses a right result nor passes one that is off by
more than a digit (`SizesTell`).  Digit sums: the sum of the digits leaves the same
remainder by 3 as the number (`DigitSumThrees`), so a prime above 3 never looks composite
(`PrimesIndivisible`).  Bounds: each right result lies on the side of its operands that is
demanded (`RightBounded`, one lemma per group of operations: `AndBelow`, `RootBelow`, `GCDBelow`,
`QuotientAbove`, `PowerAbove`).  `Digits`, `DigitSum` and `SharedBits` are recursive; that they obey their own
equations is shown once for all functions that call themselves on a quotient (`DescendsAll`).

**Modules that calculate with a modulus.**  `AnswersInv` says that each answer on record is one
that its module gives to the question.  Then, module by module, what it gives is
what the operation says (`WordAnswer`, `FieldAnswer`) or nothing: a module that
truncates its operands answers for their residues, one that refuses large ones is never
wrong about small ones, and complements, shifts and powers reduce alike (`OnReduced`,
`PowerModReduced`, `NegativeRemainder`, `Halved`).  The exceptions are those that `AnswersAgree`
names; `modular_answers` shows one of them.

**Only model-checked:** `RunsTerminate` and `Terminates` (liveness is outside the
prover's reach); and `MeantOrDropped` of the four
unfaithful operations, where both halves disagree and the run shows that the
disagreement drops the operation.  That each of the ninety-six handlers is `Disciplined` is
TLC's to evaluate too: they are data, as the layouts of documents are.  `MinimumModules`,
`EveryModuleRuns`, `InputsExecute`, `FallbackMeansEmpty` and `ModulesAgree` are false, and so is
`RightResult` once `Mask` is not left out.

## 5. What is not modelled

The map covers some 13 % of the implementation's lines.  About 120 000 of its
157 000 lines are under `modules/`: adapters that translate an operation into one
library's calls and back, keep nothing between calls and differ from each other in
API names only, and vendored code (`modules/reference/xxHash` and the like).  In
`Executor` they are the environment.  Where an adapter does have state or choices
of its own — random sources, hooks, published pointers, restarts, parts, clusters
of bignums, key forms, limits on operands — it is modelled.  Left out:

* What cryptographic libraries compute; wording, logging, printing and JSON
  output, and the layout of reports printed before an abort.
* The distributions the mutator draws from, and the curve arithmetic of `generateECCPoint`.
* Of the executor: the warnings of `postprocess`, and the time spent.
* The tests of digest, key, tag and IV sizes in `tests.cpp` (one comparison each).
* The operations the mutator has no case for (KDF_BCRYPT, BLS_Aggregate_G1 and
  the like), and reading public keys and hexadecimal text.
* OpenSSL's calculations through Montgomery and reciprocal contexts and its
  predicates of one number, BoringSSL's and LibreSSL's branches and wolfCrypt's SP math.
  libgmp, libgcrypt and mbedTLS have similar clusters whose pointers are stable.
* Of the OpenSSL handlers, ARGON2 and BoringSSL's AEADs.
* Of the wolfCrypt handlers, contexts that no handler frees behind `end:` (most of the
  decrypting ones, RC4, DES and Camellia; GMAC's is freed on success alone), the
  copies of a digest's context, and ValidatePubkey of the four curves of their own:
  `modules/wolfcrypt/module.cpp:3329` returns before their handler is called.  A number's
  constructor, which throws when memory runs out, is assumed not to where no try
  block surrounds it; DSA_GenerateParameters frees its key also when it could not be
  initialised, which is assumed to succeed.
* Of the calculations with a modulus: failures inside libraries; Goldilocks'
  AVX512 path, whose index of a result is read from the modifier; the moduli of MNT4 and MNT6,
  which only Botan answers; noble-curves, which never answers; operations that
  only one module knows; which curves libff was built for (it is asked for all).
* OpenSSL's own `global_ds`: it is unset at every `end:` and its reads are
  caught; it was read and not modelled.
* The NIST DRBG is a stream that is a function of its seed; AES is not modelled.
* `Put` writes a 32-bit length; inputs are at most 10 MB, so its truncation is
  out of reach.
* Repository tables, importers, command-line parsing, the stand-alone runner,
  Python and shell tools, vendored boost headers and the emulator.

## 6. Plan

Done, in this order: `Executor`, `Comparison`, `DifferentialOracle`; `LiboqsRng`;
`Datasource` with `RoundTrip` proved; `MutatorPools`; `Codec` with `Operations`,
`Generated` and `Inputs`; `Multipart`; `GlobalDs`; `Encodings`; `ResultTests`;
`BignumCluster`; `PqcModules`; `HandlerSteps`, `HandlerCourses`, `HandlerMemory` and the handlers of
OpenSSL and wolfCrypt; `ModularNumbers`, `WordModules`, `FieldModules` and
`ModularAnswers`.  What is left:

1. The bignum clusters of libgmp, libgcrypt, mbedTLS and the SP variants of wolfCrypt.
