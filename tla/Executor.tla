------------------------------ MODULE Executor ------------------------------
(***************************************************************************)
(* ExecutorBase::Run: one differential run.  The input names a list of     *)
(* (modifier, module) entries; the executor collects them, adds every      *)
(* loaded module the list does not name, runs the operation once per       *)
(* entry, and compares the results.  Driver::Run dispatches an input to it *)
(* and swallows the OutOfData exception that a read past the end of the    *)
(* input throws.                                                           *)
(*                                                                         *)
(* The input is abstracted to the number of reads it can still satisfy:    *)
(* what a read returns is any value, and because fields have a length of   *)
(* their own, any read may find too few bytes left.  What a module answers *)
(* is any result: the modules are the environment.  Some of them let the   *)
(* OutOfData exception of their own reads out, which unwinds Run as well.  *)
(***************************************************************************)
EXTENDS Comparison

CONSTANTS
  IDs,              \* module IDs an input can name
  Loaded,           \* those of the modules linked into the fuzzer
  Throwing,         \* those that let OutOfData out, as tf-psa-crypto does
  MaxOperations,    \* OperationType::MaxOperations()
  MaxReads,         \* bound: reads an input can satisfy
  ByteValues,       \* number of values of a byte (256)
  InputModifiers,   \* bound: the modifiers an input carries
  Options,          \* bound: the command lines considered
  Jobs,             \* bound: the operations considered
  NoModule,         \* forceModule is std::nullopt
  NoModulo          \* modulo is std::nullopt

(* A modifier is a byte string; c++ moves its bytes together, so its size  *)
(* and its first byte tell apart what the executor tells apart.            *)
Modifiers == [size : Nat, byte : 0 .. ByteValues - 1]

ASSUME ExecutorAssumption ==
  /\ IDs \subseteq Nat
  /\ Loaded \subseteq IDs
  /\ Throwing \subseteq Loaded
  /\ NoModule \notin IDs
  /\ MaxOperations \in Nat \ {0}
  /\ MaxReads \in Nat
  /\ ByteValues \in Nat /\ ByteValues >= 2
  /\ InputModifiers \subseteq Modifiers
  /\ Options \subseteq
       [forceModule : IDs \cup {NoModule}, disableModules : SUBSET IDs,
        minModules : Nat \ {0}, noCompare : BOOLEAN,
        disableTests : BOOLEAN, noDecrypt : BOOLEAN]
  /\ \A job \in Jobs :
       /\ job.style \in Styles
       /\ {job.seeded, job.dontCompare, job.enabled} \subseteq BOOLEAN
       /\ job.check \in {"none", "decrypt", "verify"}

VARIABLES
  options,      \* set once by LLVMFuzzerInitialize
  pc,           \* where Run is: see Phases
  job,          \* the dispatched operation
  left,         \* reads the parent data source can still satisfy
  operations,   \* the vector of (module, operation) pairs
  results,      \* the results so far, in the order of operations
  outcome       \* how the last run ended

vars == <<options, pc, job, left, operations, results, outcome>>

Phases == {"idle", "collect", "more", "augment", "execute", "compare", "aborted"}

Outcomes == {"none", "outOfData", "noOperations", "tooFew", "abandoned",
             "notCompared", "passed", "logged", "difference", "test", "selfCheck"}

FaultAllLoaded == Loaded   \* fault: --disable-modules is not consulted

Enabled == Loaded \ options.disableModules
ModulesOf(ops) == {ops[i].module : i \in DOMAIN ops}
Missing == Enabled \ ModulesOf(operations)

Finish(how) ==
  /\ pc' = "idle"
  /\ outcome' = how
  /\ UNCHANGED <<options, job, left, operations, results>>

Crash(why) ==
  /\ pc' = "aborted"
  /\ outcome' = why

-----------------------------------------------------------------------------

Init ==
  /\ options \in Options
  /\ pc = "idle"
  /\ job \in Jobs
  /\ left = 0
  /\ operations = <<>>
  /\ results = <<>>
  /\ outcome = "none"

(* Driver::Run finds the operation selected and hands its payload, and the *)
(* rest of the input, to the executor.                                     *)
Dispatch ==
  /\ pc = "idle"
  /\ pc' = "collect"
  /\ job' \in Jobs
  /\ left' \in 0 .. MaxReads
  /\ operations' = <<>>
  /\ results' = <<>>
  /\ outcome' = "none"
  /\ UNCHANGED options

(* A read in getOp, getModule or the loop condition runs past the end of   *)
(* the input.  The exception unwinds Run: entries collected so far are     *)
(* dropped with the input.                                                 *)
FaultReadMidRun ==   \* fault: the input is read while modules run
  /\ pc \in {"collect", "more", "execute"}
  /\ Finish("outOfData")

OutOfData ==
  /\ pc \in {"collect", "more"}
  /\ Finish("outOfData")

(* A read consumes its field, whatever becomes of the value.               *)
FaultRereads(reads) == left >= reads /\ UNCHANGED left   \* fault: not consumed

Consume(reads) == left >= reads /\ left' = left - reads

(* getModule(): the ID the input names, unless --force-module overrides it.*)
ChosenModule(id) ==
  IF options.forceModule = NoModule THEN id ELSE options.forceModule

(* getOp() and getModule() for an entry whose module is disabled or not    *)
(* loaded: `continue` skips the push and goes on to the loop condition.    *)
SkipEntry ==
  /\ pc = "collect"
  /\ \E id \in IDs : ChosenModule(id) \notin Enabled
  /\ Consume(2)
  /\ pc' = "more"
  /\ UNCHANGED <<options, job, operations, results, outcome>>

AfterPush(ops) == IF Len(ops) = MaxOperations THEN "augment" ELSE "more"

(* getOp() and getModule() for an entry that counts: getOpPostprocess      *)
(* stamps the executor's modulus on it and it is pushed; a full vector     *)
(* leaves the loop without reading on.                                     *)
CollectEntry ==
  /\ pc = "collect"
  /\ Consume(2)
  /\ \E id \in IDs, modifier \in InputModifiers :
       /\ ChosenModule(id) \in Enabled
       /\ operations' = Append(operations,
            [module |-> ChosenModule(id), modifier |-> modifier, modulo |-> job.modulo])
  /\ pc' = AfterPush(operations')
  /\ UNCHANGED <<options, job, results, outcome>>

(* The loop condition: a flag says whether another entry follows.          *)
ReadMore ==
  /\ pc = "more"
  /\ Consume(1)
  /\ pc' \in {"collect", "augment"}
  /\ UNCHANGED <<options, job, operations, results, outcome>>

NoOperations ==
  /\ pc = "augment"
  /\ operations = <<>>
  /\ Finish("noOperations")

CopyFor(op, id) == [op EXCEPT !.module = id]

(* Every enabled module that no entry names runs a copy of the first       *)
(* entry's operation, in the order of the module IDs.                      *)
AddModule ==
  /\ pc = "augment"
  /\ operations # <<>>
  /\ \E id \in Missing :
       /\ \A other \in Missing : id <= other
       /\ operations' = Append(operations, CopyFor(operations[1], id))
  /\ UNCHANGED <<options, pc, job, left, results, outcome>>

(* --min-modules: too few operations and the run is given up.              *)
EnoughModules(ops) == Len(ops) >= options.minModules

TooFew ==
  /\ pc = "augment"
  /\ operations # <<>> /\ Missing = {}
  /\ ~EnoughModules(operations)
  /\ Finish("tooFew")

StartExecution ==
  /\ pc = "augment"
  /\ operations # <<>> /\ Missing = {}
  /\ EnoughModules(operations)
  /\ pc' = "execute"
  /\ UNCHANGED <<options, job, left, operations, results, outcome>>

(* Two calls in a row of one module with one modifier would only repeat    *)
(* the first, so the second gets another modifier: 512 ones for an empty   *)
(* one, every byte incremented otherwise.                                  *)
FaultEmptyKept(modifier) ==   \* fault: there is no byte to increment
  IF modifier.size = 0 THEN modifier
  ELSE [modifier EXCEPT !.byte = (@ + 1) % ByteValues]

Altered(modifier) ==
  IF modifier.size = 0
  THEN [size |-> 512, byte |-> 1]
  ELSE [modifier EXCEPT !.byte = (@ + 1) % ByteValues]

Repeats(ops, i) ==
  /\ i > 1
  /\ ops[i].module = ops[i - 1].module
  /\ ops[i].modifier = ops[i - 1].modifier

FaultAltersPrevious(ops, i) ==   \* fault: the wrong one of the two is changed
  IF Repeats(ops, i) THEN [ops EXCEPT ![i - 1].modifier = Altered(@)] ELSE ops

Prepared(ops, i) ==
  IF Repeats(ops, i) THEN [ops EXCEPT ![i].modifier = Altered(@)] ELSE ops

(* callModule(): an operation whose algorithm is filtered out yields       *)
(* nullopt without reaching the module.                                    *)
Answers == IF job.enabled THEN Results ELSE {Nullopt}

(* Kinds whose postprocess() asks the module that answered to undo or      *)
(* confirm its answer: SymmetricEncrypt decrypts, unless --no-decrypt;     *)
(* ECDSA_Sign and ECCSI_Sign verify, ECC_GenerateKeyPair validates.        *)
SelfChecked ==
  \/ job.check = "verify"
  \/ job.check = "decrypt" /\ ~options.noDecrypt

(* One turn of the execution loop: prepare the modifier, call the module,  *)
(* keep its result, test it (tests::test) and postprocess it.  A failed    *)
(* test or self-check aborts the process on the spot.                      *)
Execute ==
  /\ pc = "execute"
  /\ Len(results) < Len(operations)
  /\ operations' = Prepared(operations, Len(results) + 1)
  /\ \E r \in Answers :
       /\ results' = Append(results, r)
       /\ \/ UNCHANGED <<pc, outcome>>
          \/ r # Nullopt /\ ~options.disableTests /\ Crash("test")
          \/ r # Nullopt /\ SelfChecked /\ Crash("selfCheck")
  /\ UNCHANGED <<options, job, left>>

(* A module reads its modifier past the end and does not catch OutOfData,  *)
(* when it is called or when postprocess() asks it about its answer.  The  *)
(* exception unwinds Run into the driver: the results are dropped.         *)
ModuleThrows ==
  /\ pc = "execute"
  /\ Len(results) < Len(operations)
  /\ operations[Len(results) + 1].module \in Throwing
  /\ job.enabled
  /\ operations' = Prepared(operations, Len(results) + 1)
  /\ \/ UNCHANGED results
     \/ SelfChecked /\ \E r \in Values : results' = Append(results, r)
  /\ pc' = "idle"
  /\ outcome' = "abandoned"
  /\ UNCHANGED <<options, job, left>>

FaultOneShort ==   \* fault: the loop ends one operation early
  /\ pc = "execute"
  /\ Len(results) + 1 >= Len(operations)

Executed ==
  /\ pc = "execute"
  /\ Len(results) = Len(operations)

SkipCompare ==
  /\ Executed
  /\ options.noCompare
  /\ Finish("notCompared")

StartCompare ==
  /\ Executed
  /\ ~options.noCompare
  /\ pc' = "compare"
  /\ UNCHANGED <<options, job, left, operations, results, outcome>>

AbortOnDifference ==
  /\ pc = "compare"
  /\ Fatal(job.style, job.seeded, job.dontCompare, results)
  /\ Crash("difference")
  /\ UNCHANGED <<options, job, left, operations, results>>

CompareReturns ==
  /\ pc = "compare"
  /\ ~Fatal(job.style, job.seeded, job.dontCompare, results)
  /\ Finish(IF Logged(job.style, job.seeded, results) THEN "logged" ELSE "passed")

Step ==
  \/ OutOfData \/ SkipEntry \/ CollectEntry \/ ReadMore
  \/ NoOperations \/ AddModule \/ TooFew \/ StartExecution
  \/ Execute \/ ModuleThrows
  \/ SkipCompare \/ StartCompare \/ AbortOnDifference \/ CompareReturns

Next == Dispatch \/ Step

Spec == Init /\ [][Next]_vars

(* Run is sequential code called by libFuzzer: a call that can go on does. *)
FairSpec == Spec /\ WF_vars(Step)

-----------------------------------------------------------------------------
(***************************************************************************)
(* Properties.                                                             *)
(***************************************************************************)

Operation ==
  [module : Loaded, modifier : Modifiers, modulo : {j.modulo : j \in Jobs}]

(* Every variable holds what its C++ counterpart can hold.                 *)
TypeOK ==
  /\ options \in Options
  /\ pc \in Phases
  /\ job \in Jobs
  /\ left \in 0 .. MaxReads
  /\ operations \in Seq(Operation)
  /\ results \in Seq(Results)
  /\ Len(results) <= Len(operations)
  /\ outcome \in Outcomes

(* The run that just ended went through a comparison that covers its kind  *)
(* of operation.                                                           *)
Comparable(j) ==
  /\ j.style \notin {"none", "seededPublicKey"}
  /\ j.style = "adjacent" => ~j.dontCompare
  /\ j.style = "seededReference" => j.seeded

(* No missed difference: when a comparable run ends without aborting, no   *)
(* two modules gave different answers, even with declined results between  *)
(* them (Run and compare in executor.cpp).                                 *)
NoMissedDifference ==
  outcome = "passed" /\ Comparable(job) =>
    \A i, j \in Valued(results) : results[i] = results[j]

(* No false alarm: the process aborts for a difference only when two       *)
(* executed operations did answer, differently, and the operation's        *)
(* results are meant to be reproducible (compare in executor.cpp).         *)
NoFalseAlarm ==
  outcome = "difference" =>
    /\ Comparable(job)
    /\ ~options.noCompare
    /\ \E i, j \in Valued(results) : results[i] # results[j]

(* Every enabled module is asked: once execution starts, the operations    *)
(* name all loaded modules that are not disabled, and only those           *)
(* (the set_difference in Run, --disable-modules in getModule).            *)
ExactlyEnabledModulesRun ==
  pc \in {"execute", "compare"} \/ results # <<>> =>
    ModulesOf(operations) = Loaded \ options.disableModules

(* Every module is asked the same question: the operations of a run differ *)
(* in module and modifier only; also the copies added for modules the      *)
(* input did not name carry the executor's modulus (getOpPostprocess).     *)
SameQuestion ==
  \A i \in DOMAIN operations : operations[i].modulo = job.modulo

(* No wasted call: of two consecutive calls of one module the second has   *)
(* another modifier, also at the wrap of a byte and for empty modifiers    *)
(* (the modifier adjustment in Run).                                       *)
NoRepeatedCall ==
  \A i \in 2 .. Len(results) :
    operations[i].module = operations[i - 1].module =>
      operations[i].modifier # operations[i - 1].modifier

(* Time-out protection: a run executes no more than MaxOperations entries  *)
(* of the input; only modules not among them come on top (the break in     *)
(* Run).                                                                   *)
OperationsBounded ==
  \E named \in 0 .. Len(operations) :
    /\ named <= MaxOperations
    /\ \A i \in named + 1 .. Len(operations) : \A k \in 1 .. i - 1 :
         operations[k].module # operations[i].module

(* What has run is history: while a run executes, the operations whose     *)
(* results are in no longer change, so a result stays with the modifier    *)
(* that produced it (the in-place modifier adjustment in Run).             *)
ExecutedOperationsFrozen ==
  [][pc = "execute" => \A i \in DOMAIN results :
       operations'[i] = operations[i] /\ results'[i] = results[i]]_vars

(* Every dispatched input comes to an end: it returns to the driver or     *)
(* aborts the process, however its entries skip modules (Run).             *)
RunsTerminate == pc = "collect" ~> pc \in {"idle", "aborted"}

-----------------------------------------------------------------------------
(***************************************************************************)
(* The inductive invariant behind them.                                    *)
(***************************************************************************)

(* Nothing has run while entries are collected or added, and collection    *)
(* stops at MaxOperations.                                                 *)
CollectionInv ==
  /\ pc \in {"collect", "more", "augment"} => results = <<>>
  /\ pc \in {"collect", "more"} => Len(operations) < MaxOperations

(* Only enabled modules are ever named, and once something may run all are.*)
PanelInv ==
  /\ ModulesOf(operations) \subseteq Enabled
  /\ pc \in {"execute", "compare"} \/ results # <<>> => Missing = {}

(* The comparison sees one result per operation.                           *)
CompareInv ==
  pc = "compare" => Len(results) = Len(operations) /\ ~options.noCompare

(* An outcome is what the comparison of these results yielded.             *)
OutcomeInv ==
  /\ pc \notin {"idle", "aborted"} => outcome = "none"
  /\ pc = "aborted" <=> outcome \in {"test", "selfCheck", "difference"}
  /\ outcome \in {"passed", "difference"} =>
       /\ ~options.noCompare
       /\ outcome = "difference" <=>
            Fatal(job.style, job.seeded, job.dontCompare, results)

IInv ==
  /\ TypeOK
  /\ CollectionInv
  /\ PanelInv
  /\ CompareInv
  /\ OutcomeInv
  /\ SameQuestion
  /\ NoRepeatedCall
  /\ OperationsBounded

=============================================================================
