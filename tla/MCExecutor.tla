----------------------------- MODULE MCExecutor -----------------------------
(* Values for the constants of Executor, and the instance TLC checks.      *)
EXTENDS ExecutorOracle, FiniteSets

MCModifiers == {[size |-> 0, byte |-> 0], [size |-> 1, byte |-> 1]}

(* Two of the three answers have the same public half.                     *)
MCPublicKey == [v \in Values |-> IF v = 2 THEN 1 ELSE v]

CommandLine(force, disabled, min, noCompare, noTests, noDecrypt) ==
  [forceModule |-> force, disableModules |-> disabled, minModules |-> min,
   noCompare |-> noCompare, disableTests |-> noTests, noDecrypt |-> noDecrypt]

MCOptions ==
  { CommandLine(NoModule, {}, 1, FALSE, FALSE, FALSE),
    CommandLine(NoModule, {2}, 3, FALSE, TRUE, TRUE),
    CommandLine(3, {}, 3, FALSE, TRUE, TRUE),
    CommandLine(NoModule, {}, 1, TRUE, TRUE, TRUE) }

Job(style, seeded, dontCompare, enabled, check, modulo) ==
  [style |-> style, seeded |-> seeded, dontCompare |-> dontCompare,
   enabled |-> enabled, check |-> check, modulo |-> modulo]

MCJobs ==
  { Job("adjacent", FALSE, FALSE, TRUE, "decrypt", NoModulo),
    Job("adjacent", FALSE, TRUE, TRUE, "verify", 7),
    Job("reference", FALSE, FALSE, TRUE, "none", NoModulo),
    Job("seededReference", TRUE, FALSE, TRUE, "none", NoModulo),
    Job("seededReference", FALSE, FALSE, TRUE, "none", NoModulo),
    Job("seededPublicKey", TRUE, FALSE, TRUE, "none", NoModulo),
    Job("none", FALSE, FALSE, FALSE, "none", NoModulo) }

(* Smaller sets, for what a run is expected to violate.                    *)
LiveOptions ==
  { CommandLine(NoModule, {}, 1, FALSE, FALSE, FALSE),
    CommandLine(NoModule, {2}, 3, FALSE, TRUE, TRUE),
    CommandLine(3, {}, 1, FALSE, TRUE, TRUE) }

LiveJobs == {Job("adjacent", FALSE, FALSE, TRUE, "decrypt", NoModulo)}

(* One enabled back end, --min-modules=2.                                  *)
OneBackend == {CommandLine(NoModule, {2, 3}, 2, FALSE, TRUE, TRUE)}

(* What the campaign guide expects of --min-modules=2: what executes       *)
(* involves at least that many modules, so there is something to compare   *)
(* (docs/pqc-build-and-fuzzing.md on Run's check of options.minModules).   *)
MinimumModules ==
  pc = "execute" => Cardinality(ModulesOf(operations)) >= options.minModules

(* What the comment at Run's set_difference promises, that every operation *)
(* runs on every loaded module: a run that returns to the driver after it  *)
(* began to execute has called every enabled module (executor.cpp).        *)
EveryModuleRuns ==
  pc = "idle" /\ results # <<>> => Asked = Enabled

=============================================================================
