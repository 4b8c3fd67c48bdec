--------------------------- MODULE ExecutorOracle ---------------------------
(***************************************************************************)
(* The executor implements the differential oracle: its vectors are read   *)
(* as the sets of modules asked and of answers given, its program counter  *)
(* and its last outcome as the verdict.                                    *)
(***************************************************************************)
EXTENDS Executor

Asked == {operations[i].module : i \in DOMAIN results}
Given == {results[i] : i \in Valued(results)}
Compared == Comparable(job) /\ ~options.noCompare

Verdict ==
  CASE pc = "aborted" /\ outcome = "difference" -> "difference"
    [] pc = "aborted" /\ outcome # "difference" -> "fault"
    [] pc = "idle" /\ outcome = "none" -> "idle"
    [] pc = "idle" /\ outcome \in {"outOfData", "noOperations", "tooFew"} -> "declined"
    [] pc = "idle" /\ outcome = "abandoned" -> "abandoned"
    [] pc = "idle" /\ outcome \in {"passed", "logged", "notCompared"} ->
         IF Compared THEN "agreement" ELSE "inconclusive"
    [] OTHER -> "running"

Oracle == INSTANCE DifferentialOracle WITH
  Members <- Loaded,
  Quitters <- Throwing,
  Answers <- Values,
  panel <- Enabled,
  comparable <- Compared,
  asked <- Asked,
  answers <- Given,
  verdict <- Verdict

(* Every run of the executor is a run of the oracle: a difference is       *)
(* reported exactly when a comparable question got two answers, after all  *)
(* enabled modules were asked; a question is declined before any was, and  *)
(* broken off only by a module that throws.                                *)
ImplementsOracle == Oracle!Spec

=============================================================================
