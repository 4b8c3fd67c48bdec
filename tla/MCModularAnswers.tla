-------------------------- MODULE MCModularAnswers --------------------------
(***************************************************************************)
(* One modulus, the order of BLS12-381, scaled to the prime 7, and what    *)
(* comparing the answers of its fourteen modules rests on.                 *)
(***************************************************************************)
EXTENDS ModularAnswers

MCSizes ==
  [modulus \in {"bls381_r"} |->
     [order |-> 7, byte |-> 4, limb |-> 2, word32 |-> 5, word64 |-> 6, bytes |-> 16, digits |-> 5]]

-----------------------------------------------------------------------------
(* Two modules that answer the same question answer it alike, so that what *)
(* compare aborts for, "Difference detected", is a difference between two  *)
(* libraries (ExecutorBase::compare).                                      *)
ModulesAgree == \A i, j \in DOMAIN answers : answers[i].value = answers[j].value
=============================================================================
