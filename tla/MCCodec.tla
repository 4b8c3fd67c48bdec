------------------------------ MODULE MCCodec ------------------------------
(***************************************************************************)
(* The constants of Codec for TLC: all documents, and corpus seeds.        *)
(***************************************************************************)
EXTENDS Codec, AllDocuments

(* Corpus seeds.                                                           *)
SeedLayouts == [Seed |-> In!Seed]
SeedDraws == [Seed |-> In!Generated]

(* What was written runs as it was written: corpus seeds start the fuzzer  *)
(* off with operations that execute (Driver::Run, the corpus tools).       *)
InputsExecute ==
  phase \in {"decoded", "dropped"} => phase = "decoded" /\ got = Values

=============================================================================
