---------------------------- MODULE AllDocuments ----------------------------
(***************************************************************************)
(* Every operation the mutator generates, with the layout of its class and *)
(* the draws of its case, and whole inputs around a payload.               *)
(***************************************************************************)
EXTENDS Integers, Sequences, TLC

Op == INSTANCE Operations
In == INSTANCE Inputs
Gen == INSTANCE Generated WITH ByteValues <- 256, MaxSize <- 4096

MCDraws == Gen!GeneratedDraws @@ [Input |-> In!Generated]
MCLayouts ==
  [d \in DOMAIN Gen!GeneratedDraws |-> Op!OperationLayouts[d]] @@ [Input |-> In!Input]

(* The documents whose Serialize does not write what their constructor     *)
(* reads.                                                                  *)
MCUnfaithful == {"UMAC", "KDF_SRTP", "KDF_SRTCP", "DSA_PrivateToPublic"}

=============================================================================
