---------------------------- MODULE MCPqcModules ----------------------------
(***************************************************************************)
(* The post-quantum operations: in three modules under the executor, and   *)
(* the randomness of one of them, liboqs, byte by byte.  The first model   *)
(* names the bytes of a draw, the second follows them through the sources  *)
(* that liboqs can draw from; a behaviour is one of the one or one of the  *)
(* other, with the other at rest.                                          *)
(***************************************************************************)
EXTENDS MCLiboqsRng, PqcModules

KemKinds == {"KEM_GenerateKeyPair", "KEM_Encapsulate", "KEM_Decapsulate"}
SignKinds == {"PQSign_GenerateKeyPair", "PQSign_Sign", "PQSign_Verify"}
MCCampaigns == {KemKinds, SignKinds}

(* No seed, an empty one, one of the wrong size and some of the right one. *)
MCKeySeeds == {Unseeded, Seed(0, "none"), Seed(32, "a"), Seed(64, "a")}
MCEncapsSeeds ==
  {Unseeded, Seed(0, "none"), Seed(31, "a"), Seed(32, "a"), Seed(32, "b")}

MCContexts == {NoContext, Context(0, "none"), Context(1, "c"), Context(256, "c")}

(* A run may ask one module more than once.                                *)
MCOrders == {<<"liboqs", "OpenSSL", "Botan">>, <<"OpenSSL", "OpenSSL", "Botan">>}

-----------------------------------------------------------------------------
(* No handler of liboqs is called.                                         *)
RngAtRest ==
  /\ rng = "system" /\ pc = "rest"
  /\ fixed = [seed |-> NoSeed, len |-> 0, pos |-> 0]
  /\ drbg = [seed |-> NoKey, drawn |-> 0]
  /\ request = CHOOSE r \in Requests : TRUE
  /\ replaced = FALSE /\ drawn = <<>> /\ answered = FALSE /\ answers = {}

(* No operation is run.                                                    *)
ModulesAtRest ==
  /\ campaign = {} /\ pools = <<>> /\ runs = 0 /\ question = Ask("none", "none")
  /\ order = <<>> /\ results = <<>> /\ refused = FALSE /\ logged = FALSE /\ phase = "rest"
  /\ rand = "module" /\ encapsSeedBuf = "zeros" /\ encapsSeedUsed = FALSE
  /\ randReplaced = FALSE /\ answer = Nullopt

BothInit == (PqcInit /\ RngAtRest) \/ (Init /\ ModulesAtRest)

BothNext ==
  \/ PqcNext /\ UNCHANGED vars
  \/ Next /\ UNCHANGED pqcVars

BothSpec == BothInit /\ [][BothNext]_<<vars, pqcVars>>

=============================================================================
