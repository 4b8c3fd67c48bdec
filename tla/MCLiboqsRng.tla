---------------------------- MODULE MCLiboqsRng ----------------------------
(***************************************************************************)
(* The constants of LiboqsRng for TLC: draws of two bytes (four for a KEM  *)
(* key pair), seeds of every size around them, and three signing keys two  *)
(* of which share their first bytes.                                       *)
(***************************************************************************)
EXTENDS LiboqsRng, TLC

CONSTANTS sa, sb, short, long, empty, ka, kb, kc, prefixA, prefixC

MCSeeds == {sa, sb, short, long, empty}
MCSeedSize == (sa :> 2) @@ (sb :> 2) @@ (short :> 1) @@ (long :> 4) @@ (empty :> 0)
MCKeys == {ka, kb, kc}
MCEntropy == (ka :> prefixA) @@ (kb :> prefixA) @@ (kc :> prefixC)

MCDrawLength ==
  [kind \in Kinds |->
     CASE kind = "KEM_GenerateKeyPair" -> 4
       [] kind \in {"KEM_Encapsulate", "PQSign_GenerateKeyPair", "PQSign_Sign"} -> 2
       [] OTHER -> 0]

Request(kinds, seeds, keys, wellFormed) ==
  [kind : kinds, seed : seeds, key : keys, wellFormed : wellFormed]

MCRequests ==
  Request({"PQSign_GenerateKeyPair"}, MCSeeds \cup {NoSeed}, {NoKey}, {TRUE})
    \cup Request({"KEM_GenerateKeyPair"}, {long, sa, NoSeed}, {NoKey}, {TRUE})
    \cup Request({"KEM_Encapsulate"}, {sa}, {NoKey}, {TRUE})
    \cup Request({"PQSign_Sign"}, {NoSeed}, MCKeys, {TRUE})
    \cup Request({"PQSign_Sign"}, {NoSeed}, {ka}, {FALSE})
    \cup Request({"KEM_Decapsulate", "PQSign_Verify"}, {NoSeed}, {NoKey}, {FALSE})

=============================================================================
