----------------------------- MODULE Comparison -----------------------------
(***************************************************************************)
(* The comparison that ends a differential run: ExecutorBase::compare and  *)
(* its specialisations for the post-quantum operations.  A run leaves one  *)
(* result per executed operation, in execution order: a value, or Nullopt  *)
(* (std::nullopt) when the module declined.  Values are opaque; PublicKey  *)
(* projects a KEM key pair to the half that KEM_GenerateKeyPair compares.  *)
(***************************************************************************)
EXTENDS Integers, Sequences

CONSTANTS
  Values,     \* what a module may answer
  Nullopt,    \* the answer of a module that declined
  PublicKey   \* the public half of an answer that is a key pair

ASSUME ValuesAssumption ==
  /\ Nullopt \notin Values
  /\ DOMAIN PublicKey = Values

Results == Values \cup {Nullopt}

(***************************************************************************)
(* filter(): the positions whose result is not std::nullopt.               *)
(***************************************************************************)
Valued(rs) == {i \in DOMAIN rs : rs[i] # Nullopt}

(***************************************************************************)
(* The generic compare walks the filtered results and compares each one    *)
(* with the one before it, which are the valued positions i < j with no    *)
(* valued position between them.                                           *)
(***************************************************************************)
FaultUnfiltered(rs, i, j) == j = i + 1   \* fault: compares before filtering

Neighbours(rs, i, j) ==
  /\ i < j
  /\ \A k \in Valued(rs) : k <= i \/ j <= k

AdjacentDiffer(rs) ==
  \E i, j \in Valued(rs) : Neighbours(rs, i, j) /\ rs[i] # rs[j]

(***************************************************************************)
(* KEM_Encapsulate, KEM_Decapsulate and PQSign_Verify compare every valued *)
(* result with the first valued one, the reference.                        *)
(***************************************************************************)
IsReference(rs, f) == f \in Valued(rs) /\ \A k \in Valued(rs) : f <= k

ReferenceDiffer(rs) ==
  \E f, i \in Valued(rs) : IsReference(rs, f) /\ rs[i] # rs[f]

(***************************************************************************)
(* KEM_GenerateKeyPair compares with the result of the first operation,    *)
(* valued or not, and looks at public keys only.                           *)
(***************************************************************************)
PublicKeysDiffer(rs) ==
  \E i \in DOMAIN rs :
    \/ (rs[1] = Nullopt) # (rs[i] = Nullopt)
    \/ /\ rs[1] # Nullopt
       /\ rs[i] # Nullopt
       /\ PublicKey[rs[i]] # PublicKey[rs[1]]

(***************************************************************************)
(* The ways an operation's results are compared:                           *)
(*   adjacent         the generic compare                                  *)
(*   reference        KEM_Decapsulate, PQSign_Verify                       *)
(*   seededReference  KEM_Encapsulate: only under a non-empty seed         *)
(*   seededPublicKey  KEM_GenerateKeyPair: likewise, and logged, not fatal *)
(*   none             compare is empty: key generation (ECC, PQSign, DH,   *)
(*                    DSA), DSA_Sign, PQSign_Sign, DSA_GenerateParameters, *)
(*                    ECIES_Encrypt                                        *)
(* Every operation of a run is built from the same payload, so "all seeds  *)
(* are present, non-empty and equal to the first" says the payload has a   *)
(* non-empty seed.                                                         *)
(***************************************************************************)
Styles ==
  {"adjacent", "reference", "seededReference", "seededPublicKey", "none"}

(* Fault: KEM_Encapsulate compares unseeded, hence random, results.        *)
FaultAnySeed(style, seeded, dontCompare, rs) ==
  \/ style = "adjacent" /\ ~dontCompare /\ AdjacentDiffer(rs)
  \/ style \in {"reference", "seededReference"} /\ ReferenceDiffer(rs)

(* The results are fatally different: compare() reaches abort().           *)
Fatal(style, seeded, dontCompare, rs) ==
  \/ style = "adjacent" /\ ~dontCompare /\ AdjacentDiffer(rs)
  \/ style = "reference" /\ ReferenceDiffer(rs)
  \/ style = "seededReference" /\ seeded /\ ReferenceDiffer(rs)

(* The results differ in a way compare() prints and then tolerates.        *)
Logged(style, seeded, rs) ==
  style = "seededPublicKey" /\ seeded /\ PublicKeysDiffer(rs)

=============================================================================
