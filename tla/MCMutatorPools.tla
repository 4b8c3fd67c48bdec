--------------------------- MODULE MCMutatorPools ---------------------------
(***************************************************************************)
(* Small instances of the mutator pools: numbers written in base three, so *)
(* that two digits make 8 the largest number of kMaxBignumSize digits; a   *)
(* byte has four values, and two bytes hold it with room to spare, as 1661 *)
(* bytes do for 4000 decimal digits.                                       *)
(***************************************************************************)
EXTENDS MutatorPools, Items, AllDocuments

MCDigits(v) == IF v = 0 THEN 0 ELSE IF v < 3 THEN 1 ELSE IF v < 9 THEN 2 ELSE 3
MCBytePowers == {4, 16, 64}
MCValues == {0, 1, 8, 15, 16}
MCOrders == {8}

(* What the mutator draws with these numbers, and without them, has to fit *)
(* the items of the operation it is drawn for: of every operation, once.   *)
ASSUME DocumentsAssumption == DocumentsFit

=============================================================================
