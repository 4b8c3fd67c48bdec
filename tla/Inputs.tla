------------------------------- MODULE Inputs -------------------------------
(***************************************************************************)
(* Whole inputs, laid out as Operations lays out their payloads: the       *)
(* operation, its payload, and then for each module to run a modifier, the *)
(* module and whether another follows.  The driver and the executor read   *)
(* them; the mutator and the corpus tools write them.                      *)
(***************************************************************************)
EXTENDS Operations

Raw(name, min) == Item(name, "bytes", min, 0, 0)

Entry(more) == <<Raw("modifier", 0), Type("module"), more>>

(* The driver asks for at least one byte of payload.  The mutator, when it *)
(* looks for a modifier to reuse, reads the first three items of an input  *)
(* with the same bounds.                                                   *)
Input ==
  <<Type("operation"), Raw("payload", 1)>> \o
    Entry([Flag("another") EXCEPT !.gives = Entry(Flag("last"))])

(* What the corpus tools leave out of an input.                            *)
Seed ==
  <<Type("operation"), Raw("payload", 1), Raw("modifier", 0),
    Unwritten(Type("module")), Unwritten(Flag("another"))>>

Id(n) == <<n, 2, 3, 4, 5, 6, 7, 8>>

(* What the mutator puts there: any payload, one module or two.             *)
Generated ==
  [operation |-> <<Id(1)>>, payload |-> <<<<4, 0, 0, 0>>, <<0>>>>,
   modifier |-> <<<<7, 8, 9>>, <<>>, <<0>>>>, module |-> <<Id(1), Id(2)>>,
   another |-> <<<<0>>, <<1>>>>, last |-> <<<<0>>>>]

=============================================================================
