---------------------------- MODULE MCUtilities ----------------------------
(***************************************************************************)
(* Utilities the modules share: the data source, cutting a cleartext into  *)
(* parts, encodings and paddings, and the data source lent to the          *)
(* allocator.  They touch no variable of each other, so a behaviour        *)
(* exercises one of them, with the others at rest: every state of each is  *)
(* reached, and none of their product.                                     *)
(*                                                                         *)
(* The data source has bytes of two values, so that four of them spell     *)
(* lengths up to 15, all inputs of up to seven bytes, and fields of up to  *)
(* two.  Cleartexts have up to five bytes, cut at six places at most, in   *)
(* blocks of two or three.  Bytes of encodings have three bits, so that    *)
(* every length that can wrap does: texts of up to four bytes, and numbers *)
(* on both sides of each change of length and of each top bit.  All kinds  *)
(* of handlers take turns with the allocator, with and without the         *)
(* environment variable.                                                   *)
(***************************************************************************)
EXTENDS Datasource, Multipart, Encodings, GlobalDs

VARIABLE part   \* what a behaviour exercises: "source", "cut", "code" or "lend"

allVars == <<part, vars, cutVars, codeVars, lendVars>>

Strings(values, n) == UNION {[1 .. k -> values] : k \in 0 .. n}

MCInputs == Strings({0, 1}, 7)
MCFields == Strings({0, 1}, 2)
MCTexts == Strings({0, 1, 2, 7}, 4)
MCNumbers == {-1, 0, 1, 3, 4, 7, 8, 31, 32, 63, 64, 255, 256, 511, 512}

(* GetData(id); GetData(0, 1), the driver's, which asks for one byte at    *)
(* least; Get<T> for a T of one byte; a maximum alone, as Buffer has; and  *)
(* a minimum above the maximum.                                            *)
MCBounds ==
  {[min |-> 0, max |-> 0], [min |-> 1, max |-> 0], [min |-> 1, max |-> 1],
   [min |-> 0, max |-> 1], [min |-> 2, max |-> 1]}

-----------------------------------------------------------------------------
(* At rest each is where its last step would leave it.                     *)

CutAtRest ==
  /\ cutting = "done" /\ way = [cut |-> "whole", block |-> 0, clears |-> FALSE]
  /\ length = 0 /\ modifier = 0 /\ remaining = 0 /\ lengths = <<>> /\ before = <<>>
  /\ curPos = 0 /\ parts = <<Part(0, 0)>> /\ fed = 1 /\ absorbed = <<>> /\ numClears = 0

CodeAtRest ==
  /\ coding = "done" /\ work = "room" /\ given = 0 /\ size = 0
  /\ coded = <<>> /\ result = <<>> /\ room = 0

LendAtRest ==
  /\ lending = "terminated" /\ caller = "Hooked" /\ haveBadPointer = FALSE
  /\ pointer = [o \in Owners |-> "null"]
  /\ buffer = "none" /\ kept = "none" /\ misused = {}

AllInit ==
  /\ part \in {"source", "cut", "code", "lend"}
  /\ Init
  /\ IF part = "cut" THEN CutInit ELSE CutAtRest
  /\ IF part = "code" THEN CodeInit ELSE CodeAtRest
  /\ IF part = "lend" THEN LendInit ELSE LendAtRest

AllNext ==
  \/ part = "source" /\ Next /\ UNCHANGED <<part, cutVars, codeVars, lendVars>>
  \/ part = "cut" /\ CutNext /\ UNCHANGED <<part, vars, codeVars, lendVars>>
  \/ part = "code" /\ CodeNext /\ UNCHANGED <<part, vars, cutVars, lendVars>>
  \/ part = "lend" /\ LendNext /\ UNCHANGED <<part, vars, cutVars, codeVars>>

(* One thread runs a handler to its end.                                   *)
AllSpec == AllInit /\ [][AllNext]_allVars /\ WF_cutVars(CutNext)

=============================================================================
