----------------------------- MODULE Multipart -----------------------------
(***************************************************************************)
(* How a handler hands a cleartext to a library in parts: util.cpp cuts    *)
(* it, whole blocks at a time where the library wants that, at lengths     *)
(* the modifier chooses; Botan's digest handler may also be told between   *)
(* two parts to clear the hash and to start again.                         *)
(***************************************************************************)
EXTENDS Integers, Sequences

CONSTANTS
  MaxSize,      \* bound: bytes of a cleartext
  MaxModifier,  \* bound: values a modifier holds
  BlockSizes    \* of the libraries that take whole blocks

ASSUME MultipartAssumption ==
  MaxSize \in Nat /\ MaxModifier \in Nat /\ BlockSizes \subseteq Nat \ {0}

MaxClears == 3

VARIABLES
  cutting,    \* "start", "split", "cut", "feed" or "done"
  way,        \* how the handler cuts, and whether it asks for clears
  length,     \* of the cleartext
  modifier,   \* values left in the modifier
  remaining,  \* N of Split: what has not got a length yet
  lengths,    \* the lengths so far
  before,     \* history: what was given away before each of them
  curPos,     \* where the next part begins
  parts,      \* offset and length of each part
  fed,        \* parts the library got since the last clear
  absorbed,   \* the bytes it got since then, by their offsets
  numClears

splitVars == <<remaining, lengths, before>>
partsVars == <<curPos, parts>>
feedVars == <<fed, absorbed, numClears>>
cutVars == <<cutting, way, length, modifier, splitVars, partsVars, feedVars>>

(* block is 0 where any byte may end a part.                               *)
Ways ==
  {[cut |-> "whole", block |-> 0, clears |-> FALSE],
   [cut |-> "split", block |-> 0, clears |-> FALSE],
   [cut |-> "split", block |-> 0, clears |-> TRUE]} \cup
  [cut : {"split", "equal"}, block : BlockSizes, clears : {FALSE}]

CutInit ==
  /\ cutting = "start"
  /\ way \in Ways /\ length \in 0 .. MaxSize /\ modifier \in 0 .. MaxModifier
  /\ remaining = 0 /\ lengths = <<>> /\ before = <<>>
  /\ curPos = 0 /\ parts = <<>>
  /\ fed = 0 /\ absorbed = <<>> /\ numClears = 0

-----------------------------------------------------------------------------
(* A read takes a value, or throws for want of data; even then the header  *)
(* it began with is gone, if there was one.                                *)
Reads == modifier > 0 /\ modifier' = modifier - 1

Fails == modifier' = IF modifier > 0 THEN modifier - 1 ELSE 0

-----------------------------------------------------------------------------
(* Cutting.                                                                *)

Part(offset, n) == [offset |-> offset, n |-> n]

(* CipherInputTransform of an XTS or CCM cipher.                           *)
Whole ==
  /\ cutting = "start" /\ way.cut = "whole"
  /\ parts' = <<Part(0, length)>>
  /\ cutting' = "feed"
  /\ UNCHANGED <<way, length, modifier, splitVars, curPos, feedVars>>

ToEqualParts ==
  /\ cutting = "start" /\ way.cut = "equal"
  /\ LET numParts == length \div way.block
     IN  parts' = [i \in 1 .. numParts |-> Part((i - 1) * way.block, way.block)]
                    \o <<Part(numParts * way.block, length % way.block)>>
  /\ cutting' = "feed"
  /\ UNCHANGED <<way, length, modifier, splitVars, curPos, feedVars>>

(* Split hands out bytes, or whole blocks.                                 *)
Unit == IF way.block = 0 THEN 1 ELSE way.block
Units == length \div Unit

StartSplit ==
  /\ cutting = "start" /\ way.cut = "split"
  /\ remaining' = Units
  /\ cutting' = "split"
  /\ UNCHANGED <<way, length, modifier, lengths, before, partsVars, feedVars>>

Chosen(n) == 0 .. n - 1

SplitOff ==
  /\ cutting = "split" /\ remaining # 0
  /\ Reads
  /\ \E n \in Chosen(remaining) :
       /\ lengths' = Append(lengths, n)
       /\ remaining' = remaining - n
  /\ before' = Append(before, Units - remaining)
  /\ UNCHANGED <<cutting, way, length, partsVars, feedVars>>

\* fault: OutOfData is caught inside the loop
FaultSplitRest ==
  /\ cutting = "split"
  /\ IF remaining # 0 THEN Fails /\ UNCHANGED <<cutting, lengths, before>>
     ELSE /\ cutting' = "cut" /\ lengths' = Append(lengths, remaining)
          /\ before' = Append(before, Units - remaining) /\ UNCHANGED modifier
  /\ UNCHANGED <<way, length, remaining, partsVars, feedVars>>

SplitRest ==
  /\ cutting = "split"
  /\ IF remaining # 0 THEN Fails ELSE UNCHANGED modifier
  /\ lengths' = Append(lengths, remaining)
  /\ before' = Append(before, Units - remaining)
  /\ cutting' = "cut"
  /\ UNCHANGED <<way, length, remaining, partsVars, feedVars>>

(* The loop of ToParts ...                                                 *)
ToPart ==
  /\ cutting = "cut" /\ Len(parts) < Len(lengths)
  /\ LET n == Unit * lengths[Len(parts) + 1]
     IN  /\ parts' = Append(parts, Part(curPos, n))
         /\ curPos' = curPos + n
  /\ UNCHANGED <<cutting, way, length, modifier, splitVars, feedVars>>

FaultRest == <<>>   \* fault: bytes behind the last whole block are left

Rest == IF curPos < length THEN <<Part(curPos, length - curPos)>> ELSE <<>>

(* ... and what is left when it ends.                                      *)
ToRest ==
  /\ cutting = "cut" /\ Len(parts) = Len(lengths)
  /\ parts' = parts \o Rest
  /\ cutting' = "feed"
  /\ UNCHANGED <<way, length, modifier, splitVars, curPos, feedVars>>

-----------------------------------------------------------------------------
(* Feeding.                                                                *)

More == cutting = "feed" /\ fed < Len(parts)

Update(p) == absorbed \o [i \in 1 .. p.n |-> p.offset + i - 1]

AsksForClear == way.clears /\ numClears < MaxClears

Process ==
  /\ More
  /\ absorbed' = Update(parts[fed + 1])
  /\ fed' = fed + 1
  /\ IF AsksForClear THEN Reads \/ Fails ELSE UNCHANGED modifier
  /\ UNCHANGED <<cutting, way, length, splitVars, partsVars, numClears>>

FaultCleared == Update(parts[fed + 1])   \* fault: the loop starts again, the hash does not

Cleared == <<>>

Clear ==
  /\ More /\ AsksForClear
  /\ Reads
  /\ absorbed' = Cleared
  /\ fed' = 0
  /\ numClears' = numClears + 1
  /\ UNCHANGED <<cutting, way, length, splitVars, partsVars>>

Finalize ==
  /\ cutting = "feed" /\ fed = Len(parts)
  /\ cutting' = "done"
  /\ UNCHANGED <<way, length, modifier, splitVars, partsVars, feedVars>>

CutNext ==
  \/ Whole \/ ToEqualParts \/ StartSplit
  \/ SplitOff \/ SplitRest \/ ToPart \/ ToRest
  \/ Process \/ Clear \/ Finalize

(* One thread runs the handler to its end.                                 *)
CutSpec == CutInit /\ [][CutNext]_cutVars /\ WF_cutVars(CutNext)

-----------------------------------------------------------------------------
(* The parts lie in the cleartext, follow each other and cover it, however *)
(* the modifier cuts it and wherever it ends; and a library that takes     *)
(* whole blocks is never given anything behind a part of a block (Split,   *)
(* ToParts and ToEqualParts of util.cpp, Nettle's block ciphers).          *)
PartsCover ==
  cutting \in {"feed", "done"} =>
    /\ parts # <<>> /\ parts[1].offset = 0
    /\ \A i \in DOMAIN parts :
         parts[i].offset + parts[i].n =
           IF i = Len(parts) THEN length ELSE parts[i + 1].offset
    /\ way.block # 0 =>
         \A i, j \in DOMAIN parts :
           i < j /\ parts[j].n > 0 => parts[i].n % way.block = 0

(* What is digested is the cleartext, once and in order, whenever and      *)
(* however often the hash was cleared on the way (Botan::OpDigest).        *)
DigestOfCleartext == cutting = "done" => absorbed = [i \in 1 .. length |-> i - 1]

(* Every modifier is used up: cutting parts of length zero and starting    *)
(* again come to an end (Split of util.cpp, Botan::OpDigest).              *)
Terminates == <>(cutting = "done")

-----------------------------------------------------------------------------
(* The inductive invariant behind the first two.                           *)

CutTypeOK ==
  /\ cutting \in {"start", "split", "cut", "feed", "done"}
  /\ way \in Ways /\ length \in Nat /\ modifier \in Nat
  /\ remaining \in Nat /\ lengths \in Seq(Nat) /\ before \in Seq(Nat)
  /\ curPos \in Nat /\ parts \in Seq([offset : Nat, n : Nat])
  /\ fed \in 0 .. Len(parts) /\ absorbed \in Seq(Nat) /\ numClears \in Nat

(* Before anything is fed.                                                 *)
Unfed ==
  cutting \in {"start", "split", "cut"} =>
    /\ fed = 0 /\ absorbed = <<>>
    /\ cutting # "cut" => parts = <<>> /\ curPos = 0
    /\ cutting = "start" => lengths = <<>> /\ before = <<>>
    /\ cutting # "start" => way.cut = "split"

(* What has got a length: all of it, once Split has returned.              *)
Given == IF cutting = "split" THEN Units - remaining ELSE Units

(* The lengths follow each other, without a gap, up to what is given.      *)
LengthsFollow ==
  cutting \in {"split", "cut"} =>
    /\ remaining <= Units
    /\ Len(before) = Len(lengths)
    /\ lengths = <<>> => cutting = "split" /\ remaining = Units
    /\ lengths # <<>> => before[1] = 0
    /\ \A i \in DOMAIN lengths :
         before[i] + lengths[i] = IF i = Len(lengths) THEN Given ELSE before[i + 1]

(* Each part has its length, where that of the one before it ends.         *)
PartsFollow ==
  cutting = "cut" =>
    /\ Len(parts) <= Len(lengths)
    /\ \A i \in DOMAIN parts : parts[i] = Part(Unit * before[i], Unit * lengths[i])
    /\ curPos = Unit * (IF Len(parts) = Len(lengths) THEN Units ELSE before[Len(parts) + 1])

(* The library has the cleartext up to the part it gets next.              *)
FedUpTo == IF fed = Len(parts) THEN length ELSE parts[fed + 1].offset

AbsorbedInOrder ==
  /\ cutting \in {"feed", "done"} => absorbed = [i \in 1 .. FedUpTo |-> i - 1]
  /\ cutting = "done" => fed = Len(parts)

CutInv ==
  CutTypeOK /\ Unfed /\ LengthsFollow /\ PartsFollow /\ PartsCover /\ AbsorbedInOrder

=============================================================================
