-------------------------- MODULE UtilitiesProofs --------------------------
(***************************************************************************)
(* Safety of what the modules share: the data source lent to the           *)
(* allocator, for every order of handler calls; the cutting of cleartexts, *)
(* for every length, block size and modifier; encodings and paddings, for  *)
(* every base, text, number and size; and the data source itself, for any  *)
(* input and any bounds callers ask for: reads stay inside the input, have *)
(* the size asked for and make progress, and what was written is read      *)
(* back.                                                                   *)
(***************************************************************************)
EXTENDS GlobalDs, Multipart, Encodings, Datasource, FieldFormatProofs,
        SequenceTheorems, WellFoundedInduction, TLAPS

-----------------------------------------------------------------------------
(* The handlers.  All that the proofs need of the table: whoever publishes *)
(* in util's pointer takes it back, lets no OutOfData through, and only    *)
(* Botan's derivations allocate before they publish.                       *)
Disciplined(c) ==
  LET h == Handlers[c]
  IN  /\ h.owner \in Owners \cup {"none"}
      /\ h.owner = "util" => h.unsets
      /\ h.owner = "util" /\ "outOfData" \in h.throws => "outOfData" \in h.catches
      /\ h.owner = "util" /\ c # "BotanDerivation" => h.mallocs \notin {"beforeSet", "afterSet"}
      /\ c = "BotanDerivation" => h.mallocs = "beforeSet"

LEMMA HandlersDisciplined == ASSUME NEW c \in Callers PROVE Disciplined(c)
<1> USE DEF Disciplined, Handlers, Handler, Owners, Exceptions
<1>1. c \in {"BotanDigest", "BotanMAC", "BotanCMAC", "BotanCrypt", "BotanDerivation", "BotanSign",
             "BotanVerify", "Secp256k1", "MbedTLS", "MbedTLSPBKDF", "TFPSACrypto", "Hooked"}
  BY DEF Callers
<1>2. CASE c \in {"BotanDigest", "BotanMAC", "BotanCMAC", "BotanCrypt"}
  BY <1>2 DEF BotanDigest, BotanMAC, BotanCMAC, BotanCrypt
<1>3. CASE c \in {"BotanDerivation", "BotanSign", "BotanVerify", "Secp256k1"}
  BY <1>3 DEF BotanDerivation, BotanSign, BotanVerify, Secp256k1
<1>4. CASE c \in {"MbedTLS", "MbedTLSPBKDF", "TFPSACrypto", "Hooked"}
  BY <1>4 DEF MbedTLS, MbedTLSPBKDF, TFPSACrypto, Hooked
<1> QED BY <1>1, <1>2, <1>3, <1>4

-----------------------------------------------------------------------------
(* The allocator.                                                          *)

(* As long as nothing is published in util's pointer, util::malloc returns *)
(* what ::malloc did or one fixed address, and util::free knows it again.  *)
LEMMA AllocatorUnpublished ==
  ASSUME pointer["util"] = "null", haveBadPointer \in BOOLEAN
  PROVE  /\ AnySize = {"heap", Unpublished}
         /\ \A empty \in BOOLEAN : Malloc(empty) \subseteq {"heap", Unpublished}
         /\ StaleRead("util") = {}
         /\ \A block \in {"heap", Unpublished} : Free(block) => misused' = misused
<1>1. GetNullPtr = {Unpublished}
  BY DEF GetNullPtr, Unpublished
<1>2. StaleRead("util") = {}
  BY DEF StaleRead
<1>3. \A empty \in BOOLEAN : Malloc(empty) = IF empty THEN {Unpublished} ELSE {"heap"}
  BY <1>1 DEF Malloc
<1>4. AnySize = {"heap", Unpublished}
  BY <1>3 DEF AnySize
<1>5. ASSUME NEW block \in {"heap", Unpublished}, Free(block) PROVE misused' = misused
  <2>1. PICK recognised \in IsNullPtr(block) :
          misused' = misused \cup Misuse(block, recognised) \cup StaleRead("util")
    BY <1>5 DEF Free
  <2>2. recognised = (block \in {Unpublished})
    BY <1>1, <2>1 DEF IsNullPtr
  <2>3. Misuse(block, recognised) = {}
    BY <2>2 DEF Misuse
  <2> QED BY <1>2, <2>1, <2>3
<1> QED BY <1>2, <1>3, <1>4, <1>5

(* Whatever is published, freeing what ::malloc returned is no misuse, and *)
(* freeing adds nothing but a foreign block.                               *)
LEMMA FreeWhilePublished ==
  ASSUME pointer["util"] # "stale", NEW block, Free(block)
  PROVE  /\ misused' \subseteq misused \cup {"foreignFree"}
         /\ misused \subseteq misused'
         /\ block \in {"heap", "null"} => misused' = misused
<1>1. StaleRead("util") = {}
  BY DEF StaleRead
<1>2. PICK recognised \in IsNullPtr(block) :
        misused' = misused \cup Misuse(block, recognised)
  BY <1>1 DEF Free
<1> QED BY <1>2 DEF Misuse

-----------------------------------------------------------------------------
(* The inductive invariant.                                                *)

LEMMA LendInitInv == LendInit => LendInv
<1> SUFFICES ASSUME LendInit PROVE LendInv
  OBVIOUS
<1> USE DEF LendInit
<1>1. LendTypeOK
  BY DEF LendTypeOK, Owners
<1>2. PointersPublished
  BY DEF PointersPublished, Owners
<1>3. BlocksOwned
  BY DEF BlocksOwned
<1>4. NeverAsserts /\ NoStaleRead
  BY DEF NeverAsserts, NoStaleRead
<1> QED BY <1>1, <1>2, <1>3, <1>4 DEF LendInv

LEMMA CallInv == ASSUME LendInv, NEW c \in Callers, Call(c) PROVE LendInv' /\ misused' = misused
<1> USE DEF LendInv, Call
<1>1. pointer["util"] = "null" /\ haveBadPointer \in BOOLEAN
  BY DEF PointersPublished, LendTypeOK
<1>2. AnySize = {"heap", Unpublished} /\ StaleRead("util") = {}
  BY <1>1, AllocatorUnpublished
<1>3. misused' = misused
  BY <1>2
<1>4. buffer' \in {"none", "heap", Unpublished}
  BY <1>2 DEF BlocksOwned
<1>5. handler' = Handlers[c]
  BY DEF handler
<1>6. LendTypeOK'
  BY <1>3, <1>4 DEF LendTypeOK, Blocks, Unpublished
<1>7. PointersPublished'
  BY <1>1, <1>5 DEF PointersPublished
<1>8. BlocksOwned'
  BY <1>4, <1>5 DEF BlocksOwned, Unpublished
<1> QED BY <1>3, <1>6, <1>7, <1>8 DEF NeverAsserts, NoStaleRead

(* A handler that returns with util's pointer taken back.                  *)
LEMMA LeaveInv ==
  ASSUME LendInv, NEW pointers \in [Owners -> {"null", "live", "stale"}],
         pointers["util"] = "null", Leave(pointers),
         misused' \subseteq misused \cup {"foreignFree"},
         UNCHANGED <<haveBadPointer, caller, kept>>
  PROVE  LendInv'
<1> USE DEF LendInv, Leave
<1>1. /\ pointer' \in [Owners -> {"null", "live", "stale"}] /\ pointer'["util"] = "null"
      /\ lending' = "idle" /\ buffer' = "none"
  BY DEF Owners
<1>2. LendTypeOK'
  BY <1>1 DEF LendTypeOK
<1>3. PointersPublished'
  BY <1>1 DEF PointersPublished
<1>4. BlocksOwned'
  BY <1>1 DEF BlocksOwned, Unpublished
<1> QED BY <1>1, <1>2, <1>3, <1>4 DEF NeverAsserts, NoStaleRead

LEMMA ReturnEarlyInv == LendInv /\ ReturnEarly => LendInv' /\ misused' = misused
<1> SUFFICES ASSUME LendInv, ReturnEarly PROVE LendInv' /\ misused' = misused
  OBVIOUS
<1>1. pointer \in [Owners -> {"null", "live", "stale"}] /\ pointer["util"] = "null"
  BY DEF LendInv, LendTypeOK, PointersPublished, ReturnEarly
<1> QED BY <1>1, LeaveInv DEF ReturnEarly

LEMMA SetGlobalDsInv == LendInv /\ SetGlobalDs => LendInv' /\ misused' = misused
<1> SUFFICES ASSUME LendInv, SetGlobalDs PROVE LendInv' /\ misused' = misused
  OBVIOUS
<1> USE DEF LendInv, SetGlobalDs
<1>1. /\ pointer["util"] = "null" /\ haveBadPointer \in BOOLEAN
      /\ pointer \in [Owners -> {"null", "live", "stale"}]
      /\ handler' = handler
  BY DEF PointersPublished, LendTypeOK, handler
<1>2. handler.owner \in Owners
  BY HandlersDisciplined DEF Disciplined, handler, LendTypeOK, PointersPublished
<1>3. AnySize = {"heap", Unpublished}
  BY <1>1, AllocatorUnpublished
<1>4. /\ lending' = "body" /\ pointer' = [pointer EXCEPT ![handler.owner] = "live"]
      /\ IF handler.mallocs = "afterSet" THEN buffer' \in AnySize ELSE UNCHANGED buffer
  BY <1>1 DEF Published
<1>5. LendTypeOK'
  BY <1>1, <1>2, <1>3, <1>4 DEF LendTypeOK, Blocks, Unpublished
<1>6. PointersPublished'
  BY <1>1, <1>2, <1>4 DEF PointersPublished, Owners
<1>7. BlocksOwned'
  BY <1>1, <1>3, <1>4 DEF BlocksOwned, Unpublished
<1> QED BY <1>4, <1>5, <1>6, <1>7 DEF NeverAsserts, NoStaleRead

(* Steps within a handler's body that leave the pointers alone.            *)
LEMMA WithinInv ==
  ASSUME LendInv, UNCHANGED <<pointer, haveBadPointer, caller, buffer>>,
         lending = "body", lending' \in {"body", "end", "terminated"}, misused' = misused,
         kept' \in {"none", "heap", Unpublished}
  PROVE  LendInv'
<1> USE DEF LendInv
<1>1. handler' = handler /\ Unpublished' = Unpublished
  BY DEF handler, Unpublished
<1>2. LendTypeOK'
  BY DEF LendTypeOK, Blocks, Unpublished
<1>3. PointersPublished'
  BY <1>1 DEF PointersPublished
<1>4. BlocksOwned'
  BY <1>1 DEF BlocksOwned
<1>5. NeverAsserts'
  BY DEF NeverAsserts
<1>6. NoStaleRead'
  BY DEF NoStaleRead, Unpublished
<1> QED BY <1>2, <1>3, <1>4, <1>5, <1>6

LEMMA SerializeInv == LendInv /\ Serialize => LendInv' /\ misused' = misused
<1> SUFFICES ASSUME LendInv, Serialize PROVE LendInv' /\ misused' = misused
  OBVIOUS
<1>1. pointer["util"] # "stale" /\ StaleRead("util") = {}
  BY DEF LendInv, PointersPublished, StaleRead
<1>2. PICK empty \in BOOLEAN : \E block \in Malloc(empty) :
        IF Freed(empty) THEN Free(block) ELSE misused' = misused \cup StaleRead("util")
  BY DEF Serialize
<1>3. PICK block \in Malloc(empty) :
        IF Freed(empty) THEN Free(block) ELSE misused' = misused \cup StaleRead("util")
  BY <1>2
<1>4. misused' = misused
  <2>1. CASE empty
    BY <1>1, <1>3, <2>1 DEF Freed
  <2>2. CASE ~empty
    <3>1. block = "heap" /\ Free(block)
      BY <1>3, <2>2 DEF Malloc, Freed
    <3> QED BY <1>1, <3>1, FreeWhilePublished
  <2> QED BY <2>1, <2>2
<1> QED BY <1>4, WithinInv DEF LendInv, BlocksOwned, Serialize

(* Libraries allocate while util's pointer is null: those that publish use *)
(* pointers of their own.                                                  *)
LEMMA AllocatesUnpublished ==
  ASSUME LendInv, Allocates
  PROVE  /\ pointer["util"] = "null" /\ haveBadPointer \in BOOLEAN
         /\ StaleRead(handler.owner) = {}
BY DEF LendInv, LendTypeOK, PointersPublished, Allocates, StaleRead

LEMMA LibraryInv ==
  LendInv /\ (LibraryMalloc \/ LibraryFree \/ LibraryRealloc) => LendInv' /\ misused' = misused
<1> SUFFICES ASSUME LendInv, LibraryMalloc \/ LibraryFree \/ LibraryRealloc
             PROVE  LendInv' /\ misused' = misused
  OBVIOUS
<1>1. Allocates /\ lending = "body"
  BY DEF LibraryMalloc, LibraryFree, LibraryRealloc, Allocates
<1>2. /\ AnySize = {"heap", Unpublished} /\ StaleRead("util") = {}
      /\ StaleRead(handler.owner) = {}
      /\ \A empty \in BOOLEAN : Malloc(empty) \subseteq {"heap", Unpublished}
      /\ \A block \in {"heap", Unpublished} : Free(block) => misused' = misused
  BY <1>1, AllocatesUnpublished, AllocatorUnpublished
<1>3. kept # "none" => kept \in {"heap", Unpublished}
  BY DEF LendInv, BlocksOwned
<1>4. misused' = misused /\ kept' \in {"none", "heap", Unpublished}
  BY <1>2, <1>3 DEF LibraryMalloc, LibraryFree, LibraryRealloc
<1> QED BY <1>1, <1>4, WithinInv DEF LibraryMalloc, LibraryFree, LibraryRealloc

LEMMA RNGInv == LendInv /\ RNG => LendInv' /\ misused' = misused
<1> SUFFICES ASSUME LendInv, RNG PROVE LendInv' /\ misused' = misused
  OBVIOUS
<1>1. pointer["mbedtls"] = "live"
  BY DEF RNG, LendInv, PointersPublished
<1>2. misused' = misused /\ lending' = "body"
  BY <1>1 DEF RNG, StaleRead
<1> QED BY <1>2, WithinInv DEF RNG, LendInv, BlocksOwned

LEMMA ThrowInv ==
  ASSUME LendInv, NEW exception \in Exceptions, Throw(exception)
  PROVE  LendInv' /\ misused' = misused
<1>1. misused' = misused /\ kept' \in {"none", "heap", Unpublished}
  BY DEF Throw, LendInv, BlocksOwned
<1>2. CASE exception \in handler.catches
  BY <1>1, <1>2, WithinInv DEF Throw
<1>3. CASE exception \notin handler.catches /\ exception = "outOfData"
  <2>1. handler.owner # "util"
    BY <1>3, HandlersDisciplined DEF Disciplined, Throw, LendInv, LendTypeOK, handler
  <2>2. pointer \in [Owners -> {"null", "live", "stale"}] /\ pointer["util"] = "null"
    BY <2>1 DEF LendInv, LendTypeOK, PointersPublished, Throw
  <2>3. Leave(pointer)
    BY <1>3 DEF Throw
  <2> QED BY <1>1, <2>2, <2>3, LeaveInv DEF Throw
<1>4. CASE exception \notin handler.catches /\ exception # "outOfData"
  BY <1>1, <1>4, WithinInv DEF Throw
<1> QED BY <1>2, <1>3, <1>4

LEMMA FinishInv == LendInv /\ Finish => LendInv' /\ misused' = misused
BY WithinInv DEF Finish, LendInv, BlocksOwned

(* What `end:' frees: only Botan's derivations free while their own source *)
(* is published, and then another read of it may not give the address      *)
(* malloc(0) gave before.                                                  *)
LEMMA ReturnFrees ==
  ASSUME LendInv, Return
  PROVE  /\ misused' \subseteq misused \cup {"foreignFree"}
         /\ misused' = misused \/ (haveBadPointer /\ caller = "BotanDerivation")
<1>1. pointer["util"] # "stale" /\ haveBadPointer \in BOOLEAN /\ caller \in Callers
  BY DEF LendInv, LendTypeOK, PointersPublished
<1>2. CASE buffer = "none"
  BY <1>2 DEF Return
<1>3. CASE buffer # "none" /\ caller = "BotanDerivation"
  <2>1. Free(buffer) /\ buffer \in {"heap", Unpublished}
    BY <1>3 DEF Return, LendInv, BlocksOwned
  <2>2. ~haveBadPointer => buffer \in {"heap", "null"}
    BY <2>1 DEF Unpublished
  <2> QED BY <1>1, <1>3, <2>1, <2>2, FreeWhilePublished
<1>4. CASE buffer # "none" /\ caller # "BotanDerivation"
  <2>1. Free(buffer) /\ buffer \in {"heap", Unpublished} /\ handler.mallocs \in {"beforeSet", "afterSet"}
    BY <1>4 DEF Return, LendInv, BlocksOwned
  <2>2. handler.owner # "util"
    BY <1>1, <1>4, <2>1, HandlersDisciplined DEF Disciplined, handler
  <2>3. pointer["util"] = "null"
    BY <2>2 DEF Return, LendInv, PointersPublished
  <2> QED BY <1>1, <2>1, <2>3, AllocatorUnpublished
<1> QED BY <1>2, <1>3, <1>4

LEMMA ReturnInv == LendInv /\ Return => LendInv'
<1> SUFFICES ASSUME LendInv, Return PROVE LendInv'
  OBVIOUS
<1>1. /\ pointer \in [Owners -> {"null", "live", "stale"}] /\ caller \in Callers
      /\ pointer["util"] = IF handler.owner = "util" THEN "live" ELSE "null"
  BY DEF Return, LendInv, LendTypeOK, PointersPublished
<1>2. misused' \subseteq misused \cup {"foreignFree"}
  BY ReturnFrees
<1>3. PICK pointers \in {pointer, [pointer EXCEPT ![handler.owner] = "null"]} :
        pointers["util"] = "null" /\ Leave(pointers)
  <2>1. CASE ~handler.unsets
    <3>1. handler.owner # "util"
      BY <1>1, <2>1, HandlersDisciplined DEF Disciplined, handler
    <3> QED BY <1>1, <2>1, <3>1 DEF Return
  <2>2. CASE handler.unsets
    <3>1. Leave([pointer EXCEPT ![handler.owner] = "null"])
      BY <1>1, <2>2 DEF Return
    <3>2. [pointer EXCEPT ![handler.owner] = "null"]["util"] = "null"
      BY <1>1 DEF Owners
    <3> QED BY <3>1, <3>2
  <2> QED BY <2>1, <2>2
<1>4. pointers \in [Owners -> {"null", "live", "stale"}]
  BY <1>1, <1>3
<1> QED BY <1>2, <1>3, <1>4, LeaveInv DEF Return

LEMMA LendNextInv ==
  ASSUME LendInv, [LendNext]_lendVars
  PROVE  /\ LendInv'
         /\ misused' = misused \/ (haveBadPointer /\ caller = "BotanDerivation")
<1>1. CASE \E c \in Callers : Call(c)
  BY <1>1, CallInv
<1>2. CASE ReturnEarly \/ SetGlobalDs
  BY <1>2, ReturnEarlyInv, SetGlobalDsInv
<1>3. CASE Serialize \/ RNG
  BY <1>3, SerializeInv, RNGInv
<1>4. CASE LibraryMalloc \/ LibraryFree \/ LibraryRealloc
  BY <1>4, LibraryInv
<1>5. CASE \E exception \in Exceptions : Throw(exception)
  BY <1>5, ThrowInv
<1>6. CASE Finish
  BY <1>6, FinishInv
<1>7. CASE Return
  BY <1>7, ReturnInv, ReturnFrees
<1>8. CASE UNCHANGED lendVars
  BY <1>8 DEF lendVars, LendInv, LendTypeOK, PointersPublished, BlocksOwned, NeverAsserts,
              NoStaleRead, handler, Unpublished
<1> QED BY <1>1, <1>2, <1>3, <1>4, <1>5, <1>6, <1>7, <1>8 DEF LendNext

(* Whoever publishes a data source takes it back, and blocks are of        *)
(* ::malloc or made while nothing was published (util's malloc and free).  *)
THEOREM LendInvariant == LendSpec => []LendInv
<1>1. LendInit => LendInv
  BY LendInitInv
<1>2. LendInv /\ [LendNext]_lendVars => LendInv'
  BY LendNextInv
<1> QED BY <1>1, <1>2, PTL DEF LendSpec

(* No assertion about a lent data source fails, in any sequence of handler *)
(* calls: the handlers take back what they publish on every way out.       *)
THEOREM AssertionsHold == LendSpec => []NeverAsserts
<1>1. LendInv => NeverAsserts
  BY DEF LendInv
<1> QED BY <1>1, LendInvariant, PTL

(* Nothing reads through a pointer to a data source that is gone, and no   *)
(* library keeps a block at an address the input chose.                    *)
THEOREM ReadsLiveSources == LendSpec => []NoStaleRead
<1>1. LendInv => NoStaleRead
  BY DEF LendInv
<1> QED BY <1>1, LendInvariant, PTL

(* Only what ::malloc returned is freed, but for the one exception.        *)
THEOREM FreesWhatMallocReturned == LendSpec => FreesOwnBlocks
<1>1. LendInv /\ [LendNext]_lendVars =>
        [ "foreignFree" \in misused' \ misused =>
            haveBadPointer /\ caller = "BotanDerivation" ]_lendVars
  BY LendNextInv
<1> QED BY <1>1, LendInvariant, PTL DEF LendSpec, FreesOwnBlocks

-----------------------------------------------------------------------------
(* Cutting.  Facts about products and remainders.                          *)

LEMMA Distributes ==
  ASSUME NEW u \in Nat, NEW a \in Nat, NEW b \in Nat
  PROVE  u * a \in Nat /\ (u * a) + (u * b) = u * (a + b)
OBVIOUS

LEMMA NoRemainder == ASSUME NEW u \in Nat \ {0}, NEW a \in Nat PROVE (u * a) % u = 0
OBVIOUS

LEMMA Quotients ==
  ASSUME NEW u \in Nat \ {0}, NEW a \in Nat
  PROVE  /\ a \div u \in Nat /\ a % u \in Nat /\ (a % u) < u
         /\ a = (u * (a \div u)) + (a % u)
OBVIOUS

(* A handler hands out blocks of a size that is not zero, or bytes.        *)
LEMMA WaysUnit ==
  ASSUME way \in Ways, length \in Nat
  PROVE  /\ way.block \in Nat /\ Unit \in Nat \ {0} /\ Units \in Nat
         /\ Unit * Units \in Nat /\ Unit * Units <= length
         /\ way.block # 0 => Unit = way.block
         /\ way.cut = "whole" => way.block = 0
         /\ way.cut = "equal" => way.block # 0
<1>1. /\ way.block \in Nat
      /\ way.cut = "whole" => way.block = 0
      /\ way.cut = "equal" => way.block # 0
  <2>1. CASE way \in [cut : {"split", "equal"}, block : BlockSizes, clears : {FALSE}]
    <3>1. way.block \in BlockSizes /\ way.cut # "whole"
      BY <2>1
    <3> QED BY <3>1, MultipartAssumption
  <2>2. CASE way \notin [cut : {"split", "equal"}, block : BlockSizes, clears : {FALSE}]
    <3>1. \/ way = [cut |-> "whole", block |-> 0, clears |-> FALSE]
          \/ way = [cut |-> "split", block |-> 0, clears |-> FALSE]
          \/ way = [cut |-> "split", block |-> 0, clears |-> TRUE]
      BY <2>2, Zenon DEF Ways
    <3>2. way.block = 0 /\ (way.cut = "whole" \/ way.cut = "split")
      BY <3>1
    <3> QED BY <3>2
  <2> QED BY <2>1, <2>2
<1>2. Unit \in Nat \ {0} /\ (way.block # 0 => Unit = way.block)
  BY <1>1 DEF Unit
<1>3. /\ length \div Unit \in Nat /\ length % Unit \in Nat
      /\ length = (Unit * (length \div Unit)) + (length % Unit)
  BY <1>2, Quotients
<1>4. Units \in Nat /\ length = (Unit * Units) + (length % Unit)
  BY <1>3 DEF Units
<1>5. Unit * Units \in Nat
  BY <1>2, <1>4, Distributes
<1> QED BY <1>1, <1>2, <1>3, <1>4, <1>5

-----------------------------------------------------------------------------
LEMMA CutInitInv == CutInit => CutInv
<1> SUFFICES ASSUME CutInit PROVE CutInv
  OBVIOUS
<1> USE DEF CutInit
<1>1. CutTypeOK
  BY MultipartAssumption DEF CutTypeOK
<1>2. Unfed /\ LengthsFollow /\ PartsFollow /\ PartsCover /\ AbsorbedInOrder
  BY DEF Unfed, LengthsFollow, PartsFollow, PartsCover, AbsorbedInOrder
<1> QED BY <1>1, <1>2 DEF CutInv

(* Once the cleartext is cut, feeding starts at its first byte.            *)
LEMMA FeedingStarts ==
  ASSUME CutInv, PartsCover', cutting \in {"start", "cut"}, cutting' = "feed",
         parts' \in Seq([offset : Nat, n : Nat]), curPos' \in Nat,
         UNCHANGED <<way, length, modifier, splitVars, feedVars>>
  PROVE  CutInv'
<1> USE DEF CutInv, splitVars, feedVars
<1>1. fed' = 0 /\ absorbed' = <<>>
  BY DEF Unfed
<1>2. CutTypeOK'
  BY <1>1 DEF CutTypeOK
<1>3. parts' # <<>> /\ parts'[1].offset = 0
  BY DEF PartsCover
<1>4. AbsorbedInOrder'
  <2>1. FedUpTo' = 0
    BY <1>1, <1>3 DEF FedUpTo
  <2>2. absorbed' = [i \in 1 .. 0 |-> i - 1]
    BY <1>1
  <2> QED BY <2>1, <2>2 DEF AbsorbedInOrder
<1>5. Unfed' /\ LengthsFollow' /\ PartsFollow'
  BY DEF Unfed, LengthsFollow, PartsFollow
<1> QED BY <1>2, <1>4, <1>5

LEMMA WholeInv == CutInv /\ Whole => CutInv'
<1> SUFFICES ASSUME CutInv, Whole PROVE CutInv'
  OBVIOUS
<1> USE DEF Whole, Part
<1>1. way \in Ways /\ length \in Nat /\ curPos \in Nat
  BY DEF CutInv, CutTypeOK
<1>2. way.block = 0
  BY <1>1, WaysUnit
<1>3. /\ parts' \in Seq([offset : Nat, n : Nat]) /\ Len(parts') = 1
      /\ parts'[1] = [offset |-> 0, n |-> length]
  BY <1>1
<1>4. PartsCover'
  BY <1>1, <1>2, <1>3 DEF PartsCover
<1> QED BY <1>1, <1>3, <1>4, FeedingStarts

(* A part behind others.                                                  *)
LEMMA PartBehind ==
  ASSUME NEW S, NEW s \in Seq(S), NEW p \in S
  PROVE  /\ s \o <<p>> \in Seq(S) /\ Len(s \o <<p>>) = Len(s) + 1
         /\ \A i \in 1 .. Len(s) : (s \o <<p>>)[i] = s[i]
         /\ (s \o <<p>>)[Len(s) + 1] = p
OBVIOUS

LEMMA ToEqualPartsInv == CutInv /\ ToEqualParts => CutInv'
<1> SUFFICES ASSUME CutInv, ToEqualParts PROVE CutInv'
  OBVIOUS
<1> DEFINE b == way.block
           k == length \div b
           whole == [i \in 1 .. k |-> Part((i - 1) * b, b)]
           last == Part(k * b, length % b)
<1>1. way \in Ways /\ length \in Nat /\ curPos \in Nat
  BY DEF CutInv, CutTypeOK
<1>2. b \in Nat \ {0}
  BY <1>1, WaysUnit DEF ToEqualParts
<1>3. k \in Nat /\ length % b \in Nat /\ length = (b * k) + (length % b)
  BY <1>1, <1>2, Quotients
<1>4. parts' = whole \o <<last>> /\ way' = way /\ length' = length
  BY DEF ToEqualParts
<1> HIDE DEF b, k
<1>5. \A i \in 1 .. k : (i - 1) * b \in Nat /\ (i - 1) * b + b = ((i + 1) - 1) * b
  <2>1. ASSUME NEW i \in 1 .. k PROVE (i - 1) * b \in Nat /\ (i - 1) * b + b = ((i + 1) - 1) * b
    <3>1. i - 1 \in Nat /\ (i + 1) - 1 = i
      BY <1>3, <2>1
    <3>2. (b * (i - 1)) \in Nat /\ (b * (i - 1)) + (b * 1) = b * ((i - 1) + 1)
      BY <1>2, <3>1, Distributes
    <3> QED BY <1>2, <3>1, <3>2
  <2> QED BY <2>1
<1>6. k * b \in Nat /\ k * b = b * k /\ k * b + (length % b) = length
  BY <1>2, <1>3, Distributes
<1>7. /\ whole \in Seq([offset : Nat, n : Nat]) /\ Len(whole) = k
      /\ \A i \in 1 .. k : whole[i] = Part((i - 1) * b, b)
  BY <1>2, <1>3, <1>5 DEF Part
<1>8. last \in [offset : Nat, n : Nat]
  BY <1>3, <1>6 DEF Part
<1> HIDE DEF whole, last
<1>9. /\ parts' \in Seq([offset : Nat, n : Nat]) /\ Len(parts') = k + 1
      /\ \A i \in 1 .. k : parts'[i] = whole[i]
      /\ parts'[k + 1] = last
  <2>1. /\ whole \o <<last>> \in Seq([offset : Nat, n : Nat])
        /\ Len(whole \o <<last>>) = Len(whole) + 1
        /\ \A i \in 1 .. Len(whole) : (whole \o <<last>>)[i] = whole[i]
        /\ (whole \o <<last>>)[Len(whole) + 1] = last
    <3>1. whole \in Seq([offset : Nat, n : Nat]) /\ last \in [offset : Nat, n : Nat]
      BY <1>7, <1>8
    <3> QED BY ONLY <3>1, PartBehind
  <2> QED BY <1>4, <1>7, <2>1, ZenonT(30)
<1>10. /\ \A i \in 1 .. k : parts'[i].offset = (i - 1) * b /\ parts'[i].n = b
       /\ parts'[k + 1].offset = k * b /\ parts'[k + 1].n = length % b
  <2>1. ASSUME NEW i \in 1 .. k PROVE parts'[i].offset = (i - 1) * b /\ parts'[i].n = b
    <3>1. parts'[i] = Part((i - 1) * b, b)
      BY ONLY <1>7, <1>9, i \in 1 .. k, Zenon
    <3> QED BY ONLY <3>1 DEF Part
  <2>2. last.offset = k * b /\ last.n = length % b
    BY DEF Part, last
  <2> QED BY ONLY <1>9, <2>1, <2>2
<1>11. DOMAIN parts' = 1 .. k + 1 /\ parts' # <<>>
  BY <1>3, <1>9
<1>12. parts'[1].offset = 0
  <2>1. CASE k = 0
    BY <1>2, <1>10, <2>1
  <2>2. CASE k # 0
    BY <1>2, <1>3, <1>10, <2>2
  <2> QED BY <2>1, <2>2
<1>13. ASSUME NEW i \in DOMAIN parts'
       PROVE  parts'[i].offset + parts'[i].n =
                IF i = Len(parts') THEN length ELSE parts'[i + 1].offset
  <2>1. CASE i = k + 1
    BY <1>6, <1>9, <1>10, <2>1
  <2>2. CASE i # k + 1
    <3>1. i \in 1 .. k /\ i # Len(parts')
      BY <1>3, <1>9, <1>11, <1>13, <2>2
    <3>2. parts'[i].offset + parts'[i].n = ((i + 1) - 1) * b
      BY <1>5, <1>10, <3>1
    <3>3. parts'[i + 1].offset = ((i + 1) - 1) * b
      <4>1. CASE i = k
        BY <1>3, <1>10, <4>1
      <4>2. CASE i # k
        <5>1. i + 1 \in 1 .. k
          BY <1>3, <3>1, <4>2
        <5> QED BY <1>10, <5>1
      <4> QED BY <4>1, <4>2
    <3> QED BY <3>1, <3>2, <3>3
  <2> QED BY <2>1, <2>2
<1>14. ASSUME NEW i \in DOMAIN parts', NEW j \in DOMAIN parts', i < j PROVE parts'[i].n % b = 0
  <2>1. i \in 1 .. k
    BY <1>3, <1>11, <1>14
  <2> QED BY <1>2, <1>10, <2>1, NoRemainder
<1>15. PartsCover'
  BY <1>4, <1>11, <1>12, <1>13, <1>14 DEF PartsCover, b
<1> QED BY <1>1, <1>9, <1>15, FeedingStarts DEF ToEqualParts

LEMMA StartSplitInv == CutInv /\ StartSplit => CutInv'
<1> SUFFICES ASSUME CutInv, StartSplit PROVE CutInv'
  OBVIOUS
<1> USE DEF CutInv, StartSplit, partsVars, feedVars
<1>1. Units' = Units /\ Units \in Nat
  BY WaysUnit DEF Units, Unit, CutTypeOK
<1>2. CutTypeOK'
  BY <1>1 DEF CutTypeOK
<1>3. Unfed'
  BY DEF Unfed
<1>4. LengthsFollow'
  BY <1>1 DEF LengthsFollow, Unfed, CutTypeOK
<1>5. PartsFollow' /\ PartsCover' /\ AbsorbedInOrder'
  BY DEF PartsFollow, PartsCover, AbsorbedInOrder
<1> QED BY <1>2, <1>3, <1>4, <1>5

(* One more length behind the others.                                      *)
LEMMA LengthAppended ==
  ASSUME CutInv, cutting = "split", cutting' \in {"split", "cut"},
         NEW n \in 0 .. remaining,
         lengths' = Append(lengths, n), before' = Append(before, Units - remaining),
         remaining' \in 0 .. remaining, Given' = (Units - remaining) + n,
         modifier' \in Nat, UNCHANGED <<way, length, partsVars, feedVars>>
  PROVE  CutInv'
<1> USE DEF CutInv, partsVars, feedVars
<1>1. Units' = Units /\ Unit' = Unit /\ Units \in Nat /\ Unit \in Nat
  BY WaysUnit DEF Units, Unit, CutTypeOK
<1>2. /\ lengths \in Seq(Nat) /\ before \in Seq(Nat) /\ Len(before) = Len(lengths)
      /\ remaining \in Nat /\ remaining <= Units
  BY DEF CutTypeOK, LengthsFollow
<1>3. CutTypeOK'
  BY <1>1, <1>2 DEF CutTypeOK
<1>4. Unfed'
  BY DEF Unfed
<1>5. LengthsFollow'
  <2>1. lengths' # <<>> /\ Len(lengths') = Len(lengths) + 1 /\ Len(before') = Len(lengths')
    BY <1>2
  <2>2. before'[1] = 0
    <3>1. CASE lengths = <<>>
      BY <1>2, <3>1 DEF LengthsFollow
    <3>2. CASE lengths # <<>>
      BY <1>2, <3>2 DEF LengthsFollow
    <3> QED BY <3>1, <3>2
  <2>3. ASSUME NEW i \in DOMAIN lengths'
        PROVE  before'[i] + lengths'[i] = IF i = Len(lengths') THEN Given' ELSE before'[i + 1]
    <3>1. CASE i = Len(lengths')
      BY <1>2, <2>1, <3>1
    <3>2. CASE i # Len(lengths')
      <4>1. i \in DOMAIN lengths
        BY <1>2, <2>1, <2>3, <3>2
      <4>2. before'[i] = before[i] /\ lengths'[i] = lengths[i]
        BY <1>2, <4>1
      <4>3. before[i] + lengths[i] = IF i = Len(lengths) THEN Given ELSE before[i + 1]
        BY <4>1 DEF LengthsFollow
      <4>4. Given = Units - remaining
        BY DEF Given
      <4>5. before'[i + 1] = IF i = Len(lengths) THEN Units - remaining ELSE before[i + 1]
        <5>1. Units - remaining \in Nat /\ before \in Seq(Nat) /\ Len(before) = Len(lengths)
          BY <1>1, <1>2
        <5>2. /\ \A j \in 1 .. Len(before) : Append(before, Units - remaining)[j] = before[j]
              /\ Append(before, Units - remaining)[Len(before) + 1] = Units - remaining
          BY ONLY <5>1, AppendProperties
        <5>3. i \in Nat /\ i >= 1 /\ i <= Len(lengths) /\ Len(lengths) \in Nat
          BY <1>2, <4>1
        <5>4. CASE i = Len(lengths)
          BY <5>1, <5>2, <5>4
        <5>5. CASE i # Len(lengths)
          <6>1. i + 1 \in 1 .. Len(before)
            BY <5>1, <5>3, <5>5
          <6> QED BY <5>2, <5>5, <6>1, SMTT(30)
        <5> QED BY <5>4, <5>5
      <4> QED BY <3>2, <4>2, <4>3, <4>4, <4>5
    <3> QED BY <3>1, <3>2
  <2>4. remaining' <= Units'
    BY <1>1, <1>2
  <2> QED BY <2>1, <2>2, <2>3, <2>4, SMTT(30) DEF LengthsFollow
<1>6. PartsFollow'
  <2>1. parts' = <<>> /\ curPos' = 0
    BY DEF Unfed
  <2>2. before'[1] = 0 /\ Len(lengths') # 0 /\ Len(lengths') \in Nat
    BY <1>2, <1>3, <1>5 DEF LengthsFollow
  <2>3. Len(parts') = 0 /\ DOMAIN parts' = {} /\ Unit' * 0 = 0
    BY <1>1, <2>1
  <2> QED BY ONLY <2>1, <2>2, <2>3 DEF PartsFollow
<1>7. PartsCover' /\ AbsorbedInOrder'
  BY DEF PartsCover, AbsorbedInOrder
<1> QED BY <1>3, <1>4, <1>5, <1>6, <1>7

LEMMA SplitOffInv == CutInv /\ SplitOff => CutInv'
<1> SUFFICES ASSUME CutInv, SplitOff PROVE CutInv'
  OBVIOUS
<1>1. remaining \in Nat /\ modifier \in Nat /\ Units \in Nat
  BY WaysUnit DEF CutInv, CutTypeOK
<1>2. PICK n \in Chosen(remaining) : lengths' = Append(lengths, n) /\ remaining' = remaining - n
  BY DEF SplitOff
<1>3. n \in 0 .. remaining /\ remaining' \in 0 .. remaining
  BY <1>1, <1>2 DEF Chosen
<1>4. Given' = (Units - remaining) + n
  <2>1. Units' = Units /\ cutting' = "split"
    BY DEF SplitOff, Units, Unit
  <2>2. Given' = Units - remaining'
    BY <2>1 DEF Given
  <2> QED BY <1>1, <1>2, <1>3, <2>2
<1>5. modifier' \in Nat
  BY <1>1 DEF SplitOff, Reads
<1> QED BY <1>2, <1>3, <1>4, <1>5, LengthAppended DEF SplitOff

LEMMA SplitRestInv == CutInv /\ SplitRest => CutInv'
<1> SUFFICES ASSUME CutInv, SplitRest PROVE CutInv'
  OBVIOUS
<1>1. remaining \in Nat /\ modifier \in Nat /\ Units \in Nat
  BY WaysUnit DEF CutInv, CutTypeOK
<1>2. Given' = (Units - remaining) + remaining
  BY <1>1 DEF Given, SplitRest, Units, Unit
<1>3. modifier' \in Nat
  BY <1>1 DEF SplitRest, Fails
<1> QED BY <1>1, <1>2, <1>3, LengthAppended DEF SplitRest

(* What the lengths and the parts so far say of the whole cleartext.       *)
LEMMA CutFacts ==
  ASSUME CutInv, cutting = "cut"
  PROVE  /\ Unit \in Nat \ {0} /\ Units \in Nat /\ Unit * Units \in Nat
         /\ Unit * Units <= length /\ length \in Nat
         /\ Len(lengths) \in Nat \ {0} /\ Len(before) = Len(lengths)
         /\ \A i \in 1 .. Len(lengths) :
              /\ before[i] \in Nat /\ lengths[i] \in Nat
              /\ Unit * before[i] \in Nat /\ Unit * lengths[i] \in Nat
              /\ (Unit * before[i]) + (Unit * lengths[i]) =
                   Unit * (IF i = Len(lengths) THEN Units ELSE before[i + 1])
<1> USE DEF CutInv
<1>1. /\ Unit \in Nat \ {0} /\ Units \in Nat /\ Unit * Units \in Nat
      /\ Unit * Units <= length /\ length \in Nat
  BY WaysUnit DEF CutTypeOK
<1>2. /\ lengths \in Seq(Nat) /\ before \in Seq(Nat) /\ lengths # <<>>
      /\ Len(before) = Len(lengths)
  BY DEF CutTypeOK, LengthsFollow
<1>3. Len(lengths) \in Nat \ {0}
  BY <1>2
<1>4. ASSUME NEW i \in 1 .. Len(lengths)
      PROVE  /\ before[i] \in Nat /\ lengths[i] \in Nat
             /\ Unit * before[i] \in Nat /\ Unit * lengths[i] \in Nat
             /\ (Unit * before[i]) + (Unit * lengths[i]) =
                  Unit * (IF i = Len(lengths) THEN Units ELSE before[i + 1])
  <2>1. before[i] \in Nat /\ lengths[i] \in Nat
    BY <1>2
  <2>2. before[i] + lengths[i] = IF i = Len(lengths) THEN Units ELSE before[i + 1]
    <3>1. i \in DOMAIN lengths
      BY <1>2
    <3>2. Given = Units
      BY DEF Given
    <3> QED BY <3>1, <3>2 DEF LengthsFollow
  <2>3. /\ Unit * before[i] \in Nat /\ Unit * lengths[i] \in Nat
        /\ (Unit * before[i]) + (Unit * lengths[i]) = Unit * (before[i] + lengths[i])
    BY <1>1, <2>1, Distributes
  <2> QED BY <2>1, <2>2, <2>3
<1> QED BY <1>1, <1>2, <1>3, <1>4

LEMMA ToPartInv == CutInv /\ ToPart => CutInv'
<1> SUFFICES ASSUME CutInv, ToPart PROVE CutInv'
  OBVIOUS
<1> DEFINE k == Len(parts) + 1
           n == Unit * lengths[k]
<1> USE DEF CutInv, ToPart, splitVars, feedVars
<1>1. parts \in Seq([offset : Nat, n : Nat]) /\ Len(parts) \in Nat /\ fed = 0 /\ absorbed = <<>>
  BY DEF CutTypeOK, Unfed
<1>2. k \in 1 .. Len(lengths)
  BY <1>1, CutFacts
<1>3. /\ n \in Nat /\ Unit * before[k] \in Nat
      /\ (Unit * before[k]) + n =
           Unit * (IF k = Len(lengths) THEN Units ELSE before[k + 1])
  BY <1>2, CutFacts
<1>4. curPos = Unit * before[k]
  BY DEF PartsFollow
<1>5. parts' = Append(parts, Part(curPos, n)) /\ curPos' = curPos + n
  OBVIOUS
<1> HIDE DEF n
<1>6. /\ parts' \in Seq([offset : Nat, n : Nat]) /\ Len(parts') = k
      /\ \A i \in 1 .. Len(parts) : parts'[i] = parts[i]
      /\ parts'[k] = Part(curPos, n) /\ curPos' \in Nat
  BY <1>1, <1>3, <1>4, <1>5 DEF Part
<1>7. CutTypeOK'
  BY <1>1, <1>6 DEF CutTypeOK
<1>8. Unfed' /\ LengthsFollow'
  BY DEF Unfed, LengthsFollow, Given, Units, Unit
<1>9. PartsFollow'
  <2>1. Unit' = Unit /\ Units' = Units
    BY DEF Unit, Units
  <2>2. Len(parts') <= Len(lengths)
    BY <1>2, <1>6
  <2>3. ASSUME NEW i \in DOMAIN parts'
        PROVE  parts'[i] = Part(Unit * before[i], Unit * lengths[i])
    <3>1. CASE i = k
      BY <1>4, <1>6, <3>1 DEF n
    <3>2. CASE i # k
      BY <1>1, <1>6, <2>3, <3>2 DEF PartsFollow
    <3> QED BY <3>1, <3>2
  <2>4. curPos' = Unit * (IF k = Len(lengths) THEN Units ELSE before[k + 1])
    BY <1>3, <1>4, <1>5
  <2> QED BY <1>6, <2>1, <2>2, <2>3, <2>4 DEF PartsFollow, Part
<1>10. PartsCover' /\ AbsorbedInOrder'
  BY DEF PartsCover, AbsorbedInOrder
<1> QED BY <1>7, <1>8, <1>9, <1>10

LEMMA ToRestInv == CutInv /\ ToRest => CutInv'
<1> SUFFICES ASSUME CutInv, ToRest PROVE CutInv'
  OBVIOUS
<1> DEFINE k == Len(parts)
           from == [i \in 1 .. k |-> Unit * before[i]]
           bytes == [i \in 1 .. k |-> Unit * lengths[i]]
           m == Len(parts')
           rest == Part(curPos, length - curPos)
<1>1. /\ parts \in Seq([offset : Nat, n : Nat]) /\ k \in Nat \ {0} /\ cutting = "cut"
      /\ Unit \in Nat \ {0} /\ length \in Nat /\ k = Len(lengths)
      /\ way' = way /\ length' = length /\ way \in Ways
  BY CutFacts DEF ToRest, CutInv, CutTypeOK
<1>2. curPos = Unit * Units /\ curPos \in Nat /\ curPos <= length
  BY <1>1, CutFacts DEF CutInv, PartsFollow
<1>3. \A i \in 1 .. k : parts[i] = Part(from[i], bytes[i])
  BY <1>1 DEF CutInv, PartsFollow
<1>4. from[1] = 0
  <2>1. before[1] = 0
    BY <1>1, CutFacts DEF CutInv, LengthsFollow
  <2> QED BY <1>1, <2>1
<1>5. ASSUME NEW i \in 1 .. k
      PROVE  /\ from[i] + bytes[i] = IF i = k THEN curPos ELSE from[i + 1]
             /\ bytes[i] % Unit = 0
  <2>1. /\ from[i] + bytes[i] = Unit * (IF i = k THEN Units ELSE before[i + 1])
        /\ lengths[i] \in Nat /\ bytes[i] = Unit * lengths[i]
    BY <1>1, CutFacts
  <2>2. bytes[i] % Unit = 0
    BY <1>1, <2>1, NoRemainder
  <2>3. CASE i = k
    BY <1>2, <2>1, <2>2, <2>3
  <2>4. CASE i # k
    <3>1. i + 1 \in 1 .. k
      BY <1>1, <2>4
    <3> QED BY <2>1, <2>2, <2>4, <3>1
  <2> QED BY <2>3, <2>4
<1> HIDE DEF from, bytes
<1>6. \A i \in 1 .. k : parts[i].offset = from[i] /\ parts[i].n = bytes[i]
  <2>1. ASSUME NEW i \in 1 .. k PROVE parts[i].offset = from[i] /\ parts[i].n = bytes[i]
    <3>1. parts[i] = [offset |-> from[i], n |-> bytes[i]]
      BY <1>3, Zenon DEF Part
    <3> QED BY <3>1
  <2> QED BY <2>1
<1>7. \A i \in 1 .. k :
        parts[i].offset + parts[i].n = IF i = k THEN curPos ELSE parts[i + 1].offset
  <2>1. ASSUME NEW i \in 1 .. k
        PROVE  parts[i].offset + parts[i].n = IF i = k THEN curPos ELSE parts[i + 1].offset
    <3>1. i # k => i + 1 \in 1 .. k
      BY <1>1, <2>1
    <3> QED BY <1>5, <1>6, <3>1
  <2> QED BY <2>1
<1>8. /\ parts' \in Seq([offset : Nat, n : Nat])
      /\ \A i \in 1 .. k : parts'[i] = parts[i]
      /\ \/ curPos = length /\ Len(parts') = k
         \/ /\ Len(parts') = k + 1
            /\ parts'[k + 1].offset = curPos /\ parts'[k + 1].n = length - curPos
  <2>1. CASE curPos = length
    <3>1. ~(curPos < length)
      BY <1>1, <2>1
    <3>2. parts' = parts \o <<>>
      BY <3>1 DEF ToRest, Rest
    <3>3. parts' = parts
      BY <1>1, <3>2
    <3> QED BY <1>1, <2>1, <3>3
  <2>2. CASE curPos # length
    <3>1. curPos < length
      BY <1>1, <1>2, <2>2
    <3>2. parts' = parts \o <<rest>>
      BY <3>1 DEF ToRest, Rest
    <3>3. /\ rest \in [offset : Nat, n : Nat]
          /\ rest.offset = curPos /\ rest.n = length - curPos
      BY <1>1, <1>2, <3>1 DEF Part
    <3> HIDE DEF rest
    <3>4. /\ parts' \in Seq([offset : Nat, n : Nat]) /\ Len(parts') = k + 1
          /\ \A i \in 1 .. k : parts'[i] = parts[i]
          /\ parts'[k + 1] = rest
      <4>1. /\ parts \o <<rest>> \in Seq([offset : Nat, n : Nat])
            /\ Len(parts \o <<rest>>) = k + 1
            /\ \A i \in 1 .. k : (parts \o <<rest>>)[i] = parts[i]
            /\ (parts \o <<rest>>)[k + 1] = rest
        <5>1. parts \in Seq([offset : Nat, n : Nat]) /\ rest \in [offset : Nat, n : Nat]
          BY <1>1, <3>3
        <5> HIDE DEF k
        <5>2. k = Len(parts)
          BY DEF k
        <5> QED BY ONLY <5>1, <5>2, PartBehind
      <4> QED BY <3>2, <4>1, Zenon
    <3> QED BY <3>3, <3>4
  <2> QED BY <2>1, <2>2
<1>9. DOMAIN parts' = 1 .. m /\ m \in Nat /\ parts' # <<>> /\ k \in Nat \ {0}
  BY <1>1, <1>8
<1>10. m = k \/ m = k + 1
  BY <1>8
<1> HIDE DEF k, m
<1>11. ASSUME NEW i \in DOMAIN parts'
       PROVE  parts'[i].offset + parts'[i].n =
                IF i = Len(parts') THEN length ELSE parts'[i + 1].offset
  <2>1. CASE i = k + 1
    <3>1. i = m /\ i # k
      BY <1>9, <1>10, <1>11, <2>1
    <3>2. parts'[i].offset = curPos /\ parts'[i].n = length - curPos
      BY <1>8, <2>1, <3>1 DEF m
    <3> QED BY <1>1, <1>2, <3>1, <3>2 DEF m
  <2>2. CASE i # k + 1
    <3>1. i \in 1 .. k
      BY <1>9, <1>10, <1>11, <2>2
    <3>2. parts'[i].offset + parts'[i].n = IF i = k THEN curPos ELSE parts[i + 1].offset
      BY <1>7, <1>8, <3>1
    <3>3. CASE i # k
      <4>1. i + 1 \in 1 .. k /\ i # m
        BY <1>9, <1>10, <3>1, <3>3
      <4> QED BY <1>8, <3>2, <3>3, <4>1 DEF m
    <3>4. CASE i = k
      <4>1. CASE m = k
        BY <1>8, <1>9, <3>2, <3>4, <4>1 DEF m
      <4>2. CASE m = k + 1
        <5>1. k # k + 1
          BY <1>9
        <5> QED BY <1>8, <3>2, <3>4, <4>2, <5>1 DEF m
      <4> QED BY <1>10, <4>1, <4>2
    <3> QED BY <3>3, <3>4
  <2> QED BY <2>1, <2>2
<1>12. ASSUME NEW i \in DOMAIN parts', NEW j \in DOMAIN parts', i < j, way.block # 0
       PROVE  parts'[i].n % way.block = 0
  <2>1. i \in 1 .. k
    BY <1>9, <1>10, <1>12
  <2>2. Unit = way.block
    BY <1>12 DEF Unit
  <2> QED BY <1>5, <1>6, <1>8, <2>1, <2>2
<1>13. parts'[1].offset = 0
  <2>1. 1 \in 1 .. k
    BY <1>9
  <2> QED BY <1>4, <1>6, <1>8, <2>1
<1>14. PartsCover'
  BY <1>1, <1>9, <1>11, <1>12, <1>13 DEF PartsCover
<1> QED BY <1>1, <1>2, <1>8, <1>14, FeedingStarts DEF ToRest

-----------------------------------------------------------------------------
(* Feeding.                                                                *)

(* Where a part begins and ends.                                           *)
LEMMA NextPart ==
  ASSUME CutInv, More
  PROVE  /\ parts[fed + 1] \in [offset : Nat, n : Nat] /\ fed \in Nat /\ fed + 1 \in DOMAIN parts
         /\ absorbed = [i \in 1 .. parts[fed + 1].offset |-> i - 1]
         /\ parts[fed + 1].offset + parts[fed + 1].n =
              IF fed + 1 = Len(parts) THEN length ELSE parts[(fed + 1) + 1].offset
<1> USE DEF CutInv, More
<1>1. /\ parts \in Seq([offset : Nat, n : Nat]) /\ fed \in Nat /\ fed + 1 \in DOMAIN parts
      /\ fed # Len(parts) /\ (fed + 1) + 1 = fed + 2
  BY DEF CutTypeOK
<1>2. FedUpTo = parts[fed + 1].offset
  BY <1>1 DEF FedUpTo
<1>3. absorbed = [i \in 1 .. parts[fed + 1].offset |-> i - 1]
  BY <1>2 DEF AbsorbedInOrder
<1>4. parts[fed + 1].offset + parts[fed + 1].n =
        IF fed + 1 = Len(parts) THEN length ELSE parts[(fed + 1) + 1].offset
  BY <1>1 DEF PartsCover
<1>5. parts[fed + 1] \in [offset : Nat, n : Nat]
  <2>1. fed + 1 \in 1 .. Len(parts)
    BY <1>1
  <2> QED BY <1>1, <2>1, ElementOfSeq, Zenon
<1> QED BY <1>1, <1>3, <1>4, <1>5, Zenon

LEMMA ProcessInv == CutInv /\ Process => CutInv'
<1> SUFFICES ASSUME CutInv, Process PROVE CutInv'
  OBVIOUS
<1> DEFINE p == parts[fed + 1]
           more == [i \in 1 .. p.n |-> p.offset + i - 1]
<1>1. More
  BY DEF Process
<1>2. /\ p \in [offset : Nat, n : Nat] /\ fed \in Nat /\ fed + 1 \in DOMAIN parts
      /\ absorbed = [i \in 1 .. p.offset |-> i - 1]
      /\ p.offset + p.n = IF fed + 1 = Len(parts) THEN length ELSE parts[(fed + 1) + 1].offset
  BY <1>1, NextPart
<1>3. absorbed' = absorbed \o more
  BY DEF Process, Update
<1>4. fed' = fed + 1 /\ UNCHANGED <<cutting, way, length, splitVars, partsVars, numClears>>
  BY DEF Process
<1> HIDE DEF p
<1>5. p.offset \in Nat /\ p.n \in Nat
  BY <1>2
<1>6. absorbed \in Seq(Nat) /\ Len(absorbed) = p.offset
  BY <1>2, <1>5
<1>7. more \in Seq(Nat) /\ Len(more) = p.n
  BY <1>5
<1> HIDE DEF more
<1>8. absorbed' \in Seq(Nat) /\ Len(absorbed') = p.offset + p.n
  <2>1. absorbed \o more \in Seq(Nat) /\ Len(absorbed \o more) = Len(absorbed) + Len(more)
    BY <1>6, <1>7, ConcatProperties, Zenon
  <2> QED BY <1>3, <1>6, <1>7, <2>1
<1>9. absorbed' = [i \in 1 .. p.offset + p.n |-> i - 1]
  <2>1. ASSUME NEW i \in 1 .. p.offset + p.n PROVE absorbed'[i] = i - 1
    <3>1. CASE i <= p.offset
      BY <1>2, <1>3, <1>5, <1>6, <1>7, <2>1, <3>1
    <3>2. CASE i > p.offset
      <4>1. i - p.offset \in 1 .. p.n
        BY <1>5, <2>1, <3>2
      <4>2. absorbed'[i] = more[i - p.offset]
        BY <1>3, <1>5, <1>6, <1>7, <2>1, <3>2, ConcatProperties, SMTT(30)
      <4>3. more[i - p.offset] = p.offset + (i - p.offset) - 1
        BY <4>1 DEF more
      <4> QED BY <1>5, <2>1, <4>2, <4>3
    <3> QED BY <1>5, <2>1, <3>1, <3>2
  <2>2. absorbed' = [i \in 1 .. p.offset + p.n |-> absorbed'[i]]
    BY <1>8
  <2> QED BY <2>1, <2>2
<1>10. FedUpTo' = p.offset + p.n
  BY <1>2, <1>4 DEF FedUpTo, partsVars
<1>11. cutting' = "feed" /\ cutting = "feed"
  BY <1>1, <1>4 DEF More
<1>12. AbsorbedInOrder'
  BY <1>9, <1>10, <1>11 DEF AbsorbedInOrder
<1>13. modifier' \in Nat
  BY DEF Process, Reads, Fails, CutInv, CutTypeOK
<1>14. fed' \in 0 .. Len(parts')
  BY <1>2, <1>4 DEF partsVars, CutInv, CutTypeOK
<1>15. CutTypeOK'
  BY <1>4, <1>8, <1>13, <1>14 DEF CutInv, CutTypeOK, splitVars, partsVars
<1>16. Unfed' /\ LengthsFollow' /\ PartsFollow'
  BY <1>11 DEF Unfed, LengthsFollow, PartsFollow
<1>17. PartsCover'
  BY <1>4, <1>11 DEF CutInv, PartsCover, partsVars
<1> QED BY <1>12, <1>15, <1>16, <1>17 DEF CutInv

LEMMA ClearInv == CutInv /\ Clear => CutInv'
<1> SUFFICES ASSUME CutInv, Clear PROVE CutInv'
  OBVIOUS
<1> USE DEF CutInv, Clear, splitVars, partsVars
<1>1. cutting = "feed" /\ absorbed' = <<>> /\ fed' = 0
  BY DEF More, Cleared
<1>2. CutTypeOK'
  BY <1>1 DEF CutTypeOK, Reads
<1>3. Unfed' /\ LengthsFollow' /\ PartsFollow'
  BY <1>1 DEF Unfed, LengthsFollow, PartsFollow
<1>4. PartsCover' /\ parts' # <<>> /\ parts'[1].offset = 0
  BY <1>1 DEF PartsCover
<1>5. AbsorbedInOrder'
  <2>1. FedUpTo' = 0
    BY <1>1, <1>2, <1>4 DEF FedUpTo, CutTypeOK
  <2>2. absorbed' = [i \in 1 .. 0 |-> i - 1]
    BY <1>1
  <2> QED BY <1>1, <2>1, <2>2 DEF AbsorbedInOrder
<1> QED BY <1>2, <1>3, <1>4, <1>5

LEMMA FinalizeInv == CutInv /\ Finalize => CutInv'
<1> SUFFICES ASSUME CutInv, Finalize PROVE CutInv'
  OBVIOUS
<1> USE DEF CutInv, Finalize, splitVars, partsVars, feedVars
<1>1. CutTypeOK'
  BY DEF CutTypeOK
<1>2. Unfed' /\ LengthsFollow' /\ PartsFollow'
  BY DEF Unfed, LengthsFollow, PartsFollow
<1>3. PartsCover'
  BY DEF PartsCover
<1>4. AbsorbedInOrder'
  BY DEF AbsorbedInOrder, FedUpTo
<1> QED BY <1>1, <1>2, <1>3, <1>4

(* Parts follow the lengths they were made of, and the hash has absorbed   *)
(* the parts it was fed (util::ToParts, Botan's digest handler).           *)
THEOREM CutInvariant == CutSpec => []CutInv
<1>1. CutInit => CutInv
  BY CutInitInv
<1>2. CutInv /\ [CutNext]_cutVars => CutInv'
  <2> SUFFICES ASSUME CutInv, [CutNext]_cutVars PROVE CutInv'
    OBVIOUS
  <2>1. CASE Whole \/ ToEqualParts \/ StartSplit
    BY <2>1, WholeInv, ToEqualPartsInv, StartSplitInv
  <2>2. CASE SplitOff \/ SplitRest
    BY <2>2, SplitOffInv, SplitRestInv
  <2>3. CASE ToPart \/ ToRest
    BY <2>3, ToPartInv, ToRestInv
  <2>4. CASE Process \/ Clear \/ Finalize
    BY <2>4, ProcessInv, ClearInv, FinalizeInv
  <2>5. CASE UNCHANGED cutVars
    BY <2>5 DEF cutVars, splitVars, partsVars, feedVars, CutInv, CutTypeOK, Unfed, LengthsFollow,
                Given, Units, Unit, PartsFollow, PartsCover, AbsorbedInOrder, FedUpTo
  <2> QED BY <2>1, <2>2, <2>3, <2>4, <2>5 DEF CutNext
<1> QED BY <1>1, <1>2, PTL DEF CutSpec

(* However a cleartext is cut, whatever its length, the parts cover it,    *)
(* and libraries that want whole blocks get them.                          *)
THEOREM CleartextCovered == CutSpec => []PartsCover
<1>1. CutInv => PartsCover
  BY DEF CutInv
<1> QED BY <1>1, CutInvariant, PTL

(* What is digested is the cleartext, once and in order.                   *)
THEOREM CleartextDigested == CutSpec => []DigestOfCleartext
<1>1. CutInv => DigestOfCleartext
  BY DEF CutInv, AbsorbedInOrder, FedUpTo, DigestOfCleartext
<1> QED BY <1>1, CutInvariant, PTL

-----------------------------------------------------------------------------
(* Paddings.                                                               *)

(* A padding fills the last block: its length is that of no more than a    *)
(* block, fits a byte, and is what each of its bytes says.                 *)
LEMMA PadFillsBlock ==
  ASSUME NEW blocksize \in CipherSizes, NEW in \in Seq(Byte)
  PROVE  \E n \in 1 .. blocksize :
           /\ Pkcs7Pad(in, blocksize) = in \o Filled(n, n)
           /\ n \in Byte /\ (Len(in) + n) % blocksize = 0
<1> DEFINE q == Len(in) \div blocksize
           r == Len(in) % blocksize
           n == blocksize - r
<1>1. blocksize \in Nat \ {0} /\ blocksize < Radix /\ Radix \in Nat /\ Len(in) \in Nat
  BY EncodingsAssumption
<1>2. q \in Nat /\ r \in Nat /\ r < blocksize /\ Len(in) = (blocksize * q) + r
  BY <1>1, Quotients
<1>3. Pkcs7Pad(in, blocksize) = in \o Filled(n, n % Radix)
  BY DEF Pkcs7Pad
<1> HIDE DEF q, r
<1>4. n \in 1 .. blocksize /\ n \in Byte /\ n % Radix = n
  <2>1. n \in Nat /\ 1 <= n /\ n <= blocksize
    BY <1>1, <1>2
  <2> HIDE DEF n
  <2>2. n < Radix
    BY <1>1, <2>1
  <2> QED BY <1>1, <2>1, <2>2 DEF Byte
<1>5. (Len(in) + n) % blocksize = 0
  <2>1. (blocksize * q) + (blocksize * 1) = blocksize * (q + 1) /\ blocksize * q \in Nat
    BY <1>1, <1>2, Distributes
  <2>2. Len(in) + n = blocksize * (q + 1)
    BY <1>1, <1>2, <2>1
  <2> QED BY <1>1, <1>2, <2>2, NoRemainder
<1> QED BY <1>3, <1>4, <1>5

LEMMA FilledBytes ==
  ASSUME NEW n \in Nat, NEW b \in Byte
  PROVE  Filled(n, b) \in Seq(Byte) /\ Len(Filled(n, b)) = n /\ \A i \in 1 .. n : Filled(n, b)[i] = b
BY DEF Filled

(* Pkcs7Unpad takes off what Pkcs7Pad put on.                              *)
LEMMA UnpadUndoesPad ==
  ASSUME NEW blocksize \in CipherSizes, NEW in \in Seq(Byte)
  PROVE  /\ Pkcs7Pad(in, blocksize) \in Seq(Byte)
         /\ Pkcs7Unpad(Pkcs7Pad(in, blocksize), blocksize) = Just(in)
<1> DEFINE filled == Pkcs7Pad(in, blocksize)
<1>1. PICK n \in 1 .. blocksize :
        /\ filled = in \o Filled(n, n)
        /\ n \in Byte /\ (Len(in) + n) % blocksize = 0
  BY PadFillsBlock
<1>2. n \in Nat \ {0} /\ Len(in) \in Nat
  BY EncodingsAssumption
<1>3. Filled(n, n) \in Seq(Byte) /\ Len(Filled(n, n)) = n /\ Filled(n, n)[n] = n
  BY <1>1, <1>2, FilledBytes
<1>4. /\ filled \in Seq(Byte) /\ Len(filled) = Len(in) + n
      /\ \A i \in 1 .. Len(in) + n :
           filled[i] = IF i <= Len(in) THEN in[i] ELSE Filled(n, n)[i - Len(in)]
  <2>1. /\ in \o Filled(n, n) \in Seq(Byte)
        /\ Len(in \o Filled(n, n)) = Len(in) + Len(Filled(n, n))
        /\ \A i \in 1 .. Len(in) + Len(Filled(n, n)) :
             (in \o Filled(n, n))[i] =
               IF i <= Len(in) THEN in[i] ELSE Filled(n, n)[i - Len(in)]
    BY <1>3, ConcatProperties, Zenon
  <2> QED BY <1>1, <1>3, <2>1, Zenon
<1> HIDE DEF filled
<1>5. filled[Len(filled)] = n
  BY <1>2, <1>3, <1>4
<1>6. filled # <<>> /\ Len(filled) % blocksize = 0 /\ ~(filled[Len(filled)] > Len(filled))
  BY <1>1, <1>2, <1>4, <1>5
<1>7. Pkcs7Unpad(filled, blocksize) = Just(SubSeq(filled, 1, Len(in)))
  BY <1>2, <1>4, <1>5, <1>6 DEF Pkcs7Unpad
<1>8. SubSeq(filled, 1, Len(in)) = in
  BY <1>2, <1>4
<1> QED BY <1>4, <1>7, <1>8 DEF filled

LEMMA CodeInitPadding == CodeInit => PaddingInv
BY DEF CodeInit, PaddingInv, Start

LEMMA CodeNextPadding ==
  ASSUME PaddingInv, [CodeNext]_codeVars PROVE PaddingInv'
<1> SUFFICES ASSUME work' = "cbc" PROVE PaddingInv'
  BY DEF PaddingInv
<1> USE DEF PaddingInv, Encode, Decode
<1>1. CASE Pad
  BY <1>1, UnpadUndoesPad, EncodingsAssumption DEF Pad
<1>2. CASE Decrypted
  BY <1>2, EncodingsAssumption DEF Decrypted
<1>3. CASE Unpad
  BY <1>3 DEF Unpad
<1>4. CASE Sign \/ ReadSignature \/ RandomPad \/ FixedPad \/ Draw \/ Shuffle
  BY <1>4 DEF Sign, ReadSignature, RandomPad, FixedPad, Draw, Shuffle
<1>5. CASE UNCHANGED codeVars
  BY <1>5 DEF codeVars
<1> QED BY <1>1, <1>2, <1>3, <1>4, <1>5 DEF CodeNext

(* Whatever a library unpads, Pkcs7Unpad unpads to the same text, for      *)
(* every text and every size of a block that fits a byte.                  *)
THEOREM LibrariesUnpadAlike == CodeSpec => []UnpadsLikeLibraries
<1>1. CodeInit => PaddingInv
  BY CodeInitPadding
<1>2. PaddingInv /\ [CodeNext]_codeVars => PaddingInv'
  BY CodeNextPadding
<1>3. PaddingInv => UnpadsLikeLibraries
  <2> SUFFICES ASSUME PaddingInv, work = "cbc", coding = "done", NEW t \in Unpadded(coded)
               PROVE  result = Just(t)
    BY DEF UnpadsLikeLibraries
  <2>1. size \in CipherSizes /\ coded \in Seq(Byte) /\ result = Pkcs7Unpad(coded, size)
    BY DEF PaddingInv
  <2>2. t \in Seq(Byte) /\ Pkcs7Pad(t, size) = coded
    BY <2>1 DEF Unpadded
  <2> QED BY <2>1, <2>2, UnpadUndoesPad
<1> QED BY <1>1, <1>2, <1>3, PTL DEF CodeSpec

-----------------------------------------------------------------------------
(* Numbers and their digits.                                               *)

(* Every non-empty set of naturals has a least element: how the lemmas     *)
(* below go from one number to the next.                                   *)
LEMMA LeastOf ==
  ASSUME NEW T \in SUBSET Nat, T # {}
  PROVE  \E x \in T : \A y \in T : x <= y
<1>1. \E x \in T : \A y \in T : ~ (<<y, x>> \in OpToRel(<, Nat))
  BY WFMin, NatLessThanWellFounded
<1>2. PICK x \in T : \A y \in T : ~ (<<y, x>> \in OpToRel(<, Nat))
  BY <1>1
<1>3. ASSUME NEW y \in T PROVE x <= y
  <2>1. ~ (y < x)
    BY <1>2, <1>3 DEF OpToRel
  <2> QED BY <2>1
<1> QED BY <1>3

(* So what holds of zero and with each number of the next, holds of all.   *)
LEMMA AllUpTo ==
  ASSUME NEW n \in Nat, NEW T, 0 \in T, \A k \in 0 .. n - 1 : k \in T => k + 1 \in T
  PROVE  \A k \in 0 .. n : k \in T
<1> DEFINE Missing == {k \in 0 .. n : k \notin T}
<1> SUFFICES ASSUME Missing # {} PROVE FALSE
  OBVIOUS
<1>0. Missing \in SUBSET Nat
  OBVIOUS
<1>1. PICK x \in Missing : \A y \in Missing : x <= y
  <2> HIDE DEF Missing
  <2> QED BY <1>0, LeastOf
<1>2. x # 0 /\ x - 1 \in 0 .. n - 1 /\ x - 1 \notin Missing
  BY <1>1
<1> QED BY <1>1, <1>2

(* The values of the first digits, as ValuesOf defines them.               *)
Horner(radix, digits, value, upTo) ==
  value = [n \in 0 .. upTo |-> IF n = 0 THEN 0 ELSE value[n - 1] * radix + digits[n]]

LEMMA HornerExists ==
  ASSUME NEW radix \in Nat, NEW digits \in Seq(Int), NEW n \in Nat
  PROVE  \E value : Horner(radix, digits, value, n)
<1> DEFINE T == {k \in Nat : \E value : Horner(radix, digits, value, k)}
<1>1. 0 \in T
  <2>1. Horner(radix, digits, [m \in 0 .. 0 |-> 0], 0)
    BY DEF Horner
  <2> QED BY <2>1
<1>2. \A k \in 0 .. n - 1 : k \in T => k + 1 \in T
  <2> SUFFICES ASSUME NEW k \in 0 .. n - 1, k \in T PROVE k + 1 \in T
    OBVIOUS
  <2>1. PICK value : Horner(radix, digits, value, k)
    OBVIOUS
  <2> DEFINE next == [m \in 0 .. k + 1 |->
                        IF m <= k THEN value[m] ELSE value[k] * radix + digits[k + 1]]
  <2>2. Horner(radix, digits, next, k + 1)
    BY <2>1 DEF Horner
  <2> QED BY <2>2
<1> HIDE DEF T
<1>3. \A k \in 0 .. n : k \in T
  BY <1>1, <1>2, AllUpTo
<1> QED BY <1>3 DEF T

LEMMA ValuesDefined ==
  ASSUME NEW radix \in Nat, NEW digits \in Seq(Int)
  PROVE  LET value == ValuesOf(radix, digits)
         IN  /\ value[0] = 0
             /\ \A n \in 1 .. Len(digits) : value[n] = value[n - 1] * radix + digits[n]
             /\ \A n \in 0 .. Len(digits) : value[n] \in Int
<1> DEFINE value == ValuesOf(radix, digits)
<1>1. Horner(radix, digits, value, Len(digits))
  <2>1. value = CHOOSE f : f = [n \in 0 .. Len(digits) |-> IF n = 0 THEN 0 ELSE f[n - 1] * radix + digits[n]]
    BY DEF ValuesOf
  <2>2. \E f : f = [n \in 0 .. Len(digits) |-> IF n = 0 THEN 0 ELSE f[n - 1] * radix + digits[n]]
    <3>1. Len(digits) \in Nat
      OBVIOUS
    <3>2. \E f : Horner(radix, digits, f, Len(digits))
      BY <3>1, HornerExists
    <3> QED BY ONLY <3>2 DEF Horner
  <2> QED BY <2>1, <2>2, Zenon DEF Horner
<1> HIDE DEF value
<1>2. /\ value[0] = 0
      /\ \A n \in 1 .. Len(digits) : value[n] = value[n - 1] * radix + digits[n]
  <2>0. Len(digits) \in Nat
    OBVIOUS
  <2>1. PICK g : /\ g = [n \in 0 .. Len(digits) |-> IF n = 0 THEN 0 ELSE value[n - 1] * radix + digits[n]]
                 /\ g = value
    BY <1>1, Zenon DEF Horner
  <2>2. \A n \in 0 .. Len(digits) : g[n] = IF n = 0 THEN 0 ELSE value[n - 1] * radix + digits[n]
    BY ONLY <2>1
  <2>3. \A n \in 0 .. Len(digits) : value[n] = IF n = 0 THEN 0 ELSE value[n - 1] * radix + digits[n]
    BY ONLY <2>1, <2>2, Zenon
  <2> QED BY ONLY <2>0, <2>3
<1> DEFINE T == {k \in Nat : value[k] \in Int}
<1>3. 0 \in T
  BY <1>2
<1>4. \A k \in 0 .. Len(digits) - 1 : k \in T => k + 1 \in T
  <2> SUFFICES ASSUME NEW k \in 0 .. Len(digits) - 1, k \in T PROVE k + 1 \in T
    OBVIOUS
  <2>1. value[k + 1] = value[k] * radix + digits[k + 1]
    BY <1>2
  <2>2. value[k] * radix \in Int /\ digits[k + 1] \in Int
    OBVIOUS
  <2> QED BY <2>1, <2>2
<1> HIDE DEF T
<1>5. \A k \in 0 .. Len(digits) : k \in T
  <2>1. Len(digits) \in Nat
    OBVIOUS
  <2> QED BY <2>1, <1>3, <1>4, AllUpTo
<1> QED BY <1>2, <1>5 DEF value, T

(* Equal digits carry equal values on.                                     *)
LEMMA ValuesAgree ==
  ASSUME NEW radix \in Nat, NEW s \in Seq(Int), NEW t \in Seq(Int),
         NEW i \in 0 .. Len(s), NEW j \in 0 .. Len(t), NEW n \in Nat,
         i + n <= Len(s), j + n <= Len(t),
         ValuesOf(radix, s)[i] = ValuesOf(radix, t)[j],
         \A m \in 1 .. n : s[i + m] = t[j + m]
  PROVE  ValuesOf(radix, s)[i + n] = ValuesOf(radix, t)[j + n]
<1> DEFINE u == ValuesOf(radix, s)
           v == ValuesOf(radix, t)
           T == {k \in Nat : u[i + k] = v[j + k]}
<1>1. \A k \in 1 .. Len(s) : u[k] = u[k - 1] * radix + s[k]
  BY ValuesDefined
<1>2. \A k \in 1 .. Len(t) : v[k] = v[k - 1] * radix + t[k]
  BY ValuesDefined
<1>3. u[i] = v[j] /\ Len(s) \in Nat /\ Len(t) \in Nat
  OBVIOUS
<1> HIDE DEF u, v
<1>4. 0 \in T
  BY <1>3
<1>5. \A k \in 0 .. n - 1 : k \in T => k + 1 \in T
  <2> SUFFICES ASSUME NEW k \in 0 .. n - 1, k \in T PROVE u[i + (k + 1)] = v[j + (k + 1)]
    OBVIOUS
  <2>1. /\ i + (k + 1) \in 1 .. Len(s) /\ (i + (k + 1)) - 1 = i + k
        /\ j + (k + 1) \in 1 .. Len(t) /\ (j + (k + 1)) - 1 = j + k
        /\ k + 1 \in 1 .. n
    BY <1>3
  <2>2. u[i + (k + 1)] = u[i + k] * radix + s[i + (k + 1)]
    BY ONLY <1>1, <2>1
  <2>3. v[j + (k + 1)] = v[j + k] * radix + t[j + (k + 1)]
    BY ONLY <1>2, <2>1
  <2>4. s[i + (k + 1)] = t[j + (k + 1)] /\ u[i + k] = v[j + k]
    BY <2>1
  <2> QED BY ONLY <2>2, <2>3, <2>4
<1> HIDE DEF T
<1>6. n \in T
  <2>1. \A k \in 0 .. n : k \in T
    BY <1>4, <1>5, AllUpTo
  <2> QED BY <2>1
<1> QED BY <1>6 DEF T, u, v

(* Zeros on the left count for nothing.                                    *)
LEMMA ZerosCountNothing ==
  ASSUME NEW radix \in Nat, NEW s \in Seq(Int), NEW n \in 0 .. Len(s),
         \A m \in 1 .. n : s[m] = 0
  PROVE  ValuesOf(radix, s)[n] = 0
<1> DEFINE u == ValuesOf(radix, s)
           T == {k \in Nat : u[k] = 0}
<1>1. u[0] = 0 /\ \A k \in 1 .. Len(s) : u[k] = u[k - 1] * radix + s[k]
  BY ValuesDefined
<1> HIDE DEF u
<1>2. 0 \in T
  BY <1>1
<1>3. \A k \in 0 .. n - 1 : k \in T => k + 1 \in T
  <2> SUFFICES ASSUME NEW k \in 0 .. n - 1, k \in T PROVE u[k + 1] = 0
    OBVIOUS
  <2>1. k + 1 \in 1 .. Len(s) /\ (k + 1) - 1 = k /\ k + 1 \in 1 .. n
    OBVIOUS
  <2>2. u[k + 1] = u[k] * radix + s[k + 1]
    BY ONLY <1>1, <2>1
  <2> QED BY <2>1, <2>2
<1> HIDE DEF T
<1>4. n \in Nat
  OBVIOUS
<1>5. n \in T
  <2>1. \A k \in 0 .. n : k \in T
    BY <1>2, <1>3, <1>4, AllUpTo
  <2> QED BY <1>4, <2>1
<1> QED BY <1>5 DEF T, u

(* What follows them counts alone.                                         *)
LEMMA LeadingZeros ==
  ASSUME NEW radix \in Nat, NEW s \in Seq(Int), NEW t \in Seq(Int),
         Len(t) <= Len(s),
         \A m \in 1 .. Len(s) - Len(t) : s[m] = 0,
         \A m \in 1 .. Len(t) : s[Len(s) - Len(t) + m] = t[m]
  PROVE  ValuesOf(radix, s)[Len(s)] = ValuesOf(radix, t)[Len(t)]
<1> DEFINE zeros == Len(s) - Len(t)
           n == Len(t)
           j == 0
<1>1. /\ zeros \in 0 .. Len(s) /\ n \in Nat /\ zeros + n = Len(s)
      /\ j \in 0 .. Len(t) /\ j + n = Len(t)
  OBVIOUS
<1>2. ValuesOf(radix, s)[zeros] = 0
  BY <1>1, ZerosCountNothing
<1>3. ValuesOf(radix, t)[j] = 0
  BY ValuesDefined
<1>4. \A m \in 1 .. n : s[zeros + m] = t[j + m]
  OBVIOUS
<1> HIDE DEF zeros, n, j
<1>5. ValuesOf(radix, s)[zeros + n] = ValuesOf(radix, t)[j + n]
  <2>1. zeros + n <= Len(s) /\ j + n <= Len(t)
    BY ONLY <1>1, s \in Seq(Int), t \in Seq(Int)
  <2>2. ValuesOf(radix, s)[zeros] = ValuesOf(radix, t)[j]
    BY ONLY <1>2, <1>3
  <2> QED BY ONLY <1>1, <1>4, <2>1, <2>2, ValuesAgree, radix \in Nat, s \in Seq(Int), t \in Seq(Int)
<1> QED BY <1>1, <1>5

LEMMA PrefixesAgree ==
  ASSUME NEW radix \in Nat, NEW s \in Seq(Int), NEW t \in Seq(Int),
         NEW n \in Nat, n <= Len(s), n <= Len(t), \A m \in 1 .. n : s[m] = t[m]
  PROVE  ValuesOf(radix, s)[n] = ValuesOf(radix, t)[n]
<1> DEFINE i == 0
<1>1. /\ i \in 0 .. Len(s) /\ i \in 0 .. Len(t)
      /\ i + n <= Len(s) /\ i + n <= Len(t) /\ i + n = n
  OBVIOUS
<1>2. ValuesOf(radix, s)[i] = ValuesOf(radix, t)[i]
  BY ValuesDefined
<1>3. \A m \in 1 .. n : s[i + m] = t[i + m]
  OBVIOUS
<1> HIDE DEF i
<1>4. ValuesOf(radix, s)[i + n] = ValuesOf(radix, t)[i + n]
  BY <1>1, <1>2, <1>3, ValuesAgree
<1> QED BY <1>1, <1>4

LEMMA ValueOfAppended ==
  ASSUME NEW radix \in Nat, NEW s \in Seq(Int), NEW x \in Int
  PROVE  ValuesOf(radix, Append(s, x))[Len(Append(s, x))] = ValuesOf(radix, s)[Len(s)] * radix + x
<1> DEFINE t == Append(s, x)
           n == Len(s)
<1>1. /\ t \in Seq(Int) /\ Len(t) = n + 1 /\ t[n + 1] = x /\ \A m \in 1 .. n : t[m] = s[m]
      /\ n \in Nat /\ n <= Len(s) /\ n <= Len(t)
  OBVIOUS
<1> HIDE DEF t, n
<1>2. ValuesOf(radix, t)[n] = ValuesOf(radix, s)[n]
  BY <1>1, PrefixesAgree
<1>3. ValuesOf(radix, t)[n + 1] = ValuesOf(radix, t)[n] * radix + t[n + 1]
  <2>1. n + 1 \in 1 .. Len(t) /\ (n + 1) - 1 = n
    BY <1>1
  <2>2. \A k \in 1 .. Len(t) : ValuesOf(radix, t)[k] = ValuesOf(radix, t)[k - 1] * radix + t[k]
    BY <1>1, ValuesDefined
  <2> QED BY ONLY <2>1, <2>2
<1> QED BY <1>1, <1>2, <1>3 DEF t, n

-----------------------------------------------------------------------------
(* SplitLength.  A length that is erased is missing from the total.        *)

LEMMA Removed ==
  ASSUME NEW s \in Seq(Nat), NEW i \in 1 .. Len(s)
  PROVE  /\ RemoveAt(s, i) \in Seq(Nat)
         /\ Len(RemoveAt(s, i)) = Len(s) - 1
         /\ \A m \in 1 .. Len(s) - 1 : RemoveAt(s, i)[m] = IF m < i THEN s[m] ELSE s[m + 1]
<1> DEFINE a == SubSeq(s, 1, i - 1)
           b == SubSeq(s, i + 1, Len(s))
<1>1. i \in 1 .. Len(s) /\ Len(s) \in Nat
  OBVIOUS
<1>2. a \in Seq(Nat) /\ Len(a) = i - 1 /\ \A m \in 1 .. i - 1 : a[m] = s[m]
  BY <1>1
<1>3. b \in Seq(Nat) /\ Len(b) = Len(s) - i /\ \A m \in 1 .. Len(s) - i : b[m] = s[m + i]
  BY <1>1
<1> HIDE DEF a, b
<1>4. /\ a \o b \in Seq(Nat) /\ Len(a \o b) = Len(a) + Len(b)
      /\ \A m \in 1 .. Len(a) + Len(b) : (a \o b)[m] = IF m <= Len(a) THEN a[m] ELSE b[m - Len(a)]
  BY ONLY <1>2, <1>3, ConcatProperties, Zenon
<1>5. RemoveAt(s, i) = a \o b
  BY DEF RemoveAt, a, b
<1>6. Len(a \o b) = Len(s) - 1
  BY ONLY <1>1, <1>2, <1>3, <1>4
<1>7. ASSUME NEW m \in 1 .. Len(s) - 1 PROVE (a \o b)[m] = IF m < i THEN s[m] ELSE s[m + 1]
  <2>1. (a \o b)[m] = IF m <= Len(a) THEN a[m] ELSE b[m - Len(a)]
    <3>1. Len(s) - 1 = Len(a) + Len(b)
      BY ONLY <1>1, <1>2, <1>3
    <3> QED BY ONLY <1>4, <3>1, m \in 1 .. Len(s) - 1, Zenon
  <2>2. CASE m < i
    <3>1. m \in 1 .. i - 1 /\ m <= Len(a)
      BY <1>1, <1>2, <2>2
    <3> QED BY ONLY <1>2, <2>1, <2>2, <3>1
  <2>3. CASE ~(m < i)
    <3>1. ~(m <= Len(a)) /\ m - Len(a) \in 1 .. Len(s) - i /\ (m - Len(a)) + i = m + 1
      BY <1>1, <1>2, <2>3
    <3> QED BY ONLY <1>3, <2>1, <2>3, <3>1
  <2> QED BY <2>2, <2>3
<1> QED BY ONLY <1>4, <1>5, <1>6, <1>7

(* Totals go from one length to the next.                                  *)
LEMMA TotalsDefined ==
  ASSUME NEW s \in Seq(Nat)
  PROVE  LET u == ValuesOf(1, s)
         IN  /\ u[0] = 0
             /\ \A n \in 1 .. Len(s) : u[n] = u[n - 1] + s[n]
             /\ \A n \in 0 .. Len(s) : u[n] \in Int
<1> DEFINE one == 1
           u == ValuesOf(one, s)
<1>1. s \in Seq(Int) /\ one \in Nat /\ Len(s) \in Nat
  OBVIOUS
<1>2. \A x \in Int : x * one = x
  OBVIOUS
<1> HIDE DEF one
<1>3. /\ u[0] = 0
      /\ \A n \in 1 .. Len(s) : u[n] = u[n - 1] * one + s[n]
      /\ \A n \in 0 .. Len(s) : u[n] \in Int
  BY <1>1, ValuesDefined
<1> HIDE DEF u
<1>4. ASSUME NEW n \in 1 .. Len(s) PROVE u[n] = u[n - 1] + s[n]
  <2>1. u[n - 1] \in Int
    BY <1>1, <1>3
  <2>2. u[n] = u[n - 1] * one + s[n]
    BY <1>3
  <2> QED BY ONLY <1>2, <2>1, <2>2
<1> QED BY ONLY <1>3, <1>4 DEF u, one

LEMMA TotalOfRemoved ==
  ASSUME NEW s \in Seq(Nat), NEW i \in 1 .. Len(s)
  PROVE  Total(RemoveAt(s, i)) = Total(s) - s[i]
<1> DEFINE t == RemoveAt(s, i)
           one == 1
           h == i - 1
           u == ValuesOf(one, s)
           v == ValuesOf(one, t)
           n == Len(s) - i
           T == {k \in Nat : v[h + k] = u[i + k] - s[i]}
<1>0. /\ s \in Seq(Int) /\ i \in 1 .. Len(s) /\ Len(s) \in Nat /\ n \in Nat /\ one \in Nat
      /\ h \in Nat /\ h + 1 = i /\ i + n = Len(s)
  <2>1. Len(s) \in Nat /\ s \in Seq(Int)
    OBVIOUS
  <2> QED BY <2>1
<1>1. /\ t \in Seq(Nat) /\ Len(t) = Len(s) - 1
      /\ \A m \in 1 .. Len(s) - 1 : t[m] = IF m < i THEN s[m] ELSE s[m + 1]
  BY Removed
<1> HIDE DEF t, h, n
<1>2. t \in Seq(Int)
  BY <1>1
<1>3. /\ \A k \in 1 .. Len(s) : u[k] = u[k - 1] + s[k]
      /\ \A k \in 0 .. Len(s) : u[k] \in Int
  BY TotalsDefined
<1>4. /\ \A k \in 1 .. Len(t) : v[k] = v[k - 1] + t[k]
      /\ \A k \in 0 .. Len(t) : v[k] \in Int
  BY <1>1, TotalsDefined
<1>5. v[h] = u[h]
  <2>1. h <= Len(s) /\ h <= Len(t) /\ \A m \in 1 .. h : t[m] = s[m]
    <3>1. h <= Len(s) - 1
      BY ONLY <1>0
    <3>2. ASSUME NEW m \in 1 .. h PROVE t[m] = s[m]
      <4>1. m \in 1 .. Len(s) - 1 /\ m < i
        BY ONLY <1>0, <3>1, m \in 1 .. h
      <4> QED BY ONLY <1>1, <4>1
    <3>3. h <= Len(s) /\ h <= Len(t)
      BY ONLY <1>0, <1>1, <3>1
    <3> QED BY ONLY <3>2, <3>3
  <2> HIDE DEF one
  <2> QED BY ONLY <1>0, <1>2, <2>1, PrefixesAgree DEF u, v
<1> HIDE DEF u, v, one
<1>6. 0 \in T
  <2>1. h = i - 1 /\ h \in 0 .. Len(s) /\ s[i] \in Int /\ h + 0 = h /\ i + 0 = i
    BY <1>0
  <2>2. u[i] = u[h] + s[i] /\ u[h] \in Int
    BY ONLY <1>0, <1>3, <2>1
  <2>3. v[h] = u[i] - s[i]
    BY ONLY <1>5, <2>1, <2>2
  <2> QED BY <2>1, <2>3
<1>7. \A k \in 0 .. n - 1 : k \in T => k + 1 \in T
  <2> SUFFICES ASSUME NEW k \in 0 .. n - 1, k \in T PROVE v[h + (k + 1)] = u[i + (k + 1)] - s[i]
    OBVIOUS
  <2>1. /\ i + (k + 1) \in 1 .. Len(s) /\ (i + (k + 1)) - 1 = i + k /\ i + k \in 0 .. Len(s)
        /\ h + (k + 1) = i + k /\ i + k \in 1 .. Len(t) /\ (i + k) - 1 = h + k
        /\ h + k \in 0 .. Len(t) /\ (i + k) + 1 = i + (k + 1) /\ ~(i + k < i)
        /\ i + k \in 1 .. Len(s) - 1
    <3>1. k \in Nat /\ k + 1 <= n /\ i \in Nat /\ 1 <= i /\ Len(t) = Len(s) - 1
      BY <1>0, <1>1
    <3> QED BY ONLY <1>0, <3>1
  <2>2. u[i + (k + 1)] = u[i + k] + s[i + (k + 1)] /\ u[i + k] \in Int
    BY ONLY <1>3, <2>1
  <2>3. v[h + (k + 1)] = v[h + k] + t[i + k]
    BY ONLY <1>4, <2>1
  <2>4. t[i + k] = s[i + (k + 1)]
    BY ONLY <1>1, <2>1
  <2>5. v[h + k] = u[i + k] - s[i]
    OBVIOUS
  <2>6. s[i] \in Int /\ s[i + (k + 1)] \in Int
    BY <1>0, <2>1
  <2>7. v[h + (k + 1)] = (u[i + k] - s[i]) + s[i + (k + 1)]
    BY ONLY <2>3, <2>4, <2>5, Zenon
  <2>8. (u[i + k] - s[i]) + s[i + (k + 1)] = (u[i + k] + s[i + (k + 1)]) - s[i]
    BY ONLY <2>2, <2>6
  <2> QED BY ONLY <2>2, <2>7, <2>8, Zenon
<1> HIDE DEF T
<1>8. n \in T
  <2>1. \A k \in 0 .. n : k \in T
    BY ONLY <1>0, <1>6, <1>7, AllUpTo
  <2> QED BY <1>0, <2>1
<1>9. v[h + n] = u[i + n] - s[i] /\ h + n = Len(t) /\ i + n = Len(s)
  BY <1>0, <1>1, <1>8 DEF T
<1> QED BY ONLY <1>9 DEF Total, u, v, one, t

LEMMA TotalOfAppended ==
  ASSUME NEW s \in Seq(Nat), NEW x \in Nat
  PROVE  Total(Append(s, x)) = Total(s) + x /\ Total(s) \in Int
<1> DEFINE one == 1
<1>1. s \in Seq(Int) /\ x \in Int /\ one \in Nat /\ Len(s) \in Nat
  OBVIOUS
<1>2. Total(s) \in Int
  BY <1>1, ValuesDefined DEF Total
<1>3. \A k \in Int : k * one = k
  OBVIOUS
<1> HIDE DEF one
<1>4. ValuesOf(one, Append(s, x))[Len(Append(s, x))] = ValuesOf(one, s)[Len(s)] * one + x
  BY ONLY <1>1, ValueOfAppended
<1> QED BY <1>2, <1>3, <1>4 DEF Total, one

LEMMA TotalOfNone == Total(<<>>) = 0
<1> DEFINE none == <<>>
           one == 1
<1>1. none \in Seq(Int) /\ Len(none) = 0 /\ one \in Nat
  OBVIOUS
<1> HIDE DEF none, one
<1>2. ValuesOf(one, none)[0] = 0
  BY <1>1, ValuesDefined
<1> QED BY <1>1, <1>2 DEF Total, none, one

LEMMA CodeInitRoom == CodeInit => RoomInv
<1> SUFFICES ASSUME CodeInit, work = "room" PROVE RoomInv
  BY DEF RoomInv
<1>1. given \in 0 .. MaxRoom /\ size \in 1 .. MaxLengths
  BY DEF CodeInit, Start
<1>2. coded = <<>> /\ result = <<>> /\ room = given /\ coding = "start"
  BY DEF CodeInit, Nothing
<1>3. given \in Nat /\ size \in Nat
  BY <1>1, EncodingsAssumption
<1>4. Total(coded) + Total(result) + room = given
  BY <1>2, <1>3, TotalOfNone
<1> QED BY <1>2, <1>3, <1>4 DEF RoomInv

(* A length drawn leaves as much less room.                                *)
LEMMA DrawRoom == RoomInv /\ Draw => RoomInv'
<1> SUFFICES ASSUME RoomInv, Draw PROVE RoomInv'
  OBVIOUS
<1>1. /\ coded \in Seq(Nat) /\ result = <<>> /\ room \in Nat /\ size \in Nat /\ given \in Nat
      /\ Len(coded) <= size /\ Total(coded) + Total(result) + room = given
      /\ work = "room" /\ coding = "start"
  BY DEF Draw, RoomInv
<1>2. work' = work /\ given' = given /\ size' = size /\ result' = result
  BY DEF Draw
<1>3. CASE Len(coded) < size
  <2>1. PICK cur \in Drawn(room) :
          coded' = Append(coded, cur) /\ room' = room - cur /\ coding' = coding
    BY <1>3 DEF Draw
  <2>2. cur \in Nat /\ room' \in Nat
    BY <1>1, <2>1 DEF Drawn
  <2>3. coded' \in Seq(Nat) /\ Len(coded') <= size
    BY <1>1, <1>3, <2>1, <2>2
  <2>4. Total(coded') = Total(coded) + cur /\ Total(coded) \in Int
    BY <1>1, <2>1, <2>2, TotalOfAppended
  <2>5. Total(result) = 0
    BY <1>1, TotalOfNone
  <2>6. Total(coded') + Total(result) + room' = given
    BY ONLY <1>1, <2>1, <2>2, <2>4, <2>5
  <2> QED BY <1>1, <1>2, <2>1, <2>2, <2>3, <2>6 DEF RoomInv
<1>4. CASE ~(Len(coded) < size)
  <2>1. coding' = "coded" /\ coded' = coded /\ room' = room
    BY <1>4 DEF Draw
  <2>2. Len(coded) + Len(result) = size
    BY <1>1, <1>4
  <2> QED BY <1>1, <1>2, <2>1, <2>2 DEF RoomInv
<1> QED BY <1>3, <1>4

(* A length taken goes from what is left to what is given.                 *)
LEMMA ShuffleRoom == RoomInv /\ Shuffle => RoomInv'
<1> SUFFICES ASSUME RoomInv, Shuffle PROVE RoomInv'
  OBVIOUS
<1>1. /\ coded \in Seq(Nat) /\ result \in Seq(Nat) /\ room \in Nat /\ size \in Nat /\ given \in Nat
      /\ Len(coded) + Len(result) = size /\ Total(coded) + Total(result) + room = given
      /\ work = "room" /\ coding = "coded"
  BY DEF Shuffle, RoomInv
<1>2. work' = work /\ given' = given /\ size' = size /\ room' = room
  BY DEF Shuffle
<1>3. CASE Len(result) < size
  <2>1. PICK i \in DOMAIN coded :
          result' = Append(result, coded[i]) /\ coded' = RemoveAt(coded, i) /\ coding' = coding
    BY <1>3 DEF Shuffle, Without
  <2>2. i \in 1 .. Len(coded) /\ coded[i] \in Nat
    BY <1>1
  <2>3. coded' \in Seq(Nat) /\ Len(coded') = Len(coded) - 1
    BY <1>1, <2>1, <2>2, Removed
  <2>4. result' \in Seq(Nat) /\ Len(result') = Len(result) + 1
    BY <1>1, <2>1, <2>2
  <2>5. Total(result') = Total(result) + coded[i] /\ Total(result) \in Int
    BY <1>1, <2>1, <2>2, TotalOfAppended
  <2>6. Total(coded') = Total(coded) - coded[i]
    BY <1>1, <2>1, <2>2, TotalOfRemoved
  <2>7. Total(coded) \in Int
    BY <1>1, <2>2, TotalOfAppended
  <2>8. Total(coded') + Total(result') + room' = given
    BY ONLY <1>1, <1>2, <2>2, <2>5, <2>6, <2>7
  <2>9. Len(coded') + Len(result') = size
    <3>1. Len(coded) \in Nat /\ Len(result) \in Nat /\ Len(coded) + Len(result) = size
      BY <1>1
    <3>2. Len(coded') = Len(coded) - 1 /\ Len(result') = Len(result) + 1
      BY <2>3, <2>4
    <3> QED BY ONLY <3>1, <3>2
  <2> QED BY <1>1, <1>2, <2>1, <2>3, <2>4, <2>8, <2>9 DEF RoomInv
<1>4. CASE ~(Len(result) < size)
  <2>1. coding' = "done" /\ coded' = coded /\ result' = result
    BY <1>4 DEF Shuffle
  <2>2. coded = <<>>
    BY <1>1, <1>4
  <2> QED BY <1>1, <1>2, <2>1, <2>2 DEF RoomInv
<1> QED BY <1>3, <1>4

LEMMA CodeNextRoom ==
  ASSUME RoomInv, [CodeNext]_codeVars PROVE RoomInv'
<1> SUFFICES ASSUME work' = "room" PROVE RoomInv'
  BY DEF RoomInv
<1>1. CASE Draw \/ Shuffle
  BY <1>1, DrawRoom, ShuffleRoom
<1>2. CASE Pad \/ Decrypted \/ Unpad \/ Sign \/ ReadSignature \/ RandomPad \/ FixedPad
  BY <1>2 DEF Pad, Decrypted, Unpad, Sign, ReadSignature, RandomPad, FixedPad, Encode, Decode
<1>3. CASE UNCHANGED codeVars
  BY <1>3 DEF codeVars, RoomInv
<1> QED BY <1>1, <1>2, <1>3 DEF CodeNext

(* However much room there is and however often it is cut, every field     *)
(* gets one of the lengths drawn, each is given away once, and together    *)
(* they are what was drawn (SplitLength of the mutator).                   *)
THEOREM LengthsShareRoom == CodeSpec => []LengthsFit
<1>1. CodeInit => RoomInv
  BY CodeInitRoom
<1>2. RoomInv /\ [CodeNext]_codeVars => RoomInv'
  BY CodeNextRoom
<1>3. RoomInv => LengthsFit
  <2> SUFFICES ASSUME RoomInv, work = "room", coding = "done"
               PROVE  /\ Len(result) = size /\ coded = <<>>
                      /\ Total(result) = given - room
    BY DEF LengthsFit
  <2>1. /\ coded = <<>> /\ result \in Seq(Nat) /\ room \in Nat /\ size \in Nat /\ given \in Nat
        /\ Len(coded) + Len(result) = size /\ Total(coded) + Total(result) + room = given
    BY DEF RoomInv
  <2>2. Total(coded) = 0 /\ Len(coded) = 0
    BY <2>1, TotalOfNone
  <2>3. Total(result) \in Int
    <3> DEFINE x == 0
    <3>1. x \in Nat
      OBVIOUS
    <3> HIDE DEF x
    <3> QED BY <2>1, <3>1, TotalOfAppended
  <2>4. Total(result) = given - room
    <3>1. given \in Nat /\ room \in Nat /\ Total(coded) + Total(result) + room = given
      BY ONLY <2>1
    <3> QED BY ONLY <2>2, <2>3, <3>1
  <2>5. Len(result) = size
    <3>1. Len(result) \in Nat
      BY <2>1
    <3> QED BY ONLY <2>1, <2>2, <3>1
  <2> QED BY ONLY <2>1, <2>4, <2>5
<1> QED BY <1>1, <1>2, <1>3, PTL DEF CodeSpec

-----------------------------------------------------------------------------
(* What is signed.                                                         *)

LEMMA ByteRange == Byte \subseteq Int /\ 0 \in Byte /\ Radix - 1 \in Byte /\ Radix \in Nat
BY EncodingsAssumption DEF Byte

LEMMA BytesAreInts == ASSUME NEW s \in Seq(Byte) PROVE s \in Seq(Int)
<1>1. Byte \subseteq Int
  BY ByteRange
<1>2. Len(s) \in Nat /\ s = [i \in 1 .. Len(s) |-> s[i]] /\ \A i \in 1 .. Len(s) : s[i] \in Byte
  OBVIOUS
<1>3. \A i \in 1 .. Len(s) : s[i] \in Int
  BY ONLY <1>1, <1>2
<1> QED BY ONLY <1>2, <1>3

LEMMA MinOfTwo ==
  ASSUME NEW a \in Int, NEW b \in Int
  PROVE  Min({a, b}) = IF a <= b THEN a ELSE b
<1> DEFINE m == IF a <= b THEN a ELSE b
<1>1. m \in {a, b} /\ \A y \in {a, b} : m <= y
  OBVIOUS
<1>2. \A x \in {a, b} : (\A y \in {a, b} : x <= y) => x = m
  OBVIOUS
<1> HIDE DEF m
<1>3. (CHOOSE x \in {a, b} : \A y \in {a, b} : x <= y) = m
  BY ONLY <1>1, <1>2
<1> QED BY <1>3 DEF Min, m

LEMMA ShortenedIs ==
  ASSUME NEW content \in Seq(Byte), NEW n \in Nat
  PROVE  /\ Shortened(content, n) \in Seq(Byte)
         /\ Len(Shortened(content, n)) = IF n <= Len(content) THEN n ELSE Len(content)
         /\ \A m \in 1 .. Len(Shortened(content, n)) : Shortened(content, n)[m] = content[m]
<1> DEFINE k == Min({n, Len(content)})
<1>1. k = (IF n <= Len(content) THEN n ELSE Len(content)) /\ Len(content) \in Nat
  BY MinOfTwo
<1> HIDE DEF k
<1>2. k \in Nat /\ k <= Len(content)
  BY <1>1
<1>3. Shortened(content, n) = SubSeq(content, 1, k)
  BY DEF Shortened, k
<1>4. SubSeq(content, 1, k) \in Seq(Byte) /\ Len(SubSeq(content, 1, k)) = k
      /\ \A m \in 1 .. k : SubSeq(content, 1, k)[m] = content[m]
  BY <1>2
<1> QED BY ONLY <1>1, <1>3, <1>4

(* Shortening takes off what is behind.                                    *)
LEMMA ShortenedBefore ==
  ASSUME NEW s \in Seq(Byte), NEW t \in Seq(Byte), NEW n \in Nat,
         Len(s) = n \/ (t = <<>> /\ Len(s) <= n)
  PROVE  Shortened(s \o t, n) = s
<1> DEFINE w == s \o t
           x == Shortened(w, n)
<1>1. /\ w \in Seq(Byte) /\ Len(w) = Len(s) + Len(t) /\ Len(s) \in Nat /\ Len(t) \in Nat
      /\ \A m \in 1 .. Len(s) : w[m] = s[m]
  OBVIOUS
<1> HIDE DEF w
<1>2. /\ x \in Seq(Byte) /\ Len(x) = IF n <= Len(w) THEN n ELSE Len(w)
      /\ \A m \in 1 .. Len(x) : x[m] = w[m]
  BY <1>1, ShortenedIs
<1> HIDE DEF x
<1>3. Len(x) = Len(s)
  <2>1. t = <<>> => Len(t) = 0
    OBVIOUS
  <2> QED BY <1>1, <1>2, <2>1
<1>4. \A m \in 1 .. Len(s) : x[m] = s[m]
  BY ONLY <1>1, <1>2, <1>3
<1>5. x = s
  BY ONLY <1>2, <1>3, <1>4, s \in Seq(Byte), SeqEqual
<1> QED BY <1>5 DEF x, w

LEMMA FilledWithZeros ==
  ASSUME NEW z \in Nat
  PROVE  Filled(z, 0) \in Seq(Byte) /\ Len(Filled(z, 0)) = z /\ \A m \in 1 .. z : Filled(z, 0)[m] = 0
BY ByteRange DEF Filled

(* Zeros to the left leave the number as it is.                            *)
LEMMA ZerosBefore ==
  ASSUME NEW z \in Nat, NEW s \in Seq(Byte)
  PROVE  /\ Filled(z, 0) \o s \in Seq(Byte) /\ Len(Filled(z, 0) \o s) = z + Len(s)
         /\ BinToDec(Filled(z, 0) \o s) = BinToDec(s)
<1> DEFINE f == Filled(z, 0)
           w == f \o s
<1>1. f \in Seq(Byte) /\ Len(f) = z /\ \A m \in 1 .. z : f[m] = 0
  BY FilledWithZeros
<1> HIDE DEF f
<1>2. /\ w \in Seq(Byte) /\ Len(w) = Len(f) + Len(s)
      /\ \A m \in 1 .. Len(f) + Len(s) : w[m] = IF m <= Len(f) THEN f[m] ELSE s[m - Len(f)]
  BY ONLY <1>1, s \in Seq(Byte), ConcatProperties, Zenon
<1>3. Len(s) \in Nat /\ Len(w) = z + Len(s) /\ Len(w) - Len(s) = z
  BY <1>1, <1>2
<1> HIDE DEF w
<1>4. \A m \in 1 .. Len(w) - Len(s) : w[m] = 0
  BY ONLY <1>1, <1>2, <1>3
<1>5. ASSUME NEW m \in 1 .. Len(s) PROVE w[Len(w) - Len(s) + m] = s[m]
  <2>1. z + m \in 1 .. Len(f) + Len(s) /\ ~(z + m <= Len(f)) /\ (z + m) - Len(f) = m
    BY ONLY <1>1, <1>3, m \in 1 .. Len(s), z \in Nat
  <2>2. w[z + m] = s[m]
    BY ONLY <1>2, <2>1
  <2> QED BY <1>3, <2>2
<1>6. w \in Seq(Int) /\ s \in Seq(Int) /\ Len(s) <= Len(w)
  BY <1>2, <1>3, BytesAreInts
<1>7. ValuesOf(Radix, w)[Len(w)] = ValuesOf(Radix, s)[Len(s)]
  BY ONLY <1>4, <1>5, <1>6, LeadingZeros, ByteRange
<1> QED BY ONLY <1>2, <1>3, <1>7 DEF BinToDec, w, f

(* So does taking them off.                                                *)
LEMMA WithoutZerosKeeps ==
  ASSUME NEW s \in Seq(Byte)
  PROVE  /\ WithoutZeros(s) \in Seq(Byte) /\ Len(WithoutZeros(s)) <= Len(s)
         /\ BinToDec(WithoutZeros(s)) = BinToDec(s)
<1> DEFINE Some == {i \in 1 .. Len(s) : s[i] # 0}
           p == Stripped(s)
           w == WithoutZeros(s)
<1>0. Len(s) \in Nat /\ Some \in SUBSET Nat /\ s \in Seq(Int)
  BY BytesAreInts
<1>1. p = IF Some # {} THEN Min(Some) ELSE 0
  BY DEF Stripped, SelectInSeq
<1>2. CASE Some = {}
  <2>1. p = 0 /\ w = <<>>
    BY <1>1, <1>2 DEF WithoutZeros
  <2>2. ValuesOf(Radix, s)[Len(s)] = 0
    <3> DEFINE n == Len(s)
    <3>1. n \in 0 .. Len(s) /\ \A m \in 1 .. n : s[m] = 0
      BY <1>0, <1>2
    <3> HIDE DEF n
    <3>2. ValuesOf(Radix, s)[n] = 0
      BY ONLY <1>0, <3>1, ByteRange, ZerosCountNothing
    <3> QED BY <3>2 DEF n
  <2>3. ValuesOf(Radix, w)[Len(w)] = 0
    <3>1. w \in Seq(Int) /\ Len(w) = 0
      BY <2>1
    <3> HIDE DEF w
    <3>2. ValuesOf(Radix, w)[0] = 0
      BY <3>1, ByteRange, ValuesDefined
    <3> QED BY <3>1, <3>2
  <2> QED BY <1>0, <2>1, <2>2, <2>3 DEF BinToDec
<1>3. CASE Some # {}
  <2>1. p \in Some /\ \A y \in Some : p <= y
    <3>1. \E x \in Some : \A y \in Some : x <= y
      <4> HIDE DEF Some
      <4> QED BY <1>0, <1>3, LeastOf
    <3>2. p = CHOOSE x \in Some : \A y \in Some : x <= y
      BY <1>1, <1>3 DEF Min
    <3> HIDE DEF Some, p
    <3> QED BY ONLY <3>1, <3>2
  <2>2. p \in 1 .. Len(s) /\ \A m \in 1 .. p - 1 : s[m] = 0
    <3> HIDE DEF p
    <3> QED BY <1>0, <2>1
  <2> HIDE DEF p, Some
  <2>3. w = SubSeq(s, p, Len(s))
    <3>1. Stripped(s) = p /\ p # 0
      BY <1>0, <2>2 DEF p
    <3> QED BY ONLY <3>1 DEF WithoutZeros
  <2>4. /\ w \in Seq(Byte) /\ Len(w) = Len(s) - (p - 1)
        /\ \A m \in 1 .. Len(s) - (p - 1) : w[m] = s[(p - 1) + m]
    <3> HIDE DEF w
    <3> QED BY <1>0, <2>2, <2>3
  <2> HIDE DEF w
  <2>5. w \in Seq(Int) /\ Len(w) <= Len(s) /\ Len(s) - Len(w) = p - 1
    BY <1>0, <2>2, <2>4, BytesAreInts
  <2>6. \A m \in 1 .. Len(s) - Len(w) : s[m] = 0
    BY <2>2, <2>5
  <2>7. \A m \in 1 .. Len(w) : s[Len(s) - Len(w) + m] = w[m]
    BY ONLY <2>4, <2>5
  <2>8. ValuesOf(Radix, s)[Len(s)] = ValuesOf(Radix, w)[Len(w)]
    BY ONLY <1>0, <2>5, <2>6, <2>7, ByteRange, LeadingZeros
  <2> QED BY ONLY <2>4, <2>5, <2>8 DEF BinToDec, w
<1> QED BY <1>2, <1>3

(* ECDSA_Pad keeps the number.                                             *)
LEMMA PadKeeps ==
  ASSUME NEW content \in Seq(Byte), NEW n \in Nat
  PROVE  BinToDec(Shortened(ECDSA_Pad(content, n), n)) = BinToDec(Shortened(content, n))
<1> DEFINE s == Shortened(content, n)
           z == n - Len(s)
           w == Filled(z, 0) \o s
           rest == <<>>
<1>1. s \in Seq(Byte) /\ Len(s) = IF n <= Len(content) THEN n ELSE Len(content)
  BY ShortenedIs
<1> HIDE DEF s
<1>2. z \in Nat /\ z + Len(s) = n
  <2>1. Len(content) \in Nat /\ Len(s) \in Nat
    BY <1>1
  <2> QED BY <1>1, <2>1
<1> HIDE DEF z
<1>3. w \in Seq(Byte) /\ Len(w) = n /\ BinToDec(w) = BinToDec(s)
  BY <1>1, <1>2, ZerosBefore
<1>4. ECDSA_Pad(content, n) = w
  BY DEF ECDSA_Pad, z, s
<1> HIDE DEF w
<1>5. w \o rest = w /\ rest \in Seq(Byte)
  BY <1>3
<1> HIDE DEF rest
<1>6. Shortened(w \o rest, n) = w
  BY ONLY <1>3, <1>5, n \in Nat, ShortenedBefore
<1> QED BY ONLY <1>3, <1>4, <1>5, <1>6 DEF s

(* And so does ECDSA_RandomPad, whatever it inserts: first zeros up to the *)
(* curve's size, then bytes that nobody looks at.                          *)
LEMMA RandomPadKeeps ==
  ASSUME NEW content \in Seq(Byte), NEW n \in Nat \ {0}, NEW padded \in ECDSA_RandomPads(content, n)
  PROVE  BinToDec(Shortened(padded, n)) = BinToDec(Shortened(content, n))
<1> DEFINE s == Shortened(content, n)
           t == WithoutZeros(s)
<1>1. s \in Seq(Byte) /\ Len(s) <= n
  <2>1. s \in Seq(Byte) /\ (Len(s) = IF n <= Len(content) THEN n ELSE Len(content)) /\ Len(content) \in Nat
    BY ShortenedIs
  <2> HIDE DEF s
  <2> QED BY <2>1
<1>2. PICK numInserts \in 0 .. MaxInserts :
        \E more \in [1 .. numInserts - Zeros(t, n, numInserts) -> {0, Radix - 1}] :
          padded = Filled(Zeros(t, n, numInserts), 0) \o t \o more
  <2>1. n # 0
    OBVIOUS
  <2> HIDE DEF s
  <2> QED BY <2>1 DEF ECDSA_RandomPads, s
<1> DEFINE z == Zeros(t, n, numInserts)
<1> HIDE DEF s
<1>3. t \in Seq(Byte) /\ Len(t) <= Len(s) /\ BinToDec(t) = BinToDec(s)
  BY <1>1, WithoutZerosKeeps
<1> HIDE DEF t
<1>4. z = IF numInserts <= n - Len(t) THEN numInserts ELSE n - Len(t)
  BY <1>3, EncodingsAssumption, MinOfTwo DEF Zeros
<1>5. PICK more \in [1 .. numInserts - z -> {0, Radix - 1}] : padded = Filled(z, 0) \o t \o more
  BY <1>2
<1> HIDE DEF z
<1>6. z \in Nat /\ numInserts - z \in Nat /\ z + Len(t) <= n /\ (numInserts = z \/ z + Len(t) = n)
  <2>1. numInserts \in Nat /\ Len(t) \in Nat /\ Len(s) \in Nat /\ Len(t) <= n
    BY <1>1, <1>3, EncodingsAssumption
  <2> QED BY <1>4, <2>1
<1> DEFINE w == Filled(z, 0) \o t
<1>7. w \in Seq(Byte) /\ Len(w) = z + Len(t) /\ BinToDec(w) = BinToDec(t)
  BY <1>3, <1>6, ZerosBefore
<1>8. more \in Seq(Byte) /\ Len(more) = numInserts - z
  <2>1. {0, Radix - 1} \subseteq Byte
    BY ByteRange
  <2>2. more \in [1 .. numInserts - z -> Byte]
    BY ONLY <2>1, <1>5
  <2> QED BY ONLY <2>2, <1>6
<1> HIDE DEF w
<1>9. Len(w) = n \/ (more = <<>> /\ Len(w) <= n)
  <2>1. CASE numInserts = z
    <3>1. Len(more) = 0
      BY <1>6, <1>8, <2>1
    <3>2. more = <<>>
      BY ONLY <1>8, <3>1, EmptySeq
    <3> QED BY <1>6, <1>7, <3>2
  <2>2. CASE z + Len(t) = n
    BY <1>7, <2>2
  <2> QED BY <1>6, <2>1, <2>2
<1>10. Shortened(w \o more, n) = w
  BY ONLY <1>7, <1>8, <1>9, n \in Nat \ {0}, ShortenedBefore
<1> QED BY ONLY <1>3, <1>5, <1>7, <1>10 DEF w, s

-----------------------------------------------------------------------------
(* The digits of a number.                                                 *)

LEMMA Divided == ASSUME NEW n \in Nat, ~(n < Radix)
  PROVE  /\ n \div Radix \in 0 .. n - 1 /\ n % Radix \in Byte
         /\ n = (n \div Radix) * Radix + (n % Radix)
<1> DEFINE q == n \div Radix
           r == n % Radix
           product == q * Radix
<1>1. Radix \in Nat /\ 2 <= Radix
  BY EncodingsAssumption
<1>2. q \in Nat /\ r \in 0 .. Radix - 1 /\ n = Radix * q + r
  BY <1>1, Quotients
<1> HIDE DEF q, r
<1>3. Radix * q = product /\ product \in Nat
  BY <1>1, <1>2
<1>4. q = 0 => product = 0
  BY <1>1
<1>5. product >= q + q
  BY <1>1, <1>2
<1> HIDE DEF product
<1>6. n = product + r
  BY ONLY <1>2, <1>3
<1>7. q # 0
  BY <1>1, <1>2, <1>4, <1>6
<1>8. q < n
  BY ONLY <1>2, <1>3, <1>5, <1>6, <1>7, n \in Nat
<1> QED BY <1>2, <1>6, <1>8 DEF q, r, Byte, product

(* What holds of a number if it holds of all below, holds of all.          *)
LEMMA AllBelow ==
  ASSUME NEW T, \A n \in Nat : (\A m \in 0 .. n - 1 : m \in T) => n \in T
  PROVE  \A n \in Nat : n \in T
<1> DEFINE Missing == {n \in Nat : n \notin T}
<1> SUFFICES ASSUME Missing # {} PROVE FALSE
  OBVIOUS
<1>1. \E x \in Missing : \A y \in Missing : x <= y
  <2>1. Missing \in SUBSET Nat
    OBVIOUS
  <2> HIDE DEF Missing
  <2> QED BY <2>1, LeastOf
<1>2. PICK x \in Missing : \A y \in Missing : x <= y
  BY <1>1
<1>3. \A m \in 0 .. x - 1 : m \in T
  BY <1>2
<1> QED BY <1>2, <1>3

(* BytesOf, for numbers up to k.                                           *)
Spells(f, k) ==
  f = [n \in 0 .. k |-> IF n < Radix THEN <<n>> ELSE Append(f[n \div Radix], n % Radix)]

LEMMA SpellsEach ==
  ASSUME NEW f, NEW k \in Nat, Spells(f, k), NEW n \in 0 .. k
  PROVE  f[n] = IF n < Radix THEN <<n>> ELSE Append(f[n \div Radix], n % Radix)
<1>1. PICK g : g = [m \in 0 .. k |-> IF m < Radix THEN <<m>> ELSE Append(f[m \div Radix], m % Radix)] /\ g = f
  BY Zenon DEF Spells
<1>2. g[n] = IF n < Radix THEN <<n>> ELSE Append(f[n \div Radix], n % Radix)
  BY ONLY <1>1, n \in 0 .. k
<1> QED BY ONLY <1>1, <1>2, Zenon

LEMMA SpellsAlike ==
  ASSUME NEW f, NEW g, NEW k \in Nat, NEW l \in Nat, Spells(f, k), Spells(g, l)
  PROVE  \A n \in Nat : n <= k /\ n <= l => f[n] = g[n]
<1> DEFINE T == {n \in Nat : n <= k /\ n <= l => f[n] = g[n]}
<1>1. \A n \in Nat : (\A m \in 0 .. n - 1 : m \in T) => n \in T
  <2> SUFFICES ASSUME NEW n \in Nat, \A m \in 0 .. n - 1 : m \in T, n <= k, n <= l
               PROVE  f[n] = g[n]
    OBVIOUS
  <2>1. f[n] = IF n < Radix THEN <<n>> ELSE Append(f[n \div Radix], n % Radix)
    BY SpellsEach
  <2>2. g[n] = IF n < Radix THEN <<n>> ELSE Append(g[n \div Radix], n % Radix)
    BY SpellsEach
  <2>3. CASE n < Radix
    BY ONLY <2>1, <2>2, <2>3
  <2>4. CASE ~(n < Radix)
    <3>1. n \div Radix \in 0 .. n - 1
      BY <2>4, Divided
    <3> DEFINE q == n \div Radix
    <3> HIDE DEF q
    <3>2. q \in 0 .. n - 1
      BY <3>1 DEF q
    <3>3. f[q] = g[q]
      BY <3>2
    <3> QED BY ONLY <2>1, <2>2, <2>4, <3>3 DEF q
  <2> QED BY <2>3, <2>4
<1> HIDE DEF T
<1>2. \A n \in Nat : n \in T
  BY <1>1, AllBelow
<1> QED BY <1>2 DEF T

LEMMA SpellsSome == ASSUME NEW k \in Nat PROVE \E f : Spells(f, k)
<1> DEFINE T == {n \in Nat : \E f : Spells(f, n)}
<1>1. 0 \in T
  <2>1. 0 < Radix
    BY EncodingsAssumption
  <2>2. Spells([n \in 0 .. 0 |-> <<n>>], 0)
    BY <2>1 DEF Spells
  <2> QED BY <2>2
<1>2. \A n \in 0 .. k - 1 : n \in T => n + 1 \in T
  <2> SUFFICES ASSUME NEW n \in 0 .. k - 1, NEW f, Spells(f, n) PROVE \E g : Spells(g, n + 1)
    OBVIOUS
  <2> DEFINE x == n + 1
             last == IF x < Radix THEN <<x>> ELSE Append(f[x \div Radix], x % Radix)
             g == [m \in 0 .. x |-> IF m <= n THEN f[m] ELSE last]
  <2>1. x \in Nat /\ n \in Nat /\ 0 .. x = 0 .. n \cup {x} /\ x \notin 0 .. n
    OBVIOUS
  <2>2. ASSUME NEW m \in 0 .. x
        PROVE  g[m] = IF m < Radix THEN <<m>> ELSE Append(g[m \div Radix], m % Radix)
    <3>1. ~(m < Radix) => m \div Radix \in 0 .. m - 1
      <4>1. m \in Nat
        OBVIOUS
      <4> QED BY ONLY <4>1, Divided
    <3>2. ~(m < Radix) => g[m \div Radix] = f[m \div Radix]
      <4> SUFFICES ASSUME ~(m < Radix) PROVE g[m \div Radix] = f[m \div Radix]
        OBVIOUS
      <4> DEFINE q == m \div Radix
      <4>1. q \in 0 .. m - 1
        BY <3>1
      <4> HIDE DEF q
      <4>2. q \in 0 .. x /\ q <= n
        BY <4>1
      <4>3. g[q] = f[q]
        BY <4>2
      <4> QED BY <4>3 DEF q
    <3>3. CASE m \in 0 .. n
      <4>1. g[m] = f[m]
        BY <3>3
      <4>2. f[m] = IF m < Radix THEN <<m>> ELSE Append(f[m \div Radix], m % Radix)
        BY <2>1, <3>3, SpellsEach
      <4> HIDE DEF g
      <4> QED BY ONLY <3>2, <4>1, <4>2
    <3>4. CASE m = x
      <4>1. g[m] = last
        BY <3>4
      <4> HIDE DEF g
      <4> QED BY ONLY <3>2, <3>4, <4>1 DEF last
    <3> QED BY <2>1, <3>3, <3>4
  <2>3. Spells(g, x)
    <3> DEFINE h == [m \in 0 .. x |-> IF m < Radix THEN <<m>> ELSE Append(g[m \div Radix], m % Radix)]
    <3>1. \A m \in 0 .. x : g[m] = h[m]
      <4> HIDE DEF g
      <4> QED BY <2>2
    <3>2. DOMAIN g = 0 .. x /\ DOMAIN h = 0 .. x /\ g = [m \in 0 .. x |-> g[m]] /\ h = [m \in 0 .. x |-> h[m]]
      OBVIOUS
    <3>3. g = h
      <4> HIDE DEF g, h
      <4> QED BY ONLY <3>1, <3>2
    <3> HIDE DEF g
    <3> QED BY <3>3 DEF Spells
  <2> QED BY <2>3
<1> HIDE DEF T
<1>3. \A n \in 0 .. k : n \in T
  BY <1>1, <1>2, AllUpTo
<1> QED BY <1>3 DEF T

LEMMA BytesOfIs ==
  \A n \in Nat : BytesOf[n] = IF n < Radix THEN <<n>> ELSE Append(BytesOf[n \div Radix], n % Radix)
<1> DEFINE F(k) == CHOOSE f : Spells(f, k)
           g == [n \in Nat |-> F(n)[n]]
           body(h) == [n \in Nat |-> IF n < Radix THEN <<n>> ELSE Append(h[n \div Radix], n % Radix)]
<1>1. \A k \in Nat : Spells(F(k), k)
  <2> SUFFICES ASSUME NEW k \in Nat PROVE Spells(F(k), k)
    OBVIOUS
  <2>1. \E f : Spells(f, k)
    BY SpellsSome
  <2> QED BY ONLY <2>1
<1> HIDE DEF F
<1>2. ASSUME NEW n \in Nat
      PROVE  g[n] = IF n < Radix THEN <<n>> ELSE Append(g[n \div Radix], n % Radix)
  <2>1. F(n)[n] = IF n < Radix THEN <<n>> ELSE Append(F(n)[n \div Radix], n % Radix)
    <3>1. Spells(F(n), n) /\ n \in 0 .. n
      BY <1>1
    <3> QED BY <3>1, SpellsEach
  <2>2. g[n] = F(n)[n]
    OBVIOUS
  <2>3. CASE n < Radix
    BY ONLY <2>1, <2>2, <2>3
  <2>4. CASE ~(n < Radix)
    <3> DEFINE q == n \div Radix
    <3>1. q \in 0 .. n - 1
      BY <2>4, Divided
    <3> HIDE DEF q
    <3>2. q \in Nat /\ q <= n /\ q <= q
      BY <3>1
    <3>3. Spells(F(n), n) /\ Spells(F(q), q)
      BY <1>1, <3>2
    <3>4. F(n)[q] = F(q)[q]
      BY ONLY <3>2, <3>3, n \in Nat, SpellsAlike
    <3>5. g[q] = F(q)[q]
      BY <3>2
    <3> HIDE DEF g
    <3> QED BY ONLY <2>1, <2>2, <2>4, <3>4, <3>5 DEF q
  <2> QED BY <2>3, <2>4
<1>3. g = body(g)
  <2>1. \A n \in Nat : g[n] = body(g)[n]
    <3> HIDE DEF g
    <3> QED BY <1>2
  <2>2. g = [n \in Nat |-> g[n]] /\ body(g) = [n \in Nat |-> body(g)[n]]
    OBVIOUS
  <2> HIDE DEF g, body
  <2> QED BY ONLY <2>1, <2>2
<1> HIDE DEF g
<1>4. BytesOf = body(BytesOf)
  <2>1. BytesOf = CHOOSE h : h = body(h)
    BY DEF BytesOf
  <2>2. \E h : h = body(h)
    BY <1>3, Zenon
  <2> HIDE DEF body
  <2> QED BY ONLY <2>1, <2>2, Zenon
<1>5. PICK h : h = body(BytesOf) /\ h = BytesOf
  <2> HIDE DEF body
  <2> QED BY ONLY <1>4, Zenon
<1>6. \A n \in Nat : h[n] = IF n < Radix THEN <<n>> ELSE Append(BytesOf[n \div Radix], n % Radix)
  BY ONLY <1>5
<1> QED BY ONLY <1>5, <1>6, Zenon

(* The digits of a number have its value.                                  *)
LEMMA BytesSpell ==
  ASSUME NEW n \in Nat
  PROVE  BytesOf[n] \in Seq(Byte) /\ Len(BytesOf[n]) \in Nat \ {0} /\ BinToDec(BytesOf[n]) = n
<1> DEFINE T == {k \in Nat : /\ BytesOf[k] \in Seq(Byte) /\ Len(BytesOf[k]) \in Nat \ {0}
                             /\ BinToDec(BytesOf[k]) = k}
<1>1. ASSUME NEW k \in Nat, \A m \in 0 .. k - 1 : m \in T
      PROVE  k \in T
  <2>1. CASE k < Radix
    <3> DEFINE none == <<>>
    <3>1. BytesOf[k] = <<k>>
      BY <2>1, BytesOfIs
    <3>2. k \in Byte
      BY <2>1, ByteRange DEF Byte
    <3>3. Append(none, k) = <<k>> /\ none \in Seq(Int) /\ Len(none) = 0 /\ k \in Int
      OBVIOUS
    <3> HIDE DEF none
    <3>4. ValuesOf(Radix, none)[0] = 0
      BY ONLY <3>3, ByteRange, ValuesDefined
    <3>5. ValuesOf(Radix, Append(none, k))[Len(Append(none, k))] = ValuesOf(Radix, none)[Len(none)] * Radix + k
      BY ONLY <3>3, ByteRange, ValueOfAppended
    <3>6. BinToDec(<<k>>) = 0 * Radix + k
      BY ONLY <3>3, <3>4, <3>5 DEF BinToDec
    <3>7. 0 * Radix + k = k
      BY ByteRange
    <3> DEFINE s == <<k>>
    <3>8. s \in Seq(Byte) /\ Len(s) = 1
      BY <3>2
    <3> HIDE DEF s
    <3>9. BytesOf[k] = s
      BY ONLY <3>1 DEF s
    <3>10. BinToDec(s) = k
      BY ONLY <3>6, <3>7 DEF s
    <3> QED BY ONLY <3>8, <3>9, <3>10, k \in Nat
  <2>2. CASE ~(k < Radix)
    <3> DEFINE q == k \div Radix
               r == k % Radix
               s == BytesOf[q]
    <3>1. BytesOf[k] = Append(s, r)
      BY <2>2, BytesOfIs
    <3>2. q \in 0 .. k - 1 /\ r \in Byte /\ k = q * Radix + r
      BY <2>2, Divided
    <3> HIDE DEF q, r
    <3>3. s \in Seq(Byte) /\ BinToDec(s) = q
      BY <1>1, <3>2
    <3> HIDE DEF s
    <3>4. s \in Seq(Int) /\ r \in Int
      BY <3>2, <3>3, BytesAreInts, ByteRange
    <3>5. ValuesOf(Radix, Append(s, r))[Len(Append(s, r))] = ValuesOf(Radix, s)[Len(s)] * Radix + r
      BY ONLY <3>4, ByteRange, ValueOfAppended
    <3>6. BinToDec(Append(s, r)) = k
      BY ONLY <3>2, <3>3, <3>5 DEF BinToDec
    <3>7. Append(s, r) \in Seq(Byte) /\ Len(Append(s, r)) \in Nat \ {0}
      BY ONLY <3>2, <3>3
    <3> QED BY ONLY <3>1, <3>6, <3>7, k \in Nat
  <2> QED BY <2>1, <2>2
<1> HIDE DEF T
<1>2. \A k \in Nat : k \in T
  BY <1>1, AllBelow
<1> QED BY <1>2 DEF T

-----------------------------------------------------------------------------
(* Signatures.                                                             *)

LEMMA SignedKeeps ==
  ASSUME NEW s \in Seq(Byte)
  PROVE  /\ Signed(s) \in Seq(Byte) /\ Len(Signed(s)) \in {Len(s), Len(s) + 1}
         /\ BinToDec(Signed(s)) = BinToDec(s)
<1> DEFINE none == <<>>
           one == 1
<1>1. CASE High(s)
  <2>1. Filled(one, 0) = <<0>>
    BY DEF Filled
  <2> HIDE DEF one
  <2>2. Signed(s) = Filled(one, 0) \o s
    BY <1>1, <2>1 DEF Signed
  <2>3. one \in Nat /\ one + Len(s) = Len(s) + 1
    BY DEF one
  <2> QED BY ONLY <2>2, <2>3, s \in Seq(Byte), ZerosBefore
<1>2. CASE ~High(s)
  <2>1. Signed(s) = s
    BY <1>2 DEF Signed
  <2> QED BY <2>1
<1> QED BY <1>1, <1>2

LEMMA ConcatenatedIs ==
  ASSUME NEW s \in Seq(Int), NEW t \in Seq(Int), NEW w, w = s \o t
  PROVE  /\ w \in Seq(Int) /\ Len(w) = Len(s) + Len(t)
         /\ \A i \in 1 .. Len(s) : w[i] = s[i]
         /\ \A i \in 1 .. Len(t) : w[Len(s) + i] = t[i]
<1>1. /\ w \in Seq(Int) /\ Len(w) = Len(s) + Len(t)
      /\ \A i \in 1 .. Len(s) + Len(t) : w[i] = IF i <= Len(s) THEN s[i] ELSE t[i - Len(s)]
  <2>1. /\ s \o t \in Seq(Int) /\ Len(s \o t) = Len(s) + Len(t)
        /\ \A i \in 1 .. Len(s) + Len(t) : (s \o t)[i] = IF i <= Len(s) THEN s[i] ELSE t[i - Len(s)]
    BY ONLY s \in Seq(Int), t \in Seq(Int), ConcatProperties, Zenon
  <2> QED BY ONLY <2>1, w = s \o t, Zenon
<1>2. Len(s) \in Nat /\ Len(t) \in Nat
  OBVIOUS
<1>3. ASSUME NEW i \in 1 .. Len(s) PROVE w[i] = s[i]
  BY ONLY <1>1, <1>2, i \in 1 .. Len(s)
<1>4. ASSUME NEW i \in 1 .. Len(t) PROVE w[Len(s) + i] = t[i]
  <2>1. Len(s) + i \in 1 .. Len(s) + Len(t) /\ ~(Len(s) + i <= Len(s)) /\ (Len(s) + i) - Len(s) = i
    BY ONLY <1>2, i \in 1 .. Len(t)
  <2> QED BY ONLY <1>1, <2>1
<1> QED BY ONLY <1>1, <1>3, <1>4

(* Two integers enclosed are found where they were put.                    *)
LEMMA EnclosedHolds ==
  ASSUME NEW a \in Seq(Byte), NEW b \in Seq(Byte)
  PROVE  LET sa == Signed(a)
             sb == Signed(b)
             content == Enclosed(a, b)
         IN  /\ Len(content) = 6 + Len(sa) + Len(sb)
             /\ content[1] = Sequence /\ content[2] = (4 + Len(sa) + Len(sb)) % Radix
             /\ content[3] = Integer /\ content[4] = Len(sa)
             /\ SubSeq(content, 5, 4 + Len(sa)) = sa
             /\ content[5 + Len(sa)] = Integer /\ content[6 + Len(sa)] = Len(sb)
             /\ SubSeq(content, 7 + Len(sa), 6 + Len(sa) + Len(sb)) = sb
<1> DEFINE sa == Signed(a)
           sb == Signed(b)
           content == Enclosed(a, b)
           l == (4 + Len(sa) + Len(sb)) % Radix
<1>1. sa \in Seq(Int) /\ sb \in Seq(Int) /\ Len(sa) \in Nat /\ Len(sb) \in Nat
  BY SignedKeeps, BytesAreInts
<1>2. l \in Int /\ Sequence \in Int /\ Integer \in Int
  BY <1>1, EncodingsAssumption, ByteRange
<1>3. content = <<Sequence, l>> \o <<Integer, Len(sa)>> \o sa \o <<Integer, Len(sb)>> \o sb
  BY DEF Enclosed
<1> HIDE DEF sa, sb, l, content
<1> DEFINE h == <<Sequence, l>> \o <<Integer, Len(sa)>>
           f == h \o sa
           m == <<Integer, Len(sb)>>
           g == f \o m
           c == Len(sa)
           d == Len(sb)
<1>4. h \in Seq(Int) /\ Len(h) = 4 /\ h[1] = Sequence /\ h[2] = l /\ h[3] = Integer /\ h[4] = c
  BY <1>1, <1>2
<1>a. f = h \o sa /\ g = f \o m
  OBVIOUS
<1>b. content = g \o sb
  BY <1>3
<1>6. m \in Seq(Int) /\ Len(m) = 2 /\ m[1] = Integer /\ m[2] = d
  BY <1>1, <1>2
<1> HIDE DEF h, f, g, m
<1>5. /\ f \in Seq(Int) /\ Len(f) = 4 + c
      /\ \A i \in 1 .. 4 : f[i] = h[i]
      /\ \A i \in 1 .. c : f[4 + i] = sa[i]
  <2>1. sa \in Seq(Int) /\ h \in Seq(Int) /\ f = h \o sa
    BY <1>1, <1>4, <1>a
  <2>2. /\ f \in Seq(Int) /\ Len(f) = Len(h) + Len(sa)
        /\ \A i \in 1 .. Len(h) : f[i] = h[i]
        /\ \A i \in 1 .. Len(sa) : f[Len(h) + i] = sa[i]
    BY ONLY <2>1, ConcatenatedIs
  <2> QED BY ONLY <1>4, <2>2 DEF c
<1>7. /\ g \in Seq(Int) /\ Len(g) = 6 + c
      /\ \A i \in 1 .. 4 + c : g[i] = f[i]
      /\ g[5 + c] = m[1] /\ g[6 + c] = m[2]
  <2>0. f \in Seq(Int) /\ m \in Seq(Int) /\ g = f \o m
    BY ONLY <1>5, <1>6, <1>a
  <2>1. /\ g \in Seq(Int) /\ Len(g) = Len(f) + Len(m)
        /\ \A i \in 1 .. Len(f) : g[i] = f[i]
        /\ \A i \in 1 .. Len(m) : g[Len(f) + i] = m[i]
    BY ONLY <2>0, ConcatenatedIs
  <2>2. 1 \in 1 .. Len(m) /\ 2 \in 1 .. Len(m)
    BY ONLY <1>6
  <2>3. g[Len(f) + 1] = m[1] /\ g[Len(f) + 2] = m[2]
    BY ONLY <2>1, <2>2
  <2>4. Len(f) = 4 + c /\ Len(m) = 2 /\ c \in Nat
    BY ONLY <1>1, <1>5, <1>6 DEF c
  <2>5. Len(f) + 1 = 5 + c /\ Len(f) + 2 = 6 + c /\ Len(f) + Len(m) = 6 + c
    BY ONLY <2>4
  <2> QED BY ONLY <2>1, <2>3, <2>4, <2>5
<1>8. /\ content \in Seq(Int) /\ Len(content) = 6 + c + d
      /\ \A i \in 1 .. 6 + c : content[i] = g[i]
      /\ \A i \in 1 .. d : content[(6 + c) + i] = sb[i]
  <2>0. g \in Seq(Int) /\ sb \in Seq(Int) /\ content = g \o sb
    BY ONLY <1>1, <1>7, <1>b
  <2>1. /\ content \in Seq(Int) /\ Len(content) = Len(g) + Len(sb)
        /\ \A i \in 1 .. Len(g) : content[i] = g[i]
        /\ \A i \in 1 .. Len(sb) : content[Len(g) + i] = sb[i]
    BY ONLY <2>0, ConcatenatedIs
  <2> QED BY ONLY <1>7, <2>1 DEF d
<1>0. c \in Nat /\ d \in Nat
  BY <1>1 DEF c, d
<1> HIDE DEF c, d
<1>9. /\ \A i \in 1 .. 4 : content[i] = h[i]
      /\ \A i \in 1 .. c : content[4 + i] = sa[i]
      /\ content[5 + c] = Integer /\ content[6 + c] = d
  <2>2. ASSUME NEW i \in 1 .. 4 PROVE content[i] = h[i]
    <3>1. i \in 1 .. 4 + c /\ i \in 1 .. 6 + c
      BY ONLY <1>0, i \in 1 .. 4
    <3>2. content[i] = g[i] /\ g[i] = f[i] /\ f[i] = h[i]
      BY ONLY <1>5, <1>7, <1>8, <3>1, i \in 1 .. 4, Zenon
    <3> QED BY ONLY <3>2
  <2>3. ASSUME NEW i \in 1 .. c PROVE content[4 + i] = sa[i]
    <3>1. 4 + i \in 1 .. 4 + c /\ 4 + i \in 1 .. 6 + c
      BY ONLY <1>0, i \in 1 .. c
    <3>2. content[4 + i] = g[4 + i] /\ g[4 + i] = f[4 + i] /\ f[4 + i] = sa[i]
      BY ONLY <1>5, <1>7, <1>8, <3>1, i \in 1 .. c, Zenon
    <3> QED BY ONLY <3>2
  <2>4. 5 + c \in 1 .. 6 + c /\ 6 + c \in 1 .. 6 + c
    BY ONLY <1>0
  <2>5. content[5 + c] = g[5 + c] /\ content[6 + c] = g[6 + c]
    BY ONLY <1>8, <2>4
  <2> QED BY ONLY <1>6, <1>7, <2>2, <2>3, <2>5
<1>10. SubSeq(content, 5, 4 + c) = sa
  <2>1. c \in Nat /\ d \in Nat /\ c = Len(sa)
    BY <1>1 DEF c, d
  <2>2. /\ SubSeq(content, 5, 4 + c) \in Seq(Int) /\ Len(SubSeq(content, 5, 4 + c)) = c
        /\ \A i \in 1 .. c : SubSeq(content, 5, 4 + c)[i] = content[4 + i]
    BY <1>8, <2>1
  <2> QED BY ONLY <1>1, <1>9, <2>1, <2>2, SeqEqual
<1>11. SubSeq(content, 7 + c, 6 + c + d) = sb
  <2>1. c \in Nat /\ d \in Nat /\ d = Len(sb)
    BY <1>1 DEF c, d
  <2>2. /\ SubSeq(content, 7 + c, 6 + c + d) \in Seq(Int) /\ Len(SubSeq(content, 7 + c, 6 + c + d)) = d
        /\ \A i \in 1 .. d : SubSeq(content, 7 + c, 6 + c + d)[i] = content[(6 + c) + i]
    BY <1>8, <2>1
  <2> QED BY ONLY <1>1, <1>8, <2>1, <2>2, SeqEqual
<1>12. /\ Len(content) = 6 + c + d /\ content[1] = Sequence /\ content[2] = l
       /\ content[3] = Integer /\ content[4] = c
  <2>1. content[1] = h[1] /\ content[2] = h[2] /\ content[3] = h[3] /\ content[4] = h[4]
    BY ONLY <1>9
  <2> QED BY ONLY <1>4, <1>8, <2>1
<1> QED BY ONLY <1>9, <1>10, <1>11, <1>12, Zenon DEF sa, sb, content, l, c, d

(* A signature in DER is read back as it was, or not at all.               *)
LEMMA SignatureReads ==
  ASSUME NEW A \in Nat, NEW B \in Nat
  PROVE  SignatureFromDER(Enclosed(BytesOf[A], BytesOf[B]))
           = IF FitsByte(<<A, B>>) THEN Just(<<A, B>>) ELSE Nothing
<1> DEFINE a == BytesOf[A]
           b == BytesOf[B]
           content == Enclosed(a, b)
           c == Len(Signed(a))
           d == Len(Signed(b))
<1>1. a \in Seq(Byte) /\ b \in Seq(Byte) /\ BinToDec(a) = A /\ BinToDec(b) = B
  BY BytesSpell
<1>2. FitsByte(<<A, B>>) <=> 4 + c + d < Radix
  BY DEF FitsByte, DecToBin, Just
<1> HIDE DEF a, b
<1>3. /\ c \in Nat /\ d \in Nat
      /\ BinToDec(Signed(a)) = A /\ BinToDec(Signed(b)) = B
  <2>1. Signed(a) \in Seq(Byte) /\ BinToDec(Signed(a)) = A
    BY ONLY <1>1, SignedKeeps
  <2>2. Signed(b) \in Seq(Byte) /\ BinToDec(Signed(b)) = B
    BY ONLY <1>1, SignedKeeps
  <2> QED BY <2>1, <2>2
<1>4. /\ Len(content) = 6 + c + d
      /\ content[1] = Sequence /\ content[2] = (4 + c + d) % Radix
      /\ content[3] = Integer /\ content[4] = c
      /\ SubSeq(content, 5, 4 + c) = Signed(a)
      /\ content[5 + c] = Integer /\ content[6 + c] = d
      /\ SubSeq(content, 7 + c, 6 + c + d) = Signed(b)
  BY ONLY <1>1, EnclosedHolds
<1> HIDE DEF content, c, d
<1>5. Radix \in Nat /\ 1 < Radix /\ 4 + c + d \in Nat
  BY <1>3, EncodingsAssumption
<1>6. CASE 4 + c + d < Radix
  <2>1. (4 + c + d) % Radix = 4 + c + d
    BY ONLY <1>5, <1>6
  <2>2. /\ Len(content) >= 2 /\ content[2] = Len(content) - 2
        /\ Len(content) >= 3 + 1 /\ content[3 + 1] <= Len(content) - (3 + 1)
        /\ Len(content) >= (5 + c) + 1 /\ (5 + c) + 1 = 6 + c
        /\ content[(5 + c) + 1] <= Len(content) - ((5 + c) + 1)
    BY ONLY <1>3, <1>4, <2>1
  <2>3. HasInteger(content, 3) /\ HasInteger(content, 5 + c)
    BY ONLY <1>4, <2>2 DEF HasInteger
  <2>4. IntegerAt(content, 3) = Signed(a)
    <3>1. 3 + 2 = 5 /\ 3 + 1 = 4 /\ 4 + content[4] = 4 + c
      BY ONLY <1>4
    <3> QED BY ONLY <1>4, <3>1 DEF IntegerAt
  <2>5. IntegerAt(content, 5 + c) = Signed(b)
    <3>1. (5 + c) + 2 = 7 + c /\ (5 + c) + 1 = 6 + c /\ ((5 + c) + 1) + content[(5 + c) + 1] = 6 + c + d
      BY ONLY <1>3, <1>4
    <3> QED BY ONLY <1>4, <3>1 DEF IntegerAt
  <2>6. SignatureFromDER(content) = Just(<<BinToDec(IntegerAt(content, 3)), BinToDec(IntegerAt(content, 5 + c))>>)
    BY ONLY <1>4, <2>2, <2>3 DEF SignatureFromDER
  <2>7. SignatureFromDER(content) = Just(<<A, B>>)
    BY ONLY <1>3, <2>4, <2>5, <2>6
  <2> QED BY <1>2, <1>6, <2>7 DEF content, a, b
<1>7. CASE ~(4 + c + d < Radix)
  <2>1. (4 + c + d) % Radix < Radix /\ (4 + c + d) % Radix \in Nat
    BY ONLY <1>5
  <2>2. content[2] # Len(content) - 2
    BY ONLY <1>3, <1>4, <1>5, <1>7, <2>1
  <2>3. SignatureFromDER(content) = Nothing
    BY ONLY <2>2 DEF SignatureFromDER
  <2> QED BY <1>2, <1>7, <2>3 DEF content, a, b
<1> QED BY <1>6, <1>7

(* What ToDER hands on, SignatureFromDER makes of it what SignaturesKept says. *)
LEMMA SignedReads ==
  ASSUME NEW pair \in Numbers \X Numbers, ToDER(pair[1], pair[2]) # Nothing
  PROVE  SignatureFromDER(ToDER(pair[1], pair[2])[1])
           = IF FitsByte(pair) THEN Just(pair) ELSE Nothing
<1> DEFINE A == pair[1]
           B == pair[2]
<1>1. pair = <<A, B>> /\ A \in Int /\ B \in Int
  <2>1. Numbers \subseteq Int
    BY EncodingsAssumption
  <2>2. pair = <<A, B>> /\ A \in Numbers /\ B \in Numbers
    OBVIOUS
  <2> QED BY <2>1, <2>2
<1>2. DecToBin(A) # Nothing /\ DecToBin(B) # Nothing
  BY DEF ToDER
<1>3. A \in Nat /\ B \in Nat
  BY <1>1, <1>2 DEF DecToBin
<1> HIDE DEF A, B
<1>4. DecToBin(A)[1] = BytesOf[A] /\ DecToBin(B)[1] = BytesOf[B]
  BY <1>3 DEF DecToBin, Just
<1>5. ToDER(A, B)[1] = Enclosed(BytesOf[A], BytesOf[B])
  <2>1. ToDER(A, B) # Nothing
    BY DEF A, B
  <2>2. ToDER(A, B) = Just(Enclosed(DecToBin(A)[1], DecToBin(B)[1]))
    BY ONLY <2>1 DEF ToDER
  <2> QED BY ONLY <1>4, <2>2 DEF Just
<1>6. SignatureFromDER(ToDER(A, B)[1]) = IF FitsByte(<<A, B>>) THEN Just(<<A, B>>) ELSE Nothing
  BY <1>3, <1>5, SignatureReads
<1> QED BY ONLY <1>1, <1>6 DEF A, B

LEMMA CodeInitKept == CodeInit => SignatureInv /\ HashInv
BY DEF CodeInit, Start, SignatureInv, HashInv

LEMMA CodeNextKept ==
  ASSUME SignatureInv, HashInv, [CodeNext]_codeVars PROVE SignatureInv' /\ HashInv'
<1>1. CASE Pad \/ Decrypted \/ Unpad
  BY <1>1 DEF Pad, Decrypted, Unpad, Encode, Decode, SignatureInv, HashInv
<1>2. CASE Draw \/ Shuffle
  BY <1>2 DEF Draw, Shuffle, SignatureInv, HashInv
<1>3. CASE Sign
  BY <1>3 DEF Sign, Encode, SignatureInv, HashInv
<1>4. CASE ReadSignature
  BY <1>4 DEF ReadSignature, Decode, SignatureInv, HashInv
<1>5. CASE RandomPad
  <2>1. PICK padded \in ECDSA_RandomPads(given, size) : Encode("hash", padded)
    BY <1>5 DEF RandomPad
  <2>2. /\ work = "hash" /\ work' = work /\ given' = given /\ size' = size
        /\ coded' = padded /\ coding' = "coded"
    BY <2>1 DEF Encode
  <2>3. given \in Seq(Byte) /\ size \in Nat
    BY <2>2, EncodingsAssumption DEF HashInv
  <2>4. size # 0 => Signee(padded) = Signee(given)
    <3> SUFFICES ASSUME size # 0 PROVE Signee(padded) = Signee(given)
      OBVIOUS
    <3>1. size \in Nat \ {0}
      BY <2>3
    <3> QED BY ONLY <2>1, <2>3, <3>1, RandomPadKeeps DEF Signee
  <2>5. Signee(coded)' = Signee(padded) /\ Signee(given)' = Signee(given)
    BY ONLY <2>2 DEF Signee
  <2>6. HashInv'
    BY <2>2, <2>4, <2>5 DEF HashInv
  <2> QED BY <2>2, <2>6 DEF SignatureInv
<1>6. CASE FixedPad
  <2>1. /\ work = "hash" /\ work' = work /\ given' = given /\ size' = size /\ coded' = coded
        /\ coding = "coded" /\ coding' = "done" /\ result' = ECDSA_Pad(given, size)
    BY <1>6 DEF FixedPad, Decode
  <2>2. given \in Seq(Byte) /\ size \in Nat
    BY <2>1, EncodingsAssumption DEF HashInv
  <2>3. Signee(ECDSA_Pad(given, size)) = Signee(given)
    BY ONLY <2>2, PadKeeps DEF Signee
  <2>4. /\ Signee(result)' = Signee(ECDSA_Pad(given, size))
        /\ Signee(given)' = Signee(given) /\ Signee(coded)' = Signee(coded)
    BY ONLY <2>1 DEF Signee
  <2>5. HashInv'
    BY <2>1, <2>3, <2>4 DEF HashInv
  <2> QED BY <2>1, <2>5 DEF SignatureInv
<1>7. CASE UNCHANGED codeVars
  BY <1>7 DEF codeVars, SignatureInv, HashInv, Signee
<1> QED BY <1>1, <1>2, <1>3, <1>4, <1>5, <1>6, <1>7 DEF CodeNext

(* A signature read back is the pair of numbers it was made of, or nothing *)
(* at all, and what is padded for a curve stays the number it was, for     *)
(* every base, number, text and size (ToDER, SignatureFromDER,             *)
(* ECDSA_RandomPad, ECDSA_Pad).                                            *)
THEOREM SignaturesSurvive == CodeSpec => []SignaturesKept
<1>1. CodeInit => SignatureInv /\ HashInv
  BY CodeInitKept
<1>2. SignatureInv /\ HashInv /\ [CodeNext]_codeVars => SignatureInv' /\ HashInv'
  BY CodeNextKept
<1>3. SignatureInv /\ HashInv => SignaturesKept
  <2> SUFFICES ASSUME SignatureInv, HashInv PROVE SignaturesKept
    OBVIOUS
  <2>1. ASSUME work = "signature", coding = "done", coded # Nothing
        PROVE  result = IF FitsByte(given) THEN Just(given) ELSE Nothing
    <3>1. /\ given \in Numbers \X Numbers /\ coded = ToDER(given[1], given[2])
          /\ result = SignatureFromDER(coded[1])
      BY <2>1 DEF SignatureInv
    <3>2. SignatureFromDER(ToDER(given[1], given[2])[1])
            = IF FitsByte(given) THEN Just(given) ELSE Nothing
      BY ONLY <2>1, <3>1, SignedReads
    <3> QED BY ONLY <3>1, <3>2
  <2>2. ASSUME work = "hash", size # 0
        PROVE  /\ coding # "start" => Signee(coded) = Signee(given)
               /\ coding = "done" => Signee(result) = Signee(given)
    BY <2>2 DEF HashInv
  <2> QED BY <2>1, <2>2 DEF SignaturesKept
<1> QED BY <1>1, <1>2, <1>3, PTL DEF CodeSpec

-----------------------------------------------------------------------------
(* The data source.                                                        *)


(* Clamping yields a number within the bounds, min winning over nothing    *)
(* and max over min.                                                       *)
LEMMA ClampedInBounds ==
  ASSUME NEW n \in Nat, NEW b \in Bounds
  PROVE  Clamped(n, b) \in Nat /\ AsAsked(b, Clamped(n, b))
BY DatasourceAssumption, ClampedIsNat DEF AsAsked

(* A source that is not open satisfies the invariant.                      *)
LEMMA ClosedIsFine ==
  ASSUME Init PROVE TypeOK /\ InBounds /\ SizesAsAsked
<1>1. TypeOK
  <2>1. /\ data \in Seq(Bytes) /\ out \in Seq(Bytes) /\ written \in Seq(Fields)
        /\ reads \in Seq([bounds : Bounds, bytes : Seq(Bytes)]) /\ starts \in Seq(Nat)
    BY DEF Init
  <2> QED
    BY <2>1 DEF Init, TypeOK
<1>2. InBounds
  <2>1. Len(data) = 0
    BY DEF Init
  <2> QED
    BY <2>1 DEF Init, InBounds
<1>3. SizesAsAsked
  <2>1. DOMAIN reads = {}
    BY DEF Init
  <2> QED
    BY <2>1 DEF SizesAsAsked
<1> QED
  BY <1>1, <1>2, <1>3

LEMMA InitEstablishes == Init => TypeOK /\ InBounds /\ SizesAsAsked
BY ClosedIsFine

LEMMA StepPreserves ==
  TypeOK /\ InBounds /\ SizesAsAsked /\ [Next]_vars => (TypeOK /\ InBounds /\ SizesAsAsked)'
<1> SUFFICES ASSUME TypeOK, InBounds, SizesAsAsked, [Next]_vars
             PROVE  (TypeOK /\ InBounds /\ SizesAsAsked)'
  OBVIOUS
<1>0. idx \in Nat /\ left \in Nat /\ Len(data) \in Nat /\ idx + left = Len(data)
  BY DEF TypeOK, InBounds
<1>1. ASSUME NEW f \in Fields, Put(f)
      PROVE  (TypeOK /\ InBounds /\ SizesAsAsked)'
  <2>1. f \in Seq(Bytes) /\ Len(f) \in Nat
    BY DatasourceAssumption
  <2>2. Header(Len(f)) \in Seq(Bytes)
    BY <2>1, HeaderIsBytes
  <2>3. out' \in Seq(Bytes)
    BY <1>1, <2>1, <2>2 DEF Put, FieldBytes, TypeOK
  <2>4. written' \in Seq(Fields)
    BY <1>1 DEF Put, TypeOK
  <2>5. starts' \in Seq(Nat)
    BY <1>1 DEF Put, TypeOK
  <2> QED
    BY <1>1, <2>3, <2>4, <2>5 DEF Put, TypeOK, InBounds, SizesAsAsked
<1>2. CASE ReadBack
  BY <1>2 DEF ReadBack, TypeOK, InBounds, SizesAsAsked
<1>3. ASSUME NEW input \in Inputs, ReadInput(input)
      PROVE  (TypeOK /\ InBounds /\ SizesAsAsked)'
  <2>1. input \in Seq(Bytes) /\ Len(input) \in Nat
    BY DatasourceAssumption
  <2>2. idx = 0
    <3>1. Len(data) = 0
      BY <1>3 DEF ReadInput
    <3> QED
      BY <3>1 DEF TypeOK, InBounds
  <2>3. TypeOK'
    BY <1>3, <2>1 DEF ReadInput, TypeOK
  <2> QED
    BY <1>3, <2>1, <2>2, <2>3 DEF ReadInput, InBounds, SizesAsAsked
<1>4. ASSUME NEW b \in Bounds, GetHeaderFails(b)
      PROVE  (TypeOK /\ InBounds /\ SizesAsAsked)'
  BY <1>4 DEF GetHeaderFails, TypeOK, InBounds, SizesAsAsked
<1>5. ASSUME NEW b \in Bounds, GetBodyFails(b)
      PROVE  (TypeOK /\ InBounds /\ SizesAsAsked)'
  <2>1. TypeOK'
    BY <1>5 DEF GetBodyFails, ConsumeHeader, HeaderSize, TypeOK
  <2>2. InBounds'
    <3>1. data' = data /\ idx' = idx + 4 /\ left' = left - 4
      BY <1>5 DEF GetBodyFails, ConsumeHeader, HeaderSize
    <3>2. idx' + left' = Len(data)
      BY <1>0, <3>1
    <3> QED
      BY <3>1, <3>2 DEF InBounds
  <2> QED
    BY <1>5, <2>1, <2>2 DEF GetBodyFails, SizesAsAsked
<1>6. ASSUME NEW b \in Bounds, GetReturns(b)
      PROVE  (TypeOK /\ InBounds /\ SizesAsAsked)'
  <2> DEFINE s == Size(b)
  <2> DEFINE body == SubSeq(data, idx + HeaderSize + 1, idx + HeaderSize + s)
  <2>1. LengthAt(data, idx) \in Nat
    <3>1. idx + HeaderSize <= Len(data)
      BY <1>6 DEF GetReturns, TypeOK, InBounds, HeaderSize
    <3> QED
      BY <3>1, LengthIsNat DEF TypeOK
  <2>2. s \in Nat /\ AsAsked(b, s)
    BY <2>1, ClampedInBounds DEF Size
  <2>3. left - HeaderSize >= s
    BY <1>6, <2>2 DEF GetReturns, TooLong, TypeOK, HeaderSize
  <2> HIDE DEF s
  <2>4. body \in Seq(Bytes) /\ Len(body) = s
    BY <2>2, <2>3 DEF TypeOK, InBounds, HeaderSize
  <2>5. reads' = Append(reads, [bounds |-> b, bytes |-> body])
    BY <1>6 DEF GetReturns, s
  <2>6. idx' = idx + HeaderSize + s /\ left' = left - HeaderSize - s
    BY <1>6 DEF GetReturns, ConsumeField, s
  <2> HIDE DEF body
  <2>7. TypeOK'
    <3>1. reads' \in Seq([bounds : Bounds, bytes : Seq(Bytes)])
      BY <2>4, <2>5 DEF TypeOK
    <3>2. idx' \in Nat /\ left' \in Nat
      BY <2>2, <2>3, <2>6 DEF TypeOK, HeaderSize
    <3> QED
      BY <1>6, <3>1, <3>2 DEF GetReturns, TypeOK
  <2>8. InBounds'
    <3>1. data' = data
      BY <1>6 DEF GetReturns
    <3>2. idx' + left' = Len(data)
      BY <1>0, <2>2, <2>6 DEF HeaderSize
    <3> QED
      BY <3>1, <3>2 DEF InBounds
  <2>9. SizesAsAsked'
    BY <2>2, <2>4, <2>5 DEF SizesAsAsked, TypeOK
  <2> QED
    BY <2>7, <2>8, <2>9
<1>7. CASE Discard
  <2>1. TypeOK'
    <3>1. (/\ data \in Seq(Bytes) /\ out \in Seq(Bytes) /\ written \in Seq(Fields)
           /\ reads \in Seq([bounds : Bounds, bytes : Seq(Bytes)]) /\ starts \in Seq(Nat))'
      BY <1>7 DEF Discard
    <3> QED
      BY <1>7, <3>1 DEF Discard, TypeOK
  <2>2. Len(data)' = 0 /\ (DOMAIN reads)' = {}
    BY <1>7 DEF Discard
  <2> QED
    BY <1>7, <2>1, <2>2 DEF Discard, InBounds, SizesAsAsked
<1>8. CASE UNCHANGED vars
  BY <1>8 DEF vars, TypeOK, InBounds, SizesAsAsked
<1> QED
  BY <1>1, <1>2, <1>3, <1>4, <1>5, <1>6, <1>7, <1>8 DEF Next

(* Type correctness: `left` never wraps.                                   *)
THEOREM TypeCorrect == Spec => []TypeOK
BY InitEstablishes, StepPreserves, PTL DEF Spec

(* Reads stay inside the input.                                            *)
THEOREM StaysInBounds == Spec => []InBounds
BY InitEstablishes, StepPreserves, PTL DEF Spec

(* Reads have a size the caller asked for.                                 *)
THEOREM ReturnsSizesAsked == Spec => []SizesAsAsked
BY InitEstablishes, StepPreserves, PTL DEF Spec

(* Every read consumes a header or finds less than one.                    *)
THEOREM MakesProgress == Spec => ReadsConsume
<1> DEFINE Consumes == data # <<>> /\ data' = data =>
                         idx' >= idx + HeaderSize \/ left < HeaderSize
<1>1. TypeOK /\ InBounds /\ [Next]_vars => [Consumes]_vars
  <2> SUFFICES ASSUME TypeOK, InBounds, Next PROVE Consumes
    BY DEF vars
  <2>0. idx \in Nat /\ left \in Nat
    BY DEF TypeOK
  <2>1. CASE \E f \in Fields : Put(f)
    BY <2>1 DEF Put
  <2>2. CASE ReadBack \/ (\E input \in Inputs : ReadInput(input))
    BY <2>2 DEF ReadBack, ReadInput
  <2>3. CASE \E b \in Bounds : GetHeaderFails(b)
    BY <2>3 DEF GetHeaderFails
  <2>4. CASE \E b \in Bounds : GetBodyFails(b)
    BY <2>0, <2>4 DEF GetBodyFails, ConsumeHeader, HeaderSize
  <2>5. CASE \E b \in Bounds : GetReturns(b)
    <3>1. PICK b \in Bounds : GetReturns(b)
      BY <2>5
    <3>2. Size(b) \in Nat
      <4>1. idx + HeaderSize <= Len(data)
        <5>1. left >= HeaderSize
          BY <3>1 DEF GetReturns
        <5> QED
          BY <2>0, <5>1 DEF InBounds, HeaderSize
      <4>2. LengthAt(data, idx) \in Nat
        BY <2>0, <4>1, LengthIsNat DEF TypeOK
      <4> QED
        BY <4>2, ClampedInBounds DEF Size
    <3> QED
      BY <2>0, <3>1, <3>2 DEF GetReturns, ConsumeField, HeaderSize
  <2>6. CASE Discard
    BY <2>6 DEF Discard
  <2> QED
    BY <2>1, <2>2, <2>3, <2>4, <2>5, <2>6 DEF Next
<1> QED
  BY <1>1, InitEstablishes, StepPreserves, PTL DEF Spec, ReadsConsume

-----------------------------------------------------------------------------
(***************************************************************************)
(* The round trip.  What has been written is laid out end to end           *)
(* (WrittenInv), and a reader that has read it as meant so far stands where *)
(* the next field starts (ReadingInv).                                     *)
(***************************************************************************)

StartOf(k) == IF k <= Len(starts) THEN starts[k] ELSE Len(out)

WrittenInv ==
  /\ Len(starts) = Len(written)
  /\ \A i \in 1 .. Len(written) :
       /\ starts[i] + HeaderSize + Len(written[i]) <= Len(out)
       /\ StartOf(i + 1) = starts[i] + HeaderSize + Len(written[i])
       /\ \A j \in 1 .. HeaderSize + Len(written[i]) :
            out[starts[i] + j] = FieldBytes(written[i])[j]
  /\ Len(written) = 0 => Len(out) = 0
  /\ Len(written) > 0 => starts[1] = 0

ReadingInv ==
  /\ data = <<>> => idx = 0 /\ reads = <<>> /\ ~thrown
  /\ exact /\ data # <<>> =>
       /\ data = out
       /\ Len(reads) <= Len(written)
       /\ idx = StartOf(Len(reads) + 1)
       /\ \A i \in 1 .. Len(reads) : reads[i].bytes = written[i]
       /\ thrown => Len(reads) = Len(written)

(* What can be read as meant next is what was written next.                *)
LEMMA NextField ==
  ASSUME TypeOK, InBounds, WrittenInv, ReadingInv, exact, data # <<>>,
         Len(reads) < Len(written)
  PROVE  LET f == written[Len(reads) + 1]
         IN  /\ f \in Seq(Bytes)
             /\ left >= HeaderSize + Len(f)
             /\ LengthAt(data, idx) = Len(f)
             /\ SubSeq(data, idx + HeaderSize + 1, idx + HeaderSize + Len(f)) = f
             /\ StartOf(Len(reads) + 2) = idx + HeaderSize + Len(f)
<1> DEFINE k == Len(reads) + 1
           f == written[k]
<1>1. k \in 1 .. Len(written) /\ k + 1 = Len(reads) + 2
  BY DEF TypeOK
<1>2. f \in Fields /\ f \in Seq(Bytes) /\ Len(f) \in Lengths
  BY <1>1, DatasourceAssumption DEF TypeOK
<1>3. idx = starts[k] /\ data = out
  BY <1>1 DEF ReadingInv, StartOf, WrittenInv
<1> HIDE DEF k
<1>4. /\ idx + HeaderSize + Len(f) <= Len(data)
      /\ StartOf(k + 1) = idx + HeaderSize + Len(f)
      /\ \A j \in 1 .. HeaderSize + Len(f) : data[idx + j] = FieldBytes(f)[j]
  BY <1>1, <1>3 DEF WrittenInv
<1> HIDE DEF f
<1>5. data \in Seq(Bytes) /\ idx \in Nat /\ left \in Nat /\ idx + left = Len(data)
  BY DEF TypeOK, InBounds
<1>6. /\ LengthAt(data, idx) = Len(f)
      /\ SubSeq(data, idx + HeaderSize + 1, idx + HeaderSize + Len(f)) = f
  BY <1>2, <1>4, <1>5, FieldReadBack
<1>7. left >= HeaderSize + Len(f)
  BY <1>2, <1>4, <1>5 DEF HeaderSize
<1> QED
  BY <1>1, <1>2, <1>4, <1>6, <1>7 DEF k, f

(* Past the last field nothing is left.                                    *)
LEMMA NothingLeft ==
  ASSUME TypeOK, InBounds, WrittenInv, ReadingInv, exact, data # <<>>,
         Len(reads) = Len(written)
  PROVE  left = 0
<1>1. idx = Len(out) /\ data = out
  BY DEF ReadingInv, WrittenInv, StartOf, TypeOK
<1> QED
  BY <1>1 DEF InBounds, TypeOK

LEMMA PutPreservesWritten ==
  ASSUME TypeOK, WrittenInv, NEW f \in Fields, Put(f)
  PROVE  WrittenInv'
<1> DEFINE n == Len(written)
<1>1. f \in Seq(Bytes) /\ Len(f) \in Nat
  BY DatasourceAssumption
<1>2. /\ FieldBytes(f) \in Seq(Bytes)
      /\ Len(FieldBytes(f)) = HeaderSize + Len(f)
  BY <1>1, FieldIsBytes
<1>3. /\ out' = out \o FieldBytes(f)
      /\ written' = Append(written, f)
      /\ starts' = Append(starts, Len(out))
  BY DEF Put
<1> DEFINE g == FieldBytes(f)
<1> HIDE DEF g
<1>4. /\ Len(out') = Len(out) + Len(g)
      /\ \A i \in 1 .. Len(out) + Len(g) : out'[i] = IF i <= Len(out) THEN out[i] ELSE g[i - Len(out)]
  <2>1. out \in Seq(Bytes) /\ g \in Seq(Bytes) /\ out' = out \o g
    BY <1>2, <1>3 DEF g, TypeOK
  <2> QED
    BY <2>1, ConcatProperties, Zenon
<1>5. Len(out) \in Nat /\ Len(g) = HeaderSize + Len(f)
  BY <1>2 DEF g, TypeOK
<1>6. /\ n \in Nat /\ Len(starts) = n /\ Len(starts') = n + 1 /\ Len(written') = n + 1
      /\ starts'[n + 1] = Len(out) /\ written'[n + 1] = f
      /\ \A i \in 1 .. n : starts'[i] = starts[i] /\ written'[i] = written[i]
  BY <1>3 DEF TypeOK, WrittenInv
<1>7. ASSUME NEW i \in 1 .. n
      PROVE  /\ starts'[i] + HeaderSize + Len(written'[i]) <= Len(out')
             /\ StartOf(i + 1)' = starts'[i] + HeaderSize + Len(written'[i])
             /\ \A j \in 1 .. HeaderSize + Len(written'[i]) :
                  out'[starts'[i] + j] = FieldBytes(written'[i])[j]
  <2>1. starts[i] \in Nat /\ written[i] \in Seq(Bytes) /\ Len(written[i]) \in Nat
    BY <1>6, DatasourceAssumption DEF TypeOK
  <2>2. /\ starts[i] + HeaderSize + Len(written[i]) <= Len(out)
        /\ StartOf(i + 1) = starts[i] + HeaderSize + Len(written[i])
        /\ \A j \in 1 .. HeaderSize + Len(written[i]) :
             out[starts[i] + j] = FieldBytes(written[i])[j]
    BY DEF WrittenInv
  <2>3. StartOf(i + 1)' = StartOf(i + 1)
    <3>1. CASE i + 1 <= n
      <4>1. i + 1 \in 1 .. n
        BY <3>1
      <4> QED
        BY <1>6, <4>1 DEF StartOf
    <3>2. CASE i = n
      BY <1>6, <3>2 DEF StartOf
    <3> QED
      BY <1>6, <3>1, <3>2
  <2>4. Len(out) <= Len(out')
    BY <1>1, <1>4, <1>5 DEF HeaderSize
  <2>5. ASSUME NEW j \in 1 .. HeaderSize + Len(written[i])
        PROVE  out'[starts[i] + j] = out[starts[i] + j]
    <3>1. starts[i] + j \in 1 .. Len(out) + Len(g) /\ starts[i] + j <= Len(out)
      BY <1>1, <1>5, <2>1, <2>2 DEF HeaderSize
    <3> QED
      BY <1>4, <3>1
  <2>6. starts[i] + HeaderSize + Len(written[i]) <= Len(out')
    BY <1>1, <1>4, <1>5, <2>1, <2>2 DEF HeaderSize
  <2> QED
    BY <1>6, <2>2, <2>3, <2>5, <2>6
<1>8. ASSUME NEW i \in Nat, i = n + 1
      PROVE  /\ starts'[i] + HeaderSize + Len(written'[i]) <= Len(out')
             /\ StartOf(i + 1)' = starts'[i] + HeaderSize + Len(written'[i])
             /\ \A j \in 1 .. HeaderSize + Len(written'[i]) :
                  out'[starts'[i] + j] = FieldBytes(written'[i])[j]
  <2>0. starts'[i] = Len(out) /\ written'[i] = f
    BY <1>6, <1>8
  <2>1. Len(out') = Len(out) + HeaderSize + Len(f)
    BY <1>1, <1>4, <1>5 DEF HeaderSize
  <2>2. StartOf(i + 1)' = Len(out')
    BY <1>6, <1>8 DEF StartOf
  <2>3. ASSUME NEW j \in 1 .. HeaderSize + Len(f)
        PROVE  out'[Len(out) + j] = g[j]
    <3>1. Len(out) + j \in 1 .. Len(out) + Len(g) /\ ~(Len(out) + j <= Len(out))
          /\ (Len(out) + j) - Len(out) = j
      BY <1>1, <1>5 DEF HeaderSize
    <3> QED
      BY <1>4, <3>1
  <2>4. Len(out) + HeaderSize + Len(f) <= Len(out')
    BY <1>1, <1>5, <2>1 DEF HeaderSize
  <2> QED
    BY <2>0, <2>1, <2>2, <2>3, <2>4 DEF g
<1>9. starts'[1] = 0
  <2>1. CASE n = 0
    BY <1>6, <2>1 DEF WrittenInv
  <2>2. CASE n > 0
    <3>1. 1 \in 1 .. n
      BY <1>6, <2>2
    <3> QED
      BY <1>6, <2>2, <3>1 DEF WrittenInv
  <2> QED
    BY <1>6, <2>1, <2>2
<1>10. ASSUME NEW i \in 1 .. Len(written')
       PROVE  /\ starts'[i] + HeaderSize + Len(written'[i]) <= Len(out')
              /\ StartOf(i + 1)' = starts'[i] + HeaderSize + Len(written'[i])
              /\ \A j \in 1 .. HeaderSize + Len(written'[i]) :
                   out'[starts'[i] + j] = FieldBytes(written'[i])[j]
  <2>1. CASE i \in 1 .. n
    BY <1>7, <2>1
  <2>2. CASE i = n + 1
    BY <1>6, <1>8, <2>2
  <2> QED
    BY <1>6, <2>1, <2>2
<1>11. Len(starts') = Len(written')
  BY <1>6
<1>12. /\ Len(written') = 0 => Len(out') = 0
       /\ Len(written') > 0 => starts'[1] = 0
  BY <1>6, <1>9
<1> HIDE DEF n
<1> QED
  BY <1>10, <1>11, <1>12, Zenon DEF WrittenInv

LEMMA RoundTripStep ==
  TypeOK /\ InBounds /\ WrittenInv /\ ReadingInv /\ [Next]_vars
    => WrittenInv' /\ ReadingInv'
<1> SUFFICES ASSUME TypeOK, InBounds, WrittenInv, ReadingInv, [Next]_vars
             PROVE  WrittenInv' /\ ReadingInv'
  OBVIOUS
<1>0. Len(reads) \in Nat /\ Len(written) \in Nat
  BY DEF TypeOK
<1>1. ASSUME NEW f \in Fields, Put(f)
      PROVE  WrittenInv' /\ ReadingInv'
  BY <1>1, PutPreservesWritten DEF Put, ReadingInv
<1>2. CASE ReadBack
  <2>1. WrittenInv'
    BY <1>2 DEF ReadBack, WrittenInv, StartOf
  <2>2. ReadingInv'
    <3>1. data' = out /\ out' = out /\ reads' = <<>> /\ idx' = 0 /\ ~thrown'
          /\ starts' = starts /\ written' = written
      BY <1>2 DEF ReadBack, ReadingInv
    <3>2. out # <<>> /\ Len(out) # 0
      BY <1>2 DEF ReadBack, TypeOK
    <3>3. Len(written) > 0 /\ starts[1] = 0 /\ Len(starts) > 0
      BY <1>0, <3>2 DEF WrittenInv
    <3>4. Len(reads') = 0
      BY <3>1
    <3>5. StartOf(Len(reads) + 1)' = 0
      BY <3>1, <3>3, <3>4 DEF StartOf
    <3> QED
      BY <1>0, <3>1, <3>2, <3>4, <3>5 DEF ReadingInv
  <2> QED
    BY <2>1, <2>2
<1>3. ASSUME NEW input \in Inputs, ReadInput(input)
      PROVE  WrittenInv' /\ ReadingInv'
  BY <1>3 DEF ReadInput, WrittenInv, StartOf, ReadingInv
<1>4. ASSUME NEW b \in Bounds, GetHeaderFails(b)
      PROVE  WrittenInv' /\ ReadingInv'
  <2>1. WrittenInv'
    BY <1>4 DEF GetHeaderFails, WrittenInv, StartOf
  <2>2. exact /\ data # <<>> => Len(reads) = Len(written)
    <3>1. SUFFICES ASSUME exact, data # <<>>, Len(reads) < Len(written) PROVE FALSE
      BY <1>0 DEF ReadingInv
    <3>2. left < HeaderSize
      BY <1>4 DEF GetHeaderFails
    <3>3. \E f \in Seq(Bytes) : left >= HeaderSize + Len(f)
      BY <3>1, NextField
    <3> QED
      BY <3>2, <3>3 DEF TypeOK, HeaderSize
  <2>3. ReadingInv'
    BY <1>4, <2>2 DEF GetHeaderFails, ReadingInv, StartOf
  <2> QED
    BY <2>1, <2>3
<1>5. ASSUME NEW b \in Bounds, GetBodyFails(b)
      PROVE  WrittenInv' /\ ReadingInv'
  <2>1. WrittenInv'
    BY <1>5 DEF GetBodyFails, WrittenInv, StartOf
  <2>2. ~exact'
    <3>1. SUFFICES ASSUME exact, Fits(b) PROVE FALSE
      BY <1>5 DEF GetBodyFails
    <3>2. data # <<>> /\ left >= HeaderSize /\ left - HeaderSize < Size(b)
      BY <1>5 DEF GetBodyFails, TooLong
    <3>3. Len(reads) < Len(written)
      <4>1. CASE Len(reads) = Len(written)
        BY <3>1, <3>2, <4>1, NothingLeft DEF HeaderSize
      <4> QED
        BY <1>0, <3>1, <3>2, <4>1 DEF ReadingInv
    <3> DEFINE f == written[Len(reads) + 1]
    <3>4. f \in Seq(Bytes) /\ LengthAt(data, idx) = Len(f) /\ left >= HeaderSize + Len(f)
      BY <3>1, <3>2, <3>3, NextField
    <3>5. b.min <= Len(f) /\ (b.max = 0 \/ Len(f) <= b.max)
      BY <3>1, <3>3 DEF Fits
    <3> HIDE DEF f
    <3>6. Size(b) = Len(f)
      BY <3>4, <3>5, DatasourceAssumption, ClampedIsNat DEF Size
    <3> QED
      BY <3>2, <3>4, <3>6 DEF TypeOK, HeaderSize
  <2>3. ReadingInv'
    BY <1>5, <2>2 DEF GetBodyFails, ReadingInv
  <2> QED
    BY <2>1, <2>3
<1>6. ASSUME NEW b \in Bounds, GetReturns(b)
      PROVE  WrittenInv' /\ ReadingInv'
  <2>1. WrittenInv'
    BY <1>6 DEF GetReturns, WrittenInv, StartOf
  <2>2. ReadingInv'
    <3>1. data' = data /\ data # <<>>
      BY <1>6 DEF GetReturns
    <3>2. CASE ~exact'
      BY <3>1, <3>2 DEF ReadingInv
    <3>3. CASE exact'
      <4>1. exact /\ Fits(b)
        BY <1>6, <3>3 DEF GetReturns
      <4>2. left >= HeaderSize
        BY <1>6 DEF GetReturns
      <4>3. Len(reads) < Len(written)
        <5>1. CASE Len(reads) = Len(written)
          BY <3>1, <4>1, <4>2, <5>1, NothingLeft DEF HeaderSize
        <5> QED
          BY <1>0, <3>1, <4>1, <5>1 DEF ReadingInv
      <4> DEFINE f == written[Len(reads) + 1]
      <4>4. /\ f \in Seq(Bytes) /\ LengthAt(data, idx) = Len(f)
            /\ SubSeq(data, idx + HeaderSize + 1, idx + HeaderSize + Len(f)) = f
            /\ StartOf(Len(reads) + 2) = idx + HeaderSize + Len(f)
        BY <3>1, <4>1, <4>3, NextField
      <4>5. b.min <= Len(f) /\ (b.max = 0 \/ Len(f) <= b.max)
        BY <4>1, <4>3 DEF Fits
      <4>6. Size(b) = Len(f)
        <5> HIDE DEF f
        <5> QED
          BY <4>4, <4>5, DatasourceAssumption, ClampedIsNat DEF Size
      <4>7. /\ idx' = idx + HeaderSize + Len(f)
            /\ reads' = Append(reads, [bounds |-> b, bytes |-> f])
            /\ UNCHANGED <<out, written, starts>> /\ thrown' = FALSE
        BY <1>6, <4>4, <4>6 DEF GetReturns, ConsumeField
      <4> HIDE DEF f
      <4>8. /\ Len(reads') = Len(reads) + 1
            /\ reads'[Len(reads) + 1].bytes = f
            /\ \A i \in 1 .. Len(reads) : reads'[i] = reads[i]
        BY <4>7 DEF TypeOK
      <4>9. idx' = StartOf(Len(reads) + 1)'
        <5>1. Len(reads)' + 1 = Len(reads) + 2
          BY <1>0, <4>8
        <5>2. StartOf(Len(reads) + 1)' = StartOf(Len(reads) + 2)
          BY <4>7, <5>1 DEF StartOf
        <5> QED
          BY <4>4, <4>7, <5>2
      <4>10. \A i \in 1 .. Len(reads') : reads'[i].bytes = written'[i]
        <5>1. ASSUME NEW i \in 1 .. Len(reads') PROVE reads'[i].bytes = written'[i]
          <6>1. CASE i \in 1 .. Len(reads)
            BY <3>1, <4>1, <4>7, <4>8, <6>1 DEF ReadingInv
          <6>2. CASE i = Len(reads) + 1
            BY <4>7, <4>8, <6>2 DEF f
          <6> QED
            BY <1>0, <4>8, <6>1, <6>2
        <5> QED
          BY <5>1
      <4>11. Len(reads') <= Len(written') /\ data' = out'
        BY <1>0, <3>1, <4>1, <4>3, <4>7, <4>8 DEF ReadingInv
      <4> QED
        BY <3>1, <4>7, <4>9, <4>10, <4>11 DEF ReadingInv
    <3> QED
      BY <3>2, <3>3
  <2> QED
    BY <2>1, <2>2
<1>7. CASE Discard
  <2>1. Len(starts') = 0 /\ Len(written') = 0 /\ Len(out') = 0
    BY <1>7 DEF Discard
  <2> QED
    BY <1>7, <2>1 DEF Discard, WrittenInv, ReadingInv
<1>8. CASE UNCHANGED vars
  BY <1>8 DEF vars, WrittenInv, StartOf, ReadingInv
<1> QED
  BY <1>1, <1>2, <1>3, <1>4, <1>5, <1>6, <1>7, <1>8 DEF Next

(* What one source writes another reads back, field by field: for every    *)
(* base, every sequence of fields and every bounds that let them through.  *)
THEOREM ReadsBackWhatWasWritten == Spec => []RoundTrip
<1>1. Init => WrittenInv /\ ReadingInv
  BY DEF Init, WrittenInv, ReadingInv
<1>2. TypeOK /\ ReadingInv => RoundTrip
  <2>1. TypeOK => DOMAIN reads = 1 .. Len(reads)
    BY DEF TypeOK
  <2> QED
    BY <2>1 DEF ReadingInv, RoundTrip
<1> QED
  BY <1>1, <1>2, InitEstablishes, StepPreserves, RoundTripStep, PTL DEF Spec

=============================================================================
