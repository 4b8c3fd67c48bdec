------------------------------ MODULE GlobalDs ------------------------------
(***************************************************************************)
(* The data source a handler lends to the allocator.  A handler reads its  *)
(* modifier through a Datasource on its stack and publishes that object in *)
(* a global pointer for the time of the call, so that allocations of size  *)
(* zero return a pointer the input chose.  util.cpp has such a pointer,    *)
(* used by Botan and secp256k1, the mbedTLS and tf-psa-crypto modules have *)
(* one each.  OpenSSL and mpdecimal publish nothing, but their allocations *)
(* go through util::malloc, util::realloc and util::free as well.          *)
(*                                                                         *)
(* A behaviour is a sequence of handler calls in one thread.  A call ends  *)
(* at `end:', by an exception the handler catches, or by one it does not.  *)
(***************************************************************************)
VARIABLES
  pointer,         \* what each global pointer refers to
  haveBadPointer,  \* CRYPTOFUZZ_NULL_IS_BADPTR was in the environment
  lending,         \* "idle", "entered", "body", "end", "terminated" or "assertion"
  caller,          \* the kind of handler that runs
  buffer,          \* what the handler got from util::malloc and still holds
  kept,            \* a block a hooked library keeps, also between calls
  misused          \* history: what went wrong with pointers and blocks

lendVars == <<pointer, haveBadPointer, lending, caller, buffer, kept, misused>>

-----------------------------------------------------------------------------
(* Handlers *)

Owners == {"util", "mbedtls", "psa"}

(* owner: whose pointer the handler sets.  early: it may return before.    *)
(* mallocs: when it allocates a buffer of a size the input chooses.        *)
(* throws, catches: exceptions of its body, and those that lead to `end:'. *)
(* unsets: what `end:' does with the pointer.                              *)
Handler(owner, early, mallocs, throws, catches, unsets) ==
  [owner |-> owner, early |-> early, mallocs |-> mallocs, throws |-> throws,
   catches |-> catches, unsets |-> unsets]

Exceptions == {"library", "internal", "outOfData"}

BotanDigest == Handler("util", FALSE, "never", {"library", "internal"}, {}, TRUE)
BotanMAC == Handler("util", FALSE, "never", Exceptions, Exceptions, TRUE)
BotanCMAC == Handler("util", TRUE, "never", Exceptions, Exceptions, TRUE)
BotanCrypt == Handler("util", TRUE, "never", Exceptions, Exceptions, TRUE)
BotanDerivation == Handler("util", FALSE, "beforeSet", Exceptions, Exceptions, TRUE)
BotanSign == Handler("util", FALSE, "never", Exceptions, Exceptions, TRUE)
BotanVerify == Handler("util", FALSE, "never", {"library", "internal"}, {"library"}, TRUE)
Secp256k1 == Handler("util", FALSE, "freedInside", {}, {}, TRUE)
MbedTLS == Handler("mbedtls", FALSE, "afterSet", {}, {}, TRUE)

MbedTLSPBKDF == Handler("mbedtls", FALSE, "afterSet", {}, {}, FALSE)
TFPSACrypto == Handler("psa", FALSE, "never", {"outOfData"}, {}, TRUE)
Hooked == Handler("none", FALSE, "never", {}, {}, FALSE)

Handlers ==
  [BotanDigest |-> BotanDigest, BotanMAC |-> BotanMAC, BotanCMAC |-> BotanCMAC,
   BotanCrypt |-> BotanCrypt, BotanDerivation |-> BotanDerivation,
   BotanSign |-> BotanSign, BotanVerify |-> BotanVerify, Secp256k1 |-> Secp256k1,
   MbedTLS |-> MbedTLS, MbedTLSPBKDF |-> MbedTLSPBKDF,
   TFPSACrypto |-> TFPSACrypto, Hooked |-> Hooked]

Callers == DOMAIN Handlers

handler == Handlers[caller]

-----------------------------------------------------------------------------
(* The allocator.  A block is one ::malloc returned ("heap"), nullptr      *)
(* ("null"), the address 0x12 ("bad") or any address the input spells      *)
(* ("source").                                                             *)

Blocks == {"heap", "null", "bad", "source"}

GetNullPtr ==
  IF pointer["util"] = "null" THEN {IF haveBadPointer THEN "bad" ELSE "null"}
  ELSE Blocks \ {"heap"}

Malloc(empty) == IF empty THEN GetNullPtr ELSE {"heap"}

AnySize == UNION {Malloc(empty) : empty \in BOOLEAN}

(* The outcomes of ptr == GetNullPtr(): another read of the source may     *)
(* give any address.                                                       *)
IsNullPtr(block) ==
  IF pointer["util"] = "null" THEN {block \in GetNullPtr} ELSE BOOLEAN

(* ::free and ::realloc take what ::malloc returned, and nullptr.          *)
Misuse(block, recognised) ==
  IF ~recognised /\ block \notin {"heap", "null"} THEN {"foreignFree"} ELSE {}

(* Reading through the pointer of owner.                                   *)
StaleRead(owner) ==
  IF owner # "none" /\ pointer[owner] = "stale" THEN {"staleRead"} ELSE {}

Free(block) ==
  \E recognised \in IsNullPtr(block) :
    misused' = misused \cup Misuse(block, recognised) \cup StaleRead("util")

-----------------------------------------------------------------------------
LendInit ==
  /\ pointer = [o \in Owners |-> "null"]
  /\ haveBadPointer \in BOOLEAN
  /\ lending = "idle"
  /\ caller \in Callers
  /\ buffer = "none"
  /\ kept = "none"
  /\ misused = {}

Call(c) ==
  /\ lending = "idle"
  /\ caller' = c
  /\ lending' = IF Handlers[c].owner = "none" THEN "body" ELSE "entered"
  /\ IF Handlers[c].mallocs = "beforeSet"
     THEN /\ buffer' \in AnySize
          /\ misused' = misused \cup StaleRead("util")
     ELSE UNCHANGED <<buffer, misused>>
  /\ UNCHANGED <<pointer, haveBadPointer, kept>>

(* The handler returns: its data source is gone, the pointers stay.        *)
Leave(pointers) ==
  /\ pointer' = [o \in Owners |-> IF pointers[o] = "live" THEN "stale" ELSE pointers[o]]
  /\ lending' = "idle"
  /\ buffer' = "none"

\* fault: the early exit goes through `end:'
FaultReturnEarly ==
  /\ lending = "entered" /\ handler.early
  /\ lending' = "end"
  /\ UNCHANGED <<pointer, haveBadPointer, caller, buffer, kept, misused>>

ReturnEarly ==
  /\ lending = "entered" /\ handler.early
  /\ Leave(pointer)
  /\ UNCHANGED <<haveBadPointer, caller, kept, misused>>

\* fault: a pointer that is set is left alone
FaultPublished(owner) == IF pointer[owner] = "null" THEN "live" ELSE pointer[owner]

Published(owner) == "live"

SetGlobalDs ==
  /\ lending = "entered"
  /\ IF handler.owner = "util" /\ pointer["util"] # "null"
     THEN lending' = "assertion" /\ UNCHANGED <<pointer, buffer>>
     ELSE /\ lending' = "body"
          /\ pointer' = [pointer EXCEPT ![handler.owner] = Published(handler.owner)]
          /\ IF handler.mallocs = "afterSet" THEN buffer' \in AnySize ELSE UNCHANGED buffer
  /\ UNCHANGED <<haveBadPointer, caller, kept, misused>>

\* fault: the buffer is freed whatever its size
FaultFreed(empty) == TRUE

Freed(empty) == ~empty

(* A buffer of a size read from the source, while it is published.         *)
Serialize ==
  /\ lending = "body" /\ handler.mallocs = "freedInside"
  /\ \E empty \in BOOLEAN : \E block \in Malloc(empty) :
       IF Freed(empty) THEN Free(block)
       ELSE misused' = misused \cup StaleRead("util")
  /\ UNCHANGED <<pointer, haveBadPointer, lending, caller, buffer, kept>>

(* Libraries that allocate through util::malloc.                           *)
Allocates == lending = "body" /\ handler.owner # "util"

LibraryMalloc ==
  /\ Allocates /\ kept = "none"
  /\ kept' \in AnySize
  /\ misused' = misused \cup StaleRead("util") \cup StaleRead(handler.owner)
  /\ UNCHANGED <<pointer, haveBadPointer, lending, caller, buffer>>

LibraryFree ==
  /\ Allocates /\ kept # "none"
  /\ Free(kept)
  /\ kept' = "none"
  /\ UNCHANGED <<pointer, haveBadPointer, lending, caller, buffer>>

(* realloc frees for size 0; otherwise it recognises what malloc(0) gave.  *)
LibraryRealloc ==
  /\ Allocates /\ handler.owner = "none" /\ kept # "none"
  /\ \E empty \in BOOLEAN : kept' \in Malloc(empty)
  /\ Free(kept)
  /\ UNCHANGED <<pointer, haveBadPointer, lending, caller, buffer>>

(* mbedTLS draws random bytes from the handler's source.                   *)
RNG ==
  /\ lending = "body" /\ handler.owner = "mbedtls"
  /\ lending' = IF pointer["mbedtls"] = "null" THEN "assertion" ELSE lending
  /\ misused' = misused \cup StaleRead("mbedtls")
  /\ UNCHANGED <<pointer, haveBadPointer, caller, buffer, kept>>

(* OutOfData is swallowed by the driver, any other exception is nobody's.  *)
Throw(exception) ==
  /\ lending = "body" /\ exception \in handler.throws
  /\ CASE exception \in handler.catches -> lending' = "end" /\ UNCHANGED <<pointer, buffer>>
       [] exception \notin handler.catches /\ exception = "outOfData" -> Leave(pointer)
       [] OTHER -> lending' = "terminated" /\ UNCHANGED <<pointer, buffer>>
  /\ UNCHANGED <<haveBadPointer, caller, kept, misused>>

Finish ==
  /\ lending = "body"
  /\ lending' = "end"
  /\ UNCHANGED <<pointer, haveBadPointer, caller, buffer, kept, misused>>

(* `end:' frees the buffer, unsets the pointer and returns.                *)
Return ==
  /\ lending = "end"
  /\ IF buffer = "none" THEN UNCHANGED misused ELSE Free(buffer)
  /\ CASE ~handler.unsets -> Leave(pointer)
       [] handler.unsets /\ handler.owner = "util" /\ pointer["util"] = "null" ->
            lending' = "assertion" /\ UNCHANGED <<pointer, buffer>>
       [] OTHER -> Leave([pointer EXCEPT ![handler.owner] = "null"])
  /\ UNCHANGED <<haveBadPointer, caller, kept>>

LendNext ==
  \/ \E c \in Callers : Call(c)
  \/ ReturnEarly \/ SetGlobalDs \/ Serialize
  \/ LibraryMalloc \/ LibraryFree \/ LibraryRealloc \/ RNG
  \/ \E exception \in Exceptions : Throw(exception)
  \/ Finish \/ Return

LendSpec == LendInit /\ [][LendNext]_lendVars

-----------------------------------------------------------------------------
(* The assertions of SetGlobalDs, UnsetGlobalDs and mbedTLS's RNG never    *)
(* fail: on every way out of a handler, by exceptions too, util's pointer  *)
(* is taken back exactly once, or the process ends.                        *)
NeverAsserts == lending # "assertion"

(* Nothing reads through a pointer to a data source that is gone, although *)
(* mbedTLS's OpKDF_PBKDF and tf-psa-crypto's handlers, when their modifier *)
(* is too short, leave such a pointer behind; nor does a library keep a    *)
(* block at an address the input chose, because those with hooks only run  *)
(* while util's pointer is null (util::malloc).                            *)
NoStaleRead == "staleRead" \notin misused /\ kept # "source"

(* Only blocks of ::malloc reach ::free and ::realloc, although util::free *)
(* recognises what malloc(0) returned by reading on in the source.  The    *)
(* exception: with CRYPTOFUZZ_NULL_IS_BADPTR, Botan's derivations allocate *)
(* before they publish their source and free while it is published.        *)
FreesOwnBlocks ==
  [][ "foreignFree" \in misused' \ misused =>
        haveBadPointer /\ caller = "BotanDerivation" ]_lendVars

-----------------------------------------------------------------------------
(* The inductive invariant behind them.                                    *)

LendTypeOK ==
  /\ pointer \in [Owners -> {"null", "live", "stale"}]
  /\ haveBadPointer \in BOOLEAN
  /\ lending \in {"idle", "entered", "body", "end", "terminated", "assertion"}
  /\ caller \in Callers
  /\ buffer \in Blocks \cup {"none"}
  /\ kept \in Blocks \cup {"none"}
  /\ misused \subseteq {"staleRead", "foreignFree"}

(* util's pointer is set exactly from SetGlobalDs to `end:' of a handler   *)
(* that publishes there; the others' may stay, but are set anew before     *)
(* they are read.                                                          *)
PointersPublished ==
  /\ lending \in {"idle", "entered"} => pointer["util"] = "null"
  /\ lending \in {"body", "end"} =>
       /\ pointer["util"] = IF handler.owner = "util" THEN "live" ELSE "null"
       /\ handler.owner # "none" => pointer[handler.owner] = "live"
  /\ pointer["util"] # "stale"
  /\ lending = "entered" => handler.owner # "none"

(* What malloc(0) returns while no data source is published, so that       *)
(* util::free knows it again, as long as none is.                          *)
Unpublished == IF haveBadPointer THEN "bad" ELSE "null"

BlocksOwned ==
  /\ buffer \in {"none", "heap", Unpublished}
  /\ buffer # "none" => lending # "idle" /\ handler.mallocs \in {"beforeSet", "afterSet"}
  /\ kept \in {"none", "heap", Unpublished}

LendInv ==
  LendTypeOK /\ PointersPublished /\ BlocksOwned /\ NeverAsserts /\ NoStaleRead

=============================================================================
