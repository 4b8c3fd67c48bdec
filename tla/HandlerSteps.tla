---------------------------- MODULE HandlerSteps -----------------------------
(***************************************************************************)
(* The handlers of a module as lists of calls to a C library, each of      *)
(* which may send the handler to `end:', where what it allocated by hand   *)
(* is freed.  What the library computes is left out: a call succeeds or    *)
(* fails.                                                                  *)
(***************************************************************************)
EXTENDS Integers, Sequences

(* The objects of a handler.                                               *)

Object(kind, name) == [kind |-> kind, name |-> name]
Ctx(name)    == Object("CTX_Copier", name)
Number(name) == Object("Bignum", name)
ECPoint(name)  == Object("EC_POINT_Copier", name)
Group        == Object("EC_GROUP_Copier", "group")
BNCtx        == Object("BN_CTX", "ctx")
Raw(name)    == Object("pointer", name)   \* freed by hand
ECCKey(name) == Object("ECCKey", name)
ECCPoint(name) == Object("ECCPoint", name)

Wrappers ==
  {"CTX_Copier", "Bignum", "EC_POINT_Copier", "EC_GROUP_Copier", "BN_CTX", "ECCKey", "ECCPoint"}

(* The arguments of a call: object.GetPtr(), or the pointer and no more.   *)
Ptr(o)  == [of |-> o, copied |-> TRUE]
Plain(o) == [of |-> o, copied |-> FALSE]

(* Its steps.  What a step leads to is the distance to the next.           *)
Does(what, fn, given, into, leads) ==
  [what |-> what, fn |-> fn, args |-> given, into |-> into, leads |-> leads]

Check(fn, given) == Does("check", fn, given, {}, {1})          \* CF_CHECK_EQ
Called(fn, given)  == Does("call", fn, given, {}, {1})           \* noret
Made(o, fn, given) == Does("check", fn, given, {o}, {1})         \* CF_CHECK_NE(o = fn(...))
Built(o)          == Does("call", "new", <<>>, {o}, {1})       \* constructed, or asserted
Taken(fn, given)   == Does("set0", fn, given, {}, {1})           \* the first takes the others
Kept(fn, given)    == Does("keep", fn, given, {}, {1})           \* the same, unchecked
Borrowed(view, given) == Does("borrow", "", given, {view}, {1})  \* part of what the first is
Released(o)       == Does("ReleaseOwnership", "", <<>>, {o}, {1})
Locked(o)         == Does("Lock", "", <<>>, {o}, {1})
Freed(objects)    == Does("free", "", <<>>, objects, {1})
Jump(leads)       == Does("jump", "", <<>>, {}, leads)

GotoEnd == Jump({1000})   \* behind the last step of any handler

Either(A, B) ==
  <<Jump({1, Len(A) + 2})>> \o A \o <<Jump({Len(B) + 1})>> \o B
Optionally(A) == <<Jump({1, Len(A) + 1})>> \o A
Repeatedly(A) ==
  <<Jump({1, Len(A) + 2})>> \o A \o <<Jump({-(Len(A) + 1)})>>

Lookup == Check("find", <<>>)   \* of a digest, a cipher or a curve

(* atEnd: what is freed by hand behind `end:', that of EC_POINT_Copier's   *)
(* private set included.                                                   *)
SetStrings == {"x_str", "y_str"}
Handler(atEnd, steps) ==
  [atEnd |-> {Raw(name) : name \in atEnd \cup SetStrings}, steps |-> steps]
=============================================================================
