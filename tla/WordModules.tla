---------------------------- MODULE WordModules ----------------------------
(***************************************************************************)
(* The modules that answer BignumCalc modulo a power of two only: which    *)
(* operations each takes, what it does with an operand that is no word,    *)
(* which questions it refuses, and what it answers.  An answer depends on  *)
(* the modifier where that chooses between two functions of the library,   *)
(* so a module has a set of outcomes.                                      *)
(***************************************************************************)
EXTENDS ModularNumbers

-----------------------------------------------------------------------------
IntxOps ==
  {"Add", "Sub", "Div", "Mul", "Mod", "Exp", "LShift", "LShift1", "RShift", "IsEq",
   "NumLSZeroBits", "Set", "Not", "Min", "Max", "AddMod", "MulMod", "SDiv"}
  \cup Ordered \cup Logical

(* ~(bn0 - 1)                                                              *)
NotPredecessor(a, w) == w - 1 - ((a - 1) % w)

intx(q) ==
  {Outcome(/\ q.op \in IntxOps
           /\ Fit(q, {"a", "b", "c"}) /\ ~ByZero(q)
           /\ q.op \in {"AddMod", "MulMod"} => q.c # 0 /\ q.modulus = "2^256",
           IF q.op = "Not" THEN NotPredecessor(q.a, Modulo(q.modulus)) ELSE OnWords(q))}

-----------------------------------------------------------------------------
DecredOps ==
  {"Add", "Sub", "Mul", "Div", "RShift", "LShift", "LShift1", "Sqr", "Not", "NumBits",
   "IsOdd", "IsEq", "Set"} \cup Ordered \cup Logical

(* Functions for a second operand of 64 bits, where the modifier is odd,   *)
(* and one that sets a number of 64 bits.                                  *)
decred_uint256(q) ==
  LET taken == /\ q.op \in DecredOps /\ Fit(q, {"a", "b"}) /\ ~ByZero(q)
               /\ q.op \in {"LShift", "RShift"} => FitsWord32(q, "b")
  IN  {Outcome(/\ taken
               /\ narrow /\ q.op \in {"Add", "Sub", "Mul", "Div"} => FitsWord64(q, "b")
               /\ narrow /\ q.op = "Set" => FitsWord64(q, "a"),
               OnWords(q)) : narrow \in BOOLEAN}

HolimanOps ==
  {"Add", "Sub", "Mul", "Div", "Exp", "Sqrt", "RShift", "LShift", "LShift1", "Not", "NumBits",
   "IsEq", "IsLt", "IsGt", "IsZero", "Set", "AddMod", "MulMod", "SDiv"} \cup Logical

(* The result starts as the third operand, which is the modulus of AddMod  *)
(* and MulMod; the library answers 0 modulo 0, and for SDiv by 0.          *)
holiman_uint256(q) ==
  LET taken == /\ q.op \in HolimanOps /\ Fit(q, {"a", "b"})
               /\ q.op = "Div" => q.b # 0
               /\ q.op \in {"LShift", "RShift"} => FitsWord64(q, "b")
      t == Truncated(q, {"c"})
      zero == \/ q.op \in {"AddMod", "MulMod"} /\ t.c = 0
              \/ q.op = "SDiv" /\ q.b = 0
  IN  {Outcome(/\ taken
               /\ narrow /\ q.op \in {"Add", "Sub"} => FitsWord64(q, "b")
               /\ narrow /\ q.op = "Set" => FitsWord64(q, "a"),
               IF zero THEN 0 ELSE OnWords(t)) : narrow \in BOOLEAN}

-----------------------------------------------------------------------------
WideIntegerOps == {"Add", "Sub", "Mul", "Div", "Mod", "ExpMod", "GCD", "Sqrt", "Cbrt"}

wide_integer(q) ==
  {Outcome(/\ q.op \in WideIntegerOps /\ Fit(q, {"a", "b", "c"})
           /\ ~ByZero(q) /\ (q.op = "GCD" => q.b # 0) /\ (q.op = "ExpMod" => q.c # 0),
           OnWords(q))}

RustCryptoOps ==
  {"Add", "Sub", "Mul", "Div", "Mod", "AddMod", "SubMod", "Not", "IsEq", "Sqrt", "IsEven",
   "IsOdd", "IsZero", "NumBits", "Min", "Max", "LShift1", "One", "CondSet", "Set"}
  \cup Ordered \cup Logical

(* Exact sums, differences and products.                                   *)
Overflows(q) ==
  \/ q.op = "Add" /\ q.a + q.b >= Modulo(q.modulus)
  \/ q.op = "Sub" /\ q.a < q.b
  \/ q.op = "Mul" /\ q.a * q.b >= Modulo(q.modulus)

rustcrypto(q) ==
  {Outcome(/\ q.op \in RustCryptoOps /\ Fit(q, {"a", "b", "c"})
           /\ ~ByZero(q) /\ (q.op = "Mod" => q.a >= q.b)
           /\ q.op \in {"AddMod", "SubMod"} => q.a < q.c /\ q.b < q.c
           /\ checked => ~Overflows(q),
           IF q.op = "Not" THEN NotPredecessor(q.a, Modulo(q.modulus)) ELSE OnWords(q))
   : checked \in BOOLEAN}

-----------------------------------------------------------------------------
BitcoinOps ==
  {"Add", "Sub", "Mul", "Div", "IsEq", "IsOdd", "Set", "NumBits"} \cup Ordered \cup Logical

(* SetHex stops at the first digit that has no room.                       *)
Bitcoin(q) ==
  LET t == Truncated(q, {"a", "b"})
  IN  {Outcome(q.op \in BitcoinOps /\ ~ByZero(t), OnWords(t))}

RustUintOps ==
  {"Add", "Sub", "Mul", "Div", "Mod", "Exp", "RShift", "LShift", "IsOne", "IsZero", "IsEq"}
  \cup Ordered \cup Logical

rust_uint(q) ==
  {Outcome(/\ q.op \in RustUintOps /\ Fit(q, {"a", "b"}) /\ ~ByZero(q)
           /\ q.op \in {"LShift", "RShift"} => FitsWord64(q, "b"),
           OnWords(q))}

StintOps ==
  {"Add", "Sub", "Mul", "ExpMod", "AddMod", "MulMod", "IsEq", "Exp", "LShift1", "IsOdd", "IsEven"}
  \cup Ordered \cup Logical

stint(q) ==
  {Outcome(/\ q.op \in StintOps /\ Fit(q, {"a", "b", "c"})
           /\ q.op \in {"AddMod", "MulMod"} => q.c # 0
           /\ q.op = "ExpMod" => q.a \in 1 .. q.c - 1 /\ q.b \in 1 .. q.c - 1,
           OnWords(q))}

(* Shifts of the field library, by up to a byte.                           *)
arkworks_words(q) ==
  {Outcome(/\ q.op \in {"LShift1", "LShift", "RShift"}
           /\ Fit(q, {"a", "b", "c"})
           /\ q.op # "LShift1" => q.b # 0 /\ FitsByte(q, "b"),
           OnWords(q))}

-----------------------------------------------------------------------------
Uint128Ops ==
  {"Add", "Sub", "Div", "Mod", "Mul", "Sqr", "Set", "IsEq", "IsZero", "IsOne", "IsNotZero"}
  \cup Ordered \cup Logical

(* Load keeps the low sixteen bytes.                                       *)
uint128_t(q) ==
  LET t == Truncated(q, {"a", "b"})
  IN  {Outcome(q.op \in Uint128Ops /\ ~ByZero(t), OnWords(t))}

(* The processor takes a count of one byte, and of that what a word has    *)
(* bits for.                                                               *)
CPU(q) ==
  {Outcome(/\ q.op \in {"Add", "Sub", "Mul", "Div", "Mod", "RShift"} \cup Logical
           /\ Fit(q, {"a", "b"}) /\ ~ByZero(q)
           /\ q.op = "RShift" => FitsByte(q, "b"),
           IF q.op = "RShift"
             THEN q.a \div Power(2, q.b % NumBits(Modulo(q.modulus) - 1))
           ELSE OnWords(q))}

=============================================================================
