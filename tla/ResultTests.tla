---------------------------- MODULE ResultTests ----------------------------
(***************************************************************************)
(* What tests.cpp demands of a single result, before results are compared  *)
(* with each other: of the calculations on big numbers, of DSA and ECDSA   *)
(* signatures and parameters and of differences of points.  A demand that  *)
(* is not met aborts the process.                                          *)
(*                                                                         *)
(* Numbers are strings of digits there, trimmed of leading zeros.  Here    *)
(* they are numbers with the length of that string, in a base in which the *)
(* last digit tells the odd numbers and the sum of the digits those that 3 *)
(* divides, as in base ten.                                                *)
(***************************************************************************)
EXTENDS BigNumbers

CONSTANTS
  Base,      \* 10; even, and 1 modulo 3
  Operands,  \* the numbers an operation is called with; the negative ones
             \* only in builds with config::kNegativeIntegers
  Answers,   \* the numbers a module may answer whatever it was asked
  Exponents, \* bound: the second operands of Exp
  Order,     \* the order of a curve
  FieldPrime,\* and the size of its field
  NoResult   \* std::nullopt

(* 3 divides a number if it divides the sum of its digits.                 *)
ASSUME ResultTestsAssumption ==
  /\ Base \in Nat \ {0, 1} /\ Base % 3 = 1
  /\ Operands \subseteq Int /\ Answers \subseteq Int /\ Exponents \subseteq Nat
  /\ Order \in Int /\ FieldPrime \in Int

VARIABLES
  call,     \* the operation and its operands
  result,   \* what the module answered
  verdict   \* "none", "accepted" or "aborted"

vars == <<call, result, verdict>>

-----------------------------------------------------------------------------
(* Numbers as strings.                                                     *)

Digits[n \in Nat] == IF n < Base THEN 1 ELSE 1 + Digits[n \div Base]

DigitSum[n \in Nat] == IF n < Base THEN n ELSE (n % Base) + DigitSum[n \div Base]

Size(x) == IF x < 0 THEN 1 + Digits[-x] ELSE Digits[x]

SmallerThan(x, y) == Size(x) < Size(y)

LargerThan(x, y) == Size(x) > Size(y)

IsEqualOrLargerThan(x, y) == LargerThan(x, y) \/ x = y

IsPositive(x) == x > 0

IsOdd(x) == x % 2 = 1

isComposite(n) == DigitSum[n] % 3 = 0

-----------------------------------------------------------------------------
(* Calculations.                                                           *)

ModuloB == {"Mod", "SqrMod", "SqrtMod"}
ModuloC == {"ExpMod", "AddMod", "SubMod", "MulMod", "ModLShift"}
Modular == ModuloB \cup ModuloC \cup {"RandMod"}

Predicates ==
  {"Bit", "IsCoprime", "IsEq", "IsGt", "IsGte", "IsLt", "IsLte", "IsEven", "IsOdd",
   "IsOne", "IsPow2", "IsPrime", "IsZero", "IsSquare", "IsPower", "IsNeg", "IsNotZero"}

Comparisons == {"Cmp", "CmpAbs", "Jacobi"}

AtLeastA == {"Add", "Sqr", "LShift1", "SetBit", "Or"}
AtLeastB == {"Add", "Or"}
AtLeastAOrB == {"LCM", "Exp"}

FaultAtMostA ==   \* fault: a divisor is below both operands, zero or not
  {"Div", "RShift", "ClearBit", "Sqrt", "Cbrt", "Mask", "And", "GCD"}

AtMostA == {"Div", "RShift", "ClearBit", "Sqrt", "Cbrt", "Mask", "And"}
AtMostB == {"And", "InvMod", "RandRange"}
AtMostAOrB == {"GCD"}

NoOperands == {"Zero", "Prime"}
OneOperand ==
  {"Sqr", "LShift1", "Sqrt", "Cbrt", "RandMod", "IsPrime", "IsEven", "IsOdd", "IsOne", "IsPow2",
   "IsZero", "IsSquare", "IsPower", "IsNeg", "IsNotZero"}
ThreeOperands == ModuloC \cup {"MulAdd"}

Calculations ==
  NoOperands \cup OneOperand \cup ThreeOperands \cup Modular \cup Predicates \cup Comparisons \cup AtLeastA
    \cup AtLeastAOrB \cup AtMostA \cup AtMostB \cup AtMostAOrB
    \cup {"Mul", "Min", "Max", "Nthrt", "NthrtRem", "Sub"}

Arity ==
  [op \in Calculations |->
     IF op \in NoOperands THEN 0 ELSE IF op \in OneOperand THEN 1 ELSE IF op \in ThreeOperands THEN 3 ELSE 2]

Modulus(ask) ==
  CASE ask.op \in ModuloB   -> ask.b
    [] ask.op \in ModuloC   -> ask.c
    [] ask.op = "RandMod"   -> ask.a

(* Negative operands and modular fields are not looked at.                 *)
Skips(ask) ==
  \/ ask.op \notin {"IsPrime", "Prime"} /\ (ask.a < 0 \/ ask.b < 0 \/ ask.c < 0)
  \/ ask.modulo # 0

PrimalityAlarm(ask, r) ==
  \/ ~IsPositive(ask.a) /\ r # 0
  \/ r = 1 /\ ask.a # 2 /\ ~IsOdd(ask.a)

CalcAlarm(ask, r) ==
  \/ ask.op \in Modular /\ IsEqualOrLargerThan(r, Modulus(ask))
  \/ ask.op \in Predicates /\ r \notin {0, 1}
  \/ ask.op \in Comparisons /\ r \notin {-1, 0, 1}
  \/ ask.op = "IsPrime" /\ PrimalityAlarm(ask, r)
  \/ ask.op = "Prime" /\ (~IsPositive(r) \/ (r # 2 /\ ~IsOdd(r)))
  \/ ask.op \in AtLeastA /\ SmallerThan(r, ask.a)
  \/ ask.op \in AtLeastB /\ SmallerThan(r, ask.b)
  \/ ask.op = "MulAdd" /\ SmallerThan(r, ask.c)
  \/ ask.op \in AtLeastAOrB /\ SmallerThan(r, ask.a) /\ SmallerThan(r, ask.b)
  \/ ask.op \in AtMostA /\ LargerThan(r, ask.a)
  \/ ask.op \in AtMostB /\ LargerThan(r, ask.b)
  \/ ask.op \in AtMostAOrB /\ LargerThan(r, ask.a) /\ LargerThan(r, ask.b)
  \/ ask.op \in {"Div", "Nthrt", "NthrtRem"} /\ ask.b = 0
  \/ ask.op = "Mul" /\ (ask.a = 0 \/ ask.b = 0) /\ r # 0
  \/ ask.op = "RShift" /\ (ask.a = 0 \/ ask.b = 0) /\ r # ask.a
  \/ ask.op = "LShift1" /\ ask.a = 0 /\ r # ask.a
  \/ ask.op \in {"Min", "Max"} /\ r \notin {ask.a, ask.b}
  \/ ask.op = "Zero" /\ r # 0

-----------------------------------------------------------------------------
(* Signatures, parameters and points.                                      *)

InDSARange(x, q) == IsPositive(x) /\ ~LargerThan(x, q)

ParametersAlarm(p, q, g) ==
  \/ ~IsPositive(p) \/ ~IsPositive(q) \/ ~IsPositive(g)
  \/ LargerThan(q, p)
  \/ p = 1
  \/ isComposite(p) \/ isComposite(q)

(* Signatures on the curves of Bernstein and Hamburg are not numbers.      *)
Curves == {"special", "ordered", "unknown"}

ECDSAAlarm(curve, r, s) ==
  /\ curve # "special"
  /\ \/ r < 1 \/ s < 1
     \/ curve = "ordered" /\ (r >= Order \/ s >= Order)

SchnorrAlarm(curve, r, s) ==
  \/ r < 1 \/ s < 1
  \/ curve = "ordered" /\ (r >= FieldPrime \/ s >= Order)

SignatureAlarm(ask, r, s) ==
  IF ask.op \in {"Schnorr_Sign", "Schnorr_Verify"} THEN SchnorrAlarm(ask.curve, r, s)
  ELSE ECDSAAlarm(ask.curve, r, s)

ZeroNonce(ask) == ask.specified /\ ask.nonce = 0 /\ ask.curve # "special"

OtherAlarm(ask, r) ==
  CASE ask.op = "DSA_Sign" -> ~InDSARange(r[1], ask.q) \/ ~InDSARange(r[2], ask.q)
    [] ask.op = "DSA_Verify" -> r /\ ~(InDSARange(ask.r, ask.q) /\ InDSARange(ask.s, ask.q))
    [] ask.op = "DSA_GenerateKeyPair" -> ~InDSARange(r, ask.q)
    [] ask.op = "DSA_GenerateParameters" -> ParametersAlarm(r[1], r[2], r[3])
    [] ask.op \in {"ECDSA_Sign", "Schnorr_Sign"} ->
         ZeroNonce(ask) \/ SignatureAlarm(ask, r[1], r[2])
    [] ask.op \in {"ECDSA_Verify", "Schnorr_Verify"} -> r /\ SignatureAlarm(ask, ask.r, ask.s)
    [] ask.op = "ECDSA_Recover" -> ask.id > 3 \/ ECDSAAlarm(ask.curve, ask.r, ask.s)
    [] ask.op = "ECC_Point_Sub" -> ask.p = ask.q /\ r # "infinity"

Alarm(ask, r) ==
  /\ r # NoResult
  /\ IF ask.op \in Calculations THEN ~Skips(ask) /\ CalcAlarm(ask, r)
     ELSE OtherAlarm(ask, r)

-----------------------------------------------------------------------------
(* What the operations compute, for reference: the right answers.          *)

Divides(d, n) == \E k \in 0 .. n : d * k = n

IsPrimeNumber(n) == n > 1 /\ \A d \in 2 .. n - 1 : ~Divides(d, n)

Greatest(S) == CHOOSE x \in S : \A y \in S : y <= x

GCD(a, b) ==
  IF a = 0 THEN b ELSE IF b = 0 THEN a
  ELSE Greatest({d \in 1 .. a : Divides(d, a) /\ Divides(d, b)})

HasBit(a, b) == (a \div Power(2, b)) % 2 = 1

Residues(ask) ==
  LET a == ask.a  b == ask.b  m == Modulus(ask)
  IN  IF m = 0 THEN {}
      ELSE CASE ask.op = "Mod"       -> {a % m}
             [] ask.op = "SqrMod"    -> {(a * a) % m}
             [] ask.op = "SqrtMod"   -> {x \in 0 .. m - 1 : (x * x) % m = a % m}
             [] ask.op = "ExpMod"    -> {PowerMod(a, b, m)}
             [] ask.op = "AddMod"    -> {(a + b) % m}
             [] ask.op = "SubMod"    -> {(a - b) % m}
             [] ask.op = "MulMod"    -> {(a * b) % m}
             [] ask.op = "ModLShift" -> {(a * Power(2, b)) % m}
             [] ask.op = "RandMod"   -> 0 .. m - 1

(* Of predicates and comparisons, all that any of them may be.             *)
Values(ask) ==
  LET a == ask.a  b == ask.b
  IN  CASE ask.op \in Modular     -> Residues(ask)
        [] ask.op = "IsPrime"     -> {IF IsPrimeNumber(a) THEN 1 ELSE 0}
        [] ask.op \in Predicates \ {"IsPrime"} -> {0, 1}
        [] ask.op \in Comparisons -> {-1, 0, 1}
        [] ask.op = "Add"      -> {a + b}
        [] ask.op = "Sub"      -> {a - b}
        [] ask.op = "Mul"      -> {a * b}
        [] ask.op = "Div"      -> IF b = 0 THEN {} ELSE {a \div b}
        [] ask.op = "Sqr"      -> {a * a}
        [] ask.op = "Exp"      -> {Power(a, b)}
        [] ask.op = "LShift1"  -> {2 * a}
        [] ask.op = "RShift"   -> {a \div Power(2, b)}
        [] ask.op = "SetBit"   -> {IF HasBit(a, b) THEN a ELSE a + Power(2, b)}
        [] ask.op = "ClearBit" -> {IF HasBit(a, b) THEN a - Power(2, b) ELSE a}
        [] ask.op = "Mask"     -> {a % Power(2, b)}
        [] ask.op = "And"      -> {And(a, b)}
        [] ask.op = "Or"       -> {Or(a, b)}
        [] ask.op = "Sqrt"     -> {Root(a, 2)}
        [] ask.op = "Cbrt"     -> {Root(a, 3)}
        [] ask.op = "Nthrt"    -> IF b = 0 THEN {} ELSE {Root(a, b)}
        [] ask.op = "NthrtRem" -> IF b = 0 THEN {} ELSE {a - Power(Root(a, b), b)}
        [] ask.op = "MulAdd"   -> {a * b + ask.c}
        [] ask.op = "Min"      -> {IF a < b THEN a ELSE b}
        [] ask.op = "Max"      -> {IF a < b THEN b ELSE a}
        [] ask.op = "GCD"      -> {GCD(a, b)}
        [] ask.op = "LCM"      -> {IF a = 0 \/ b = 0 THEN 0 ELSE (a * b) \div GCD(a, b)}
        [] ask.op = "InvMod"   -> {0} \cup {x \in 1 .. b - 1 : (a * x) % b = 1}
        [] ask.op = "RandRange" -> a .. b
        [] ask.op = "Zero"     -> {0}
        [] ask.op = "Prime"    -> {x \in Answers : IsPrimeNumber(x)}

(* Nothing is said of negative operands.                                   *)
CorrectValues(ask) ==
  IF ask.op # "IsPrime" /\ (ask.a < 0 \/ ask.b < 0 \/ ask.c < 0) THEN Answers
  ELSE IF ask.modulo = 0 THEN Values(ask)
  ELSE {x % ask.modulo : x \in Values(ask)}

(* A curve of unknown order has one all the same; on special curves the    *)
(* halves of a signature are any bytes.                                    *)
InOrder(curve, x) ==
  CASE curve = "special" -> TRUE
    [] curve = "ordered" -> x \in 1 .. Order - 1
    [] curve = "unknown" -> x > 0

ValidSignature(ask, r, s) ==
  IF ask.op \in {"Schnorr_Sign", "Schnorr_Verify"}
  THEN ask.curve # "special" /\ r > 0 /\ InOrder(ask.curve, s)
         /\ (ask.curve = "ordered" => r < FieldPrime)
  ELSE InOrder(ask.curve, r) /\ InOrder(ask.curve, s)

Pairs == Answers \X Answers

CorrectOther(ask) ==
  CASE ask.op = "DSA_Sign" -> {p \in Pairs : \A i \in 1 .. 2 : p[i] \in 1 .. ask.q - 1}
    [] ask.op = "DSA_Verify" -> {FALSE, ask.r \in 1 .. ask.q - 1 /\ ask.s \in 1 .. ask.q - 1}
    [] ask.op = "DSA_GenerateKeyPair" -> 1 .. ask.q - 1
    [] ask.op = "DSA_GenerateParameters" ->
         {t \in Answers \X Answers \X Answers :
            /\ IsPrimeNumber(t[1]) /\ IsPrimeNumber(t[2])
            /\ 3 < t[2] /\ Divides(t[2], t[1] - 1)
            /\ t[3] \in 2 .. t[1] - 1}
    [] ask.op \in {"ECDSA_Sign", "Schnorr_Sign"} ->
         IF ZeroNonce(ask) THEN {} ELSE {p \in Pairs : ValidSignature(ask, p[1], p[2])}
    [] ask.op \in {"ECDSA_Verify", "Schnorr_Verify"} ->
         {FALSE, ValidSignature(ask, ask.r, ask.s)}
    [] ask.op = "ECDSA_Recover" ->
         IF ask.id <= 3 /\ ValidSignature(ask, ask.r, ask.s) THEN {"point"} ELSE {}
    [] ask.op = "ECC_Point_Sub" -> {IF ask.p[2] = ask.q[2] THEN "infinity" ELSE "point"}

Correct(ask) ==
  IF ask.op \in Calculations THEN CorrectValues(ask) ELSE CorrectOther(ask)

-----------------------------------------------------------------------------
(* What is asked and answered.                                             *)

Among(used) == IF used THEN Operands ELSE {0}

Questions(op) ==
  [op : {op}, a : Among(Arity[op] >= 1),
   b : IF op = "Exp" THEN Exponents ELSE Among(Arity[op] >= 2),
   c : Among(Arity[op] = 3), modulo : {0, 5}]

(* A coordinate and the zeros it was written with.                         *)
Points == {0, 1} \X {2, 3}

Unsigned == Answers \cap Nat

OtherQuestions ==
  [op : {"DSA_Sign", "DSA_GenerateKeyPair"}, q : Unsigned] \cup
  [op : {"DSA_Verify"}, q : Unsigned, r : Answers, s : Answers] \cup
  [op : {"DSA_GenerateParameters"}] \cup
  [op : {"ECDSA_Sign", "Schnorr_Sign"}, curve : Curves, specified : BOOLEAN, nonce : {0, 1}] \cup
  [op : {"ECDSA_Verify", "Schnorr_Verify"}, curve : Curves, r : Unsigned, s : Unsigned] \cup
  [op : {"ECDSA_Recover"}, curve : Curves, r : Unsigned, s : Unsigned, id : 0 .. 4] \cup
  [op : {"ECC_Point_Sub"}, p : Points, q : Points]

Candidates(ask) ==
  CASE ask.op \in Calculations \cup {"DSA_GenerateKeyPair"} -> Answers \cup Correct(ask)
    [] ask.op \in {"DSA_Sign", "ECDSA_Sign", "Schnorr_Sign"} -> Pairs
    [] ask.op = "DSA_GenerateParameters" -> Answers \X Answers \X Answers
    [] ask.op \in {"DSA_Verify", "ECDSA_Verify", "Schnorr_Verify"} -> BOOLEAN
    [] ask.op \in {"ECDSA_Recover", "ECC_Point_Sub"} -> {"point", "infinity"}

Idle == [op |-> "none"]

Init == call = Idle /\ result = NoResult /\ verdict = "none"

Execute(questions) ==
  /\ call = Idle
  /\ \E ask \in questions :
       /\ call' = ask
       /\ result' \in Candidates(ask) \cup {NoResult}
  /\ UNCHANGED verdict

Test ==
  /\ call # Idle /\ verdict = "none"
  /\ verdict' = IF Alarm(call, result) THEN "aborted" ELSE "accepted"
  /\ UNCHANGED <<call, result>>

NextCall ==
  /\ verdict = "accepted"
  /\ call' = Idle /\ result' = NoResult /\ verdict' = "none"

Next ==
  \/ \E op \in Calculations : Execute(Questions(op))
  \/ Execute(OtherQuestions)
  \/ Test
  \/ NextCall

Spec == Init /\ [][Next]_vars

-----------------------------------------------------------------------------
(* The fuzzer never stops for a module that is right: no right answer, and *)
(* no refusal to answer, is ever taken for a wrong one, whatever the sizes *)
(* of the operands, zero and one included (tests.cpp).  Every comparison   *)
(* there is one of lengths, so it could be on the wrong side.              *)
NoFalseAlarm ==
  verdict = "aborted" => result # NoResult /\ result \notin Correct(call)

(* What comparing lengths lets through: a bound on a result is met up to   *)
(* one digit (tests.cpp, SmallerThan and LargerThan), if the result is not *)
(* negative: a minus sign counts as a digit.                               *)
UpTo(x, bound) == x < Base * (IF bound = 0 THEN 1 ELSE bound)

WithinADigit ==
  verdict = "accepted" /\ result # NoResult =>
    IF call.op \in Calculations
    THEN ~Skips(call) /\ result >= 0 =>
           /\ call.op \in Modular => UpTo(result, Modulus(call)) /\ result # Modulus(call)
           /\ call.op \in AtMostA => UpTo(result, call.a)
           /\ call.op \in AtMostB => UpTo(result, call.b)
           /\ call.op = "GCD" => UpTo(result, call.a) \/ UpTo(result, call.b)
           /\ call.op \in AtLeastA => UpTo(call.a, result)
           /\ call.op \in AtLeastB => UpTo(call.b, result)
           /\ call.op = "MulAdd" => UpTo(call.c, result)
    ELSE /\ call.op = "DSA_Sign" => UpTo(result[1], call.q) /\ UpTo(result[2], call.q)
         /\ call.op = "DSA_Verify" /\ result => UpTo(call.r, call.q) /\ UpTo(call.s, call.q)

(* What tests.cpp aborts for is wrong, and what it lets through keeps its  *)
(* bounds up to the one digit that comparing lengths leaves.               *)
VerdictsJustified == NoFalseAlarm /\ WithinADigit

=============================================================================
