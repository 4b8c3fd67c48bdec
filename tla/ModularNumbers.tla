--------------------------- MODULE ModularNumbers ---------------------------
(***************************************************************************)
(* What the modules that answer BignumCalc with a modulus share: the       *)
(* moduli, the questions, the limits on operands, and the arithmetic of    *)
(* the libraries, which is external.                                       *)
(***************************************************************************)
EXTENDS BigNumbers

CONSTANT
  Sizes   \* of each modulus: its value, and the first numbers too large for a byte, to
          \* be a bit of the low word, for 32 and for 64 bits, for the bytes of an
          \* element, and for libff to read

Unanswered == -2   \* std::nullopt

Moduli == DOMAIN Sizes
Words == {"2^64", "2^128", "2^256", "2^512"}
Fields ==
  {"bn254_r", "bn254_p", "bls381_r", "bls381_p", "bls377_r", "bls377_p", "vesta_r", "vesta_p",
   "edwards_r", "edwards_p", "25519", "goldilocks", "secp256k1_r", "secp256k1_p"}
Modulo(modulus) == Sizes[modulus].order

Truth(p) == IF p THEN 1 ELSE 0
Outcome(guard, value) == IF guard THEN value ELSE Unanswered

-----------------------------------------------------------------------------
(* The operations, by the operands they have a use for.                    *)

Ternary == {"ExpMod", "AddMod", "SubMod", "MulMod"}
Ordered == {"IsLt", "IsLte", "IsGt", "IsGte"}
Logical == {"And", "Or", "Xor"}
Divisions == {"Div", "Mod", "SDiv"}

Binary ==
  {"Add", "Sub", "Mul", "Exp", "LShift", "RShift", "GCD", "Min", "Max", "IsEq", "Bit", "CondSet",
   "Cmp", "FrobeniusMap"} \cup Divisions \cup Ordered \cup Logical

Unary ==
  {"Sqr", "Sqrt", "Cbrt", "InvMod", "Not", "Neg", "LShift1", "NumBits", "NumLSZeroBits", "Set",
   "One", "IsZero", "IsNotZero", "IsOne", "IsEven", "IsOdd", "IsSquare", "Jacobi"}

Used(op) ==
  CASE op \in Ternary -> {"a", "b", "c"}
    [] op \in Binary  -> {"a", "b"}
    [] op \in Unary   -> {"a"}

(* The limits that modules put on operands; IsLessThan, BitLen and         *)
(* DecToBin refuse, and others drop the high digits.                       *)
Fit(q, operands) == \A i \in operands : q[i] < Modulo(q.modulus)

Truncated(q, operands) ==
  [i \in DOMAIN q |-> IF i \in operands THEN q[i] % Modulo(q.modulus) ELSE q[i]]

FitsByte(q, i) == q[i] < Sizes[q.modulus].byte
BitOfLowWord(q, i) == q[i] < Sizes[q.modulus].limb
FitsWord32(q, i) == q[i] < Sizes[q.modulus].word32
FitsWord64(q, i) == q[i] < Sizes[q.modulus].word64
FitBytes(q, operands) == \A i \in operands : q[i] < Sizes[q.modulus].bytes
FitDigits(q, operands) == \A i \in operands : q[i] < Sizes[q.modulus].digits
ByZero(q) == q.op \in Divisions /\ q.b = 0

-----------------------------------------------------------------------------
(* The libraries.                                                          *)

NumBits(n) == CHOOSE i \in 0 .. n : Power(2, i) > n /\ (i = 0 \/ Power(2, i - 1) <= n)

CommonDivisor(a, b) ==
  IF a = 0 THEN b
  ELSE CHOOSE d \in 1 .. a : /\ a % d = 0 /\ b % d = 0
                             /\ \A e \in d + 1 .. a : a % e # 0 \/ b % e # 0

(* Division of numbers in two's complement, towards zero.                  *)
SignedQuotient(a, b, w) ==
  LET Magnitude(n) == IF 2 * n < w THEN n ELSE w - n
      q == Magnitude(a) \div Magnitude(b)
  IN  (IF (2 * a < w) = (2 * b < w) THEN q ELSE -q) % w

InverseModulo(a, m) ==
  LET inverses == {x \in 1 .. m - 1 : (a * x) % m = 1}
  IN  IF inverses = {} THEN 0 ELSE CHOOSE x \in inverses : TRUE

IsSquare(a, m) == \E r \in 0 .. m - 1 : (r * r) % m = a

Comparing ==
  {"IsEq", "IsZero", "IsNotZero", "IsOne", "IsEven", "IsOdd", "IsSquare"} \cup Ordered

Compare(op, a, b, m) ==
  CASE op = "IsEq"      -> a = b
    [] op = "IsLt"      -> a < b
    [] op = "IsLte"     -> a <= b
    [] op = "IsGt"      -> a > b
    [] op = "IsGte"     -> a >= b
    [] op = "IsZero"    -> a = 0
    [] op = "IsNotZero" -> a # 0
    [] op = "IsOne"     -> a = 1
    [] op = "IsEven"    -> a % 2 = 0
    [] op = "IsOdd"     -> a % 2 = 1
    [] op = "IsSquare"  -> IsSquare(a, m)

(* What means the same for words and for elements of a field.              *)
Common ==
  {"Add", "Sub", "Mul", "Sqr", "Not", "Neg", "LShift1", "Exp", "NumBits", "Set", "CondSet", "Bit"}

Arithmetic(op, a, b, m) ==
  CASE op = "Add"           -> (a + b) % m
    [] op = "Sub"           -> (a - b) % m
    [] op = "Mul"           -> (a * b) % m
    [] op = "Sqr"           -> (a * a) % m
    [] op \in {"Not", "Neg"} -> (-a) % m
    [] op = "LShift1"       -> (2 * a) % m
    [] op = "Exp"           -> PowerMod(a, b, m)
    [] op = "NumBits"       -> NumBits(a)
    [] op = "Set"           -> a
    [] op = "CondSet"       -> IF b # 0 THEN a ELSE 0
    [] op = "Bit"           -> (a \div Power(2, b)) % 2

OfWords(op, a, b, c, w) ==
  CASE op = "Div"     -> a \div b
    [] op = "Mod"     -> a % b
    [] op = "SDiv"    -> SignedQuotient(a, b, w)
    [] op = "ExpMod"  -> PowerMod(a, b, c)
    [] op = "AddMod"  -> (a + b) % c
    [] op = "SubMod"  -> (a - b) % c
    [] op = "MulMod"  -> (a * b) % c
    [] op = "GCD"     -> CommonDivisor(a, b)
    [] op = "Sqrt"    -> Root(a, 2)
    [] op = "Cbrt"    -> Root(a, 3)
    [] op = "LShift"  -> (a * Power(2, b)) % w
    [] op = "RShift"  -> a \div Power(2, b)
    [] op = "And"     -> And(a, b)
    [] op = "Or"      -> Or(a, b)
    [] op = "Xor"     -> Xor(a, b)
    [] op = "NumLSZeroBits" -> NumBits(w - 1) - NumBits(a)
    [] op = "Min"     -> IF a < b THEN a ELSE b
    [] op = "Max"     -> IF a > b THEN a ELSE b
    [] op = "One"     -> 1

(* A square root is answered as its square, and none as 0.                 *)
OfFields(op, a, b, p) ==
  CASE op = "Div"    -> (a * InverseModulo(b, p)) % p
    [] op = "InvMod" -> InverseModulo(a, p)
    [] op = "Sqrt"   -> IF IsSquare(a, p) THEN a ELSE 0
    [] op = "RShift" -> (IF a % 2 = 1 THEN a + p ELSE a) \div 2
    [] op = "Jacobi" -> IF a = 0 THEN 0 ELSE IF IsSquare(a, p) THEN 1 ELSE -1
    [] op = "Cmp"    -> IF a < b THEN -1 ELSE IF a > b THEN 1 ELSE 0
    [] op = "FrobeniusMap" -> a

Calculated(op, a, b, c, m, field) ==
  IF op \in Comparing THEN Truth(Compare(op, a, b, m))
  ELSE IF op \in Common THEN Arithmetic(op, a, b, m)
  ELSE IF field THEN OfFields(op, a, b, m)
  ELSE OfWords(op, a, b, c, m)

(* An answer on operands as they are, and one on operands that were        *)
(* reduced.                                                                *)
OnWords(q) == Calculated(q.op, q.a, q.b, q.c, Modulo(q.modulus), FALSE)

OnElements(q) ==
  LET p == Modulo(q.modulus) IN Calculated(q.op, q.a % p, q.b % p, 0, p, TRUE)

-----------------------------------------------------------------------------
(* Botan calculates on numbers of any length and reduces the result, or    *)
(* the operands, or nothing; it answers whatever the modulus is.           *)

BotanOps ==
  {"Add", "Bit", "CondSet", "Exp", "InvMod", "IsEq", "IsEven", "IsOdd", "IsOne", "IsZero",
   "LShift1", "Mul", "Not", "NumBits", "RShift", "Set", "Sqr", "Sqrt", "Sub"}

(* Fault: an odd number is shifted as it is.                               *)
FaultRShift(a, b, m) == (a \div Power(2, b)) % m

(* An odd number is made even by adding the modulus, whatever the modulus. *)
BotanRShift(a, b, m) == ((IF a % 2 = 1 THEN a + m ELSE a) \div Power(2, b)) % m

(* The square of a root modulo an odd prime; of another modulus no root is *)
(* looked for unless zero or one is asked for.                             *)
Ressol(a, m) ==
  Outcome(a < m /\ (a <= 1 \/ m % 2 = 1),
          IF \E r \in 1 .. m - 1 : (r * r) % m = a THEN a ELSE 0)

Botan(q) ==
  LET m == Modulo(q.modulus)
  IN  {IF q.op \notin BotanOps \/ (q.op \in {"RShift", "Bit"} /\ ~FitsWord64(q, "b"))
         THEN Unanswered
       ELSE IF q.op = "Sqrt" THEN Ressol(q.a, m)
       ELSE IF q.op = "RShift" THEN BotanRShift(q.a, q.b, m)
       ELSE IF q.op = "Exp" THEN PowerMod(q.a, q.b, m)
       ELSE IF q.op \in {"IsEven", "IsOdd", "Bit", "CondSet"} THEN OnWords(q)
       ELSE OnElements(q)}

=============================================================================
