---------------------------- MODULE FieldModules ----------------------------
(***************************************************************************)
(* The modules that answer BignumCalc modulo the primes of curves.  The    *)
(* libraries calculate alike, so a module is told from another by the      *)
(* operations it knows and by what it takes for an element: anything,      *)
(* whatever fits the bytes of an element, or only what is one.             *)
(***************************************************************************)
EXTENDS ModularNumbers

Field(q, ops, taken) == Outcome(q.op \in ops /\ taken, OnElements(q))

RingOps == {"Add", "Sub", "Mul", "Sqr"}
Both == {"a", "b"}

-----------------------------------------------------------------------------
(* Libraries in C and C++.                                                 *)

BlstOps == RingOps \cup {"InvMod", "LShift1", "Not", "Set", "IsEq", "IsZero"}

PowersOfTwo == {Power(2, k) : k \in 1 .. 8}

(* Multiplying by three, by eight and by a power of two has functions of   *)
(* its own, which do not read the second operand.  Only an odd scalar is   *)
(* halved.                                                                 *)
blst(q) ==
  LET scalar == q.modulus = "bls381_r"
      multiples == {3} \cup PowersOfTwo \cup (IF scalar THEN {} ELSE {8})
      operands == IF q.op = "RShift" THEN {"a"} ELSE Used(q.op)
  IN  {Field(q, BlstOps \cup (IF scalar THEN {"RShift"} ELSE {"Sqrt", "IsSquare"}),
             /\ FitBytes(q, IF special THEN {"a"} ELSE operands)
             /\ special => q.op = "Mul" /\ q.b \in multiples
             /\ q.op = "RShift" => q.b = 1 /\ Fit(q, {"a"}) /\ q.a % 2 = 1)
       : special \in BOOLEAN}

LibffOps ==
  RingOps \cup {"Exp", "InvMod", "Set", "IsEq", "IsZero", "Sqrt", "FrobeniusMap", "Not", "LShift1"}

libff(q) ==
  {Field(q, LibffOps,
         /\ FitDigits(q, Both)
         /\ q.op = "FrobeniusMap" => FitsWord64(q, "b")
         /\ q.op = "InvMod" => q.a % Modulo(q.modulus) # 0)}

MclOps ==
  RingOps \cup {"InvMod", "Not", "LShift1", "IsEq", "IsZero", "IsOne", "IsOdd", "IsEven", "Sqrt",
                "Exp", "Cmp", "Set"} \cup Ordered

(* setStr throws for a number that is no element.                          *)
mcl(q) ==
  {Field(q, MclOps \cup (IF q.modulus = "bls381_p" THEN {"RShift"} ELSE {}),
         /\ Fit(q, Used(q.op))
         /\ q.op = "InvMod" => q.a # 0
         /\ q.op = "RShift" => q.b = 1)}

ConstantineOps == RingOps \cup {"InvMod", "IsEq", "Not", "IsOne", "IsZero", "Exp"}

(* Scalars are compared with the order.  The comparison of base field      *)
(* elements is commented out.                                              *)
Constantine(q) ==
  LET prime == q.modulus \in {"bn254_p", "bls381_p"}
  IN  {Field(q, ConstantineOps \cup (IF prime THEN {"Sqrt"} ELSE {}),
             FitBytes(q, Both) /\ (prime \/ Fit(q, Both)))}

polygon_zkevm_prover(q) ==
  {Field(q, RingOps \cup {"InvMod", "Not", "Exp", "IsEq", "IsZero"}, TRUE)}

Pornin_BinGCD(q) == {Field(q, RingOps \cup {"InvMod"}, FitBytes(q, Used(q.op)))}

Goldilocks(q) ==
  LET zero(i) == q[i] % Modulo(q.modulus) = 0
  IN  {Field(q, RingOps \cup {"Div", "InvMod", "IsEq", "IsZero"},
             (q.op = "Div" => ~zero("b")) /\ (q.op = "InvMod" => ~zero("a")))}

ScalarOps == {"IsZero", "IsOne", "IsEven", "IsEq", "Add", "Mul", "InvMod", "CondSet", "Bit", "Set"}

ElementOps ==
  {"Add", "Mul", "Sqr", "InvMod", "Sqrt", "IsOdd", "IsZero", "IsEq", "Cmp", "CondSet", "Set"}

(* A scalar is set from a byte, and a bit read from its low word; some     *)
(* builds have no conversion for the other way of setting an element, and  *)
(* no conditional move of scalars.                                         *)
secp256k1(q) ==
  LET scalar == q.modulus = "secp256k1_r"
  IN  {Field(q, IF scalar THEN ScalarOps ELSE ElementOps,
             /\ Fit(q, Both)
             /\ scalar /\ q.op = "Set" => FitsByte(q, "a")
             /\ q.op = "Bit" => FitsByte(q, "b") /\ BitOfLowWord(q, "b")
             /\ built \/ (scalar /\ q.op # "CondSet") \/ (~scalar /\ q.op # "Set"))
       : built \in BOOLEAN}

(* With a modulus OpenSSL's module takes square roots only.                *)
openssl(q) == {Field(q, {"Sqrt"}, TRUE)}

-----------------------------------------------------------------------------
(* Libraries in Rust.                                                      *)

(* A product is the double of an element.                                  *)
ff(q) ==
  {Field(q, {"Sqr", "InvMod", "Sqrt", "Mul"}, Fit(q, {"a"}) /\ (q.op = "Mul" => q.b = 2))}

pasta_curves(q) == {Field(q, RingOps \cup {"Sqrt"}, FitBytes(q, Both))}

Aleo(q) == {Field(q, RingOps \cup {"InvMod", "Sqrt"}, FitBytes(q, Both))}

ArkworksOps(modulus) ==
  {"InvMod", "Sqr", "Sqrt"}
  \cup IF modulus \in {"bn254_r", "bn254_p"} THEN {} ELSE {"Add", "Sub", "Mul", "Neg"}

arkworks_fields(q) ==
  {Field(q, ArkworksOps(q.modulus), Fit(q, Both) /\ FitBytes(q, {"c"}))}

-----------------------------------------------------------------------------
(* Libraries in Go, JavaScript and Python.                                 *)

(* Whether SetString takes zero, whose digits are all trimmed, and a       *)
(* number that is no element is the library's choice.                      *)
circl(q) ==
  {Field(q, RingOps \cup {"InvMod"} \cup (IF q.modulus = "bls381_p" THEN {"Sqrt"} ELSE {}),
         lenient \/ (Fit(q, Both) /\ q.a # 0 /\ q.b # 0)) : lenient \in BOOLEAN}

GnarkOps == RingOps \cup {"Neg", "InvMod", "Exp", "Sqrt"}

gnark_bn254(q) == {Field(q, GnarkOps, TRUE)}

gnark_google_cloudflare(q) ==
  {Field(q, GnarkOps \cup {"Jacobi", "NumBits", "Div", "Set", "IsEq", "IsZero"}, TRUE)}

KilicOps == RingOps \cup {"InvMod", "Not", "IsEq"}

(* No branch returns without an answer: an operation that is not known     *)
(* leaves the result at zero, which is what is answered.                   *)
kilic_bls12_381(q) == {IF q.op \in KilicOps THEN OnElements(q) ELSE 0}

Kryptology(q) == {Field(q, RingOps \cup {"Sqrt", "Exp", "Neg", "InvMod"}, TRUE)}

(* A symbol is an element of the field, so -1 is the modulus less one; an  *)
(* element has no inverse or no quotient by throwing.                      *)
noble_bls12_381(q) ==
  LET p == Modulo(q.modulus)
  IN  {Outcome(/\ q.op \in RingOps \cup {"Div", "InvMod", "Sqrt", "Jacobi", "Neg"}
               /\ q.op = "Div" => q.b % p # 0
               /\ q.op = "InvMod" => q.a % p # 0,
               IF q.op = "Jacobi" THEN OnElements(q) % p ELSE OnElements(q))}

py_ecc(q) == {Field(q, {"InvMod"}, TRUE)}

=============================================================================
