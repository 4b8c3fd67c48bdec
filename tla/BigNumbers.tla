----------------------------- MODULE BigNumbers -----------------------------
(***************************************************************************)
(* What a library makes of numbers of any length, as far as more than one  *)
(* model asks for it.                                                      *)
(***************************************************************************)
EXTENDS Integers

Power(a, n) ==
  LET power[i \in 0 .. n] == IF i = 0 THEN 1 ELSE a * power[i - 1]
  IN  power[n]

PowerMod(a, n, m) ==
  LET power[i \in 0 .. n] == IF i = 0 THEN 1 % m ELSE (a * power[i - 1]) % m
  IN  power[n]

Root(n, k) == CHOOSE x \in 0 .. n : Power(x, k) <= n /\ n < Power(x + 1, k)

(* The bits that both numbers have.                                        *)
SharedBits[a \in Nat] ==
  [b \in Nat |->
     IF a = 0 THEN 0
     ELSE 2 * SharedBits[a \div 2][b \div 2] + (IF a % 2 = 1 /\ b % 2 = 1 THEN 1 ELSE 0)]

And(a, b) == SharedBits[a][b]
Or(a, b) == a + b - And(a, b)
Xor(a, b) == a + b - 2 * And(a, b)
=============================================================================
