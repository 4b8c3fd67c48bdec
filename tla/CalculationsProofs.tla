------------------------- MODULE CalculationsProofs -------------------------
(***************************************************************************)
(* What tests.cpp demands of a result is right for operands of any size in *)
(* any base that serves, and the modules that calculate with a modulus     *)
(* agree for every modulus and every limit on an operand.                  *)
(***************************************************************************)
EXTENDS ResultTests, ModularAnswers, WellFoundedInduction, TLAPS

-----------------------------------------------------------------------------
(* From one number to the next, and from all below to a number.            *)

LEMMA LeastOf ==
  ASSUME NEW T \in SUBSET Nat, T # {}
  PROVE  \E x \in T : \A y \in T : x <= y
<1>1. \E x \in T : \A y \in T : ~ (<<y, x>> \in OpToRel(<, Nat))
  BY WFMin, NatLessThanWellFounded
<1>2. PICK x \in T : \A y \in T : ~ (<<y, x>> \in OpToRel(<, Nat))
  BY <1>1
<1>3. ASSUME NEW y \in T PROVE x <= y
  <2>1. ~ (y < x)
    BY <1>2, <1>3 DEF OpToRel
  <2> QED BY <2>1
<1> QED BY <1>3

LEMMA AllBelow ==
  ASSUME NEW T, \A n \in Nat : (\A m \in 0 .. n - 1 : m \in T) => n \in T
  PROVE  \A n \in Nat : n \in T
<1> DEFINE Missing == {n \in Nat : n \notin T}
<1> SUFFICES ASSUME Missing # {} PROVE FALSE
  OBVIOUS
<1>1. \E x \in Missing : \A y \in Missing : x <= y
  <2>1. Missing \in SUBSET Nat
    OBVIOUS
  <2> HIDE DEF Missing
  <2> QED BY <2>1, LeastOf
<1>2. PICK x \in Missing : \A y \in Missing : x <= y
  BY <1>1
<1>3. \A m \in 0 .. x - 1 : m \in T
  BY <1>2
<1> QED BY <1>2, <1>3

LEMMA AllNumbers ==
  ASSUME NEW T, 0 \in T, \A n \in Nat : n \in T => n + 1 \in T
  PROVE  \A n \in Nat : n \in T
<1>1. ASSUME NEW n \in Nat, \A m \in 0 .. n - 1 : m \in T PROVE n \in T
  <2>1. CASE n = 0
    BY <2>1
  <2>2. CASE n # 0
    <3> DEFINE m == n - 1
    <3>1. m \in Nat /\ m \in 0 .. n - 1 /\ n = m + 1
      BY <2>2
    <3> HIDE DEF m
    <3> QED BY <1>1, <3>1
  <2> QED BY <2>1, <2>2
<1> QED BY <1>1, AllBelow

-----------------------------------------------------------------------------
(* Powers.                                                                 *)

(* What starts with a value and goes on by a function, up to n.            *)
Iterates(f, start, next, n) ==
  f[0] = start /\ \A i \in 0 .. n - 1 : f[i + 1] = next[f[i]]

LEMMA IteratesSome ==
  ASSUME NEW V, NEW start \in V, NEW next \in [V -> V], NEW n \in Nat
  PROVE  \E f \in [0 .. n -> V] : Iterates(f, start, next, n)
<1> DEFINE T == {k \in Nat : \E f \in [0 .. k -> V] : Iterates(f, start, next, k)}
<1>1. 0 \in T
  <2>1. [m \in 0 .. 0 |-> start] \in [0 .. 0 -> V] /\ Iterates([m \in 0 .. 0 |-> start], start, next, 0)
    BY DEF Iterates
  <2> QED BY <2>1
<1>2. \A k \in Nat : k \in T => k + 1 \in T
  <2> SUFFICES ASSUME NEW k \in Nat, NEW f \in [0 .. k -> V], Iterates(f, start, next, k)
               PROVE  \E g \in [0 .. k + 1 -> V] : Iterates(g, start, next, k + 1)
    OBVIOUS
  <2> DEFINE g == [i \in 0 .. k + 1 |-> IF i <= k THEN f[i] ELSE next[f[k]]]
  <2>1. g \in [0 .. k + 1 -> V]
    OBVIOUS
  <2>2. Iterates(g, start, next, k + 1)
    BY DEF Iterates
  <2> HIDE DEF g
  <2> QED BY <2>1, <2>2
<1> HIDE DEF T
<1>3. n \in T
  BY <1>1, <1>2, AllNumbers
<1> QED BY <1>3 DEF T

LEMMA IteratesAlike ==
  ASSUME NEW start, NEW next, NEW f, NEW g, NEW m \in Nat, NEW n \in Nat,
         Iterates(f, start, next, m), Iterates(g, start, next, n)
  PROVE  \A i \in Nat : i <= m /\ i <= n => f[i] = g[i]
<1> DEFINE T == {i \in Nat : i <= m /\ i <= n => f[i] = g[i]}
<1>1. 0 \in T
  BY DEF Iterates
<1>2. \A i \in Nat : i \in T => i + 1 \in T
  <2> SUFFICES ASSUME NEW i \in Nat, i \in T, i + 1 <= m, i + 1 <= n
               PROVE  f[i + 1] = g[i + 1]
    OBVIOUS
  <2>1. i \in 0 .. m - 1 /\ i \in 0 .. n - 1 /\ f[i] = g[i]
    OBVIOUS
  <2> QED BY ONLY <2>1, Iterates(f, start, next, m), Iterates(g, start, next, n) DEF Iterates
<1> HIDE DEF T
<1>3. \A i \in Nat : i \in T
  BY <1>1, <1>2, AllNumbers
<1> QED BY <1>3 DEF T

(* The value after n steps, and the one after one more.                    *)
LEMMA IteratedSteps ==
  ASSUME NEW V, NEW start \in V, NEW next \in [V -> V], NEW n \in Nat,
         NEW f, NEW g, Iterates(f, start, next, n), Iterates(g, start, next, n + 1)
  PROVE  f[n] \in V /\ g[n + 1] = next[f[n]]
<1>1. PICK h \in [0 .. n -> V] : Iterates(h, start, next, n)
  BY IteratesSome
<1>2. f[n] = h[n]
  <2>1. n <= n
    OBVIOUS
  <2> QED BY ONLY <1>1, <2>1, n \in Nat, Iterates(f, start, next, n), IteratesAlike
<1>3. f[n] = g[n]
  <2>1. n + 1 \in Nat /\ n <= n + 1 /\ n <= n
    OBVIOUS
  <2> QED BY ONLY <2>1, n \in Nat, Iterates(f, start, next, n), Iterates(g, start, next, n + 1), IteratesAlike
<1>4. g[n + 1] = next[g[n]]
  <2>1. n \in 0 .. (n + 1) - 1
    OBVIOUS
  <2> QED BY ONLY <2>1, Iterates(g, start, next, n + 1) DEF Iterates
<1>5. h[n] \in V
  OBVIOUS
<1> QED BY ONLY <1>2, <1>3, <1>4, <1>5

LEMMA PowerIterates ==
  ASSUME NEW a \in Nat, NEW n \in Nat
  PROVE  \E f : Iterates(f, 1, [x \in Nat |-> a * x], n) /\ Power(a, n) = f[n]
<1> DEFINE next == [x \in Nat |-> a * x]
           body(f) == [i \in 0 .. n |-> IF i = 0 THEN 1 ELSE a * f[i - 1]]
           power == CHOOSE f : f = body(f)
<1>1. Power(a, n) = power[n]
  BY DEF Power
<1>2. PICK f \in [0 .. n -> Nat] : Iterates(f, 1, next, n)
  <2> DEFINE one == 1
  <2>1. one \in Nat /\ next \in [Nat -> Nat]
    OBVIOUS
  <2> HIDE DEF one, next
  <2>2. \E f \in [0 .. n -> Nat] : Iterates(f, one, next, n)
    BY ONLY <2>1, n \in Nat, IteratesSome
  <2> QED BY <2>2 DEF one
<1>3. f = body(f)
  <2>1. ASSUME NEW i \in 0 .. n, i # 0 PROVE f[i] = a * f[i - 1]
    <3>1. i - 1 \in 0 .. n - 1 /\ (i - 1) + 1 = i /\ i - 1 \in 0 .. n
      BY <2>1
    <3>2. f[i] = next[f[i - 1]]
      <4> HIDE DEF next
      <4> QED BY ONLY <1>2, <3>1 DEF Iterates
    <3>3. f[i - 1] \in Nat
      BY ONLY <3>1, f \in [0 .. n -> Nat]
    <3> QED BY ONLY <3>2, <3>3 DEF next
  <2>2. f[0] = 1
    BY <1>2 DEF Iterates
  <2>3. \A i \in 0 .. n : f[i] = body(f)[i]
    BY <2>1, <2>2
  <2>4. f = [i \in 0 .. n |-> f[i]] /\ body(f) = [i \in 0 .. n |-> body(f)[i]]
    OBVIOUS
  <2> HIDE DEF body
  <2> QED BY ONLY <2>3, <2>4
<1>4. power = body(power)
  <2>1. \E g : g = body(g)
    BY <1>3, Zenon
  <2> HIDE DEF body
  <2> QED BY ONLY <2>1, Zenon DEF power
<1> HIDE DEF power
<1>5. PICK g : g = body(power) /\ g = power
  <2> HIDE DEF body
  <2> QED BY ONLY <1>4, Zenon
<1>6. \A i \in 0 .. n : g[i] = IF i = 0 THEN 1 ELSE a * power[i - 1]
  BY ONLY <1>5
<1>7. \A i \in 0 .. n : power[i] = IF i = 0 THEN 1 ELSE a * power[i - 1]
  BY ONLY <1>5, <1>6, Zenon
<1> DEFINE T == {i \in Nat : i <= n => power[i] \in Nat}
<1>8. 0 \in T
  BY <1>7
<1>9. \A i \in Nat : i \in T => i + 1 \in T
  <2> SUFFICES ASSUME NEW i \in Nat, i \in T, i + 1 <= n PROVE power[i + 1] \in Nat
    OBVIOUS
  <2>1. i + 1 \in 0 .. n /\ i + 1 # 0 /\ (i + 1) - 1 = i
    OBVIOUS
  <2>2. power[i + 1] = a * power[i]
    BY ONLY <1>7, <2>1
  <2>3. power[i] \in Nat
    OBVIOUS
  <2> QED BY ONLY <2>2, <2>3, a \in Nat
<1>10. \A i \in 0 .. n : power[i] \in Nat
  <2> HIDE DEF T
  <2>1. \A i \in Nat : i \in T
    BY <1>8, <1>9, AllNumbers
  <2> QED BY <2>1 DEF T
<1>11. Iterates(power, 1, next, n)
  <2>1. power[0] = 1
    BY <1>7
  <2>2. ASSUME NEW i \in 0 .. n - 1 PROVE power[i + 1] = next[power[i]]
    <3>1. i + 1 \in 0 .. n /\ i + 1 # 0 /\ (i + 1) - 1 = i /\ i \in 0 .. n
      OBVIOUS
    <3>2. power[i + 1] = a * power[i] /\ power[i] \in Nat
      BY ONLY <1>7, <1>10, <3>1
    <3> QED BY ONLY <3>2
  <2> HIDE DEF next
  <2> QED BY ONLY <2>1, <2>2 DEF Iterates
<1> QED BY <1>1, <1>11

LEMMA PowerModIterates ==
  ASSUME NEW a \in Nat, NEW n \in Nat, NEW m \in Nat \ {0}
  PROVE  \E f : Iterates(f, 1 % m, [x \in Nat |-> (a * x) % m], n) /\ PowerMod(a, n, m) = f[n]
<1> DEFINE next == [x \in Nat |-> (a * x) % m]
           body(f) == [i \in 0 .. n |-> IF i = 0 THEN 1 % m ELSE (a * f[i - 1]) % m]
           power == CHOOSE f : f = body(f)
<1>1. PowerMod(a, n, m) = power[n]
  BY DEF PowerMod
<1>2. PICK f \in [0 .. n -> Nat] : Iterates(f, 1 % m, next, n)
  <2> DEFINE one == 1 % m
  <2>1. one \in Nat /\ next \in [Nat -> Nat]
    <3>1. \A y \in Nat : y % m \in Nat
      OBVIOUS
    <3>2. \A x \in Nat : a * x \in Nat
      OBVIOUS
    <3> QED BY ONLY <3>1, <3>2, 1 \in Nat
  <2> HIDE DEF one, next
  <2>2. \E f \in [0 .. n -> Nat] : Iterates(f, one, next, n)
    BY ONLY <2>1, n \in Nat, IteratesSome
  <2> QED BY <2>2 DEF one
<1>3. f = body(f)
  <2>1. ASSUME NEW i \in 0 .. n, i # 0 PROVE f[i] = (a * f[i - 1]) % m
    <3>1. i - 1 \in 0 .. n - 1 /\ (i - 1) + 1 = i /\ i - 1 \in 0 .. n
      BY <2>1
    <3>2. f[i] = next[f[i - 1]]
      <4> HIDE DEF next
      <4> QED BY ONLY <1>2, <3>1 DEF Iterates
    <3>3. f[i - 1] \in Nat
      BY ONLY <3>1, f \in [0 .. n -> Nat]
    <3> QED BY ONLY <3>2, <3>3 DEF next
  <2>2. f[0] = 1 % m
    BY ONLY <1>2 DEF Iterates
  <2>3. \A i \in 0 .. n : f[i] = body(f)[i]
    BY <2>1, <2>2
  <2>4. f = [i \in 0 .. n |-> f[i]] /\ body(f) = [i \in 0 .. n |-> body(f)[i]]
    OBVIOUS
  <2> HIDE DEF body
  <2> QED BY ONLY <2>3, <2>4
<1>4. power = body(power)
  <2>1. \E g : g = body(g)
    BY <1>3, Zenon
  <2> HIDE DEF body
  <2> QED BY ONLY <2>1, Zenon DEF power
<1> HIDE DEF power
<1>5. PICK g : g = body(power) /\ g = power
  <2> HIDE DEF body
  <2> QED BY ONLY <1>4, Zenon
<1>6. \A i \in 0 .. n : g[i] = IF i = 0 THEN 1 % m ELSE (a * power[i - 1]) % m
  BY ONLY <1>5
<1>7. \A i \in 0 .. n : power[i] = IF i = 0 THEN 1 % m ELSE (a * power[i - 1]) % m
  BY ONLY <1>5, <1>6, Zenon
<1> DEFINE T == {i \in Nat : i <= n => power[i] \in Nat}
<1>8. 0 \in T
  <2>1. power[0] = 1 % m
    BY ONLY <1>7, n \in Nat
  <2>2. 1 % m \in Nat
    OBVIOUS
  <2> QED BY ONLY <2>1, <2>2 DEF T
<1>9. \A i \in Nat : i \in T => i + 1 \in T
  <2> SUFFICES ASSUME NEW i \in Nat, i \in T, i + 1 <= n PROVE power[i + 1] \in Nat
    OBVIOUS
  <2>1. i + 1 \in 0 .. n /\ i + 1 # 0 /\ (i + 1) - 1 = i
    OBVIOUS
  <2>2. power[i + 1] = (a * power[i]) % m
    BY ONLY <1>7, <2>1
  <2>3. power[i] \in Nat
    OBVIOUS
  <2>4. a * power[i] \in Nat
    BY ONLY <2>3, a \in Nat
  <2>5. \A y \in Nat : y % m \in Nat
    OBVIOUS
  <2> QED BY ONLY <2>2, <2>4, <2>5
<1>10. \A i \in 0 .. n : power[i] \in Nat
  <2> HIDE DEF T
  <2>1. \A i \in Nat : i \in T
    BY <1>8, <1>9, AllNumbers
  <2> QED BY <2>1 DEF T
<1>11. Iterates(power, 1 % m, next, n)
  <2>1. power[0] = 1 % m
    BY <1>7
  <2>2. ASSUME NEW i \in 0 .. n - 1 PROVE power[i + 1] = next[power[i]]
    <3>1. i + 1 \in 0 .. n /\ i + 1 # 0 /\ (i + 1) - 1 = i /\ i \in 0 .. n
      OBVIOUS
    <3>2. power[i + 1] = (a * power[i]) % m /\ power[i] \in Nat
      BY ONLY <1>7, <1>10, <3>1
    <3> QED BY ONLY <3>2
  <2> HIDE DEF next
  <2> QED BY ONLY <2>1, <2>2 DEF Iterates
<1> QED BY <1>1, <1>11

(* A power is the product of the number and the power before.              *)
LEMMA PowerSteps ==
  ASSUME NEW a \in Nat
  PROVE  /\ Power(a, 0) = 1
         /\ \A n \in Nat : Power(a, n) \in Nat /\ Power(a, n + 1) = a * Power(a, n)
<1> DEFINE next == [x \in Nat |-> a * x]
<1>1. next \in [Nat -> Nat]
  OBVIOUS
<1>2. \A n \in Nat : \E f : Iterates(f, 1, next, n) /\ Power(a, n) = f[n]
  BY PowerIterates
<1> HIDE DEF next
<1>3. Power(a, 0) = 1
  BY <1>2 DEF Iterates
<1>4. ASSUME NEW n \in Nat
      PROVE  Power(a, n) \in Nat /\ Power(a, n + 1) = next[Power(a, n)]
  <2>1. PICK f : Iterates(f, 1, next, n) /\ Power(a, n) = f[n]
    BY <1>2
  <2>2. PICK g : Iterates(g, 1, next, n + 1) /\ Power(a, n + 1) = g[n + 1]
    <3>1. n + 1 \in Nat
      OBVIOUS
    <3> QED BY ONLY <1>2, <3>1
  <2> DEFINE one == 1
  <2>3. one \in Nat /\ Iterates(f, one, next, n) /\ Iterates(g, one, next, n + 1)
    BY <2>1, <2>2
  <2> HIDE DEF one
  <2>4. f[n] \in Nat /\ g[n + 1] = next[f[n]]
    BY ONLY <1>1, <2>3, n \in Nat, IteratedSteps
  <2> QED BY ONLY <2>1, <2>2, <2>4
<1> QED BY <1>3, <1>4 DEF next

LEMMA PowerModSteps ==
  ASSUME NEW a \in Nat, NEW m \in Nat \ {0}
  PROVE  /\ PowerMod(a, 0, m) = 1 % m
         /\ \A n \in Nat : /\ PowerMod(a, n, m) \in Nat
                           /\ PowerMod(a, n + 1, m) = (a * PowerMod(a, n, m)) % m
<1> DEFINE next == [x \in Nat |-> (a * x) % m]
           one == 1 % m
<1>0. one \in Nat
  OBVIOUS
<1>1. next \in [Nat -> Nat]
  <2>1. \A y \in Nat : y % m \in Nat
    OBVIOUS
  <2>2. \A x \in Nat : a * x \in Nat
    OBVIOUS
  <2> QED BY ONLY <2>1, <2>2
<1>2. \A n \in Nat : \E f : Iterates(f, one, next, n) /\ PowerMod(a, n, m) = f[n]
  BY PowerModIterates
<1> HIDE DEF next, one
<1>3. PowerMod(a, 0, m) = one
  BY <1>2 DEF Iterates
<1>4. ASSUME NEW n \in Nat
      PROVE  PowerMod(a, n, m) \in Nat /\ PowerMod(a, n + 1, m) = next[PowerMod(a, n, m)]
  <2>1. PICK f : Iterates(f, one, next, n) /\ PowerMod(a, n, m) = f[n]
    BY <1>2
  <2>2. PICK g : Iterates(g, one, next, n + 1) /\ PowerMod(a, n + 1, m) = g[n + 1]
    <3>1. n + 1 \in Nat
      OBVIOUS
    <3> QED BY ONLY <1>2, <3>1
  <2>3. Iterates(f, one, next, n) /\ Iterates(g, one, next, n + 1)
    BY <2>1, <2>2
  <2>4. f[n] \in Nat /\ g[n + 1] = next[f[n]]
    BY ONLY <1>0, <1>1, <2>3, n \in Nat, IteratedSteps
  <2> QED BY ONLY <2>1, <2>2, <2>4
<1> QED BY <1>3, <1>4 DEF next, one

(* Of a base, only what is left of it modulo m counts.                     *)
LEMMA Remainder ==
  ASSUME NEW m \in Nat \ {0}, NEW a \in Int
  PROVE  a % m \in 0 .. m - 1 /\ \E q \in Int : a = (m * q) + (a % m)
<1>1. a % m \in 0 .. m - 1
  OBVIOUS
<1>2. a \div m \in Int /\ a = (m * (a \div m)) + (a % m)
  OBVIOUS
<1> QED BY ONLY <1>1, <1>2

LEMMA OnlyMultiple ==
  ASSUME NEW m \in Nat \ {0}, NEW k \in Int, -m < m * k, m * k < m
  PROVE  k = 0
<1>1. ASSUME k >= 1 PROVE FALSE
  <2> DEFINE e == k - 1
  <2>1. e \in Nat /\ k = e + 1
    BY <1>1
  <2> HIDE DEF e
  <2>2. m * k = (m * e) + m /\ m * e \in Nat
    BY ONLY <2>1, m \in Nat
  <2> QED BY ONLY <2>2, m * k < m, m \in Nat
<1>2. ASSUME k <= -1 PROVE FALSE
  <2> DEFINE e == (-1) - k
  <2>1. e \in Nat /\ k = (-1) - e
    BY <1>2
  <2> HIDE DEF e
  <2>2. m * k = (-m) - (m * e) /\ m * e \in Nat
    BY ONLY <2>1, m \in Nat
  <2> QED BY ONLY <2>2, -m < m * k, m \in Nat
<1> QED BY <1>1, <1>2

LEMMA RemainderUnique ==
  ASSUME NEW m \in Nat \ {0}, NEW q \in Int, NEW r \in 0 .. m - 1, NEW a \in Int,
         a = (m * q) + r
  PROVE  a % m = r
<1>1. PICK d \in Int : a = (m * d) + (a % m)
  BY Remainder
<1> DEFINE s == a % m
<1>2. s \in 0 .. m - 1 /\ r \in 0 .. m - 1
  BY Remainder
<1> HIDE DEF s
<1>3. m * (q - d) = (m * q) - (m * d) /\ m * q \in Int /\ m * d \in Int
  OBVIOUS
<1> DEFINE k == q - d
           x == m * q
           y == m * d
<1>4. a = x + r /\ a = y + s
  BY <1>1 DEF s
<1>5. k \in Int /\ m * k = x - y /\ x \in Int /\ y \in Int
  BY <1>3
<1> HIDE DEF k, x, y
<1>6. m * k = s - r
  BY ONLY <1>2, <1>4, <1>5
<1>7. k = 0
  <2>1. -m < m * k /\ m * k < m
    BY ONLY <1>2, <1>6, m \in Nat
  <2> QED BY ONLY <2>1, <1>5, m \in Nat \ {0}, OnlyMultiple
<1>8. m * k = 0
  BY ONLY <1>7, m \in Nat
<1> QED BY ONLY <1>2, <1>6, <1>8 DEF s

LEMMA RemainderOf ==
  ASSUME NEW m \in Nat \ {0}, NEW q \in Int, NEW r \in Int
  PROVE  ((m * q) + r) % m = r % m
<1>1. PICK d \in Int : r = (m * d) + (r % m)
  BY Remainder
<1> DEFINE s == r % m
<1>2. s \in 0 .. m - 1
  BY Remainder
<1> HIDE DEF s
<1>3. (m * q) + r = (m * (q + d)) + s
  BY ONLY <1>1, <1>2, m \in Nat, q \in Int, d \in Int DEF s
<1> DEFINE k == q + d
           a == (m * q) + r
<1>4. k \in Int /\ a \in Int /\ a = (m * k) + s
  BY <1>3
<1> HIDE DEF k, a
<1>5. a % m = s
  BY ONLY <1>2, <1>4, m \in Nat \ {0}, RemainderUnique
<1> QED BY ONLY <1>5 DEF a, s

LEMMA RemainderOfProduct ==
  ASSUME NEW m \in Nat \ {0}, NEW a \in Nat, NEW x \in Nat
  PROVE  (a * x) % m = ((a % m) * x) % m
<1>1. PICK q \in Int : a = (m * q) + (a % m)
  <2>1. a \in Int
    OBVIOUS
  <2> QED BY ONLY <2>1, m \in Nat \ {0}, Remainder
<1>2. a % m \in Int
  OBVIOUS
<1> DEFINE r == a % m
<1> HIDE DEF r
<1>3. a * x = (m * (q * x)) + (r * x)
  <2>1. a = (m * q) + r /\ r \in Int
    BY <1>1, <1>2 DEF r
  <2> QED BY ONLY <2>1, q \in Int, m \in Nat, x \in Nat
<1>4. q * x \in Int /\ r * x \in Int
  BY <1>2 DEF r
<1> DEFINE y == q * x
           z == r * x
<1> HIDE DEF y, z
<1>5. ((m * y) + z) % m = z % m
  BY ONLY <1>4, RemainderOf, m \in Nat \ {0} DEF y, z
<1> QED BY ONLY <1>3, <1>5 DEF y, z, r

LEMMA PowerModReduced ==
  ASSUME NEW a \in Nat, NEW m \in Nat \ {0}, NEW n \in Nat
  PROVE  PowerMod(a, n, m) = PowerMod(a % m, n, m)
<1> DEFINE b == a % m
           T == {k \in Nat : PowerMod(a, k, m) = PowerMod(b, k, m)}
<1>1. b \in Nat
  OBVIOUS
<1>2. \A x \in Nat : (a * x) % m = (b * x) % m
  BY RemainderOfProduct
<1> HIDE DEF b
<1>3. /\ PowerMod(a, 0, m) = 1 % m
      /\ \A k \in Nat : /\ PowerMod(a, k, m) \in Nat
                        /\ PowerMod(a, k + 1, m) = (a * PowerMod(a, k, m)) % m
  BY PowerModSteps
<1>4. /\ PowerMod(b, 0, m) = 1 % m
      /\ \A k \in Nat : /\ PowerMod(b, k, m) \in Nat
                        /\ PowerMod(b, k + 1, m) = (b * PowerMod(b, k, m)) % m
  BY <1>1, PowerModSteps
<1>5. 0 \in T
  BY <1>3, <1>4
<1>6. \A k \in Nat : k \in T => k + 1 \in T
  BY <1>2, <1>3, <1>4
<1> HIDE DEF T
<1>7. n \in T
  BY <1>5, <1>6, AllNumbers
<1> QED BY <1>7 DEF T, b

-----------------------------------------------------------------------------
(* Questions with a modulus.                                               *)

(* What every question is, and that a second operand of Exp is below the   *)
(* modulus.                                                                *)
Asked(q) ==
  /\ q.modulus \in Moduli
  /\ q.a \in Nat /\ q.b \in Nat /\ q.c \in Nat
  /\ q.op \in Ternary \cup Binary \cup Unary
  /\ q.op \in Ternary => q.modulus \in Words
  /\ q.op = "Exp" => q.b < Modulo(q.modulus)
  /\ q = [modulus |-> q.modulus, op |-> q.op, a |-> q.a, b |-> q.b, c |-> q.c]

LEMMA QuestionsAsked == \A q \in ModularQuestions : Asked(q)
<1> TAKE q \in ModularQuestions
<1>0. "Exp" \in Binary /\ "Exp" \notin Ternary /\ "Exp" \notin Unary
      /\ \A op \in Ternary : op \notin Binary /\ op \notin Unary
  BY DEF Binary, Unary, Ternary, Divisions, Ordered, Logical
<1>1. CASE q \in [modulus : Moduli \cap Words, op : Ternary, a : ModularOperands, b : ModularOperands, c : ModularOperands]
  BY <1>0, <1>1, ModularAssumption DEF Asked
<1>2. CASE q \in [modulus : Moduli, op : Binary \ {"Exp"}, a : ModularOperands, b : ModularOperands, c : Ignored]
  BY <1>0, <1>2, ModularAssumption DEF Asked
<1>3. CASE q \in [modulus : Moduli, op : {"Exp"}, a : ModularOperands, b : ModularExponents, c : Ignored]
  <2>1. /\ q.modulus \in Moduli /\ q.op = "Exp" /\ q.b \in ModularExponents
        /\ q.a \in ModularOperands /\ q.c \in Ignored
        /\ q = [modulus |-> q.modulus, op |-> q.op, a |-> q.a, b |-> q.b, c |-> q.c]
    BY <1>3
  <2>2. q.b \in 0 .. Modulo(q.modulus) - 1 /\ Modulo(q.modulus) \in Nat
    BY <2>1, ModularAssumption
  <2> QED BY <1>0, <2>1, <2>2, ModularAssumption DEF Asked
<1>4. CASE q \in [modulus : Moduli, op : Unary, a : ModularOperands, b : Ignored, c : Ignored]
  BY <1>0, <1>4, ModularAssumption DEF Asked
<1> QED BY <1>1, <1>2, <1>3, <1>4 DEF ModularQuestions

LEMMA Moduluses ==
  ASSUME NEW modulus \in Moduli
  PROVE  /\ Modulo(modulus) \in Nat \ {0, 1}
         /\ modulus \in Words => Modulo(modulus) % 2 = 0
         /\ modulus \notin Words => modulus \in Fields
BY ModularAssumption

-----------------------------------------------------------------------------
(* Words: the answer that every module gives, where none is excused.       *)

WordAnswer(q) ==
  LET m == Modulo(q.modulus)
      t == Truncated(q, {"a", "b", "c"})
  IN  IF q.op \in {"IsEven", "IsOdd", "Bit", "CondSet"} THEN OnWords(q)
      ELSE IF q.op = "RShift" THEN (q.a \div Power(2, q.b)) % m
      ELSE IF q.op = "Exp" THEN PowerMod(q.a, q.b, m)
      ELSE IF q.op = "InvMod" THEN OnElements(q)
      ELSE IF q.op = "Sqrt" THEN Root(q.a, 2)
      ELSE IF \/ q.op \in {"AddMod", "MulMod"} /\ t.c = 0
              \/ q.op = "SDiv" /\ q.b = 0
        THEN 0
      ELSE OnWords(t)

LEMMA TruncatedIs ==
  ASSUME NEW q, Asked(q), NEW operands \in SUBSET {"a", "b", "c"}
  PROVE  LET t == Truncated(q, operands)
             m == Modulo(q.modulus)
         IN  /\ t.op = q.op /\ t.modulus = q.modulus
             /\ t.a = IF "a" \in operands THEN q.a % m ELSE q.a
             /\ t.b = IF "b" \in operands THEN q.b % m ELSE q.b
             /\ t.c = IF "c" \in operands THEN q.c % m ELSE q.c
<1> DEFINE t == Truncated(q, operands)
<1>1. PICK r : r = [modulus |-> q.modulus, op |-> q.op, a |-> q.a, b |-> q.b, c |-> q.c] /\ r = q
  BY Zenon DEF Asked
<1>2. DOMAIN q = {"modulus", "op", "a", "b", "c"}
  <2>1. DOMAIN r = {"modulus", "op", "a", "b", "c"}
    BY ONLY <1>1
  <2> QED BY ONLY <1>1, <2>1, Zenon
<1>3. \A i \in DOMAIN q : t[i] = IF i \in operands THEN q[i] % Modulo(q.modulus) ELSE q[i]
  BY DEF Truncated
<1>4. /\ "modulus" \notin operands /\ "op" \notin operands
  OBVIOUS
<1> HIDE DEF t
<1>5. /\ t.op = q.op /\ t.modulus = q.modulus
  BY <1>2, <1>3, <1>4
<1>6. t.a = IF "a" \in operands THEN q.a % Modulo(q.modulus) ELSE q.a
  BY ONLY <1>2, <1>3
<1>7. t.b = IF "b" \in operands THEN q.b % Modulo(q.modulus) ELSE q.b
  BY ONLY <1>2, <1>3
<1>8. t.c = IF "c" \in operands THEN q.c % Modulo(q.modulus) ELSE q.c
  BY ONLY <1>2, <1>3
<1> QED BY ONLY <1>5, <1>6, <1>7, <1>8 DEF t

LEMMA BelowModulus ==
  ASSUME NEW m \in Nat \ {0}, NEW a \in Nat, a < m
  PROVE  a % m = a
OBVIOUS

(* What the modules of words calculate, but for shifts, powers, roots and  *)
(* inverses.                                                               *)
WordOps ==
  Ternary \cup Divisions \cup Logical \cup Comparing \cup Common
  \cup {"GCD", "Cbrt", "LShift", "NumLSZeroBits", "Min", "Max", "One"}

(* A third operand is of no use to operations that have two.               *)
LEMMA ThirdUnused ==
  ASSUME NEW op \in WordOps \ Ternary, NEW a, NEW b, NEW c, NEW d, NEW m
  PROVE  Calculated(op, a, b, c, m, FALSE) = Calculated(op, a, b, d, m, FALSE)
<1>1. CASE op \in Comparing
  BY <1>1, Zenon DEF Calculated
<1>2. CASE op \notin Comparing /\ op \in Common
  BY <1>2, Zenon DEF Calculated
<1>3. CASE op \notin Comparing /\ op \notin Common
  <2>1. op \in {"Div", "Mod", "SDiv", "And", "Or", "Xor", "GCD", "Cbrt", "LShift", "NumLSZeroBits", "Min", "Max", "One"}
    BY <1>3 DEF WordOps, Divisions, Logical
  <2>2. OfWords(op, a, b, c, m) = OfWords(op, a, b, d, m)
    BY ONLY <2>1 DEF OfWords
  <2>3. \A x : Calculated(op, a, b, x, m, FALSE) = OfWords(op, a, b, x, m)
    BY <1>3, Zenon DEF Calculated
  <2> QED BY ONLY <2>2, <2>3, Zenon
<1> QED BY <1>1, <1>2, <1>3

LEMMA ParityKept ==
  ASSUME NEW m \in Nat \ {0}, m % 2 = 0, NEW a \in Nat
  PROVE  (a % m) % 2 = a % 2
<1>1. PICK q \in Int : a = (m * q) + (a % m)
  <2>1. a \in Int
    OBVIOUS
  <2> QED BY ONLY <2>1, m \in Nat \ {0}, Remainder
<1>2. PICK h \in Nat : m = 2 * h
  OBVIOUS
<1> DEFINE r == a % m
<1>3. r \in Int
  OBVIOUS
<1> HIDE DEF r
<1>4. a = (2 * (h * q)) + r
  BY ONLY <1>1, <1>2, h \in Nat, q \in Int DEF r
<1>5. h * q \in Int
  OBVIOUS
<1> DEFINE x == h * q
           two == 2
<1> HIDE DEF x, two
<1>6. ((two * x) + r) % two = r % two
  <2>1. two \in Nat \ {0} /\ x \in Int
    BY <1>5 DEF x, two
  <2> QED BY ONLY <2>1, <1>3, RemainderOf
<1> QED BY ONLY <1>4, <1>6 DEF x, two, r

(* An answer on operands that were reduced, or are reduced as they are.    *)
LEMMA OnReduced ==
  ASSUME NEW q, Asked(q), q.modulus \in Words, NEW a, NEW b, NEW c,
         a = q.a % Modulo(q.modulus), b = q.b % Modulo(q.modulus),
         q.op \in Ternary => c = q.c % Modulo(q.modulus),
         q.op \in WordOps \ {"Exp"},
         q.op \in {"AddMod", "MulMod"} => c # 0,
         q.op = "SDiv" => q.b # 0,
         q.op \in {"Bit", "CondSet"} => a = q.a /\ b = q.b
  PROVE  Calculated(q.op, a, b, c, Modulo(q.modulus), FALSE) = WordAnswer(q)
<1> DEFINE m == Modulo(q.modulus)
           t == Truncated(q, {"a", "b", "c"})
<1>1. m \in Nat \ {0, 1} /\ m % 2 = 0 /\ q.a \in Nat /\ q.b \in Nat
  BY Moduluses DEF Asked
<1>2. /\ t.op = q.op /\ t.modulus = q.modulus
      /\ t.a = q.a % m /\ t.b = q.b % m /\ t.c = q.c % m
  BY TruncatedIs
<1> HIDE DEF t
<1>3. CASE q.op \in {"IsEven", "IsOdd"}
  <2>1. a % 2 = q.a % 2
    BY <1>1, ParityKept
  <2>2. q.op \in Comparing /\ Compare(q.op, a, b, m) = Compare(q.op, q.a, q.b, m)
    BY <1>3, <2>1 DEF Compare, Comparing
  <2>3. Calculated(q.op, a, b, c, m, FALSE) = Truth(Compare(q.op, a, b, m))
    BY <2>2, Zenon DEF Calculated
  <2>4. OnWords(q) = Truth(Compare(q.op, q.a, q.b, m))
    BY <2>2, Zenon DEF Calculated, OnWords
  <2>5. WordAnswer(q) = OnWords(q)
    BY <1>3 DEF WordAnswer
  <2> QED BY ONLY <2>2, <2>3, <2>4, <2>5, Zenon
<1>4. CASE q.op \in {"Bit", "CondSet"}
  <2>1. q.op \in WordOps \ Ternary
    BY <1>4 DEF Ternary
  <2>2. Calculated(q.op, a, b, c, m, FALSE) = Calculated(q.op, a, b, q.c, m, FALSE)
    BY <2>1, ThirdUnused
  <2>3. WordAnswer(q) = OnWords(q)
    BY <1>4 DEF WordAnswer
  <2> QED BY <1>4, <2>2, <2>3, Zenon DEF OnWords
<1>5. CASE q.op \notin {"IsEven", "IsOdd", "Bit", "CondSet"}
  <2>1. q.op \notin {"RShift", "Exp", "InvMod", "Sqrt"}
    BY DEF WordOps, Ternary, Divisions, Logical, Comparing, Common, Ordered
  <2>2. ~(q.op \in {"AddMod", "MulMod"} /\ t.c = 0) /\ ~(q.op = "SDiv" /\ q.b = 0)
    BY <1>2 DEF Ternary
  <2>3. WordAnswer(q) = OnWords(t)
    BY <1>5, <2>1, <2>2 DEF WordAnswer, t
  <2>4. OnWords(t) = Calculated(q.op, a, b, t.c, m, FALSE)
    BY <1>2, Zenon DEF OnWords
  <2>5. Calculated(q.op, a, b, c, m, FALSE) = Calculated(q.op, a, b, t.c, m, FALSE)
    <3>1. CASE q.op \in Ternary
      BY <1>2, <3>1
    <3>2. CASE q.op \notin Ternary
      BY <3>2, ThirdUnused
    <3> QED BY <3>1, <3>2
  <2> QED BY ONLY <2>3, <2>4, <2>5
<1> QED BY <1>3, <1>4, <1>5

LEMMA PowerPositive == ASSUME NEW a \in Nat \ {0}, NEW n \in Nat PROVE Power(a, n) \in Nat \ {0}
<1> DEFINE T == {k \in Nat : Power(a, k) \in Nat \ {0}}
<1>1. Power(a, 0) = 1 /\ \A k \in Nat : Power(a, k) \in Nat /\ Power(a, k + 1) = a * Power(a, k)
  BY PowerSteps
<1>2. 0 \in T
  BY <1>1
<1>3. \A k \in Nat : k \in T => k + 1 \in T
  <2> SUFFICES ASSUME NEW k \in Nat, Power(a, k) \in Nat \ {0}
               PROVE  Power(a, k + 1) \in Nat \ {0}
    OBVIOUS
  <2> DEFINE x == Power(a, k)
  <2>1. x \in Nat \ {0} /\ Power(a, k + 1) = a * x
    BY <1>1
  <2> HIDE DEF x
  <2>2. a * x \in Nat \ {0}
    BY ONLY <2>1, a \in Nat \ {0}
  <2> QED BY ONLY <2>1, <2>2
<1> HIDE DEF T
<1>4. n \in T
  BY <1>2, <1>3, AllNumbers
<1> QED BY <1>4 DEF T

LEMMA SecondPower == ASSUME NEW a \in Nat PROVE Power(a, 1) = a /\ Power(a, 2) = a * a
<1> DEFINE zero == 0
           one == 1
<1>1. zero \in Nat /\ one \in Nat /\ zero + 1 = 1 /\ one + 1 = 2
  OBVIOUS
<1>2. Power(a, zero) = 1 /\ \A k \in Nat : Power(a, k) \in Nat /\ Power(a, k + 1) = a * Power(a, k)
  BY PowerSteps
<1> HIDE DEF zero, one
<1>3. Power(a, 1) = a * Power(a, zero)
  BY ONLY <1>1, <1>2
<1>4. Power(a, 1) = a
  BY ONLY <1>2, <1>3, a \in Nat
<1>5. Power(a, 2) = a * Power(a, one)
  BY ONLY <1>1, <1>2
<1> QED BY ONLY <1>4, <1>5 DEF one

LEMMA DividedLess == ASSUME NEW a \in Nat, NEW d \in Nat \ {0} PROVE a \div d \in 0 .. a
<1> DEFINE q == a \div d
<1>1. q \in Nat /\ \E r \in Nat : a = (d * q) + r
  OBVIOUS
<1> HIDE DEF q
<1>2. PICK r \in Nat : a = (d * q) + r
  BY <1>1
<1>3. PICK e \in Nat : d = 1 + e
  <2>1. d - 1 \in Nat /\ d = 1 + (d - 1)
    OBVIOUS
  <2> QED BY ONLY <2>1
<1>4. d * q = q + (e * q) /\ e * q \in Nat
  BY ONLY <1>1, <1>3, e \in Nat, d \in Nat
<1> QED BY ONLY <1>1, <1>2, <1>4, a \in Nat DEF q

LEMMA ShiftedRightLess == ASSUME NEW a \in Nat, NEW n \in Nat PROVE a \div Power(2, n) \in 0 .. a
<1> DEFINE two == 2
<1>1. two \in Nat \ {0}
  OBVIOUS
<1> HIDE DEF two
<1>2. Power(two, n) \in Nat \ {0}
  BY <1>1, PowerPositive
<1> DEFINE d == Power(two, n)
<1> HIDE DEF d
<1>3. a \div d \in 0 .. a
  BY ONLY <1>2, a \in Nat, DividedLess DEF d
<1> QED BY ONLY <1>3 DEF d, two

(* The roots of zero and one.                                              *)
LEMMA SmallRoots == Root(0, 2) = 0 /\ Root(1, 2) = 1
<1> DEFINE zero == 0
           one == 1
           two == 2
<1>1. zero \in Nat /\ one \in Nat /\ two \in Nat
  OBVIOUS
<1>2. \A a \in Nat : Power(a, 2) = a * a
  BY SecondPower
<1>3. Power(0, 2) = 0 /\ Power(1, 2) = 1 /\ Power(2, 2) = 4
  <2>1. Power(zero, 2) = zero * zero /\ Power(one, 2) = one * one /\ Power(two, 2) = two * two
    <3> HIDE DEF zero, one, two
    <3> QED BY ONLY <1>1, <1>2
  <2> QED BY <2>1
<1>4. Root(0, 2) = 0
  <2>1. Root(0, 2) = CHOOSE x \in 0 .. 0 : Power(x, 2) <= 0 /\ 0 < Power(x + 1, 2)
    BY DEF Root
  <2>2. 0 \in 0 .. 0 /\ Power(0, 2) <= 0 /\ 0 < Power(0 + 1, 2)
    BY <1>3
  <2>3. Root(0, 2) \in 0 .. 0
    BY ONLY <2>1, <2>2
  <2> QED BY <2>3
<1>5. Root(1, 2) = 1
  <2>1. Root(1, 2) = CHOOSE x \in 0 .. 1 : Power(x, 2) <= 1 /\ 1 < Power(x + 1, 2)
    BY DEF Root
  <2>2. 1 \in 0 .. 1 /\ Power(1, 2) <= 1 /\ 1 < Power(1 + 1, 2)
    BY <1>3
  <2>3. Root(1, 2) \in 0 .. 1 /\ 1 < Power(Root(1, 2) + 1, 2)
    BY ONLY <2>1, <2>2
  <2>4. Root(1, 2) # 0
    BY <1>3, <2>3
  <2> QED BY <2>3, <2>4
<1> QED BY <1>4, <1>5

-----------------------------------------------------------------------------
(* The modules of words.                                                   *)

LEMMA OnFitting ==
  ASSUME NEW q, Asked(q), q.modulus \in Words, Fit(q, {"a", "b"}),
         q.op \in Ternary => Fit(q, {"c"}),
         q.op \in WordOps \cup {"RShift", "Sqrt"},
         q.op \in {"AddMod", "MulMod"} => q.c # 0,
         q.op = "SDiv" => q.b # 0
  PROVE  OnWords(q) = WordAnswer(q)
<1> DEFINE m == Modulo(q.modulus)
<1>1. m \in Nat \ {0} /\ q.a \in Nat /\ q.b \in Nat /\ q.c \in Nat
  BY Moduluses DEF Asked
<1>2. q.a < m /\ q.b < m /\ (q.op \in Ternary => q.c < m)
  BY DEF Fit
<1>3. q.a = q.a % m /\ q.b = q.b % m /\ (q.op \in Ternary => q.c = q.c % m)
  BY <1>1, <1>2, BelowModulus
<1>4. CASE q.op = "RShift"
  <2>1. OnWords(q) = q.a \div Power(2, q.b)
    BY <1>4 DEF OnWords, Calculated, OfWords, Comparing, Common, Ordered
  <2>2. WordAnswer(q) = (q.a \div Power(2, q.b)) % m
    BY <1>4 DEF WordAnswer
  <2>3. q.a \div Power(2, q.b) \in 0 .. q.a
    BY <1>1, ShiftedRightLess
  <2> DEFINE x == q.a \div Power(2, q.b)
  <2>4. x \in Nat /\ x < m
    BY <1>1, <1>2, <2>3
  <2> HIDE DEF x
  <2>5. x % m = x
    BY ONLY <1>1, <2>4, BelowModulus
  <2> QED BY <2>1, <2>2, <2>5 DEF x
<1>5. CASE q.op = "Sqrt"
  <2>1. OnWords(q) = Root(q.a, 2)
    BY <1>5 DEF OnWords, Calculated, OfWords, Comparing, Common, Ordered
  <2> QED BY <1>5, <2>1 DEF WordAnswer
<1>6. CASE q.op = "Exp"
  <2>1. OnWords(q) = PowerMod(q.a, q.b, m)
    BY <1>6 DEF OnWords, Calculated, Arithmetic, Comparing, Common, Ordered
  <2> QED BY <1>6, <2>1 DEF WordAnswer
<1>7. CASE q.op \in WordOps \ {"Exp"}
  <2>1. Calculated(q.op, q.a, q.b, q.c, m, FALSE) = WordAnswer(q)
    BY <1>3, <1>7, OnReduced
  <2> QED BY <2>1 DEF OnWords
<1> QED BY <1>4, <1>5, <1>6, <1>7

LEMMA NegativeRemainder ==
  ASSUME NEW m \in Nat \ {0, 1}, NEW a \in Nat, a < m
  PROVE  NotPredecessor(a, m) = (-a) % m
<1> DEFINE minus == -1
<1>1. minus \in Int
  OBVIOUS
<1>2. CASE a = 0
  <2>1. a - 1 = (m * minus) + (m - 1) /\ m - 1 \in Nat
    BY <1>2
  <2> DEFINE y == m - 1
  <2>2. y \in Int /\ y \in Nat /\ y < m
    OBVIOUS
  <2> HIDE DEF minus, y
  <2>3. ((m * minus) + y) % m = y % m /\ y % m = y
    BY ONLY <1>1, <2>2, m \in Nat \ {0, 1}, RemainderOf, BelowModulus
  <2>4. (a - 1) % m = m - 1
    BY <2>1, <2>3 DEF y
  <2>5. NotPredecessor(a, m) = 0
    BY <2>4 DEF NotPredecessor
  <2>6. (-a) % m = 0
    BY <1>2
  <2> QED BY <2>5, <2>6
<1>3. CASE a # 0
  <2>1. (a - 1) % m = a - 1
    BY <1>3, BelowModulus
  <2>2. NotPredecessor(a, m) = m - a
    BY <2>1 DEF NotPredecessor
  <2>3. -a = (m * minus) + (m - a)
    OBVIOUS
  <2> DEFINE y == m - a
  <2>4. y \in Int /\ y \in Nat /\ y < m
    BY <1>3
  <2> HIDE DEF minus, y
  <2>5. ((m * minus) + y) % m = y % m /\ y % m = y
    BY ONLY <1>1, <2>4, m \in Nat \ {0, 1}, RemainderOf, BelowModulus
  <2> QED BY <2>2, <2>3, <2>5 DEF y
<1> QED BY <1>2, <1>3

(* ~(a - 1) is -a.                                                         *)
LEMMA NotIsNegative ==
  ASSUME NEW q, Asked(q), q.modulus \in Words, Fit(q, {"a"}), q.op = "Not"
  PROVE  NotPredecessor(q.a, Modulo(q.modulus)) = WordAnswer(q)
<1> DEFINE m == Modulo(q.modulus)
           t == Truncated(q, {"a", "b", "c"})
<1>1. m \in Nat \ {0, 1} /\ q.a \in Nat /\ q.a < m
  BY Moduluses DEF Asked, Fit
<1>2. t.op = q.op /\ t.modulus = q.modulus /\ t.a = q.a % m
  BY TruncatedIs
<1>3. q.a % m = q.a
  BY <1>1, BelowModulus
<1>4. WordAnswer(q) = OnWords(t)
  BY DEF WordAnswer
<1> HIDE DEF t
<1>5. OnWords(t) = (-(q.a)) % m
  BY <1>2, <1>3 DEF OnWords, Calculated, Arithmetic, Comparing, Common, Ordered
<1>6. NotPredecessor(q.a, m) = (-(q.a)) % m
  BY <1>1, NegativeRemainder
<1> QED BY <1>4, <1>5, <1>6

(* What is shown of each: an answer of a module is the answer.             *)
LEMMA IntxAnswers ==
  ASSUME NEW q, Asked(q), q.modulus \in Words, NEW v \in intx(q), v # Unanswered
  PROVE  v = WordAnswer(q)
<1>1. /\ q.op \in IntxOps
      /\ Fit(q, {"a", "b", "c"}) /\ ~ByZero(q)
      /\ q.op \in {"AddMod", "MulMod"} => q.c # 0
      /\ v = IF q.op = "Not" THEN NotPredecessor(q.a, Modulo(q.modulus)) ELSE OnWords(q)
  BY DEF intx, Outcome
<1>2. Fit(q, {"a"}) /\ Fit(q, {"a", "b"}) /\ Fit(q, {"c"})
  BY <1>1 DEF Fit
<1>3. q.op \in WordOps \cup {"RShift", "Sqrt"} /\ (q.op = "SDiv" => q.b # 0)
  BY <1>1 DEF IntxOps, WordOps, Common, Comparing, Ordered, Logical, Ternary, Divisions, ByZero
<1>4. CASE q.op = "Not"
  BY <1>1, <1>2, <1>4, NotIsNegative
<1>5. CASE q.op # "Not"
  <2>1. OnWords(q) = WordAnswer(q)
    BY <1>1, <1>2, <1>3, OnFitting
  <2> QED BY <1>1, <1>5, <2>1
<1> QED BY <1>4, <1>5

LEMMA DecredAnswers ==
  ASSUME NEW q, Asked(q), q.modulus \in Words, NEW v \in decred_uint256(q), v # Unanswered
  PROVE  v = WordAnswer(q)
<1>1. q.op \in DecredOps /\ Fit(q, {"a", "b"}) /\ v = OnWords(q)
  BY DEF decred_uint256, Outcome
<1>2. /\ q.op \in WordOps \cup {"RShift", "Sqrt"} /\ q.op \notin Ternary
      /\ q.op \notin {"AddMod", "MulMod", "SDiv"}
  BY <1>1 DEF DecredOps, WordOps, Common, Comparing, Ordered, Logical, Ternary, Divisions
<1> QED BY <1>1, <1>2, OnFitting

LEMMA WideIntegerAnswers ==
  ASSUME NEW q, Asked(q), q.modulus \in Words, NEW v \in wide_integer(q), v # Unanswered
  PROVE  v = WordAnswer(q)
<1>1. q.op \in WideIntegerOps /\ Fit(q, {"a", "b", "c"}) /\ v = OnWords(q)
  BY DEF wide_integer, Outcome
<1>2. Fit(q, {"a", "b"}) /\ Fit(q, {"c"})
  BY <1>1 DEF Fit
<1>3. /\ q.op \in WordOps \cup {"RShift", "Sqrt"}
      /\ q.op \notin {"AddMod", "MulMod", "SDiv"}
  BY <1>1 DEF WideIntegerOps, WordOps, Common, Ternary, Divisions
<1> QED BY <1>1, <1>2, <1>3, OnFitting

LEMMA RustCryptoAnswers ==
  ASSUME NEW q, Asked(q), q.modulus \in Words, NEW v \in rustcrypto(q), v # Unanswered
  PROVE  v = WordAnswer(q)
<1>1. /\ q.op \in RustCryptoOps
      /\ Fit(q, {"a", "b", "c"}) /\ ~ByZero(q)
      /\ q.op \in {"AddMod", "SubMod"} => q.a < q.c
      /\ v = IF q.op = "Not" THEN NotPredecessor(q.a, Modulo(q.modulus)) ELSE OnWords(q)
  BY DEF rustcrypto, Outcome
<1>2. Fit(q, {"a"}) /\ Fit(q, {"a", "b"}) /\ Fit(q, {"c"})
  BY <1>1 DEF Fit
<1>3. /\ q.op \in WordOps \cup {"RShift", "Sqrt"}
      /\ q.op \notin {"MulMod", "SDiv"}
  BY <1>1 DEF RustCryptoOps, WordOps, Common, Comparing, Ordered, Logical, Ternary, Divisions
<1>4. q.op = "AddMod" => q.c # 0
  BY <1>1 DEF Asked
<1>5. CASE q.op = "Not"
  BY <1>1, <1>2, <1>5, NotIsNegative
<1>6. CASE q.op # "Not"
  <2>1. OnWords(q) = WordAnswer(q)
    BY <1>1, <1>2, <1>3, <1>4, OnFitting
  <2> QED BY <1>1, <1>6, <2>1
<1> QED BY <1>5, <1>6

LEMMA RustUintAnswers ==
  ASSUME NEW q, Asked(q), q.modulus \in Words, NEW v \in rust_uint(q), v # Unanswered
  PROVE  v = WordAnswer(q)
<1>1. q.op \in RustUintOps /\ Fit(q, {"a", "b"}) /\ v = OnWords(q)
  BY DEF rust_uint, Outcome
<1>2. /\ q.op \in WordOps \cup {"RShift", "Sqrt"} /\ q.op \notin Ternary
      /\ q.op \notin {"AddMod", "MulMod", "SDiv"}
  BY <1>1 DEF RustUintOps, WordOps, Common, Comparing, Ordered, Logical, Ternary, Divisions
<1> QED BY <1>1, <1>2, OnFitting

LEMMA StintAnswers ==
  ASSUME NEW q, Asked(q), q.modulus \in Words, NEW v \in stint(q), v # Unanswered
  PROVE  v = WordAnswer(q)
<1>1. /\ q.op \in StintOps /\ Fit(q, {"a", "b", "c"}) /\ v = OnWords(q)
      /\ q.op \in {"AddMod", "MulMod"} => q.c # 0
  BY DEF stint, Outcome
<1>2. Fit(q, {"a", "b"}) /\ Fit(q, {"c"})
  BY <1>1 DEF Fit
<1>3. q.op \in WordOps \cup {"RShift", "Sqrt"} /\ q.op # "SDiv"
  BY <1>1 DEF StintOps, WordOps, Common, Comparing, Ordered, Logical, Ternary, Divisions
<1> QED BY <1>1, <1>2, <1>3, OnFitting

LEMMA ArkworksWordsAnswers ==
  ASSUME NEW q, Asked(q), q.modulus \in Words, NEW v \in arkworks_words(q), v # Unanswered
  PROVE  v = WordAnswer(q)
<1>1. q.op \in {"LShift1", "LShift", "RShift"} /\ Fit(q, {"a", "b", "c"}) /\ v = OnWords(q)
  BY DEF arkworks_words, Outcome
<1>2. Fit(q, {"a", "b"}) /\ Fit(q, {"c"})
  BY <1>1 DEF Fit
<1>3. /\ q.op \in WordOps \cup {"RShift", "Sqrt"}
      /\ q.op \notin {"AddMod", "MulMod", "SDiv"}
  BY <1>1 DEF WordOps, Common
<1> QED BY <1>1, <1>2, <1>3, OnFitting

(* Reduced operands are what two modules calculate with.                   *)
LEMMA OnTruncated ==
  ASSUME NEW q, Asked(q), q.modulus \in Words,
         q.op \in WordOps \ (Ternary \cup {"Exp", "SDiv", "Bit", "CondSet"})
  PROVE  OnWords(Truncated(q, {"a", "b"})) = WordAnswer(q)
<1> DEFINE t == Truncated(q, {"a", "b"})
           m == Modulo(q.modulus)
<1>1. /\ t.op = q.op /\ t.modulus = q.modulus
      /\ t.a = q.a % m /\ t.b = q.b % m
  BY TruncatedIs
<1> HIDE DEF t
<1>2. q.op \notin {"AddMod", "MulMod"}
  BY DEF Ternary
<1>3. Calculated(q.op, t.a, t.b, t.c, m, FALSE) = WordAnswer(q)
  BY <1>1, <1>2, OnReduced
<1>4. OnWords(t) = Calculated(q.op, t.a, t.b, t.c, m, FALSE)
  BY <1>1, Zenon DEF OnWords
<1> QED BY <1>3, <1>4 DEF t

LEMMA BitcoinAnswers ==
  ASSUME NEW q, Asked(q), q.modulus \in Words, NEW v \in Bitcoin(q), v # Unanswered
  PROVE  v = WordAnswer(q)
<1>1. q.op \in BitcoinOps /\ v = OnWords(Truncated(q, {"a", "b"}))
  BY DEF Bitcoin, Outcome
<1>2. q.op \in WordOps \ (Ternary \cup {"Exp", "SDiv", "Bit", "CondSet"})
  BY <1>1 DEF BitcoinOps, WordOps, Common, Comparing, Ordered, Logical, Ternary, Divisions
<1> QED BY <1>1, <1>2, OnTruncated

LEMMA Uint128Answers ==
  ASSUME NEW q, Asked(q), q.modulus \in Words, NEW v \in uint128_t(q), v # Unanswered
  PROVE  v = WordAnswer(q)
<1>1. q.op \in Uint128Ops /\ v = OnWords(Truncated(q, {"a", "b"}))
  BY DEF uint128_t, Outcome
<1>2. q.op \in WordOps \ (Ternary \cup {"Exp", "SDiv", "Bit", "CondSet"})
  BY <1>1 DEF Uint128Ops, WordOps, Common, Comparing, Ordered, Logical, Ternary, Divisions
<1> QED BY <1>1, <1>2, OnTruncated

(* The modulus of AddMod and MulMod is reduced, and may be zero then.      *)
LEMMA HolimanAnswers ==
  ASSUME NEW q, Asked(q), q.modulus \in Words, NEW v \in holiman_uint256(q), v # Unanswered
  PROVE  v = WordAnswer(q)
<1> DEFINE t == Truncated(q, {"c"})
           m == Modulo(q.modulus)
           u == Truncated(q, {"a", "b", "c"})
           zero == \/ q.op \in {"AddMod", "MulMod"} /\ t.c = 0
                   \/ q.op = "SDiv" /\ q.b = 0
<1>1. q.op \in HolimanOps /\ Fit(q, {"a", "b"}) /\ v = IF zero THEN 0 ELSE OnWords(t)
  BY DEF holiman_uint256, Outcome
<1>2. t.op = q.op /\ t.modulus = q.modulus /\ t.a = q.a /\ t.b = q.b /\ t.c = q.c % m
  BY TruncatedIs
<1>3. u.c = q.c % m
  BY TruncatedIs
<1>4. q.a < m /\ q.b < m /\ m \in Nat \ {0} /\ q.a \in Nat /\ q.b \in Nat
  BY <1>1, Moduluses DEF Fit, Asked
<1>5. t.a = q.a % m /\ t.b = q.b % m
  BY <1>2, <1>4, BelowModulus
<1> HIDE DEF t, u
<1>6. q.op \in WordOps \cup {"RShift", "Sqrt"} /\ q.op \notin {"Bit", "CondSet"}
  BY <1>1 DEF HolimanOps, WordOps, Common, Comparing, Ordered, Logical, Ternary, Divisions
<1>7. CASE zero
  <2>1. q.op \in {"AddMod", "MulMod", "SDiv"} /\ (q.op \in {"AddMod", "MulMod"} => u.c = 0) /\ (q.op = "SDiv" => q.b = 0)
    BY <1>2, <1>3, <1>7
  <2>2. WordAnswer(q) = 0
    BY <2>1 DEF WordAnswer, u
  <2> QED BY <1>1, <1>7, <2>2
<1>8. CASE ~zero /\ q.op \in {"RShift", "Sqrt", "Exp"}
  <2>1. q.op \notin Ternary
    BY <1>8 DEF Ternary
  <2>2. OnWords(q) = WordAnswer(q)
    BY <1>1, <1>6, <1>8, <2>1, OnFitting
  <2>3. OnWords(t) = OnWords(q)
    BY <1>2, <1>8 DEF OnWords, Calculated, Arithmetic, OfWords, Comparing, Common, Ordered
  <2> QED BY <1>1, <1>8, <2>2, <2>3
<1>9. CASE ~zero /\ q.op \notin {"RShift", "Sqrt", "Exp"}
  <2>1. Calculated(q.op, t.a, t.b, t.c, m, FALSE) = WordAnswer(q)
    BY <1>2, <1>5, <1>6, <1>9, OnReduced
  <2>2. OnWords(t) = Calculated(q.op, t.a, t.b, t.c, m, FALSE)
    BY <1>2, Zenon DEF OnWords
  <2> QED BY <1>1, <1>9, <2>1, <2>2
<1> QED BY <1>7, <1>8, <1>9

LEMMA PowerOutgrows == ASSUME NEW n \in Nat PROVE n < Power(2, n)
<1> DEFINE two == 2
           T == {k \in Nat : k < Power(two, k)}
<1>1. two \in Nat
  OBVIOUS
<1> HIDE DEF two
<1>2. Power(two, 0) = 1 /\ \A k \in Nat : Power(two, k) \in Nat /\ Power(two, k + 1) = two * Power(two, k)
  BY <1>1, PowerSteps
<1>3. 0 \in T
  BY <1>2
<1>4. \A k \in Nat : k \in T => k + 1 \in T
  BY <1>2 DEF two
<1> HIDE DEF T
<1>5. n \in T
  BY <1>3, <1>4, AllNumbers
<1> QED BY <1>5 DEF T, two

LEMMA NumBitsIs == ASSUME NEW n \in Nat PROVE NumBits(n) \in Nat
<1> DEFINE T == {i \in Nat : Power(2, i) > n}
<1>1. n \in T
  BY PowerOutgrows
<1>2. PICK i \in T : \A j \in T : i <= j
  <2>1. T \in SUBSET Nat /\ T # {}
    BY <1>1
  <2> HIDE DEF T
  <2> QED BY <2>1, LeastOf
<1>3. i \in 0 .. n
  <2> HIDE DEF T
  <2>1. i <= n
    BY <1>1, <1>2
  <2> QED BY <1>2, <2>1 DEF T
<1>4. \A j \in Nat : Power(2, j) \in Nat
  <2> DEFINE two == 2
  <2>1. two \in Nat
    OBVIOUS
  <2> HIDE DEF two
  <2>2. \A j \in Nat : Power(two, j) \in Nat
    BY <2>1, PowerSteps
  <2> QED BY <2>2 DEF two
<1>5. i = 0 \/ Power(2, i - 1) <= n
  <2> SUFFICES ASSUME i # 0 PROVE Power(2, i - 1) <= n
    OBVIOUS
  <2>1. i - 1 \in Nat /\ ~(i <= i - 1)
    BY <1>3
  <2>2. i - 1 \notin T
    BY ONLY <1>2, <2>1
  <2>3. Power(2, i - 1) \in Nat
    BY ONLY <1>4, <2>1
  <2> QED BY <2>1, <2>2, <2>3
<1>6. \E j \in 0 .. n : Power(2, j) > n /\ (j = 0 \/ Power(2, j - 1) <= n)
  BY <1>2, <1>3, <1>5
<1>7. NumBits(n) = CHOOSE j \in 0 .. n : Power(2, j) > n /\ (j = 0 \/ Power(2, j - 1) <= n)
  BY DEF NumBits
<1>8. NumBits(n) \in 0 .. n
  BY ONLY <1>6, <1>7
<1> QED BY <1>8

(* A processor takes the count of a shift modulo the bits of a word.       *)
LEMMA CPUAnswers ==
  ASSUME NEW q, Asked(q), q.modulus \in Words, NEW v \in CPU(q), v # Unanswered,
         ~Misanswered("CPU", q)
  PROVE  v = WordAnswer(q)
<1> DEFINE m == Modulo(q.modulus)
           n == NumBits(m - 1)
<1>1. /\ q.op \in {"Add", "Sub", "Mul", "Div", "Mod", "RShift"} \cup Logical
      /\ Fit(q, {"a", "b"})
      /\ v = IF q.op = "RShift" THEN q.a \div Power(2, q.b % n) ELSE OnWords(q)
  BY DEF CPU, Outcome
<1>2. /\ q.op \in WordOps \cup {"RShift", "Sqrt"} /\ q.op \notin Ternary
      /\ q.op \notin {"AddMod", "MulMod", "SDiv"}
  BY <1>1 DEF WordOps, Common, Logical, Ternary, Divisions
<1>3. OnWords(q) = WordAnswer(q)
  BY <1>1, <1>2, OnFitting
<1>4. CASE q.op = "RShift"
  <2>1. ~(q.b >= n)
    BY <1>4 DEF Misanswered
  <2>2. m - 1 \in Nat /\ q.b \in Nat
    BY Moduluses DEF Asked
  <2>3. n \in Nat
    BY <2>2, NumBitsIs
  <2> HIDE DEF n
  <2>4. n \in Nat \ {0} /\ q.b < n
    BY <2>1, <2>2, <2>3
  <2>5. q.b % n = q.b
    BY <2>2, <2>4, BelowModulus
  <2>6. OnWords(q) = q.a \div Power(2, q.b)
    BY <1>4 DEF OnWords, Calculated, OfWords, Comparing, Common, Ordered
  <2> QED BY <1>1, <1>3, <1>4, <2>5, <2>6
<1>5. CASE q.op # "RShift"
  BY <1>1, <1>3, <1>5
<1> QED BY <1>4, <1>5

(* Botan's answers to questions about words.                               *)
LEMMA BotanOnWords ==
  ASSUME NEW q, Asked(q), q.modulus \in Words, NEW v \in Botan(q), v # Unanswered,
         ~Misanswered("Botan", q)
  PROVE  v = WordAnswer(q)
<1> DEFINE m == Modulo(q.modulus)
<1>0. m \in Nat \ {0, 1} /\ m % 2 = 0 /\ q.a \in Nat /\ q.b \in Nat
  BY Moduluses DEF Asked
<1>1. /\ q.op \in BotanOps
      /\ v = IF q.op = "Sqrt" THEN Ressol(q.a, m)
             ELSE IF q.op = "RShift" THEN BotanRShift(q.a, q.b, m)
             ELSE IF q.op = "Exp" THEN PowerMod(q.a, q.b, m)
             ELSE IF q.op \in {"IsEven", "IsOdd", "Bit", "CondSet"} THEN OnWords(q)
             ELSE OnElements(q)
  BY DEF Botan
<1>2. CASE q.op = "Sqrt"
  <2> DEFINE found == \E r \in 1 .. m - 1 : (r * r) % m = q.a
  <2>1. q.a <= 1 /\ v = IF found THEN q.a ELSE 0
    BY <1>0, <1>1, <1>2 DEF Ressol, Outcome
  <2>2. WordAnswer(q) = Root(q.a, 2)
    BY <1>2 DEF WordAnswer
  <2>3. CASE q.a = 0
    BY <2>1, <2>2, <2>3, SmallRoots
  <2>4. CASE q.a = 1
    <3>1. 1 \in 1 .. m - 1 /\ 1 * 1 = 1 /\ 1 % m = 1
      BY <1>0
    <3>2. found
      BY <2>4, <3>1
    <3> QED BY <2>1, <2>2, <2>4, <3>2, SmallRoots
  <2> QED BY <1>0, <2>1, <2>3, <2>4
<1>3. CASE q.op = "RShift"
  <2>1. q.a % 2 # 1
    BY <1>3 DEF Misanswered
  <2>2. v = (q.a \div Power(2, q.b)) % m
    BY <1>1, <1>3, <2>1 DEF BotanRShift
  <2> QED BY <1>3, <2>2 DEF WordAnswer
<1>4. CASE q.op = "Exp"
  BY <1>1, <1>4 DEF WordAnswer
<1>5. CASE q.op \in {"IsEven", "IsOdd", "Bit", "CondSet"}
  BY <1>1, <1>5 DEF WordAnswer
<1>6. CASE q.op = "InvMod"
  BY <1>1, <1>6 DEF WordAnswer
<1>7. CASE q.op \notin {"Sqrt", "RShift", "Exp", "IsEven", "IsOdd", "Bit", "CondSet", "InvMod"}
  <2> DEFINE a == q.a % m
             b == q.b % m
             zero == 0
  <2>1. /\ q.op \in WordOps \ {"Exp"} /\ q.op \notin Ternary
        /\ q.op \notin {"AddMod", "MulMod", "SDiv"}
        /\ q.op \in Comparing \cup Common
    BY <1>1, <1>7 DEF BotanOps, WordOps, Common, Comparing, Ternary
  <2>2. v = Calculated(q.op, a, b, zero, m, TRUE)
    BY <1>1, <1>7 DEF OnElements
  <2> HIDE DEF a, b, zero
  <2>3. Calculated(q.op, a, b, zero, m, TRUE) = Calculated(q.op, a, b, zero, m, FALSE)
    <3>1. CASE q.op \in Comparing
      BY <3>1, Zenon DEF Calculated
    <3>2. CASE q.op \notin Comparing
      BY <2>1, <3>2, Zenon DEF Calculated
    <3> QED BY <3>1, <3>2
  <2>4. a = q.a % m /\ b = q.b % m
    BY DEF a, b
  <2>5. Calculated(q.op, a, b, zero, m, FALSE) = WordAnswer(q)
    BY <1>7, <2>1, <2>4, OnReduced
  <2> QED BY <2>2, <2>3, <2>5
<1> QED BY <1>2, <1>3, <1>4, <1>5, <1>6, <1>7

-----------------------------------------------------------------------------
(* The modules of fields, and the answer that each gives.                  *)

FieldAnswer(q) ==
  IF q.op \in {"IsEven", "IsOdd", "Bit", "CondSet"} THEN OnWords(q)
  ELSE IF q.op = "RShift" THEN BotanRShift(q.a, q.b, Modulo(q.modulus))
  ELSE OnElements(q)

LEMMA Halved ==
  ASSUME NEW m \in Nat \ {0, 1}, NEW a \in Nat, a < m
  PROVE  BotanRShift(a, 1, m) = (IF a % 2 = 1 THEN a + m ELSE a) \div 2
<1> DEFINE x == IF a % 2 = 1 THEN a + m ELSE a
           two == 2
           y == x \div 2
<1>1. Power(2, 1) = 2
  <2>1. two \in Nat
    OBVIOUS
  <2> HIDE DEF two
  <2>2. Power(two, 1) = two
    BY ONLY <2>1, SecondPower
  <2> QED BY <2>2 DEF two
<1>2. x \in Nat /\ x < 2 * m
  OBVIOUS
<1>3. BotanRShift(a, 1, m) = y % m
  BY <1>1 DEF BotanRShift
<1> HIDE DEF x
<1>4. y \in Nat /\ y < m
  BY <1>2
<1> HIDE DEF y
<1>5. y % m = y
  BY <1>4, BelowModulus
<1> QED BY <1>3, <1>5 DEF x, y

LEMMA OnElementsIs ==
  ASSUME NEW q, Asked(q),
         q.op \in {"IsEven", "IsOdd"} => Fit(q, {"a"}),
         q.op \in {"Bit", "CondSet"} => Fit(q, {"a", "b"}),
         q.op = "RShift" => Fit(q, {"a"}) /\ q.b = 1
  PROVE  OnElements(q) = FieldAnswer(q)
<1> DEFINE m == Modulo(q.modulus)
<1>1. m \in Nat \ {0, 1} /\ q.a \in Nat /\ q.b \in Nat
  BY Moduluses DEF Asked
<1>2. CASE q.op \in {"IsEven", "IsOdd"}
  <2>1. q.a % m = q.a
    BY <1>1, <1>2, BelowModulus DEF Fit
  <2>2. FieldAnswer(q) = OnWords(q)
    BY <1>2 DEF FieldAnswer
  <2>3. OnWords(q) = Truth(Compare(q.op, q.a, q.b, m))
    BY <1>2 DEF OnWords, Calculated, Comparing
  <2>4. OnElements(q) = Truth(Compare(q.op, q.a, q.b % m, m))
    BY <1>2, <2>1 DEF OnElements, Calculated, Comparing
  <2> QED BY <1>2, <2>2, <2>3, <2>4 DEF Compare
<1>3. CASE q.op \in {"Bit", "CondSet"}
  <2>1. q.a % m = q.a /\ q.b % m = q.b
    BY <1>1, <1>3, BelowModulus DEF Fit
  <2>2. FieldAnswer(q) = OnWords(q)
    BY <1>3 DEF FieldAnswer
  <2>3. OnWords(q) = Arithmetic(q.op, q.a, q.b, m)
    BY <1>3 DEF OnWords, Calculated, Comparing, Common, Ordered
  <2>4. OnElements(q) = Arithmetic(q.op, q.a, q.b, m)
    BY <1>3, <2>1 DEF OnElements, Calculated, Comparing, Common, Ordered
  <2> QED BY <2>2, <2>3, <2>4
<1>4. CASE q.op = "RShift"
  <2>1. q.b = 1 /\ q.a < m
    BY <1>4 DEF Fit
  <2>2. q.a % m = q.a
    BY <1>1, <2>1, BelowModulus
  <2>3. FieldAnswer(q) = BotanRShift(q.a, 1, m)
    BY <1>4, <2>1 DEF FieldAnswer
  <2>4. OnElements(q) = (IF q.a % 2 = 1 THEN q.a + m ELSE q.a) \div 2
    BY <1>4, <2>2 DEF OnElements, Calculated, OfFields, Comparing, Common, Ordered
  <2> QED BY <1>1, <2>1, <2>3, <2>4, Halved
<1>5. CASE q.op \notin {"IsEven", "IsOdd", "Bit", "CondSet", "RShift"}
  BY <1>5 DEF FieldAnswer
<1> QED BY <1>2, <1>3, <1>4, <1>5

(* Modules that know no operation that Botan answers in its own way.       *)
LEMMA PlainFields ==
  ASSUME NEW q, Asked(q), NEW v, v # Unanswered,
         \/ v \in libff(q) \/ v \in Constantine(q) \/ v \in polygon_zkevm_prover(q)
         \/ v \in Pornin_BinGCD(q) \/ v \in Goldilocks(q) \/ v \in openssl(q) \/ v \in ff(q)
         \/ v \in pasta_curves(q) \/ v \in Aleo(q) \/ v \in arkworks_fields(q) \/ v \in circl(q)
         \/ v \in gnark_bn254(q) \/ v \in gnark_google_cloudflare(q) \/ v \in Kryptology(q)
         \/ v \in py_ecc(q)
  PROVE  v = FieldAnswer(q)
<1> DEFINE plain == q.op \notin {"IsEven", "IsOdd", "Bit", "CondSet", "RShift"} /\ v = OnElements(q)
<1>1. ASSUME v \in libff(q) PROVE plain
  BY <1>1 DEF libff, Field, Outcome, LibffOps, RingOps
<1>2. ASSUME v \in Constantine(q) PROVE plain
  BY <1>2 DEF Constantine, Field, Outcome, ConstantineOps, RingOps
<1>3. ASSUME v \in polygon_zkevm_prover(q) PROVE plain
  BY <1>3 DEF polygon_zkevm_prover, Field, Outcome, RingOps
<1>4. ASSUME v \in Pornin_BinGCD(q) PROVE plain
  BY <1>4 DEF Pornin_BinGCD, Field, Outcome, RingOps
<1>5. ASSUME v \in Goldilocks(q) PROVE plain
  BY <1>5 DEF Goldilocks, Field, Outcome, RingOps
<1>6. ASSUME v \in openssl(q) PROVE plain
  BY <1>6 DEF openssl, Field, Outcome
<1>7. ASSUME v \in ff(q) PROVE plain
  BY <1>7 DEF ff, Field, Outcome
<1>8. ASSUME v \in pasta_curves(q) PROVE plain
  BY <1>8 DEF pasta_curves, Field, Outcome, RingOps
<1>9. ASSUME v \in Aleo(q) PROVE plain
  BY <1>9 DEF Aleo, Field, Outcome, RingOps
<1>10. ASSUME v \in arkworks_fields(q) PROVE plain
  BY <1>10 DEF arkworks_fields, Field, Outcome, ArkworksOps
<1>11. ASSUME v \in circl(q) PROVE plain
  BY <1>11 DEF circl, Field, Outcome, RingOps
<1>12. ASSUME v \in gnark_bn254(q) PROVE plain
  BY <1>12 DEF gnark_bn254, Field, Outcome, GnarkOps, RingOps
<1>13. ASSUME v \in gnark_google_cloudflare(q) PROVE plain
  BY <1>13 DEF gnark_google_cloudflare, Field, Outcome, GnarkOps, RingOps
<1>14. ASSUME v \in Kryptology(q) PROVE plain
  BY <1>14 DEF Kryptology, Field, Outcome, RingOps
<1>15. ASSUME v \in py_ecc(q) PROVE plain
  BY <1>15 DEF py_ecc, Field, Outcome
<1>16. plain
  <2> HIDE DEF plain
  <2> QED BY <1>1, <1>2, <1>3, <1>4, <1>5, <1>6, <1>7, <1>8, <1>9, <1>10, <1>11, <1>12, <1>13,
             <1>14, <1>15
<1> QED BY <1>16, OnElementsIs

LEMMA BlstAnswers ==
  ASSUME NEW q, Asked(q), NEW v \in blst(q), v # Unanswered
  PROVE  v = FieldAnswer(q)
<1>1. /\ q.op \in BlstOps \cup {"RShift", "Sqrt", "IsSquare"} /\ v = OnElements(q)
      /\ q.op = "RShift" => q.b = 1 /\ Fit(q, {"a"})
  BY DEF blst, Field, Outcome
<1>2. q.op \notin {"IsEven", "IsOdd", "Bit", "CondSet"}
  BY <1>1 DEF BlstOps, RingOps
<1> QED BY <1>1, <1>2, OnElementsIs

LEMMA MclAnswers ==
  ASSUME NEW q, Asked(q), NEW v \in mcl(q), v # Unanswered
  PROVE  v = FieldAnswer(q)
<1>1. /\ q.op \in MclOps \cup {"RShift"} /\ v = OnElements(q)
      /\ Fit(q, Used(q.op)) /\ (q.op = "RShift" => q.b = 1)
  BY DEF mcl, Field, Outcome
<1>2. q.op \notin {"Bit", "CondSet"}
  BY <1>1 DEF MclOps, RingOps, Ordered
<1>3. q.op \in {"IsEven", "IsOdd"} => Used(q.op) = {"a"}
  BY DEF Used, Ternary, Binary, Unary, Divisions, Ordered, Logical
<1>4. q.op = "RShift" => Used(q.op) = {"a", "b"}
  <2>1. "RShift" \in Binary /\ "RShift" \notin Ternary /\ "RShift" \notin Unary
    BY DEF Binary, Ternary, Unary
  <2> QED BY <2>1 DEF Used
<1>5. q.op \in {"IsEven", "IsOdd", "RShift"} => Fit(q, {"a"})
  BY <1>1, <1>3, <1>4 DEF Fit
<1> QED BY <1>1, <1>2, <1>5, OnElementsIs

LEMMA Secp256k1Answers ==
  ASSUME NEW q, Asked(q), NEW v \in secp256k1(q), v # Unanswered
  PROVE  v = FieldAnswer(q)
<1>1. q.op \in ScalarOps \cup ElementOps /\ v = OnElements(q) /\ Fit(q, Both)
  BY DEF secp256k1, Field, Outcome
<1>2. q.op # "RShift"
  BY <1>1 DEF ScalarOps, ElementOps
<1>3. Fit(q, {"a"}) /\ Fit(q, {"a", "b"})
  BY <1>1 DEF Fit, Both
<1> QED BY <1>1, <1>2, <1>3, OnElementsIs

LEMMA KilicAnswers ==
  ASSUME NEW q, Asked(q), NEW v \in kilic_bls12_381(q), ~Misanswered("kilic-bls12-381", q)
  PROVE  v = FieldAnswer(q)
<1>1. q.op \in KilicOps
  BY DEF Misanswered
<1>2. v = OnElements(q)
  BY <1>1 DEF kilic_bls12_381
<1>3. q.op \notin {"IsEven", "IsOdd", "Bit", "CondSet", "RShift"}
  BY <1>1 DEF KilicOps, RingOps
<1> QED BY <1>2, <1>3, OnElementsIs

LEMMA NobleAnswers ==
  ASSUME NEW q, Asked(q), NEW v \in noble_bls12_381(q), v # Unanswered,
         ~Misanswered("noble-bls12-381", q)
  PROVE  v = FieldAnswer(q)
<1>1. q.op # "Jacobi"
  BY DEF Misanswered
<1>2. q.op \in RingOps \cup {"Div", "InvMod", "Sqrt", "Jacobi", "Neg"} /\ v = OnElements(q)
  BY <1>1 DEF noble_bls12_381, Outcome
<1>3. q.op \notin {"IsEven", "IsOdd", "Bit", "CondSet", "RShift"}
  BY <1>2 DEF RingOps
<1> QED BY <1>2, <1>3, OnElementsIs

(* Botan's answers to questions about elements.                            *)
LEMMA BotanOnElements ==
  ASSUME NEW q, Asked(q), NEW v \in Botan(q), v # Unanswered
  PROVE  v = FieldAnswer(q)
<1> DEFINE m == Modulo(q.modulus)
<1>0. m \in Nat \ {0, 1} /\ q.a \in Nat /\ q.b \in Nat
  BY Moduluses DEF Asked
<1>1. v = IF q.op = "Sqrt" THEN Ressol(q.a, m)
          ELSE IF q.op = "RShift" THEN BotanRShift(q.a, q.b, m)
          ELSE IF q.op = "Exp" THEN PowerMod(q.a, q.b, m)
          ELSE IF q.op \in {"IsEven", "IsOdd", "Bit", "CondSet"} THEN OnWords(q)
          ELSE OnElements(q)
  BY DEF Botan
<1>2. CASE q.op = "Sqrt"
  <2> DEFINE found == \E r \in 1 .. m - 1 : (r * r) % m = q.a
  <2>1. q.a < m /\ v = IF found THEN q.a ELSE 0
    BY <1>1, <1>2 DEF Ressol, Outcome
  <2>2. q.a % m = q.a
    BY <1>0, <2>1, BelowModulus
  <2>3. FieldAnswer(q) = IF IsSquare(q.a, m) THEN q.a ELSE 0
    BY <1>2, <2>2 DEF FieldAnswer, OnElements, Calculated, OfFields, Comparing, Common, Ordered
  <2>4. CASE q.a = 0
    BY <2>1, <2>3, <2>4
  <2>5. CASE q.a # 0
    <3>1. 0 * 0 = 0 /\ 0 % m = 0
      BY <1>0
    <3>2. (0 * 0) % m # q.a
      BY <2>5, <3>1
    <3>3. 0 .. m - 1 = {0} \cup (1 .. m - 1)
      BY <1>0
    <3>4. IsSquare(q.a, m) <=> found
      BY ONLY <3>2, <3>3 DEF IsSquare
    <3> QED BY <2>1, <2>3, <3>4
  <2> QED BY <2>4, <2>5
<1>3. CASE q.op = "RShift"
  BY <1>1, <1>3 DEF FieldAnswer
<1>4. CASE q.op = "Exp"
  <2>1. q.b < m
    BY <1>4 DEF Asked
  <2>2. q.b % m = q.b
    BY <1>0, <2>1, BelowModulus
  <2>3. FieldAnswer(q) = PowerMod(q.a % m, q.b, m)
    BY <1>4, <2>2 DEF FieldAnswer, OnElements, Calculated, Arithmetic, Comparing, Common, Ordered
  <2> QED BY <1>0, <1>1, <1>4, <2>3, PowerModReduced
<1>5. CASE q.op \in {"IsEven", "IsOdd", "Bit", "CondSet"}
  BY <1>1, <1>5 DEF FieldAnswer
<1>6. CASE q.op \notin {"Sqrt", "RShift", "Exp", "IsEven", "IsOdd", "Bit", "CondSet"}
  BY <1>1, <1>6 DEF FieldAnswer
<1> QED BY <1>2, <1>3, <1>4, <1>5, <1>6

-----------------------------------------------------------------------------
(* The modules agree.                                                      *)

WordModuleNames ==
  {"Botan", "CPU", "intx", "uint128_t", "decred-uint256", "holiman-uint256", "wide-integer",
   "rustcrypto", "Bitcoin", "rust-uint", "stint", "arkworks-algebra"}

FieldModuleNames ==
  {"Botan", "libff", "Constantine", "polygon-zkevm-prover", "arkworks-algebra", "gnark-bn254",
   "gnark-google-cloudflare", "blst", "mcl", "OpenSSL", "ff", "circl", "kilic-bls12-381",
   "Kryptology", "noble-bls12-381", "py_ecc", "Aleo", "pasta_curves", "Pornin-BinGCD",
   "Goldilocks", "secp256k1"}

TheAnswer(q) == IF q.modulus \in Words THEN WordAnswer(q) ELSE FieldAnswer(q)

LEMMA WordModulesAnswer ==
  ASSUME NEW q, Asked(q), q.modulus \in Words, NEW module \in WordModuleNames,
         NEW v \in Outcomes(module, q), v # Unanswered, ~Misanswered(module, q)
  PROVE  v = WordAnswer(q)
<1>1. CASE module = "Botan"
  <2>1. v \in Botan(q)
    BY <1>1 DEF Outcomes
  <2> QED BY <1>1, <2>1, BotanOnWords
<1>2. CASE module = "CPU"
  <2>1. v \in CPU(q)
    BY <1>2 DEF Outcomes
  <2> QED BY <1>2, <2>1, CPUAnswers
<1>3. CASE module = "intx"
  <2>1. v \in intx(q)
    BY <1>3 DEF Outcomes
  <2> QED BY <2>1, IntxAnswers
<1>4. CASE module = "uint128_t"
  <2>1. v \in uint128_t(q)
    BY <1>4 DEF Outcomes
  <2> QED BY <2>1, Uint128Answers
<1>5. CASE module = "decred-uint256"
  <2>1. v \in decred_uint256(q)
    BY <1>5 DEF Outcomes
  <2> QED BY <2>1, DecredAnswers
<1>6. CASE module = "holiman-uint256"
  <2>1. v \in holiman_uint256(q)
    BY <1>6 DEF Outcomes
  <2> QED BY <2>1, HolimanAnswers
<1>7. CASE module = "wide-integer"
  <2>1. v \in wide_integer(q)
    BY <1>7 DEF Outcomes
  <2> QED BY <2>1, WideIntegerAnswers
<1>8. CASE module = "rustcrypto"
  <2>1. v \in rustcrypto(q)
    BY <1>8 DEF Outcomes
  <2> QED BY <2>1, RustCryptoAnswers
<1>9. CASE module = "Bitcoin"
  <2>1. v \in Bitcoin(q)
    BY <1>9 DEF Outcomes
  <2> QED BY <2>1, BitcoinAnswers
<1>10. CASE module = "rust-uint"
  <2>1. v \in rust_uint(q)
    BY <1>10 DEF Outcomes
  <2> QED BY <2>1, RustUintAnswers
<1>11. CASE module = "stint"
  <2>1. v \in stint(q)
    BY <1>11 DEF Outcomes
  <2> QED BY <2>1, StintAnswers
<1>12. CASE module = "arkworks-algebra"
  <2>1. v \in arkworks_words(q)
    BY <1>12 DEF Outcomes
  <2> QED BY <2>1, ArkworksWordsAnswers
<1> QED BY <1>1, <1>2, <1>3, <1>4, <1>5, <1>6, <1>7, <1>8, <1>9, <1>10, <1>11, <1>12
        DEF WordModuleNames

LEMMA FieldModulesAnswer ==
  ASSUME NEW q, Asked(q), q.modulus \notin Words, NEW module \in FieldModuleNames,
         NEW v \in Outcomes(module, q), v # Unanswered, ~Misanswered(module, q)
  PROVE  v = FieldAnswer(q)
<1>1. CASE module = "Botan"
  <2>1. v \in Botan(q)
    BY <1>1 DEF Outcomes
  <2> QED BY <2>1, BotanOnElements
<1>2. CASE module = "blst"
  <2>1. v \in blst(q)
    BY <1>2 DEF Outcomes
  <2> QED BY <2>1, BlstAnswers
<1>3. CASE module = "mcl"
  <2>1. v \in mcl(q)
    BY <1>3 DEF Outcomes
  <2> QED BY <2>1, MclAnswers
<1>4. CASE module = "secp256k1"
  <2>1. v \in secp256k1(q)
    BY <1>4 DEF Outcomes
  <2> QED BY <2>1, Secp256k1Answers
<1>5. CASE module = "kilic-bls12-381"
  <2>1. v \in kilic_bls12_381(q)
    BY <1>5 DEF Outcomes
  <2> QED BY <1>5, <2>1, KilicAnswers
<1>6. CASE module = "noble-bls12-381"
  <2>1. v \in noble_bls12_381(q)
    BY <1>6 DEF Outcomes
  <2> QED BY <1>6, <2>1, NobleAnswers
<1>7. CASE module \in {"libff", "Constantine", "polygon-zkevm-prover", "Pornin-BinGCD", "Goldilocks"}
  <2>1. \/ v \in libff(q) \/ v \in Constantine(q) \/ v \in polygon_zkevm_prover(q)
        \/ v \in Pornin_BinGCD(q) \/ v \in Goldilocks(q)
    BY <1>7 DEF Outcomes
  <2> QED BY <2>1, PlainFields
<1>8. CASE module \in {"OpenSSL", "ff", "pasta_curves", "Aleo", "arkworks-algebra"}
  <2>1. \/ v \in openssl(q) \/ v \in ff(q) \/ v \in pasta_curves(q) \/ v \in Aleo(q)
        \/ v \in arkworks_fields(q)
    BY <1>8 DEF Outcomes
  <2> QED BY <2>1, PlainFields
<1>9. CASE module \in {"circl", "gnark-bn254", "gnark-google-cloudflare", "Kryptology", "py_ecc"}
  <2>1. \/ v \in circl(q) \/ v \in gnark_bn254(q) \/ v \in gnark_google_cloudflare(q)
        \/ v \in Kryptology(q) \/ v \in py_ecc(q)
    BY <1>9 DEF Outcomes
  <2> QED BY <2>1, PlainFields
<1> QED BY <1>1, <1>2, <1>3, <1>4, <1>5, <1>6, <1>7, <1>8, <1>9 DEF FieldModuleNames

LEMMA AnsweringIs ==
  ASSUME NEW modulus \in Moduli
  PROVE  /\ Len(Answering(modulus)) \in Nat
         /\ modulus \in Words =>
              \A i \in 1 .. Len(Answering(modulus)) : Answering(modulus)[i] \in WordModuleNames
         /\ modulus \notin Words =>
              \A i \in 1 .. Len(Answering(modulus)) : Answering(modulus)[i] \in FieldModuleNames
<1>1. CASE modulus \in Words
  <2>1. /\ Len(Answering(modulus)) \in Nat
        /\ \A i \in 1 .. Len(Answering(modulus)) : Answering(modulus)[i] \in WordModuleNames
    <3>1. CASE modulus = "2^64"
      BY <3>1 DEF Answering, WordModuleNames
    <3>2. CASE modulus = "2^128"
      BY <3>2 DEF Answering, WordModuleNames
    <3>3. CASE modulus = "2^256"
      BY <3>3 DEF Answering, WordModuleNames
    <3>4. CASE modulus = "2^512"
      BY <3>4 DEF Answering, WordModuleNames
    <3> QED BY <1>1, <3>1, <3>2, <3>3, <3>4 DEF Words
  <2> QED BY <1>1, <2>1
<1>2. CASE modulus \notin Words
  <2>1. modulus \in Fields
    BY <1>2, Moduluses
  <2>2. /\ Len(Answering(modulus)) \in Nat
        /\ \A i \in 1 .. Len(Answering(modulus)) : Answering(modulus)[i] \in FieldModuleNames
    <3>1. CASE modulus \in {"bn254_r", "bn254_p"}
      BY <3>1 DEF Answering, FieldModuleNames
    <3>2. CASE modulus = "bls381_r"
      BY <3>2 DEF Answering, FieldModuleNames
    <3>3. CASE modulus = "bls381_p"
      BY <3>3 DEF Answering, FieldModuleNames
    <3>4. CASE modulus \in {"bls377_r", "bls377_p"}
      BY <3>4 DEF Answering, FieldModuleNames
    <3>5. CASE modulus \in {"vesta_r", "vesta_p"}
      BY <3>5 DEF Answering, FieldModuleNames
    <3>6. CASE modulus \in {"edwards_r", "edwards_p"}
      BY <3>6 DEF Answering, FieldModuleNames
    <3>7. CASE modulus = "25519"
      BY <3>7 DEF Answering, FieldModuleNames
    <3>8. CASE modulus = "goldilocks"
      BY <3>8 DEF Answering, FieldModuleNames
    <3>9. CASE modulus = "secp256k1_r"
      BY <3>9 DEF Answering, FieldModuleNames
    <3>10. CASE modulus = "secp256k1_p"
      BY <3>10 DEF Answering, FieldModuleNames
    <3> QED BY <2>1, <3>1, <3>2, <3>3, <3>4, <3>5, <3>6, <3>7, <3>8, <3>9, <3>10 DEF Fields
  <2> QED BY <1>2, <2>2
<1> QED BY <1>1, <1>2

(* What a module may have answered.                                        *)
Given(q) ==
  UNION {[by : {Answering(q.modulus)[i]}, value : Outcomes(Answering(q.modulus)[i], q) \ {Unanswered}]
         : i \in 1 .. Len(Answering(q.modulus))}

AnswersInv ==
  /\ question \in ModularQuestions
  /\ turn \in Nat
  /\ answers \in Seq(Given(question))

LEMMA GivenAgree ==
  ASSUME NEW q \in ModularQuestions, NEW given \in Given(q)
  PROVE  given.value = TheAnswer(q) \/ Misanswered(given.by, q)
<1>1. Asked(q)
  BY QuestionsAsked
<1>2. q.modulus \in Moduli
  BY <1>1 DEF Asked
<1>3. PICK i \in 1 .. Len(Answering(q.modulus)) :
        given \in [by : {Answering(q.modulus)[i]}, value : Outcomes(Answering(q.modulus)[i], q) \ {Unanswered}]
  BY Zenon DEF Given
<1> DEFINE module == Answering(q.modulus)[i]
<1>4. given.by = module /\ given.value \in Outcomes(module, q) /\ given.value # Unanswered
  BY <1>3
<1>5. /\ q.modulus \in Words => module \in WordModuleNames
      /\ q.modulus \notin Words => module \in FieldModuleNames
  BY <1>2, AnsweringIs
<1> HIDE DEF module
<1> SUFFICES ASSUME ~Misanswered(module, q) PROVE given.value = TheAnswer(q)
  BY <1>4
<1>6. CASE q.modulus \in Words
  BY <1>1, <1>4, <1>5, <1>6, WordModulesAnswer DEF TheAnswer
<1>7. CASE q.modulus \notin Words
  BY <1>1, <1>4, <1>5, <1>7, FieldModulesAnswer DEF TheAnswer
<1> QED BY <1>6, <1>7

(* Every answer is one that the module could give to the question.         *)
THEOREM AnswersGiven == AnswersSpec => []AnswersInv
<1>1. AnswersInit => AnswersInv
  BY DEF AnswersInit, AnswersInv
<1>2. AnswersInv /\ [Ask]_answersVars => AnswersInv'
  <2> SUFFICES ASSUME AnswersInv, Ask PROVE AnswersInv'
    BY DEF AnswersInv, answersVars
  <2> DEFINE modules == Answering(question.modulus)
             asked == modules[turn + 1]
  <2>1. question' = question /\ turn' = turn + 1 /\ turn \in Nat /\ turn < Len(modules)
    BY DEF Ask, AnswersInv
  <2>2. PICK v \in Outcomes(asked, question) :
          answers' = IF v = Unanswered THEN answers ELSE Append(answers, [by |-> asked, value |-> v])
    BY DEF Ask
  <2>3. question.modulus \in Moduli
    BY QuestionsAsked DEF AnswersInv, Asked
  <2>4. turn + 1 \in 1 .. Len(modules)
    BY <2>1, <2>3, AnsweringIs
  <2>5. v # Unanswered => [by |-> asked, value |-> v] \in Given(question)
    <3> SUFFICES ASSUME v # Unanswered PROVE [by |-> asked, value |-> v] \in Given(question)
      OBVIOUS
    <3>1. [by |-> asked, value |-> v] \in [by : {asked}, value : Outcomes(asked, question) \ {Unanswered}]
      BY <2>2
    <3> QED BY <2>4, <3>1, Zenon DEF Given
  <2> DEFINE S == Given(question)
             e == [by |-> asked, value |-> v]
  <2>6. answers \in Seq(S)
    BY DEF AnswersInv
  <2>7. answers' \in Seq(S)
    <3> HIDE DEF S, e
    <3>1. v # Unanswered => e \in S
      BY <2>5 DEF S, e
    <3>2. answers' = answers \/ (v # Unanswered /\ answers' = Append(answers, e))
      BY <2>2 DEF e
    <3> QED BY ONLY <2>6, <3>1, <3>2
  <2>8. Given(question') = S
    BY <2>1
  <2> HIDE DEF S
  <2> QED BY <2>1, <2>7, <2>8 DEF AnswersInv
<1> QED BY <1>1, <1>2, PTL DEF AnswersSpec

(* Modules that take a question agree on its answer, for every modulus,    *)
(* every limit that a module puts on an operand and any operands: no       *)
(* difference that compare finds is the doing of two modules, apart from   *)
(* those that AnswersAgree names.                                          *)
THEOREM ModulesAnswerAlike == AnswersSpec => []AnswersAgree
<1>1. AnswersInv => AnswersAgree
  <2> SUFFICES ASSUME AnswersInv, NEW i \in DOMAIN answers, NEW j \in DOMAIN answers
               PROVE  \/ answers[i].value = answers[j].value
                      \/ Misanswered(answers[i].by, question) \/ Misanswered(answers[j].by, question)
    BY DEF AnswersAgree
  <2>1. answers[i] \in Given(question) /\ answers[j] \in Given(question) /\ question \in ModularQuestions
    BY DEF AnswersInv
  <2>2. answers[i].value = TheAnswer(question) \/ Misanswered(answers[i].by, question)
    BY <2>1, GivenAgree
  <2>3. answers[j].value = TheAnswer(question) \/ Misanswered(answers[j].by, question)
    BY <2>1, GivenAgree
  <2> QED BY <2>2, <2>3
<1> QED BY <1>1, AnswersGiven, PTL

-----------------------------------------------------------------------------
(* What a number's function owes to that of the number divided.            *)

(* Such a function, up to k.                                               *)
Descends(f, lim, start, next, B, k) ==
  \A n \in 0 .. k : f[n] = IF n < lim THEN start[n] ELSE next[<<f[n \div B], n>>]

LEMMA DividedBelow ==
  ASSUME NEW B \in Nat \ {0, 1}, NEW n \in Nat \ {0}
  PROVE  n \div B \in 0 .. n - 1
<1> DEFINE q == n \div B
<1>1. q \in Nat /\ \E r \in Nat : n = (B * q) + r
  OBVIOUS
<1> HIDE DEF q
<1>2. PICK r \in Nat : n = (B * q) + r
  BY <1>1
<1>3. PICK e \in Nat : B = 2 + e
  <2>1. B - 2 \in Nat /\ B = 2 + (B - 2)
    OBVIOUS
  <2> QED BY ONLY <2>1
<1>4. B * q = (2 * q) + (e * q) /\ e * q \in Nat
  BY ONLY <1>1, <1>3, e \in Nat, B \in Nat
<1> QED BY ONLY <1>1, <1>2, <1>4, n \in Nat \ {0} DEF q

LEMMA DescendsSome ==
  ASSUME NEW V, NEW B \in Nat \ {0, 1}, NEW lim \in Nat \ {0},
         NEW start \in [0 .. lim - 1 -> V], NEW next \in [V \X Nat -> V], NEW k \in Nat
  PROVE  \E f \in [0 .. k -> V] : Descends(f, lim, start, next, B, k)
<1> DEFINE T == {n \in Nat : \E f \in [0 .. n -> V] : Descends(f, lim, start, next, B, n)}
<1>1. 0 \in T
  <2> DEFINE f == [n \in 0 .. 0 |-> start[0]]
  <2>1. start[0] \in V
    OBVIOUS
  <2>2. f \in [0 .. 0 -> V]
    BY <2>1
  <2>3. Descends(f, lim, start, next, B, 0)
    BY DEF Descends
  <2> HIDE DEF f
  <2> QED BY <2>2, <2>3
<1>2. \A n \in Nat : n \in T => n + 1 \in T
  <2> SUFFICES ASSUME NEW n \in Nat, NEW f \in [0 .. n -> V], Descends(f, lim, start, next, B, n)
               PROVE  \E g \in [0 .. n + 1 -> V] : Descends(g, lim, start, next, B, n + 1)
    OBVIOUS
  <2> DEFINE x == n + 1
             last == IF x < lim THEN start[x] ELSE next[<<f[x \div B], x>>]
             g == [m \in 0 .. x |-> IF m <= n THEN f[m] ELSE last]
  <2>0. x \in Nat \ {0}
    OBVIOUS
  <2>1. x \div B \in 0 .. n
    <3>1. x \div B \in 0 .. x - 1
      <4> HIDE DEF x
      <4> QED BY ONLY <2>0, B \in Nat \ {0, 1}, DividedBelow
    <3> QED BY <3>1
  <2>2. last \in V
    <3>1. CASE x < lim
      BY <3>1
    <3>2. CASE ~(x < lim)
      <4> DEFINE q == x \div B
      <4>1. f[q] \in V
        BY <2>1
      <4> HIDE DEF q, x
      <4>2. <<f[q], x>> \in V \X Nat
        BY <2>0, <4>1
      <4>3. next[<<f[q], x>>] \in V
        BY ONLY <4>2, next \in [V \X Nat -> V]
      <4> QED BY ONLY <3>2, <4>3 DEF q
    <3> QED BY <3>1, <3>2
  <2> HIDE DEF last
  <2>3. g \in [0 .. x -> V]
    BY <2>2
  <2>4. ASSUME NEW m \in 0 .. x PROVE g[m] = IF m < lim THEN start[m] ELSE next[<<g[m \div B], m>>]
    <3>1. m = 0 => m < lim
      OBVIOUS
    <3>2. ~(m < lim) => m \div B \in 0 .. m - 1
      <4>1. m \in Nat
        OBVIOUS
      <4> QED BY ONLY <3>1, <4>1, B \in Nat \ {0, 1}, DividedBelow
    <3>3. ~(m < lim) => g[m \div B] = f[m \div B]
      <4> SUFFICES ASSUME ~(m < lim) PROVE g[m \div B] = f[m \div B]
        OBVIOUS
      <4> DEFINE q == m \div B
      <4>1. q \in 0 .. m - 1
        BY <3>2
      <4> HIDE DEF q
      <4>2. q \in 0 .. x /\ q <= n
        BY <4>1
      <4>3. g[q] = f[q]
        BY <4>2
      <4> QED BY <4>3 DEF q
    <3>4. CASE m \in 0 .. n
      <4>1. g[m] = f[m]
        BY <3>4
      <4>2. f[m] = IF m < lim THEN start[m] ELSE next[<<f[m \div B], m>>]
        BY <3>4 DEF Descends
      <4> HIDE DEF g
      <4> QED BY ONLY <3>3, <4>1, <4>2
    <3>5. CASE m = x
      <4>1. g[m] = last
        BY <3>5
      <4> HIDE DEF g
      <4> QED BY ONLY <3>3, <3>5, <4>1 DEF last
    <3>6. 0 .. x = 0 .. n \cup {x}
      OBVIOUS
    <3> QED BY <3>4, <3>5, <3>6
  <2> HIDE DEF g
  <2>5. Descends(g, lim, start, next, B, x)
    BY <2>4 DEF Descends
  <2> QED BY <2>3, <2>5
<1> HIDE DEF T
<1>3. k \in T
  BY <1>1, <1>2, AllNumbers
<1> QED BY <1>3 DEF T

LEMMA DescendsAlike ==
  ASSUME NEW f, NEW g, NEW B \in Nat \ {0, 1}, NEW lim \in Nat \ {0}, NEW start, NEW next,
         NEW k \in Nat, NEW l \in Nat,
         Descends(f, lim, start, next, B, k), Descends(g, lim, start, next, B, l)
  PROVE  \A n \in Nat : n <= k /\ n <= l => f[n] = g[n]
<1> DEFINE T == {n \in Nat : n <= k /\ n <= l => f[n] = g[n]}
<1>1. \A n \in Nat : (\A m \in 0 .. n - 1 : m \in T) => n \in T
  <2> SUFFICES ASSUME NEW n \in Nat, \A m \in 0 .. n - 1 : m \in T, n <= k, n <= l
               PROVE  f[n] = g[n]
    OBVIOUS
  <2>0. n \in 0 .. k /\ n \in 0 .. l
    OBVIOUS
  <2>1. f[n] = IF n < lim THEN start[n] ELSE next[<<f[n \div B], n>>]
    BY ONLY <2>0, Descends(f, lim, start, next, B, k) DEF Descends
  <2>2. g[n] = IF n < lim THEN start[n] ELSE next[<<g[n \div B], n>>]
    BY ONLY <2>0, Descends(g, lim, start, next, B, l) DEF Descends
  <2>3. CASE n < lim
    BY ONLY <2>1, <2>2, <2>3
  <2>4. CASE ~(n < lim)
    <3>1. n \div B \in 0 .. n - 1
      <4>1. n \in Nat \ {0}
        BY <2>4
      <4> QED BY ONLY <4>1, B \in Nat \ {0, 1}, DividedBelow
    <3> DEFINE q == n \div B
    <3> HIDE DEF q
    <3>2. q \in 0 .. n - 1
      BY <3>1 DEF q
    <3>3. f[q] = g[q]
      BY <3>2
    <3> QED BY ONLY <2>1, <2>2, <2>4, <3>3 DEF q
  <2> QED BY <2>3, <2>4
<1> HIDE DEF T
<1>2. \A n \in Nat : n \in T
  BY <1>1, AllBelow
<1> QED BY <1>2 DEF T

DescendsFrom(f, lim, start, next, B) ==
  \A n \in Nat : f[n] = IF n < lim THEN start[n] ELSE next[<<f[n \div B], n>>]

LEMMA DescendsAll ==
  ASSUME NEW V, NEW B \in Nat \ {0, 1}, NEW lim \in Nat \ {0},
         NEW start \in [0 .. lim - 1 -> V], NEW next \in [V \X Nat -> V]
  PROVE  \E f \in [Nat -> V] : DescendsFrom(f, lim, start, next, B)
<1> DEFINE F(k) == CHOOSE f : f \in [0 .. k -> V] /\ Descends(f, lim, start, next, B, k)
           g == [n \in Nat |-> F(n)[n]]
<1>1. \A k \in Nat : F(k) \in [0 .. k -> V] /\ Descends(F(k), lim, start, next, B, k)
  <2> SUFFICES ASSUME NEW k \in Nat PROVE F(k) \in [0 .. k -> V] /\ Descends(F(k), lim, start, next, B, k)
    OBVIOUS
  <2>1. \E f : f \in [0 .. k -> V] /\ Descends(f, lim, start, next, B, k)
    BY DescendsSome
  <2> QED BY ONLY <2>1
<1> HIDE DEF F
<1>2. g \in [Nat -> V]
  <2>1. \A n \in Nat : F(n)[n] \in V
    BY <1>1
  <2> QED BY <2>1
<1>3. ASSUME NEW n \in Nat
      PROVE  g[n] = IF n < lim THEN start[n] ELSE next[<<g[n \div B], n>>]
  <2>1. F(n)[n] = IF n < lim THEN start[n] ELSE next[<<F(n)[n \div B], n>>]
    <3>1. n \in 0 .. n /\ Descends(F(n), lim, start, next, B, n)
      BY <1>1
    <3> QED BY ONLY <3>1 DEF Descends
  <2>2. g[n] = F(n)[n]
    OBVIOUS
  <2>3. CASE n < lim
    BY ONLY <2>1, <2>2, <2>3
  <2>4. CASE ~(n < lim)
    <3> DEFINE q == n \div B
    <3>1. q \in 0 .. n - 1
      <4>1. n \in Nat \ {0}
        BY <2>4
      <4> QED BY ONLY <4>1, B \in Nat \ {0, 1}, DividedBelow
    <3> HIDE DEF q
    <3>2. q \in Nat /\ q <= n /\ q <= q
      BY <3>1
    <3>3. Descends(F(n), lim, start, next, B, n) /\ Descends(F(q), lim, start, next, B, q)
      BY <1>1, <3>2
    <3>4. F(n)[q] = F(q)[q]
      BY ONLY <3>2, <3>3, n \in Nat, B \in Nat \ {0, 1}, lim \in Nat \ {0}, DescendsAlike
    <3>5. g[q] = F(q)[q]
      BY <3>2
    <3> HIDE DEF g
    <3> QED BY ONLY <2>1, <2>2, <2>4, <3>4, <3>5 DEF q
  <2> QED BY <2>3, <2>4
<1> HIDE DEF g
<1>4. DescendsFrom(g, lim, start, next, B)
  BY <1>3 DEF DescendsFrom
<1> QED BY <1>2, <1>4

-----------------------------------------------------------------------------
(* Numbers as strings.                                                     *)

LEMMA DividedByBase ==
  ASSUME NEW n \in Nat, ~(n < Base)
  PROVE  n \div Base \in 0 .. n - 1
<1>1. Base \in Nat \ {0, 1}
  BY ResultTestsAssumption
<1>2. n \in Nat \ {0}
  BY <1>1
<1> QED BY ONLY <1>1, <1>2, DividedBelow

LEMMA DigitsIs ==
  \A n \in Nat : Digits[n] = IF n < Base THEN 1 ELSE 1 + Digits[n \div Base]
<1> DEFINE start == [n \in 0 .. Base - 1 |-> 1]
           next == [x \in Nat \X Nat |-> 1 + x[1]]
           body(h) == [n \in Nat |-> IF n < Base THEN 1 ELSE 1 + h[n \div Base]]
<1>0. Base \in Nat \ {0, 1} /\ Base \in Nat \ {0}
  BY ResultTestsAssumption
<1>1. PICK f \in [Nat -> Nat] :
        \A n \in Nat : f[n] = IF n < Base THEN start[n] ELSE next[<<f[n \div Base], n>>]
  <2> DEFINE V == Nat
  <2>1. start \in [0 .. Base - 1 -> V] /\ next \in [V \X Nat -> V]
    OBVIOUS
  <2> HIDE DEF start, next, V
  <2>2. \E f \in [Nat -> V] : DescendsFrom(f, Base, start, next, Base)
    BY ONLY <1>0, <2>1, DescendsAll
  <2> QED BY ONLY <2>2 DEF V, DescendsFrom
<1>2. \A n \in Nat : f[n] = IF n < Base THEN 1 ELSE 1 + f[n \div Base]
  <2> TAKE n \in Nat
  <2>1. n < Base => start[n] = 1
    BY <1>0
  <2>2. n \div Base \in Nat
    BY <1>0
  <2>3. next[<<f[n \div Base], n>>] = 1 + f[n \div Base]
    BY <2>2
  <2>4. f[n] = IF n < Base THEN start[n] ELSE next[<<f[n \div Base], n>>]
    BY <1>1
  <2> HIDE DEF start, next
  <2> QED BY ONLY <2>1, <2>3, <2>4
<1>3. f = body(f)
  <2>1. \A n \in Nat : f[n] = body(f)[n]
    BY <1>2
  <2>2. f = [n \in Nat |-> f[n]] /\ body(f) = [n \in Nat |-> body(f)[n]]
    OBVIOUS
  <2> HIDE DEF body
  <2> QED BY ONLY <2>1, <2>2
<1>4. Digits = body(Digits)
  <2>1. Digits = CHOOSE h : h = body(h)
    BY DEF Digits
  <2>2. \E h : h = body(h)
    BY <1>3, Zenon
  <2> HIDE DEF body
  <2> QED BY ONLY <2>1, <2>2, Zenon
<1>5. PICK h : h = body(Digits) /\ h = Digits
  <2> HIDE DEF body
  <2> QED BY ONLY <1>4, Zenon
<1>6. \A n \in Nat : h[n] = IF n < Base THEN 1 ELSE 1 + Digits[n \div Base]
  BY ONLY <1>5
<1> QED BY ONLY <1>5, <1>6, Zenon

LEMMA DigitSumIs ==
  \A n \in Nat : DigitSum[n] = IF n < Base THEN n ELSE (n % Base) + DigitSum[n \div Base]
<1> DEFINE start == [n \in 0 .. Base - 1 |-> n]
           next == [x \in Nat \X Nat |-> (x[2] % Base) + x[1]]
           body(h) == [n \in Nat |-> IF n < Base THEN n ELSE (n % Base) + h[n \div Base]]
<1>0. Base \in Nat \ {0, 1} /\ Base \in Nat \ {0}
  BY ResultTestsAssumption
<1>1. PICK f \in [Nat -> Nat] :
        \A n \in Nat : f[n] = IF n < Base THEN start[n] ELSE next[<<f[n \div Base], n>>]
  <2> DEFINE V == Nat
  <2>1. start \in [0 .. Base - 1 -> V]
    OBVIOUS
  <2>2. next \in [V \X Nat -> V]
    <3>1. \A n \in Nat : n % Base \in Nat
      BY <1>0
    <3> QED BY ONLY <3>1
  <2> HIDE DEF start, next, V
  <2>3. \E f \in [Nat -> V] : DescendsFrom(f, Base, start, next, Base)
    BY ONLY <1>0, <2>1, <2>2, DescendsAll
  <2> QED BY ONLY <2>3 DEF V, DescendsFrom
<1>2. \A n \in Nat : f[n] = IF n < Base THEN n ELSE (n % Base) + f[n \div Base]
  <2> TAKE n \in Nat
  <2>1. n < Base => start[n] = n
    BY <1>0
  <2>2. n \div Base \in Nat
    BY <1>0
  <2>3. next[<<f[n \div Base], n>>] = (n % Base) + f[n \div Base]
    BY <2>2
  <2>4. f[n] = IF n < Base THEN start[n] ELSE next[<<f[n \div Base], n>>]
    BY <1>1
  <2> HIDE DEF start, next
  <2> QED BY ONLY <2>1, <2>3, <2>4
<1>3. f = body(f)
  <2>1. \A n \in Nat : f[n] = body(f)[n]
    BY <1>2
  <2>2. f = [n \in Nat |-> f[n]] /\ body(f) = [n \in Nat |-> body(f)[n]]
    OBVIOUS
  <2> HIDE DEF body
  <2> QED BY ONLY <2>1, <2>2
<1>4. DigitSum = body(DigitSum)
  <2>1. DigitSum = CHOOSE h : h = body(h)
    BY DEF DigitSum
  <2>2. \E h : h = body(h)
    BY <1>3, Zenon
  <2> HIDE DEF body
  <2> QED BY ONLY <2>1, <2>2, Zenon
<1>5. PICK h : h = body(DigitSum) /\ h = DigitSum
  <2> HIDE DEF body
  <2> QED BY ONLY <1>4, Zenon
<1>6. \A n \in Nat : h[n] = IF n < Base THEN n ELSE (n % Base) + DigitSum[n \div Base]
  BY ONLY <1>5
<1> QED BY ONLY <1>5, <1>6, Zenon

LEMMA DigitsPositive == \A n \in Nat : Digits[n] \in Nat \ {0}
<1> DEFINE T == {n \in Nat : Digits[n] \in Nat \ {0}}
<1>1. \A n \in Nat : (\A m \in 0 .. n - 1 : m \in T) => n \in T
  <2> SUFFICES ASSUME NEW n \in Nat, \A m \in 0 .. n - 1 : m \in T PROVE Digits[n] \in Nat \ {0}
    OBVIOUS
  <2>1. CASE n < Base
    BY <2>1, DigitsIs
  <2>2. CASE ~(n < Base)
    <3> DEFINE q == n \div Base
    <3>1. q \in 0 .. n - 1
      BY <2>2, DividedByBase
    <3>2. Digits[n] = 1 + Digits[q]
      BY <2>2, DigitsIs
    <3> HIDE DEF q
    <3>3. Digits[q] \in Nat \ {0}
      BY <3>1
    <3> QED BY ONLY <3>2, <3>3
  <2> QED BY <2>1, <2>2
<1> HIDE DEF T
<1>2. \A n \in Nat : n \in T
  BY <1>1, AllBelow
<1> QED BY <1>2 DEF T

(* A number that is not larger has not more digits.                        *)
LEMMA DigitsGrow == \A y \in Nat : \A x \in 0 .. y : Digits[x] <= Digits[y]
<1> DEFINE T == {y \in Nat : \A x \in 0 .. y : Digits[x] <= Digits[y]}
<1>0. Base \in Nat \ {0, 1}
  BY ResultTestsAssumption
<1>1. \A y \in Nat : (\A m \in 0 .. y - 1 : m \in T) => y \in T
  <2> SUFFICES ASSUME NEW y \in Nat, \A m \in 0 .. y - 1 : m \in T, NEW x \in 0 .. y
               PROVE  Digits[x] <= Digits[y]
    OBVIOUS
  <2>1. CASE x < Base
    <3>1. Digits[x] = 1 /\ Digits[y] \in Nat \ {0}
      BY <2>1, DigitsIs, DigitsPositive
    <3> QED BY <3>1
  <2>2. CASE ~(x < Base)
    <3> DEFINE q == x \div Base
               p == y \div Base
    <3>1. Digits[x] = 1 + Digits[q] /\ Digits[y] = 1 + Digits[p]
      BY <2>2, <1>0, DigitsIs
    <3>2. p \in 0 .. y - 1
      <4>1. ~(y < Base)
        BY <2>2, <1>0
      <4> QED BY <4>1, DividedByBase
    <3>3. q \in 0 .. p
      <4>1. x \in Nat /\ y \in Nat /\ x <= y
        OBVIOUS
      <4>2. q \in Nat /\ p \in Nat
        BY <1>0
      <4>3. PICK r \in 0 .. Base - 1 : x = (Base * q) + r
        BY <1>0
      <4>4. PICK s \in 0 .. Base - 1 : y = (Base * p) + s
        BY <1>0
      <4> HIDE DEF q, p
      <4>5. CASE p < q
        <5>1. PICK e \in Nat : q = (p + 1) + e
          <6>1. q - (p + 1) \in Nat /\ q = (p + 1) + (q - (p + 1))
            BY <4>2, <4>5
          <6> QED BY ONLY <6>1
        <5>2. Base * q = ((Base * p) + Base) + (Base * e) /\ Base * e \in Nat /\ Base * p \in Nat
          BY ONLY <4>2, <5>1, <1>0, e \in Nat
        <5> QED BY ONLY <4>1, <4>3, <4>4, <5>2, <1>0
      <4> QED BY <4>2, <4>5
    <3> HIDE DEF q, p
    <3>4. Digits[q] <= Digits[p]
      BY <3>2, <3>3
    <3>5. Digits[q] \in Nat /\ Digits[p] \in Nat
      BY <3>2, <3>3, DigitsPositive
    <3> QED BY ONLY <3>1, <3>4, <3>5
  <2> QED BY <2>1, <2>2
<1> HIDE DEF T
<1>2. \A y \in Nat : y \in T
  BY <1>1, AllBelow
<1> QED BY <1>2 DEF T

(* One that has not more digits is larger by one digit at most.            *)
LEMMA DigitsBound ==
  \A y \in Nat : \A x \in Nat : Digits[x] <= Digits[y] => UpTo(x, y)
<1> DEFINE T == {y \in Nat : \A x \in Nat : Digits[x] <= Digits[y] => UpTo(x, y)}
<1>0. Base \in Nat \ {0, 1}
  BY ResultTestsAssumption
<1>1. \A y \in Nat : (\A m \in 0 .. y - 1 : m \in T) => y \in T
  <2> SUFFICES ASSUME NEW y \in Nat, \A m \in 0 .. y - 1 : m \in T,
                      NEW x \in Nat, Digits[x] <= Digits[y]
               PROVE  UpTo(x, y)
    OBVIOUS
  <2>1. CASE x < Base
    <3>1. y # 0 => Base <= Base * y
      <4> SUFFICES ASSUME y # 0 PROVE Base <= Base * y
        OBVIOUS
      <4>1. PICK e \in Nat : y = 1 + e
        <5>1. y - 1 \in Nat /\ y = 1 + (y - 1)
          OBVIOUS
        <5> QED BY ONLY <5>1
      <4>2. Base * y = Base + (Base * e) /\ Base * e \in Nat
        BY ONLY <1>0, <4>1, e \in Nat
      <4> QED BY ONLY <1>0, <4>2
    <3>2. y # 0 => Base * y \in Nat
      BY <1>0
    <3> QED BY <1>0, <2>1, <3>1, <3>2 DEF UpTo
  <2>2. CASE ~(x < Base)
    <3> DEFINE q == x \div Base
               p == y \div Base
    <3>1. Digits[x] = 1 + Digits[q] /\ q \in Nat /\ p \in Nat
      BY <1>0, <2>2, DigitsIs
    <3>2. Digits[q] \in Nat \ {0}
      BY <3>1, DigitsPositive
    <3>3. ~(y < Base)
      <4> SUFFICES ASSUME y < Base PROVE FALSE
        OBVIOUS
      <4>1. Digits[y] = 1
        BY DigitsIs
      <4> HIDE DEF q
      <4> QED BY ONLY <3>1, <3>2, <4>1, Digits[x] <= Digits[y]
    <3>4. Digits[y] = 1 + Digits[p]
      BY <3>3, DigitsIs
    <3>5. p \in 0 .. y - 1
      BY <3>3, DividedByBase
    <3>6. \E r \in 0 .. Base - 1 : x = (Base * q) + r
      BY <1>0
    <3>7. \E s \in 0 .. Base - 1 : y = (Base * p) + s
      BY <1>0
    <3>8. p # 0
      <4> HIDE DEF p
      <4> SUFFICES ASSUME p = 0 PROVE FALSE
        OBVIOUS
      <4>1. PICK s \in 0 .. Base - 1 : y = (Base * p) + s
        BY <3>7
      <4>2. Base * p = 0
        BY <1>0
      <4> QED BY <1>0, <3>3, <4>1, <4>2
    <3> HIDE DEF q, p
    <3>9. Digits[q] <= Digits[p]
      <4>1. Digits[p] \in Nat
        BY <3>1, DigitsPositive
      <4> QED BY ONLY <3>1, <3>2, <3>4, <4>1, Digits[x] <= Digits[y]
    <3>10. q < Base * p
      <4>1. UpTo(q, p)
        BY <3>1, <3>5, <3>9
      <4> QED BY <3>8, <4>1 DEF UpTo
    <3>11. q < y
      <4>1. PICK s \in 0 .. Base - 1 : y = (Base * p) + s
        BY <3>7
      <4>2. Base * p \in Nat
        BY <1>0, <3>1
      <4> QED BY ONLY <3>1, <3>10, <4>1, <4>2, <1>0
    <3>12. x < Base * y
      <4>1. PICK r \in 0 .. Base - 1 : x = (Base * q) + r
        BY <3>6
      <4>2. PICK e \in Nat : y = (q + 1) + e
        <5>1. y - (q + 1) \in Nat /\ y = (q + 1) + (y - (q + 1))
          BY <3>1, <3>11
        <5> QED BY ONLY <5>1
      <4>3. Base * y = ((Base * q) + Base) + (Base * e) /\ Base * e \in Nat /\ Base * q \in Nat
        BY ONLY <1>0, <3>1, <4>2, e \in Nat
      <4> QED BY ONLY <4>1, <4>3, <1>0
    <3> QED BY <1>0, <3>3, <3>12 DEF UpTo
  <2> QED BY <2>1, <2>2
<1> HIDE DEF T
<1>2. \A y \in Nat : y \in T
  BY <1>1, AllBelow
<1> QED BY <1>2 DEF T

(* The sum of the digits is the number modulo 3.                           *)
LEMMA DigitSumThrees ==
  \A n \in Nat : DigitSum[n] \in Nat /\ \E k \in Int : n = DigitSum[n] + (3 * k)
<1> DEFINE T == {n \in Nat : DigitSum[n] \in Nat /\ \E k \in Int : n = DigitSum[n] + (3 * k)}
<1>0. PICK h \in Nat : Base = (3 * h) + 1
  <2>1. Base \in Nat /\ Base % 3 = 1
    BY ResultTestsAssumption
  <2> QED BY ONLY <2>1
<1>1. \A n \in Nat : (\A m \in 0 .. n - 1 : m \in T) => n \in T
  <2> SUFFICES ASSUME NEW n \in Nat, \A m \in 0 .. n - 1 : m \in T
               PROVE  DigitSum[n] \in Nat /\ \E k \in Int : n = DigitSum[n] + (3 * k)
    OBVIOUS
  <2>1. CASE n < Base
    <3>1. DigitSum[n] = n
      BY <2>1, DigitSumIs
    <3>2. n = n + (3 * 0)
      OBVIOUS
    <3> QED BY <3>1, <3>2
  <2>2. CASE ~(n < Base)
    <3> DEFINE q == n \div Base
               r == n % Base
    <3>1. q \in 0 .. n - 1
      BY <2>2, DividedByBase
    <3>2. DigitSum[n] = r + DigitSum[q]
      BY <2>2, DigitSumIs
    <3>3. n = (Base * q) + r /\ r \in Nat /\ q \in Nat
      BY ResultTestsAssumption
    <3> HIDE DEF q, r
    <3>4. DigitSum[q] \in Nat /\ \E k \in Int : q = DigitSum[q] + (3 * k)
      BY <3>1
    <3>5. PICK k \in Int : q = DigitSum[q] + (3 * k)
      BY <3>4
    <3> DEFINE s == DigitSum[q]
               j == (h * q) + k
    <3>6. Base * q = (3 * (h * q)) + q /\ h * q \in Int
      BY ONLY <1>0, <3>3, h \in Nat
    <3>7. n = (r + s) + (3 * j) /\ j \in Int
      BY ONLY <3>3, <3>4, <3>5, <3>6, k \in Int
    <3>8. r + s \in Nat
      BY <3>3, <3>4
    <3> HIDE DEF s, j
    <3>9. DigitSum[n] = r + s
      BY <3>2 DEF s
    <3> QED BY ONLY <3>7, <3>8, <3>9
  <2> QED BY <2>1, <2>2
<1> HIDE DEF T
<1>2. \A n \in Nat : n \in T
  BY <1>1, AllBelow
<1> QED BY <1>2 DEF T

LEMMA CompositeByThree ==
  ASSUME NEW n \in Nat, isComposite(n)
  PROVE  \E k \in Int : n = 3 * k
<1>1. DigitSum[n] \in Nat /\ DigitSum[n] % 3 = 0
  BY DigitSumThrees DEF isComposite
<1>2. PICK k \in Int : n = DigitSum[n] + (3 * k)
  BY DigitSumThrees
<1> DEFINE s == DigitSum[n]
<1> HIDE DEF s
<1>3. \E j \in Int : s = 3 * j
  BY ONLY <1>1 DEF s
<1>4. PICK j \in Int : s = 3 * j
  BY <1>3
<1>5. n = 3 * (j + k)
  BY ONLY <1>2, <1>4, j \in Int, k \in Int DEF s
<1> QED BY <1>5

(* A prime number above 3 is no multiple of 3, and an even one is 2.       *)
LEMMA PrimesIndivisible ==
  ASSUME NEW n \in Int, IsPrimeNumber(n)
  PROVE  n > 1 /\ (n > 3 => ~isComposite(n)) /\ (n # 2 => IsOdd(n))
<1>1. n > 1 /\ \A d \in 2 .. n - 1 : ~Divides(d, n)
  BY DEF IsPrimeNumber
<1>2. n > 3 => ~isComposite(n)
  <2> SUFFICES ASSUME n > 3, isComposite(n) PROVE FALSE
    OBVIOUS
  <2>1. n \in Nat
    BY <1>1
  <2>2. PICK k \in Int : n = 3 * k
    BY <2>1, CompositeByThree
  <2>3. k \in 0 .. n /\ 3 \in 2 .. n - 1
    BY ONLY <2>2, n > 3, k \in Int, n \in Int
  <2>4. Divides(3, n)
    BY <2>2, <2>3 DEF Divides
  <2> QED BY <1>1, <2>3, <2>4
<1>3. n # 2 => IsOdd(n)
  <2> SUFFICES ASSUME n # 2, ~IsOdd(n) PROVE FALSE
    OBVIOUS
  <2>1. n % 2 = 0
    BY DEF IsOdd
  <2>2. \E k \in Int : n = 2 * k
    BY ONLY <2>1, n \in Int
  <2>3. PICK k \in Int : n = 2 * k
    BY <2>2
  <2>4. k \in 0 .. n /\ 2 \in 2 .. n - 1
    BY ONLY <1>1, <2>3, n # 2, k \in Int, n \in Int
  <2>5. Divides(2, n)
    BY <2>3, <2>4 DEF Divides
  <2> QED BY <1>1, <2>4, <2>5
<1> QED BY <1>1, <1>2, <1>3

-----------------------------------------------------------------------------
(* Bits, roots and divisors.                                               *)

LEMMA AndIs ==
  \A a \in Nat : \A b \in Nat :
    And(a, b) = IF a = 0 THEN 0
                ELSE (2 * And(a \div 2, b \div 2)) + (IF a % 2 = 1 /\ b % 2 = 1 THEN 1 ELSE 0)
<1> DEFINE V == [Nat -> Nat]
           bit(a, b) == IF a % 2 = 1 /\ b % 2 = 1 THEN 1 ELSE 0
           none == [b \in Nat |-> 0]
           start == [n \in 0 .. 0 |-> none]
           next == [x \in V \X Nat |-> [b \in Nat |-> (2 * x[1][b \div 2]) + bit(x[2], b)]]
           body(h) == [a \in Nat |-> [b \in Nat |-> IF a = 0 THEN 0 ELSE 2 * h[a \div 2][b \div 2] + bit(a, b)]]
           one == 1
           two == 2
<1>0. \A a \in Nat : a \div 2 \in Nat
  OBVIOUS
<1>1. PICK f \in [Nat -> V] : DescendsFrom(f, one, start, next, two)
  <2>1. start \in [0 .. one - 1 -> V]
    OBVIOUS
  <2>2. next \in [V \X Nat -> V]
    <3>1. ASSUME NEW x \in V \X Nat, NEW b \in Nat
          PROVE  (2 * x[1][b \div 2]) + bit(x[2], b) \in Nat
      <4>1. x[1] \in [Nat -> Nat] /\ x[2] \in Nat /\ b \div 2 \in Nat
        BY <1>0
      <4>2. x[1][b \div 2] \in Nat
        BY ONLY <4>1
      <4>3. bit(x[2], b) \in Nat
        OBVIOUS
      <4> HIDE DEF bit
      <4> QED BY ONLY <4>2, <4>3
    <3> HIDE DEF bit
    <3> QED BY <3>1
  <2>3. one \in Nat \ {0} /\ two \in Nat \ {0, 1}
    OBVIOUS
  <2> HIDE DEF start, next, V, one, two
  <2> QED BY ONLY <2>1, <2>2, <2>3, DescendsAll
<1>2. f = body(f)
  <2>1. ASSUME NEW a \in Nat PROVE f[a] = body(f)[a]
    <3>0. f[a] = IF a < 1 THEN start[a] ELSE next[<<f[a \div 2], a>>]
      BY <1>1 DEF DescendsFrom
    <3>1. CASE a = 0
      <4>1. f[a] = none
        BY <3>0, <3>1
      <4>2. body(f)[a] = none
        BY <3>1
      <4> QED BY ONLY <4>1, <4>2
    <3>2. CASE a # 0
      <4> DEFINE x == <<f[a \div 2], a>>
      <4>1. f[a] = next[x]
        <5>1. ~(a < 1)
          BY <3>2
        <5> HIDE DEF start, next, V
        <5> QED BY ONLY <3>0, <5>1 DEF x
      <4>2. x \in V \X Nat
        <5>1. f[a \div 2] \in V
          BY <1>0
        <5> HIDE DEF V
        <5> QED BY <5>1
      <4>3. next[x] = [b \in Nat |-> (2 * x[1][b \div 2]) + bit(x[2], b)]
        <5> HIDE DEF x, bit, V
        <5> QED BY ONLY <4>2 DEF next
      <4>4. x[1] = f[a \div 2] /\ x[2] = a
        OBVIOUS
      <4>5. body(f)[a] = [b \in Nat |-> IF a = 0 THEN 0 ELSE 2 * f[a \div 2][b \div 2] + bit(a, b)]
        OBVIOUS
      <4> HIDE DEF x, bit
      <4>6. next[x] = [b \in Nat |-> (2 * f[a \div 2][b \div 2]) + bit(a, b)]
        BY ONLY <4>3, <4>4
      <4> QED BY ONLY <3>2, <4>1, <4>5, <4>6
    <3> QED BY <3>1, <3>2
  <2>2. f = [a \in Nat |-> f[a]] /\ body(f) = [a \in Nat |-> body(f)[a]]
    OBVIOUS
  <2> HIDE DEF body
  <2> QED BY ONLY <2>1, <2>2
<1>3. SharedBits = body(SharedBits)
  <2>1. SharedBits = CHOOSE h : h = body(h)
    BY DEF SharedBits
  <2>2. \E h : h = body(h)
    BY <1>2, Zenon
  <2> HIDE DEF body
  <2> QED BY ONLY <2>1, <2>2, Zenon
<1>4. PICK h : h = body(SharedBits) /\ h = SharedBits
  <2> HIDE DEF body
  <2> QED BY ONLY <1>3, Zenon
<1>5. \A a \in Nat : \A b \in Nat :
        h[a][b] = IF a = 0 THEN 0 ELSE (2 * SharedBits[a \div 2][b \div 2]) + bit(a, b)
  <2> HIDE DEF bit
  <2> QED BY ONLY <1>4 DEF body
<1>6. \A a \in Nat : \A b \in Nat :
        SharedBits[a][b] = IF a = 0 THEN 0 ELSE (2 * SharedBits[a \div 2][b \div 2]) + bit(a, b)
  BY ONLY <1>4, <1>5, Zenon
<1> QED BY <1>6 DEF And

LEMMA AndBelow ==
  ASSUME NEW a \in Nat, NEW b \in Nat
  PROVE  And(a, b) \in 0 .. a /\ And(a, b) \in 0 .. b
<1> DEFINE T == {n \in Nat : \A m \in Nat : And(n, m) \in 0 .. n /\ And(n, m) \in 0 .. m}
<1>1. \A n \in Nat : (\A k \in 0 .. n - 1 : k \in T) => n \in T
  <2> SUFFICES ASSUME NEW n \in Nat, \A k \in 0 .. n - 1 : k \in T, NEW m \in Nat
               PROVE  And(n, m) \in 0 .. n /\ And(n, m) \in 0 .. m
    OBVIOUS
  <2>1. CASE n = 0
    <3>1. And(n, m) = 0
      BY <2>1, AndIs
    <3> QED BY <3>1
  <2>2. CASE n # 0
    <3> DEFINE p == n \div 2
               q == m \div 2
               r == And(p, q)
               bit == IF n % 2 = 1 /\ m % 2 = 1 THEN 1 ELSE 0
    <3>1. p \in 0 .. n - 1 /\ p \in Nat /\ q \in Nat
      BY <2>2
    <3>2. And(n, m) = (2 * r) + bit
      BY <2>2, AndIs
    <3>3. r \in 0 .. p /\ r \in 0 .. q
      <4> HIDE DEF p, q
      <4> QED BY <3>1
    <3>4. (2 * p) + bit <= n /\ (2 * q) + bit <= m /\ bit \in Nat
      OBVIOUS
    <3> HIDE DEF p, q, r, bit
    <3> QED BY ONLY <3>1, <3>2, <3>3, <3>4, n \in Nat, m \in Nat
  <2> QED BY <2>1, <2>2
<1> HIDE DEF T
<1>2. a \in T
  BY <1>1, AllBelow
<1> QED BY <1>2 DEF T

LEMMA OrAbove ==
  ASSUME NEW a \in Nat, NEW b \in Nat
  PROVE  Or(a, b) \in Nat /\ Or(a, b) >= a /\ Or(a, b) >= b
<1>1. And(a, b) \in 0 .. a /\ And(a, b) \in 0 .. b
  BY AndBelow
<1> QED BY <1>1 DEF Or

LEMMA PowerAbove ==
  ASSUME NEW a \in Nat \ {0}, NEW n \in Nat \ {0}
  PROVE  Power(a, n) \in Nat /\ Power(a, n) >= a
<1> DEFINE k == n - 1
           x == Power(a, k)
<1>1. k \in Nat /\ n = k + 1
  OBVIOUS
<1> HIDE DEF k
<1>2. x \in Nat \ {0}
  BY <1>1, PowerPositive
<1>3. Power(a, n) = a * x
  BY <1>1, PowerSteps
<1> HIDE DEF x
<1>4. PICK e \in Nat : x = 1 + e
  <2>1. x - 1 \in Nat /\ x = 1 + (x - 1)
    BY <1>2
  <2> QED BY ONLY <2>1
<1>5. a * x = a + (a * e) /\ a * e \in Nat
  BY ONLY <1>4, a \in Nat, e \in Nat
<1> QED BY ONLY <1>3, <1>5, a \in Nat

LEMMA RootBelow ==
  ASSUME NEW n \in Nat, NEW k \in Nat \ {0}
  PROVE  Root(n, k) \in 0 .. n
<1> DEFINE T == {x \in Nat : n < Power(x + 1, k)}
<1>0. \A x \in Nat : Power(x + 1, k) \in Nat /\ Power(x + 1, k) >= x + 1
  <2> TAKE x \in Nat
  <2>1. x + 1 \in Nat \ {0}
    OBVIOUS
  <2> QED BY ONLY <2>1, k \in Nat \ {0}, PowerAbove
<1>1. n \in T
  BY <1>0
<1>2. PICK x \in T : \A y \in T : x <= y
  <2>1. T \in SUBSET Nat /\ T # {}
    BY <1>1
  <2> HIDE DEF T
  <2> QED BY <2>1, LeastOf
<1>3. x \in 0 .. n
  <2> HIDE DEF T
  <2>1. x <= n
    BY <1>1, <1>2
  <2> QED BY <1>2, <2>1 DEF T
<1>4. Power(x, k) <= n
  <2>1. CASE x = 0
    <3> DEFINE zero == 0
               j == k - 1
    <3>1. j \in Nat /\ k = j + 1 /\ zero \in Nat
      OBVIOUS
    <3> HIDE DEF zero, j
    <3>2. Power(zero, k) = zero * Power(zero, j) /\ Power(zero, j) \in Nat
      BY ONLY <3>1, PowerSteps
    <3>3. Power(zero, k) = 0
      BY ONLY <3>2 DEF zero
    <3> QED BY <2>1, <3>3 DEF zero
  <2>2. CASE x # 0
    <3> DEFINE y == x - 1
    <3>1. y \in Nat /\ y + 1 = x /\ ~(x <= y)
      BY <1>3, <2>2
    <3> HIDE DEF y
    <3>2. y \notin T
      BY ONLY <1>2, <3>1
    <3>3. Power(y + 1, k) \in Nat
      BY <1>0, <3>1
    <3> QED BY <3>1, <3>2, <3>3
  <2> QED BY <2>1, <2>2
<1>5. n < Power(x + 1, k)
  BY <1>2
<1>6. Root(n, k) = CHOOSE y \in 0 .. n : Power(y, k) <= n /\ n < Power(y + 1, k)
  BY DEF Root
<1> QED BY ONLY <1>3, <1>4, <1>5, <1>6

(* The greatest of the numbers up to a that divide both.                   *)
LEMMA GCDBelow ==
  ASSUME NEW a \in Nat, NEW b \in Nat
  PROVE  /\ a = 0 => GCD(a, b) = b
         /\ b = 0 => GCD(a, b) = a
         /\ a # 0 /\ b # 0 => GCD(a, b) \in 1 .. a /\ GCD(a, b) \in 1 .. b
<1>1. (a = 0 => GCD(a, b) = b) /\ (b = 0 => GCD(a, b) = a)
  BY DEF GCD
<1>2. ASSUME a # 0, b # 0 PROVE GCD(a, b) \in 1 .. a /\ GCD(a, b) \in 1 .. b
  <2> DEFINE S == {d \in 1 .. a : Divides(d, a) /\ Divides(d, b)}
             T == {k \in Nat : a - k \in S}
  <2>1. GCD(a, b) = Greatest(S)
    BY <1>2 DEF GCD
  <2>2. a - 1 \in T
    <3>1. a \in 0 .. a /\ b \in 0 .. b /\ 1 * a = a /\ 1 * b = b
      OBVIOUS
    <3>2. Divides(1, a) /\ Divides(1, b)
      BY <3>1 DEF Divides
    <3>3. 1 \in S /\ a - (a - 1) = 1 /\ a - 1 \in Nat
      BY <1>2, <3>2
    <3> HIDE DEF S
    <3> QED BY <3>3
  <2>3. PICK k \in T : \A j \in T : k <= j
    <3>1. T \in SUBSET Nat /\ T # {}
      BY <2>2
    <3> HIDE DEF T
    <3> QED BY <3>1, LeastOf
  <2>4. a - k \in S /\ \A y \in S : y <= a - k
    <3>1. a - k \in S /\ k \in Nat
      BY <2>3
    <3>2. ASSUME NEW y \in S PROVE y <= a - k
      <4>1. y \in 1 .. a
        OBVIOUS
      <4> HIDE DEF S
      <4>2. a - y \in Nat /\ a - (a - y) = y
        BY <4>1
      <4>3. a - y \in T
        BY <4>2
      <4>4. k <= a - y
        BY <2>3, <4>3
      <4> QED BY <3>1, <4>1, <4>4
    <3> QED BY <3>1, <3>2
  <2>5. Greatest(S) \in S
    <3> HIDE DEF S
    <3> QED BY ONLY <2>4 DEF Greatest
  <2>6. PICK d \in S : d = Greatest(S)
    <3> HIDE DEF S
    <3> QED BY ONLY <2>5
  <2>7. d \in 1 .. a /\ Divides(d, b)
    BY <2>6
  <2>8. PICK m \in 0 .. b : d * m = b
    BY <2>7 DEF Divides
  <2>9. m # 0
    BY <1>2, <2>7, <2>8
  <2>10. PICK e \in Nat : m = 1 + e
    <3>1. m - 1 \in Nat /\ m = 1 + (m - 1)
      BY <2>9
    <3> QED BY ONLY <3>1
  <2>11. d * m = d + (d * e) /\ d * e \in Nat
    BY ONLY <2>7, <2>10, a \in Nat, e \in Nat
  <2>12. d <= b
    BY ONLY <2>7, <2>8, <2>11, a \in Nat
  <2> QED BY <2>1, <2>6, <2>7, <2>12
<1> QED BY <1>1, <1>2

LEMMA QuotientAbove ==
  ASSUME NEW a \in Nat, NEW b \in Nat, NEW d \in 1 .. b
  PROVE  (a * b) \div d \in Nat /\ (a * b) \div d >= a
<1> DEFINE q == (a * b) \div d
<1>1. a * b \in Nat /\ d \in Nat \ {0}
  OBVIOUS
<1>2. q \in Nat /\ \E r \in 0 .. d - 1 : a * b = (d * q) + r
  <2> DEFINE x == a * b
  <2>1. x \in Nat
    BY <1>1
  <2> HIDE DEF x
  <2>2. x \div d \in Nat /\ \E r \in 0 .. d - 1 : x = (d * (x \div d)) + r
    BY ONLY <1>1, <2>1
  <2> QED BY <2>2 DEF x
<1> HIDE DEF q
<1>3. PICK r \in 0 .. d - 1 : a * b = (d * q) + r
  BY <1>2
<1>4. PICK e \in Nat : b = d + e
  <2>1. b - d \in Nat /\ b = d + (b - d)
    OBVIOUS
  <2> QED BY ONLY <2>1
<1>5. CASE q < a
  <2>1. PICK g \in Nat : a = (q + 1) + g
    <3>1. a - (q + 1) \in Nat /\ a = (q + 1) + (a - (q + 1))
      BY <1>2, <1>5
    <3> QED BY ONLY <3>1
  <2>2. a * b = (a * d) + (a * e) /\ a * e \in Nat /\ a * d \in Nat
    BY ONLY <1>1, <1>4, a \in Nat, e \in Nat
  <2>3. d * a = ((d * q) + d) + (d * g) /\ d * g \in Nat /\ a * d = d * a /\ d * q \in Nat
    BY ONLY <1>1, <1>2, <2>1, a \in Nat, g \in Nat
  <2> DEFINE ab == a * b
             ad == a * d
             ae == a * e
             dq == d * q
             dg == d * g
  <2>4. ab = ad + ae /\ ad = (dq + d) + dg /\ ab = dq + r
    BY ONLY <1>3, <2>2, <2>3
  <2>5. ae \in Nat /\ dg \in Nat /\ dq \in Nat /\ d \in Nat /\ r \in 0 .. d - 1
    BY <1>1, <2>2, <2>3
  <2> HIDE DEF ab, ad, ae, dq, dg
  <2>6. FALSE
    BY ONLY <2>4, <2>5
  <2> QED BY ONLY <2>6
<1> QED BY <1>2, <1>5 DEF q

-----------------------------------------------------------------------------
(* Right results of calculations.                                          *)

LEMMA ValuesOf ==
  ASSUME NEW ask
  PROVE  /\ ask.op \in Modular => Values(ask) = Residues(ask)
         /\ ask.op = "IsPrime" => Values(ask) = {IF IsPrimeNumber(ask.a) THEN 1 ELSE 0}
         /\ ask.op \in Predicates \ {"IsPrime"} => Values(ask) = {0, 1}
         /\ ask.op \in Comparisons => Values(ask) = {-1, 0, 1}
         /\ ask.op = "Add" => Values(ask) = {ask.a + ask.b}
         /\ ask.op = "Mul" => Values(ask) = {ask.a * ask.b}
         /\ ask.op = "Div" => Values(ask) = IF ask.b = 0 THEN {} ELSE {ask.a \div ask.b}
         /\ ask.op = "Sqr" => Values(ask) = {ask.a * ask.a}
         /\ ask.op = "Exp" => Values(ask) = {Power(ask.a, ask.b)}
         /\ ask.op = "LShift1" => Values(ask) = {2 * ask.a}
         /\ ask.op = "RShift" => Values(ask) = {ask.a \div Power(2, ask.b)}
         /\ ask.op = "SetBit" => Values(ask) = {IF HasBit(ask.a, ask.b) THEN ask.a ELSE ask.a + Power(2, ask.b)}
         /\ ask.op = "ClearBit" => Values(ask) = {IF HasBit(ask.a, ask.b) THEN ask.a - Power(2, ask.b) ELSE ask.a}
         /\ ask.op = "Mask" => Values(ask) = {ask.a % Power(2, ask.b)}
         /\ ask.op = "And" => Values(ask) = {And(ask.a, ask.b)}
         /\ ask.op = "Or" => Values(ask) = {Or(ask.a, ask.b)}
         /\ ask.op = "Sqrt" => Values(ask) = {Root(ask.a, 2)}
         /\ ask.op = "Cbrt" => Values(ask) = {Root(ask.a, 3)}
         /\ ask.op \in {"Nthrt", "NthrtRem"} /\ ask.b = 0 => Values(ask) = {}
         /\ ask.op = "MulAdd" => Values(ask) = {ask.a * ask.b + ask.c}
         /\ ask.op = "Min" => Values(ask) = {IF ask.a < ask.b THEN ask.a ELSE ask.b}
         /\ ask.op = "Max" => Values(ask) = {IF ask.a < ask.b THEN ask.b ELSE ask.a}
         /\ ask.op = "GCD" => Values(ask) = {GCD(ask.a, ask.b)}
         /\ ask.op = "LCM" => Values(ask) = {IF ask.a = 0 \/ ask.b = 0 THEN 0 ELSE (ask.a * ask.b) \div GCD(ask.a, ask.b)}
         /\ ask.op = "InvMod" => Values(ask) = {0} \cup {x \in 1 .. ask.b - 1 : (ask.a * x) % ask.b = 1}
         /\ ask.op = "RandRange" => Values(ask) = ask.a .. ask.b
         /\ ask.op = "Zero" => Values(ask) = {0}
         /\ ask.op = "Prime" => Values(ask) = {x \in Answers : IsPrimeNumber(x)}
BY DEF Values, Modular, ModuloB, ModuloC, Predicates, Comparisons

(* A residue is below the modulus.                                         *)
LEMMA ResiduesBelow ==
  ASSUME NEW ask, ask.op \in Modular, ask.a \in Nat, ask.b \in Nat, Modulus(ask) \in Nat,
         NEW r \in Residues(ask)
  PROVE  r \in 0 .. Modulus(ask) - 1
<1> DEFINE m == Modulus(ask)
           a == ask.a
           b == ask.b
<1>0. m # 0 /\ r \in Residues(ask)
  BY DEF Residues
<1>1. m \in Nat \ {0} /\ a \in Nat /\ b \in Nat
  BY <1>0
<1>2. /\ a * a \in Int /\ a + b \in Int /\ a - b \in Int /\ a * b \in Int
      /\ a * Power(2, b) \in Int /\ PowerMod(a, b, m) \in 0 .. m - 1
  <2> HIDE DEF a, b, m
  <2>1. a * a \in Int /\ a + b \in Int /\ a - b \in Int /\ a * b \in Int
    BY ONLY <1>1
  <2>2. a * Power(2, b) \in Int
    <3> DEFINE two == 2
    <3>1. two \in Nat
      OBVIOUS
    <3> HIDE DEF two
    <3>2. Power(two, b) \in Nat
      BY ONLY <1>1, <3>1, PowerSteps
    <3> DEFINE p == Power(two, b)
    <3>3. p \in Nat
      BY <3>2
    <3> HIDE DEF p
    <3>4. a * p \in Int
      BY ONLY <1>1, <3>3
    <3> QED BY <3>4 DEF p, two
  <2>3. PowerMod(a, b, m) \in 0 .. m - 1
    <3> DEFINE c == a % m
    <3>1. \A n \in Nat : PowerMod(a, n, m) \in Nat /\ PowerMod(a, n + 1, m) = (a * PowerMod(a, n, m)) % m
      BY ONLY <1>1, PowerModSteps
    <3>2. PowerMod(a, 0, m) = 1 % m
      BY ONLY <1>1, PowerModSteps
    <3>3. CASE b = 0
      <4>1. 1 % m \in 0 .. m - 1
        BY ONLY <1>1
      <4> QED BY ONLY <3>2, <3>3, <4>1
    <3>4. CASE b # 0
      <4> DEFINE k == b - 1
      <4>1. k \in Nat /\ b = k + 1
        BY ONLY <1>1, <3>4
      <4> HIDE DEF k
      <4> DEFINE p == PowerMod(a, k, m)
      <4>2. p \in Nat /\ PowerMod(a, b, m) = (a * p) % m
        BY ONLY <3>1, <4>1
      <4> HIDE DEF p
      <4> DEFINE x == a * p
      <4>3. x \in Int
        BY ONLY <1>1, <4>2
      <4> HIDE DEF x
      <4>4. x % m \in 0 .. m - 1
        BY ONLY <1>1, <4>3
      <4> QED BY ONLY <4>2, <4>4 DEF x
    <3> QED BY <3>3, <3>4
  <2> QED BY ONLY <2>1, <2>2, <2>3
<1>3. \A x \in Int : x % m \in 0 .. m - 1
  <2> HIDE DEF m
  <2> QED BY ONLY <1>1
<1>4. \/ r \in 0 .. m - 1
      \/ \E x \in Int : r = x % m
  <2> DEFINE aa == a * a
             ab == a * b
             ap == a * Power(2, b)
             pm == PowerMod(a, b, m)
  <2>1. /\ aa \in Int /\ a + b \in Int /\ a - b \in Int /\ ab \in Int /\ ap \in Int /\ a \in Int
        /\ pm \in 0 .. m - 1
    BY <1>1, <1>2
  <2>2. \/ r \in {a % m, aa % m, (a + b) % m, (a - b) % m, ab % m, ap % m}
        \/ r = pm
        \/ r \in 0 .. m - 1
    BY <1>0, ask.op \in Modular DEF Residues, Modular, ModuloB, ModuloC
  <2> HIDE DEF aa, ab, ap, pm
  <2> QED BY <2>1, <2>2
<1> HIDE DEF m
<1>5. r \in 0 .. m - 1
  BY ONLY <1>3, <1>4
<1> QED BY <1>5 DEF m

(* Lengths tell which number is larger up to one digit.                    *)
LEMMA SizesTell ==
  ASSUME NEW x \in Nat, NEW y \in Nat
  PROVE  /\ x <= y => ~LargerThan(x, y) /\ ~SmallerThan(y, x)
         /\ ~LargerThan(x, y) => UpTo(x, y)
         /\ ~SmallerThan(y, x) => UpTo(x, y)
<1>1. Size(x) = Digits[x] /\ Size(y) = Digits[y]
  BY DEF Size
<1>2. Digits[x] \in Nat /\ Digits[y] \in Nat
  BY DigitsPositive
<1>3. x <= y => Digits[x] <= Digits[y]
  BY DigitsGrow
<1>4. Digits[x] <= Digits[y] => UpTo(x, y)
  BY DigitsBound
<1> QED BY <1>1, <1>2, <1>3, <1>4 DEF LargerThan, SmallerThan

(* A number with a bit is at least that bit.                               *)
LEMMA BitBelow ==
  ASSUME NEW a \in Nat, NEW b \in Nat
  PROVE  Power(2, b) \in Nat \ {0} /\ (HasBit(a, b) => Power(2, b) <= a)
<1> DEFINE two == 2
           p == Power(two, b)
<1>1. two \in Nat \ {0}
  OBVIOUS
<1> HIDE DEF two
<1>2. p \in Nat \ {0}
  BY ONLY <1>1, b \in Nat, PowerPositive
<1>3. HasBit(a, b) => (a \div p) % 2 = 1
  BY DEF HasBit, two
<1> HIDE DEF p
<1>4. (a \div p) % 2 = 1 => p <= a
  <2> SUFFICES ASSUME (a \div p) % 2 = 1, a < p PROVE FALSE
    BY <1>2
  <2>1. a \div p = 0
    BY ONLY <1>2, a < p, a \in Nat
  <2> QED BY <2>1
<1> QED BY <1>2, <1>3, <1>4 DEF p, two

-----------------------------------------------------------------------------
(* Right results keep the bounds that are demanded.                        *)

(* What the demands on a calculation's result amount to for numbers.       *)
Bounded(ask, r) ==
  /\ ask.op \in Modular => r \in 0 .. Modulus(ask) - 1
  /\ ask.op \in Predicates => r \in {0, 1}
  /\ ask.op \in Comparisons => r \in {-1, 0, 1}
  /\ ask.op \in AtLeastA => r \in Nat /\ ask.a <= r
  /\ ask.op \in AtLeastB => r \in Nat /\ ask.b <= r
  /\ ask.op = "MulAdd" => r \in Nat /\ ask.c <= r
  /\ ask.op \in AtLeastAOrB => r \in Nat /\ (ask.a <= r \/ ask.b <= r)
  /\ ask.op \in AtMostA => r \in 0 .. ask.a
  /\ ask.op \in AtMostB => r \in 0 .. ask.b
  /\ ask.op \in AtMostAOrB => r \in 0 .. ask.a \/ r \in 0 .. ask.b
  /\ ask.op \in {"Div", "Nthrt", "NthrtRem"} => ask.b # 0
  /\ ask.op = "Mul" /\ (ask.a = 0 \/ ask.b = 0) => r = 0
  /\ ask.op = "RShift" /\ (ask.a = 0 \/ ask.b = 0) => r = ask.a
  /\ ask.op = "LShift1" /\ ask.a = 0 => r = ask.a
  /\ ask.op \in {"Min", "Max"} => r \in {ask.a, ask.b}
  /\ ask.op = "Zero" => r = 0

(* The calculations whose results are not compared with an operand.        *)
Unbounded == Predicates \cup Comparisons \cup {"Mul", "Nthrt", "NthrtRem", "Min", "Max", "Zero", "Sub", "Prime"}

LEMMA PlainBounded ==
  ASSUME NEW ask, ask.op \in Unbounded, ask.a \in Nat, ask.b \in Nat, ask.c \in Nat,
         NEW r \in Values(ask)
  PROVE  Bounded(ask, r)
<1>1. CASE ask.op \in Predicates
  <2>1. r \in {0, 1}
    BY <1>1, ValuesOf
  <2> QED BY <1>1, <2>1
       DEF Bounded, Modular, ModuloB, ModuloC, Predicates, Comparisons, AtLeastA, AtLeastB,
           AtLeastAOrB, AtMostA, AtMostB, AtMostAOrB
<1>2. CASE ask.op \in Comparisons
  <2>1. r \in {-1, 0, 1}
    BY <1>2, ValuesOf
  <2> QED BY <1>2, <2>1
       DEF Bounded, Modular, ModuloB, ModuloC, Predicates, Comparisons, AtLeastA, AtLeastB,
           AtLeastAOrB, AtMostA, AtMostB, AtMostAOrB
<1>3. CASE ask.op \in {"Mul", "Nthrt", "NthrtRem", "Min", "Max", "Zero", "Sub", "Prime"}
  <2>1. ask.op \in {"Nthrt", "NthrtRem"} => ask.b # 0
    BY ValuesOf
  <2>2. ask.op = "Mul" => r = ask.a * ask.b
    BY ValuesOf
  <2>3. ask.op \in {"Min", "Max"} => r \in {ask.a, ask.b}
    BY ValuesOf
  <2>4. ask.op = "Zero" => r = 0
    BY ValuesOf
  <2>5. ask.op = "Mul" /\ (ask.a = 0 \/ ask.b = 0) => r = 0
    BY <2>2
  <2> QED BY ONLY <1>3, <2>1, <2>3, <2>4, <2>5
       DEF Bounded, Modular, ModuloB, ModuloC, Predicates, Comparisons, AtLeastA, AtLeastB,
           AtLeastAOrB, AtMostA, AtMostB, AtMostAOrB
<1> QED BY <1>1, <1>2, <1>3 DEF Unbounded

LEMMA SumsBounded ==
  ASSUME NEW ask, ask.op \in AtLeastA \cup AtLeastB \cup {"MulAdd"},
         ask.a \in Nat, ask.b \in Nat, ask.c \in Nat, NEW r \in Values(ask)
  PROVE  Bounded(ask, r)
<1> DEFINE a == ask.a
           b == ask.b
<1>1. a \in Nat /\ b \in Nat /\ ask.c \in Nat
  OBVIOUS
<1>2. ask.op = "Add" => r \in Nat /\ a <= r /\ b <= r
  BY ValuesOf
<1>3. ask.op = "Sqr" => r \in Nat /\ a <= r
  <2>1. a * a \in Nat /\ a <= a * a
    <3> HIDE DEF a
    <3>1. CASE a = 0
      BY <3>1
    <3>2. CASE a # 0
      <4>1. PICK e \in Nat : a = 1 + e
        <5>1. a - 1 \in Nat /\ a = 1 + (a - 1)
          BY <1>1, <3>2
        <5> QED BY ONLY <5>1
      <4>2. a * a = a + (a * e) /\ a * e \in Nat
        BY ONLY <1>1, <4>1, e \in Nat
      <4> QED BY ONLY <1>1, <4>2
    <3> QED BY <3>1, <3>2
  <2>2. ask.op = "Sqr" => r = a * a
    BY ValuesOf
  <2> QED BY ONLY <2>1, <2>2
<1>4. ask.op = "LShift1" => r \in Nat /\ a <= r /\ (a = 0 => r = a)
  BY ValuesOf
<1>5. ask.op = "SetBit" => r \in Nat /\ a <= r
  <2> DEFINE p == Power(2, b)
  <2>1. p \in Nat
    BY BitBelow
  <2>2. ask.op = "SetBit" => r = a \/ r = a + p
    BY ValuesOf
  <2> HIDE DEF p
  <2> QED BY ONLY <1>1, <2>1, <2>2
<1>6. ask.op = "Or" => r \in Nat /\ a <= r /\ b <= r
  <2>1. ask.op = "Or" => r = Or(a, b)
    BY ValuesOf
  <2>2. Or(a, b) \in Nat /\ Or(a, b) >= a /\ Or(a, b) >= b
    BY OrAbove
  <2> QED BY <2>1, <2>2
<1>7. ask.op = "MulAdd" => r \in Nat /\ ask.c <= r
  <2>1. ask.op = "MulAdd" => r = (a * b) + ask.c
    BY ValuesOf
  <2>2. a * b \in Nat
    BY ONLY <1>1
  <2> DEFINE x == a * b
  <2> HIDE DEF x
  <2>3. x \in Nat /\ (ask.op = "MulAdd" => r = x + ask.c)
    BY <2>1, <2>2 DEF x
  <2> QED BY ONLY <1>1, <2>3
<1> QED BY ONLY <1>2, <1>3, <1>4, <1>5, <1>6, <1>7, ask.op \in AtLeastA \cup AtLeastB \cup {"MulAdd"}
     DEF Bounded, Modular, ModuloB, ModuloC, Predicates, Comparisons, AtLeastA, AtLeastB,
         AtLeastAOrB, AtMostA, AtMostB, AtMostAOrB

LEMMA MultiplesBounded ==
  ASSUME NEW ask, ask.op \in AtLeastAOrB, ask.a \in Nat, ask.b \in Nat, ask.c \in Nat,
         NEW r \in Values(ask)
  PROVE  Bounded(ask, r)
<1> DEFINE a == ask.a
           b == ask.b
<1>1. a \in Nat /\ b \in Nat
  OBVIOUS
<1>2. ask.op = "LCM" => r \in Nat /\ (a <= r \/ b <= r)
  <2>1. ask.op = "LCM" => r = IF a = 0 \/ b = 0 THEN 0 ELSE (a * b) \div GCD(a, b)
    BY ValuesOf
  <2>2. CASE a = 0 \/ b = 0
    BY <2>1, <2>2
  <2>3. CASE a # 0 /\ b # 0
    <3> DEFINE d == GCD(a, b)
    <3>1. d \in 1 .. b
      BY <2>3, GCDBelow
    <3> HIDE DEF a, b, d
    <3>2. (a * b) \div d \in Nat /\ (a * b) \div d >= a
      BY ONLY <1>1, <3>1, QuotientAbove
    <3> DEFINE q == (a * b) \div d
    <3>3. q \in Nat /\ q >= a /\ (ask.op = "LCM" => r = q)
      BY ONLY <2>1, <2>3, <3>2 DEF d
    <3> HIDE DEF q
    <3> QED BY ONLY <1>1, <3>3
  <2> QED BY <2>2, <2>3
<1>3. ask.op = "Exp" => r \in Nat /\ (a <= r \/ b <= r)
  <2>1. ask.op = "Exp" => r = Power(a, b)
    BY ValuesOf
  <2> HIDE DEF a, b
  <2>2. Power(a, b) \in Nat
    BY ONLY <1>1, PowerSteps
  <2>3. CASE a = 0 \/ b = 0
    BY ONLY <1>1, <2>1, <2>2, <2>3
  <2>4. CASE a # 0 /\ b # 0
    <3>1. a \in Nat \ {0} /\ b \in Nat \ {0}
      BY <1>1, <2>4
    <3>2. Power(a, b) >= a
      BY ONLY <3>1, PowerAbove
    <3> QED BY ONLY <1>1, <2>1, <2>2, <3>2
  <2> QED BY <2>3, <2>4
<1> QED BY <1>2, <1>3
     DEF Bounded, Modular, ModuloB, ModuloC, Predicates, Comparisons, AtLeastA, AtLeastB,
         AtLeastAOrB, AtMostA, AtMostB, AtMostAOrB

LEMMA PartsBounded ==
  ASSUME NEW ask, ask.op \in AtMostA, ask.a \in Nat, ask.b \in Nat, ask.c \in Nat,
         NEW r \in Values(ask)
  PROVE  Bounded(ask, r)
<1> DEFINE a == ask.a
           b == ask.b
           p == Power(2, b)
<1>1. a \in Nat /\ b \in Nat /\ p \in Nat \ {0} /\ (HasBit(a, b) => p <= a)
  BY BitBelow
<1>2. ask.op = "Div" => r \in 0 .. a /\ b # 0
  <2>1. ask.op = "Div" => b # 0 /\ r = a \div b
    BY ValuesOf
  <2> HIDE DEF a, b
  <2>2. b # 0 => a \div b \in 0 .. a
    <3>1. b # 0 => b \in Nat \ {0}
      BY <1>1
    <3> QED BY ONLY <1>1, <3>1, DividedLess
  <2> QED BY ONLY <2>1, <2>2
<1>3. ask.op = "RShift" => r \in 0 .. a /\ (a = 0 \/ b = 0 => r = a)
  <2>1. ask.op = "RShift" => r = a \div p
    BY ValuesOf
  <2>2. b = 0 => p = 1
    <3> DEFINE two == 2
    <3>1. two \in Nat
      OBVIOUS
    <3> HIDE DEF two
    <3>2. Power(two, 0) = 1
      BY ONLY <3>1, PowerSteps
    <3> QED BY <3>2 DEF two
  <2> HIDE DEF a, b, p
  <2>3. a \div p \in 0 .. a
    BY ONLY <1>1, DividedLess
  <2>4. p = 1 => a \div p = a
    BY ONLY <1>1
  <2>5. a = 0 => a \div p = a
    BY ONLY <1>1, <2>3
  <2> QED BY ONLY <2>1, <2>2, <2>3, <2>4, <2>5
<1>4. ask.op = "ClearBit" => r \in 0 .. a
  <2>1. ask.op = "ClearBit" => r = IF HasBit(a, b) THEN a - p ELSE a
    BY ValuesOf
  <2> HIDE DEF a, b, p
  <2> QED BY ONLY <1>1, <2>1
<1>5. ask.op \in {"Sqrt", "Cbrt"} => r \in 0 .. a
  <2>1. /\ ask.op = "Sqrt" => r = Root(a, 2)
        /\ ask.op = "Cbrt" => r = Root(a, 3)
    BY ValuesOf
  <2>2. \A k \in Nat \ {0} : Root(a, k) \in 0 .. a
    BY ONLY <1>1, RootBelow
  <2>3. 2 \in Nat \ {0} /\ 3 \in Nat \ {0}
    OBVIOUS
  <2> QED BY <2>1, <2>2, <2>3
<1>6. ask.op = "Mask" => r \in 0 .. a
  <2>1. ask.op = "Mask" => r = a % p
    BY ValuesOf
  <2> HIDE DEF a, b, p
  <2>2. a % p \in 0 .. a
    <3>1. a % p \in 0 .. p - 1
      BY ONLY <1>1
    <3>2. a < p => a % p = a
      BY ONLY <1>1
    <3> QED BY ONLY <1>1, <3>1, <3>2
  <2> QED BY ONLY <2>1, <2>2
<1>7. ask.op = "And" => r \in 0 .. a /\ r \in 0 .. b
  <2>1. ask.op = "And" => r = And(a, b)
    BY ValuesOf
  <2>2. And(a, b) \in 0 .. a /\ And(a, b) \in 0 .. b
    BY ONLY <1>1, AndBelow
  <2> QED BY <2>1, <2>2
<1> HIDE DEF p
<1> QED BY ONLY <1>2, <1>3, <1>4, <1>5, <1>6, <1>7, ask.op \in AtMostA
     DEF Bounded, Modular, ModuloB, ModuloC, Predicates, Comparisons, AtLeastA, AtLeastB,
         AtLeastAOrB, AtMostA, AtMostB, AtMostAOrB

LEMMA DivisorsBounded ==
  ASSUME NEW ask, ask.op \in {"InvMod", "RandRange", "GCD"},
         ask.a \in Nat, ask.b \in Nat, ask.c \in Nat, NEW r \in Values(ask)
  PROVE  Bounded(ask, r)
<1> DEFINE a == ask.a
           b == ask.b
<1>1. ask.op = "InvMod" => r \in 0 .. b
  <2>1. ask.op = "InvMod" => r = 0 \/ r \in 1 .. b - 1
    BY ValuesOf
  <2> QED BY <2>1
<1>2. ask.op = "RandRange" => r \in 0 .. b
  <2>1. ask.op = "RandRange" => r \in a .. b
    BY ValuesOf
  <2> QED BY <2>1
<1>3. ask.op = "GCD" => r \in 0 .. a \/ r \in 0 .. b
  <2>1. ask.op = "GCD" => r = GCD(a, b)
    BY ValuesOf
  <2>2. a = 0 => GCD(a, b) \in 0 .. b
    BY GCDBelow
  <2>3. b = 0 => GCD(a, b) \in 0 .. a
    BY GCDBelow
  <2>4. a # 0 /\ b # 0 => GCD(a, b) \in 1 .. a
    BY GCDBelow
  <2> QED BY <2>1, <2>2, <2>3, <2>4
<1> QED BY <1>1, <1>2, <1>3
     DEF Bounded, Modular, ModuloB, ModuloC, Predicates, Comparisons, AtLeastA, AtLeastB,
         AtLeastAOrB, AtMostA, AtMostB, AtMostAOrB

LEMMA ResiduesBounded ==
  ASSUME NEW ask, ask.op \in Modular, ask.a \in Nat, ask.b \in Nat, ask.c \in Nat,
         NEW r \in Values(ask)
  PROVE  Bounded(ask, r)
<1>1. r \in Residues(ask)
  BY ValuesOf
<1>2. Modulus(ask) \in Nat
  BY DEF Modulus, Modular, ModuloB, ModuloC
<1>3. r \in 0 .. Modulus(ask) - 1
  BY <1>1, <1>2, ResiduesBelow
<1> QED BY <1>3
     DEF Bounded, Modular, ModuloB, ModuloC, Predicates, Comparisons, AtLeastA, AtLeastB,
         AtLeastAOrB, AtMostA, AtMostB, AtMostAOrB

LEMMA RightBounded ==
  ASSUME NEW ask, ask.op \in Calculations, ask.a \in Nat, ask.b \in Nat, ask.c \in Nat,
         NEW r \in Values(ask)
  PROVE  Bounded(ask, r)
<1>1. \/ ask.op \in Unbounded
      \/ ask.op \in AtLeastA \cup AtLeastB \cup {"MulAdd"}
      \/ ask.op \in AtLeastAOrB
      \/ ask.op \in AtMostA
      \/ ask.op \in {"InvMod", "RandRange", "GCD"}
      \/ ask.op \in Modular
  BY DEF Unbounded, Calculations, NoOperands, OneOperand, ThreeOperands, Modular, ModuloB, ModuloC,
         Predicates, Comparisons, AtLeastA, AtLeastB, AtLeastAOrB, AtMostA, AtMostB, AtMostAOrB
<1> QED BY <1>1, PlainBounded, SumsBounded, MultiplesBounded, PartsBounded, DivisorsBounded, ResiduesBounded

(* What is bounded is not alarming, and what is not alarming is bounded up *)
(* to a digit.                                                             *)
LEMMA BoundedPasses ==
  ASSUME NEW ask, ask.op \in Calculations \ {"IsPrime", "Prime"},
         ask.a \in Nat, ask.b \in Nat, ask.c \in Nat, NEW r, Bounded(ask, r)
  PROVE  ~CalcAlarm(ask, r)
<1>1. ask.op \in Modular => ~IsEqualOrLargerThan(r, Modulus(ask))
  <2> SUFFICES ASSUME ask.op \in Modular PROVE ~IsEqualOrLargerThan(r, Modulus(ask))
    OBVIOUS
  <2>1. Modulus(ask) \in Nat /\ r \in 0 .. Modulus(ask) - 1
    BY DEF Bounded, Modulus, Modular, ModuloB, ModuloC
  <2>2. r \in Nat /\ r <= Modulus(ask) /\ r # Modulus(ask)
    BY ONLY <2>1
  <2> QED BY <2>1, <2>2, SizesTell DEF IsEqualOrLargerThan
<1>2. /\ ask.op \in Predicates => r \in {0, 1}
      /\ ask.op \in Comparisons => r \in {-1, 0, 1}
      /\ ask.op \in {"Div", "Nthrt", "NthrtRem"} => ask.b # 0
      /\ ask.op = "Mul" /\ (ask.a = 0 \/ ask.b = 0) => r = 0
      /\ ask.op = "RShift" /\ (ask.a = 0 \/ ask.b = 0) => r = ask.a
      /\ ask.op = "LShift1" /\ ask.a = 0 => r = ask.a
      /\ ask.op \in {"Min", "Max"} => r \in {ask.a, ask.b}
      /\ ask.op = "Zero" => r = 0
  BY DEF Bounded
<1>3. /\ ask.op \in AtLeastA => ~SmallerThan(r, ask.a)
      /\ ask.op \in AtLeastB => ~SmallerThan(r, ask.b)
      /\ ask.op = "MulAdd" => ~SmallerThan(r, ask.c)
      /\ ask.op \in AtLeastAOrB => ~SmallerThan(r, ask.a) \/ ~SmallerThan(r, ask.b)
  <2>1. \A x, y \in Nat : x <= y => ~SmallerThan(y, x)
    BY SizesTell
  <2> QED BY <2>1 DEF Bounded
<1>4. /\ ask.op \in AtMostA => ~LargerThan(r, ask.a)
      /\ ask.op \in AtMostB => ~LargerThan(r, ask.b)
      /\ ask.op \in AtMostAOrB => ~LargerThan(r, ask.a) \/ ~LargerThan(r, ask.b)
  <2>1. \A y \in Nat : \A x \in 0 .. y : ~LargerThan(x, y)
    BY SizesTell
  <2> QED BY <2>1 DEF Bounded
<1> QED BY <1>1, <1>2, <1>3, <1>4 DEF CalcAlarm

LEMMA PrimesPass ==
  ASSUME NEW ask, ask.op \in {"IsPrime", "Prime"}, ask.a \in Int, NEW r \in Values(ask)
  PROVE  ~CalcAlarm(ask, r)
<1>1. CASE ask.op = "IsPrime"
  <2>1. r = IF IsPrimeNumber(ask.a) THEN 1 ELSE 0
    BY <1>1, ValuesOf
  <2>2. IsPrimeNumber(ask.a) => ask.a > 1 /\ (ask.a # 2 => IsOdd(ask.a))
    BY PrimesIndivisible
  <2>3. r \in {0, 1}
    BY <2>1
  <2>4. ~PrimalityAlarm(ask, r)
    <3>1. CASE IsPrimeNumber(ask.a)
      BY <2>2, <3>1 DEF PrimalityAlarm, IsPositive
    <3>2. CASE ~IsPrimeNumber(ask.a)
      <4>1. r = 0
        BY <2>1, <3>2
      <4> QED BY <4>1 DEF PrimalityAlarm
    <3> QED BY <3>1, <3>2
  <2> QED BY <1>1, <2>3, <2>4
       DEF CalcAlarm, Modular, ModuloB, ModuloC, Predicates, Comparisons, AtLeastA, AtLeastB,
           AtLeastAOrB, AtMostA, AtMostB, AtMostAOrB
<1>2. CASE ask.op = "Prime"
  <2>1. r \in Int /\ IsPrimeNumber(r)
    <3>1. r \in {x \in Answers : IsPrimeNumber(x)}
      BY <1>2, ValuesOf
    <3>2. Answers \subseteq Int
      BY ResultTestsAssumption
    <3> QED BY ONLY <3>1, <3>2
  <2>2. IsPositive(r) /\ (r # 2 => IsOdd(r))
    BY <2>1, PrimesIndivisible DEF IsPositive
  <2> QED BY <1>2, <2>2
       DEF CalcAlarm, Modular, ModuloB, ModuloC, Predicates, Comparisons, AtLeastA, AtLeastB,
           AtLeastAOrB, AtMostA, AtMostB, AtMostAOrB
<1> QED BY <1>1, <1>2

LEMMA CalculationsAsked ==
  ASSUME NEW op \in Calculations, NEW ask \in Questions(op)
  PROVE  /\ ask.op = op /\ ask.a \in Int /\ ask.b \in Int /\ ask.c \in Int
         /\ op = "Prime" => ask.a = 0 /\ ask.b = 0 /\ ask.c = 0
<1>1. \A used : Among(used) \subseteq Int
  BY ResultTestsAssumption DEF Among
<1>2. /\ ask.op = op /\ ask.a \in Among(Arity[op] >= 1)
      /\ ask.b \in IF op = "Exp" THEN Exponents ELSE Among(Arity[op] >= 2)
      /\ ask.c \in Among(Arity[op] = 3)
  BY DEF Questions
<1>3. ask.b \in Int
  <2>1. Exponents \subseteq Int /\ Among(Arity[op] >= 2) \subseteq Int
    BY <1>1, ResultTestsAssumption
  <2>2. ask.b \in Exponents \/ ask.b \in Among(Arity[op] >= 2)
    BY <1>2
  <2> QED BY ONLY <2>1, <2>2
<1>4. op = "Prime" => Arity[op] = 0
  BY DEF Arity, NoOperands
<1>5. op = "Prime" => ask.a = 0 /\ ask.b = 0 /\ ask.c = 0
  BY <1>2, <1>4 DEF Among
<1> QED BY <1>1, <1>2, <1>3, <1>5

LEMMA RightCalculation ==
  ASSUME NEW op \in Calculations, NEW ask \in Questions(op), ~Skips(ask), NEW r \in Correct(ask)
  PROVE  /\ ~CalcAlarm(ask, r)
         /\ op \notin {"IsPrime", "Prime"} => Bounded(ask, r)
<1>1. /\ ask.op = op /\ ask.a \in Int /\ ask.b \in Int /\ ask.c \in Int
      /\ op = "Prime" => ask.a = 0 /\ ask.b = 0 /\ ask.c = 0
  BY CalculationsAsked
<1>2. ask.modulo = 0 /\ (op \notin {"IsPrime", "Prime"} => ask.a \in Nat /\ ask.b \in Nat /\ ask.c \in Nat)
  BY <1>1 DEF Skips
<1>3. r \in Values(ask)
  BY <1>1, <1>2 DEF Correct, CorrectValues
<1>4. CASE op \in {"IsPrime", "Prime"}
  BY <1>1, <1>3, <1>4, PrimesPass
<1>5. CASE op \notin {"IsPrime", "Prime"}
  <2>1. Bounded(ask, r)
    BY <1>1, <1>2, <1>3, <1>5, RightBounded
  <2> QED BY <1>1, <1>2, <1>5, <2>1, BoundedPasses
<1> QED BY <1>4, <1>5

(* What is said of a calculation's result that was let through.            *)
CalculationWithin(ask, r) ==
  /\ ask.op \in Modular => UpTo(r, Modulus(ask)) /\ r # Modulus(ask)
  /\ ask.op \in AtMostA => UpTo(r, ask.a)
  /\ ask.op \in AtMostB => UpTo(r, ask.b)
  /\ ask.op = "GCD" => UpTo(r, ask.a) \/ UpTo(r, ask.b)
  /\ ask.op \in AtLeastA => UpTo(ask.a, r)
  /\ ask.op \in AtLeastB => UpTo(ask.b, r)
  /\ ask.op = "MulAdd" => UpTo(ask.c, r)

LEMMA PassedWithin ==
  ASSUME NEW op \in Calculations, NEW ask \in Questions(op), ~Skips(ask),
         NEW r \in Answers \cup Correct(ask), ~CalcAlarm(ask, r), r >= 0
  PROVE  CalculationWithin(ask, r)
<1>1. /\ ask.op = op /\ ask.a \in Int /\ ask.b \in Int /\ ask.c \in Int
  BY CalculationsAsked
<1>2. CASE op \in {"IsPrime", "Prime"}
  BY <1>1, <1>2
     DEF CalculationWithin, Modular, ModuloB, ModuloC, AtLeastA, AtLeastB, AtMostA, AtMostB
<1>3. CASE op \notin {"IsPrime", "Prime"}
  <2>1. ask.a \in Nat /\ ask.b \in Nat /\ ask.c \in Nat
    BY <1>1, <1>3 DEF Skips
  <2>2. CASE r \in Int
    <3>1. r \in Nat
      BY <2>2
    <3>2. op \in Modular => UpTo(r, Modulus(ask)) /\ r # Modulus(ask)
      <4> SUFFICES ASSUME op \in Modular PROVE UpTo(r, Modulus(ask)) /\ r # Modulus(ask)
        OBVIOUS
      <4>1. Modulus(ask) \in Nat
        BY <1>1, <2>1 DEF Modulus, Modular, ModuloB, ModuloC
      <4>2. ~IsEqualOrLargerThan(r, Modulus(ask))
        BY <1>1 DEF CalcAlarm
      <4> QED BY <3>1, <4>1, <4>2, SizesTell DEF IsEqualOrLargerThan
    <3>3. /\ op \in AtMostA => ~LargerThan(r, ask.a)
          /\ op \in AtMostB => ~LargerThan(r, ask.b)
          /\ op = "GCD" => ~LargerThan(r, ask.a) \/ ~LargerThan(r, ask.b)
          /\ op \in AtLeastA => ~SmallerThan(r, ask.a)
          /\ op \in AtLeastB => ~SmallerThan(r, ask.b)
          /\ op = "MulAdd" => ~SmallerThan(r, ask.c)
      BY <1>1 DEF CalcAlarm, AtMostAOrB
    <3>4. \A x, y \in Nat : (~LargerThan(x, y) => UpTo(x, y)) /\ (~SmallerThan(y, x) => UpTo(x, y))
      BY SizesTell
    <3> QED BY ONLY <1>1, <2>1, <3>1, <3>2, <3>3, <3>4 DEF CalculationWithin
  <2>3. CASE r \notin Int
    <3>1. r \in Correct(ask)
      BY <2>3, ResultTestsAssumption
    <3>2. Bounded(ask, r)
      BY <1>3, <3>1, RightCalculation
    <3>3. /\ op \notin Modular /\ op \notin AtMostA /\ op \notin AtMostB /\ op # "GCD"
          /\ op \notin AtLeastA /\ op \notin AtLeastB /\ op # "MulAdd"
      BY <1>1, <2>3, <3>2 DEF Bounded, AtMostAOrB
    <3> QED BY <1>1, <3>3 DEF CalculationWithin
  <2> QED BY <2>2, <2>3
<1> QED BY <1>2, <1>3

-----------------------------------------------------------------------------
(* Right signatures, parameters and points.                                *)

LEMMA RightInRange ==
  ASSUME NEW q \in Nat, NEW x \in 1 .. q - 1
  PROVE  InDSARange(x, q)
<1>1. x \in Nat /\ x <= q /\ x > 0
  OBVIOUS
<1> QED BY <1>1, SizesTell DEF InDSARange, IsPositive

LEMMA InRangeWithin ==
  ASSUME NEW q \in Nat, NEW x \in Int, InDSARange(x, q)
  PROVE  UpTo(x, q)
<1>1. x \in Nat /\ ~LargerThan(x, q)
  BY DEF InDSARange, IsPositive
<1> QED BY <1>1, SizesTell

(* The two primes of DSA: the smaller divides the larger less one.         *)
LEMMA RightParameters ==
  ASSUME NEW p \in Int, NEW q \in Int, NEW g \in Int, IsPrimeNumber(p), IsPrimeNumber(q),
         3 < q, Divides(q, p - 1), g \in 2 .. p - 1
  PROVE  ~ParametersAlarm(p, q, g)
<1>1. p > 1 /\ (p > 3 => ~isComposite(p)) /\ ~isComposite(q)
  BY PrimesIndivisible
<1>2. q < p
  <2>1. PICK k \in 0 .. p - 1 : q * k = p - 1
    BY DEF Divides
  <2>2. k # 0
    BY <1>1, <2>1
  <2>3. PICK e \in Nat : k = 1 + e
    <3>1. k - 1 \in Nat /\ k = 1 + (k - 1)
      BY <2>1, <2>2
    <3> QED BY ONLY <3>1
  <2>4. q \in Nat
    OBVIOUS
  <2>5. q * k = q + (q * e) /\ q * e \in Nat
    BY ONLY <2>3, <2>4, e \in Nat
  <2> QED BY ONLY <2>1, <2>4, <2>5, p \in Int
<1>3. ~LargerThan(q, p)
  <2>1. q \in Nat /\ p \in Nat /\ q <= p
    BY <1>2
  <2> QED BY ONLY <2>1, SizesTell
<1> QED BY <1>1, <1>2, <1>3 DEF ParametersAlarm, IsPositive

LEMMA RightSignature ==
  ASSUME NEW ask, ask.curve \in Curves, NEW r \in Int, NEW s \in Int, ValidSignature(ask, r, s)
  PROVE  ~SignatureAlarm(ask, r, s)
<1>1. Order \in Int /\ FieldPrime \in Int
  BY ResultTestsAssumption
<1>2. CASE ask.op \in {"Schnorr_Sign", "Schnorr_Verify"}
  <2>1. ask.curve # "special" /\ r > 0 /\ InOrder(ask.curve, s) /\ (ask.curve = "ordered" => r < FieldPrime)
    BY <1>2 DEF ValidSignature
  <2>2. CASE ask.curve = "ordered"
    <3>1. s \in 1 .. Order - 1
      BY <2>1, <2>2 DEF InOrder
    <3> QED BY <1>1, <1>2, <2>1, <3>1 DEF SignatureAlarm, SchnorrAlarm
  <2>3. CASE ask.curve = "unknown"
    <3>1. s > 0
      BY <2>1, <2>3 DEF InOrder
    <3> QED BY <1>1, <1>2, <2>1, <2>3, <3>1 DEF SignatureAlarm, SchnorrAlarm
  <2> QED BY <2>1, <2>2, <2>3 DEF Curves
<1>3. CASE ask.op \notin {"Schnorr_Sign", "Schnorr_Verify"}
  <2>1. InOrder(ask.curve, r) /\ InOrder(ask.curve, s)
    BY <1>3 DEF ValidSignature
  <2>2. CASE ask.curve = "special"
    BY <1>3, <2>2 DEF SignatureAlarm, ECDSAAlarm
  <2>3. CASE ask.curve = "ordered"
    <3>1. r \in 1 .. Order - 1 /\ s \in 1 .. Order - 1
      BY <2>1, <2>3 DEF InOrder
    <3> QED BY <1>1, <1>3, <3>1 DEF SignatureAlarm, ECDSAAlarm
  <2>4. CASE ask.curve = "unknown"
    <3>1. r > 0 /\ s > 0
      BY <2>1, <2>4 DEF InOrder
    <3> QED BY <1>3, <2>4, <3>1 DEF SignatureAlarm, ECDSAAlarm
  <2> QED BY <2>2, <2>3, <2>4 DEF Curves
<1> QED BY <1>2, <1>3

(* The record of each other operation's question.                          *)
LEMMA OthersAsked ==
  ASSUME NEW ask \in OtherQuestions
  PROVE  \/ ask \in [op : {"DSA_Sign", "DSA_GenerateKeyPair"}, q : Unsigned]
         \/ ask \in [op : {"DSA_Verify"}, q : Unsigned, r : Answers, s : Answers]
         \/ ask.op = "DSA_GenerateParameters"
         \/ ask \in [op : {"ECDSA_Sign", "Schnorr_Sign"}, curve : Curves, specified : BOOLEAN, nonce : {0, 1}]
         \/ ask \in [op : {"ECDSA_Verify", "Schnorr_Verify"}, curve : Curves, r : Unsigned, s : Unsigned]
         \/ ask \in [op : {"ECDSA_Recover"}, curve : Curves, r : Unsigned, s : Unsigned, id : 0 .. 4]
         \/ ask \in [op : {"ECC_Point_Sub"}, p : Points, q : Points]
BY DEF OtherQuestions

LEMMA OthersApart ==
  ASSUME NEW ask \in OtherQuestions
  PROVE  ask.op \notin Calculations
<1>1. ask.op \in {"DSA_Sign", "DSA_GenerateKeyPair", "DSA_Verify", "DSA_GenerateParameters", "ECDSA_Sign",
                  "Schnorr_Sign", "ECDSA_Verify", "Schnorr_Verify", "ECDSA_Recover", "ECC_Point_Sub"}
  BY OthersAsked
<1> QED BY <1>1 DEF Calculations, NoOperands, OneOperand, ThreeOperands, Modular, ModuloB, ModuloC,
         Predicates, Comparisons, AtLeastA, AtLeastB, AtLeastAOrB, AtMostA, AtMostB, AtMostAOrB

LEMMA RightOther ==
  ASSUME NEW ask \in OtherQuestions, NEW r \in Correct(ask)
  PROVE  ~OtherAlarm(ask, r)
<1>0. r \in CorrectOther(ask)
  BY OthersApart DEF Correct
<1>1. CASE ask \in [op : {"DSA_Sign", "DSA_GenerateKeyPair"}, q : Unsigned]
  <2>1. ask.op \in {"DSA_Sign", "DSA_GenerateKeyPair"} /\ ask.q \in Nat
    BY <1>1 DEF Unsigned
  <2>2. CASE ask.op = "DSA_Sign"
    <3>1. \A i \in 1 .. 2 : r[i] \in 1 .. ask.q - 1
      BY <1>0, <2>2 DEF CorrectOther
    <3>2. r[1] \in 1 .. ask.q - 1 /\ r[2] \in 1 .. ask.q - 1
      BY <3>1
    <3>3. InDSARange(r[1], ask.q) /\ InDSARange(r[2], ask.q)
      BY <2>1, <3>2, RightInRange
    <3> QED BY <2>2, <3>3 DEF OtherAlarm
  <2>3. CASE ask.op = "DSA_GenerateKeyPair"
    <3>1. r \in 1 .. ask.q - 1
      BY <1>0, <2>3 DEF CorrectOther
    <3>2. InDSARange(r, ask.q)
      BY <2>1, <3>1, RightInRange
    <3> QED BY <2>3, <3>2 DEF OtherAlarm
  <2> QED BY <2>1, <2>2, <2>3
<1>2. CASE ask \in [op : {"DSA_Verify"}, q : Unsigned, r : Answers, s : Answers]
  <2>1. ask.op = "DSA_Verify" /\ ask.q \in Nat
    BY <1>2 DEF Unsigned
  <2>2. r => ask.r \in 1 .. ask.q - 1 /\ ask.s \in 1 .. ask.q - 1
    <3>1. CorrectOther(ask) = {FALSE, ask.r \in 1 .. ask.q - 1 /\ ask.s \in 1 .. ask.q - 1}
      BY <2>1 DEF CorrectOther
    <3> QED BY ONLY <1>0, <3>1, Zenon
  <2>3. r => InDSARange(ask.r, ask.q) /\ InDSARange(ask.s, ask.q)
    BY <2>1, <2>2, RightInRange
  <2>4. OtherAlarm(ask, r) = (r /\ ~(InDSARange(ask.r, ask.q) /\ InDSARange(ask.s, ask.q)))
    BY <2>1 DEF OtherAlarm
  <2> QED BY ONLY <2>3, <2>4, Zenon
<1>3. CASE ask.op = "DSA_GenerateParameters"
  <2>1. r \in {t \in Answers \X Answers \X Answers :
                 /\ IsPrimeNumber(t[1]) /\ IsPrimeNumber(t[2])
                 /\ 3 < t[2] /\ Divides(t[2], t[1] - 1)
                 /\ t[3] \in 2 .. t[1] - 1}
    BY <1>0, <1>3 DEF CorrectOther
  <2>2. r[1] \in Answers /\ r[2] \in Answers /\ r[3] \in Answers
    BY <2>1
  <2>3. r[1] \in Int /\ r[2] \in Int /\ r[3] \in Int
    BY <2>2, ResultTestsAssumption
  <2>4. IsPrimeNumber(r[1]) /\ IsPrimeNumber(r[2]) /\ 3 < r[2] /\ Divides(r[2], r[1] - 1) /\ r[3] \in 2 .. r[1] - 1
    BY <2>1
  <2>5. ~ParametersAlarm(r[1], r[2], r[3])
    BY <2>3, <2>4, RightParameters
  <2> QED BY <1>3, <2>5 DEF OtherAlarm
<1>4. CASE ask \in [op : {"ECDSA_Sign", "Schnorr_Sign"}, curve : Curves, specified : BOOLEAN, nonce : {0, 1}]
  <2>1. ask.op \in {"ECDSA_Sign", "Schnorr_Sign"} /\ ask.curve \in Curves
    BY <1>4
  <2>2. ~ZeroNonce(ask) /\ r \in Pairs /\ ValidSignature(ask, r[1], r[2])
    <3>1. r \in IF ZeroNonce(ask) THEN {} ELSE {p \in Pairs : ValidSignature(ask, p[1], p[2])}
      BY <1>0, <2>1 DEF CorrectOther
    <3> QED BY ONLY <3>1
  <2>3. r[1] \in Int /\ r[2] \in Int
    BY <2>2, ResultTestsAssumption DEF Pairs
  <2>4. ~SignatureAlarm(ask, r[1], r[2])
    BY <2>1, <2>2, <2>3, RightSignature
  <2> QED BY <2>1, <2>2, <2>4 DEF OtherAlarm
<1>5. CASE ask \in [op : {"ECDSA_Verify", "Schnorr_Verify"}, curve : Curves, r : Unsigned, s : Unsigned]
  <2>1. ask.op \in {"ECDSA_Verify", "Schnorr_Verify"} /\ ask.curve \in Curves /\ ask.r \in Int /\ ask.s \in Int
    BY <1>5 DEF Unsigned
  <2>2. r => ValidSignature(ask, ask.r, ask.s)
    <3>1. CorrectOther(ask) = {FALSE, ValidSignature(ask, ask.r, ask.s)}
      BY <2>1 DEF CorrectOther
    <3> QED BY ONLY <1>0, <3>1, Zenon
  <2>3. ValidSignature(ask, ask.r, ask.s) => ~SignatureAlarm(ask, ask.r, ask.s)
    BY <2>1, RightSignature
  <2>4. OtherAlarm(ask, r) = (r /\ SignatureAlarm(ask, ask.r, ask.s))
    BY <2>1 DEF OtherAlarm
  <2> QED BY ONLY <2>2, <2>3, <2>4, Zenon
<1>6. CASE ask \in [op : {"ECDSA_Recover"}, curve : Curves, r : Unsigned, s : Unsigned, id : 0 .. 4]
  <2>1. ask.op = "ECDSA_Recover" /\ ask.curve \in Curves /\ ask.r \in Int /\ ask.s \in Int /\ ask.id \in 0 .. 4
    BY <1>6 DEF Unsigned
  <2>2. ask.id <= 3 /\ ValidSignature(ask, ask.r, ask.s)
    <3>1. r \in IF ask.id <= 3 /\ ValidSignature(ask, ask.r, ask.s) THEN {"point"} ELSE {}
      BY <1>0, <2>1 DEF CorrectOther
    <3> QED BY ONLY <3>1
  <2>3. ~SignatureAlarm(ask, ask.r, ask.s)
    BY <2>1, <2>2, RightSignature
  <2>4. ~ECDSAAlarm(ask.curve, ask.r, ask.s) /\ ~(ask.id > 3)
    BY <2>1, <2>2, <2>3 DEF SignatureAlarm
  <2> QED BY <2>1, <2>4 DEF OtherAlarm
<1>7. CASE ask \in [op : {"ECC_Point_Sub"}, p : Points, q : Points]
  <2>1. ask.op = "ECC_Point_Sub"
    BY <1>7
  <2>2. r = IF ask.p[2] = ask.q[2] THEN "infinity" ELSE "point"
    BY <1>0, <2>1 DEF CorrectOther
  <2>3. ask.p = ask.q => r = "infinity"
    BY <2>2
  <2> QED BY <2>1, <2>3 DEF OtherAlarm
<1> QED BY <1>1, <1>2, <1>3, <1>4, <1>5, <1>6, <1>7, OthersAsked

-----------------------------------------------------------------------------
(* The verdict.                                                            *)

Asking == OtherQuestions \cup UNION {Questions(op) : op \in Calculations}

(* A question was asked of this program, it got a result of its kind, and  *)
(* the verdict is what the test said of them.                              *)
VerdictInv ==
  \/ call = Idle /\ verdict = "none"
  \/ /\ call # Idle /\ call \in Asking
     /\ result \in Candidates(call) \cup {NoResult}
     /\ verdict \in {"none", "accepted", "aborted"}
     /\ verdict = "aborted" => Alarm(call, result)
     /\ verdict = "accepted" => ~Alarm(call, result)

(* No right result alarms.                                                 *)
LEMMA RightResultsPass ==
  ASSUME NEW ask \in Asking, NEW r \in Correct(ask)
  PROVE  ~Alarm(ask, r)
<1>1. CASE ask \in OtherQuestions
  BY <1>1, RightOther, OthersApart DEF Alarm
<1>2. ASSUME NEW op \in Calculations, ask \in Questions(op) PROVE ~Alarm(ask, r)
  <2>1. ask.op = op
    BY <1>2, CalculationsAsked
  <2>2. ~Skips(ask) => ~CalcAlarm(ask, r)
    BY <1>2, RightCalculation
  <2> QED BY <2>1, <2>2 DEF Alarm
<1> QED BY <1>1, <1>2 DEF Asking

(* For any operands, in any base that serves, a run is always between      *)
(* questions or at one, with the verdict that the test gave.               *)
THEOREM VerdictsGiven == Spec => []VerdictInv
<1>1. Init => VerdictInv
  BY DEF Init, VerdictInv
<1>2. VerdictInv /\ [Next]_vars => VerdictInv'
  <2> SUFFICES ASSUME VerdictInv, [Next]_vars PROVE VerdictInv'
    OBVIOUS
  <2>1. ASSUME NEW questions, Execute(questions), questions \subseteq Asking PROVE VerdictInv'
    <3>1. verdict = "none" /\ verdict' = "none"
      BY <2>1 DEF Execute, VerdictInv
    <3>2. PICK ask \in questions : call' = ask /\ result' \in Candidates(ask) \cup {NoResult}
      BY <2>1 DEF Execute
    <3>3. ask \in Asking
      BY <2>1
    <3> QED BY ONLY <3>1, <3>2, <3>3 DEF VerdictInv
  <2>2. ASSUME NEW op \in Calculations, Execute(Questions(op)) PROVE VerdictInv'
    <3>1. Questions(op) \subseteq Asking
      BY DEF Asking
    <3> QED BY <2>1, <2>2, <3>1
  <2>3. CASE Execute(OtherQuestions)
    <3>1. OtherQuestions \subseteq Asking
      BY DEF Asking
    <3> QED BY <2>1, <2>3, <3>1
  <2>4. CASE Test
    <3>1. call # Idle /\ call' = call /\ result' = result
          /\ verdict' = IF Alarm(call, result) THEN "aborted" ELSE "accepted"
      BY <2>4 DEF Test
    <3>2. call \in Asking /\ result \in Candidates(call) \cup {NoResult}
      BY <3>1 DEF VerdictInv
    <3> QED BY ONLY <3>1, <3>2 DEF VerdictInv
  <2>5. CASE NextCall
    BY <2>5 DEF NextCall, VerdictInv
  <2>6. CASE UNCHANGED vars
    BY <2>6 DEF vars, VerdictInv
  <2> QED BY <2>2, <2>3, <2>4, <2>5, <2>6 DEF Next
<1> QED BY <1>1, <1>2, PTL DEF Spec

LEMMA VerdictsAreJustified == VerdictInv => VerdictsJustified
<1> SUFFICES ASSUME VerdictInv PROVE NoFalseAlarm /\ WithinADigit
  BY DEF VerdictsJustified
<1>1. NoFalseAlarm
  <2> SUFFICES ASSUME verdict = "aborted" PROVE result # NoResult /\ result \notin Correct(call)
    BY DEF NoFalseAlarm
  <2>1. call \in Asking /\ Alarm(call, result)
    BY DEF VerdictInv
  <2>2. result \notin Correct(call)
    BY <2>1, RightResultsPass
  <2> QED BY <2>1, <2>2 DEF Alarm
<1>2. WithinADigit
  <2> SUFFICES ASSUME verdict = "accepted", result # NoResult PROVE WithinADigit
    BY DEF WithinADigit
  <2>1. call \in Asking /\ result \in Candidates(call) /\ ~Alarm(call, result)
    BY DEF VerdictInv
  <2>2. ASSUME NEW op \in Calculations, call \in Questions(op) PROVE WithinADigit
    <3>1. call.op = op
      BY <2>2, CalculationsAsked
    <3>2. result \in Answers \cup Correct(call)
      <4>1. call.op \notin {"DSA_Sign", "ECDSA_Sign", "Schnorr_Sign", "DSA_GenerateParameters", "DSA_Verify",
                            "ECDSA_Verify", "Schnorr_Verify", "ECDSA_Recover", "ECC_Point_Sub"}
        BY <3>1 DEF Calculations, NoOperands, OneOperand, ThreeOperands, Modular, ModuloB, ModuloC,
             Predicates, Comparisons, AtLeastA, AtLeastB, AtLeastAOrB, AtMostA, AtMostB, AtMostAOrB
      <4>2. call.op \in Calculations \cup {"DSA_GenerateKeyPair"}
        BY <3>1
      <4>3. Candidates(call) = Answers \cup Correct(call)
        BY ONLY <4>1, <4>2 DEF Candidates
      <4> QED BY ONLY <2>1, <4>3
    <3>3. ~Skips(call) => ~CalcAlarm(call, result)
      BY <2>1, <3>1 DEF Alarm
    <3>4. ~Skips(call) /\ result >= 0 => CalculationWithin(call, result)
      BY <2>2, <3>2, <3>3, PassedWithin
    <3> QED BY <3>1, <3>4 DEF WithinADigit, CalculationWithin
  <2>3. CASE call \in OtherQuestions
    <3>1. call.op \notin Calculations /\ ~OtherAlarm(call, result)
      BY <2>1, <2>3, OthersApart DEF Alarm
    <3>2. call.op = "DSA_Sign" => UpTo(result[1], call.q) /\ UpTo(result[2], call.q)
      <4> SUFFICES ASSUME call.op = "DSA_Sign" PROVE UpTo(result[1], call.q) /\ UpTo(result[2], call.q)
        OBVIOUS
      <4>1. call.q \in Nat
        BY <2>3, OthersAsked DEF Unsigned
      <4>2. result \in Pairs
        BY <2>1, <3>1 DEF Candidates
      <4>3. result[1] \in Int /\ result[2] \in Int
        BY <4>2, ResultTestsAssumption DEF Pairs
      <4>4. InDSARange(result[1], call.q) /\ InDSARange(result[2], call.q)
        BY <3>1 DEF OtherAlarm
      <4> QED BY <4>1, <4>3, <4>4, InRangeWithin
    <3>3. call.op = "DSA_Verify" /\ result => UpTo(call.r, call.q) /\ UpTo(call.s, call.q)
      <4> SUFFICES ASSUME call.op = "DSA_Verify", result PROVE UpTo(call.r, call.q) /\ UpTo(call.s, call.q)
        OBVIOUS
      <4>1. call \in [op : {"DSA_Verify"}, q : Unsigned, r : Answers, s : Answers]
        BY <2>3, OthersAsked
      <4>2. call.q \in Nat /\ call.r \in Int /\ call.s \in Int
        BY <4>1, ResultTestsAssumption DEF Unsigned
      <4>3. OtherAlarm(call, result) = (result /\ ~(InDSARange(call.r, call.q) /\ InDSARange(call.s, call.q)))
        BY DEF OtherAlarm
      <4>4. InDSARange(call.r, call.q) /\ InDSARange(call.s, call.q)
        BY ONLY <3>1, <4>3, result, Zenon
      <4> QED BY <4>2, <4>4, InRangeWithin
    <3> QED BY <3>1, <3>2, <3>3 DEF WithinADigit
  <2> QED BY <2>1, <2>2, <2>3 DEF Asking
<1> QED BY <1>1, <1>2

(* The fuzzer never stops for a right result, and what it lets through     *)
(* keeps its bounds up to a digit, whatever the numbers (tests.cpp).       *)
THEOREM VerdictsStayJustified == Spec => []VerdictsJustified
BY VerdictsGiven, VerdictsAreJustified, PTL
=============================================================================
