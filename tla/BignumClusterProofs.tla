------------------------- MODULE BignumClusterProofs -------------------------
(***************************************************************************)
(* A calculation gives the right result however the modifier chooses the   *)
(* bignums that stand for its numbers, and in whatever order the arguments *)
(* of a call are evaluated. One call of every program decides: it computes *)
(* what the operation means from the numbers it is expected to find, what  *)
(* comes before it tests them, copies the first into the result or doubles *)
(* it, and what comes after it takes the result to where it is returned    *)
(* from. That is shown once of each program, from the form of its calls    *)
(* (Sound); the invariants then follow a call under way, whatever the      *)
(* program is.  Of a handler, each object is followed by itself: it is     *)
(* always at a place of its course (HandlerCourses).                       *)
(***************************************************************************)
EXTENDS MCCalculations, SequenceTheorems, TLAPS

-----------------------------------------------------------------------------
(* What a call reads lies side by side among its arguments.                *)

Interval(c) == Reads(c) = {} \/ \E a, b \in 1 .. 4 : a <= b /\ Reads(c) = a .. b

LEMMA FirstIs ==
  ASSUME NEW c, NEW a \in Nat, NEW b \in Nat, a <= b, Reads(c) = a .. b
  PROVE  FirstRead(c) = a
<1> DEFINE R == Reads(c)
<1>1. a \in R /\ \A j \in R : a <= j
  OBVIOUS
<1>2. \A k \in R : (\A j \in R : k <= j) => k = a
  OBVIOUS
<1> HIDE DEF R
<1>3. FirstRead(c) = CHOOSE k \in R : \A j \in R : k <= j
  BY DEF FirstRead, R
<1> QED
  BY <1>1, <1>2, <1>3

LEMMA NumbersAre ==
  ASSUME NEW c, NEW at, NEW numbers, NEW a \in Nat, NEW b \in Nat, a <= b, Reads(c) = a .. b,
         NEW n \in Nat, n = b - a + 1
  PROVE  NumbersRead(c, at, numbers) = [i \in 1 .. n |-> numbers[at[a + i - 1]]]
<1>1. FirstRead(c) = a
  BY FirstIs
<1>2. {k - a + 1 : k \in Reads(c)} = 1 .. n
  <2>1. ASSUME NEW i \in 1 .. n
        PROVE  \E k \in Reads(c) : i = k - a + 1
    <3>1. i + a - 1 \in Reads(c) /\ i = (i + a - 1) - a + 1
      OBVIOUS
    <3> QED
      BY <3>1
  <2>2. ASSUME NEW k \in Reads(c) PROVE k - a + 1 \in 1 .. n
    OBVIOUS
  <2> QED
    BY ONLY ZenonT(30), <2>1, <2>2
<1> QED
  BY <1>1, <1>2 DEF NumbersRead

LEMMA OneRead ==
  ASSUME NEW c, NEW at, NEW t, NEW a \in 1 .. 4, Reads(c) = {a}
  PROVE  NumbersRead(c, at, t) = <<t[at[a]]>>
<1> DEFINE b == a
           n == 1
<1>1. Reads(c) = a .. b /\ a \in Nat /\ b \in Nat /\ a <= b /\ n = b - a + 1 /\ n \in Nat
  OBVIOUS
<1> HIDE DEF b, n
<1>2. NumbersRead(c, at, t) = [i \in 1 .. n |-> t[at[a + i - 1]]]
  BY ONLY <1>1, NumbersAre
<1>3. a + 1 - 1 = a
  OBVIOUS
<1> QED
  BY <1>2, <1>3 DEF n

LEMMA TwoRead ==
  ASSUME NEW c, NEW at, NEW t, NEW a \in 1 .. 4, Reads(c) = {a, a + 1}
  PROVE  NumbersRead(c, at, t) = <<t[at[a]], t[at[a + 1]]>>
<1> DEFINE b == a + 1
           n == 2
<1>1. Reads(c) = a .. b /\ a \in Nat /\ b \in Nat /\ a <= b /\ n = b - a + 1 /\ n \in Nat
  OBVIOUS
<1> HIDE DEF b, n
<1>2. NumbersRead(c, at, t) = [i \in 1 .. n |-> t[at[a + i - 1]]]
  BY ONLY <1>1, NumbersAre
<1>3. a + 1 - 1 = a /\ a + 2 - 1 = a + 1
  OBVIOUS
<1> QED
  BY <1>2, <1>3 DEF n

LEMMA ThreeRead ==
  ASSUME NEW c, NEW at, NEW t, NEW a \in 1 .. 4, Reads(c) = {a, a + 1, a + 2}
  PROVE  NumbersRead(c, at, t) = <<t[at[a]], t[at[a + 1]], t[at[a + 2]]>>
<1> DEFINE b == a + 2
           n == 3
<1>1. Reads(c) = a .. b /\ a \in Nat /\ b \in Nat /\ a <= b /\ n = b - a + 1 /\ n \in Nat
  OBVIOUS
<1> HIDE DEF b, n
<1>2. NumbersRead(c, at, t) = [i \in 1 .. n |-> t[at[a + i - 1]]]
  BY ONLY <1>1, NumbersAre
<1>3. a + 1 - 1 = a /\ a + 2 - 1 = a + 1 /\ a + 3 - 1 = a + 2
  OBVIOUS
<1> QED
  BY <1>2, <1>3 DEF n

(* Reading the same numbers elsewhere.                                     *)
LEMMA ReadsSame ==
  ASSUME NEW c, Interval(c), NEW at, NEW t, NEW at2, NEW u,
         \A k \in Reads(c) : t[at[k]] = u[at2[k]]
  PROVE  NumbersRead(c, at, t) = NumbersRead(c, at2, u)
<1>1. CASE Reads(c) = {}
  BY <1>1 DEF NumbersRead
<1>2. CASE \E a, b \in 1 .. 4 : a <= b /\ Reads(c) = a .. b
  <2>1. PICK a \in 1 .. 4, b \in 1 .. 4 : a <= b /\ Reads(c) = a .. b
    BY <1>2
  <2> DEFINE n == b - a + 1
  <2>2. a \in Nat /\ b \in Nat /\ a <= b /\ n \in Nat /\ n = b - a + 1
    BY <2>1
  <2>3. \A i \in 1 .. n : a + i - 1 \in Reads(c)
    BY <2>1
  <2> HIDE DEF n
  <2>4. NumbersRead(c, at, t) = [i \in 1 .. n |-> t[at[a + i - 1]]]
    BY ONLY <2>1, <2>2, NumbersAre
  <2>5. NumbersRead(c, at2, u) = [i \in 1 .. n |-> u[at2[a + i - 1]]]
    BY ONLY <2>1, <2>2, NumbersAre
  <2> QED
    BY <2>3, <2>4, <2>5
<1> QED
  BY <1>1, <1>2 DEF Interval

-----------------------------------------------------------------------------
(* Well-formed calls.                                                      *)

Ways == {"[]", "bare", "GetDestPtr", "optional", "GetResPtr", "res"}

(* What every call of a program has: at most four arguments, the ones it   *)
(* reads side by side; of OpenSSL's no two, the result left out, for the   *)
(* same number, and none that may be missing.                              *)
GoodArgs(lib, c) ==
  /\ c.args \in Seq([by : Ways, index : 0 .. 4])
  /\ Len(c.args) <= 4
  /\ Interval(c)
  /\ \A k \in DOMAIN c.args :
       /\ c.args[k].by \in {"[]", "bare"} => c.args[k].index \in Slots
       /\ c.args[k].by = "GetDestPtr" => c.args[k].index = 0
       /\ c.args[k].by = "optional" => c.args[k].index = 3 /\ lib # "openssl"
       /\ c.args[k].by = "res" => c.args[k].index = Out
  /\ lib = "openssl" =>
       \A j, k \in DOMAIN c.args :
         j # k /\ c.args[j].by # "GetResPtr" /\ c.args[k].by # "GetResPtr"
           => c.args[j].index # c.args[k].index

(* The shapes of the calls, and the numbers that each reads.               *)
LEMMA ReadsNothing ==
  ASSUME NEW c, NEW lib, c.args = <<>>
  PROVE  /\ GoodArgs(lib, c)
<1>1. Reads(c) = {}
  BY DEF Reads, Src, Bare, Dest, Opt, Res, Result, Out
<1> QED
  BY <1>1 DEF GoodArgs, Interval, Ways, Slots, Src, Bare, Dest, Opt, Res, Result, Out

LEMMA ReadsBare ==
  ASSUME NEW c, NEW lib, c.args = <<Bare(1)>>, c.fn # "set_bit"
  PROVE  /\ GoodArgs(lib, c)
         /\ \A at, t : NumbersRead(c, at, t) = <<t[at[1]]>>
<1>1. Reads(c) = {1}
  BY DEF Reads, Src, Bare, Dest, Opt, Res, Result, Out
<1>2. Interval(c)
  <2>1. 1 \in 1 .. 4 /\ 1 \in 1 .. 4 /\ 1 <= 1 /\ Reads(c) = 1 .. 1
    BY <1>1
  <2> QED
    BY <2>1 DEF Interval
<1>3. GoodArgs(lib, c)
  BY <1>2 DEF GoodArgs, Ways, Slots, Src, Bare, Dest, Opt, Res, Result, Out
<1>4. ASSUME NEW at, NEW t PROVE NumbersRead(c, at, t) = <<t[at[1]]>>
  BY <1>1, OneRead
<1> QED
  BY <1>3, <1>4

LEMMA ReadsOne ==
  ASSUME NEW c, NEW lib, NEW i \in Slots, c.args = <<Src(i)>>, c.fn # "set_bit"
  PROVE  /\ GoodArgs(lib, c)
         /\ \A at, t : NumbersRead(c, at, t) = <<t[at[1]]>>
<1>1. Reads(c) = {1}
  BY DEF Reads, Src, Bare, Dest, Opt, Res, Result, Out
<1>2. Interval(c)
  <2>1. 1 \in 1 .. 4 /\ 1 \in 1 .. 4 /\ 1 <= 1 /\ Reads(c) = 1 .. 1
    BY <1>1
  <2> QED
    BY <2>1 DEF Interval
<1>3. GoodArgs(lib, c)
  BY <1>2 DEF GoodArgs, Ways, Slots, Src, Bare, Dest, Opt, Res, Result, Out
<1>4. ASSUME NEW at, NEW t PROVE NumbersRead(c, at, t) = <<t[at[1]]>>
  BY <1>1, OneRead
<1> QED
  BY <1>3, <1>4

LEMMA ReadsTwo ==
  ASSUME NEW c, NEW lib, NEW i \in Slots, NEW j \in Slots, i # j, c.args = <<Src(i), Src(j)>>, c.fn # "set_bit"
  PROVE  /\ GoodArgs(lib, c)
         /\ \A at, t : NumbersRead(c, at, t) = <<t[at[1]], t[at[2]]>>
<1>1. Reads(c) = {1, 2}
  BY DEF Reads, Src, Bare, Dest, Opt, Res, Result, Out
<1>2. Interval(c)
  <2>1. 1 \in 1 .. 4 /\ 2 \in 1 .. 4 /\ 1 <= 2 /\ Reads(c) = 1 .. 2
    BY <1>1
  <2> QED
    BY <2>1 DEF Interval
<1>3. GoodArgs(lib, c)
  BY <1>2 DEF GoodArgs, Ways, Slots, Src, Bare, Dest, Opt, Res, Result, Out
<1>4. ASSUME NEW at, NEW t PROVE NumbersRead(c, at, t) = <<t[at[1]], t[at[2]]>>
  BY <1>1, TwoRead
<1> QED
  BY <1>3, <1>4

LEMMA ReadsInPlace ==
  ASSUME NEW c, NEW lib, c.args = <<Dest(0)>>
  PROVE  /\ GoodArgs(lib, c)
         /\ \A at, t : NumbersRead(c, at, t) = <<t[at[1]]>>
<1>1. Reads(c) = {1}
  BY DEF Reads, Src, Bare, Dest, Opt, Res, Result, Out
<1>2. Interval(c)
  <2>1. 1 \in 1 .. 4 /\ 1 \in 1 .. 4 /\ 1 <= 1 /\ Reads(c) = 1 .. 1
    BY <1>1
  <2> QED
    BY <2>1 DEF Interval
<1>3. GoodArgs(lib, c)
  BY <1>2 DEF GoodArgs, Ways, Slots, Src, Bare, Dest, Opt, Res, Result, Out
<1>4. ASSUME NEW at, NEW t PROVE NumbersRead(c, at, t) = <<t[at[1]]>>
  BY <1>1, OneRead
<1> QED
  BY <1>3, <1>4

LEMMA ReadsResult ==
  ASSUME NEW c, NEW lib, c.args = <<Result>>, c.fn = "set_bit"
  PROVE  /\ GoodArgs(lib, c)
         /\ \A at, t : NumbersRead(c, at, t) = <<t[at[1]]>>
<1>1. Reads(c) = {1}
  BY DEF Reads, Src, Bare, Dest, Opt, Res, Result, Out
<1>2. Interval(c)
  <2>1. 1 \in 1 .. 4 /\ 1 \in 1 .. 4 /\ 1 <= 1 /\ Reads(c) = 1 .. 1
    BY <1>1
  <2> QED
    BY <2>1 DEF Interval
<1>3. GoodArgs(lib, c)
  BY <1>2 DEF GoodArgs, Ways, Slots, Src, Bare, Dest, Opt, Res, Result, Out
<1>4. ASSUME NEW at, NEW t PROVE NumbersRead(c, at, t) = <<t[at[1]]>>
  BY <1>1, OneRead
<1> QED
  BY <1>3, <1>4

LEMMA IntoFromOne ==
  ASSUME NEW c, NEW lib, NEW d \in {Res, Result}, c.args = <<d, Src(0)>>, c.fn # "set_bit"
  PROVE  /\ GoodArgs(lib, c)
         /\ \A at, t : NumbersRead(c, at, t) = <<t[at[2]]>>
<1>1. Reads(c) = {2}
  BY DEF Reads, Src, Bare, Dest, Opt, Res, Result, Out
<1>2. Interval(c)
  <2>1. 2 \in 1 .. 4 /\ 2 \in 1 .. 4 /\ 2 <= 2 /\ Reads(c) = 2 .. 2
    BY <1>1
  <2> QED
    BY <2>1 DEF Interval
<1>3. GoodArgs(lib, c)
  BY <1>2 DEF GoodArgs, Ways, Slots, Src, Bare, Dest, Opt, Res, Result, Out
<1>4. ASSUME NEW at, NEW t PROVE NumbersRead(c, at, t) = <<t[at[2]]>>
  BY <1>1, OneRead
<1> QED
  BY <1>3, <1>4

LEMMA IntoFromTwo ==
  ASSUME NEW c, NEW lib, NEW d \in {Res, Result}, c.args = <<d, Src(0), Src(1)>>, c.fn # "set_bit"
  PROVE  /\ GoodArgs(lib, c)
         /\ \A at, t : NumbersRead(c, at, t) = <<t[at[2]], t[at[3]]>>
<1>1. Reads(c) = {2, 3}
  BY DEF Reads, Src, Bare, Dest, Opt, Res, Result, Out
<1>2. Interval(c)
  <2>1. 2 \in 1 .. 4 /\ 3 \in 1 .. 4 /\ 2 <= 3 /\ Reads(c) = 2 .. 3
    BY <1>1
  <2> QED
    BY <2>1 DEF Interval
<1>3. GoodArgs(lib, c)
  BY <1>2 DEF GoodArgs, Ways, Slots, Src, Bare, Dest, Opt, Res, Result, Out
<1>4. ASSUME NEW at, NEW t PROVE NumbersRead(c, at, t) = <<t[at[2]], t[at[3]]>>
  BY <1>1, TwoRead
<1> QED
  BY <1>3, <1>4

LEMMA IntoFromThree ==
  ASSUME NEW c, NEW lib, NEW d \in {Res, Result}, c.args = <<d, Src(0), Src(1), Src(2)>>, c.fn # "set_bit"
  PROVE  /\ GoodArgs(lib, c)
         /\ \A at, t : NumbersRead(c, at, t) = <<t[at[2]], t[at[3]], t[at[4]]>>
<1>1. Reads(c) = {2, 3, 4}
  BY DEF Reads, Src, Bare, Dest, Opt, Res, Result, Out
<1>2. Interval(c)
  <2>1. 2 \in 1 .. 4 /\ 4 \in 1 .. 4 /\ 2 <= 4 /\ Reads(c) = 2 .. 4
    BY <1>1
  <2> QED
    BY <2>1 DEF Interval
<1>3. GoodArgs(lib, c)
  BY <1>2 DEF GoodArgs, Ways, Slots, Src, Bare, Dest, Opt, Res, Result, Out
<1>4. ASSUME NEW at, NEW t PROVE NumbersRead(c, at, t) = <<t[at[2]], t[at[3]], t[at[4]]>>
  BY <1>1, ThreeRead
<1> QED
  BY <1>3, <1>4

LEMMA OneInto ==
  ASSUME NEW c, NEW lib, NEW d \in {Res, Result}, c.args = <<Src(0), d>>, c.fn # "set_bit"
  PROVE  /\ GoodArgs(lib, c)
         /\ \A at, t : NumbersRead(c, at, t) = <<t[at[1]]>>
<1>1. Reads(c) = {1}
  BY DEF Reads, Src, Bare, Dest, Opt, Res, Result, Out
<1>2. Interval(c)
  <2>1. 1 \in 1 .. 4 /\ 1 \in 1 .. 4 /\ 1 <= 1 /\ Reads(c) = 1 .. 1
    BY <1>1
  <2> QED
    BY <2>1 DEF Interval
<1>3. GoodArgs(lib, c)
  BY <1>2 DEF GoodArgs, Ways, Slots, Src, Bare, Dest, Opt, Res, Result, Out
<1>4. ASSUME NEW at, NEW t PROVE NumbersRead(c, at, t) = <<t[at[1]]>>
  BY <1>1, OneRead
<1> QED
  BY <1>3, <1>4

LEMMA OneIntoItself ==
  ASSUME NEW c, NEW lib, lib # "openssl", c.args = <<Src(0), Dest(0)>>, c.fn # "set_bit"
  PROVE  /\ GoodArgs(lib, c)
         /\ \A at, t : NumbersRead(c, at, t) = <<t[at[1]], t[at[2]]>>
<1>1. Reads(c) = {1, 2}
  BY DEF Reads, Src, Bare, Dest, Opt, Res, Result, Out
<1>2. Interval(c)
  <2>1. 1 \in 1 .. 4 /\ 2 \in 1 .. 4 /\ 1 <= 2 /\ Reads(c) = 1 .. 2
    BY <1>1
  <2> QED
    BY <2>1 DEF Interval
<1>3. GoodArgs(lib, c)
  BY <1>2 DEF GoodArgs, Ways, Slots, Src, Bare, Dest, Opt, Res, Result, Out
<1>4. ASSUME NEW at, NEW t PROVE NumbersRead(c, at, t) = <<t[at[1]], t[at[2]]>>
  BY <1>1, TwoRead
<1> QED
  BY <1>3, <1>4

LEMMA TwoInto ==
  ASSUME NEW c, NEW lib, c.args = <<Src(0), Src(1), Res>>, c.fn # "set_bit"
  PROVE  /\ GoodArgs(lib, c)
         /\ \A at, t : NumbersRead(c, at, t) = <<t[at[1]], t[at[2]]>>
<1>1. Reads(c) = {1, 2}
  BY DEF Reads, Src, Bare, Dest, Opt, Res, Result, Out
<1>2. Interval(c)
  <2>1. 1 \in 1 .. 4 /\ 2 \in 1 .. 4 /\ 1 <= 2 /\ Reads(c) = 1 .. 2
    BY <1>1
  <2> QED
    BY <2>1 DEF Interval
<1>3. GoodArgs(lib, c)
  BY <1>2 DEF GoodArgs, Ways, Slots, Src, Bare, Dest, Opt, Res, Result, Out
<1>4. ASSUME NEW at, NEW t PROVE NumbersRead(c, at, t) = <<t[at[1]], t[at[2]]>>
  BY <1>1, TwoRead
<1> QED
  BY <1>3, <1>4

LEMMA ThreeInto ==
  ASSUME NEW c, NEW lib, c.args = <<Src(0), Src(1), Src(2), Res>>, c.fn # "set_bit"
  PROVE  /\ GoodArgs(lib, c)
         /\ \A at, t : NumbersRead(c, at, t) = <<t[at[1]], t[at[2]], t[at[3]]>>
<1>1. Reads(c) = {1, 2, 3}
  BY DEF Reads, Src, Bare, Dest, Opt, Res, Result, Out
<1>2. Interval(c)
  <2>1. 1 \in 1 .. 4 /\ 3 \in 1 .. 4 /\ 1 <= 3 /\ Reads(c) = 1 .. 3
    BY <1>1
  <2> QED
    BY <2>1 DEF Interval
<1>3. GoodArgs(lib, c)
  BY <1>2 DEF GoodArgs, Ways, Slots, Src, Bare, Dest, Opt, Res, Result, Out
<1>4. ASSUME NEW at, NEW t PROVE NumbersRead(c, at, t) = <<t[at[1]], t[at[2]], t[at[3]]>>
  BY <1>1, ThreeRead
<1> QED
  BY <1>3, <1>4

LEMMA ShiftInto ==
  ASSUME NEW c, NEW lib, lib # "openssl", c.args = <<Src(0), Result, Opt(3)>>, c.fn # "set_bit"
  PROVE  /\ GoodArgs(lib, c)
         /\ \A at, t : NumbersRead(c, at, t) = <<t[at[1]]>>
<1>1. Reads(c) = {1}
  BY DEF Reads, Src, Bare, Dest, Opt, Res, Result, Out
<1>2. Interval(c)
  <2>1. 1 \in 1 .. 4 /\ 1 \in 1 .. 4 /\ 1 <= 1 /\ Reads(c) = 1 .. 1
    BY <1>1
  <2> QED
    BY <2>1 DEF Interval
<1>3. GoodArgs(lib, c)
  BY <1>2 DEF GoodArgs, Ways, Slots, Src, Bare, Dest, Opt, Res, Result, Out
<1>4. ASSUME NEW at, NEW t PROVE NumbersRead(c, at, t) = <<t[at[1]]>>
  BY <1>1, OneRead
<1> QED
  BY <1>3, <1>4

LEMMA IntoQuotient ==
  ASSUME NEW c, NEW lib, lib # "openssl", c.args = <<Res, Opt(3), Src(0), Src(1)>>, c.fn # "set_bit"
  PROVE  /\ GoodArgs(lib, c)
         /\ \A at, t : NumbersRead(c, at, t) = <<t[at[3]], t[at[4]]>>
<1>1. Reads(c) = {3, 4}
  BY DEF Reads, Src, Bare, Dest, Opt, Res, Result, Out
<1>2. Interval(c)
  <2>1. 3 \in 1 .. 4 /\ 4 \in 1 .. 4 /\ 3 <= 4 /\ Reads(c) = 3 .. 4
    BY <1>1
  <2> QED
    BY <2>1 DEF Interval
<1>3. GoodArgs(lib, c)
  BY <1>2 DEF GoodArgs, Ways, Slots, Src, Bare, Dest, Opt, Res, Result, Out
<1>4. ASSUME NEW at, NEW t PROVE NumbersRead(c, at, t) = <<t[at[3]], t[at[4]]>>
  BY <1>1, TwoRead
<1> QED
  BY <1>3, <1>4

-----------------------------------------------------------------------------
(* Sound programs.  One call decides: it computes what the operation means *)
(* from the numbers it is expected to find.  What comes before it tests    *)
(* them, copies the first into the result, or doubles the first; what      *)
(* comes after it takes the result where it is, and tests.                 *)

(* Where a call's own numbers are, and where it puts what it computes.      *)
Indices(c) == [k \in DOMAIN c.args |-> c.args[k].index]

Placed(c) == c.into # 0 /\ c.args[c.into].by = "GetResPtr"
Direct(c) == c.into # 0 /\ c.args[c.into].by = "res"
InPlace(c) == c.into # 0 /\ c.args[c.into].by = "GetDestPtr"
NoRes(c) == \A k \in DOMAIN c.args : c.args[k].by # "GetResPtr"

GoodCall(lib, c) ==
  /\ GoodArgs(lib, c)
  /\ c.fn = "set_bit" => \A k \in DOMAIN c.args : c.args[k].by \in {"GetDestPtr", "res"}
  /\ c.into \in 0 .. Len(c.args)
  /\ c.into = 0 => \A k \in DOMAIN c.args : c.args[k].by \in {"[]", "bare"}
  /\ c.into # 0 => /\ Placed(c) \/ Direct(c) \/ InPlace(c)
                   /\ c.fn \notin {"word", "CopyResult"}
  /\ c.fn = "word" => c.args = <<Bare(1)>>
  /\ c.fn = "exch" => Placed(c)
  /\ c.fn \in {"copy", "double"} =>
       c.into # 0 /\ \A k \in DOMAIN c.args : c.args[k].by # "optional"

IsTest(c) == c.into = 0 /\ c.fn # "CopyResult"

IsCopy(c) ==
  Direct(c) /\ c.fn = "copy" /\ \A t : NumbersRead(c, Indices(c), t) = <<t[0]>>

IsDoubling(c) ==
  InPlace(c) /\ c.fn = "double" /\ \A t : NumbersRead(c, Indices(c), t)[1] = t[0]

(* What a test that was passed says.                                       *)
Holds(fn, x) ==
  /\ fn = "nonnegative" => ~(x[1] < 0)
  /\ fn = "negative" => ~(x[1] >= 0)
  /\ fn = "less" => ~(x[1] >= x[2])

(* Functions that do not fail.                                             *)
Sure ==
  {"add", "add_word", "sub", "sub_word", "mul", "mul_word", "sqr", "gcd", "cmp", "neg",
   "rshift", "lshift1", "set_bit"}

(* What it reads, x, gives the operation's result of the numbers s; and a  *)
(* failure that is asserted not to happen does not, or is excused.         *)
ComputesRight(of, c, x, s, w) ==
  /\ \/ c.fn = "inverse" /\ (x[2] = 0 \/ Inverses(x[1], x[2]) = {})
     \/ Computes(c.fn, x, w) = Meant(of, s)
  /\ c.fn = "inverse" => of = "inverse" /\ x[1] = s[0] /\ x[2] = s[1]
  /\ c.failing = "aborted" => c.fn \in Sure \/ (c.fn \in {"add_mod", "sub_mod"} /\ x[3] # 0)
  /\ c.failing = "excused" =>
       \/ c.fn \in {"mod", "div", "sqr_mod"} /\ Len(x) = 2
       \/ c.fn \in {"add_mod", "sub_mod", "mul_mod", "exp_mod"} /\ Len(x) = 3
  /\ c.failing = "zero" => c.fn = "inverse"

Doubled(p, n) == \E m \in 1 .. n - 1 : p.steps[m].fn = "double"

(* The numbers a program finds at its n-th call, if it was not refused     *)
(* before.                                                                 *)
Expected(p, n, s) == [i \in Slots |-> IF i = 0 /\ Doubled(p, n) THEN 2 * s[0] ELSE s[i]]

Passed(p, m, s) ==
  LET c == p.steps[m]
  IN  IsTest(c) => Holds(c.fn, NumbersRead(c, Indices(c), Expected(p, m, s)))

(* What is known by then of the bignums t and the word w.                  *)
Known(p, n, s, t, w) ==
  /\ \A i \in Slots : t[i] = Expected(p, n, s)[i]
  /\ n > 1 /\ p.steps[n - 1].fn = "copy" => t[Out] = s[0]
  /\ n > 1 /\ p.steps[1].fn = "word" => w = s[1]
  /\ \A m \in 1 .. n - 1 : Passed(p, m, s)

Right(p, n) ==
  \A s \in [Slots -> Int] : \A t, w :
    Known(p, n, s, t, w) =>
      ComputesRight(p.of, p.steps[n], NumbersRead(p.steps[n], Indices(p.steps[n]), t), s, w)

GoodProgram(p) ==
  /\ DOMAIN p.steps = 1 .. Len(p.steps) /\ Len(p.steps) \in Nat
  /\ \A m \in DOMAIN p.steps :
       /\ GoodCall(p.lib, p.steps[m])
       /\ p.steps[m].fn = "word" => m = 1

(* The n-th call decides.                                                  *)
Decisive(p, n) ==
  /\ n \in DOMAIN p.steps
  /\ \A m \in 1 .. n - 1 :
       \/ IsTest(p.steps[m])
       \/ (IsCopy(p.steps[m]) \/ IsDoubling(p.steps[m])) /\ ~Doubled(p, m)
  /\ \/ /\ Direct(p.steps[n])
        /\ \A m \in n + 1 .. Len(p.steps) : IsTest(p.steps[m])
     \/ /\ Placed(p.steps[n])
        /\ n + 1 \in DOMAIN p.steps /\ p.steps[n + 1] = Copied
        /\ \A m \in n + 2 .. Len(p.steps) : IsTest(p.steps[m])
     \/ /\ InPlace(p.steps[n])
        /\ n + 1 \in DOMAIN p.steps /\ IsCopy(p.steps[n + 1])
        /\ \A m \in n + 2 .. Len(p.steps) : IsTest(p.steps[m])
  /\ Placed(p.steps[n]) \/ NoRes(p.steps[n])
  /\ \A k \in DOMAIN p.steps[n].args : p.steps[n].args[k].by = "GetResPtr" => k = p.steps[n].into
  /\ \A m \in DOMAIN p.steps \ {n} : NoRes(p.steps[m]) /\ p.steps[m].failing = "none"
  /\ Right(p, n)

Sound(p) == GoodProgram(p) /\ \E n \in 1 .. 6 : Decisive(p, n)

-----------------------------------------------------------------------------
(* Calls that do not decide.                                               *)

Harmless(lib, c) == GoodCall(lib, c) /\ NoRes(c) /\ c.failing = "none"

LEMMA SignTests ==
  ASSUME NEW lib, NEW i \in Slots
  PROVE  /\ Harmless(lib, Nonnegative(i)) /\ IsTest(Nonnegative(i)) /\ Nonnegative(i).fn = "nonnegative"
         /\ \A t : NumbersRead(Nonnegative(i), Indices(Nonnegative(i)), t) = <<t[i]>>
         /\ Harmless(lib, Negative(i)) /\ IsTest(Negative(i)) /\ Negative(i).fn = "negative"
         /\ \A t : NumbersRead(Negative(i), Indices(Negative(i)), t) = <<t[i]>>
<1>1. ASSUME NEW c, c.args = <<Src(i)>>, c.fn \in {"nonnegative", "negative"}, c.into = 0, c.failing = "none"
      PROVE  Harmless(lib, c) /\ IsTest(c) /\ \A t : NumbersRead(c, Indices(c), t) = <<t[i]>>
  <2>1. GoodArgs(lib, c) /\ \A at, t : NumbersRead(c, at, t) = <<t[at[1]]>>
    BY <1>1, ReadsOne
  <2>2. Indices(c)[1] = i
    BY <1>1 DEF Indices, Src
  <2> QED
    BY <1>1, <2>1, <2>2 DEF Harmless, GoodCall, IsTest, NoRes, Src
<1> DEFINE c == Nonnegative(i)
           d == Negative(i)
<1>2. c.args = <<Src(i)>> /\ c.fn = "nonnegative" /\ c.into = 0 /\ c.failing = "none"
  BY DEF Nonnegative, Tested, Call
<1>3. d.args = <<Src(i)>> /\ d.fn = "negative" /\ d.into = 0 /\ d.failing = "none"
  BY DEF Negative, Tested, Call
<1> HIDE DEF c, d
<1>4. Harmless(lib, c) /\ IsTest(c) /\ \A t : NumbersRead(c, Indices(c), t) = <<t[i]>>
  BY <1>1, <1>2
<1>5. Harmless(lib, d) /\ IsTest(d) /\ \A t : NumbersRead(d, Indices(d), t) = <<t[i]>>
  BY <1>1, <1>3
<1> QED
  BY <1>2, <1>3, <1>4, <1>5 DEF c, d

LEMMA LessTests ==
  ASSUME NEW lib, NEW i \in Slots, NEW j \in Slots, i # j
  PROVE  /\ Harmless(lib, Less(i, j)) /\ IsTest(Less(i, j)) /\ Less(i, j).fn = "less"
         /\ \A t : NumbersRead(Less(i, j), Indices(Less(i, j)), t) = <<t[i], t[j]>>
<1> DEFINE c == Less(i, j)
<1>1. c.args = <<Src(i), Src(j)>> /\ c.fn = "less" /\ c.into = 0 /\ c.failing = "none"
  BY DEF Less, Tested, Call
<1> HIDE DEF c
<1>2. GoodArgs(lib, c) /\ \A at, t : NumbersRead(c, at, t) = <<t[at[1]], t[at[2]]>>
  BY <1>1, ReadsTwo
<1>3. Indices(c)[1] = i /\ Indices(c)[2] = j
  BY <1>1 DEF Indices, Src
<1>4. Harmless(lib, c) /\ IsTest(c)
  BY <1>1, <1>2 DEF Harmless, GoodCall, IsTest, NoRes, Src
<1> QED
  BY <1>1, <1>2, <1>3, <1>4 DEF c

(* The tests of the programs.                                              *)
TestsOne(c, fn, i) ==
  IsTest(c) /\ c.fn = fn /\ \A t : NumbersRead(c, Indices(c), t) = <<t[i]>>

TestsTwo(c, fn, i, j) ==
  IsTest(c) /\ c.fn = fn /\ \A t : NumbersRead(c, Indices(c), t) = <<t[i], t[j]>>

LEMMA TestsTest ==
  ASSUME NEW lib
  PROVE  /\ Harmless(lib, Nonnegative(0)) /\ TestsOne(Nonnegative(0), "nonnegative", 0)
         /\ Harmless(lib, Nonnegative(1)) /\ TestsOne(Nonnegative(1), "nonnegative", 1)
         /\ Harmless(lib, Nonnegative(2)) /\ TestsOne(Nonnegative(2), "nonnegative", 2)
         /\ Harmless(lib, Negative(0)) /\ TestsOne(Negative(0), "negative", 0)
         /\ Harmless(lib, Less(0, 1)) /\ TestsTwo(Less(0, 1), "less", 0, 1)
         /\ Harmless(lib, Less(0, 2)) /\ TestsTwo(Less(0, 2), "less", 0, 2)
         /\ Harmless(lib, Less(1, 2)) /\ TestsTwo(Less(1, 2), "less", 1, 2)
<1> DEFINE a == 0
           b == 1
           c == 2
<1>1. a \in Slots /\ b \in Slots /\ c \in Slots /\ a # b /\ a # c /\ b # c
  BY DEF Slots
<1> HIDE DEF a, b, c
<1>2. \A i \in Slots : /\ Harmless(lib, Nonnegative(i)) /\ TestsOne(Nonnegative(i), "nonnegative", i)
                       /\ Harmless(lib, Negative(i)) /\ TestsOne(Negative(i), "negative", i)
  BY SignTests DEF TestsOne
<1>3. \A i, j \in Slots : i # j => Harmless(lib, Less(i, j)) /\ TestsTwo(Less(i, j), "less", i, j)
  BY LessTests DEF TestsTwo
<1>4. /\ Harmless(lib, Nonnegative(a)) /\ TestsOne(Nonnegative(a), "nonnegative", a)
      /\ Harmless(lib, Nonnegative(b)) /\ TestsOne(Nonnegative(b), "nonnegative", b)
      /\ Harmless(lib, Nonnegative(c)) /\ TestsOne(Nonnegative(c), "nonnegative", c)
      /\ Harmless(lib, Negative(a)) /\ TestsOne(Negative(a), "negative", a)
  BY <1>1, <1>2
<1>5. /\ Harmless(lib, Less(a, b)) /\ TestsTwo(Less(a, b), "less", a, b)
      /\ Harmless(lib, Less(a, c)) /\ TestsTwo(Less(a, c), "less", a, c)
      /\ Harmless(lib, Less(b, c)) /\ TestsTwo(Less(b, c), "less", b, c)
  BY <1>1, <1>3
<1> QED
  BY <1>4, <1>5 DEF a, b, c

LEMMA WordTests ==
  ASSUME NEW lib
  PROVE  Harmless(lib, Word) /\ IsTest(Word) /\ Word.fn = "word"
<1>1. Word.args = <<Bare(1)>> /\ Word.fn = "word" /\ Word.into = 0 /\ Word.failing = "none"
  BY DEF Word, Tested, Call
<1> DEFINE c == Word
<1> HIDE DEF c
<1>2. c.args = <<Bare(1)>> /\ c.fn = "word" /\ c.into = 0 /\ c.failing = "none"
  BY <1>1 DEF c
<1>3. GoodArgs(lib, c)
  BY <1>2, ReadsBare
<1>4. Harmless(lib, c) /\ IsTest(c)
  BY <1>2, <1>3 DEF Harmless, GoodCall, IsTest, NoRes, Bare
<1> QED
  BY <1>1, <1>4 DEF c

LEMMA CopiedHarmless ==
  ASSUME NEW lib
  PROVE  Harmless(lib, Copied) /\ Copied.fn = "CopyResult" /\ Copied.into = 0 /\ Copied.args = <<>>
<1>1. Copied.args = <<>> /\ Copied.fn = "CopyResult" /\ Copied.into = 0 /\ Copied.failing = "none"
  BY DEF Copied, Tested, Call
<1> DEFINE c == Copied
<1> HIDE DEF c
<1>2. c.args = <<>> /\ c.fn = "CopyResult" /\ c.into = 0 /\ c.failing = "none"
  BY <1>1 DEF c
<1>3. GoodArgs(lib, c)
  BY <1>2, ReadsNothing
<1>4. Harmless(lib, c)
  BY <1>2, <1>3 DEF Harmless, GoodCall, NoRes
<1> QED
  BY <1>1, <1>4 DEF c

LEMMA CopyCopies ==
  ASSUME NEW lib, NEW c, c.fn = "copy", c.failing = "none",
         \/ c.args = <<Result, Src(0)>> /\ c.into = 1
         \/ c.args = <<Src(0), Result>> /\ c.into = 2
  PROVE  Harmless(lib, c) /\ IsCopy(c)
<1>1. CASE c.args = <<Result, Src(0)>> /\ c.into = 1
  <2>1. GoodArgs(lib, c) /\ \A at, t : NumbersRead(c, at, t) = <<t[at[2]]>>
    BY <1>1, IntoFromOne
  <2>2. Indices(c)[2] = 0
    BY <1>1 DEF Indices, Src
  <2> QED
    BY <1>1, <2>1, <2>2
       DEF Harmless, GoodCall, NoRes, IsCopy, Direct, Placed, InPlace, Src, Result
<1>2. CASE c.args = <<Src(0), Result>> /\ c.into = 2
  <2>1. GoodArgs(lib, c) /\ \A at, t : NumbersRead(c, at, t) = <<t[at[1]]>>
    BY <1>2, OneInto
  <2>2. Indices(c)[1] = 0
    BY <1>2 DEF Indices, Src
  <2> QED
    BY <1>2, <2>1, <2>2
       DEF Harmless, GoodCall, NoRes, IsCopy, Direct, Placed, InPlace, Src, Result
<1> QED
  BY <1>1, <1>2

-----------------------------------------------------------------------------
(* Programs by their form.                                                 *)

(* A call that may decide.                                                 *)
Computing(lib, c) ==
  /\ GoodCall(lib, c) /\ c.into # 0
  /\ Placed(c) \/ NoRes(c)
  /\ \A k \in DOMAIN c.args : c.args[k].by = "GetResPtr" => k = c.into

ComputesRightOn(of, c, s, t, w) == ComputesRight(of, c, NumbersRead(c, Indices(c), t), s, w)

LEMMA SoundDirect ==
  ASSUME NEW p, NEW c, p.steps = <<c>>, Computing(p.lib, c), Direct(c),
         \A s \in [Slots -> Int] : \A t, w :
           (\A i \in Slots : t[i] = s[i]) => ComputesRightOn(p.of, c, s, t, w)
  PROVE  Sound(p)
<1>1. p.steps[1] = c /\ DOMAIN p.steps = 1 .. 1 /\ Len(p.steps) = 1
  OBVIOUS
<1>e. \A s : \A i \in Slots : Expected(p, 1, s)[i] = s[i]
  BY DEF Expected, Doubled
<1>2. Right(p, 1)
  BY <1>1, <1>e DEF Right, Known, ComputesRightOn
<1>3. Decisive(p, 1)
  BY <1>1, <1>2 DEF Decisive, Computing
<1>4. GoodProgram(p)
  BY <1>1 DEF GoodProgram, Computing
<1> QED
  BY <1>3, <1>4 DEF Sound

LEMMA SoundPlaced ==
  ASSUME NEW p, NEW c, p.steps = <<c, Copied>>, Computing(p.lib, c), Placed(c),
         \A s \in [Slots -> Int] : \A t, w :
           (\A i \in Slots : t[i] = s[i]) => ComputesRightOn(p.of, c, s, t, w)
  PROVE  Sound(p)
<1> DEFINE d == Copied
<1>0. Harmless(p.lib, d) /\ d.fn = "CopyResult"
  BY CopiedHarmless
<1> HIDE DEF d
<1>1. p.steps[1] = c /\ p.steps[2] = d /\ DOMAIN p.steps = 1 .. 2 /\ Len(p.steps) = 2
  BY DEF d
<1>e. \A s : \A i \in Slots : Expected(p, 1, s)[i] = s[i]
  BY DEF Expected, Doubled
<1>2. Right(p, 1)
  BY <1>1, <1>e DEF Right, Known, ComputesRightOn
<1>3. Decisive(p, 1)
  BY <1>0, <1>1, <1>2 DEF Decisive, Computing, Harmless, d
<1>4. GoodProgram(p)
  BY <1>0, <1>1 DEF GoodProgram, Computing, GoodCall, Harmless
<1> QED
  BY <1>3, <1>4 DEF Sound

LEMMA SoundInPlace ==
  ASSUME NEW p, NEW c, NEW d, p.steps = <<Word, c, d>>, Computing(p.lib, c), InPlace(c),
         Harmless(p.lib, d), IsCopy(d),
         \A s \in [Slots -> Int] : \A t, w :
           (\A i \in Slots : t[i] = s[i]) /\ w = s[1] => ComputesRightOn(p.of, c, s, t, w)
  PROVE  Sound(p)
<1> DEFINE e == Word
<1>0. Harmless(p.lib, e) /\ IsTest(e) /\ e.fn = "word"
  BY WordTests
<1> HIDE DEF e
<1>1. /\ p.steps[1] = e /\ p.steps[2] = c /\ p.steps[3] = d
      /\ DOMAIN p.steps = 1 .. 3 /\ Len(p.steps) = 3
  BY DEF e
<1>2. Right(p, 2)
  <2> SUFFICES ASSUME NEW s \in [Slots -> Int], NEW t, NEW w, Known(p, 2, s, t, w)
               PROVE  ComputesRightOn(p.of, c, s, t, w)
    BY <1>1 DEF Right, ComputesRightOn
  <2>1. \A i \in Slots : Expected(p, 2, s)[i] = s[i]
    <3>1. \A m \in 1 .. 1 : p.steps[m].fn # "double"
      BY <1>0, <1>1
    <3>2. ~Doubled(p, 2)
      BY <3>1 DEF Doubled
    <3> QED
      BY <3>2 DEF Expected
  <2> QED
    BY <1>0, <1>1, <2>1 DEF Known
<1>3. Decisive(p, 2)
  BY <1>0, <1>1, <1>2 DEF Decisive, Computing, Harmless, InPlace, Placed
<1>4. GoodProgram(p)
  <2>1. c.fn # "word" /\ d.fn # "word" /\ GoodCall(p.lib, c)
    BY DEF Computing, GoodCall, IsCopy
  <2> QED
    BY <1>0, <1>1, <2>1 DEF GoodProgram, Harmless
<1> QED
  BY <1>3, <1>4 DEF Sound

-----------------------------------------------------------------------------
(* Calls that may decide, by their arguments.                              *)

Ordinary(fn) == fn \notin {"set_bit", "word", "CopyResult"}

LEMMA OneInFront ==
  ASSUME NEW lib, NEW c, NEW d \in {Res, Result}, c.args = <<d, Src(0)>>, c.into = 1, Ordinary(c.fn), c.fn = "exch" => d = Res
  PROVE  /\ Computing(lib, c) /\ (IF d = Res THEN Placed(c) ELSE Direct(c))
         /\ \A t : NumbersRead(c, Indices(c), t) = <<t[0]>>
<1>1. GoodArgs(lib, c) /\ \A at, t : NumbersRead(c, at, t) = <<t[at[2]]>>
  BY IntoFromOne DEF Ordinary
<1>2. Indices(c)[2] = 0
  BY DEF Indices, Src, Dest, Res, Result, Opt, Out
<1> QED
  BY <1>1, <1>2 DEF Ordinary, Computing, GoodCall, Placed, Direct, InPlace, NoRes, Src, Dest, Opt, Res, Result

LEMMA TwoInFront ==
  ASSUME NEW lib, NEW c, NEW d \in {Res, Result}, c.args = <<d, Src(0), Src(1)>>, c.into = 1, Ordinary(c.fn), c.fn # "exch"
  PROVE  /\ Computing(lib, c) /\ (IF d = Res THEN Placed(c) ELSE Direct(c))
         /\ \A t : NumbersRead(c, Indices(c), t) = <<t[0], t[1]>>
<1>1. GoodArgs(lib, c) /\ \A at, t : NumbersRead(c, at, t) = <<t[at[2]], t[at[3]]>>
  BY IntoFromTwo DEF Ordinary
<1>2. Indices(c)[2] = 0 /\ Indices(c)[3] = 1
  BY DEF Indices, Src, Dest, Res, Result, Opt, Out
<1> QED
  BY <1>1, <1>2 DEF Ordinary, Computing, GoodCall, Placed, Direct, InPlace, NoRes, Src, Dest, Opt, Res, Result

LEMMA ThreeInFront ==
  ASSUME NEW lib, NEW c, NEW d \in {Res, Result}, c.args = <<d, Src(0), Src(1), Src(2)>>, c.into = 1, Ordinary(c.fn), c.fn # "exch"
  PROVE  /\ Computing(lib, c) /\ (IF d = Res THEN Placed(c) ELSE Direct(c))
         /\ \A t : NumbersRead(c, Indices(c), t) = <<t[0], t[1], t[2]>>
<1>1. GoodArgs(lib, c) /\ \A at, t : NumbersRead(c, at, t) = <<t[at[2]], t[at[3]], t[at[4]]>>
  BY IntoFromThree DEF Ordinary
<1>2. Indices(c)[2] = 0 /\ Indices(c)[3] = 1 /\ Indices(c)[4] = 2
  BY DEF Indices, Src, Dest, Res, Result, Opt, Out
<1> QED
  BY SMTT(20), <1>1, <1>2 DEF Ordinary, Computing, GoodCall, Placed, Direct, InPlace, NoRes, Src, Dest, Opt, Res, Result

LEMMA OneBehind ==
  ASSUME NEW lib, NEW c, NEW d \in {Res, Result}, c.args = <<Src(0), d>>, c.into = 2, Ordinary(c.fn), c.fn # "exch"
  PROVE  /\ Computing(lib, c) /\ (IF d = Res THEN Placed(c) ELSE Direct(c))
         /\ \A t : NumbersRead(c, Indices(c), t) = <<t[0]>>
<1>1. GoodArgs(lib, c) /\ \A at, t : NumbersRead(c, at, t) = <<t[at[1]]>>
  BY OneInto DEF Ordinary
<1>2. Indices(c)[1] = 0
  BY DEF Indices, Src, Dest, Res, Result, Opt, Out
<1> QED
  BY <1>1, <1>2 DEF Ordinary, Computing, GoodCall, Placed, Direct, InPlace, NoRes, Src, Dest, Opt, Res, Result

LEMMA TwoBehind ==
  ASSUME NEW lib, NEW c, c.args = <<Src(0), Src(1), Res>>, c.into = 3, Ordinary(c.fn), c.fn # "exch"
  PROVE  /\ Computing(lib, c) /\ Placed(c)
         /\ \A t : NumbersRead(c, Indices(c), t) = <<t[0], t[1]>>
<1>1. GoodArgs(lib, c) /\ \A at, t : NumbersRead(c, at, t) = <<t[at[1]], t[at[2]]>>
  BY TwoInto DEF Ordinary
<1>2. Indices(c)[1] = 0 /\ Indices(c)[2] = 1
  BY DEF Indices, Src, Dest, Res, Result, Opt, Out
<1> QED
  BY <1>1, <1>2 DEF Ordinary, Computing, GoodCall, Placed, Direct, InPlace, NoRes, Src, Dest, Opt, Res, Result

LEMMA ThreeBehind ==
  ASSUME NEW lib, NEW c, c.args = <<Src(0), Src(1), Src(2), Res>>, c.into = 4, Ordinary(c.fn), c.fn # "exch"
  PROVE  /\ Computing(lib, c) /\ Placed(c)
         /\ \A t : NumbersRead(c, Indices(c), t) = <<t[0], t[1], t[2]>>
<1>1. GoodArgs(lib, c) /\ \A at, t : NumbersRead(c, at, t) = <<t[at[1]], t[at[2]], t[at[3]]>>
  BY ThreeInto DEF Ordinary
<1>2. Indices(c)[1] = 0 /\ Indices(c)[2] = 1 /\ Indices(c)[3] = 2
  BY DEF Indices, Src, Dest, Res, Result, Opt, Out
<1> QED
  BY <1>1, <1>2 DEF Ordinary, Computing, GoodCall, Placed, Direct, InPlace, NoRes, Src, Dest, Opt, Res, Result

LEMMA ShiftBehind ==
  ASSUME NEW lib, NEW c, lib # "openssl", c.args = <<Src(0), Result, Opt(3)>>, c.into = 2, Ordinary(c.fn), c.fn \notin {"exch", "copy", "double"}
  PROVE  /\ Computing(lib, c) /\ Direct(c)
         /\ \A t : NumbersRead(c, Indices(c), t) = <<t[0]>>
<1>1. GoodArgs(lib, c) /\ \A at, t : NumbersRead(c, at, t) = <<t[at[1]]>>
  BY ShiftInto DEF Ordinary
<1>2. Indices(c)[1] = 0
  BY DEF Indices, Src, Dest, Res, Result, Opt, Out
<1> QED
  BY <1>1, <1>2 DEF Ordinary, Computing, GoodCall, Placed, Direct, InPlace, NoRes, Src, Dest, Opt, Res, Result

LEMMA QuotientInFront ==
  ASSUME NEW lib, NEW c, lib # "openssl", c.args = <<Res, Opt(3), Src(0), Src(1)>>, c.into = 1, Ordinary(c.fn), c.fn \notin {"exch", "copy", "double"}
  PROVE  /\ Computing(lib, c) /\ Placed(c)
         /\ \A t : NumbersRead(c, Indices(c), t) = <<t[0], t[1]>>
<1>1. GoodArgs(lib, c) /\ \A at, t : NumbersRead(c, at, t) = <<t[at[3]], t[at[4]]>>
  BY IntoQuotient DEF Ordinary
<1>2. Indices(c)[3] = 0 /\ Indices(c)[4] = 1
  BY DEF Indices, Src, Dest, Res, Result, Opt, Out
<1> QED
  BY <1>1, <1>2 DEF Ordinary, Computing, GoodCall, Placed, Direct, InPlace, NoRes, Src, Dest, Opt, Res, Result

LEMMA AltersInPlace ==
  ASSUME NEW lib, NEW c, c.args = <<Dest(0)>>, c.into = 1, c.fn \notin {"word", "CopyResult", "exch"}
  PROVE  /\ Computing(lib, c) /\ InPlace(c)
         /\ \A t : NumbersRead(c, Indices(c), t) = <<t[0]>>
<1>1. GoodArgs(lib, c) /\ \A at, t : NumbersRead(c, at, t) = <<t[at[1]]>>
  BY ReadsInPlace DEF Ordinary
<1>2. Indices(c)[1] = 0
  BY DEF Indices, Src, Dest, Res, Result, Opt, Out
<1> QED
  BY <1>1, <1>2 DEF Ordinary, Computing, GoodCall, Placed, Direct, InPlace, NoRes, Src, Dest, Opt, Res, Result

LEMMA AltersResult ==
  ASSUME NEW lib, NEW c, c.args = <<Result>>, c.into = 1, c.fn = "set_bit"
  PROVE  /\ Computing(lib, c) /\ Direct(c)
         /\ \A t : NumbersRead(c, Indices(c), t) = <<t[4]>>
<1>1. GoodArgs(lib, c) /\ \A at, t : NumbersRead(c, at, t) = <<t[at[1]]>>
  BY ReadsResult DEF Ordinary
<1>2. Indices(c)[1] = 4
  BY DEF Indices, Src, Dest, Res, Result, Opt, Out
<1> QED
  BY <1>1, <1>2 DEF Ordinary, Computing, GoodCall, Placed, Direct, InPlace, NoRes, Src, Dest, Opt, Res, Result

-----------------------------------------------------------------------------
(* Programs of one call, and perhaps a CopyResult.                         *)

LEMMA PlacedOne ==
  ASSUME NEW p, NEW c, p.steps = <<c, Copied>>, c.args = <<Res, Src(0)>>, c.into = 1,
         Ordinary(c.fn),
         \A s \in [Slots -> Int] : \A w : ComputesRight(p.of, c, <<s[0]>>, s, w)
  PROVE  Sound(p)
<1>1. /\ Computing(p.lib, c) /\ Placed(c)
      /\ \A t : NumbersRead(c, Indices(c), t) = <<t[0]>>
  BY OneInFront DEF Res, Result
<1>2. ASSUME NEW s \in [Slots -> Int], NEW t, NEW w, \A i \in Slots : t[i] = s[i]
      PROVE  ComputesRightOn(p.of, c, s, t, w)
  <2>1. t[0] = s[0]
    BY <1>2 DEF Slots
  <2> QED
    BY <1>1, <2>1 DEF ComputesRightOn
<1> QED
  BY <1>1, <1>2, SoundPlaced

LEMMA DirectOne ==
  ASSUME NEW p, NEW c, p.steps = <<c>>, c.args = <<Result, Src(0)>>, c.into = 1,
         Ordinary(c.fn), c.fn # "exch",
         \A s \in [Slots -> Int] : \A w : ComputesRight(p.of, c, <<s[0]>>, s, w)
  PROVE  Sound(p)
<1>1. /\ Computing(p.lib, c) /\ Direct(c)
      /\ \A t : NumbersRead(c, Indices(c), t) = <<t[0]>>
  BY OneInFront DEF Res, Result
<1>2. ASSUME NEW s \in [Slots -> Int], NEW t, NEW w, \A i \in Slots : t[i] = s[i]
      PROVE  ComputesRightOn(p.of, c, s, t, w)
  <2>1. t[0] = s[0]
    BY <1>2 DEF Slots
  <2> QED
    BY <1>1, <2>1 DEF ComputesRightOn
<1> QED
  BY <1>1, <1>2, SoundDirect

LEMMA PlacedTwo ==
  ASSUME NEW p, NEW c, p.steps = <<c, Copied>>, c.args = <<Res, Src(0), Src(1)>>, c.into = 1,
         Ordinary(c.fn), c.fn # "exch",
         \A s \in [Slots -> Int] : \A w : ComputesRight(p.of, c, <<s[0], s[1]>>, s, w)
  PROVE  Sound(p)
<1>1. /\ Computing(p.lib, c) /\ Placed(c)
      /\ \A t : NumbersRead(c, Indices(c), t) = <<t[0], t[1]>>
  BY TwoInFront DEF Res, Result
<1>2. ASSUME NEW s \in [Slots -> Int], NEW t, NEW w, \A i \in Slots : t[i] = s[i]
      PROVE  ComputesRightOn(p.of, c, s, t, w)
  <2>1. t[0] = s[0] /\ t[1] = s[1]
    BY <1>2 DEF Slots
  <2> QED
    BY <1>1, <2>1 DEF ComputesRightOn
<1> QED
  BY <1>1, <1>2, SoundPlaced

LEMMA DirectTwo ==
  ASSUME NEW p, NEW c, p.steps = <<c>>, c.args = <<Result, Src(0), Src(1)>>, c.into = 1,
         Ordinary(c.fn), c.fn # "exch",
         \A s \in [Slots -> Int] : \A w : ComputesRight(p.of, c, <<s[0], s[1]>>, s, w)
  PROVE  Sound(p)
<1>1. /\ Computing(p.lib, c) /\ Direct(c)
      /\ \A t : NumbersRead(c, Indices(c), t) = <<t[0], t[1]>>
  BY TwoInFront DEF Res, Result
<1>2. ASSUME NEW s \in [Slots -> Int], NEW t, NEW w, \A i \in Slots : t[i] = s[i]
      PROVE  ComputesRightOn(p.of, c, s, t, w)
  <2>1. t[0] = s[0] /\ t[1] = s[1]
    BY <1>2 DEF Slots
  <2> QED
    BY <1>1, <2>1 DEF ComputesRightOn
<1> QED
  BY <1>1, <1>2, SoundDirect

LEMMA PlacedThree ==
  ASSUME NEW p, NEW c, p.steps = <<c, Copied>>, c.args = <<Res, Src(0), Src(1), Src(2)>>, c.into = 1,
         Ordinary(c.fn), c.fn # "exch",
         \A s \in [Slots -> Int] : \A w : ComputesRight(p.of, c, <<s[0], s[1], s[2]>>, s, w)
  PROVE  Sound(p)
<1>1. /\ Computing(p.lib, c) /\ Placed(c)
      /\ \A t : NumbersRead(c, Indices(c), t) = <<t[0], t[1], t[2]>>
  BY ThreeInFront DEF Res, Result
<1>2. ASSUME NEW s \in [Slots -> Int], NEW t, NEW w, \A i \in Slots : t[i] = s[i]
      PROVE  ComputesRightOn(p.of, c, s, t, w)
  <2>1. t[0] = s[0] /\ t[1] = s[1] /\ t[2] = s[2]
    BY <1>2 DEF Slots
  <2> QED
    BY <1>1, <2>1 DEF ComputesRightOn
<1> QED
  BY <1>1, <1>2, SoundPlaced

LEMMA DirectThree ==
  ASSUME NEW p, NEW c, p.steps = <<c>>, c.args = <<Result, Src(0), Src(1), Src(2)>>, c.into = 1,
         Ordinary(c.fn), c.fn # "exch",
         \A s \in [Slots -> Int] : \A w : ComputesRight(p.of, c, <<s[0], s[1], s[2]>>, s, w)
  PROVE  Sound(p)
<1>1. /\ Computing(p.lib, c) /\ Direct(c)
      /\ \A t : NumbersRead(c, Indices(c), t) = <<t[0], t[1], t[2]>>
  BY ThreeInFront DEF Res, Result
<1>2. ASSUME NEW s \in [Slots -> Int], NEW t, NEW w, \A i \in Slots : t[i] = s[i]
      PROVE  ComputesRightOn(p.of, c, s, t, w)
  <2>1. t[0] = s[0] /\ t[1] = s[1] /\ t[2] = s[2]
    BY <1>2 DEF Slots
  <2> QED
    BY <1>1, <2>1 DEF ComputesRightOn
<1> QED
  BY <1>1, <1>2, SoundDirect

LEMMA BehindTwo ==
  ASSUME NEW p, NEW c, p.steps = <<c, Copied>>, c.args = <<Src(0), Src(1), Res>>, c.into = 3,
         Ordinary(c.fn), c.fn # "exch",
         \A s \in [Slots -> Int] : \A w : ComputesRight(p.of, c, <<s[0], s[1]>>, s, w)
  PROVE  Sound(p)
<1>1. /\ Computing(p.lib, c) /\ Placed(c)
      /\ \A t : NumbersRead(c, Indices(c), t) = <<t[0], t[1]>>
  BY TwoBehind DEF Res, Result
<1>2. ASSUME NEW s \in [Slots -> Int], NEW t, NEW w, \A i \in Slots : t[i] = s[i]
      PROVE  ComputesRightOn(p.of, c, s, t, w)
  <2>1. t[0] = s[0] /\ t[1] = s[1]
    BY <1>2 DEF Slots
  <2> QED
    BY <1>1, <2>1 DEF ComputesRightOn
<1> QED
  BY <1>1, <1>2, SoundPlaced

LEMMA BehindThree ==
  ASSUME NEW p, NEW c, p.steps = <<c, Copied>>, c.args = <<Src(0), Src(1), Src(2), Res>>, c.into = 4,
         Ordinary(c.fn), c.fn # "exch",
         \A s \in [Slots -> Int] : \A w : ComputesRight(p.of, c, <<s[0], s[1], s[2]>>, s, w)
  PROVE  Sound(p)
<1>1. /\ Computing(p.lib, c) /\ Placed(c)
      /\ \A t : NumbersRead(c, Indices(c), t) = <<t[0], t[1], t[2]>>
  BY ThreeBehind DEF Res, Result
<1>2. ASSUME NEW s \in [Slots -> Int], NEW t, NEW w, \A i \in Slots : t[i] = s[i]
      PROVE  ComputesRightOn(p.of, c, s, t, w)
  <2>1. t[0] = s[0] /\ t[1] = s[1] /\ t[2] = s[2]
    BY <1>2 DEF Slots
  <2> QED
    BY <1>1, <2>1 DEF ComputesRightOn
<1> QED
  BY <1>1, <1>2, SoundPlaced

(* Those that alter the first number by a word, and copy it.               *)
LEMMA InPlaceOne ==
  ASSUME NEW p, NEW c, NEW d, p.steps = <<Word, c, d>>, c.args = <<Dest(0)>>, c.into = 1,
         c.fn \notin {"word", "CopyResult", "exch"},
         d.fn = "copy", d.failing = "none", d.args = <<Result, Src(0)>>, d.into = 1,
         \A s \in [Slots -> Int] : ComputesRight(p.of, c, <<s[0]>>, s, s[1])
  PROVE  Sound(p)
<1>1. /\ Computing(p.lib, c) /\ InPlace(c)
      /\ \A t : NumbersRead(c, Indices(c), t) = <<t[0]>>
  BY AltersInPlace
<1>2. Harmless(p.lib, d) /\ IsCopy(d)
  BY CopyCopies
<1>3. ASSUME NEW s \in [Slots -> Int], NEW t, NEW w,
             (\A i \in Slots : t[i] = s[i]) /\ w = s[1]
      PROVE  ComputesRightOn(p.of, c, s, t, w)
  <2>1. t[0] = s[0]
    BY <1>3 DEF Slots
  <2> QED
    BY <1>1, <1>3, <2>1 DEF ComputesRightOn
<1> QED
  BY <1>1, <1>2, <1>3, SoundInPlace

(* A stretch of tests.                                                     *)
(* The m-th call is a test; and the numbers s pass those before the n-th.  *)
Testing(p, m) ==
  Harmless(p.lib, p.steps[m]) /\ IsTest(p.steps[m]) /\ (p.steps[m].fn = "word" => m = 1)

PassedOn(p, n, s) ==
  \A m \in 1 .. n - 1 : Holds(p.steps[m].fn, NumbersRead(p.steps[m], Indices(p.steps[m]), s))

LEMMA TestedRight ==
  ASSUME NEW p, NEW n \in 1 .. 6, \A m \in 1 .. n - 1 : Testing(p, m),
         \A s \in [Slots -> Int] : \A t, w :
           /\ \A i \in Slots : t[i] = s[i]
           /\ n > 1 /\ p.steps[1].fn = "word" => w = s[1]
           /\ PassedOn(p, n, s)
           => ComputesRightOn(p.of, p.steps[n], s, t, w)
  PROVE  Right(p, n)
<1> SUFFICES ASSUME NEW s \in [Slots -> Int], NEW t, NEW w, Known(p, n, s, t, w)
             PROVE  ComputesRightOn(p.of, p.steps[n], s, t, w)
  BY DEF Right, ComputesRightOn
<1>1. \A m \in 1 .. n - 1 : GoodCall(p.lib, p.steps[m]) /\ IsTest(p.steps[m])
  BY DEF Testing, Harmless
<1>2. \A m \in 1 .. n - 1 : p.steps[m].fn # "double"
  BY <1>1 DEF GoodCall, IsTest
<1>3. \A m \in 1 .. n : Expected(p, m, s) = [i \in Slots |-> s[i]]
  BY <1>2 DEF Expected, Doubled
<1>4. \A i \in Slots : t[i] = s[i]
  BY <1>3 DEF Known
<1>5. ASSUME NEW m \in 1 .. n - 1
      PROVE  Holds(p.steps[m].fn, NumbersRead(p.steps[m], Indices(p.steps[m]), s))
  <2> DEFINE c == p.steps[m]
  <2>1. GoodCall(p.lib, c) /\ IsTest(c) /\ Interval(c)
    BY <1>1 DEF GoodCall, GoodArgs
  <2>2. \A k \in Reads(c) : Indices(c)[k] \in Slots
    BY <2>1 DEF GoodCall, GoodArgs, IsTest, Reads, Indices
  <2>3. Expected(p, m, s) = [i \in Slots |-> s[i]]
    BY <1>3
  <2>4. Holds(c.fn, NumbersRead(c, Indices(c), [i \in Slots |-> s[i]]))
    BY <2>1, <2>3 DEF Known, Passed
  <2> HIDE DEF c
  <2>5. NumbersRead(c, Indices(c), [i \in Slots |-> s[i]]) = NumbersRead(c, Indices(c), s)
    BY <2>1, <2>2, ReadsSame
  <2> QED
    BY <2>4, <2>5 DEF c
<1>6. PassedOn(p, n, s)
  BY <1>5 DEF PassedOn
<1> QED
  BY <1>4, <1>6 DEF Known

LEMMA TestedDirect ==
  ASSUME NEW p, NEW n \in 1 .. 6, Len(p.steps) \in Nat, DOMAIN p.steps = 1 .. Len(p.steps),
         n \in DOMAIN p.steps, Computing(p.lib, p.steps[n]), Direct(p.steps[n]),
         \A m \in DOMAIN p.steps \ {n} : Testing(p, m),
         \A s \in [Slots -> Int] : \A t, w :
           /\ \A i \in Slots : t[i] = s[i]
           /\ n > 1 /\ p.steps[1].fn = "word" => w = s[1]
           /\ PassedOn(p, n, s)
           => ComputesRightOn(p.of, p.steps[n], s, t, w)
  PROVE  Sound(p)
<1>1. Right(p, n)
  <2>1. \A m \in 1 .. n - 1 : Testing(p, m)
    OBVIOUS
  <2> QED
    BY <2>1, TestedRight
<1>2. Decisive(p, n)
  BY <1>1 DEF Decisive, Computing, Testing, Harmless
<1>3. GoodProgram(p)
  <2>1. p.steps[n].fn # "word" /\ GoodCall(p.lib, p.steps[n])
    BY DEF Computing, GoodCall
  <2> QED
    BY <2>1 DEF GoodProgram, Testing, Harmless
<1> QED
  BY <1>2, <1>3 DEF Sound

LEMMA TestedPlaced ==
  ASSUME NEW p, NEW n \in 1 .. 6, Len(p.steps) \in Nat, DOMAIN p.steps = 1 .. Len(p.steps),
         n \in DOMAIN p.steps, n + 1 \in DOMAIN p.steps, p.steps[n + 1] = Copied,
         Computing(p.lib, p.steps[n]), Placed(p.steps[n]),
         \A m \in DOMAIN p.steps \ {n, n + 1} : Testing(p, m),
         \A s \in [Slots -> Int] : \A t, w :
           /\ \A i \in Slots : t[i] = s[i]
           /\ n > 1 /\ p.steps[1].fn = "word" => w = s[1]
           /\ PassedOn(p, n, s)
           => ComputesRightOn(p.of, p.steps[n], s, t, w)
  PROVE  Sound(p)
<1>0. Harmless(p.lib, p.steps[n + 1]) /\ p.steps[n + 1].fn = "CopyResult"
  BY CopiedHarmless
<1>1. Right(p, n)
  <2>1. \A m \in 1 .. n - 1 : Testing(p, m)
    OBVIOUS
  <2> QED
    BY <2>1, TestedRight
<1>2. Decisive(p, n)
  BY <1>0, <1>1 DEF Decisive, Computing, Testing, Harmless
<1>3. GoodProgram(p)
  <2>1. p.steps[n].fn # "word" /\ GoodCall(p.lib, p.steps[n])
    BY DEF Computing, GoodCall
  <2> QED
    BY <1>0, <2>1 DEF GoodProgram, Testing, Harmless
<1> QED
  BY <1>2, <1>3 DEF Sound

LEMMA Add1Sound == Sound(SumsAndProducts.Add1)
<1> DEFINE p == SumsAndProducts.Add1
           c == Asserted("add", <<Result, Src(0), Src(1)>>)
           n == 3
<1>1. p.lib = "openssl" /\ p.of = "add" /\ p.steps = <<Nonnegative(0), Nonnegative(1), c>>
  BY DEF SumsAndProducts, OpenSSL, Program
<1>2. c.fn = "add" /\ c.args = <<Result, Src(0), Src(1)>> /\ c.into = 1 /\ c.failing = "aborted"
  BY DEF Asserted, Call
<1> HIDE DEF p, c
<1>3. /\ p.steps[1] = Nonnegative(0) /\ p.steps[2] = Nonnegative(1) /\ p.steps[3] = c
      /\ DOMAIN p.steps = 1 .. 3 /\ Len(p.steps) = 3
  BY <1>1
<1>4. Computing("openssl", c) /\ Direct(c) /\ \A t : NumbersRead(c, Indices(c), t) = <<t[0], t[1]>>
  BY <1>2, TwoInFront DEF Ordinary, Res, Result
<1>5. /\ Testing(p, 1)
      /\ Testing(p, 2)
  BY <1>1, <1>3, TestsTest DEF Testing, TestsOne, TestsTwo
<1>6. \A s \in [Slots -> Int] : \A t, w :
        /\ \A i \in Slots : t[i] = s[i]
        /\ n > 1 /\ p.steps[1].fn = "word" => w = s[1]
        /\ PassedOn(p, n, s)
        => ComputesRightOn(p.of, c, s, t, w)
  <2> SUFFICES ASSUME NEW s \in [Slots -> Int], NEW t, NEW w, \A i \in Slots : t[i] = s[i],
                      n > 1 /\ p.steps[1].fn = "word" => w = s[1], PassedOn(p, n, s)
               PROVE  ComputesRightOn(p.of, c, s, t, w)
    OBVIOUS
  <2>1. Holds("nonnegative", <<s[0]>>)
    <3>1. Holds(p.steps[1].fn, NumbersRead(p.steps[1], Indices(p.steps[1]), s))
      BY DEF PassedOn
    <3> QED
      BY <1>3, <3>1, TestsTest DEF TestsOne, TestsTwo
  <2>2. Holds("nonnegative", <<s[1]>>)
    <3>1. Holds(p.steps[2].fn, NumbersRead(p.steps[2], Indices(p.steps[2]), s))
      BY DEF PassedOn
    <3> QED
      BY <1>3, <3>1, TestsTest DEF TestsOne, TestsTwo
  <2>3. NumbersRead(c, Indices(c), t) = <<s[0], s[1]>>
    BY <1>4 DEF Slots
  <2>4. s[0] \in Int /\ s[1] \in Int /\ s[2] \in Int
    BY DEF Slots
  <2> QED
    BY <1>1, <1>2, <2>1, <2>2, <2>3, <2>4 DEF ComputesRightOn, ComputesRight, Computes, Meant, Sure, Holds, Magnitude
<1>7. n \in 1 .. 6 /\ n \in DOMAIN p.steps /\ p.steps[n] = c
      /\ Len(p.steps) \in Nat /\ DOMAIN p.steps = 1 .. Len(p.steps)
  BY <1>3
<1>8. \A m \in DOMAIN p.steps \ {n} : Testing(p, m)
  BY <1>3, <1>5
<1> HIDE DEF n
<1>9. Sound(p)
  BY ONLY <1>1, <1>4, <1>6, <1>7, <1>8, TestedDirect
<1> QED
  BY <1>9 DEF p, c

LEMMA Mod0Sound == Sound(Powers.Mod0)
<1> DEFINE p == Powers.Mod0
           c == Excusable("mod", <<Result, Src(0), Src(1)>>)
           n == 1
<1>1. p.lib = "openssl" /\ p.of = "mod" /\ p.steps = <<c, Nonnegative(0), Nonnegative(1)>>
  BY DEF Powers, OpenSSL, Program
<1>2. c.fn = "mod" /\ c.args = <<Result, Src(0), Src(1)>> /\ c.into = 1 /\ c.failing = "excused"
  BY DEF Excusable, Call
<1> HIDE DEF p, c
<1>3. /\ p.steps[1] = c /\ p.steps[2] = Nonnegative(0) /\ p.steps[3] = Nonnegative(1)
      /\ DOMAIN p.steps = 1 .. 3 /\ Len(p.steps) = 3
  BY <1>1
<1>4. Computing("openssl", c) /\ Direct(c) /\ \A t : NumbersRead(c, Indices(c), t) = <<t[0], t[1]>>
  BY <1>2, TwoInFront DEF Ordinary, Res, Result
<1>5. /\ Testing(p, 2)
      /\ Testing(p, 3)
  BY <1>1, <1>3, TestsTest DEF Testing, TestsOne, TestsTwo
<1>6. \A s \in [Slots -> Int] : \A t, w :
        /\ \A i \in Slots : t[i] = s[i]
        /\ n > 1 /\ p.steps[1].fn = "word" => w = s[1]
        /\ PassedOn(p, n, s)
        => ComputesRightOn(p.of, c, s, t, w)
  <2> SUFFICES ASSUME NEW s \in [Slots -> Int], NEW t, NEW w, \A i \in Slots : t[i] = s[i],
                      n > 1 /\ p.steps[1].fn = "word" => w = s[1], PassedOn(p, n, s)
               PROVE  ComputesRightOn(p.of, c, s, t, w)
    OBVIOUS
  <2>1. NumbersRead(c, Indices(c), t) = <<s[0], s[1]>>
    BY <1>4 DEF Slots
  <2>2. s[0] \in Int /\ s[1] \in Int /\ s[2] \in Int
    BY DEF Slots
  <2> QED
    BY <1>1, <1>2, <2>1, <2>2 DEF ComputesRightOn, ComputesRight, Computes, Meant, Sure, Holds, Magnitude
<1>7. n \in 1 .. 6 /\ n \in DOMAIN p.steps /\ p.steps[n] = c
      /\ Len(p.steps) \in Nat /\ DOMAIN p.steps = 1 .. Len(p.steps)
  BY <1>3
<1>8. \A m \in DOMAIN p.steps \ {n} : Testing(p, m)
  BY <1>3, <1>5
<1> HIDE DEF n
<1>9. Sound(p)
  BY ONLY <1>1, <1>4, <1>6, <1>7, <1>8, TestedDirect
<1> QED
  BY <1>9 DEF p, c

LEMMA AddMod1Sound == Sound(ModularPrograms.AddMod1)
<1> DEFINE p == ModularPrograms.AddMod1
           c == Asserted("add_mod", <<Result, Src(0), Src(1), Src(2)>>)
           n == 5
<1>1. p.lib = "openssl" /\ p.of = "add_mod" /\ p.steps = <<Nonnegative(0), Nonnegative(1), Less(0, 2), Less(1, 2), c>>
  BY DEF ModularPrograms, OpenSSL, Program, IfBounded
<1>2. c.fn = "add_mod" /\ c.args = <<Result, Src(0), Src(1), Src(2)>> /\ c.into = 1 /\ c.failing = "aborted"
  BY DEF Asserted, Call
<1> HIDE DEF p, c
<1>3. /\ p.steps[1] = Nonnegative(0) /\ p.steps[2] = Nonnegative(1) /\ p.steps[3] = Less(0, 2) /\ p.steps[4] = Less(1, 2) /\ p.steps[5] = c
      /\ DOMAIN p.steps = 1 .. 5 /\ Len(p.steps) = 5
  BY <1>1
<1>4. Computing("openssl", c) /\ Direct(c) /\ \A t : NumbersRead(c, Indices(c), t) = <<t[0], t[1], t[2]>>
  BY <1>2, ThreeInFront DEF Ordinary, Res, Result
<1>5. /\ Testing(p, 1)
      /\ Testing(p, 2)
      /\ Testing(p, 3)
      /\ Testing(p, 4)
  BY <1>1, <1>3, TestsTest DEF Testing, TestsOne, TestsTwo
<1>6. \A s \in [Slots -> Int] : \A t, w :
        /\ \A i \in Slots : t[i] = s[i]
        /\ n > 1 /\ p.steps[1].fn = "word" => w = s[1]
        /\ PassedOn(p, n, s)
        => ComputesRightOn(p.of, c, s, t, w)
  <2> SUFFICES ASSUME NEW s \in [Slots -> Int], NEW t, NEW w, \A i \in Slots : t[i] = s[i],
                      n > 1 /\ p.steps[1].fn = "word" => w = s[1], PassedOn(p, n, s)
               PROVE  ComputesRightOn(p.of, c, s, t, w)
    OBVIOUS
  <2>1. Holds("nonnegative", <<s[0]>>)
    <3>1. Holds(p.steps[1].fn, NumbersRead(p.steps[1], Indices(p.steps[1]), s))
      BY DEF PassedOn
    <3> QED
      BY <1>3, <3>1, TestsTest DEF TestsOne, TestsTwo
  <2>2. Holds("nonnegative", <<s[1]>>)
    <3>1. Holds(p.steps[2].fn, NumbersRead(p.steps[2], Indices(p.steps[2]), s))
      BY DEF PassedOn
    <3> QED
      BY <1>3, <3>1, TestsTest DEF TestsOne, TestsTwo
  <2>3. Holds("less", <<s[0], s[2]>>)
    <3>1. Holds(p.steps[3].fn, NumbersRead(p.steps[3], Indices(p.steps[3]), s))
      BY DEF PassedOn
    <3> QED
      BY <1>3, <3>1, TestsTest DEF TestsOne, TestsTwo
  <2>4. Holds("less", <<s[1], s[2]>>)
    <3>1. Holds(p.steps[4].fn, NumbersRead(p.steps[4], Indices(p.steps[4]), s))
      BY DEF PassedOn
    <3> QED
      BY <1>3, <3>1, TestsTest DEF TestsOne, TestsTwo
  <2>5. NumbersRead(c, Indices(c), t) = <<s[0], s[1], s[2]>>
    BY <1>4 DEF Slots
  <2>6. s[0] \in Int /\ s[1] \in Int /\ s[2] \in Int
    BY DEF Slots
  <2> QED
    BY <1>1, <1>2, <2>1, <2>2, <2>3, <2>4, <2>5, <2>6 DEF ComputesRightOn, ComputesRight, Computes, Meant, Sure, Holds, Magnitude
<1>7. n \in 1 .. 6 /\ n \in DOMAIN p.steps /\ p.steps[n] = c
      /\ Len(p.steps) \in Nat /\ DOMAIN p.steps = 1 .. Len(p.steps)
  BY <1>3
<1>8. \A m \in DOMAIN p.steps \ {n} : Testing(p, m)
  BY <1>3, <1>5
<1> HIDE DEF n
<1>9. Sound(p)
  BY ONLY <1>1, <1>4, <1>6, <1>7, <1>8, TestedDirect
<1> QED
  BY <1>9 DEF p, c

LEMMA SubMod1Sound == Sound(ModularPrograms.SubMod1)
<1> DEFINE p == ModularPrograms.SubMod1
           c == Asserted("sub_mod", <<Result, Src(0), Src(1), Src(2)>>)
           n == 5
<1>1. p.lib = "openssl" /\ p.of = "sub_mod" /\ p.steps = <<Nonnegative(0), Nonnegative(1), Less(0, 2), Less(1, 2), c>>
  BY DEF ModularPrograms, OpenSSL, Program, IfBounded
<1>2. c.fn = "sub_mod" /\ c.args = <<Result, Src(0), Src(1), Src(2)>> /\ c.into = 1 /\ c.failing = "aborted"
  BY DEF Asserted, Call
<1> HIDE DEF p, c
<1>3. /\ p.steps[1] = Nonnegative(0) /\ p.steps[2] = Nonnegative(1) /\ p.steps[3] = Less(0, 2) /\ p.steps[4] = Less(1, 2) /\ p.steps[5] = c
      /\ DOMAIN p.steps = 1 .. 5 /\ Len(p.steps) = 5
  BY <1>1
<1>4. Computing("openssl", c) /\ Direct(c) /\ \A t : NumbersRead(c, Indices(c), t) = <<t[0], t[1], t[2]>>
  BY <1>2, ThreeInFront DEF Ordinary, Res, Result
<1>5. /\ Testing(p, 1)
      /\ Testing(p, 2)
      /\ Testing(p, 3)
      /\ Testing(p, 4)
  BY <1>1, <1>3, TestsTest DEF Testing, TestsOne, TestsTwo
<1>6. \A s \in [Slots -> Int] : \A t, w :
        /\ \A i \in Slots : t[i] = s[i]
        /\ n > 1 /\ p.steps[1].fn = "word" => w = s[1]
        /\ PassedOn(p, n, s)
        => ComputesRightOn(p.of, c, s, t, w)
  <2> SUFFICES ASSUME NEW s \in [Slots -> Int], NEW t, NEW w, \A i \in Slots : t[i] = s[i],
                      n > 1 /\ p.steps[1].fn = "word" => w = s[1], PassedOn(p, n, s)
               PROVE  ComputesRightOn(p.of, c, s, t, w)
    OBVIOUS
  <2>1. Holds("nonnegative", <<s[0]>>)
    <3>1. Holds(p.steps[1].fn, NumbersRead(p.steps[1], Indices(p.steps[1]), s))
      BY DEF PassedOn
    <3> QED
      BY <1>3, <3>1, TestsTest DEF TestsOne, TestsTwo
  <2>2. Holds("nonnegative", <<s[1]>>)
    <3>1. Holds(p.steps[2].fn, NumbersRead(p.steps[2], Indices(p.steps[2]), s))
      BY DEF PassedOn
    <3> QED
      BY <1>3, <3>1, TestsTest DEF TestsOne, TestsTwo
  <2>3. Holds("less", <<s[0], s[2]>>)
    <3>1. Holds(p.steps[3].fn, NumbersRead(p.steps[3], Indices(p.steps[3]), s))
      BY DEF PassedOn
    <3> QED
      BY <1>3, <3>1, TestsTest DEF TestsOne, TestsTwo
  <2>4. Holds("less", <<s[1], s[2]>>)
    <3>1. Holds(p.steps[4].fn, NumbersRead(p.steps[4], Indices(p.steps[4]), s))
      BY DEF PassedOn
    <3> QED
      BY <1>3, <3>1, TestsTest DEF TestsOne, TestsTwo
  <2>5. NumbersRead(c, Indices(c), t) = <<s[0], s[1], s[2]>>
    BY <1>4 DEF Slots
  <2>6. s[0] \in Int /\ s[1] \in Int /\ s[2] \in Int
    BY DEF Slots
  <2> QED
    BY <1>1, <1>2, <2>1, <2>2, <2>3, <2>4, <2>5, <2>6 DEF ComputesRightOn, ComputesRight, Computes, Meant, Sure, Holds, Magnitude
<1>7. n \in 1 .. 6 /\ n \in DOMAIN p.steps /\ p.steps[n] = c
      /\ Len(p.steps) \in Nat /\ DOMAIN p.steps = 1 .. Len(p.steps)
  BY <1>3
<1>8. \A m \in DOMAIN p.steps \ {n} : Testing(p, m)
  BY <1>3, <1>5
<1> HIDE DEF n
<1>9. Sound(p)
  BY ONLY <1>1, <1>4, <1>6, <1>7, <1>8, TestedDirect
<1> QED
  BY <1>9 DEF p, c

LEMMA AbsNegativeSound == Sound(BitsAndSigns.AbsNegative)
<1> DEFINE p == BitsAndSigns.AbsNegative
           c == Asserted("neg", <<Result, Src(0)>>)
           n == 2
<1>1. p.lib = "openssl" /\ p.of = "abs" /\ p.steps = <<Negative(0), c>>
  BY DEF BitsAndSigns, OpenSSL, Program
<1>2. c.fn = "neg" /\ c.args = <<Result, Src(0)>> /\ c.into = 1 /\ c.failing = "aborted"
  BY DEF Asserted, Call
<1> HIDE DEF p, c
<1>3. /\ p.steps[1] = Negative(0) /\ p.steps[2] = c
      /\ DOMAIN p.steps = 1 .. 2 /\ Len(p.steps) = 2
  BY <1>1
<1>4. Computing("openssl", c) /\ Direct(c) /\ \A t : NumbersRead(c, Indices(c), t) = <<t[0]>>
  BY <1>2, OneInFront DEF Ordinary, Res, Result
<1>5. /\ Testing(p, 1)
  BY <1>1, <1>3, TestsTest DEF Testing, TestsOne, TestsTwo
<1>6. \A s \in [Slots -> Int] : \A t, w :
        /\ \A i \in Slots : t[i] = s[i]
        /\ n > 1 /\ p.steps[1].fn = "word" => w = s[1]
        /\ PassedOn(p, n, s)
        => ComputesRightOn(p.of, c, s, t, w)
  <2> SUFFICES ASSUME NEW s \in [Slots -> Int], NEW t, NEW w, \A i \in Slots : t[i] = s[i],
                      n > 1 /\ p.steps[1].fn = "word" => w = s[1], PassedOn(p, n, s)
               PROVE  ComputesRightOn(p.of, c, s, t, w)
    OBVIOUS
  <2>1. Holds("negative", <<s[0]>>)
    <3>1. Holds(p.steps[1].fn, NumbersRead(p.steps[1], Indices(p.steps[1]), s))
      BY DEF PassedOn
    <3> QED
      BY <1>3, <3>1, TestsTest DEF TestsOne, TestsTwo
  <2>2. NumbersRead(c, Indices(c), t) = <<s[0]>>
    BY <1>4 DEF Slots
  <2>3. s[0] \in Int /\ s[1] \in Int /\ s[2] \in Int
    BY DEF Slots
  <2> QED
    BY <1>1, <1>2, <2>1, <2>2, <2>3 DEF ComputesRightOn, ComputesRight, Computes, Meant, Sure, Holds, Magnitude
<1>7. n \in 1 .. 6 /\ n \in DOMAIN p.steps /\ p.steps[n] = c
      /\ Len(p.steps) \in Nat /\ DOMAIN p.steps = 1 .. Len(p.steps)
  BY <1>3
<1>8. \A m \in DOMAIN p.steps \ {n} : Testing(p, m)
  BY <1>3, <1>5
<1> HIDE DEF n
<1>9. Sound(p)
  BY ONLY <1>1, <1>4, <1>6, <1>7, <1>8, TestedDirect
<1> QED
  BY <1>9 DEF p, c

LEMMA AbsElseSound == Sound(BitsAndSigns.AbsElse)
<1> DEFINE p == BitsAndSigns.AbsElse
           c == Checked("copy", <<Result, Src(0)>>)
           n == 2
<1>1. p.lib = "openssl" /\ p.of = "abs" /\ p.steps = <<Nonnegative(0), c>>
  BY DEF BitsAndSigns, OpenSSL, Program
<1>2. c.fn = "copy" /\ c.args = <<Result, Src(0)>> /\ c.into = 1 /\ c.failing = "none"
  BY DEF Checked, Call
<1> HIDE DEF p, c
<1>3. /\ p.steps[1] = Nonnegative(0) /\ p.steps[2] = c
      /\ DOMAIN p.steps = 1 .. 2 /\ Len(p.steps) = 2
  BY <1>1
<1>4. Computing("openssl", c) /\ Direct(c) /\ \A t : NumbersRead(c, Indices(c), t) = <<t[0]>>
  BY <1>2, OneInFront DEF Ordinary, Res, Result
<1>5. /\ Testing(p, 1)
  BY <1>1, <1>3, TestsTest DEF Testing, TestsOne, TestsTwo
<1>6. \A s \in [Slots -> Int] : \A t, w :
        /\ \A i \in Slots : t[i] = s[i]
        /\ n > 1 /\ p.steps[1].fn = "word" => w = s[1]
        /\ PassedOn(p, n, s)
        => ComputesRightOn(p.of, c, s, t, w)
  <2> SUFFICES ASSUME NEW s \in [Slots -> Int], NEW t, NEW w, \A i \in Slots : t[i] = s[i],
                      n > 1 /\ p.steps[1].fn = "word" => w = s[1], PassedOn(p, n, s)
               PROVE  ComputesRightOn(p.of, c, s, t, w)
    OBVIOUS
  <2>1. Holds("nonnegative", <<s[0]>>)
    <3>1. Holds(p.steps[1].fn, NumbersRead(p.steps[1], Indices(p.steps[1]), s))
      BY DEF PassedOn
    <3> QED
      BY <1>3, <3>1, TestsTest DEF TestsOne, TestsTwo
  <2>2. NumbersRead(c, Indices(c), t) = <<s[0]>>
    BY <1>4 DEF Slots
  <2>3. s[0] \in Int /\ s[1] \in Int /\ s[2] \in Int
    BY DEF Slots
  <2> QED
    BY <1>1, <1>2, <2>1, <2>2, <2>3 DEF ComputesRightOn, ComputesRight, Computes, Meant, Sure, Holds, Magnitude
<1>7. n \in 1 .. 6 /\ n \in DOMAIN p.steps /\ p.steps[n] = c
      /\ Len(p.steps) \in Nat /\ DOMAIN p.steps = 1 .. Len(p.steps)
  BY <1>3
<1>8. \A m \in DOMAIN p.steps \ {n} : Testing(p, m)
  BY <1>3, <1>5
<1> HIDE DEF n
<1>9. Sound(p)
  BY ONLY <1>1, <1>4, <1>6, <1>7, <1>8, TestedDirect
<1> QED
  BY <1>9 DEF p, c

LEMMA RShift0Sound == Sound(BitsAndSigns.RShift0)
<1> DEFINE p == BitsAndSigns.RShift0
           c == Asserted("rshift", <<Result, Src(0)>>)
           n == 2
<1>1. p.lib = "openssl" /\ p.of = "rshift" /\ p.steps = <<Word, c>>
  BY DEF BitsAndSigns, OpenSSL, Program
<1>2. c.fn = "rshift" /\ c.args = <<Result, Src(0)>> /\ c.into = 1 /\ c.failing = "aborted"
  BY DEF Asserted, Call
<1> HIDE DEF p, c
<1>3. /\ p.steps[1] = Word /\ p.steps[2] = c
      /\ DOMAIN p.steps = 1 .. 2 /\ Len(p.steps) = 2
  BY <1>1
<1>4. Computing("openssl", c) /\ Direct(c) /\ \A t : NumbersRead(c, Indices(c), t) = <<t[0]>>
  BY <1>2, OneInFront DEF Ordinary, Res, Result
<1>5. /\ Testing(p, 1)
  BY <1>1, <1>3, WordTests DEF Testing, TestsOne, TestsTwo
<1>6. \A s \in [Slots -> Int] : \A t, w :
        /\ \A i \in Slots : t[i] = s[i]
        /\ n > 1 /\ p.steps[1].fn = "word" => w = s[1]
        /\ PassedOn(p, n, s)
        => ComputesRightOn(p.of, c, s, t, w)
  <2> SUFFICES ASSUME NEW s \in [Slots -> Int], NEW t, NEW w, \A i \in Slots : t[i] = s[i],
                      n > 1 /\ p.steps[1].fn = "word" => w = s[1], PassedOn(p, n, s)
               PROVE  ComputesRightOn(p.of, c, s, t, w)
    OBVIOUS
  <2>1. NumbersRead(c, Indices(c), t) = <<s[0]>>
    BY <1>4 DEF Slots
  <2>2. w = s[1]
    BY <1>3, WordTests
  <2>3. s[0] \in Int /\ s[1] \in Int /\ s[2] \in Int
    BY DEF Slots
  <2> QED
    BY <1>1, <1>2, <2>1, <2>2, <2>3 DEF ComputesRightOn, ComputesRight, Computes, Meant, Sure, Holds, Magnitude
<1>7. n \in 1 .. 6 /\ n \in DOMAIN p.steps /\ p.steps[n] = c
      /\ Len(p.steps) \in Nat /\ DOMAIN p.steps = 1 .. Len(p.steps)
  BY <1>3
<1>8. \A m \in DOMAIN p.steps \ {n} : Testing(p, m)
  BY <1>3, <1>5
<1> HIDE DEF n
<1>9. Sound(p)
  BY ONLY <1>1, <1>4, <1>6, <1>7, <1>8, TestedDirect
<1> QED
  BY <1>9 DEF p, c

LEMMA WolfAddMod1Sound == Sound(WolfCryptPrograms.WolfAddMod1)
<1> DEFINE p == WolfCryptPrograms.WolfAddMod1
           c == Wolf("add_mod", <<Src(0), Src(1), Src(2), Res>>)
           n == 6
<1>1. p.lib = "wolfcrypt" /\ p.of = "add_mod" /\ p.steps = <<Nonnegative(0), Nonnegative(1), Nonnegative(2), Less(0, 1), Less(1, 2), c, Copied>>
  BY DEF WolfCryptPrograms, WolfCrypt, Program
<1>2. c.fn = "add_mod" /\ c.args = <<Src(0), Src(1), Src(2), Res>> /\ c.into = 4 /\ c.failing = "none"
  BY DEF Wolf, Call
<1> HIDE DEF p, c
<1>3. /\ p.steps[1] = Nonnegative(0) /\ p.steps[2] = Nonnegative(1) /\ p.steps[3] = Nonnegative(2) /\ p.steps[4] = Less(0, 1) /\ p.steps[5] = Less(1, 2) /\ p.steps[6] = c /\ p.steps[7] = Copied
      /\ DOMAIN p.steps = 1 .. 7 /\ Len(p.steps) = 7
  BY <1>1
<1>4. Computing("wolfcrypt", c) /\ Placed(c) /\ \A t : NumbersRead(c, Indices(c), t) = <<t[0], t[1], t[2]>>
  BY <1>2, ThreeBehind DEF Ordinary, Res, Result
<1>5. /\ Testing(p, 1)
      /\ Testing(p, 2)
      /\ Testing(p, 3)
      /\ Testing(p, 4)
      /\ Testing(p, 5)
  BY <1>1, <1>3, TestsTest DEF Testing, TestsOne, TestsTwo
<1>6. \A s \in [Slots -> Int] : \A t, w :
        /\ \A i \in Slots : t[i] = s[i]
        /\ n > 1 /\ p.steps[1].fn = "word" => w = s[1]
        /\ PassedOn(p, n, s)
        => ComputesRightOn(p.of, c, s, t, w)
  <2> SUFFICES ASSUME NEW s \in [Slots -> Int], NEW t, NEW w, \A i \in Slots : t[i] = s[i],
                      n > 1 /\ p.steps[1].fn = "word" => w = s[1], PassedOn(p, n, s)
               PROVE  ComputesRightOn(p.of, c, s, t, w)
    OBVIOUS
  <2>1. Holds("nonnegative", <<s[0]>>)
    <3>1. Holds(p.steps[1].fn, NumbersRead(p.steps[1], Indices(p.steps[1]), s))
      BY DEF PassedOn
    <3> QED
      BY <1>3, <3>1, TestsTest DEF TestsOne, TestsTwo
  <2>2. Holds("nonnegative", <<s[1]>>)
    <3>1. Holds(p.steps[2].fn, NumbersRead(p.steps[2], Indices(p.steps[2]), s))
      BY DEF PassedOn
    <3> QED
      BY <1>3, <3>1, TestsTest DEF TestsOne, TestsTwo
  <2>3. Holds("nonnegative", <<s[2]>>)
    <3>1. Holds(p.steps[3].fn, NumbersRead(p.steps[3], Indices(p.steps[3]), s))
      BY DEF PassedOn
    <3> QED
      BY <1>3, <3>1, TestsTest DEF TestsOne, TestsTwo
  <2>4. Holds("less", <<s[0], s[1]>>)
    <3>1. Holds(p.steps[4].fn, NumbersRead(p.steps[4], Indices(p.steps[4]), s))
      BY DEF PassedOn
    <3> QED
      BY <1>3, <3>1, TestsTest DEF TestsOne, TestsTwo
  <2>5. Holds("less", <<s[1], s[2]>>)
    <3>1. Holds(p.steps[5].fn, NumbersRead(p.steps[5], Indices(p.steps[5]), s))
      BY DEF PassedOn
    <3> QED
      BY <1>3, <3>1, TestsTest DEF TestsOne, TestsTwo
  <2>6. NumbersRead(c, Indices(c), t) = <<s[0], s[1], s[2]>>
    BY <1>4 DEF Slots
  <2>7. s[0] \in Int /\ s[1] \in Int /\ s[2] \in Int
    BY DEF Slots
  <2> QED
    BY <1>1, <1>2, <2>1, <2>2, <2>3, <2>4, <2>5, <2>6, <2>7 DEF ComputesRightOn, ComputesRight, Computes, Meant, Sure, Holds, Magnitude
<1>7. n \in 1 .. 6 /\ n \in DOMAIN p.steps /\ p.steps[n] = c /\ n + 1 \in DOMAIN p.steps /\ p.steps[n + 1] = Copied
      /\ Len(p.steps) \in Nat /\ DOMAIN p.steps = 1 .. Len(p.steps)
  BY <1>3
<1>8. \A m \in DOMAIN p.steps \ {n, n + 1} : Testing(p, m)
  BY <1>3, <1>5
<1> HIDE DEF n
<1>9. Sound(p)
  BY ONLY <1>1, <1>4, <1>6, <1>7, <1>8, TestedPlaced
<1> QED
  BY <1>9 DEF p, c

LEMMA WolfAdd1Sound == Sound(WolfCryptPrograms.WolfAdd1)
<1> DEFINE p == WolfCryptPrograms.WolfAdd1
           c == Wolf("add_word", <<Src(0), Res>>)
           n == 2
<1>1. p.lib = "wolfcrypt" /\ p.of = "add" /\ p.steps = <<Word, c, Copied>>
  BY DEF WolfCryptPrograms, WolfCrypt, Program
<1>2. c.fn = "add_word" /\ c.args = <<Src(0), Res>> /\ c.into = 2 /\ c.failing = "none"
  BY DEF Wolf, Call
<1> HIDE DEF p, c
<1>3. /\ p.steps[1] = Word /\ p.steps[2] = c /\ p.steps[3] = Copied
      /\ DOMAIN p.steps = 1 .. 3 /\ Len(p.steps) = 3
  BY <1>1
<1>4. Computing("wolfcrypt", c) /\ Placed(c) /\ \A t : NumbersRead(c, Indices(c), t) = <<t[0]>>
  BY <1>2, OneBehind DEF Ordinary, Res, Result
<1>5. /\ Testing(p, 1)
  BY <1>1, <1>3, WordTests DEF Testing, TestsOne, TestsTwo
<1>6. \A s \in [Slots -> Int] : \A t, w :
        /\ \A i \in Slots : t[i] = s[i]
        /\ n > 1 /\ p.steps[1].fn = "word" => w = s[1]
        /\ PassedOn(p, n, s)
        => ComputesRightOn(p.of, c, s, t, w)
  <2> SUFFICES ASSUME NEW s \in [Slots -> Int], NEW t, NEW w, \A i \in Slots : t[i] = s[i],
                      n > 1 /\ p.steps[1].fn = "word" => w = s[1], PassedOn(p, n, s)
               PROVE  ComputesRightOn(p.of, c, s, t, w)
    OBVIOUS
  <2>1. NumbersRead(c, Indices(c), t) = <<s[0]>>
    BY <1>4 DEF Slots
  <2>2. w = s[1]
    BY <1>3, WordTests
  <2>3. s[0] \in Int /\ s[1] \in Int /\ s[2] \in Int
    BY DEF Slots
  <2> QED
    BY <1>1, <1>2, <2>1, <2>2, <2>3 DEF ComputesRightOn, ComputesRight, Computes, Meant, Sure, Holds, Magnitude
<1>7. n \in 1 .. 6 /\ n \in DOMAIN p.steps /\ p.steps[n] = c /\ n + 1 \in DOMAIN p.steps /\ p.steps[n + 1] = Copied
      /\ Len(p.steps) \in Nat /\ DOMAIN p.steps = 1 .. Len(p.steps)
  BY <1>3
<1>8. \A m \in DOMAIN p.steps \ {n, n + 1} : Testing(p, m)
  BY <1>3, <1>5
<1> HIDE DEF n
<1>9. Sound(p)
  BY ONLY <1>1, <1>4, <1>6, <1>7, <1>8, TestedPlaced
<1> QED
  BY <1>9 DEF p, c

LEMMA WolfRShift1Sound == Sound(WolfCryptPrograms.WolfRShift1)
<1> DEFINE p == WolfCryptPrograms.WolfRShift1
           c == Call("rshift", <<Src(0), Result, Opt(3)>>, 2, "none")
           n == 2
<1>1. p.lib = "wolfcrypt" /\ p.of = "rshift" /\ p.steps = <<Word, c>>
  BY DEF WolfCryptPrograms, WolfCrypt, Program
<1>2. c.fn = "rshift" /\ c.args = <<Src(0), Result, Opt(3)>> /\ c.into = 2 /\ c.failing = "none"
  BY DEF Call
<1> HIDE DEF p, c
<1>3. /\ p.steps[1] = Word /\ p.steps[2] = c
      /\ DOMAIN p.steps = 1 .. 2 /\ Len(p.steps) = 2
  BY <1>1
<1>4. Computing("wolfcrypt", c) /\ Direct(c) /\ \A t : NumbersRead(c, Indices(c), t) = <<t[0]>>
  BY <1>2, ShiftBehind DEF Ordinary, Res, Result
<1>5. /\ Testing(p, 1)
  BY <1>1, <1>3, WordTests DEF Testing, TestsOne, TestsTwo
<1>6. \A s \in [Slots -> Int] : \A t, w :
        /\ \A i \in Slots : t[i] = s[i]
        /\ n > 1 /\ p.steps[1].fn = "word" => w = s[1]
        /\ PassedOn(p, n, s)
        => ComputesRightOn(p.of, c, s, t, w)
  <2> SUFFICES ASSUME NEW s \in [Slots -> Int], NEW t, NEW w, \A i \in Slots : t[i] = s[i],
                      n > 1 /\ p.steps[1].fn = "word" => w = s[1], PassedOn(p, n, s)
               PROVE  ComputesRightOn(p.of, c, s, t, w)
    OBVIOUS
  <2>1. NumbersRead(c, Indices(c), t) = <<s[0]>>
    BY <1>4 DEF Slots
  <2>2. w = s[1]
    BY <1>3, WordTests
  <2>3. s[0] \in Int /\ s[1] \in Int /\ s[2] \in Int
    BY DEF Slots
  <2> QED
    BY <1>1, <1>2, <2>1, <2>2, <2>3 DEF ComputesRightOn, ComputesRight, Computes, Meant, Sure, Holds, Magnitude
<1>7. n \in 1 .. 6 /\ n \in DOMAIN p.steps /\ p.steps[n] = c
      /\ Len(p.steps) \in Nat /\ DOMAIN p.steps = 1 .. Len(p.steps)
  BY <1>3
<1>8. \A m \in DOMAIN p.steps \ {n} : Testing(p, m)
  BY <1>3, <1>5
<1> HIDE DEF n
<1>9. Sound(p)
  BY ONLY <1>1, <1>4, <1>6, <1>7, <1>8, TestedDirect
<1> QED
  BY <1>9 DEF p, c

LEMMA WolfDiv0Sound == Sound(WolfCryptPrograms.WolfDiv0)
<1> DEFINE p == WolfCryptPrograms.WolfDiv0
           c == Sequenced(Call("div", <<Res, Opt(3), Src(0), Src(1)>>, 1, "none"))
           n == 1
<1>1. p.lib = "wolfcrypt" /\ p.of = "div" /\ p.steps = <<c, Copied, Nonnegative(0)>>
  BY DEF WolfCryptPrograms, WolfCrypt, Program
<1>2. c.fn = "div" /\ c.args = <<Res, Opt(3), Src(0), Src(1)>> /\ c.into = 1 /\ c.failing = "none"
  BY DEF Sequenced, Call
<1> HIDE DEF p, c
<1>3. /\ p.steps[1] = c /\ p.steps[2] = Copied /\ p.steps[3] = Nonnegative(0)
      /\ DOMAIN p.steps = 1 .. 3 /\ Len(p.steps) = 3
  BY <1>1
<1>4. Computing("wolfcrypt", c) /\ Placed(c) /\ \A t : NumbersRead(c, Indices(c), t) = <<t[0], t[1]>>
  BY <1>2, QuotientInFront DEF Ordinary, Res, Result
<1>5. /\ Testing(p, 3)
  BY <1>1, <1>3, TestsTest DEF Testing, TestsOne, TestsTwo
<1>6. \A s \in [Slots -> Int] : \A t, w :
        /\ \A i \in Slots : t[i] = s[i]
        /\ n > 1 /\ p.steps[1].fn = "word" => w = s[1]
        /\ PassedOn(p, n, s)
        => ComputesRightOn(p.of, c, s, t, w)
  <2> SUFFICES ASSUME NEW s \in [Slots -> Int], NEW t, NEW w, \A i \in Slots : t[i] = s[i],
                      n > 1 /\ p.steps[1].fn = "word" => w = s[1], PassedOn(p, n, s)
               PROVE  ComputesRightOn(p.of, c, s, t, w)
    OBVIOUS
  <2>1. NumbersRead(c, Indices(c), t) = <<s[0], s[1]>>
    BY <1>4 DEF Slots
  <2>2. s[0] \in Int /\ s[1] \in Int /\ s[2] \in Int
    BY DEF Slots
  <2> QED
    BY <1>1, <1>2, <2>1, <2>2 DEF ComputesRightOn, ComputesRight, Computes, Meant, Sure, Holds, Magnitude
<1>7. n \in 1 .. 6 /\ n \in DOMAIN p.steps /\ p.steps[n] = c /\ n + 1 \in DOMAIN p.steps /\ p.steps[n + 1] = Copied
      /\ Len(p.steps) \in Nat /\ DOMAIN p.steps = 1 .. Len(p.steps)
  BY <1>3
<1>8. \A m \in DOMAIN p.steps \ {n, n + 1} : Testing(p, m)
  BY <1>3, <1>5
<1> HIDE DEF n
<1>9. Sound(p)
  BY ONLY <1>1, <1>4, <1>6, <1>7, <1>8, TestedPlaced
<1> QED
  BY <1>9 DEF p, c

LEMMA InvMod0Sound == Sound(ModularPrograms.InvMod0)
<1> DEFINE p == ModularPrograms.InvMod0
           c == Sequenced(Call("inverse", <<Res, Src(0), Src(1)>>, 1, "zero"))
           n == 1
<1>1. p.lib = "openssl" /\ p.of = "inverse" /\ p.steps = <<c, Copied>>
  BY DEF ModularPrograms, OpenSSL, Program
<1>2. c.fn = "inverse" /\ c.args = <<Res, Src(0), Src(1)>> /\ c.into = 1 /\ c.failing = "zero"
  BY DEF Sequenced, Call
<1> HIDE DEF p, c
<1>3. /\ p.steps[1] = c /\ p.steps[2] = Copied
      /\ DOMAIN p.steps = 1 .. 2 /\ Len(p.steps) = 2
  BY <1>1
<1>4. Computing("openssl", c) /\ Placed(c) /\ \A t : NumbersRead(c, Indices(c), t) = <<t[0], t[1]>>
  BY <1>2, TwoInFront DEF Ordinary, Res, Result
<1>6. \A s \in [Slots -> Int] : \A t, w :
        /\ \A i \in Slots : t[i] = s[i]
        /\ n > 1 /\ p.steps[1].fn = "word" => w = s[1]
        /\ PassedOn(p, n, s)
        => ComputesRightOn(p.of, c, s, t, w)
  <2> SUFFICES ASSUME NEW s \in [Slots -> Int], NEW t, NEW w, \A i \in Slots : t[i] = s[i],
                      n > 1 /\ p.steps[1].fn = "word" => w = s[1], PassedOn(p, n, s)
               PROVE  ComputesRightOn(p.of, c, s, t, w)
    OBVIOUS
  <2>1. NumbersRead(c, Indices(c), t) = <<s[0], s[1]>>
    BY <1>4 DEF Slots
  <2>2. s[0] \in Int /\ s[1] \in Int /\ s[2] \in Int
    BY DEF Slots
  <2> QED
    BY <1>1, <1>2, <2>1, <2>2 DEF ComputesRightOn, ComputesRight, Computes, Meant, Sure, Holds, Magnitude
<1>7. n \in 1 .. 6 /\ n \in DOMAIN p.steps /\ p.steps[n] = c /\ n + 1 \in DOMAIN p.steps /\ p.steps[n + 1] = Copied
      /\ Len(p.steps) \in Nat /\ DOMAIN p.steps = 1 .. Len(p.steps)
  BY <1>3
<1>8. \A m \in DOMAIN p.steps \ {n, n + 1} : Testing(p, m)
  BY <1>3
<1> HIDE DEF n
<1>9. Sound(p)
  BY ONLY <1>1, <1>4, <1>6, <1>7, <1>8, TestedPlaced
<1> QED
  BY <1>9 DEF p, c

LEMMA NegSound == Sound(BitsAndSigns.Neg)
<1> DEFINE c == Checked("copy", <<Result, Src(0)>>)
           d == Asserted("neg", <<Result, Src(0)>>)
           p == BitsAndSigns.Neg
<1>1. p.lib = "openssl" /\ p.of = "neg" /\ p.steps = <<c, d>>
  BY DEF BitsAndSigns, OpenSSL, Program
<1>2. /\ c.fn = "copy" /\ c.args = <<Result, Src(0)>> /\ c.into = 1 /\ c.failing = "none"
      /\ d.fn = "neg" /\ d.args = <<Result, Src(0)>> /\ d.into = 1 /\ d.failing = "aborted"
  BY DEF Checked, Asserted, Call
<1> HIDE DEF p, c, d
<1>3. p.steps[1] = c /\ p.steps[2] = d /\ DOMAIN p.steps = 1 .. 2 /\ Len(p.steps) = 2
  BY <1>1
<1>4. Harmless("openssl", c) /\ IsCopy(c)
  BY <1>2, CopyCopies
<1>5. Computing("openssl", d) /\ Direct(d) /\ \A t : NumbersRead(d, Indices(d), t) = <<t[0]>>
  BY <1>2, OneInFront DEF Ordinary, Res, Result
<1>6. Right(p, 2)
  <2> SUFFICES ASSUME NEW s \in [Slots -> Int], NEW t, NEW w, Known(p, 2, s, t, w)
               PROVE  ComputesRight("neg", d, <<t[0]>>, s, w)
    BY <1>1, <1>3, <1>5 DEF Right
  <2>1. ~Doubled(p, 2)
    BY <1>2, <1>3 DEF Doubled
  <2>2. t[0] = s[0]
    BY <2>1 DEF Known, Expected, Slots
  <2> QED
    BY <1>2, <2>2 DEF ComputesRight, Computes, Meant, Sure
<1>7. Decisive(p, 2)
  <2>1. ~Doubled(p, 1)
    BY DEF Doubled
  <2> QED
    BY <1>3, <1>4, <1>5, <1>6, <2>1 DEF Decisive, Computing, Harmless
<1>8. GoodProgram(p)
  BY <1>1, <1>2, <1>3, <1>4, <1>5 DEF GoodProgram, Computing, Harmless
<1>9. Sound(p)
  BY <1>7, <1>8 DEF Sound
<1> QED
  BY <1>9 DEF p, c, d

LEMMA WolfSetBitSound == Sound(WolfCryptPrograms.WolfSetBit)
<1> DEFINE c == Wolf("copy", <<Src(0), Result>>)
           d == Wolf("set_bit", <<Result>>)
           p == WolfCryptPrograms.WolfSetBit
<1>1. p.lib = "wolfcrypt" /\ p.of = "set_bit" /\ p.steps = <<Word, c, d>>
  BY DEF WolfCryptPrograms, WolfCrypt, Program
<1>2. /\ c.fn = "copy" /\ c.args = <<Src(0), Result>> /\ c.into = 2 /\ c.failing = "none"
      /\ d.fn = "set_bit" /\ d.args = <<Result>> /\ d.into = 1 /\ d.failing = "none"
  BY DEF Wolf, Call
<1> HIDE DEF p, c, d
<1>3. p.steps[1] = Word /\ p.steps[2] = c /\ p.steps[3] = d /\ DOMAIN p.steps = 1 .. 3 /\ Len(p.steps) = 3
  BY <1>1
<1>11. Harmless("wolfcrypt", Word) /\ IsTest(Word) /\ Word.fn = "word"
  BY WordTests
<1>4. Harmless("wolfcrypt", c) /\ IsCopy(c)
  BY <1>2, CopyCopies
<1>5. Computing("wolfcrypt", d) /\ Direct(d) /\ \A t : NumbersRead(d, Indices(d), t) = <<t[4]>>
  BY <1>2, AltersResult
<1>6. Right(p, 3)
  <2> SUFFICES ASSUME NEW s \in [Slots -> Int], NEW t, NEW w, Known(p, 3, s, t, w)
               PROVE  ComputesRight("set_bit", d, <<t[4]>>, s, w)
    BY <1>1, <1>3, <1>5 DEF Right
  <2>1. t[4] = s[0] /\ w = s[1]
    BY <1>2, <1>3, <1>11 DEF Known, Out
  <2> QED
    BY <1>2, <2>1 DEF ComputesRight, Computes, Meant, Sure
<1>7. Decisive(p, 3)
  <2>1. ~Doubled(p, 2)
    BY <1>3, <1>11 DEF Doubled
  <2> QED
    BY <1>3, <1>11, <1>4, <1>5, <1>6, <2>1 DEF Decisive, Computing, Harmless
<1>8. GoodProgram(p)
  BY <1>1, <1>2, <1>3, <1>11, <1>4, <1>5 DEF GoodProgram, Computing, Harmless
<1>9. Sound(p)
  BY <1>7, <1>8 DEF Sound
<1> QED
  BY <1>9 DEF p, c, d

LEMMA WolfMod2Sound == Sound(WolfCryptPrograms.WolfMod2)
<1> DEFINE c == Wolf("double", <<Src(0), Dest(0)>>)
           d == Wolf("halve", <<Src(0), Src(1), Res>>)
           p == WolfCryptPrograms.WolfMod2
<1>1. p.lib = "wolfcrypt" /\ p.of = "mod" /\ p.steps = <<Nonnegative(0), c, Less(0, 1), d, Copied>>
  BY DEF WolfCryptPrograms, WolfCrypt, Program
<1>2. /\ c.fn = "double" /\ c.args = <<Src(0), Dest(0)>> /\ c.into = 2 /\ c.failing = "none"
      /\ d.fn = "halve" /\ d.args = <<Src(0), Src(1), Res>> /\ d.into = 3 /\ d.failing = "none"
  BY DEF Wolf, Call
<1> HIDE DEF p, c, d
<1>3. /\ p.steps[1] = Nonnegative(0) /\ p.steps[2] = c /\ p.steps[3] = Less(0, 1)
      /\ p.steps[4] = d /\ p.steps[5] = Copied
      /\ DOMAIN p.steps = 1 .. 5 /\ Len(p.steps) = 5
  BY <1>1
<1>12. /\ Harmless("wolfcrypt", p.steps[1]) /\ IsTest(p.steps[1]) /\ p.steps[1].fn = "nonnegative"
      /\ Harmless("wolfcrypt", p.steps[3]) /\ IsTest(p.steps[3]) /\ p.steps[3].fn = "less"
  BY <1>3, TestsTest DEF TestsOne, TestsTwo
<1>10. Harmless("wolfcrypt", p.steps[5]) /\ p.steps[5].fn = "CopyResult"
  BY <1>3, CopiedHarmless
<1>4. Harmless("wolfcrypt", c) /\ IsDoubling(c)
  <2>1. GoodArgs("wolfcrypt", c) /\ \A at, t : NumbersRead(c, at, t) = <<t[at[1]], t[at[2]]>>
    BY <1>2, OneIntoItself
  <2>2. Indices(c)[1] = 0
    BY <1>2 DEF Indices, Src
  <2> QED
    BY <1>2, <2>1, <2>2
       DEF Harmless, GoodCall, NoRes, IsDoubling, Direct, Placed, InPlace, Src, Dest
<1>5. Computing("wolfcrypt", d) /\ Placed(d) /\ \A t : NumbersRead(d, Indices(d), t) = <<t[0], t[1]>>
  BY <1>2, TwoBehind DEF Ordinary
<1>6. Right(p, 4)
  <2> SUFFICES ASSUME NEW s \in [Slots -> Int], NEW t, NEW w, Known(p, 4, s, t, w)
               PROVE  ComputesRight("mod", d, <<t[0], t[1]>>, s, w)
    BY <1>1, <1>3, <1>5 DEF Right
  <2>1. Doubled(p, 4)
    BY <1>2, <1>3 DEF Doubled
  <2>2. t[0] = 2 * s[0] /\ t[1] = s[1]
    BY <2>1 DEF Known, Expected, Slots
  <2>3. t[0] \div 2 = s[0]
    <3>1. s[0] \in Int
      BY DEF Slots
    <3> QED
      BY <2>2, <3>1
  <2> QED
    BY <1>2, <2>2, <2>3 DEF ComputesRight, Computes, Meant
<1>7. Decisive(p, 4)
  <2>1. ~Doubled(p, 2)
    BY <1>12 DEF Doubled
  <2> QED
    BY <1>3, <1>12, <1>10, <1>4, <1>5, <1>6, <2>1 DEF Decisive, Computing, Harmless
<1>8. GoodProgram(p)
  BY <1>1, <1>2, <1>3, <1>12, <1>10, <1>4, <1>5 DEF GoodProgram, Computing, Harmless
<1>9. Sound(p)
  BY <1>7, <1>8 DEF Sound
<1> QED
  BY <1>9 DEF p, c, d

LEMMA SumsAndProductsSound ==
  \A n \in DOMAIN SumsAndProducts : Sound(SumsAndProducts[n])
<1>1. Sound(SumsAndProducts.Add0)
  <2> DEFINE p == SumsAndProducts.Add0
             c == p.steps[1]
  <2>1. /\ p.of = "add" /\ p.steps = <<c, Copied>>
        /\ c.fn = "add" /\ c.args = <<Res, Src(0), Src(1)>> /\ c.into = 1 /\ c.failing = "aborted"
    BY DEF SumsAndProducts, OpenSSL, Program, Asserted, Call
  <2> HIDE DEF p, c
  <2>2. \A s \in [Slots -> Int] : \A w : ComputesRight(p.of, c, <<s[0], s[1]>>, s, w)
    BY <2>1 DEF ComputesRight, Computes, Meant, Sure
  <2>3. Sound(p)
    BY <2>1, <2>2, PlacedTwo DEF Ordinary
  <2> QED
    BY <2>3 DEF p
<1>2. Sound(SumsAndProducts.Add2)
  <2> DEFINE p == SumsAndProducts.Add2
             c == p.steps[2]
             d == p.steps[3]
  <2>1. /\ p.of = "add" /\ p.steps = <<Word, c, d>>
        /\ c.fn = "add_word" /\ c.args = <<Dest(0)>> /\ c.into = 1 /\ c.failing = "aborted"
        /\ d.fn = "copy" /\ d.args = <<Result, Src(0)>> /\ d.into = 1 /\ d.failing = "none"
    BY DEF SumsAndProducts, OpenSSL, Program, Asserted, Checked, Call
  <2> HIDE DEF p, c, d
  <2>2. \A s \in [Slots -> Int] : ComputesRight(p.of, c, <<s[0]>>, s, s[1])
    BY <2>1 DEF ComputesRight, Computes, Meant, Sure
  <2>3. Sound(p)
    BY <2>1, <2>2, InPlaceOne
  <2> QED
    BY <2>3 DEF p
<1>3. Sound(SumsAndProducts.Sub0)
  <2> DEFINE p == SumsAndProducts.Sub0
             c == p.steps[1]
  <2>1. /\ p.of = "sub" /\ p.steps = <<c, Copied>>
        /\ c.fn = "sub" /\ c.args = <<Res, Src(0), Src(1)>> /\ c.into = 1 /\ c.failing = "aborted"
    BY DEF SumsAndProducts, OpenSSL, Program, Asserted, Call
  <2> HIDE DEF p, c
  <2>2. \A s \in [Slots -> Int] : \A w : ComputesRight(p.of, c, <<s[0], s[1]>>, s, w)
    BY <2>1 DEF ComputesRight, Computes, Meant, Sure
  <2>3. Sound(p)
    BY <2>1, <2>2, PlacedTwo DEF Ordinary
  <2> QED
    BY <2>3 DEF p
<1>4. Sound(SumsAndProducts.Sub2)
  <2> DEFINE p == SumsAndProducts.Sub2
             c == p.steps[2]
             d == p.steps[3]
  <2>1. /\ p.of = "sub" /\ p.steps = <<Word, c, d>>
        /\ c.fn = "sub_word" /\ c.args = <<Dest(0)>> /\ c.into = 1 /\ c.failing = "aborted"
        /\ d.fn = "copy" /\ d.args = <<Result, Src(0)>> /\ d.into = 1 /\ d.failing = "none"
    BY DEF SumsAndProducts, OpenSSL, Program, Asserted, Checked, Call
  <2> HIDE DEF p, c, d
  <2>2. \A s \in [Slots -> Int] : ComputesRight(p.of, c, <<s[0]>>, s, s[1])
    BY <2>1 DEF ComputesRight, Computes, Meant, Sure
  <2>3. Sound(p)
    BY <2>1, <2>2, InPlaceOne
  <2> QED
    BY <2>3 DEF p
<1>5. Sound(SumsAndProducts.Mul0)
  <2> DEFINE p == SumsAndProducts.Mul0
             c == p.steps[1]
  <2>1. /\ p.of = "mul" /\ p.steps = <<c, Copied>>
        /\ c.fn = "mul" /\ c.args = <<Res, Src(0), Src(1)>> /\ c.into = 1 /\ c.failing = "aborted"
    BY DEF SumsAndProducts, OpenSSL, Program, Asserted, Call
  <2> HIDE DEF p, c
  <2>2. \A s \in [Slots -> Int] : \A w : ComputesRight(p.of, c, <<s[0], s[1]>>, s, w)
    BY <2>1 DEF ComputesRight, Computes, Meant, Sure
  <2>3. Sound(p)
    BY <2>1, <2>2, PlacedTwo DEF Ordinary
  <2> QED
    BY <2>3 DEF p
<1>6. Sound(SumsAndProducts.Mul1)
  <2> DEFINE p == SumsAndProducts.Mul1
             c == p.steps[2]
             d == p.steps[3]
  <2>1. /\ p.of = "mul" /\ p.steps = <<Word, c, d>>
        /\ c.fn = "mul_word" /\ c.args = <<Dest(0)>> /\ c.into = 1 /\ c.failing = "aborted"
        /\ d.fn = "copy" /\ d.args = <<Result, Src(0)>> /\ d.into = 1 /\ d.failing = "none"
    BY DEF SumsAndProducts, OpenSSL, Program, Asserted, Checked, Call
  <2> HIDE DEF p, c, d
  <2>2. \A s \in [Slots -> Int] : ComputesRight(p.of, c, <<s[0]>>, s, s[1])
    BY <2>1 DEF ComputesRight, Computes, Meant, Sure
  <2>3. Sound(p)
    BY <2>1, <2>2, InPlaceOne
  <2> QED
    BY <2>3 DEF p
<1> QED
  BY <1>1, Add1Sound, <1>2, <1>3, <1>4, <1>5, <1>6 DEF SumsAndProducts

LEMMA PowersSound ==
  \A n \in DOMAIN Powers : Sound(Powers[n])
<1>1. Sound(Powers.ExpMod2)
  <2> DEFINE p == Powers.ExpMod2
             c == p.steps[1]
  <2>1. /\ p.of = "exp_mod" /\ p.steps = <<c>>
        /\ c.fn = "exp_mod" /\ c.args = <<Result, Src(0), Src(1), Src(2)>> /\ c.into = 1 /\ c.failing = "excused"
    BY DEF Powers, OpenSSL, Program, Excusable, Call
  <2> HIDE DEF p, c
  <2>2. \A s \in [Slots -> Int] : \A w : ComputesRight(p.of, c, <<s[0], s[1], s[2]>>, s, w)
    BY <2>1 DEF ComputesRight, Computes, Meant, Sure
  <2>3. Sound(p)
    BY <2>1, <2>2, DirectThree DEF Ordinary
  <2> QED
    BY <2>3 DEF p
<1>2. Sound(Powers.ExpMod4)
  <2> DEFINE p == Powers.ExpMod4
             c == p.steps[1]
  <2>1. /\ p.of = "exp_mod" /\ p.steps = <<c>>
        /\ c.fn = "exp_mod_x2" /\ c.args = <<Result, Src(0), Src(1), Src(2)>> /\ c.into = 1 /\ c.failing = "none"
    BY DEF Powers, OpenSSL, Program, Checked, Sequenced, Call
  <2> HIDE DEF p, c
  <2>2. \A s \in [Slots -> Int] : \A w : ComputesRight(p.of, c, <<s[0], s[1], s[2]>>, s, w)
    BY <2>1 DEF ComputesRight, Computes, Meant, Sure
  <2>3. Sound(p)
    BY <2>1, <2>2, DirectThree DEF Ordinary
  <2> QED
    BY <2>3 DEF p
<1> QED
  BY Mod0Sound, <1>1, <1>2 DEF Powers

LEMMA ModularProgramsSound ==
  \A n \in DOMAIN ModularPrograms : Sound(ModularPrograms[n])
<1>1. Sound(ModularPrograms.Sqr)
  <2> DEFINE p == ModularPrograms.Sqr
             c == p.steps[1]
  <2>1. /\ p.of = "sqr" /\ p.steps = <<c, Copied>>
        /\ c.fn = "sqr" /\ c.args = <<Res, Src(0)>> /\ c.into = 1 /\ c.failing = "aborted"
    BY DEF ModularPrograms, OpenSSL, Program, Asserted, Call
  <2> HIDE DEF p, c
  <2>2. \A s \in [Slots -> Int] : \A w : ComputesRight(p.of, c, <<s[0]>>, s, w)
    BY <2>1 DEF ComputesRight, Computes, Meant, Sure
  <2>3. Sound(p)
    BY <2>1, <2>2, PlacedOne DEF Ordinary
  <2> QED
    BY <2>3 DEF p
<1>2. Sound(ModularPrograms.GCD0)
  <2> DEFINE p == ModularPrograms.GCD0
             c == p.steps[1]
  <2>1. /\ p.of = "gcd" /\ p.steps = <<c, Copied>>
        /\ c.fn = "gcd" /\ c.args = <<Res, Src(0), Src(1)>> /\ c.into = 1 /\ c.failing = "aborted"
    BY DEF ModularPrograms, OpenSSL, Program, Asserted, Call
  <2> HIDE DEF p, c
  <2>2. \A s \in [Slots -> Int] : \A w : ComputesRight(p.of, c, <<s[0], s[1]>>, s, w)
    BY <2>1 DEF ComputesRight, Computes, Meant, Sure
  <2>3. Sound(p)
    BY <2>1, <2>2, PlacedTwo DEF Ordinary
  <2> QED
    BY <2>3 DEF p
<1>3. Sound(ModularPrograms.AddMod0)
  <2> DEFINE p == ModularPrograms.AddMod0
             c == p.steps[1]
  <2>1. /\ p.of = "add_mod" /\ p.steps = <<c>>
        /\ c.fn = "add_mod" /\ c.args = <<Result, Src(0), Src(1), Src(2)>> /\ c.into = 1 /\ c.failing = "excused"
    BY DEF ModularPrograms, OpenSSL, Program, Excusable, Call
  <2> HIDE DEF p, c
  <2>2. \A s \in [Slots -> Int] : \A w : ComputesRight(p.of, c, <<s[0], s[1], s[2]>>, s, w)
    BY <2>1 DEF ComputesRight, Computes, Meant, Sure
  <2>3. Sound(p)
    BY <2>1, <2>2, DirectThree DEF Ordinary
  <2> QED
    BY <2>3 DEF p
<1>4. Sound(ModularPrograms.SubMod0)
  <2> DEFINE p == ModularPrograms.SubMod0
             c == p.steps[1]
  <2>1. /\ p.of = "sub_mod" /\ p.steps = <<c>>
        /\ c.fn = "sub_mod" /\ c.args = <<Result, Src(0), Src(1), Src(2)>> /\ c.into = 1 /\ c.failing = "excused"
    BY DEF ModularPrograms, OpenSSL, Program, Excusable, Call
  <2> HIDE DEF p, c
  <2>2. \A s \in [Slots -> Int] : \A w : ComputesRight(p.of, c, <<s[0], s[1], s[2]>>, s, w)
    BY <2>1 DEF ComputesRight, Computes, Meant, Sure
  <2>3. Sound(p)
    BY <2>1, <2>2, DirectThree DEF Ordinary
  <2> QED
    BY <2>3 DEF p
<1>5. Sound(ModularPrograms.MulMod0)
  <2> DEFINE p == ModularPrograms.MulMod0
             c == p.steps[1]
  <2>1. /\ p.of = "mul_mod" /\ p.steps = <<c, Copied>>
        /\ c.fn = "mul_mod" /\ c.args = <<Res, Src(0), Src(1), Src(2)>> /\ c.into = 1 /\ c.failing = "excused"
    BY DEF ModularPrograms, OpenSSL, Program, Excusable, Sequenced, Call
  <2> HIDE DEF p, c
  <2>2. \A s \in [Slots -> Int] : \A w : ComputesRight(p.of, c, <<s[0], s[1], s[2]>>, s, w)
    BY <2>1 DEF ComputesRight, Computes, Meant, Sure
  <2>3. Sound(p)
    BY <2>1, <2>2, PlacedThree DEF Ordinary
  <2> QED
    BY <2>3 DEF p
<1>6. Sound(ModularPrograms.SqrMod0)
  <2> DEFINE p == ModularPrograms.SqrMod0
             c == p.steps[1]
  <2>1. /\ p.of = "sqr_mod" /\ p.steps = <<c>>
        /\ c.fn = "sqr_mod" /\ c.args = <<Result, Src(0), Src(1)>> /\ c.into = 1 /\ c.failing = "excused"
    BY DEF ModularPrograms, OpenSSL, Program, Excusable, Call
  <2> HIDE DEF p, c
  <2>2. \A s \in [Slots -> Int] : \A w : ComputesRight(p.of, c, <<s[0], s[1]>>, s, w)
    BY <2>1 DEF ComputesRight, Computes, Meant, Sure
  <2>3. Sound(p)
    BY <2>1, <2>2, DirectTwo DEF Ordinary
  <2> QED
    BY <2>3 DEF p
<1> QED
  BY <1>1, <1>2, <1>3, AddMod1Sound, <1>4, SubMod1Sound, <1>5, <1>6, InvMod0Sound DEF ModularPrograms

LEMMA QuotientsSound ==
  \A n \in DOMAIN Quotients : Sound(Quotients[n])
<1>1. Sound(Quotients.Cmp0)
  <2> DEFINE p == Quotients.Cmp0
             c == p.steps[1]
  <2>1. /\ p.of = "cmp" /\ p.steps = <<c>>
        /\ c.fn = "cmp" /\ c.args = <<Result, Src(0), Src(1)>> /\ c.into = 1 /\ c.failing = "aborted"
    BY DEF Quotients, OpenSSL, Program, Asserted, Call
  <2> HIDE DEF p, c
  <2>2. \A s \in [Slots -> Int] : \A w : ComputesRight(p.of, c, <<s[0], s[1]>>, s, w)
    BY <2>1 DEF ComputesRight, Computes, Meant, Sure
  <2>3. Sound(p)
    BY <2>1, <2>2, DirectTwo DEF Ordinary
  <2> QED
    BY <2>3 DEF p
<1>2. Sound(Quotients.Div0)
  <2> DEFINE p == Quotients.Div0
             c == p.steps[1]
  <2>1. /\ p.of = "div" /\ p.steps = <<c>>
        /\ c.fn = "div" /\ c.args = <<Result, Src(0), Src(1)>> /\ c.into = 1 /\ c.failing = "excused"
    BY DEF Quotients, OpenSSL, Program, Excusable, Call
  <2> HIDE DEF p, c
  <2>2. \A s \in [Slots -> Int] : \A w : ComputesRight(p.of, c, <<s[0], s[1]>>, s, w)
    BY <2>1 DEF ComputesRight, Computes, Meant, Sure
  <2>3. Sound(p)
    BY <2>1, <2>2, DirectTwo DEF Ordinary
  <2> QED
    BY <2>3 DEF p
<1>3. Sound(Quotients.Div2)
  <2> DEFINE p == Quotients.Div2
             c == p.steps[2]
             d == p.steps[3]
  <2>1. /\ p.of = "div" /\ p.steps = <<Word, c, d>>
        /\ c.fn = "div_word" /\ c.args = <<Dest(0)>> /\ c.into = 1 /\ c.failing = "none"
        /\ d.fn = "copy" /\ d.args = <<Result, Src(0)>> /\ d.into = 1 /\ d.failing = "none"
    BY DEF Quotients, OpenSSL, Program, Checked, Call
  <2> HIDE DEF p, c, d
  <2>2. \A s \in [Slots -> Int] : ComputesRight(p.of, c, <<s[0]>>, s, s[1])
    BY <2>1 DEF ComputesRight, Computes, Meant, Sure
  <2>3. Sound(p)
    BY <2>1, <2>2, InPlaceOne
  <2> QED
    BY <2>3 DEF p
<1> QED
  BY <1>1, <1>2, <1>3 DEF Quotients

LEMMA BitsAndSignsSound ==
  \A n \in DOMAIN BitsAndSigns : n # "Mask" => Sound(BitsAndSigns[n])
<1>1. Sound(BitsAndSigns.Exp)
  <2> DEFINE p == BitsAndSigns.Exp
             c == p.steps[1]
  <2>1. /\ p.of = "exp" /\ p.steps = <<c>>
        /\ c.fn = "exp" /\ c.args = <<Result, Src(0), Src(1)>> /\ c.into = 1 /\ c.failing = "none"
    BY DEF BitsAndSigns, OpenSSL, Program, Checked, Call
  <2> HIDE DEF p, c
  <2>2. \A s \in [Slots -> Int] : \A w : ComputesRight(p.of, c, <<s[0], s[1]>>, s, w)
    BY <2>1 DEF ComputesRight, Computes, Meant, Sure
  <2>3. Sound(p)
    BY <2>1, <2>2, DirectTwo DEF Ordinary
  <2> QED
    BY <2>3 DEF p
<1>2. Sound(BitsAndSigns.LShift1)
  <2> DEFINE p == BitsAndSigns.LShift1
             c == p.steps[1]
  <2>1. /\ p.of = "lshift1" /\ p.steps = <<c>>
        /\ c.fn = "lshift1" /\ c.args = <<Result, Src(0)>> /\ c.into = 1 /\ c.failing = "aborted"
    BY DEF BitsAndSigns, OpenSSL, Program, Asserted, Call
  <2> HIDE DEF p, c
  <2>2. \A s \in [Slots -> Int] : \A w : ComputesRight(p.of, c, <<s[0]>>, s, w)
    BY <2>1 DEF ComputesRight, Computes, Meant, Sure
  <2>3. Sound(p)
    BY <2>1, <2>2, DirectOne DEF Ordinary
  <2> QED
    BY <2>3 DEF p
<1>3. Sound(BitsAndSigns.SetBit)
  <2> DEFINE p == BitsAndSigns.SetBit
             c == p.steps[2]
             d == p.steps[3]
  <2>1. /\ p.of = "set_bit" /\ p.steps = <<Word, c, d>>
        /\ c.fn = "set_bit" /\ c.args = <<Dest(0)>> /\ c.into = 1 /\ c.failing = "aborted"
        /\ d.fn = "copy" /\ d.args = <<Result, Src(0)>> /\ d.into = 1 /\ d.failing = "none"
    BY DEF BitsAndSigns, OpenSSL, Program, Asserted, Checked, Call
  <2> HIDE DEF p, c, d
  <2>2. \A s \in [Slots -> Int] : ComputesRight(p.of, c, <<s[0]>>, s, s[1])
    BY <2>1 DEF ComputesRight, Computes, Meant, Sure
  <2>3. Sound(p)
    BY <2>1, <2>2, InPlaceOne
  <2> QED
    BY <2>3 DEF p
<1>4. Sound(BitsAndSigns.ClearBit)
  <2> DEFINE p == BitsAndSigns.ClearBit
             c == p.steps[2]
             d == p.steps[3]
  <2>1. /\ p.of = "clear_bit" /\ p.steps = <<Word, c, d>>
        /\ c.fn = "clear_bit" /\ c.args = <<Dest(0)>> /\ c.into = 1 /\ c.failing = "none"
        /\ d.fn = "copy" /\ d.args = <<Result, Src(0)>> /\ d.into = 1 /\ d.failing = "none"
    BY DEF BitsAndSigns, OpenSSL, Program, Checked, Call
  <2> HIDE DEF p, c, d
  <2>2. \A s \in [Slots -> Int] : ComputesRight(p.of, c, <<s[0]>>, s, s[1])
    BY <2>1 DEF ComputesRight, Computes, Meant, Sure
  <2>3. Sound(p)
    BY <2>1, <2>2, InPlaceOne
  <2> QED
    BY <2>3 DEF p
<1> QED
  BY <1>1, AbsNegativeSound, AbsElseSound, RShift0Sound, <1>2, <1>3, <1>4, NegSound DEF BitsAndSigns

LEMMA WolfCryptProgramsSound ==
  \A n \in DOMAIN WolfCryptPrograms : Sound(WolfCryptPrograms[n])
<1>1. Sound(WolfCryptPrograms.WolfAdd0)
  <2> DEFINE p == WolfCryptPrograms.WolfAdd0
             c == p.steps[1]
  <2>1. /\ p.of = "add" /\ p.steps = <<c, Copied>>
        /\ c.fn = "add" /\ c.args = <<Src(0), Src(1), Res>> /\ c.into = 3 /\ c.failing = "none"
    BY DEF WolfCryptPrograms, WolfCrypt, Program, Wolf, Call
  <2> HIDE DEF p, c
  <2>2. \A s \in [Slots -> Int] : \A w : ComputesRight(p.of, c, <<s[0], s[1]>>, s, w)
    BY <2>1 DEF ComputesRight, Computes, Meant, Sure
  <2>3. Sound(p)
    BY <2>1, <2>2, BehindTwo DEF Ordinary
  <2> QED
    BY <2>3 DEF p
<1>2. Sound(WolfCryptPrograms.WolfSub0)
  <2> DEFINE p == WolfCryptPrograms.WolfSub0
             c == p.steps[1]
  <2>1. /\ p.of = "sub" /\ p.steps = <<c, Copied>>
        /\ c.fn = "sub" /\ c.args = <<Src(0), Src(1), Res>> /\ c.into = 3 /\ c.failing = "none"
    BY DEF WolfCryptPrograms, WolfCrypt, Program, Wolf, Call
  <2> HIDE DEF p, c
  <2>2. \A s \in [Slots -> Int] : \A w : ComputesRight(p.of, c, <<s[0], s[1]>>, s, w)
    BY <2>1 DEF ComputesRight, Computes, Meant, Sure
  <2>3. Sound(p)
    BY <2>1, <2>2, BehindTwo DEF Ordinary
  <2> QED
    BY <2>3 DEF p
<1>3. Sound(WolfCryptPrograms.WolfMulMod)
  <2> DEFINE p == WolfCryptPrograms.WolfMulMod
             c == p.steps[1]
  <2>1. /\ p.of = "mul_mod" /\ p.steps = <<c, Copied>>
        /\ c.fn = "mul_mod" /\ c.args = <<Src(0), Src(1), Src(2), Res>> /\ c.into = 4 /\ c.failing = "none"
    BY DEF WolfCryptPrograms, WolfCrypt, Program, Wolf, Call
  <2> HIDE DEF p, c
  <2>2. \A s \in [Slots -> Int] : \A w : ComputesRight(p.of, c, <<s[0], s[1], s[2]>>, s, w)
    BY <2>1 DEF ComputesRight, Computes, Meant, Sure
  <2>3. Sound(p)
    BY <2>1, <2>2, BehindThree DEF Ordinary
  <2> QED
    BY <2>3 DEF p
<1>4. Sound(WolfCryptPrograms.WolfExch)
  <2> DEFINE p == WolfCryptPrograms.WolfExch
             c == p.steps[1]
  <2>1. /\ p.of = "copy" /\ p.steps = <<c, Copied>>
        /\ c.fn = "exch" /\ c.args = <<Res, Src(0)>> /\ c.into = 1 /\ c.failing = "none"
    BY DEF WolfCryptPrograms, WolfCrypt, Program, Call
  <2> HIDE DEF p, c
  <2>2. \A s \in [Slots -> Int] : \A w : ComputesRight(p.of, c, <<s[0]>>, s, w)
    BY <2>1 DEF ComputesRight, Computes, Meant, Sure
  <2>3. Sound(p)
    BY <2>1, <2>2, PlacedOne DEF Ordinary
  <2> QED
    BY <2>3 DEF p
<1> QED
  BY SMTT(20), <1>1, WolfMod2Sound, WolfAddMod1Sound, <1>2, WolfAdd1Sound, <1>3, <1>4, WolfSetBitSound, WolfRShift1Sound, WolfDiv0Sound DEF WolfCryptPrograms

LEMMA JoinedHas ==
  ASSUME NEW f, NEW g
  PROVE  /\ DOMAIN Joined(f, g) = DOMAIN f \cup DOMAIN g
         /\ \A c \in DOMAIN Joined(f, g) :
              \/ c \in DOMAIN f /\ Joined(f, g)[c] = f[c]
              \/ c \in DOMAIN g /\ Joined(f, g)[c] = g[c]
BY DEF Joined

LEMMA ProgramsAre ==
  ASSUME NEW c \in DOMAIN Programs
  PROVE  \/ c \in DOMAIN SumsAndProducts /\ Programs[c] = SumsAndProducts[c]
         \/ c \in DOMAIN Powers /\ Programs[c] = Powers[c]
         \/ c \in DOMAIN ModularPrograms /\ Programs[c] = ModularPrograms[c]
         \/ c \in DOMAIN Quotients /\ Programs[c] = Quotients[c]
         \/ c \in DOMAIN BitsAndSigns /\ Programs[c] = BitsAndSigns[c]
         \/ c \in DOMAIN WolfCryptPrograms /\ Programs[c] = WolfCryptPrograms[c]
<1> DEFINE p4 == Joined(BitsAndSigns, WolfCryptPrograms)
           p3 == Joined(Quotients, p4)
           p2 == Joined(ModularPrograms, p3)
           p1 == Joined(Powers, p2)
<1>1. Programs = Joined(SumsAndProducts, p1)
  BY DEF Programs
<1> HIDE DEF p1
<1>2. (c \in DOMAIN SumsAndProducts /\ Programs[c] = SumsAndProducts[c]) \/ (c \in DOMAIN p1 /\ Programs[c] = p1[c])
  BY <1>1, JoinedHas
<1>3. c \in DOMAIN p1 => (c \in DOMAIN Powers /\ p1[c] = Powers[c]) \/ (c \in DOMAIN p2 /\ p1[c] = p2[c])
  <2> HIDE DEF p2
  <2> QED
    BY JoinedHas DEF p1
<1>4. c \in DOMAIN p2 => (c \in DOMAIN ModularPrograms /\ p2[c] = ModularPrograms[c]) \/ (c \in DOMAIN p3 /\ p2[c] = p3[c])
  <2> HIDE DEF p3
  <2> QED
    BY JoinedHas
<1>5. c \in DOMAIN p3 => (c \in DOMAIN Quotients /\ p3[c] = Quotients[c]) \/ (c \in DOMAIN p4 /\ p3[c] = p4[c])
  <2> HIDE DEF p4
  <2> QED
    BY JoinedHas
<1>6. c \in DOMAIN p4 => \/ c \in DOMAIN BitsAndSigns /\ p4[c] = BitsAndSigns[c]
                         \/ c \in DOMAIN WolfCryptPrograms /\ p4[c] = WolfCryptPrograms[c]
  BY JoinedHas
<1> QED
  BY ONLY <1>2, <1>3, <1>4, <1>5, <1>6

LEMMA ProgramsSound ==
  ASSUME NEW c \in DOMAIN Programs, c # "Mask"
  PROVE  Sound(Programs[c])
BY ProgramsAre, SumsAndProductsSound, PowersSound, ModularProgramsSound, QuotientsSound,
   BitsAndSignsSound, WolfCryptProgramsSound

(* Mask alters its number through a pointer to read; its calls still have  *)
(* the right form.                                                         *)
WellFormed(p) ==
  /\ DOMAIN p.steps = 1 .. Len(p.steps) /\ Len(p.steps) \in Nat
  /\ \A m \in DOMAIN p.steps : GoodArgs(p.lib, p.steps[m])

LEMMA MaskWellFormed == WellFormed(BitsAndSigns.Mask)
<1> DEFINE p == BitsAndSigns.Mask
           c == Checked("mask", <<Src(0)>>)
           d == Checked("copy", <<Result, Src(0)>>)
           i == 0
<1>1. p.steps = <<Word, c, d>>
  BY DEF BitsAndSigns, OpenSSL, Program
<1>2. c.fn = "mask" /\ c.args = <<Src(i)>> /\ i \in Slots
  BY DEF Checked, Call, Slots
<1>3. d.fn = "copy" /\ d.failing = "none" /\ d.args = <<Result, Src(0)>> /\ d.into = 1
  BY DEF Checked, Call
<1> HIDE DEF p, c, d, i
<1>4. GoodArgs(p.lib, c)
  BY <1>2, ReadsOne
<1>5. GoodArgs(p.lib, d)
  BY <1>3, CopyCopies DEF Harmless, GoodCall
<1>6. GoodArgs(p.lib, Word)
  BY WordTests DEF Harmless, GoodCall
<1>7. /\ p.steps[1] = Word /\ p.steps[2] = c /\ p.steps[3] = d
      /\ DOMAIN p.steps = 1 .. 3 /\ Len(p.steps) = 3
  BY <1>1
<1> QED
  BY <1>4, <1>5, <1>6, <1>7 DEF WellFormed, p

LEMMA ProgramsWellFormed ==
  ASSUME NEW c \in DOMAIN Programs
  PROVE  WellFormed(Programs[c])
<1>1. CASE c # "Mask"
  BY <1>1, ProgramsSound DEF Sound, GoodProgram, GoodCall, WellFormed
<1>2. CASE c = "Mask"
  <2>1. Programs[c] = BitsAndSigns.Mask
    BY <1>2, ProgramsAre
       DEF SumsAndProducts, Powers, ModularPrograms, Quotients, BitsAndSigns, WolfCryptPrograms
  <2> QED
    BY <2>1, MaskWellFormed
<1> QED
  BY <1>1, <1>2

-----------------------------------------------------------------------------
(* A call under way.  Its variables, while there is one.                   *)
Running == pc <= Len(Programs[calc].steps)

ClusterTypes ==
  /\ calc \in DOMAIN Programs \ LeftOut
  /\ start \in [Slots -> Int]
  /\ DOMAIN bn = Slots \cup {Out}
  /\ locked \subseteq Slots
  /\ resIndex \in Slots \cup {Undecided}
  /\ pc \in 1 .. Len(Programs[calc].steps) + 1
  /\ DOMAIN args = IF Running THEN DOMAIN Step.args ELSE {}
  /\ \A k \in DOMAIN args : args[k] \in [to : 0 .. 6, live : BOOLEAN]

(* An argument that was evaluated points where it should.                  *)
Stands(k) ==
  LET a == Step.args[k]
  IN  /\ a.by \in {"[]", "bare"} => args[k].to \in Slots /\ bn[args[k].to] = bn[a.index]
      /\ a.by \in {"GetDestPtr", "res"} => args[k].to = a.index
      /\ a.by = "GetResPtr" => args[k].to = resIndex /\ resIndex \in Slots
      /\ a.by = "optional" => args[k].to \in {Null, a.index}

ArgumentsStand == \A k \in DOMAIN args : args[k].to # Undecided => Stands(k)

(* It is held, or is the bignum of its own number.                         *)
Secured(k) == args[k].to \in locked \/ (Step.args[k].by # "GetResPtr" /\ args[k].to = Step.args[k].index)

PointersSecured == Lib = "openssl" => \A k \in DOMAIN args : args[k].to # Undecided => Secured(k)

(* OpenSSL's pointers: a bignum that may be replaced is the one of an      *)
(* argument's own number, and no other argument has it.                    *)
PointersInv == ClusterTypes /\ PointersSecured /\ PointersAlive

(* Of a sound program: the call that decides, what was handed out to be    *)
(* written to, the result placed once and before it is copied, what is     *)
(* known until the call that decides and what is settled after it.         *)
Decider(p) == CHOOSE n \in 1 .. 6 : Decisive(p, n)
D == Decider(Programs[calc])
Decide == Programs[calc].steps[D]

HandedOut ==
  \A k \in DOMAIN args : args[k].to # Undecided =>
    /\ Step.args[k].by \in {"GetResPtr", "GetDestPtr"} => invalid
    /\ Step.args[k].by = "optional" /\ args[k].to # Null => invalid

PlacedOnce ==
  /\ pc < D => resIndex = Undecided
  /\ pc = D => \A k \in DOMAIN args :
                 Step.args[k].by = "GetResPtr" /\ args[k].to = Undecided => resIndex = Undecided
  /\ pc > D /\ Placed(Decide) => resIndex \in Slots

MeantNow == Meant(Programs[calc].of, start)

Decided ==
  /\ Direct(Decide) => bn[Out] = MeantNow
  /\ Placed(Decide) => bn[IF pc = D + 1 THEN resIndex ELSE Out] = MeantNow
  /\ InPlace(Decide) => bn[IF pc = D + 1 THEN 0 ELSE Out] = MeantNow

Stage ==
  /\ pc <= D => Known(Programs[calc], pc, start, bn, word)
  /\ pc > D => Decided

(* While a call is under way its arguments stand for their numbers, and    *)
(* the four numbers are those that were set unless one was handed out.     *)
ResultInv ==
  /\ ClusterTypes
  /\ phase = "running" => ArgumentsStand /\ HandedOut /\ PlacedOnce /\ Stage /\ EqualsCache
  /\ RightResult

-----------------------------------------------------------------------------
(* The call that is under way, and the types of the variables.             *)

LEMMA StepIsGood ==
  ASSUME ClusterTypes, Running
  PROVE  /\ GoodArgs(Lib, Step)
         /\ Step.args \in Seq([by : Ways, index : 0 .. 4])
         /\ DOMAIN args = DOMAIN Step.args
         /\ \A k \in DOMAIN args : Step.args[k] \in [by : Ways, index : 0 .. 4]
         /\ \A k \in DOMAIN args : Step.args[k].index \in 0 .. 6
<1> DEFINE p == Programs[calc]
<1>1. WellFormed(p)
  BY ProgramsWellFormed DEF ClusterTypes
<1> HIDE DEF p
<1>2. Len(p.steps) \in Nat /\ pc \in 1 .. Len(p.steps)
  BY <1>1 DEF ClusterTypes, Running, WellFormed, p
<1>3. GoodArgs(p.lib, p.steps[pc])
  BY <1>1, <1>2 DEF WellFormed
<1>4. GoodArgs(Lib, Step)
  BY <1>3 DEF p, Lib, Step
<1>5. Step.args \in Seq([by : Ways, index : 0 .. 4]) /\ DOMAIN args = DOMAIN Step.args
  BY <1>4 DEF GoodArgs, ClusterTypes
<1>6. ASSUME NEW k \in DOMAIN args
      PROVE  Step.args[k] \in [by : Ways, index : 0 .. 4] /\ Step.args[k].index \in 0 .. 6
  <2> DEFINE as == Step.args
             S == [by : Ways, index : 0 .. 4]
  <2>0. as \in Seq(S) /\ k \in DOMAIN as
    BY <1>5
  <2> HIDE DEF as, S
  <2>3. as[k] \in S
    <3>1. DOMAIN as = 1 .. Len(as)
      BY ONLY <2>0, LenProperties
    <3> QED
      BY ONLY <2>0, <3>1, ElementOfSeq
  <2>1. Step.args[k] \in [by : Ways, index : 0 .. 4]
    BY <2>3 DEF as, S
  <2>2. Step.args[k].index \in 0 .. 4
    BY <2>1
  <2> QED
    BY <2>1, <2>2
<1> QED
  BY <1>4, <1>5, <1>6

LEMMA PointSets ==
  ASSUME ClusterTypes, NEW k \in DOMAIN args, NEW slot \in 0 .. 6, NEW replaced \in BOOLEAN,
         Point(k, slot, replaced)
  PROVE  /\ DOMAIN args' = DOMAIN args
         /\ args'[k] = [to |-> slot, live |-> TRUE]
         /\ \A j \in DOMAIN args \ {k} :
              /\ args'[j].to = args[j].to
              /\ ~(replaced /\ args[j].to = slot) => args'[j] = args[j]
         /\ \A j \in DOMAIN args' : args'[j] \in [to : 0 .. 6, live : BOOLEAN]
BY DEF Point, ClusterTypes

LEMMA AdvanceSets ==
  ASSUME ClusterTypes, Running, Advance, UNCHANGED <<calc, resIndex>>
  PROVE  /\ pc' = pc + 1 /\ pc' \in 1 .. Len(Programs[calc].steps) + 1
         /\ (DOMAIN args = IF Running THEN DOMAIN Step.args ELSE {})'
         /\ \A k \in DOMAIN args' : args'[k] = [to |-> Undecided, live |-> TRUE]
<1> DEFINE p == Programs[calc]
<1>1. WellFormed(p)
  BY ProgramsWellFormed DEF ClusterTypes
<1>2. pc \in Nat /\ pc >= 1 /\ Len(p.steps) \in Nat /\ pc <= Len(p.steps) /\ pc' = pc + 1
  BY <1>1 DEF ClusterTypes, Running, WellFormed, Advance
<1>3. args' = Fresh(calc, pc')
  BY DEF Advance
<1>4. args' = IF pc' > Len(p.steps) THEN <<>> ELSE [k \in DOMAIN p.steps[pc'].args |-> Unevaluated]
  BY <1>3 DEF Fresh
<1>5. (Running /\ Step = p.steps[pc])' <=> pc' <= Len(p.steps)
  BY DEF Running, Step
<1>6. DOMAIN (<<>>) = {}
  OBVIOUS
<1> HIDE DEF p
<1>7. CASE pc' <= Len(p.steps)
  <2>1. args' = [k \in DOMAIN p.steps[pc'].args |-> Unevaluated]
    BY <1>2, <1>4, <1>7
  <2>2. Running' /\ Step' = p.steps[pc']
    BY <1>7 DEF Running, Step, p
  <2> QED
    BY <1>2, <1>7, <2>1, <2>2 DEF Unevaluated, p
<1>8. CASE ~(pc' <= Len(p.steps))
  <2>1. args' = <<>> /\ ~Running'
    BY <1>2, <1>4, <1>8 DEF Running, p
  <2> QED
    BY <1>2, <1>6, <1>8, <2>1 DEF p
<1> QED
  BY <1>7, <1>8

LEMMA TypesHold ==
  ASSUME ClusterTypes, [ClusterNext]_clusterVars
  PROVE  ClusterTypes'
<1> USE DEF ClusterTypes
<1>0. Slots \subseteq 0 .. 6 /\ Null \in 0 .. 6
  BY DEF Slots, Null
<1>1. ASSUME NEW k \in 1 .. 4, Index(k) PROVE ClusterTypes'
  <2>1. PICK slot \in Slots, replaced \in BOOLEAN :
          Point(k, slot, replaced) /\ locked' = Locks(Step.args[k].index, slot)
    BY <1>1 DEF Index
  <2>2. k \in DOMAIN args /\ UNCHANGED <<calc, start, bn, resIndex, pc>>
    BY <1>1 DEF Index, Pending
  <2>3. DOMAIN args' = DOMAIN args /\ \A j \in DOMAIN args' : args'[j] \in [to : 0 .. 6, live : BOOLEAN]
    BY <1>0, <2>1, <2>2, PointSets
  <2>4. locked' \subseteq Slots
    BY <2>1 DEF Locks
  <2> QED
    BY <2>2, <2>3, <2>4 DEF Running, Step
<1>2. ASSUME NEW k \in 1 .. 4, Destination(k) PROVE ClusterTypes'
  <2>1. k \in DOMAIN args /\ UNCHANGED <<calc, start, bn, resIndex, pc, locked>> /\ Running
    BY <1>2 DEF Destination, Pending, Running
  <2>2. PICK replaced \in BOOLEAN : Point(k, Step.args[k].index, replaced)
    BY <1>2 DEF Destination
  <2>3. Step.args[k].index \in 0 .. 6
    BY <2>1, StepIsGood
  <2>4. DOMAIN args' = DOMAIN args /\ \A j \in DOMAIN args' : args'[j] \in [to : 0 .. 6, live : BOOLEAN]
    BY <2>1, <2>2, <2>3, PointSets
  <2> QED
    BY <2>1, <2>4 DEF Running, Step
<1>3. ASSUME NEW k \in 1 .. 4, OptionalBn(k) PROVE ClusterTypes'
  <2>1. k \in DOMAIN args /\ UNCHANGED <<calc, start, bn, resIndex, pc, locked>> /\ Running
    BY <1>3 DEF OptionalBn, Pending, Running
  <2>3. Step.args[k].index \in 0 .. 6
    BY <2>1, StepIsGood
  <2>2. args' = args \/ \E slot \in 0 .. 6 : Point(k, slot, FALSE)
    BY <1>0, <1>3, <2>3 DEF OptionalBn
  <2>4. DOMAIN args' = DOMAIN args /\ \A j \in DOMAIN args' : args'[j] \in [to : 0 .. 6, live : BOOLEAN]
    BY <2>1, <2>2, <2>3, PointSets
  <2> QED
    BY <2>1, <2>4 DEF Running, Step
<1>4. ASSUME NEW k \in 1 .. 4, GetResPtr(k) PROVE ClusterTypes'
  <2>1. k \in DOMAIN args /\ UNCHANGED <<calc, start, bn, pc>>
    BY <1>4 DEF GetResPtr, Pending
  <2>2. \/ UNCHANGED <<locked, resIndex, args>>
        \/ \E slot \in Slots : resIndex' = slot /\ locked' = locked \cup {slot} /\ Point(k, slot, FALSE)
    BY <1>4 DEF GetResPtr
  <2>4. args' = args \/ \E slot \in 0 .. 6 : Point(k, slot, FALSE)
    BY <1>0, <2>2
  <2>3. DOMAIN args' = DOMAIN args /\ \A j \in DOMAIN args' : args'[j] \in [to : 0 .. 6, live : BOOLEAN]
    BY <2>1, <2>4, PointSets
  <2> QED
    BY <2>1, <2>2, <2>3 DEF Running, Step
<1>5. CASE Fail
  BY <1>5 DEF Fail, Running, Step
<1>6. CASE NoConversion
  BY <1>6 DEF NoConversion, Running, Step
<1>7. ASSUME Advance, Evaluated, UNCHANGED <<calc, start, locked, resIndex>>, DOMAIN bn' = DOMAIN bn
      PROVE  ClusterTypes'
  <2>1. Running
    BY <1>7 DEF Evaluated, Running
  <2>2. /\ pc' \in 1 .. Len(Programs[calc].steps) + 1
        /\ (DOMAIN args = IF Running THEN DOMAIN Step.args ELSE {})'
        /\ \A k \in DOMAIN args' : args'[k] = [to |-> Undecided, live |-> TRUE]
    BY <1>7, <2>1, AdvanceSets
  <2>3. \A k \in DOMAIN args' : args'[k] \in [to : 0 .. 6, live : BOOLEAN]
    <3>1. [to |-> Undecided, live |-> TRUE] \in [to : 0 .. 6, live : BOOLEAN]
      BY DEF Undecided
    <3> QED
      BY <2>2, <3>1
  <2>4. (calc \in DOMAIN Programs \ LeftOut /\ start \in [Slots -> Int] /\ DOMAIN bn = Slots \cup {Out}
         /\ locked \subseteq Slots /\ resIndex \in Slots \cup {Undecided})'
    BY <1>7
  <2>5. (pc \in 1 .. Len(Programs[calc].steps) + 1)'
    BY <1>7, <2>2
  <2> QED
    BY <2>2, <2>3, <2>4, <2>5
<1>8. CASE TakeWord
  BY <1>7, <1>8 DEF TakeWord, Succeeds
<1>9. CASE Pass
  BY <1>7, <1>9 DEF Pass, Succeeds
<1>10. CASE Compute
  <2>1. DOMAIN bn' = DOMAIN bn
    BY <1>10 DEF Compute
  <2> QED
    BY <1>7, <1>10, <2>1 DEF Compute, Succeeds
<1>11. CASE CopyResult
  <2>1. CASE resIndex = Undecided
    BY <1>11, <2>1 DEF CopyResult, Running, Step
  <2>2. CASE resIndex # Undecided
    BY <1>7, <1>11, <2>2 DEF CopyResult, Succeeds
  <2> QED
    BY <2>1, <2>2
<1>12. CASE Return
  BY <1>12 DEF Return, Running, Step
<1>13. CASE UNCHANGED clusterVars
  BY <1>13 DEF clusterVars, Running, Step
<1> QED
  BY <1>1, <1>2, <1>3, <1>4, <1>5, <1>6, <1>8, <1>9, <1>10, <1>11, <1>12, <1>13 DEF ClusterNext

LEMMA InitTyped ==
  ASSUME ClusterInit
  PROVE  ClusterTypes /\ \A k \in DOMAIN args : args[k] = [to |-> Undecided, live |-> TRUE]
<1> DEFINE p == Programs[calc]
<1>1. WellFormed(p)
  BY ProgramsWellFormed DEF ClusterInit
<1>2. pc = 1 /\ args = IF pc > Len(p.steps) THEN <<>> ELSE [k \in DOMAIN p.steps[pc].args |-> Unevaluated]
  BY DEF ClusterInit, Fresh
<1> HIDE DEF p
<1>3. Len(p.steps) \in Nat /\ pc \in 1 .. Len(p.steps) + 1
  BY <1>1, <1>2 DEF WellFormed
<1>4. DOMAIN args = IF Running THEN DOMAIN Step.args ELSE {}
  BY <1>2, <1>3 DEF Running, Step, p
<1>5. \A k \in DOMAIN args : args[k] = [to |-> Undecided, live |-> TRUE]
  BY <1>2 DEF Unevaluated
<1>6. [to |-> Undecided, live |-> TRUE] \in [to : 0 .. 6, live : BOOLEAN]
  BY DEF Undecided
<1>7. start \in [Slots -> Int] /\ DOMAIN bn = Slots \cup {Out}
  BY NumbersAssumption DEF ClusterInit
<1> QED
  BY <1>3, <1>4, <1>5, <1>6, <1>7 DEF ClusterTypes, ClusterInit, p

LEMMA FreshHeld ==
  ASSUME \A k \in DOMAIN args : args[k] = [to |-> Undecided, live |-> TRUE]
  PROVE  PointersSecured /\ PointersAlive
BY DEF PointersSecured, PointersAlive

LEMMA PointingHolds ==
  ASSUME PointersInv, Running, NEW k \in DOMAIN args, NEW slot \in 0 .. 6, NEW replaced \in BOOLEAN,
         Point(k, slot, replaced), UNCHANGED <<calc, pc>>, locked \subseteq locked',
         Lib = "openssl" =>
           slot \in locked' \/ (Step.args[k].by # "GetResPtr" /\ slot = Step.args[k].index),
         replaced => Lib = "openssl" /\ slot \notin locked'
  PROVE  (PointersSecured /\ PointersAlive)'
<1>1. /\ DOMAIN args' = DOMAIN args
      /\ args'[k] = [to |-> slot, live |-> TRUE]
      /\ \A j \in DOMAIN args \ {k} :
           /\ args'[j].to = args[j].to
           /\ ~(replaced /\ args[j].to = slot) => args'[j] = args[j]
  BY PointSets DEF PointersInv
<1>2. Lib' = Lib /\ Step' = Step
  BY DEF Lib, Step
<1>3. PointersSecured'
  BY <1>1, <1>2 DEF PointersInv, PointersSecured, Secured
<1>4. ASSUME NEW j \in DOMAIN args \ {k}, replaced, args[j].to = slot
      PROVE  FALSE
  <2>1. Lib = "openssl" /\ slot \notin locked' /\ Step.args[k].by # "GetResPtr" /\ slot = Step.args[k].index
    BY <1>4
  <2>2. GoodArgs(Lib, Step) /\ DOMAIN args = DOMAIN Step.args /\ Step.args[k] \in [by : Ways, index : 0 .. 4]
    BY StepIsGood DEF PointersInv
  <2>3. slot # Undecided
    BY <2>1, <2>2 DEF Undecided
  <2>4. Step.args[j].by # "GetResPtr" /\ slot = Step.args[j].index
    BY <1>4, <2>1, <2>3 DEF PointersInv, PointersSecured, Secured
  <2> QED
    BY <2>1, <2>2, <2>4 DEF GoodArgs
<1> QED
  BY <1>1, <1>3, <1>4 DEF PointersInv, PointersAlive

LEMMA PointersStep ==
  ASSUME PointersInv, [ClusterNext]_clusterVars
  PROVE  PointersInv'
<1>0. ClusterTypes /\ ClusterTypes'
  BY TypesHold DEF PointersInv
<1>t. Slots \subseteq 0 .. 6 /\ Null \in 0 .. 6
  BY DEF Slots, Null
<1>k. UNCHANGED <<calc, pc, args, locked>> => (PointersSecured /\ PointersAlive)'
  BY DEF PointersInv, PointersSecured, PointersAlive, Secured, Lib, Step
<1>f. Advance /\ Evaluated /\ UNCHANGED <<calc, resIndex>> => (PointersSecured /\ PointersAlive)'
  <2> SUFFICES ASSUME Advance, Evaluated, UNCHANGED <<calc, resIndex>>
               PROVE  (PointersSecured /\ PointersAlive)'
    OBVIOUS
  <2>1. \A k \in DOMAIN args' : args'[k] = [to |-> Undecided, live |-> TRUE]
    BY <1>0, AdvanceSets DEF Evaluated, Running
  <2> QED
    BY <2>1 DEF PointersSecured, PointersAlive
<1>1. ASSUME NEW k \in 1 .. 4, Index(k) PROVE (PointersSecured /\ PointersAlive)'
  <2>1. PICK slot \in Slots, replaced \in BOOLEAN :
          /\ Point(k, slot, replaced) /\ locked' = Locks(Step.args[k].index, slot)
          /\ replaced => Replaceable(slot, locked')
    BY <1>1 DEF Index
  <2>2. k \in DOMAIN args /\ Running /\ UNCHANGED <<calc, pc>> /\ Step.args[k].by # "GetResPtr"
    BY <1>1 DEF Index, Pending, Running
  <2>3. /\ locked \subseteq locked'
        /\ Lib = "openssl" => slot \in locked' \/ slot = Step.args[k].index
        /\ replaced => Lib = "openssl" /\ slot \notin locked'
    BY <2>1 DEF Locks, Replaceable
  <2> QED
    BY <1>t, <2>1, <2>2, <2>3, PointingHolds
<1>2. ASSUME NEW k \in 1 .. 4, Destination(k) PROVE (PointersSecured /\ PointersAlive)'
  <2>1. PICK replaced \in BOOLEAN :
          /\ Point(k, Step.args[k].index, replaced)
          /\ replaced => Replaceable(Step.args[k].index, locked)
    BY <1>2 DEF Destination
  <2>2. /\ k \in DOMAIN args /\ Running /\ UNCHANGED <<calc, pc, locked>>
        /\ Step.args[k].by # "GetResPtr"
    BY <1>2 DEF Destination, Pending, Running
  <2>3. Step.args[k].index \in 0 .. 6
    BY <1>0, <2>2, StepIsGood
  <2> QED
    BY <2>1, <2>2, <2>3, PointingHolds DEF Replaceable
<1>3. ASSUME NEW k \in 1 .. 4, OptionalBn(k) PROVE (PointersSecured /\ PointersAlive)'
  <2>1. k \in DOMAIN args /\ Running /\ UNCHANGED <<calc, pc, locked>> /\ Step.args[k].by = "optional"
    BY <1>3 DEF OptionalBn, Pending, Running
  <2>2. Step.args[k].index \in 0 .. 6
    BY <1>0, <2>1, StepIsGood
  <2>3. args' = args \/ \E slot \in 0 .. 6 : Point(k, slot, FALSE)
    BY <1>t, <1>3, <2>2 DEF OptionalBn
  <2>4. Lib # "openssl"
    BY <1>0, <2>1, StepIsGood DEF GoodArgs
  <2> QED
    BY <1>k, <2>1, <2>3, <2>4, PointingHolds
<1>4. ASSUME NEW k \in 1 .. 4, GetResPtr(k) PROVE (PointersSecured /\ PointersAlive)'
  <2>1. k \in DOMAIN args /\ Running /\ UNCHANGED <<calc, pc>>
    BY <1>4 DEF GetResPtr, Pending, Running
  <2>2. \/ UNCHANGED <<locked, args>>
        \/ \E slot \in 0 .. 6 : locked' = locked \cup {slot} /\ Point(k, slot, FALSE)
    BY <1>t, <1>4 DEF GetResPtr
  <2> QED
    BY <1>k, <2>1, <2>2, PointingHolds
<1>5. Fail \/ NoConversion \/ Return => (PointersSecured /\ PointersAlive)'
  BY <1>k DEF Fail, NoConversion, Return
<1>6. TakeWord \/ Pass \/ Compute => (PointersSecured /\ PointersAlive)'
  BY <1>f DEF TakeWord, Pass, Compute, Succeeds
<1>7. CopyResult => (PointersSecured /\ PointersAlive)'
  BY <1>f, <1>k DEF CopyResult, Succeeds
<1>8. UNCHANGED clusterVars => (PointersSecured /\ PointersAlive)'
  BY <1>k DEF clusterVars
<1> QED
  BY <1>0, <1>1, <1>2, <1>3, <1>4, <1>5, <1>6, <1>7, <1>8 DEF ClusterNext, PointersInv

(* In whatever order C++ evaluates the arguments of a call, and whichever  *)
(* of them BignumCluster::operator[] replaces by a copy, no pointer that   *)
(* the library is given is to a bignum that another argument freed: of     *)
(* every program, for all numbers.                                         *)
THEOREM PointersLive == ClusterSpec => []PointersAlive
<1>1. ClusterInit => PointersInv
  BY InitTyped, FreshHeld DEF PointersInv
<1>2. PointersInv => PointersAlive
  BY DEF PointersInv
<1> QED
  BY <1>1, <1>2, PointersStep, PTL DEF ClusterSpec

-----------------------------------------------------------------------------
(* Sound programs under way.                                               *)

LEMMA TheDecider ==
  ASSUME ClusterTypes, "Mask" \in LeftOut
  PROVE  /\ GoodProgram(Programs[calc]) /\ D \in 1 .. 6 /\ Decisive(Programs[calc], D)
         /\ D \in DOMAIN Programs[calc].steps
         /\ pc \in Nat /\ pc >= 1 /\ Len(Programs[calc].steps) \in Nat
         /\ DOMAIN Programs[calc].steps = 1 .. Len(Programs[calc].steps)
<1> DEFINE p == Programs[calc]
<1>1. GoodProgram(p) /\ Sound(p)
  <2>1. calc \in DOMAIN Programs /\ calc # "Mask"
    BY DEF ClusterTypes
  <2> QED
    BY <2>1, ProgramsSound DEF Sound
<1> HIDE DEF p
<1>2. \E n \in 1 .. 6 : Decisive(p, n)
  BY <1>1 DEF Sound
<1>3. Decider(p) \in 1 .. 6 /\ Decisive(p, Decider(p))
  BY <1>2 DEF Decider
<1>4. Decider(p) \in DOMAIN p.steps
  BY <1>3 DEF Decisive
<1>5. Len(p.steps) \in Nat /\ pc \in 1 .. Len(p.steps) + 1
  BY <1>1 DEF GoodProgram, ClusterTypes, p
<1>6. DOMAIN p.steps = 1 .. Len(p.steps)
  BY <1>1 DEF GoodProgram
<1>7. pc \in Nat /\ pc >= 1
  BY <1>5
<1> QED
  BY <1>1, <1>3, <1>4, <1>5, <1>6, <1>7 DEF p, D

LEMMA StepIsSound ==
  ASSUME ClusterTypes, "Mask" \in LeftOut, Running
  PROVE  GoodCall(Lib, Step)
<1>1. pc \in DOMAIN Programs[calc].steps /\ GoodProgram(Programs[calc])
  BY TheDecider DEF Running
<1> QED
  BY <1>1 DEF GoodProgram, Lib, Step

LEMMA Position ==
  ASSUME ClusterTypes, "Mask" \in LeftOut, Running
  PROVE  /\ pc # D => NoRes(Step) /\ Step.failing = "none"
         /\ pc < D => \/ IsTest(Step)
                      \/ (IsCopy(Step) \/ IsDoubling(Step)) /\ ~Doubled(Programs[calc], pc)
         /\ pc = D => Step = Decide /\ (Direct(Step) \/ Placed(Step) \/ InPlace(Step))
         /\ pc > D => \/ IsTest(Step)
                      \/ pc = D + 1 /\ Placed(Decide) /\ Step = Copied
                      \/ pc = D + 1 /\ InPlace(Decide) /\ IsCopy(Step)
<1> DEFINE p == Programs[calc]
           d == D
<1>1. /\ Decisive(p, d) /\ d \in 1 .. 6 /\ pc \in Nat /\ pc >= 1 /\ Len(p.steps) \in Nat
      /\ DOMAIN p.steps = 1 .. Len(p.steps) /\ d \in DOMAIN p.steps
  BY TheDecider
<1>2. pc <= Len(p.steps) /\ Step = p.steps[pc] /\ Decide = p.steps[d]
  BY DEF Running, Step, Decide
<1> HIDE DEF p, d
<1>3. pc \in DOMAIN p.steps
  BY <1>1, <1>2
<1>4. pc # d => NoRes(Step) /\ Step.failing = "none"
  BY <1>1, <1>2, <1>3 DEF Decisive
<1>5. pc < d => \/ IsTest(Step)
                \/ (IsCopy(Step) \/ IsDoubling(Step)) /\ ~Doubled(p, pc)
  <2>1. pc < d => pc \in 1 .. d - 1
    BY <1>1
  <2> QED
    BY <1>1, <1>2, <2>1 DEF Decisive
<1>6. pc = d => Step = Decide /\ (Direct(Step) \/ Placed(Step) \/ InPlace(Step))
  BY <1>1, <1>2 DEF Decisive
<1>7. pc > d => \/ IsTest(Step)
                \/ pc = d + 1 /\ Placed(Decide) /\ Step = Copied
                \/ pc = d + 1 /\ InPlace(Decide) /\ IsCopy(Step)
  <2> SUFFICES ASSUME pc > d
               PROVE  \/ IsTest(Step)
                      \/ pc = d + 1 /\ Placed(Decide) /\ Step = Copied
                      \/ pc = d + 1 /\ InPlace(Decide) /\ IsCopy(Step)
    OBVIOUS
  <2>1. pc \in d + 1 .. Len(p.steps) /\ (pc = d + 1 \/ pc \in d + 2 .. Len(p.steps))
    BY <1>1, <1>2
  <2> QED
    BY <1>1, <1>2, <2>1 DEF Decisive
<1> QED
  BY <1>4, <1>5, <1>6, <1>7 DEF p, d

(* What holds of a call under way, while it has neither failed nor ended.   *)
Going == ArgumentsStand /\ HandedOut /\ PlacedOnce /\ Stage /\ EqualsCache

LEMMA GivenRead ==
  ASSUME ClusterTypes, "Mask" \in LeftOut, Evaluated, ArgumentsStand
  PROVE  Given = NumbersRead(Step, Indices(Step), bn)
<1>1. Running
  BY DEF Evaluated, Running
<1>2. /\ GoodCall(Lib, Step) /\ DOMAIN args = DOMAIN Step.args
      /\ \A k \in DOMAIN args : Step.args[k] \in [by : Ways, index : 0 .. 4]
  BY <1>1, StepIsGood, StepIsSound
<1>3. Interval(Step)
  BY <1>2 DEF GoodCall, GoodArgs
<1> DEFINE at == [k \in DOMAIN args |-> args[k].to]
<1>4. ASSUME NEW k \in Reads(Step) PROVE bn[at[k]] = bn[Indices(Step)[k]]
  <2>1. k \in DOMAIN args /\ args[k].to # Undecided /\ Indices(Step)[k] = Step.args[k].index
    BY <1>2 DEF Reads, Evaluated, Indices
  <2>2. Stands(k)
    BY <2>1 DEF ArgumentsStand
  <2>3. Step.args[k].by \in {"[]", "bare", "GetDestPtr", "res"}
    BY <1>2 DEF Reads, GoodCall
  <2> QED
    BY <2>1, <2>2, <2>3 DEF Stands
<1>5. Given = NumbersRead(Step, at, bn)
  BY DEF Given
<1> HIDE DEF at
<1> QED
  BY <1>3, <1>4, <1>5, ReadsSame

(* Evaluating an argument changes no number.                               *)
LEMMA PointKeeps ==
  ASSUME ClusterTypes, "Mask" \in LeftOut, Going, Running, NEW k \in DOMAIN args, NEW slot \in 0 .. 5,
         NEW replaced \in BOOLEAN,
         Point(k, slot, replaced), UNCHANGED <<calc, start, bn, pc, word>>, invalid => invalid',
         args[k].to = Undecided,
         LET by == Step.args[k].by
         IN  /\ by = "GetResPtr" => resIndex = Undecided /\ resIndex' = slot /\ slot \in Slots
             /\ by # "GetResPtr" => UNCHANGED resIndex
             /\ by \in {"[]", "bare"} => slot \in Slots /\ bn[slot] = bn[Step.args[k].index]
             /\ by \in {"GetDestPtr", "res"} => slot = Step.args[k].index
             /\ by = "optional" => slot \in {Null, Step.args[k].index}
             /\ by \in {"GetResPtr", "GetDestPtr"} \/ (by = "optional" /\ slot # Null) => invalid'
  PROVE  Going'
<1>1. /\ DOMAIN args' = DOMAIN args
      /\ args'[k].to = slot
      /\ \A j \in DOMAIN args \ {k} : args'[j].to = args[j].to
  <2>1. slot \in 0 .. 6
    OBVIOUS
  <2>2. args'[k] = [to |-> slot, live |-> TRUE]
    BY <2>1, PointSets
  <2> QED
    BY <2>1, <2>2, PointSets
<1>2. /\ Step' = Step /\ Decide' = Decide /\ D' = D /\ MeantNow' = MeantNow
      /\ slot # Undecided /\ DOMAIN args = DOMAIN Step.args
      /\ pc \in Nat /\ D \in 1 .. 6
  <2>1. Step' = Step /\ D' = D /\ MeantNow' = MeantNow
    BY DEF Step, D, MeantNow
  <2>2. Decide' = Decide
    BY <2>1 DEF Decide
  <2>3. slot # Undecided
    BY DEF Undecided
  <2>4. DOMAIN args = DOMAIN Step.args
    BY StepIsGood, StepIsSound
  <2>5. pc \in Nat /\ D \in 1 .. 6
    BY TheDecider
  <2> QED
    BY <2>1, <2>2, <2>3, <2>4, <2>5
<1>3. \A j \in DOMAIN args \ {k} : Step.args[j].by = "GetResPtr" => Step.args[k].by # "GetResPtr"
  <2> SUFFICES ASSUME NEW j \in DOMAIN args \ {k}, Step.args[j].by = "GetResPtr", Step.args[k].by = "GetResPtr"
               PROVE  FALSE
    OBVIOUS
  <2>1. pc = D
    BY <1>2, Position DEF NoRes
  <2>2. Step = Decide
    BY <2>1, Position
  <2>3. Decisive(Programs[calc], D)
    BY TheDecider
  <2> QED
    BY <1>2, <2>2, <2>3 DEF Decisive, Decide
<1>4. ArgumentsStand'
  <2>1. Stands(k)'
    BY <1>1, <1>2 DEF Stands
  <2>2. ASSUME NEW j \in DOMAIN args \ {k}, args[j].to # Undecided
        PROVE  Stands(j)'
    BY <1>1, <1>2, <1>3, <2>2 DEF Going, ArgumentsStand, Stands
  <2> QED
    BY <1>1, <2>1, <2>2 DEF ArgumentsStand
<1>5. HandedOut'
  BY <1>1, <1>2 DEF Going, HandedOut
<1>6. PlacedOnce'
  <2>1. pc # D => Step.args[k].by # "GetResPtr"
    BY <1>2, Position DEF NoRes
  <2>2. pc < D => resIndex' = Undecided
    BY <1>2, <2>1 DEF Going, PlacedOnce
  <2>3. ASSUME pc = D, NEW j \in DOMAIN args, Step.args[j].by = "GetResPtr", args'[j].to = Undecided
        PROVE  resIndex' = Undecided
    BY <1>1, <1>2, <1>3, <2>3 DEF Going, PlacedOnce
  <2>4. pc > D /\ Placed(Decide) => resIndex' \in Slots
    BY <1>2, <2>1 DEF Going, PlacedOnce
  <2> QED
    BY <1>1, <1>2, <2>2, <2>3, <2>4 DEF PlacedOnce
<1>7. Stage'
  <2>1. pc > D => Step.args[k].by # "GetResPtr"
    BY <1>2, Position DEF NoRes
  <2> QED
    BY <1>2, <2>1 DEF Going, Stage, Decided
<1>8. EqualsCache'
  BY DEF Going, EqualsCache
<1> QED
  BY <1>4, <1>5, <1>6, <1>7, <1>8 DEF Going

LEMMA AdvanceKeeps ==
  ASSUME ClusterTypes, "Mask" \in LeftOut, Going, Evaluated, Advance, UNCHANGED <<calc, start, resIndex>>
  PROVE  /\ (ArgumentsStand /\ HandedOut /\ PlacedOnce)'
         /\ pc' = pc + 1 /\ D' = D /\ Decide' = Decide /\ MeantNow' = MeantNow
<1>1. Running
  BY DEF Evaluated, Running
<1>2. pc' = pc + 1 /\ \A k \in DOMAIN args' : args'[k] = [to |-> Undecided, live |-> TRUE]
  BY <1>1, AdvanceSets
<1>3. D' = D /\ MeantNow' = MeantNow
  BY DEF D, MeantNow
<1>4. Decide' = Decide
  BY <1>3 DEF Decide
<1>5. pc \in Nat /\ D \in 1 .. 6
  BY TheDecider
<1>6. (ArgumentsStand /\ HandedOut)'
  BY <1>2 DEF ArgumentsStand, HandedOut
<1>7. PlacedOnce'
  <2>1. CASE pc < D
    <3>1. resIndex = Undecided
      BY <2>1 DEF Going, PlacedOnce
    <3> QED
      BY <1>2, <1>3, <1>5, <2>1, <3>1 DEF PlacedOnce
  <2>2. CASE pc = D
    <3>1. Placed(Decide) => resIndex \in Slots
      <4> SUFFICES ASSUME Placed(Decide) PROVE resIndex \in Slots
        OBVIOUS
      <4>1. Step = Decide /\ GoodCall(Lib, Step) /\ DOMAIN args = DOMAIN Step.args
            /\ Step.args \in Seq([by : Ways, index : 0 .. 4])
        BY <1>1, <2>2, Position, StepIsGood, StepIsSound
      <4>2. Step.into \in DOMAIN args /\ Step.args[Step.into].by = "GetResPtr"
        BY <4>1 DEF Placed, GoodCall
      <4>3. Stands(Step.into)
        BY <4>2 DEF Going, ArgumentsStand, Evaluated
      <4> QED
        BY <4>2, <4>3 DEF Stands
    <3> QED
      BY <1>2, <1>3, <1>4, <1>5, <2>2, <3>1 DEF PlacedOnce
  <2>3. CASE pc > D
    <3>1. Placed(Decide) => resIndex \in Slots
      BY <2>3 DEF Going, PlacedOnce
    <3> QED
      BY <1>2, <1>3, <1>4, <1>5, <2>3, <3>1 DEF PlacedOnce
  <2> QED
    BY <1>5, <2>1, <2>2, <2>3
<1> QED
  BY <1>2, <1>3, <1>4, <1>6, <1>7

(* A call that is passed.                                                  *)
LEMMA TestKeeps ==
  ASSUME ClusterTypes, "Mask" \in LeftOut, Going, Evaluated, Advance,
         UNCHANGED <<calc, start, bn, resIndex, invalid>>, Step.into = 0, Step.fn # "CopyResult",
         ~Fails(Step.fn, Given),
         IF Step.fn = "word" THEN word' = Given[1] ELSE UNCHANGED word
  PROVE  Going'
<1>1. /\ (ArgumentsStand /\ HandedOut /\ PlacedOnce)'
      /\ pc' = pc + 1 /\ D' = D /\ Decide' = Decide /\ MeantNow' = MeantNow
  BY AdvanceKeeps
<1>2. Running /\ pc \in Nat /\ pc >= 1 /\ D \in 1 .. 6 /\ GoodProgram(Programs[calc]) /\ pc \in DOMAIN Programs[calc].steps
  BY TheDecider DEF Evaluated, Running
<1>3. EqualsCache'
  BY DEF Going, EqualsCache
<1>4. GoodCall(Lib, Step) /\ DOMAIN args = DOMAIN Step.args
      /\ \A k \in DOMAIN Step.args : Step.args[k].by \in {"[]", "bare"} /\ Step.args[k].index \in Slots
  BY <1>2, StepIsGood, StepIsSound DEF GoodCall, GoodArgs
<1>5. Given = NumbersRead(Step, Indices(Step), bn)
  BY GivenRead DEF Going
<1> DEFINE p == Programs[calc]
<1>6. CASE pc < D
  <2>1. IsTest(Step) /\ Step = p.steps[pc]
    BY DEF IsTest, Step
  <2>2. Known(p, pc, start, bn, word)
    BY <1>2, <1>6 DEF Going, Stage
  <2>3. Doubled(p, pc + 1) <=> Doubled(p, pc)
    <3>1. p.steps[pc].fn # "double"
      BY <1>4, <2>1 DEF GoodCall
    <3>2. 1 .. (pc + 1) - 1 = (1 .. pc - 1) \cup {pc}
      BY <1>2
    <3> QED
      BY <3>1, <3>2 DEF Doubled
  <2>4. Expected(p, pc + 1, start) = Expected(p, pc, start)
    BY <2>3 DEF Expected
  <2>5. NumbersRead(Step, Indices(Step), Expected(p, pc, start)) = Given
    <3>1. Interval(Step)
      BY <1>4 DEF GoodCall, GoodArgs
    <3>2. \A k \in Reads(Step) : bn[Indices(Step)[k]] = Expected(p, pc, start)[Indices(Step)[k]]
      <4>1. \A k \in Reads(Step) : Indices(Step)[k] \in Slots
        BY <1>4 DEF Reads, Indices
      <4> QED
        BY <2>2, <4>1 DEF Known
    <3> QED
      BY <1>5, <3>1, <3>2, ReadsSame
  <2>6. Passed(p, pc, start)
    BY <2>1, <2>5 DEF Passed, Holds, Fails
  <2>7. p.steps[1].fn = "word" => word' = start[1]
    <3>1. CASE pc = 1 /\ p.steps[1].fn = "word"
      <4> DEFINE c == Step
      <4>1. c.fn = "word" /\ c.args = <<Bare(1)>>
        BY <1>4, <2>1, <3>1 DEF GoodCall
      <4>2. word' = Given[1]
        BY <4>1
      <4>3. Indices(c)[1] = 1
        BY <4>1 DEF Indices, Bare
      <4>4. NumbersRead(c, Indices(c), bn) = <<bn[Indices(c)[1]]>>
        <5> HIDE DEF c
        <5> QED
          BY <4>1, ReadsBare
      <4>5. Given[1] = bn[1]
        BY <1>5, <4>3, <4>4
      <4>6. bn[1] = start[1]
        BY <2>2 DEF Known, Expected, Slots
      <4> QED
        BY <4>2, <4>5, <4>6
    <3>2. CASE pc # 1 /\ p.steps[1].fn = "word"
      <4>1. Step.fn # "word"
        BY <1>2, <2>1, <3>2 DEF GoodProgram
      <4> QED
        BY <1>2, <2>2, <3>2, <4>1 DEF Known
    <3> QED
      BY <3>1, <3>2
  <2>8. Known(p, pc + 1, start, bn, word')
    <3>1. p.steps[(pc + 1) - 1].fn # "copy"
      BY SMTT(20), <1>2, <1>4, <2>1 DEF GoodCall
    <3>2. \A m \in 1 .. (pc + 1) - 1 : m = pc \/ m \in 1 .. pc - 1
      BY <1>2
    <3> QED
      BY <2>2, <2>4, <2>6, <2>7, <3>1, <3>2 DEF Known
  <2>9. Stage'
    <3>1. pc' <= D'
      BY <1>1, <1>2, <1>6
    <3> QED
      BY <1>1, <1>2, <2>8, <3>1 DEF Stage
  <2> QED
    BY <1>1, <1>3, <2>9 DEF Going
<1>7. CASE pc >= D
  <2>1. pc # D /\ pc > D
    BY <1>2, <1>7, Position DEF Direct, Placed, InPlace
  <2>2. pc = D + 1 => ~Placed(Decide) /\ ~InPlace(Decide)
    <3>1. ~IsCopy(Step) /\ Step # Copied
      BY DEF IsCopy, Direct, Copied, Tested, Call
    <3> SUFFICES ASSUME pc = D + 1 PROVE ~Placed(Decide) /\ ~InPlace(Decide)
      OBVIOUS
    <3>2. Decisive(p, D) /\ p.steps[D] = Decide /\ p.steps[D + 1] = Step
      BY TheDecider DEF Decide, Step
    <3>3. Placed(Decide) \/ InPlace(Decide) => ~Direct(Decide)
      BY DEF Placed, Direct, InPlace
    <3> QED
      BY <3>1, <3>2, <3>3 DEF Decisive, Placed, InPlace
  <2>3. Decided
    BY <2>1 DEF Going, Stage
  <2>4. Decided'
    BY <1>1, <1>2, <2>1, <2>2, <2>3 DEF Decided
  <2>5. Stage'
    BY <1>1, <1>2, <2>1, <2>4 DEF Stage
  <2> QED
    BY <1>1, <1>3, <2>5 DEF Going
<1> QED
  BY <1>2, <1>6, <1>7

LEMMA Computed ==
  ASSUME ClusterTypes, "Mask" \in LeftOut, Going, Compute
  PROVE  /\ Direct(Step) \/ Placed(Step) \/ InPlace(Step)
         /\ Direct(Step) => bn'[Out] = Computes(Step.fn, Given, word)
         /\ Placed(Step) => resIndex \in Slots /\ bn'[resIndex] = Computes(Step.fn, Given, word) /\ invalid
         /\ InPlace(Step) => bn'[0] = Computes(Step.fn, Given, word) /\ invalid
         /\ InPlace(Step) /\ Step.fn = "double" => \A s \in DOMAIN bn \ {0} : bn'[s] = bn[s]
         /\ Direct(Step) /\ Step.fn = "copy" => \A s \in Slots : bn'[s] = bn[s]
         /\ Direct(Step) => EqualsCache'
<1>1. Running /\ Evaluated /\ Step.into # 0 /\ UNCHANGED <<start, invalid>>
  BY DEF Compute, Succeeds, Evaluated, Running
<1>2. /\ GoodCall(Lib, Step) /\ DOMAIN args = DOMAIN Step.args
      /\ Step.args \in Seq([by : Ways, index : 0 .. 4])
      /\ \A k \in DOMAIN args : Step.args[k] \in [by : Ways, index : 0 .. 4]
  BY <1>1, StepIsGood, StepIsSound
<1>3. Step.into \in DOMAIN args /\ (Direct(Step) \/ Placed(Step) \/ InPlace(Step))
  <2>1. Step.into \in 1 .. Len(Step.args)
    BY <1>1, <1>2, LenProperties DEF GoodCall
  <2>2. DOMAIN Step.args = 1 .. Len(Step.args)
    BY ONLY <1>2, LenProperties
  <2> QED
    BY <1>1, <1>2, <2>1, <2>2 DEF GoodCall
<1> DEFINE dest == args[Step.into].to
           Beside(s) == \E k \in DOMAIN args : args[k].to = s /\ (Step.args[k].by = "optional" \/ Step.fn = "exch")
<1>4. \A k \in DOMAIN args : args[k].to # Undecided /\ Stands(k)
  BY <1>1 DEF Going, ArgumentsStand, Evaluated
<1>5. /\ Direct(Step) => dest = Out
      /\ Placed(Step) => dest = resIndex /\ resIndex \in Slots
      /\ InPlace(Step) => dest = 0
  BY <1>2, <1>3, <1>4 DEF Stands, Direct, Placed, InPlace, GoodCall, GoodArgs
<1>6. dest \in DOMAIN bn
  BY <1>3, <1>5 DEF ClusterTypes, Slots
<1>7. bn'[dest] = Computes(Step.fn, Given, word)
  BY <1>6 DEF Compute
<1>8. ASSUME NEW s \in DOMAIN bn, s # dest, ~Beside(s) PROVE bn'[s] = bn[s]
  <2>1. {k \in DOMAIN args : args[k].to = s /\ (Step.args[k].by = "optional" \/ Step.fn = "exch")} = {}
    BY <1>8
  <2> QED
    BY <1>8, <2>1 DEF Compute
<1>9. Placed(Step) \/ InPlace(Step) => invalid
  BY <1>3, <1>4 DEF Going, HandedOut, Placed, InPlace
<1>10. Step.fn \in {"copy", "double"} => \A s : ~Beside(s)
  BY <1>2 DEF GoodCall
<1>11. Direct(Step) => EqualsCache'
  <2> SUFFICES ASSUME Direct(Step), ~invalid, NEW s \in Slots
               PROVE  bn'[s] = start[s]
    BY <1>1 DEF EqualsCache
  <2>1. s # dest /\ s \in DOMAIN bn
    BY <1>5 DEF ClusterTypes, Slots, Out
  <2>2. ~Beside(s)
    <3> SUFFICES ASSUME NEW k \in DOMAIN args, args[k].to = s,
                        Step.args[k].by = "optional" \/ Step.fn = "exch"
                 PROVE  FALSE
      OBVIOUS
    <3>1. Step.fn # "exch"
      BY <1>2 DEF GoodCall, Direct, Placed
    <3>2. args[k].to # Null
      BY DEF Slots, Null
    <3> QED
      BY <1>4, <3>1, <3>2 DEF Going, HandedOut
  <2>3. bn[s] = start[s]
    BY DEF Going, EqualsCache
  <2> QED
    BY <1>8, <2>1, <2>2, <2>3
<1>12. Slots \subseteq DOMAIN bn /\ Out \notin Slots
  BY DEF ClusterTypes, Slots, Out
<1> HIDE DEF dest, Beside
<1> QED
  BY <1>3, <1>5, <1>7, <1>8, <1>9, <1>10, <1>11, <1>12

LEMMA ComputeKeeps ==
  ASSUME ClusterTypes, "Mask" \in LeftOut, Going, Compute
  PROVE  Going'
<1>0. Evaluated /\ Advance /\ UNCHANGED <<calc, start, resIndex, word, invalid>> /\ Step.into # 0
      /\ ~Fails(Step.fn, Given) /\ Running
  BY DEF Compute, Succeeds, Evaluated, Running
<1>1. /\ (ArgumentsStand /\ HandedOut /\ PlacedOnce)'
      /\ pc' = pc + 1 /\ D' = D /\ Decide' = Decide /\ MeantNow' = MeantNow
  BY <1>0, AdvanceKeeps
<1>2. /\ pc \in Nat /\ pc >= 1 /\ D \in 1 .. 6 /\ GoodProgram(Programs[calc])
      /\ pc \in DOMAIN Programs[calc].steps /\ Decisive(Programs[calc], D)
  BY <1>0, TheDecider DEF Running
<1>3. EqualsCache'
  BY <1>0, Computed DEF EqualsCache
<1>4. GoodCall(Lib, Step)
  BY <1>0, StepIsGood, StepIsSound
<1>5. Given = NumbersRead(Step, Indices(Step), bn)
  BY <1>0, GivenRead DEF Going
<1>6. ~IsTest(Step) /\ Step # Copied
  BY <1>0 DEF IsTest, Copied, Tested, Call
<1>7. Slots \subseteq DOMAIN bn /\ DOMAIN bn = 0 .. 4 /\ Slots = 0 .. 3 /\ Out = 4
  BY DEF ClusterTypes, Slots, Out
<1> DEFINE p == Programs[calc]
<1>8. CASE pc < D
  <2>1. Step = p.steps[pc] /\ (IsCopy(Step) \/ IsDoubling(Step)) /\ ~Doubled(p, pc)
    BY <1>0, <1>6, <1>8, Position DEF Step
  <2>2. Known(p, pc, start, bn, word)
    BY <1>2, <1>8 DEF Going, Stage
  <2>3. \A i \in Slots : bn[i] = start[i]
    BY <2>1, <2>2 DEF Known, Expected
  <2>4. 1 .. (pc + 1) - 1 = (1 .. pc - 1) \cup {pc}
    BY <1>2
  <2>5. Doubled(p, pc + 1) <=> Step.fn = "double"
    BY <2>1, <2>4 DEF Doubled
  <2>6. Passed(p, pc, start)
    BY <1>6, <2>1 DEF Passed
  <2>7. p.steps[1].fn = "word" => word = start[1]
    <3>1. p.steps[pc].fn # "word"
      BY <1>0, <1>4, <2>1 DEF GoodCall
    <3> QED
      BY <1>2, <2>2, <3>1 DEF Known
  <2>8. (\A i \in Slots : bn'[i] = Expected(p, pc + 1, start)[i]) /\ (Step.fn = "copy" => bn'[Out] = start[0])
    <3>1. CASE IsCopy(Step)
      <4>1. Given[1] = start[0]
        BY <1>5, <1>7, <2>3, <3>1 DEF IsCopy
      <4>2. bn'[Out] = start[0] /\ \A s \in Slots : bn'[s] = bn[s]
        BY <3>1, <4>1, Computed DEF IsCopy, Computes
      <4> QED
        BY <2>3, <2>5, <3>1, <4>2 DEF IsCopy, Expected
    <3>2. CASE IsDoubling(Step)
      <4>1. Given[1] = start[0]
        BY <1>5, <1>7, <2>3, <3>2 DEF IsDoubling
      <4>2. bn'[0] = 2 * start[0] /\ \A s \in DOMAIN bn \ {0} : bn'[s] = bn[s]
        BY <3>2, <4>1, Computed DEF IsDoubling, Computes
      <4> QED
        BY <1>7, <2>3, <2>5, <3>2, <4>2 DEF IsDoubling, Expected
    <3> QED
      BY <2>1, <3>1, <3>2
  <2>9. Known(p, pc + 1, start, bn', word)
    <3>1. (pc + 1) - 1 = pc
      BY <1>2
    <3> QED
      BY <2>1, <2>2, <2>4, <2>6, <2>7, <2>8, <3>1 DEF Known
  <2>10. Stage'
    <3>1. pc' <= D' /\ ~(pc' > D')
      BY <1>1, <1>2, <1>8
    <3> QED
      BY <1>0, <1>1, <2>9, <3>1 DEF Stage
  <2> QED
    BY <1>1, <1>3, <2>10 DEF Going
<1>9. CASE pc = D
  <2>1. Step = Decide /\ Step = p.steps[D]
    BY <1>0, <1>9, Position DEF Decide
  <2>2. Known(p, D, start, bn, word)
    BY <1>2, <1>9 DEF Going, Stage
  <2>3. ComputesRight(p.of, Step, Given, start, word)
    <3>1. Right(p, D) /\ start \in [Slots -> Int]
      BY <1>2 DEF Decisive, ClusterTypes
    <3> QED
      BY <1>5, <2>1, <2>2, <3>1 DEF Right
  <2>4. Computes(Step.fn, Given, word) = MeantNow
    BY <1>0, <2>3 DEF ComputesRight, Fails, MeantNow
  <2>5. Decided'
    BY <1>0, <1>1, <1>9, <2>1, <2>4, Computed DEF Decided
  <2>6. Stage'
    BY <1>1, <1>2, <1>9, <2>5 DEF Stage
  <2> QED
    BY <1>1, <1>3, <2>6 DEF Going
<1>10. CASE pc > D
  <2>1. pc = D + 1 /\ InPlace(Decide) /\ IsCopy(Step)
    BY <1>0, <1>6, <1>10, Position
  <2>2. bn[0] = MeantNow
    BY <1>10, <2>1 DEF Going, Stage, Decided
  <2>3. bn'[Out] = MeantNow
    BY <1>5, <2>1, <2>2, Computed DEF IsCopy, Computes
  <2>4. Decided'
    BY <1>1, <1>2, <2>1, <2>3 DEF Decided, InPlace, Direct, Placed
  <2>5. Stage'
    BY <1>1, <1>2, <1>10, <2>4 DEF Stage
  <2> QED
    BY <1>1, <1>3, <2>5 DEF Going
<1> QED
  BY <1>2, <1>8, <1>9, <1>10

LEMMA CopyKeeps ==
  ASSUME ClusterTypes, "Mask" \in LeftOut, Going, CopyResult
  PROVE  Going' /\ UNCHANGED phase
<1>1. Evaluated /\ Running /\ Step.fn = "CopyResult"
  BY DEF CopyResult, Succeeds, Evaluated, Running
<1>2. GoodCall(Lib, Step)
  BY <1>1, StepIsGood, StepIsSound
<1>3. pc \in Nat /\ D \in 1 .. 6
  BY TheDecider
<1>4. pc = D + 1 /\ Placed(Decide)
  <2>1. ~IsTest(Step) /\ ~IsCopy(Step) /\ ~IsDoubling(Step) /\ ~Direct(Step) /\ ~Placed(Step) /\ ~InPlace(Step)
    BY <1>1, <1>2 DEF IsTest, IsCopy, IsDoubling, GoodCall, Direct, Placed, InPlace
  <2> QED
    BY <1>1, <1>3, <2>1, Position
<1>5. resIndex \in Slots /\ bn[resIndex] = MeantNow
  BY <1>3, <1>4 DEF Going, PlacedOnce, Stage, Decided
<1>6. /\ bn' = [bn EXCEPT ![Out] = bn[resIndex]] /\ Advance
      /\ UNCHANGED <<calc, start, resIndex, invalid, phase>>
  BY <1>5 DEF CopyResult, Source, Slots, Undecided
<1>7. bn'[Out] = MeantNow /\ \A s \in Slots : bn'[s] = bn[s]
  BY <1>5, <1>6 DEF ClusterTypes, Slots, Out
<1>8. /\ (ArgumentsStand /\ HandedOut /\ PlacedOnce)'
      /\ pc' = pc + 1 /\ D' = D /\ Decide' = Decide /\ MeantNow' = MeantNow
  BY <1>1, <1>6, AdvanceKeeps
<1>9. EqualsCache'
  BY <1>6, <1>7 DEF Going, EqualsCache
<1>10. Stage'
  BY <1>3, <1>4, <1>7, <1>8 DEF Stage, Decided, Placed, InPlace, Direct
<1> QED
  BY <1>6, <1>8, <1>9, <1>10 DEF Going

LEMMA FailRight ==
  ASSUME ClusterTypes, "Mask" \in LeftOut, Going, Fail
  PROVE  RightResult' /\ phase' # "running"
<1>1. Evaluated /\ Running /\ UNCHANGED <<calc, start>>
  BY DEF Fail, Evaluated, Running
<1>2. GoodCall(Lib, Step) /\ MeantNow' = MeantNow
  BY <1>1, StepIsGood, StepIsSound DEF MeantNow
<1>3. pc \in Nat /\ D \in 1 .. 6 /\ Decisive(Programs[calc], D)
  BY TheDecider
<1>4. CASE pc # D
  <2>1. Step.failing = "none"
    BY <1>1, <1>4, Position
  <2>2. phase' = "none"
    BY <2>1 DEF Fail
  <2> QED
    BY <2>2 DEF RightResult
<1>5. CASE pc = D
  <2>1. Step = Decide /\ Step = Programs[calc].steps[D]
    BY <1>1, <1>5, Position DEF Decide
  <2>2. Known(Programs[calc], D, start, bn, word)
    BY <1>3, <1>5 DEF Going, Stage
  <2>3. Given = NumbersRead(Step, Indices(Step), bn)
    BY <1>1, GivenRead DEF Going
  <2>4. ComputesRight(Programs[calc].of, Step, Given, start, word)
    <3>1. Right(Programs[calc], D) /\ start \in [Slots -> Int]
      BY <1>3 DEF Decisive, ClusterTypes
    <3> QED
      BY <2>1, <2>2, <2>3, <3>1 DEF Right
  <2>5. Refused => Step.fn = "inverse"
    BY DEF Refused
  <2>6. CASE Step.failing = "zero" /\ ~Refused
    <3>1. Step.fn = "inverse" /\ Fails(Step.fn, Given)
      BY <2>4, <2>6 DEF ComputesRight, Fail
    <3>2. Given[2] = 0 \/ Inverses(Given[1], Given[2]) = {}
      BY <3>1 DEF Fails
    <3>3. MeantNow = 0
      BY <2>4, <3>1, <3>2 DEF ComputesRight, MeantNow, Meant
    <3>4. phase' = "result" /\ bn'[Out] = 0
      BY <2>6 DEF Fail, ClusterTypes
    <3> QED
      BY <1>2, <3>3, <3>4 DEF RightResult, MeantNow
  <2>7. CASE ~(Step.failing = "zero" /\ ~Refused)
    <3>1. Step.failing # "aborted"
      <4> SUFFICES ASSUME Step.failing = "aborted" PROVE FALSE
        OBVIOUS
      <4>1. Step.fn \in Sure \/ (Step.fn \in {"add_mod", "sub_mod"} /\ Given[3] # 0)
        BY <2>4 DEF ComputesRight
      <4>2. ~Refused /\ ~Fails(Step.fn, Given)
        BY <4>1 DEF Refused, Fails, Sure
      <4> QED
        BY <4>2 DEF Fail
    <3>2. Step.failing = "excused" => Excused(Step.fn, Given)
      <4> SUFFICES ASSUME Step.failing = "excused" PROVE Excused(Step.fn, Given)
        OBVIOUS
      <4>1. \/ Step.fn \in {"mod", "div", "sqr_mod"} /\ Len(Given) = 2
            \/ Step.fn \in {"add_mod", "sub_mod", "mul_mod", "exp_mod"} /\ Len(Given) = 3
        BY <2>4 DEF ComputesRight
      <4>2. Fails(Step.fn, Given)
        BY <2>5, <4>1 DEF Fail
      <4> QED
        BY <4>1, <4>2 DEF Fails, Excused
    <3>3. phase' = "none"
      BY <2>7, <3>1, <3>2 DEF Fail
    <3> QED
      BY <3>3 DEF RightResult
  <2> QED
    BY <2>6, <2>7
<1> QED
  BY <1>4, <1>5

LEMMA ReturnRight ==
  ASSUME ClusterTypes, "Mask" \in LeftOut, Going, Return
  PROVE  RightResult' /\ phase' = "result"
<1>1. /\ pc \in Nat /\ D \in 1 .. 6 /\ Decisive(Programs[calc], D) /\ D \in DOMAIN Programs[calc].steps
      /\ Len(Programs[calc].steps) \in Nat /\ pc > Len(Programs[calc].steps)
      /\ DOMAIN Programs[calc].steps = 1 .. Len(Programs[calc].steps)
  BY TheDecider DEF Return
<1>2. phase' = "result"
  BY DEF Return, EqualsCache, Going, EqualsCache
<1>3. pc > D /\ Decided
  BY <1>1 DEF Going, Stage
<1>4. Placed(Decide) \/ InPlace(Decide) => D + 1 \in DOMAIN Programs[calc].steps
  BY <1>1 DEF Decisive, Decide, Direct, Placed, InPlace
<1>5. Direct(Decide) \/ Placed(Decide) \/ InPlace(Decide)
  BY <1>1 DEF Decisive, Decide
<1>6. bn[Out] = MeantNow
  BY <1>1, <1>3, <1>4, <1>5 DEF Decided
<1> QED
  BY <1>2, <1>6 DEF RightResult, MeantNow, Return

LEMMA InitGoing ==
  ASSUME ClusterInit, "Mask" \in LeftOut
  PROVE  Going /\ RightResult
<1>1. ClusterTypes /\ (\A k \in DOMAIN args : args[k] = [to |-> Undecided, live |-> TRUE])
  BY InitTyped
<1>2. D \in 1 .. 6 /\ pc = 1
  BY <1>1, TheDecider DEF ClusterInit
<1>3. ArgumentsStand /\ HandedOut
  BY <1>1 DEF ArgumentsStand, HandedOut
<1>4. \A s \in Slots : bn[s] = start[s]
  BY DEF ClusterInit, Slots, Out
<1>5. PlacedOnce /\ EqualsCache
  BY <1>2, <1>4 DEF PlacedOnce, EqualsCache, ClusterInit
<1>6. Known(Programs[calc], 1, start, bn, word)
  BY <1>4 DEF Known, Expected, Doubled
<1>7. Stage
  BY <1>2, <1>6 DEF Stage
<1> QED
  BY <1>3, <1>5, <1>7 DEF Going, RightResult, ClusterInit

LEMMA ResultStep ==
  ASSUME ResultInv, "Mask" \in LeftOut, [ClusterNext]_clusterVars
  PROVE  ResultInv'
<1>0. ClusterTypes /\ ClusterTypes' /\ RightResult /\ (phase = "running" => Going)
  BY TypesHold DEF ResultInv, Going
<1>q. Going' /\ UNCHANGED phase /\ phase = "running" => ResultInv'
  BY <1>0 DEF ResultInv, Going, RightResult
<1>r. RightResult' /\ phase' # "running" => ResultInv'
  BY <1>0 DEF ResultInv
<1>1. ASSUME NEW k \in 1 .. 4, Index(k) PROVE ResultInv'
  <2>1. PICK slot \in Slots, replaced \in BOOLEAN :
          Point(k, slot, replaced) /\ bn[slot] = bn[Step.args[k].index]
    BY <1>1 DEF Index
  <2>2. /\ k \in DOMAIN args /\ Running /\ args[k].to = Undecided /\ phase = "running"
        /\ UNCHANGED <<calc, start, bn, resIndex, pc, word, invalid, phase>>
        /\ Step.args[k].by \in {"[]", "bare"}
    BY <1>1 DEF Index, Pending, Running
  <2>3. slot \in 0 .. 5
    BY DEF Slots
  <2>4. Going'
    BY <1>0, <2>1, <2>2, <2>3, PointKeeps
  <2> QED
    BY <1>q, <2>2, <2>4
<1>2. ASSUME NEW k \in 1 .. 4, Destination(k) PROVE ResultInv'
  <2>1. PICK replaced \in BOOLEAN : Point(k, Step.args[k].index, replaced)
    BY <1>2 DEF Destination
  <2>2. /\ k \in DOMAIN args /\ Running /\ args[k].to = Undecided /\ phase = "running"
        /\ UNCHANGED <<calc, start, bn, resIndex, pc, word, phase>>
        /\ Step.args[k].by \in {"GetDestPtr", "res"}
    BY <1>2 DEF Destination, Pending, Running
  <2>5. (Step.args[k].by = "GetDestPtr" => invalid') /\ (invalid => invalid')
    <3>1. \/ invalid' = Invalidated("GetDestPtr")
          \/ Step.args[k].by = "res" /\ invalid' = invalid
      BY <1>2 DEF Destination
    <3>2. Invalidated("GetDestPtr") /\ "res" # "GetDestPtr"
      BY DEF Invalidated
    <3> QED
      BY ONLY <3>1, <3>2
  <2>3. Step.args[k].index \in 0 .. 5
    BY <1>0, <2>2, StepIsGood, StepIsSound
  <2>4. Going'
    BY <1>0, <2>1, <2>2, <2>3, <2>5, PointKeeps
  <2> QED
    BY <1>q, <2>2, <2>4
<1>3. ASSUME NEW k \in 1 .. 4, OptionalBn(k) PROVE ResultInv'
  <2>1. /\ k \in DOMAIN args /\ Running /\ args[k].to = Undecided /\ phase = "running"
        /\ UNCHANGED <<calc, start, bn, resIndex, pc, word>>
        /\ Step.args[k].by = "optional"
    BY <1>3 DEF OptionalBn, Pending, Running
  <2>2. CASE phase' = "none"
    BY <1>r, <2>2 DEF RightResult
  <2>3. CASE \E slot \in {Null, Step.args[k].index} :
               /\ Point(k, slot, FALSE) /\ (slot # Null => invalid') /\ (invalid => invalid') /\ UNCHANGED phase
    <3>1. PICK slot \in {Null, Step.args[k].index} :
            Point(k, slot, FALSE) /\ (slot # Null => invalid') /\ (invalid => invalid') /\ UNCHANGED phase
      BY <2>3
    <3>2. slot \in 0 .. 5
      BY <1>0, <2>1, StepIsGood, StepIsSound DEF Null
    <3>3. Going'
      BY <1>0, <2>1, <3>1, <3>2, PointKeeps
    <3> QED
      BY <1>q, <2>1, <3>1, <3>3
  <2>4. Invalidated("GetDestPtr")
    BY DEF Invalidated
  <2>5. \/ \E slot \in {Null, Step.args[k].index} :
             Point(k, slot, FALSE) /\ invalid' = Invalidated("GetDestPtr") /\ UNCHANGED phase
        \/ Point(k, Null, FALSE) /\ UNCHANGED <<invalid, phase>>
        \/ phase' = "none"
    BY <1>3 DEF OptionalBn
  <2>6. CASE \E slot \in {Null, Step.args[k].index} :
               Point(k, slot, FALSE) /\ invalid' = Invalidated("GetDestPtr") /\ UNCHANGED phase
    <3>1. invalid'
      BY <2>4, <2>6
    <3> QED
      BY <2>3, <2>6, <3>1
  <2>7. CASE Point(k, Null, FALSE) /\ UNCHANGED <<invalid, phase>>
    <3>1. invalid => invalid'
      BY <2>7
    <3> QED
      BY <2>3, <2>7, <3>1
  <2> QED
    BY <2>2, <2>5, <2>6, <2>7
<1>4. ASSUME NEW k \in 1 .. 4, GetResPtr(k) PROVE ResultInv'
  <2>1. /\ k \in DOMAIN args /\ Running /\ args[k].to = Undecided /\ phase = "running"
        /\ UNCHANGED <<calc, start, bn, pc, word>>
        /\ Step.args[k].by = "GetResPtr"
    BY <1>4 DEF GetResPtr, Pending, Running
  <2>2. pc = D
    BY <1>0, <2>1, Position, StepIsGood, StepIsSound DEF NoRes
  <2>3. resIndex = Undecided
    BY <1>0, <2>1, <2>2 DEF Going, PlacedOnce
  <2>4. PICK slot \in Slots : resIndex' = slot /\ Point(k, slot, FALSE) /\ invalid' /\ UNCHANGED phase
    BY <1>4, <2>3 DEF GetResPtr, Invalidated
  <2>5. slot \in 0 .. 5
    BY DEF Slots
  <2>6. Going'
    BY <1>0, <2>1, <2>3, <2>4, <2>5, PointKeeps
  <2> QED
    BY <1>q, <2>1, <2>4, <2>6
<1>5. CASE Fail
  BY <1>0, <1>5, <1>r, FailRight DEF Fail, Evaluated
<1>6. CASE NoConversion
  BY <1>6, <1>r DEF NoConversion, RightResult
<1>7. CASE TakeWord
  <2>1. Step.into = 0
    BY <1>0, <1>7, StepIsGood, StepIsSound DEF TakeWord, Succeeds, Evaluated, Running, GoodCall
  <2> QED
    BY <1>0, <1>7, <1>q, <2>1, TestKeeps DEF TakeWord, Succeeds, Evaluated
<1>8. CASE Pass
  BY <1>0, <1>8, <1>q, TestKeeps DEF Pass, Succeeds, Evaluated
<1>9. CASE Compute
  BY <1>0, <1>9, <1>q, ComputeKeeps DEF Compute, Succeeds, Evaluated
<1>10. CASE CopyResult
  BY <1>0, <1>10, <1>q, CopyKeeps DEF CopyResult, Succeeds, Evaluated
<1>11. CASE Return
  BY <1>0, <1>11, <1>r, ReturnRight DEF Return
<1>12. CASE UNCHANGED clusterVars
  <2>1. UNCHANGED <<Step, D, MeantNow, Running>>
    BY <1>12 DEF clusterVars, Step, D, MeantNow, Running
  <2>2. UNCHANGED Decide
    BY <1>12, <2>1 DEF clusterVars, Decide
  <2> QED
    BY <1>0, <1>12, <2>1, <2>2
       DEF clusterVars, ResultInv, Going, ArgumentsStand, Stands, HandedOut, PlacedOnce, Stage, Decided, EqualsCache, RightResult
<1> QED
  BY <1>1, <1>2, <1>3, <1>4, <1>5, <1>6, <1>7, <1>8, <1>9, <1>10, <1>11, <1>12 DEF ClusterNext

(* Whatever the four numbers are, a calculation that gives a result gives  *)
(* that of its operation on the numbers as they were set, and no assertion *)
(* of the OpenSSL and wolfCrypt modules fails: the destination of a call   *)
(* is never a number it still has to read, GetResPtr is not asked twice,   *)
(* and what wolfCrypt saved is not altered unless it was handed out. Of    *)
(* Mask it is not true: OpenSSL's alters its first number where another    *)
(* may stand for it.                                                       *)
THEOREM ResultsRight ==
  ASSUME "Mask" \in LeftOut
  PROVE  ClusterSpec => []RightResult
<1>1. ClusterInit => ResultInv
  BY InitTyped, InitGoing DEF ResultInv, Going
<1>2. ResultInv /\ [ClusterNext]_clusterVars => ResultInv'
  BY ResultStep
<1>3. ResultInv => RightResult
  BY DEF ResultInv
<1> QED
  BY <1>1, <1>2, <1>3, PTL DEF ClusterSpec

-----------------------------------------------------------------------------
(* The memory of a handler.                                                *)

(* Where a handler is with an object.                                      *)
PlaceOf(o) == AtPlace(step, blocks[o], o \in fixed)

PointersRead ==
  /\ DOMAIN pointers = IF Over THEN {} ELSE DOMAIN Now.args
  /\ \A k \in DOMAIN pointers : pointers[k] \in {"unevaluated", "alive"}

InCourse == \A o \in Objects[handler] : PlaceOf(o) \in Course(Handlers[handler], o)

(* While a handler runs each object is at a place of its course, nothing   *)
(* was left behind by a copy, and every pointer that was evaluated is      *)
(* alive; when it is over all it allocated is freed.                       *)
MemoryInv ==
  /\ handler \in DOMAIN Handlers
  /\ DOMAIN blocks = Objects[handler]
  /\ ended \in BOOLEAN
  /\ stale = {}
  /\ PointersRead
  /\ ~ended => InCourse
  /\ ended => \A o \in Objects[handler] : WellFreed(blocks[o])

(* A course holds every place a handler leads an object to, and in each    *)
(* all is as it should be.                                                 *)
LEMMA CourseGood ==
  ASSUME NEW h \in DOMAIN Handlers, NEW o \in Objects[h]
  PROVE  /\ AtPlace(1, NoBlock, FALSE) \in Course(Handlers[h], o)
         /\ \A p \in Course(Handlers[h], o) :
              Onward(Handlers[h], o, p) \subseteq Course(Handlers[h], o) /\ GoodPlace(Handlers[h], o, p)
BY HandlersAssumption DEF Disciplined, Objects

LEMMA CopiesKnown ==
  ASSUME NEW h \in DOMAIN Handlers, NEW i \in DOMAIN Handlers[h].steps,
         NEW k \in DOMAIN Handlers[h].steps[i].args
  PROVE  MayReplace(Handlers[h].steps[i].args[k]) \subseteq Objects[h]
BY HandlersAssumption DEF Disciplined, Objects

LEMMA NothingRead ==
  ASSUME NEW h, NEW n
  PROVE  /\ DOMAIN NotRead(h, n) = IF Past(Handlers[h], n) THEN {} ELSE DOMAIN Handlers[h].steps[n].args
         /\ \A k \in DOMAIN NotRead(h, n) : NotRead(h, n)[k] = "unevaluated"
<1>1. CASE Past(Handlers[h], n)
  <2>1. DOMAIN <<>> = {}
    OBVIOUS
  <2> QED BY <1>1, <2>1 DEF NotRead
<1>2. CASE ~Past(Handlers[h], n)
  BY <1>2 DEF NotRead
<1> QED BY <1>1, <1>2

LEMMA MemoryAtFirst == HandlersInit => MemoryInv
<1> SUFFICES ASSUME HandlersInit PROVE MemoryInv
  OBVIOUS
<1> USE DEF HandlersInit
<1>1. PointersRead
  BY NothingRead DEF PointersRead, Over, Now, Steps
<1>2. InCourse
  <2> SUFFICES ASSUME NEW o \in Objects[handler] PROVE PlaceOf(o) \in Course(Handlers[handler], o)
    BY DEF InCourse
  <2>1. blocks[o] = NoBlock /\ (o \in fixed) = FALSE
    OBVIOUS
  <2>2. PlaceOf(o) = AtPlace(1, NoBlock, FALSE)
    BY <2>1 DEF PlaceOf
  <2> QED BY <2>2, CourseGood
<1> QED BY <1>1, <1>2 DEF MemoryInv

(* What is where an object is.                                             *)
LEMMA PlacesGood ==
  ASSUME MemoryInv, ~ended, NEW o \in Objects[handler]
  PROVE  /\ PlaceOf(o) \in Course(Handlers[handler], o)
         /\ GoodPlace(Handlers[handler], o, PlaceOf(o))
         /\ \A p \in Onward(Handlers[handler], o, PlaceOf(o)) : p \in Course(Handlers[handler], o)
BY CourseGood DEF MemoryInv, InCourse

LEMMA NowKnown ==
  ASSUME MemoryInv, ~Over, NEW k \in DOMAIN Now.args
  PROVE  Now.args[k].of \in Objects[handler] /\ MayReplace(Now.args[k]) \subseteq Objects[handler]
<1>1. handler \in DOMAIN Handlers /\ step \in DOMAIN Handlers[handler].steps
  BY DEF MemoryInv, Over, Past
<1>2. Now.args[k].of \in Objects[handler]
  BY <1>1 DEF Objects, Mentioned, Now, Steps
<1> QED BY <1>1, <1>2, CopiesKnown DEF Now, Steps

(* What is read and what is replaced is where its object's course allows.  *)
LEMMA ReplacedWell ==
  ASSUME MemoryInv, NEW k, Evaluate(k)
  PROVE  /\ ~ended /\ ~Over /\ k \in DOMAIN Now.args
         /\ Alive(Now.args[k].of)
         /\ \A o \in Copies(Now.args[k]) :
              /\ o \in Objects[handler]
              /\ blocks[o].owners \subseteq {o}
              /\ \A j \in DOMAIN Now.args \ {k} : Now.args[j].of # o
              /\ AtPlace(step, Held(o), o \in fixed) \in Course(Handlers[handler], o)
<1>1. ~ended /\ ~Over /\ k \in DOMAIN Now.args
  BY DEF MemoryInv, PointersRead, Evaluate
<1>2. ~Past(Handlers[handler], step)
  BY <1>1 DEF Over
<1>3. Alive(Now.args[k].of)
  <2> DEFINE o == Now.args[k].of
  <2>1. o \in Objects[handler]
    BY <1>1, NowKnown
  <2>2. GoodPlace(Handlers[handler], o, PlaceOf(o))
    BY <1>1, <2>1, PlacesGood
  <2> QED BY <1>1, <1>2, <2>2 DEF GoodPlace, PlaceOf, AtPlace, Now, Steps, Alive
<1>4. ASSUME NEW o \in Copies(Now.args[k])
      PROVE  /\ o \in Objects[handler]
             /\ blocks[o].owners \subseteq {o}
             /\ \A j \in DOMAIN Now.args \ {k} : Now.args[j].of # o
             /\ AtPlace(step, Held(o), o \in fixed) \in Course(Handlers[handler], o)
  <2>1. o \in MayReplace(Now.args[k]) /\ (o \in fixed) = FALSE
    BY DEF Copies
  <2>2. o \in Objects[handler]
    BY <1>1, <2>1, NowKnown
  <2>3. GoodPlace(Handlers[handler], o, PlaceOf(o))
    BY <1>1, <2>2, PlacesGood
  <2>4. /\ blocks[o].owners \subseteq {o}
        /\ \A j \in DOMAIN Now.args \ {k} : Now.args[j].of # o
    BY <1>1, <1>2, <2>1, <2>3 DEF GoodPlace, PlaceOf, AtPlace, Now, Steps
  <2>5. AtPlace(step, Held(o), FALSE) \in Onward(Handlers[handler], o, PlaceOf(o))
    BY <1>1, <1>2, <2>1 DEF Onward, PlaceOf, AtPlace, Now, Steps
  <2> QED BY <1>1, <2>1, <2>2, <2>4, <2>5, PlacesGood
<1> QED BY <1>1, <1>3, <1>4

LEMMA EvaluateKeeps ==
  ASSUME MemoryInv, NEW k, Evaluate(k)
  PROVE  MemoryInv'
<1>1. PICK replaced \in SUBSET Copies(Now.args[k]) :
       /\ pointers' = [j \in DOMAIN pointers |->
                         CASE j = k -> IF Alive(Now.args[k].of) THEN "alive" ELSE "dead"
                           [] j # k /\ pointers[j] = "alive" /\ Now.args[j].of \in replaced -> "dead"
                           [] OTHER -> pointers[j]]
       /\ stale' = stale \cup UNION {blocks[o].owners \ {o} : o \in replaced}
       /\ blocks' = [o \in DOMAIN blocks |-> IF o \in replaced THEN Held(o) ELSE blocks[o]]
  BY DEF Evaluate
<1>2. UNCHANGED <<handler, step, fixed, ended>> /\ ~ended /\ k \in DOMAIN pointers
  BY DEF Evaluate
<1>3. stale' = {}
  <2>1. \A o \in replaced : blocks[o].owners \ {o} = {}
    BY ReplacedWell
  <2> QED BY <1>1, <2>1 DEF MemoryInv
<1>4. DOMAIN blocks' = Objects[handler]'
  BY <1>1, <1>2 DEF MemoryInv, Objects
<1>5. PointersRead'
  <2>1. DOMAIN pointers' = DOMAIN pointers
    BY <1>1
  <2>2. DOMAIN pointers' = IF Over' THEN {} ELSE DOMAIN Now'.args
    BY <1>2, <2>1 DEF MemoryInv, PointersRead, Over, Now, Steps
  <2>3. ASSUME NEW j \in DOMAIN pointers PROVE pointers'[j] \in {"unevaluated", "alive"}
    <3>1. CASE j = k
      BY <1>1, <3>1, ReplacedWell
    <3>2. CASE j # k
      <4>1. j \in DOMAIN Now.args \ {k}
        BY <3>2 DEF MemoryInv, PointersRead
      <4>2. Now.args[j].of \notin replaced
        <5>1. \A o \in Copies(Now.args[k]) : \A i \in DOMAIN Now.args \ {k} : Now.args[i].of # o
          BY ReplacedWell
        <5> QED BY <4>1, <5>1
      <4>3. pointers'[j] = pointers[j]
        BY <1>1, <3>2, <4>2
      <4> QED BY <4>3 DEF MemoryInv, PointersRead
    <3> QED BY <3>1, <3>2
  <2> QED BY <2>1, <2>2, <2>3 DEF PointersRead
<1>6. InCourse'
  <2>1. ASSUME NEW o \in Objects[handler]
        PROVE  AtPlace(step, blocks'[o], o \in fixed) \in Course(Handlers[handler], o)
    <3>1. CASE o \in replaced
      <4>1. blocks'[o] = Held(o)
        BY <1>1, <3>1 DEF MemoryInv
      <4> QED BY <3>1, <4>1, ReplacedWell
    <3>2. CASE o \notin replaced
      <4>1. blocks'[o] = blocks[o]
        BY <1>1, <3>2 DEF MemoryInv
      <4> QED BY <1>2, <4>1, PlacesGood DEF PlaceOf
    <3> QED BY <3>1, <3>2
  <2> QED BY <1>2, <2>1 DEF InCourse, PlaceOf, Objects
<1> QED BY <1>2, <1>3, <1>4, <1>5, <1>6 DEF MemoryInv

LEMMA SucceedKeeps ==
  ASSUME MemoryInv, Succeed
  PROVE  MemoryInv'
<1>1. ~ended /\ ~Over
  BY DEF Succeed, Ready
<1>2. PICK d \in Now.leads : step' = step + d /\ pointers' = NotRead(handler, step + d)
  BY DEF Succeed, Goes
<1>3. /\ blocks' = [o \in DOMAIN blocks |-> After(Now, o, blocks[o])]
      /\ fixed' = fixed \cup LocksOf(Now)
      /\ UNCHANGED <<handler, stale, ended>>
  BY DEF Succeed
<1>4. PointersRead'
  BY <1>2, <1>3, NothingRead DEF PointersRead, Over, Now, Steps
<1>5. DOMAIN blocks' = Objects[handler]'
  BY <1>3 DEF MemoryInv, Objects
<1>6. InCourse'
  <2>1. ASSUME NEW o \in Objects[handler]
        PROVE  AtPlace(step + d, blocks'[o], o \in fixed') \in Course(Handlers[handler], o)
    <3>1. blocks'[o] = After(Now, o, blocks[o])
      BY <1>3 DEF MemoryInv
    <3>2. (o \in fixed') = (o \in fixed \/ o \in LocksOf(Now))
      BY <1>3
    <3>3. AtPlace(step + d, After(Now, o, blocks[o]), o \in fixed \/ o \in LocksOf(Now))
            \in Onward(Handlers[handler], o, PlaceOf(o))
      BY <1>1 DEF Onward, PlaceOf, AtPlace, Now, Steps, Over
    <3> QED BY <1>1, <3>1, <3>2, <3>3, PlacesGood
  <2> QED BY <1>2, <1>3, <2>1 DEF InCourse, PlaceOf, Objects
<1> QED BY <1>1, <1>3, <1>4, <1>5, <1>6 DEF MemoryInv

LEMMA EndKeeps ==
  ASSUME MemoryInv, End
  PROVE  MemoryInv'
<1>1. ~ended /\ Leave /\ (Over \/ (~Over /\ Leaves(Now)))
  BY DEF End, Ready
<1>2. /\ ended' = TRUE
      /\ blocks' = [o \in DOMAIN blocks |-> FreedBy(blocks[o], AtEnd[handler])]
      /\ UNCHANGED <<handler, step, pointers, fixed, stale>>
  BY <1>1 DEF Leave
<1>3. ASSUME NEW o \in Objects[handler] PROVE WellFreed(blocks'[o])
  <2>1. GoodPlace(Handlers[handler], o, PlaceOf(o))
    BY <1>1, PlacesGood
  <2>2. WellFreed(FreedBy(blocks[o], FreedAtEnd(Handlers[handler])))
    BY <1>1, <2>1 DEF GoodPlace, PlaceOf, AtPlace, Over, Now, Steps
  <2>3. blocks'[o] = FreedBy(blocks[o], FreedAtEnd(Handlers[handler]))
    BY <1>2 DEF MemoryInv, AtEnd
  <2> QED BY <2>2, <2>3
<1>4. PointersRead'
  BY <1>2 DEF MemoryInv, PointersRead, Over, Now, Steps
<1> QED BY <1>2, <1>3, <1>4 DEF MemoryInv, Objects

LEMMA MemoryKept == MemoryInv /\ [HandlersNext]_handlerVars => MemoryInv'
<1>1. MemoryInv /\ UNCHANGED handlerVars => MemoryInv'
  BY DEF MemoryInv, PointersRead, InCourse, PlaceOf, Over, Now, Steps, handlerVars
<1> QED BY <1>1, EvaluateKeeps, SucceedKeeps, EndKeeps DEF HandlersNext

LEMMA MemorySound == MemoryInv => FreedOnce /\ ArgumentsAlive
<1> SUFFICES ASSUME MemoryInv PROVE FreedOnce /\ ArgumentsAlive
  OBVIOUS
<1>1. ArgumentsAlive
  BY DEF MemoryInv, PointersRead, ArgumentsAlive
<1>2. ASSUME NEW o \in DOMAIN blocks
      PROVE  /\ blocks[o].frees <= 1
             /\ ended /\ blocks[o].there => blocks[o].frees = 1
             /\ Ready /\ Now.what \in {"check", "call"} /\ o \in Now.into /\ o.kind = "pointer"
                  => ~Alive(o)
  <2>1. CASE ended
    BY <2>1 DEF MemoryInv, WellFreed, Ready
  <2>2. CASE ~ended
    <3>1. GoodPlace(Handlers[handler], o, PlaceOf(o))
      BY <2>2, PlacesGood DEF MemoryInv
    <3> QED BY <2>2, <3>1 DEF GoodPlace, PlaceOf, AtPlace, Ready, Over, Now, Steps, Alive
  <2> QED BY <2>1, <2>2 DEF MemoryInv
<1> QED BY <1>1, <1>2 DEF FreedOnce, MemoryInv

(* Whichever call sends a handler of OpenSSL's or wolfCrypt's to `end:',   *)
(* and in whatever order the arguments of its calls are evaluated, each    *)
(* object is where its own course allows; so what a handler does to all of *)
(* them at once is sound when what it does to each is.                     *)
THEOREM MemoryHeld == HandlersSpec => []MemoryInv
BY MemoryAtFirst, MemoryKept, PTL DEF HandlersSpec

-----------------------------------------------------------------------------
(* Calculations and handlers.                                              *)

CallsInv == (PointersInv \/ ClusterAtRest) /\ (MemoryInv \/ HandlersAtRest)

LEMMA CallsAtFirst == CalculationsInit => CallsInv
<1>1. ClusterInit => PointersInv
  BY InitTyped, FreshHeld DEF PointersInv
<1> QED
  BY <1>1, MemoryAtFirst DEF CalculationsInit, CallsInv

LEMMA CallsKept ==
  CallsInv /\ [CalculationsNext]_<<vars, clusterVars, handlerVars, answersVars>> => CallsInv'
<1> SUFFICES ASSUME CallsInv, [CalculationsNext]_<<vars, clusterVars, handlerVars, answersVars>>
             PROVE  CallsInv'
  OBVIOUS
<1>1. \/ UNCHANGED clusterVars
      \/ phase = "running" /\ ClusterNext
  BY DEF CalculationsNext
<1>2. \/ UNCHANGED handlerVars
      \/ ~ended /\ HandlersNext
  BY DEF CalculationsNext
<1>3. (PointersInv \/ ClusterAtRest)'
  <2>1. CASE PointersInv
    BY <1>1, <2>1, PointersStep
  <2>2. CASE ClusterAtRest
    BY <1>1, <2>2 DEF ClusterAtRest, clusterVars
  <2> QED BY <2>1, <2>2 DEF CallsInv
<1>4. (MemoryInv \/ HandlersAtRest)'
  <2>1. CASE MemoryInv
    BY <1>2, <2>1, MemoryKept
  <2>2. CASE HandlersAtRest
    BY <1>2, <2>2 DEF HandlersAtRest, handlerVars
  <2> QED BY <2>1, <2>2 DEF CallsInv
<1> QED BY <1>3, <1>4 DEF CallsInv

LEMMA CallsSound == CallsInv => CallsGetLivePointers /\ FreedOnce
<1> SUFFICES ASSUME CallsInv PROVE CallsGetLivePointers /\ FreedOnce
  OBVIOUS
<1>1. PointersAlive
  BY DEF CallsInv, PointersInv, ClusterAtRest, PointersAlive
<1>2. FreedOnce /\ ArgumentsAlive
  <2>1. CASE HandlersAtRest
    <3>1. DOMAIN <<>> = {}
      OBVIOUS
    <3> QED BY <2>1, <3>1 DEF HandlersAtRest, FreedOnce, ArgumentsAlive
  <2> QED BY <2>1, MemorySound DEF CallsInv
<1> QED BY <1>1, <1>2 DEF CallsGetLivePointers

(* No function of OpenSSL's or wolfCrypt's is given a pointer to something *)
(* freed, by a calculation on any numbers or by a handler, in whatever     *)
(* order C++ evaluates the arguments of a call and whatever GetPtr         *)
(* replaces by a copy in between.                                          *)
THEOREM PointersGivenLive == CalculationsSpec => []CallsGetLivePointers
BY CallsAtFirst, CallsKept, CallsSound, PTL DEF CalculationsSpec

(* Whichever call sends a handler to `end:', what it allocated is freed    *)
(* there, and once: what a key or a signature took over by that, what a    *)
(* copy replaced when it was made, and what is freed by hand before        *)
(* something else is put in its place.                                     *)
THEOREM AllFreedOnce == CalculationsSpec => []FreedOnce
BY CallsAtFirst, CallsKept, CallsSound, PTL DEF CalculationsSpec
=============================================================================
