--------------------------- MODULE BignumCluster ---------------------------
(***************************************************************************)
(* How the OpenSSL and wolfCrypt modules feed a calculation's four numbers *)
(* to the library.  The modifier decides which bignum stands for a number: *)
(* any other that has the same value may, the result may overwrite any of  *)
(* the four, and OpenSSL's are replaced by a copy now and then.  C++ leaves *)
(* open in which order the arguments of a call are evaluated.  The build   *)
(* is against OpenSSL itself and wolfCrypt without SP math; of variants    *)
(* that differ in the library's function alone one is listed.              *)
(***************************************************************************)
EXTENDS BigNumbers, Sequences

CONSTANTS
  Numbers,  \* of the four numbers
  LeftOut   \* programs a run is not about

ASSUME NumbersAssumption == Numbers \subseteq Int

Slots == 0 .. 3
Out == 4       \* res, a bignum outside of the cluster
Null == 5
Undecided == 6
Garbage == 1000   \* what Randomize leaves in res

VARIABLES
  calc,     \* the program
  start,    \* the four numbers, as they were set
  bn,       \* the values of the bignums: the cluster and res
  locked,   \* the bignums that may not be replaced
  resIndex, \* of the result, or Undecided
  pc,       \* the call under way
  args,     \* its arguments: the bignum, and whether it is still there
  word,     \* the number taken out of its bignum
  invalid,  \* wolfCrypt: a bignum was handed out to be written to
  phase     \* "running", "result", "none" or "aborted"

clusterVars == <<calc, start, bn, locked, resIndex, pc, args, word, invalid, phase>>

-----------------------------------------------------------------------------
(* The programs.                                                           *)

Src(i)  == [by |-> "[]", index |-> i]          \* bn[i].GetPtr()
Bare(i) == [by |-> "bare", index |-> i]        \* bn[i], and no pointer
Dest(i) == [by |-> "GetDestPtr", index |-> i]  \* bn.GetDestPtr(i)
Opt(i)  == [by |-> "optional", index |-> i]    \* the same, or none
Res     == [by |-> "GetResPtr", index |-> 0]
Result  == [by |-> "res", index |-> Out]

Call(fn, given, into, failing) ==
  [fn |-> fn, args |-> given, into |-> into, failing |-> failing, sequenced |-> FALSE]

Asserted(fn, given) == Call(fn, given, 1, "aborted")   \* CF_ASSERT_EQ
Excusable(fn, given) == Call(fn, given, 1, "excused")  \* CF_ASSERT_EQ_COND
Checked(fn, given) == Call(fn, given, 1, "none")       \* CF_CHECK_EQ
Tested(fn, given) == Call(fn, given, 0, "none")
Negative(i) == Tested("negative", <<Src(i)>>)
Nonnegative(i) == Tested("nonnegative", <<Src(i)>>)
Less(i, j) == Tested("less", <<Src(i), Src(j)>>)
Copied == Tested("CopyResult", <<>>)
Word == Tested("word", <<Bare(1)>>)
Sequenced(c) == [c EXCEPT !.sequenced = TRUE]

(* wolfCrypt's functions take the destination last.                        *)
Wolf(fn, given) == Call(fn, given, Len(given), "none")

Program(lib, of, steps) == [lib |-> lib, of |-> of, steps |-> steps]
OpenSSL(of, steps) == Program("openssl", of, steps)
WolfCrypt(of, steps) == Program("wolfcrypt", of, steps)

IfBounded(m, c) == <<Nonnegative(0), Nonnegative(1), Less(0, m), Less(1, m), c>>

(* A way through a Run whose outcome is decided by a branch is a program   *)
(* that ends where the other branch begins.                                *)
SumsAndProducts ==
  [Add0 |-> OpenSSL("add", <<Asserted("add", <<Res, Src(0), Src(1)>>), Copied>>),
   Add1 |-> OpenSSL("add", <<Nonnegative(0), Nonnegative(1), Asserted("add", <<Result, Src(0), Src(1)>>)>>),
   Add2 |-> OpenSSL("add", <<Word, Asserted("add_word", <<Dest(0)>>), Checked("copy", <<Result, Src(0)>>)>>),
   Sub0 |-> OpenSSL("sub", <<Asserted("sub", <<Res, Src(0), Src(1)>>), Copied>>),
   Sub2 |-> OpenSSL("sub", <<Word, Asserted("sub_word", <<Dest(0)>>), Checked("copy", <<Result, Src(0)>>)>>),
   Mul0 |-> OpenSSL("mul", <<Asserted("mul", <<Res, Src(0), Src(1)>>), Copied>>),
   Mul1 |-> OpenSSL("mul", <<Word, Asserted("mul_word", <<Dest(0)>>), Checked("copy", <<Result, Src(0)>>)>>)]

Powers ==
  [Mod0    |-> OpenSSL("mod", <<Excusable("mod", <<Result, Src(0), Src(1)>>),
                           Nonnegative(0), Nonnegative(1)>>),
   ExpMod2 |-> OpenSSL("exp_mod", <<Excusable("exp_mod", <<Result, Src(0), Src(1), Src(2)>>)>>),
   ExpMod4 |-> OpenSSL("exp_mod", <<Sequenced(Checked("exp_mod_x2", <<Result, Src(0), Src(1), Src(2)>>))>>)]

ModularPrograms ==
  [Sqr     |-> OpenSSL("sqr", <<Asserted("sqr", <<Res, Src(0)>>), Copied>>),
   GCD0    |-> OpenSSL("gcd", <<Asserted("gcd", <<Res, Src(0), Src(1)>>), Copied>>),
   AddMod0 |-> OpenSSL("add_mod", <<Excusable("add_mod", <<Result, Src(0), Src(1), Src(2)>>)>>),
   AddMod1 |-> OpenSSL("add_mod", IfBounded(2, Asserted("add_mod", <<Result, Src(0), Src(1), Src(2)>>))),
   SubMod0 |-> OpenSSL("sub_mod", <<Excusable("sub_mod", <<Result, Src(0), Src(1), Src(2)>>)>>),
   SubMod1 |-> OpenSSL("sub_mod", IfBounded(2, Asserted("sub_mod", <<Result, Src(0), Src(1), Src(2)>>))),
   MulMod0 |-> OpenSSL("mul_mod", <<Sequenced(Excusable("mul_mod", <<Res, Src(0), Src(1), Src(2)>>)), Copied>>),
   SqrMod0 |-> OpenSSL("sqr_mod", <<Excusable("sqr_mod", <<Result, Src(0), Src(1)>>)>>),
   InvMod0 |-> OpenSSL("inverse", <<Sequenced(Call("inverse", <<Res, Src(0), Src(1)>>, 1, "zero")), Copied>>)]

Quotients ==
  [Cmp0 |-> OpenSSL("cmp", <<Asserted("cmp", <<Result, Src(0), Src(1)>>)>>),
   Div0 |-> OpenSSL("div", <<Excusable("div", <<Result, Src(0), Src(1)>>)>>),
   Div2 |-> OpenSSL("div", <<Word, Checked("div_word", <<Dest(0)>>), Checked("copy", <<Result, Src(0)>>)>>)]

BitsAndSigns ==
  [Exp         |-> OpenSSL("exp", <<Checked("exp", <<Result, Src(0), Src(1)>>)>>),
   AbsNegative |-> OpenSSL("abs", <<Negative(0), Asserted("neg", <<Result, Src(0)>>)>>),
   AbsElse     |-> OpenSSL("abs", <<Nonnegative(0), Checked("copy", <<Result, Src(0)>>)>>),
   RShift0     |-> OpenSSL("rshift", <<Word, Asserted("rshift", <<Result, Src(0)>>)>>),
   LShift1     |-> OpenSSL("lshift1", <<Asserted("lshift1", <<Result, Src(0)>>)>>),
   SetBit      |-> OpenSSL("set_bit", <<Word, Asserted("set_bit", <<Dest(0)>>), Checked("copy", <<Result, Src(0)>>)>>),
   ClearBit    |-> OpenSSL("clear_bit", <<Word, Checked("clear_bit", <<Dest(0)>>), Checked("copy", <<Result, Src(0)>>)>>),
   Mask        |-> OpenSSL("mask", <<Word, Checked("mask", <<Src(0)>>), Checked("copy", <<Result, Src(0)>>)>>),
   Neg         |-> OpenSSL("neg", <<Checked("copy", <<Result, Src(0)>>), Asserted("neg", <<Result, Src(0)>>)>>)]

WolfCryptPrograms ==
  [WolfAdd0    |-> WolfCrypt("add", <<Wolf("add", <<Src(0), Src(1), Res>>), Copied>>),
   WolfMod2    |-> WolfCrypt("mod", <<Nonnegative(0), Wolf("double", <<Src(0), Dest(0)>>),
                               Less(0, 1), Wolf("halve", <<Src(0), Src(1), Res>>), Copied>>),
   WolfAddMod1 |-> WolfCrypt("add_mod", <<Nonnegative(0), Nonnegative(1), Nonnegative(2), Less(0, 1), Less(1, 2),
                               Wolf("add_mod", <<Src(0), Src(1), Src(2), Res>>), Copied>>),
   WolfSub0    |-> WolfCrypt("sub", <<Wolf("sub", <<Src(0), Src(1), Res>>), Copied>>),
   WolfAdd1    |-> WolfCrypt("add", <<Word, Wolf("add_word", <<Src(0), Res>>), Copied>>),
   WolfMulMod  |-> WolfCrypt("mul_mod", <<Wolf("mul_mod", <<Src(0), Src(1), Src(2), Res>>), Copied>>),
   WolfExch    |-> WolfCrypt("copy", <<Call("exch", <<Res, Src(0)>>, 1, "none"), Copied>>),
   WolfSetBit  |-> WolfCrypt("set_bit", <<Word, Wolf("copy", <<Src(0), Result>>), Wolf("set_bit", <<Result>>)>>),
   WolfRShift1 |-> WolfCrypt("rshift", <<Word, Call("rshift", <<Src(0), Result, Opt(3)>>, 2, "none")>>),
   WolfDiv0    |-> WolfCrypt("div", <<Sequenced(Call("div", <<Res, Opt(3), Src(0), Src(1)>>, 1, "none")), Copied,
                               Nonnegative(0)>>)]

Joined(some, others) ==
  [c \in DOMAIN some \cup DOMAIN others |-> IF c \in DOMAIN some THEN some[c] ELSE others[c]]

Programs ==
  Joined(SumsAndProducts, Joined(Powers, Joined(ModularPrograms,
    Joined(Quotients, Joined(BitsAndSigns, WolfCryptPrograms)))))

Lib == Programs[calc].lib
Step == Programs[calc].steps[pc]

-----------------------------------------------------------------------------
(* What the libraries compute, and when they refuse.                       *)

Magnitude(n) == IF n < 0 THEN -n ELSE n
Sign(n) == IF n < 0 THEN -1 ELSE 1
Remainder(a, m) == a % Magnitude(m)
Quotient(a, b) == Sign(a) * Sign(b) * (Magnitude(a) \div Magnitude(b))
Inverses(a, m) == {x \in 0 .. Magnitude(m) - 1 : Remainder(a * x, m) = Remainder(1, m)}
ModularInverse(a, m) == CHOOSE x \in Inverses(a, m) : TRUE
Divisors(n) == {d \in 1 .. n : n % d = 0}

Gcd(a, b) ==
  LET m == Magnitude(a)  n == Magnitude(b)
  IN  IF m = 0 \/ n = 0 THEN m + n
      ELSE CHOOSE d \in Divisors(m) \cap Divisors(n) :
             \A e \in Divisors(m) \cap Divisors(n) : e <= d

(* Of a negative number the magnitude is shifted, or its bits set.         *)
ShiftedRight(n, w) == Sign(n) * (Magnitude(n) \div Power(2, w))
LowBits(n, w) == Sign(n) * (Magnitude(n) % Power(2, w))
BitIsSet(n, w) == (Magnitude(n) \div Power(2, w)) % 2 = 1
WithBit(n, w) == IF BitIsSet(n, w) THEN n ELSE Sign(n) * (Magnitude(n) + Power(2, w))
WithoutBit(n, w) == IF BitIsSet(n, w) THEN Sign(n) * (Magnitude(n) - Power(2, w)) ELSE n

Computes(fn, x, w) ==
  CASE fn = "add"      -> x[1] + x[2]
    [] fn = "add_word" -> x[1] + w
    [] fn = "sub_word" -> x[1] - w
    [] fn = "mul"      -> x[1] * x[2]
    [] fn = "cmp"      -> IF x[1] = x[2] THEN 0 ELSE IF x[1] > x[2] THEN 1 ELSE -1
    [] fn = "abs"      -> Magnitude(x[1])
    [] fn = "sub"      -> x[1] - x[2]
    [] fn = "mul_word" -> x[1] * w
    [] fn = "sqr"      -> x[1] * x[1]
    [] fn = "gcd"      -> Gcd(x[1], x[2])
    [] fn = "mod"      -> Remainder(x[1], x[2])
    [] fn = "add_mod"  -> Remainder(x[1] + x[2], x[3])
    [] fn = "sub_mod"  -> Remainder(x[1] - x[2], x[3])
    [] fn = "mul_mod"  -> Remainder(x[1] * x[2], x[3])
    [] fn = "exp_mod"  -> Remainder(Power(x[1], Magnitude(x[2])), x[3])
    [] fn = "exp_mod_x2" -> Remainder(Power(x[1], Magnitude(x[2])), x[3])
    [] fn = "exp"      -> Power(x[1], Magnitude(x[2]))
    [] fn = "sqr_mod"  -> Remainder(x[1] * x[1], x[2])
    [] fn = "inverse"  -> ModularInverse(x[1], x[2])
    [] fn = "div"      -> Quotient(x[1], x[2])
    [] fn = "div_word" -> Quotient(x[1], w)
    [] fn = "rshift"   -> ShiftedRight(x[1], w)
    [] fn = "set_bit"  -> WithBit(x[1], w)
    [] fn = "clear_bit" -> WithoutBit(x[1], w)
    [] fn = "lshift1"  -> 2 * x[1]
    [] fn = "mask"     -> LowBits(x[1], w)
    [] fn = "double"   -> 2 * x[1]
    [] fn = "halve"    -> Remainder(x[1] \div 2, x[2])
    [] fn = "neg"      -> -x[1]
    [] fn \in {"copy", "exch"} -> x[1]

Aliases(p, q) == args[p].to = args[q].to

IsWord(n) == n >= 0   \* AsUint64: the values of a run fit 64 bits

Fails(fn, x) ==
  \/ fn \in {"mod", "div", "sqr_mod"} /\ x[2] = 0
  \/ fn \in {"add_mod", "sub_mod", "mul_mod", "exp_mod"} /\ x[3] = 0
  \/ fn = "mul_mod" /\ Aliases(1, 4)
  \/ fn = "inverse" /\ (x[2] = 0 \/ Inverses(x[1], x[2]) = {})
  \/ fn = "div_word" /\ word = 0
  \/ fn \in {"mask", "clear_bit"} /\ x[1] = 0
  \/ fn = "exp_mod_x2" /\ x[3] % 2 = 0
  \/ fn = "negative" /\ x[1] >= 0
  \/ fn = "nonnegative" /\ x[1] < 0
  \/ fn = "word" /\ ~IsWord(x[1])
  \/ fn = "less" /\ x[1] >= x[2]

(* The conditions of the CF_ASSERT_EQ_CONDs.                               *)
Excused(fn, x) ==
  \/ x[Len(x)] = 0
  \/ fn = "exp_mod" /\ x[3] % 2 = 0
  \/ fn = "mul_mod" /\ Aliases(1, 4)

-----------------------------------------------------------------------------
Unevaluated == [to |-> Undecided, live |-> TRUE]
Fresh(c, n) ==
  IF n > Len(Programs[c].steps) THEN <<>>
  ELSE [k \in DOMAIN Programs[c].steps[n].args |-> Unevaluated]

ClusterInit ==
  /\ calc \in DOMAIN Programs \ LeftOut
  /\ start \in [Slots -> Numbers]
  /\ bn = [s \in Slots \cup {Out} |-> IF s = Out THEN Garbage ELSE start[s]]
  /\ locked = {} /\ resIndex = Undecided
  /\ pc = 1 /\ args = Fresh(calc, 1)
  /\ word = 0 /\ invalid = FALSE /\ phase = "running"

Pending(k) ==
  /\ phase = "running" /\ pc <= Len(Programs[calc].steps)
  /\ k \in DOMAIN args /\ args[k].to = Undecided
  /\ Step.sequenced => \A j \in 1 .. k - 1 : args[j].to # Undecided

(* A bignum that is not locked may be replaced by a copy: pointers to the  *)
(* old one are left behind.                                                *)
Point(k, slot, replaced) ==
  args' = [j \in DOMAIN args |->
             IF j = k THEN [to |-> slot, live |-> TRUE]
             ELSE IF replaced /\ args[j].to = slot THEN [args[j] EXCEPT !.live = FALSE]
             ELSE args[j]]

Replaceable(slot, locks) == Lib = "openssl" /\ slot \notin locks

FaultLocks(index, slot) == locked   \* fault: the other bignum is not locked

(* operator[] of BignumCluster: only OpenSSL's locks.                      *)
Locks(index, slot) ==
  IF Lib = "openssl" /\ slot # index THEN locked \cup {slot} ELSE locked

Index(k) ==
  LET index == Step.args[k].index
  IN  \E slot \in Slots :
        /\ Pending(k) /\ Step.args[k].by \in {"[]", "bare"}
        /\ bn[slot] = bn[index]
        /\ locked' = Locks(index, slot)
        /\ \E replaced \in BOOLEAN :
             /\ replaced => Replaceable(slot, locked') /\ Step.args[k].by = "[]"
             /\ Point(k, slot, replaced)
        /\ UNCHANGED <<calc, start, bn, resIndex, pc, word, invalid, phase>>

Invalidated(by) == invalid \/ by \in {"GetResPtr", "GetDestPtr"}

Destination(k) ==
  LET index == Step.args[k].index
  IN  /\ Pending(k)
      /\ \/ Step.args[k].by = "GetDestPtr" /\ invalid' = Invalidated("GetDestPtr")
         \/ Step.args[k].by = "res" /\ UNCHANGED invalid
      /\ \E replaced \in BOOLEAN :
           /\ replaced => Replaceable(index, locked)
           /\ Point(k, index, replaced)
      /\ UNCHANGED <<calc, start, bn, locked, resIndex, pc, word, phase>>

(* GET_OPTIONAL_BN: the modifier may also be at its end, which throws.  A  *)
(* remainder that would be the result is not asked for.                    *)
OptionalBn(k) ==
  /\ Pending(k) /\ Step.args[k].by = "optional"
  /\ \/ /\ LET slot == IF resIndex = Step.args[k].index THEN Null ELSE Step.args[k].index
           IN  Point(k, slot, FALSE)
        /\ invalid' = Invalidated("GetDestPtr") /\ UNCHANGED phase
     \/ Point(k, Null, FALSE) /\ UNCHANGED <<invalid, phase>>
     \/ phase' = "none" /\ UNCHANGED <<invalid, args>>
  /\ UNCHANGED <<calc, start, bn, locked, resIndex, pc, word>>

GetResPtr(k) ==
  /\ Pending(k) /\ Step.args[k].by = "GetResPtr"
  /\ IF resIndex # Undecided
       THEN phase' = "aborted" /\ UNCHANGED <<locked, resIndex, args, invalid>>
       ELSE \E slot \in Slots :
              /\ resIndex' = slot
              /\ locked' = locked \cup {slot}
              /\ invalid' = Invalidated("GetResPtr")
              /\ Point(k, slot, FALSE) /\ UNCHANGED phase
  /\ UNCHANGED <<calc, start, bn, pc, word>>

-----------------------------------------------------------------------------
Evaluated ==
  /\ phase = "running" /\ pc <= Len(Programs[calc].steps)
  /\ \A k \in DOMAIN args : args[k].to # Undecided

(* What a call reads: the numbers it was given, and one it alters in       *)
(* place.  They are next to each other among its arguments.                *)
Reads(c) ==
  {k \in DOMAIN c.args :
     c.args[k].by \in {"[]", "bare", "GetDestPtr"} \/ c.fn = "set_bit"}

FirstRead(c) == CHOOSE k \in Reads(c) : \A j \in Reads(c) : k <= j

NumbersRead(c, at, numbers) ==
  [i \in {k - FirstRead(c) + 1 : k \in Reads(c)} |-> numbers[at[FirstRead(c) + i - 1]]]

Given == NumbersRead(Step, [k \in DOMAIN args |-> args[k].to], bn)

Advance == pc' = pc + 1 /\ args' = Fresh(calc, pc + 1)

(* InvMod returns before the call when the result would replace the        *)
(* modulus.                                                                *)
Refused == Step.fn = "inverse" /\ Aliases(1, 3)

Fail ==
  /\ Evaluated /\ (Refused \/ Fails(Step.fn, Given))
  /\ IF Step.failing = "zero" /\ ~Refused
       THEN phase' = "result" /\ bn' = [bn EXCEPT ![Out] = 0]
       ELSE /\ phase' = IF /\ Step.failing \in {"aborted", "excused"}
                           /\ ~(Step.failing = "excused" /\ Excused(Step.fn, Given))
                          THEN "aborted" ELSE "none"
            /\ UNCHANGED bn
  /\ UNCHANGED <<calc, start, locked, resIndex, pc, args, word, invalid>>

(* AsUint64 may choose a conversion there is none of.                      *)
NoConversion ==
  /\ Evaluated /\ Step.fn = "word"
  /\ phase' = "none"
  /\ UNCHANGED <<calc, start, bn, locked, resIndex, pc, args, word, invalid>>

Succeeds == Evaluated /\ ~Refused /\ ~Fails(Step.fn, Given)

TakeWord ==
  /\ Succeeds /\ Step.fn = "word"
  /\ word' = Given[1]
  /\ Advance
  /\ UNCHANGED <<calc, start, bn, locked, resIndex, invalid, phase>>

Pass ==
  /\ Succeeds /\ Step.into = 0 /\ Step.fn \notin {"word", "CopyResult"}
  /\ Advance
  /\ UNCHANGED <<calc, start, bn, locked, resIndex, word, invalid, phase>>

(* Besides its destination a call may alter a bignum it leaves a remainder *)
(* in, or exchanges the result with.                                       *)
Besides ==
  CASE Step.fn = "exch" -> bn[args[1].to]
    [] Step.fn = "rshift" -> LowBits(Given[1], word)
    [] Step.fn = "div" -> Given[1] - Given[2] * Quotient(Given[1], Given[2])

Compute ==
  /\ Succeeds /\ Step.into # 0
  /\ LET dest == args[Step.into].to
         besides(s) == {k \in DOMAIN args : /\ args[k].to = s
                                           /\ (Step.args[k].by = "optional" \/ Step.fn = "exch")}
     IN  bn' = [s \in DOMAIN bn |->
                  CASE s = dest -> Computes(Step.fn, Given, word)
                    [] s # dest /\ besides(s) # {} -> Besides
                    [] OTHER -> bn[s]]
  /\ Advance
  /\ UNCHANGED <<calc, start, locked, resIndex, word, invalid, phase>>

FaultSource == 0   \* fault: the result is taken to be in the first bignum

Source == resIndex

CopyResult ==
  /\ Succeeds /\ Step.fn = "CopyResult"
  /\ IF resIndex = Undecided
       THEN phase' = "aborted" /\ UNCHANGED <<bn, pc, args>>
       ELSE bn' = [bn EXCEPT ![Out] = bn[Source]] /\ Advance /\ UNCHANGED phase
  /\ UNCHANGED <<calc, start, locked, resIndex, word, invalid>>

(* wolfCrypt's module then asserts that the cluster equals what it saved,  *)
(* unless a bignum was handed out to be written to.                        *)
EqualsCache == invalid \/ \A s \in Slots : bn[s] = start[s]

Return ==
  /\ phase = "running" /\ pc > Len(Programs[calc].steps)
  /\ phase' = IF Lib = "wolfcrypt" /\ ~EqualsCache THEN "aborted" ELSE "result"
  /\ UNCHANGED <<calc, start, bn, locked, resIndex, pc, args, word, invalid>>

ClusterNext ==
  \/ \E k \in 1 .. 4 : Index(k) \/ Destination(k) \/ OptionalBn(k) \/ GetResPtr(k)
  \/ Fail \/ NoConversion \/ TakeWord \/ Pass \/ Compute \/ CopyResult \/ Return

ClusterSpec == ClusterInit /\ [][ClusterNext]_clusterVars

-----------------------------------------------------------------------------
(* No call gets a pointer to a bignum that another of its arguments freed: *)
(* in whatever order they are evaluated, a bignum that stands in for a     *)
(* second number, or takes the result, is locked first.                    *)
PointersAlive == \A k \in DOMAIN args : args[k].live

(* What an operation is meant to give on numbers.                          *)
Meant(of, numbers) ==
  LET x == <<numbers[0], numbers[1], numbers[2]>>
  IN  IF of = "inverse" /\ (x[2] = 0 \/ Inverses(x[1], x[2]) = {}) THEN 0
      ELSE Computes(of, x, x[2])

(* A result is that of the operation on the four numbers as they were set, *)
(* whichever bignums stood in for them and wherever the result was put;    *)
(* and no assertion of the two modules fails: a call that does not succeed *)
(* had an excuse, the result is placed once, and wolfCrypt's four numbers  *)
(* are what they were unless one was handed out to be written to.          *)
RightResult ==
  /\ phase # "aborted"
  /\ phase = "result" => bn[Out] = Meant(Programs[calc].of, start)
=============================================================================
