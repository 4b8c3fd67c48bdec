--------------------------- MODULE MCCalculations ---------------------------
(***************************************************************************)
(* A calculation in a module, a handler of OpenSSL's or wolfCrypt's, and   *)
(* what tests.cpp demands of results. The demands are checked on wider     *)
(* questions than those programs answer, and a handler computes nothing,   *)
(* so a behaviour exercises one of them with the others at rest.  The      *)
(* fourth is a calculation with a modulus, of which every module that      *)
(* looks at the modulus is asked.                                          *)
(*                                                                         *)
(* Calculations get all quadruples of four values, so that any two or more *)
(* numbers may be equal, with every way to stand one bignum in for         *)
(* another, to replace it and to place the result.  Demands are checked in *)
(* base 4, the smallest base above two in which the last digit and the sum *)
(* of the digits tell what they tell in base ten, with operands of one,    *)
(* two and three digits, on both sides of every change of length.          *)
(* Moduli are scaled to 16 and to 7, a prime that is 3 modulo 4 like most  *)
(* of the real ones, with operands on both sides of every limit.           *)
(***************************************************************************)
EXTENDS BignumCluster, ResultTests, HandlerMemory, OpenSSLHandlers, ModularAnswers, TLC

WC == INSTANCE WolfCryptHandlers

AllHandlers == OpenSSLPrograms @@ WC!WolfCryptPrograms

SomeNumbers == {-1, 0, 2, 3}
SomeOperands == {-2, 0, 1, 2, 3, 4, 7, 15, 16}
SomeAnswers == {-2, -1, 0, 1, 2, 3, 4, 5, 6, 7, 11, 15, 16, 64}

SomeModular == {0, 1, 2, 3, 4, 6, 7, 8, 11, 15, 16, 17}

(* A count that fits a byte is less than a word of 64 bits, and may be     *)
(* more than its bits.                                                     *)
SomeSizes ==
  [modulus \in Words \cup Fields |->
     IF modulus \in Fields
       THEN [order |-> 7, byte |-> 4, limb |-> 2, word32 |-> 5, word64 |-> 6, bytes |-> 16, digits |-> 5]
     ELSE IF modulus = "2^64"
       THEN [order |-> 16, byte |-> 8, limb |-> 2, word32 |-> 12, word64 |-> 16, bytes |-> 16, digits |-> 16]
     ELSE [order |-> 16, byte |-> 4, limb |-> 2, word32 |-> 8, word64 |-> 12, bytes |-> 16, digits |-> 16]]

-----------------------------------------------------------------------------
(* A calculation that came to nothing.                                     *)
ClusterAtRest ==
  /\ calc = "none" /\ start = <<>> /\ bn = <<>> /\ locked = {} /\ resIndex = 0
  /\ pc = 1 /\ args = <<>> /\ word = 0 /\ invalid = FALSE /\ phase = "none"

(* A process that was not asked anything, and is over.                     *)
TestsAtRest == call = Idle /\ result = NoResult /\ verdict = "over"

(* A handler that did nothing.                                             *)
HandlersAtRest ==
  /\ handler = "none" /\ step = 1 /\ pointers = <<>> /\ blocks = <<>>
  /\ fixed = {} /\ stale = {} /\ ended = TRUE

(* No module was asked.                                                    *)
ModulesAtRest == question = [modulus |-> "none"] /\ turn = 0 /\ answers = <<>>

CalculationsInit ==
  \/ ClusterInit /\ TestsAtRest /\ HandlersAtRest /\ ModulesAtRest
  \/ ClusterAtRest /\ Init /\ HandlersAtRest /\ ModulesAtRest
  \/ ClusterAtRest /\ TestsAtRest /\ HandlersInit /\ ModulesAtRest
  \/ ClusterAtRest /\ TestsAtRest /\ HandlersAtRest /\ AnswersInit

CalculationsNext ==
  \/ phase = "running" /\ ClusterNext /\ UNCHANGED <<vars, handlerVars, answersVars>>
  \/ verdict # "over" /\ Next /\ UNCHANGED <<clusterVars, handlerVars, answersVars>>
  \/ ~ended /\ HandlersNext /\ UNCHANGED <<vars, clusterVars, answersVars>>
  \/ question.modulus # "none" /\ Ask /\ UNCHANGED <<vars, clusterVars, handlerVars>>

CalculationsSpec ==
  CalculationsInit /\ [][CalculationsNext]_<<vars, clusterVars, handlerVars, answersVars>>

-----------------------------------------------------------------------------
(* No library function of OpenSSL's or wolfCrypt's is given a pointer to   *)
(* something freed, in a calculation or in a handler, whatever the order   *)
(* in which a compiler evaluates the arguments of a call: what GetPtr      *)
(* replaced by a copy while another argument was evaluated included.       *)
CallsGetLivePointers == PointersAlive /\ ArgumentsAlive

=============================================================================
