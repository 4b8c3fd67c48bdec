--------------------------- MODULE ExecutorProofs ---------------------------
(***************************************************************************)
(* Safety of the executor for any number of modules, any MaxOperations and *)
(* any input.  First the comparison of results, neighbour by neighbour or  *)
(* against the first one: both find a difference exactly when there is     *)
(* one.  Then type correctness and, from the inductive invariant IInv, the *)
(* properties of module Executor.  Last, the executor implements the       *)
(* differential oracle.                                                    *)
(***************************************************************************)
EXTENDS ExecutorOracle, SequenceTheorems, WellFoundedInduction, TLAPS

-----------------------------------------------------------------------------
(* The comparison.                                                         *)

(* What both comparisons are meant to decide.                              *)
AnyDiffer(rs) == \E i, j \in Valued(rs) : rs[i] # rs[j]

(* Every non-empty set of naturals has a least element: the form in which  *)
(* the proofs below use well-foundedness.                                  *)
LEMMA LeastElement ==
  ASSUME NEW T \in SUBSET Nat, T # {}
  PROVE  \E x \in T : \A y \in T : x <= y
<1>1. \E x \in T : \A y \in T : ~ (<<y, x>> \in OpToRel(<, Nat))
  BY WFMin, NatLessThanWellFounded
<1>2. PICK x \in T : \A y \in T : ~ (<<y, x>> \in OpToRel(<, Nat))
  BY <1>1
<1>3. ASSUME NEW y \in T PROVE x <= y
  <2>1. ~ (y < x)
    BY <1>2, <1>3 DEF OpToRel
  <2> QED BY <2>1
<1> QED BY <1>3

(* Two differing results enclose two differing neighbours: of all pairs    *)
(* that differ, a closest one has nothing valued in between.               *)
LEMMA AdjacentDifferSound ==
  ASSUME NEW S, NEW rs \in Seq(S)
  PROVE  AdjacentDiffer(rs) <=> AnyDiffer(rs)
<1>1. Valued(rs) \subseteq Nat
  BY DEF Valued
<1>2. ASSUME AnyDiffer(rs) PROVE AdjacentDiffer(rs)
  <2> DEFINE Gaps == {n \in Nat : \E i, j \in Valued(rs) :
                        i < j /\ n = j - i /\ rs[i] # rs[j]}
  <2>1. Gaps # {}
    <3>1. PICK i \in Valued(rs), j \in Valued(rs) : rs[i] # rs[j]
      BY <1>2 DEF AnyDiffer
    <3>2. i < j \/ j < i
      BY <1>1, <3>1
    <3>3. CASE i < j
      <4>1. j - i \in Gaps
        BY <1>1, <3>1, <3>3
      <4> QED BY <4>1
    <3>4. CASE j < i
      <4>1. i - j \in Gaps
        BY <1>1, <3>1, <3>4
      <4> QED BY <4>1
    <3> QED BY <3>2, <3>3, <3>4
  <2>2. PICK n \in Gaps : \A m \in Gaps : n <= m
    BY <2>1, LeastElement
  <2>3. PICK i \in Valued(rs), j \in Valued(rs) :
          i < j /\ n = j - i /\ rs[i] # rs[j]
    BY <2>2
  <2>4. ASSUME NEW k \in Valued(rs), i < k, k < j PROVE FALSE
    <3>1. rs[i] # rs[k] \/ rs[k] # rs[j]
      BY <2>3
    <3>2. k - i \in Nat /\ k - i < n /\ j - k \in Nat /\ j - k < n
      BY <1>1, <2>3, <2>4
    <3>3. CASE rs[i] # rs[k]
      <4>1. k - i \in Gaps
        BY <2>4, <3>2, <3>3
      <4> QED BY <4>1, <2>2, <3>2
    <3>4. CASE rs[k] # rs[j]
      <4>1. j - k \in Gaps
        BY <2>4, <3>2, <3>4
      <4> QED BY <4>1, <2>2, <3>2
    <3> QED BY <3>1, <3>3, <3>4
  <2>5. Neighbours(rs, i, j)
    BY <1>1, <2>3, <2>4 DEF Neighbours
  <2> QED BY <2>3, <2>5 DEF AdjacentDiffer
<1>3. AdjacentDiffer(rs) => AnyDiffer(rs)
  BY DEF AdjacentDiffer, AnyDiffer
<1> QED BY <1>2, <1>3

(* Two differing results cannot both equal the reference.                  *)
LEMMA ReferenceDifferSound ==
  ASSUME NEW S, NEW rs \in Seq(S)
  PROVE  ReferenceDiffer(rs) <=> AnyDiffer(rs)
<1>1. Valued(rs) \in SUBSET Nat
  BY DEF Valued
<1>2. ASSUME AnyDiffer(rs) PROVE ReferenceDiffer(rs)
  <2>1. PICK i \in Valued(rs), j \in Valued(rs) : rs[i] # rs[j]
    BY <1>2 DEF AnyDiffer
  <2>2. PICK f \in Valued(rs) : \A k \in Valued(rs) : f <= k
    BY <1>1, <2>1, LeastElement
  <2>3. rs[i] # rs[f] \/ rs[j] # rs[f]
    BY <2>1
  <2> QED BY <2>1, <2>2, <2>3 DEF ReferenceDiffer, IsReference
<1>3. ReferenceDiffer(rs) => AnyDiffer(rs)
  BY DEF ReferenceDiffer, AnyDiffer
<1> QED BY <1>2, <1>3

-----------------------------------------------------------------------------
(* Modifiers.                                                              *)

(* Adding one to a byte changes it, at the wrap too.                       *)
LEMMA ByteIncrement ==
  ASSUME NEW b \in 0 .. ByteValues - 1
  PROVE  /\ (b + 1) % ByteValues \in 0 .. ByteValues - 1
         /\ (b + 1) % ByteValues # b
<1>1. ByteValues \in Nat /\ ByteValues >= 2
  BY ExecutorAssumption
<1>2. CASE b + 1 < ByteValues
  <2>1. (b + 1) % ByteValues = b + 1
    BY <1>1, <1>2
  <2> QED BY <1>1, <1>2, <2>1
<1>3. CASE b + 1 = ByteValues
  <2>1. (b + 1) % ByteValues = 0
    BY <1>1, <1>3
  <2> QED BY <1>1, <1>3, <2>1
<1> QED BY <1>1, <1>2, <1>3

LEMMA AlteredModifier ==
  ASSUME NEW m \in Modifiers
  PROVE  Altered(m) \in Modifiers /\ Altered(m) # m
<1>1. ByteValues \in Nat /\ ByteValues >= 2
  BY ExecutorAssumption
<1>2. CASE m.size = 0
  BY <1>1, <1>2 DEF Altered, Modifiers
<1>3. CASE m.size # 0
  <2> DEFINE b == (m.byte + 1) % ByteValues
  <2>1. b \in 0 .. ByteValues - 1 /\ b # m.byte
    BY ByteIncrement DEF Modifiers
  <2>2. Altered(m) = [m EXCEPT !.byte = b]
    BY <1>3 DEF Altered
  <2> HIDE DEF b
  <2> QED BY <2>1, <2>2 DEF Modifiers
<1> QED BY <1>2, <1>3

(* Preparing operation i changes nothing but its modifier, and leaves it   *)
(* different from its predecessor's when the module is the same.           *)
LEMMA PreparedOperations ==
  ASSUME NEW ops \in Seq(Operation), NEW i \in 1 .. Len(ops)
  PROVE  /\ Prepared(ops, i) \in Seq(Operation)
         /\ Len(Prepared(ops, i)) = Len(ops)
         /\ \A j \in 1 .. Len(ops) :
              /\ Prepared(ops, i)[j].module = ops[j].module
              /\ Prepared(ops, i)[j].modulo = ops[j].modulo
              /\ j # i => Prepared(ops, i)[j] = ops[j]
         /\ i > 1 /\ ops[i].module = ops[i - 1].module =>
              Prepared(ops, i)[i].modifier # ops[i - 1].modifier
<1>1. CASE ~Repeats(ops, i)
  BY <1>1 DEF Prepared, Repeats
<1>2. CASE Repeats(ops, i)
  <2> DEFINE e == [ops[i] EXCEPT !.modifier = Altered(ops[i].modifier)]
  <2>1. ops[i] \in Operation
    OBVIOUS
  <2>2. Altered(ops[i].modifier) \in Modifiers /\ Altered(ops[i].modifier) # ops[i].modifier
    BY <2>1, AlteredModifier DEF Operation
  <2>3. /\ e \in Operation
        /\ e.module = ops[i].module /\ e.modulo = ops[i].modulo
        /\ e.modifier = Altered(ops[i].modifier)
    BY <2>1, <2>2 DEF Operation
  <2>4. Prepared(ops, i) = [ops EXCEPT ![i] = e]
    BY <1>2 DEF Prepared
  <2> HIDE DEF e
  <2>5. /\ Prepared(ops, i) \in Seq(Operation)
        /\ Len(Prepared(ops, i)) = Len(ops)
        /\ \A j \in 1 .. Len(ops) : Prepared(ops, i)[j] = IF j = i THEN e ELSE ops[j]
    BY <2>3, <2>4, ExceptSeq
  <2> QED BY <1>2, <2>2, <2>3, <2>5 DEF Repeats
<1> QED BY <1>1, <1>2

-----------------------------------------------------------------------------
(* The inductive invariant.                                                *)

LEMMA InitIInv == Init => IInv
<1> SUFFICES ASSUME Init PROVE IInv
  OBVIOUS
<1> USE DEF Init
<1>1. TypeOK
  BY ExecutorAssumption DEF TypeOK, Phases, Outcomes
<1>2. CollectionInv /\ CompareInv /\ OutcomeInv
  BY DEF CollectionInv, CompareInv, OutcomeInv
<1>3. PanelInv
  BY DEF PanelInv, ModulesOf
<1>4. SameQuestion /\ NoRepeatedCall
  BY DEF SameQuestion, NoRepeatedCall
<1>5. OperationsBounded
  <2>1. 0 \in 0 .. Len(operations) /\ 0 <= MaxOperations
    BY ExecutorAssumption
  <2>2. \A i \in 0 + 1 .. Len(operations) : \A k \in 1 .. i - 1 :
          operations[k].module # operations[i].module
    OBVIOUS
  <2> QED BY <2>1, <2>2 DEF OperationsBounded
<1> QED BY <1>1, <1>2, <1>3, <1>4, <1>5 DEF IInv

LEMMA DispatchIInv == IInv /\ Dispatch => IInv'
<1> SUFFICES ASSUME IInv, Dispatch PROVE IInv'
  OBVIOUS
<1> USE DEF IInv, Dispatch
<1>1. TypeOK'
  BY ExecutorAssumption DEF TypeOK, Phases, Outcomes
<1>2. CollectionInv' /\ CompareInv' /\ OutcomeInv'
  BY ExecutorAssumption DEF CollectionInv, CompareInv, OutcomeInv
<1>3. PanelInv'
  BY DEF PanelInv, ModulesOf
<1>4. SameQuestion' /\ NoRepeatedCall'
  BY DEF SameQuestion, NoRepeatedCall
<1>5. OperationsBounded'
  <2>1. 0 \in 0 .. Len(operations') /\ 0 <= MaxOperations
    BY ExecutorAssumption
  <2>2. \A i \in 0 + 1 .. Len(operations') : \A k \in 1 .. i - 1 :
          operations'[k].module # operations'[i].module
    OBVIOUS
  <2> QED BY <2>1, <2>2 DEF OperationsBounded
<1> QED BY <1>1, <1>2, <1>3, <1>4, <1>5

(* The steps that change neither operations nor results nor the job keep   *)
(* every part of the invariant that speaks only of them.                   *)
LEMMA KeepOperations ==
  IInv /\ UNCHANGED <<options, job, operations, results>> =>
    /\ SameQuestion' /\ NoRepeatedCall' /\ OperationsBounded'
    /\ (ModulesOf(operations) \subseteq Enabled)'
<1> SUFFICES ASSUME IInv, UNCHANGED <<options, job, operations, results>>
             PROVE  /\ SameQuestion' /\ NoRepeatedCall' /\ OperationsBounded'
                    /\ (ModulesOf(operations) \subseteq Enabled)'
  OBVIOUS
<1>1. SameQuestion' /\ NoRepeatedCall' /\ OperationsBounded'
  BY DEF IInv, SameQuestion, NoRepeatedCall, OperationsBounded
<1>2. (ModulesOf(operations) \subseteq Enabled)'
  BY DEF IInv, PanelInv, ModulesOf, Enabled
<1> QED BY <1>1, <1>2

LEMMA QuietIInv ==
  IInv /\ (OutOfData \/ SkipEntry \/ ReadMore \/ NoOperations \/ TooFew
             \/ StartExecution \/ SkipCompare \/ StartCompare
             \/ AbortOnDifference \/ CompareReturns)
    => IInv'
<1> SUFFICES ASSUME IInv,
                    OutOfData \/ SkipEntry \/ ReadMore \/ NoOperations \/ TooFew
                      \/ StartExecution \/ SkipCompare \/ StartCompare
                      \/ AbortOnDifference \/ CompareReturns
             PROVE  IInv'
  OBVIOUS
<1> USE DEF OutOfData, SkipEntry, ReadMore, NoOperations, TooFew, StartExecution,
            SkipCompare, StartCompare, AbortOnDifference, CompareReturns,
            Finish, Crash, Consume, Executed
<1>1. UNCHANGED <<options, job, operations, results>>
  OBVIOUS
<1>2. SameQuestion' /\ NoRepeatedCall' /\ OperationsBounded'
      /\ (ModulesOf(operations) \subseteq Enabled)'
  BY <1>1, KeepOperations
<1>3. TypeOK'
  <2>1. pc' \in Phases /\ outcome' \in Outcomes
    BY DEF IInv, TypeOK, Phases, Outcomes
  <2>2. left' \in 0 .. MaxReads
    BY ExecutorAssumption DEF IInv, TypeOK
  <2> QED BY <1>1, <2>1, <2>2 DEF IInv, TypeOK
<1>4. CollectionInv'
  BY <1>1 DEF IInv, TypeOK, CollectionInv
<1>5. PanelInv'
  <2>1. pc' \in {"execute", "compare"} \/ results # <<>> => Missing = {}
    BY DEF IInv, PanelInv, Executed
  <2>2. Missing' = Missing
    BY <1>1 DEF Missing, Enabled, ModulesOf
  <2> QED BY <1>1, <1>2, <2>1, <2>2 DEF PanelInv
<1>6. CompareInv'
  BY <1>1 DEF IInv, CompareInv
<1>7. OutcomeInv'
  BY <1>1 DEF IInv, OutcomeInv, CompareInv
<1> QED BY <1>2, <1>3, <1>4, <1>5, <1>6, <1>7 DEF IInv

-----------------------------------------------------------------------------
(* The steps that push an operation.                                       *)

(* Appending an operation with the run's modulus keeps the parts of the    *)
(* invariant that concern the vector, if nothing has run yet and the       *)
(* vector is short of MaxOperations or the module is new to it.            *)
LEMMA PushOperation ==
  ASSUME IInv, NEW op \in Operation, results = <<>>, op.modulo = job.modulo,
         operations' = Append(operations, op), UNCHANGED <<options, job, results>>,
         \/ Len(operations) < MaxOperations
         \/ op.module \notin ModulesOf(operations)
  PROVE  /\ operations' \in Seq(Operation)
         /\ ModulesOf(operations') = ModulesOf(operations) \cup {op.module}
         /\ SameQuestion' /\ NoRepeatedCall' /\ OperationsBounded'
<1> DEFINE n == Len(operations)
<1>1. operations \in Seq(Operation) /\ n \in Nat
  BY DEF IInv, TypeOK
<1>2. /\ operations' \in Seq(Operation)
      /\ Len(operations') = n + 1
      /\ \A i \in 1 .. n : operations'[i] = operations[i]
      /\ operations'[n + 1] = op
  BY <1>1, AppendProperties
<1> HIDE DEF n
<1>3. DOMAIN operations = 1 .. n /\ DOMAIN operations' = 1 .. n + 1
  BY <1>1, <1>2 DEF n
<1>4. ModulesOf(operations') = ModulesOf(operations) \cup {op.module}
  <2>1. ASSUME NEW m \in ModulesOf(operations') PROVE m \in ModulesOf(operations) \cup {op.module}
    BY <1>1, <1>2, <1>3, <2>1 DEF ModulesOf
  <2>2. ASSUME NEW m \in ModulesOf(operations) PROVE m \in ModulesOf(operations')
    <3>1. PICK i \in 1 .. n : m = operations[i].module
      BY <1>3, <2>2 DEF ModulesOf
    <3>2. i \in DOMAIN operations' /\ operations'[i].module = m
      BY <1>1, <1>2, <1>3, <3>1
    <3> QED BY <3>2 DEF ModulesOf
  <2>3. op.module \in ModulesOf(operations')
    BY <1>1, <1>2, <1>3 DEF ModulesOf
  <2> QED BY <2>1, <2>2, <2>3
<1>5. SameQuestion'
  BY <1>1, <1>2, <1>3 DEF IInv, SameQuestion
<1>6. NoRepeatedCall'
  BY DEF NoRepeatedCall
<1>7. OperationsBounded'
  <2>1. CASE n < MaxOperations
    <3>1. n + 1 \in 0 .. Len(operations') /\ n + 1 <= MaxOperations
      BY <1>1, <1>2, <2>1, ExecutorAssumption
    <3>2. \A i \in (n + 1) + 1 .. Len(operations') : \A k \in 1 .. i - 1 :
            operations'[k].module # operations'[i].module
      BY <1>1, <1>2
    <3> QED BY <3>1, <3>2 DEF OperationsBounded
  <2>2. CASE op.module \notin ModulesOf(operations)
    <3>1. PICK named \in 0 .. n :
            /\ named <= MaxOperations
            /\ \A i \in named + 1 .. n : \A k \in 1 .. i - 1 :
                 operations[k].module # operations[i].module
      BY DEF IInv, OperationsBounded, n
    <3>2. ASSUME NEW i \in named + 1 .. n + 1, NEW k \in 1 .. i - 1
          PROVE  operations'[k].module # operations'[i].module
      <4>1. CASE i = n + 1
        <5>1. k \in 1 .. n /\ operations[k].module \in ModulesOf(operations)
          BY <1>1, <1>3, <4>1 DEF ModulesOf
        <5> QED BY <1>2, <2>2, <4>1, <5>1
      <4>2. CASE i # n + 1
        <5>1. i \in named + 1 .. n /\ i \in 1 .. n /\ k \in 1 .. n
          BY <1>1, <3>2, <4>2
        <5> QED BY <1>2, <3>1, <5>1
      <4> QED BY <4>1, <4>2
    <3>3. named \in 0 .. Len(operations')
      BY <1>1, <1>2
    <3> QED BY <1>2, <3>1, <3>2, <3>3 DEF OperationsBounded
  <2> QED BY <2>1, <2>2 DEF n
<1> QED BY <1>2, <1>4, <1>5, <1>6, <1>7

LEMMA CollectEntryIInv == IInv /\ CollectEntry => IInv'
<1> SUFFICES ASSUME IInv, CollectEntry PROVE IInv'
  OBVIOUS
<1> USE DEF CollectEntry
<1>1. results = <<>> /\ Len(operations) < MaxOperations
  BY DEF IInv, CollectionInv
<1>2. PICK id \in IDs, modifier \in InputModifiers :
        /\ ChosenModule(id) \in Enabled
        /\ operations' = Append(operations,
             [module |-> ChosenModule(id), modifier |-> modifier, modulo |-> job.modulo])
  OBVIOUS
<1> DEFINE op == [module |-> ChosenModule(id), modifier |-> modifier, modulo |-> job.modulo]
<1>3. op \in Operation /\ op.modulo = job.modulo /\ op.module \in Enabled
  <2>1. modifier \in Modifiers
    BY ExecutorAssumption
  <2>2. job.modulo \in {j.modulo : j \in Jobs}
    BY DEF IInv, TypeOK
  <2>3. ChosenModule(id) \in Loaded
    BY <1>2 DEF Enabled
  <2> QED BY <1>2, <2>1, <2>2, <2>3 DEF Operation
<1>4. operations' = Append(operations, op)
  BY <1>2
<1> HIDE DEF op
<1>5. /\ operations' \in Seq(Operation)
      /\ ModulesOf(operations') = ModulesOf(operations) \cup {op.module}
      /\ SameQuestion' /\ NoRepeatedCall' /\ OperationsBounded'
  BY <1>1, <1>3, <1>4, PushOperation
<1>6. pc' \in {"augment", "more"} /\ (pc' = "more" => Len(operations') # MaxOperations)
  BY DEF AfterPush
<1>7. Len(operations') = Len(operations) + 1
  BY <1>3, <1>4 DEF IInv, TypeOK
<1>8. TypeOK'
  BY <1>1, <1>5, <1>6, ExecutorAssumption DEF IInv, TypeOK, Phases, Consume
<1>9. CollectionInv'
  BY <1>1, <1>6, <1>7, ExecutorAssumption DEF IInv, TypeOK, CollectionInv
<1>10. PanelInv'
  BY <1>1, <1>3, <1>5, <1>6 DEF IInv, PanelInv, Enabled
<1>11. CompareInv' /\ OutcomeInv'
  BY <1>6 DEF IInv, CompareInv, OutcomeInv
<1> QED BY <1>5, <1>8, <1>9, <1>10, <1>11 DEF IInv

LEMMA AddModuleIInv == IInv /\ AddModule => IInv'
<1> SUFFICES ASSUME IInv, AddModule PROVE IInv'
  OBVIOUS
<1> USE DEF AddModule
<1>1. results = <<>>
  BY DEF IInv, CollectionInv
<1>2. PICK id \in Missing : operations' = Append(operations, CopyFor(operations[1], id))
  OBVIOUS
<1> DEFINE op == CopyFor(operations[1], id)
<1>3. op \in Operation /\ op.modulo = job.modulo /\ op.module = id
  <2>1. operations \in Seq(Operation) /\ operations # <<>>
    BY DEF IInv, TypeOK
  <2>2. 1 \in DOMAIN operations /\ operations[1] \in Operation
    BY <2>1
  <2>3. operations[1].modulo = job.modulo
    BY <2>2 DEF IInv, SameQuestion
  <2>4. id \in Loaded
    BY DEF Missing, Enabled
  <2> QED BY <2>2, <2>3, <2>4 DEF Operation, CopyFor
<1>4. op.module \notin ModulesOf(operations) /\ op.module \in Enabled
  BY <1>3 DEF Missing
<1>5. operations' = Append(operations, op)
  BY <1>2
<1> HIDE DEF op
<1>6. /\ operations' \in Seq(Operation)
      /\ ModulesOf(operations') = ModulesOf(operations) \cup {op.module}
      /\ SameQuestion' /\ NoRepeatedCall' /\ OperationsBounded'
  BY <1>1, <1>3, <1>4, <1>5, PushOperation
<1>7. TypeOK'
  BY <1>1, <1>6, ExecutorAssumption DEF IInv, TypeOK
<1>8. CollectionInv' /\ CompareInv' /\ OutcomeInv'
  BY <1>1 DEF IInv, CollectionInv, CompareInv, OutcomeInv
<1>9. PanelInv'
  BY <1>1, <1>4, <1>6 DEF IInv, PanelInv, Enabled
<1> QED BY <1>6, <1>7, <1>8, <1>9 DEF IInv

-----------------------------------------------------------------------------
(* The step that runs an operation.                                        *)

(* Preparing the next operation and calling its module keeps what the      *)
(* invariant says of the operations, with or without a result.             *)
LEMMA RunOperation ==
  ASSUME IInv, pc = "execute", Len(results) < Len(operations),
         operations' = Prepared(operations, Len(results) + 1),
         results' = results \/ \E r \in Results : results' = Append(results, r),
         UNCHANGED <<options, job, left>>
  PROVE  /\ operations' \in Seq(Operation) /\ results' \in Seq(Results)
         /\ Len(results') <= Len(operations')
         /\ PanelInv' /\ SameQuestion' /\ NoRepeatedCall' /\ OperationsBounded'
<1> DEFINE n == Len(results) + 1
<1>1. /\ operations \in Seq(Operation) /\ results \in Seq(Results)
      /\ n \in 1 .. Len(operations)
  BY DEF IInv, TypeOK
<1>2. /\ operations' \in Seq(Operation)
      /\ Len(operations') = Len(operations)
      /\ \A j \in 1 .. Len(operations) :
           /\ operations'[j].module = operations[j].module
           /\ operations'[j].modulo = operations[j].modulo
           /\ j # n => operations'[j] = operations[j]
      /\ n > 1 /\ operations[n].module = operations[n - 1].module =>
           operations'[n].modifier # operations[n - 1].modifier
  BY <1>1, PreparedOperations
<1>3. results' \in Seq(Results) /\ Len(results') \in {n - 1, n}
  <2>1. CASE results' = results
    BY <1>1, <2>1
  <2>2. CASE \E r \in Results : results' = Append(results, r)
    BY <1>1, <2>2
  <2> QED BY <2>1, <2>2
<1> HIDE DEF n
<1>4. ModulesOf(operations') = ModulesOf(operations)
  <2>1. DOMAIN operations' = 1 .. Len(operations) /\ DOMAIN operations = 1 .. Len(operations)
    BY <1>1, <1>2
  <2> QED BY <1>2, <2>1 DEF ModulesOf
<1>5. PanelInv'
  BY <1>4 DEF IInv, PanelInv, Missing, Enabled
<1>6. SameQuestion'
  <2>1. DOMAIN operations' = 1 .. Len(operations) /\ DOMAIN operations = 1 .. Len(operations)
    BY <1>1, <1>2
  <2>2. \A i \in DOMAIN operations : operations[i].modulo = job.modulo
    BY DEF IInv, SameQuestion
  <2>3. job' = job
    OBVIOUS
  <2> QED BY <1>2, <2>1, <2>2, <2>3 DEF SameQuestion
<1>7. NoRepeatedCall'
  <2>1. ASSUME NEW i \in 2 .. n, operations'[i].module = operations'[i - 1].module
        PROVE  operations'[i].modifier # operations'[i - 1].modifier
    <3>1. i \in 1 .. Len(operations) /\ i - 1 \in 1 .. Len(operations) /\ i - 1 # n
      BY <1>1, <2>1
    <3>2. operations'[i - 1] = operations[i - 1]
      BY <1>2, <3>1
    <3>3. CASE i = n
      BY <1>2, <2>1, <3>1, <3>2, <3>3
    <3>4. CASE i # n
      <4>1. i \in 2 .. Len(results) /\ operations'[i] = operations[i]
        BY <1>1, <1>2, <2>1, <3>1, <3>4 DEF n
      <4> QED BY <2>1, <3>2, <4>1 DEF IInv, NoRepeatedCall
    <3> QED BY <3>3, <3>4
  <2>2. \A i \in 2 .. Len(results') : i \in 2 .. n
    BY <1>1, <1>3
  <2> QED BY <2>1, <2>2 DEF NoRepeatedCall
<1>8. OperationsBounded'
  <2>1. PICK named \in 0 .. Len(operations) :
          /\ named <= MaxOperations
          /\ \A i \in named + 1 .. Len(operations) : \A k \in 1 .. i - 1 :
               operations[k].module # operations[i].module
    BY DEF IInv, OperationsBounded
  <2>2. ASSUME NEW i \in named + 1 .. Len(operations), NEW k \in 1 .. i - 1
        PROVE  operations'[k].module # operations'[i].module
    <3>1. i \in 1 .. Len(operations) /\ k \in 1 .. Len(operations)
      BY <1>1, <2>2
    <3> QED BY <1>2, <2>1, <3>1
  <2> QED BY <1>2, <2>1, <2>2 DEF OperationsBounded
<1> QED BY <1>1, <1>2, <1>3, <1>5, <1>6, <1>7, <1>8

LEMMA ExecuteIInv == IInv /\ Execute => IInv'
<1> SUFFICES ASSUME IInv, Execute PROVE IInv'
  OBVIOUS
<1> USE DEF Execute
<1>1. \E r \in Results : results' = Append(results, r)
  BY DEF Answers, Results
<1>2. /\ operations' \in Seq(Operation) /\ results' \in Seq(Results)
      /\ Len(results') <= Len(operations')
      /\ PanelInv' /\ SameQuestion' /\ NoRepeatedCall' /\ OperationsBounded'
  BY <1>1, RunOperation
<1>3. /\ pc' \in {"execute", "aborted"}
      /\ pc' = "execute" => outcome' = outcome
      /\ pc' = "aborted" => outcome' \in {"test", "selfCheck"}
  BY DEF Crash
<1>4. TypeOK'
  BY <1>2, <1>3 DEF IInv, TypeOK, Phases, Outcomes
<1>5. CollectionInv' /\ CompareInv'
  BY <1>3 DEF CollectionInv, CompareInv
<1>6. OutcomeInv'
  BY <1>3 DEF IInv, OutcomeInv
<1> QED BY <1>2, <1>4, <1>5, <1>6 DEF IInv

LEMMA ModuleThrowsIInv == IInv /\ ModuleThrows => IInv'
<1> SUFFICES ASSUME IInv, ModuleThrows PROVE IInv'
  OBVIOUS
<1> USE DEF ModuleThrows
<1>1. results' = results \/ \E r \in Results : results' = Append(results, r)
  BY DEF Results
<1>2. /\ operations' \in Seq(Operation) /\ results' \in Seq(Results)
      /\ Len(results') <= Len(operations')
      /\ PanelInv' /\ SameQuestion' /\ NoRepeatedCall' /\ OperationsBounded'
  BY <1>1, RunOperation
<1>3. TypeOK'
  BY <1>2 DEF IInv, TypeOK, Phases, Outcomes
<1>4. CollectionInv' /\ CompareInv' /\ OutcomeInv'
  BY DEF CollectionInv, CompareInv, OutcomeInv
<1> QED BY <1>2, <1>3, <1>4 DEF IInv

-----------------------------------------------------------------------------
(* Theorems.                                                               *)

LEMMA NextIInv == IInv /\ [Next]_vars => IInv'
<1>1. IInv /\ UNCHANGED vars => IInv'
  BY DEF vars, IInv, TypeOK, CollectionInv, PanelInv, CompareInv, OutcomeInv,
         SameQuestion, NoRepeatedCall, OperationsBounded, ModulesOf, Missing, Enabled
<1>2. IInv /\ Step => IInv'
  BY QuietIInv, CollectEntryIInv, AddModuleIInv, ExecuteIInv, ModuleThrowsIInv DEF Step
<1> QED BY <1>1, <1>2, DispatchIInv DEF Next

(* The strengthened invariant holds throughout.                            *)
THEOREM Invariance == Spec => []IInv
BY InitIInv, NextIInv, PTL DEF Spec

(* Every variable keeps to its type, for all constants.                    *)
THEOREM TypeCorrect == Spec => []TypeOK
<1>1. IInv => TypeOK
  BY DEF IInv
<1> QED BY <1>1, Invariance, PTL

(* A comparable run that ends without an abort has no two differing        *)
(* answers, whatever the number and order of modules and of declined       *)
(* results.                                                                *)
THEOREM MissesNoDifference == Spec => []NoMissedDifference
<1>1. IInv => NoMissedDifference
  <2> SUFFICES ASSUME IInv, outcome = "passed", Comparable(job),
                      NEW i \in Valued(results), NEW j \in Valued(results)
               PROVE  results[i] = results[j]
    BY DEF NoMissedDifference
  <2>1. results \in Seq(Results) /\ job.style \in Styles
    BY ExecutorAssumption DEF IInv, TypeOK
  <2>2. ~Fatal(job.style, job.seeded, job.dontCompare, results)
    BY DEF IInv, OutcomeInv
  <2>3. ~AdjacentDiffer(results) \/ ~ReferenceDiffer(results)
    BY <2>1, <2>2 DEF Fatal, Comparable, Styles
  <2>4. ~AnyDiffer(results)
    BY <2>1, <2>3, AdjacentDifferSound, ReferenceDifferSound
  <2> QED BY <2>4 DEF AnyDiffer
<1> QED BY <1>1, Invariance, PTL

(* The process aborts for a difference only when two answers differ.       *)
THEOREM RaisesNoFalseAlarm == Spec => []NoFalseAlarm
<1>1. IInv => NoFalseAlarm
  <2> SUFFICES ASSUME IInv, outcome = "difference"
               PROVE  /\ Comparable(job) /\ ~options.noCompare
                      /\ \E i, j \in Valued(results) : results[i] # results[j]
    BY DEF NoFalseAlarm
  <2>1. results \in Seq(Results)
    BY DEF IInv, TypeOK
  <2>2. Fatal(job.style, job.seeded, job.dontCompare, results) /\ ~options.noCompare
    BY DEF IInv, OutcomeInv
  <2>3. Comparable(job)
    BY <2>2 DEF Fatal, Comparable
  <2>4. AnyDiffer(results)
    BY <2>1, <2>2, AdjacentDifferSound, ReferenceDifferSound DEF Fatal
  <2> QED BY <2>2, <2>3, <2>4 DEF AnyDiffer
<1> QED BY <1>1, Invariance, PTL

(* What executes is exactly the loaded modules that are not disabled.      *)
THEOREM RunsExactlyEnabledModules == Spec => []ExactlyEnabledModulesRun
<1>1. IInv => ExactlyEnabledModulesRun
  BY DEF IInv, PanelInv, ExactlyEnabledModulesRun, Missing, Enabled
<1> QED BY <1>1, Invariance, PTL

(* All operations of a run put the same question.                          *)
THEOREM AsksTheSameQuestion == Spec => []SameQuestion
<1>1. IInv => SameQuestion
  BY DEF IInv
<1> QED BY <1>1, Invariance, PTL

(* No module is called twice in a row with one modifier.                   *)
THEOREM RepeatsNoCall == Spec => []NoRepeatedCall
<1>1. IInv => NoRepeatedCall
  BY DEF IInv
<1> QED BY <1>1, Invariance, PTL

(* A run executes at most MaxOperations entries and the missing modules.   *)
THEOREM BoundsOperations == Spec => []OperationsBounded
<1>1. IInv => OperationsBounded
  BY DEF IInv
<1> QED BY <1>1, Invariance, PTL

(* A step takes away no result, and changes no operation that has one.     *)
LEMMA NextFreezes ==
  IInv /\ [Next]_vars =>
    (pc = "execute" => \A i \in DOMAIN results :
       operations'[i] = operations[i] /\ results'[i] = results[i])
<1> SUFFICES ASSUME IInv, [Next]_vars, pc = "execute", NEW i \in DOMAIN results
             PROVE  operations'[i] = operations[i] /\ results'[i] = results[i]
  OBVIOUS
<1>1. /\ operations \in Seq(Operation) /\ results \in Seq(Results)
      /\ i \in 1 .. Len(results) /\ Len(results) <= Len(operations)
  BY DEF IInv, TypeOK
<1>2. CASE Execute \/ ModuleThrows
  <2>1. Len(results) < Len(operations) /\ operations' = Prepared(operations, Len(results) + 1)
    BY <1>2 DEF Execute, ModuleThrows
  <2>2. operations'[i] = operations[i]
    <3> DEFINE n == Len(results) + 1
    <3>1. n \in 1 .. Len(operations) /\ i \in 1 .. Len(operations) /\ i # n
      BY <1>1, <2>1
    <3> HIDE DEF n
    <3>2. Prepared(operations, n)[i] = operations[i]
      BY <1>1, <3>1, PreparedOperations
    <3> QED BY <2>1, <3>2 DEF n
  <2>3. results' = results \/ \E r : results' = Append(results, r)
    BY <1>2 DEF Execute, ModuleThrows
  <2> QED BY <1>1, <2>2, <2>3
<1>3. CASE ~(Execute \/ ModuleThrows)
  <2>1. UNCHANGED <<operations, results>>
    BY <1>3 DEF Next, Step, Dispatch, OutOfData, SkipEntry, CollectEntry, ReadMore, NoOperations,
                AddModule, TooFew, StartExecution, SkipCompare, StartCompare,
                AbortOnDifference, CompareReturns, Executed, Finish, vars
  <2> QED BY <2>1
<1> QED BY <1>2, <1>3

(* What has run is history: a result stays with the operation that gave it.*)
THEOREM FreezesExecutedOperations == Spec => ExecutedOperationsFrozen
<1>1. IInv /\ [Next]_vars =>
        [pc = "execute" => \A i \in DOMAIN results :
           operations'[i] = operations[i] /\ results'[i] = results[i]]_vars
  BY NextFreezes
<1> QED BY <1>1, Invariance, PTL DEF Spec, ExecutedOperationsFrozen

-----------------------------------------------------------------------------
(* The executor implements the differential oracle.                        *)

LEMMA InitRefines == Init => Oracle!Init
<1> SUFFICES ASSUME Init PROVE Oracle!Init
  OBVIOUS
<1> USE DEF Init
<1>1. Enabled \subseteq Loaded /\ Compared \in BOOLEAN
  <2>1. options \in Options /\ job \in Jobs
    OBVIOUS
  <2> QED BY <2>1, ExecutorAssumption DEF Enabled, Compared, Comparable
<1>2. Asked = {} /\ Given = {}
  BY DEF Asked, Given, Valued
<1>3. Verdict = "idle"
  BY DEF Verdict
<1> QED BY <1>1, <1>2, <1>3 DEF Oracle!Init

(* The verdict of each phase.                                              *)
LEMMA VerdictOf ==
  ASSUME IInv
  PROVE  /\ pc \notin {"idle", "aborted"} => Verdict = "running"
         /\ pc = "aborted" =>
              Verdict = IF outcome = "difference" THEN "difference" ELSE "fault"
         /\ pc = "idle" =>
              Verdict = CASE outcome = "none" -> "idle"
                          [] outcome \in {"outOfData", "noOperations", "tooFew"} -> "declined"
                          [] outcome = "abandoned" -> "abandoned"
                          [] outcome \in {"passed", "logged", "notCompared"} ->
                               IF Compared THEN "agreement" ELSE "inconclusive"
<1>1. pc \notin {"idle", "aborted"} => Verdict = "running"
  BY DEF Verdict
<1>2. pc = "aborted" => Verdict = IF outcome = "difference" THEN "difference" ELSE "fault"
  BY DEF Verdict
<1>3. ASSUME pc = "idle"
      PROVE  outcome \in {"none", "outOfData", "noOperations", "tooFew",
                          "abandoned", "passed", "logged", "notCompared"}
  BY <1>3 DEF IInv, TypeOK, OutcomeInv, Outcomes
<1>4. ASSUME pc = "idle"
      PROVE  Verdict = CASE outcome = "none" -> "idle"
                         [] outcome \in {"outOfData", "noOperations", "tooFew"} -> "declined"
                         [] outcome = "abandoned" -> "abandoned"
                         [] outcome \in {"passed", "logged", "notCompared"} ->
                              IF Compared THEN "agreement" ELSE "inconclusive"
  BY <1>3, <1>4 DEF Verdict
<1> QED BY <1>1, <1>2, <1>4

-----------------------------------------------------------------------------
(* What the steps do to the oracle's variables.                            *)

(* A quiet step keeps the panel, the question, and what was asked.         *)
LEMMA QuietMapping ==
  ASSUME UNCHANGED <<options, job, operations, results>>
  PROVE  Enabled' = Enabled /\ Compared' = Compared /\ Asked' = Asked /\ Given' = Given
BY DEF Enabled, Compared, Comparable, Asked, Given, Valued

(* Before execution starts nobody has been asked.                          *)
LEMMA NobodyAsked ==
  ASSUME IInv, pc \in {"collect", "more", "augment"}
  PROVE  Asked = {} /\ Given = {}
BY DEF IInv, CollectionInv, Asked, Given, Valued

LEMMA CollectionStutters ==
  ASSUME IInv, IInv', SkipEntry \/ CollectEntry \/ ReadMore \/ AddModule \/ StartExecution
  PROVE  UNCHANGED Oracle!oracleVars
<1> USE DEF SkipEntry, CollectEntry, ReadMore, AddModule, StartExecution, AfterPush
<1>1. pc \in {"collect", "more", "augment"} /\ pc' \notin {"idle", "aborted"}
  OBVIOUS
<1>2. results = <<>> /\ UNCHANGED <<options, job, results>>
  BY <1>1 DEF IInv, CollectionInv
<1>3. Enabled' = Enabled /\ Compared' = Compared
  BY <1>2 DEF Enabled, Compared, Comparable
<1>4. Asked' = Asked /\ Given' = Given
  BY <1>2 DEF Asked, Given, Valued
<1>5. Verdict = "running"
  BY <1>1, VerdictOf
<1>6. Verdict' = "running"
  BY <1>1 DEF Verdict
<1> QED BY <1>3, <1>4, <1>5, <1>6 DEF Oracle!oracleVars

LEMMA DispatchPoses ==
  ASSUME IInv, Dispatch
  PROVE  Oracle!Pose
<1> USE DEF Dispatch
<1>1. Verdict \in {"idle", "declined", "abandoned", "agreement", "inconclusive"}
  <2>1. outcome \in {"none", "outOfData", "noOperations", "tooFew",
                     "abandoned", "passed", "logged", "notCompared"}
    BY DEF IInv, TypeOK, OutcomeInv, Outcomes
  <2> QED BY <2>1 DEF Verdict
<1>2. Verdict' = "running"
  BY DEF Verdict
<1>3. Asked' = {} /\ Given' = {}
  BY DEF Asked, Given, Valued
<1>4. Enabled' = Enabled
  BY DEF Enabled
<1>5. Compared' \in BOOLEAN
  <2>1. options' \in Options /\ job' \in Jobs
    BY DEF IInv, TypeOK
  <2> QED BY <2>1, ExecutorAssumption DEF Compared, Comparable
<1> QED BY <1>1, <1>2, <1>3, <1>4, <1>5 DEF Oracle!Pose, Oracle!Final

LEMMA GivingUpDeclines ==
  ASSUME IInv, OutOfData \/ NoOperations \/ TooFew
  PROVE  Oracle!Decline
<1> USE DEF OutOfData, NoOperations, TooFew, Finish
<1>1. UNCHANGED <<options, job, operations, results>>
  OBVIOUS
<1>2. pc \in {"collect", "more", "augment"} /\ pc' = "idle"
      /\ outcome' \in {"outOfData", "noOperations", "tooFew"}
  OBVIOUS
<1>3. Asked = {}
  BY <1>2, NobodyAsked
<1>4. Verdict = "running"
  BY <1>2, VerdictOf
<1>5. Verdict' = "declined"
  BY <1>2 DEF Verdict
<1> QED BY <1>1, <1>3, <1>4, <1>5, QuietMapping DEF Oracle!Decline

(* Calling the next module with result r asks it and adds its answer.      *)
LEMMA CallMapping ==
  ASSUME IInv, NEW r \in Results, Len(results) < Len(operations),
         operations' = Prepared(operations, Len(results) + 1),
         results' = Append(results, r)
  PROVE  /\ Asked' = Asked \cup {operations[Len(results) + 1].module}
         /\ Given' = IF r = Nullopt THEN Given ELSE Given \cup {r}
<1> DEFINE n == Len(results) + 1
<1>1. /\ operations \in Seq(Operation) /\ results \in Seq(Results)
      /\ n \in 1 .. Len(operations)
  BY DEF IInv, TypeOK
<1>2. \A j \in 1 .. Len(operations) : operations'[j].module = operations[j].module
  BY <1>1, PreparedOperations
<1>3. /\ DOMAIN results = 1 .. n - 1 /\ DOMAIN results' = 1 .. n
      /\ \A i \in 1 .. n - 1 : results'[i] = results[i]
      /\ results'[n] = r
  BY <1>1, AppendProperties
<1> HIDE DEF n
<1>4. n \in Nat /\ n >= 1 /\ 1 .. n = (1 .. n - 1) \cup {n}
  BY <1>1
<1>5. Asked' = Asked \cup {operations[n].module}
  <2>1. \A i \in 1 .. n : operations'[i].module = operations[i].module
    BY <1>1, <1>2
  <2>2. Asked' = {operations[i].module : i \in 1 .. n}
    BY <1>3, <2>1 DEF Asked
  <2> QED BY <1>3, <1>4, <2>2 DEF Asked
<1>6. Given' = IF r = Nullopt THEN Given ELSE Given \cup {r}
  <2>1. Given = {results[i] : i \in {k \in 1 .. n - 1 : results[k] # Nullopt}}
    BY <1>3 DEF Given, Valued
  <2>2. Given' = {results'[i] : i \in {k \in 1 .. n : results'[k] # Nullopt}}
    BY <1>3 DEF Given, Valued
  <2>3. CASE r = Nullopt
    <3>1. {k \in 1 .. n : results'[k] # Nullopt} = {k \in 1 .. n - 1 : results[k] # Nullopt}
      BY <1>3, <1>4, <2>3
    <3>2. Given' = Given
      BY <1>3, <2>1, <2>2, <3>1
    <3> QED BY <2>3, <3>2
  <2>4. CASE r # Nullopt
    <3>1. {k \in 1 .. n : results'[k] # Nullopt}
            = {k \in 1 .. n - 1 : results[k] # Nullopt} \cup {n}
      BY <1>3, <1>4, <2>4
    <3>2. Given' = Given \cup {r}
      BY <1>3, <2>1, <2>2, <3>1
    <3> QED BY <2>4, <3>2
  <2> QED BY <2>3, <2>4
<1> QED BY <1>5, <1>6 DEF n

LEMMA ExecuteAsks ==
  ASSUME IInv, IInv', Execute
  PROVE  Oracle!Ask
<1> USE DEF Execute
<1>1. PICK r \in Answers :
        /\ results' = Append(results, r)
        /\ \/ UNCHANGED <<pc, outcome>>
           \/ r # Nullopt /\ ~options.disableTests /\ Crash("test")
           \/ r # Nullopt /\ SelfChecked /\ Crash("selfCheck")
  OBVIOUS
<1>2. r \in Results
  BY DEF Answers, Results
<1>3. Asked' = Asked \cup {operations[Len(results) + 1].module}
      /\ Given' = IF r = Nullopt THEN Given ELSE Given \cup {r}
  BY <1>1, <1>2, CallMapping
<1>4. operations[Len(results) + 1].module \in Enabled
  BY DEF IInv, TypeOK, PanelInv, ModulesOf
<1>5. Given' = Given \/ \E a \in Values : Given' = Given \cup {a}
  BY <1>2, <1>3 DEF Results
<1>6. Verdict = "running"
  BY VerdictOf
<1>7. Verdict' \in {"running", "fault"}
  BY <1>1 DEF Crash, Verdict
<1>8. Enabled' = Enabled /\ Compared' = Compared
  BY DEF Enabled, Compared, Comparable
<1> QED BY <1>3, <1>4, <1>5, <1>6, <1>7, <1>8 DEF Oracle!Ask

LEMMA ThrowingAbandons ==
  ASSUME IInv, IInv', ModuleThrows
  PROVE  Oracle!Abandon
<1> USE DEF ModuleThrows
<1> DEFINE m == operations[Len(results) + 1].module
<1>1. m \in Enabled \cap Throwing
  BY DEF IInv, TypeOK, PanelInv, ModulesOf
<1>2. \/ Asked' = Asked /\ Given' = Given
      \/ Asked' = Asked \cup {m} /\ \E a \in Values : Given' = Given \cup {a}
  <2>1. CASE results' = results
    <3> DEFINE n == Len(results) + 1
    <3>1. /\ operations \in Seq(Operation) /\ results \in Seq(Results)
          /\ n \in 1 .. Len(operations)
      BY DEF IInv, TypeOK
    <3>2. \A i \in 1 .. Len(operations) : operations'[i].module = operations[i].module
      BY <3>1, PreparedOperations
    <3>3. \A i \in DOMAIN results : operations'[i].module = operations[i].module
      BY <3>1, <3>2
    <3>4. Asked' = Asked /\ Given' = Given
      BY <2>1, <3>3 DEF Asked, Given, Valued
    <3> QED BY <3>4
  <2>2. CASE \E r \in Values : results' = Append(results, r)
    <3>1. PICK r \in Values : results' = Append(results, r)
      BY <2>2
    <3>2. r \in Results /\ r # Nullopt
      BY ValuesAssumption DEF Results
    <3>3. Asked' = Asked \cup {m} /\ Given' = Given \cup {r}
      BY <3>1, <3>2, CallMapping
    <3> QED BY <3>3
  <2> QED BY <2>1, <2>2
<1>3. Verdict = "running"
  BY VerdictOf
<1>4. Verdict' = "abandoned"
  BY DEF Verdict
<1>5. Enabled' = Enabled /\ Compared' = Compared
  BY DEF Enabled, Compared, Comparable
<1> HIDE DEF m
<1> QED BY <1>1, <1>2, <1>3, <1>4, <1>5 DEF Oracle!Abandon

(* At the end of a run the panel has been asked, and the comparison        *)
(* decides what the oracle's judgement decides.                            *)
LEMMA EndJudges ==
  ASSUME IInv, SkipCompare \/ CompareReturns \/ AbortOnDifference
  PROVE  Oracle!Judge
<1> USE DEF SkipCompare, CompareReturns, AbortOnDifference, Finish, Crash, Executed
<1>1. /\ UNCHANGED <<options, job, operations, results>>
      /\ pc \in {"execute", "compare"}
      /\ Len(results) = Len(operations)
  BY DEF IInv, CompareInv
<1>2. operations \in Seq(Operation) /\ results \in Seq(Results) /\ job \in Jobs
      /\ options \in Options
  BY DEF IInv, TypeOK
<1>3. Asked = Enabled
  <2>1. DOMAIN results = DOMAIN operations
    BY <1>1, <1>2
  <2>2. Asked = ModulesOf(operations)
    BY <2>1 DEF Asked, ModulesOf
  <2> QED BY <1>1, <2>2 DEF IInv, PanelInv, Missing
<1>4. Verdict = "running"
  BY <1>1, VerdictOf
<1>5. Oracle!Unanimous <=> ~AnyDiffer(results)
  BY DEF Oracle!Unanimous, Given, AnyDiffer
<1>6. job.style \in Styles
  BY <1>2, ExecutorAssumption
<1>7. Verdict' = Oracle!Judgement
  <2>1. CASE SkipCompare
    <3>1. pc' = "idle" /\ outcome' = "notCompared" /\ ~Compared
      BY <2>1 DEF Compared
    <3>2. Compared' = Compared
      BY <1>1 DEF Compared, Comparable
    <3>3. Verdict' = "inconclusive"
      BY <3>1, <3>2 DEF Verdict
    <3> QED BY <3>1, <3>3 DEF Oracle!Judgement
  <2>2. CASE CompareReturns
    <3>1. pc' = "idle" /\ outcome' \in {"passed", "logged"}
      BY <2>2
    <3>2. Compared' = Compared
      BY <1>1 DEF Compared, Comparable
    <3>3. Verdict' = IF Compared THEN "agreement" ELSE "inconclusive"
      BY <3>1, <3>2 DEF Verdict
    <3>4. ASSUME Compared PROVE Oracle!Unanimous
      <4>1. ~Fatal(job.style, job.seeded, job.dontCompare, results) /\ Comparable(job)
        BY <2>2, <3>4 DEF Compared
      <4>2. ~AdjacentDiffer(results) \/ ~ReferenceDiffer(results)
        BY <1>6, <4>1 DEF Fatal, Comparable, Styles
      <4> QED BY <1>2, <1>5, <4>2, AdjacentDifferSound, ReferenceDifferSound
    <3> QED BY <3>3, <3>4 DEF Oracle!Judgement
  <2>3. CASE AbortOnDifference
    <3>1. pc' = "aborted" /\ outcome' = "difference"
      BY <2>3
    <3>2. Verdict' = "difference"
      BY <3>1 DEF Verdict
    <3>3. Fatal(job.style, job.seeded, job.dontCompare, results) /\ ~options.noCompare
      BY <2>3 DEF IInv, CompareInv
    <3>4. Compared
      BY <3>3 DEF Compared, Comparable, Fatal
    <3>5. ~Oracle!Unanimous
      BY <1>2, <1>5, <3>3, AdjacentDifferSound, ReferenceDifferSound DEF Fatal
    <3> QED BY <3>2, <3>4, <3>5 DEF Oracle!Judgement
  <2> QED BY <2>1, <2>2, <2>3
<1> QED BY <1>1, <1>3, <1>4, <1>7, QuietMapping DEF Oracle!Judge

LEMMA StepRefines ==
  ASSUME IInv, IInv', [Next]_vars
  PROVE  [Oracle!Next]_Oracle!oracleVars
<1>1. CASE Dispatch
  BY <1>1, DispatchPoses DEF Oracle!Next
<1>2. CASE OutOfData \/ NoOperations \/ TooFew
  BY <1>2, GivingUpDeclines DEF Oracle!Next
<1>3. CASE SkipEntry \/ CollectEntry \/ ReadMore \/ AddModule \/ StartExecution
  BY <1>3, CollectionStutters
<1>4. CASE Execute
  BY <1>4, ExecuteAsks DEF Oracle!Next
<1>5. CASE ModuleThrows
  BY <1>5, ThrowingAbandons DEF Oracle!Next
<1>6. CASE SkipCompare \/ CompareReturns \/ AbortOnDifference
  BY <1>6, EndJudges DEF Oracle!Next
<1>7. CASE StartCompare
  <2>1. UNCHANGED <<options, job, operations, results>> /\ pc = "execute" /\ pc' = "compare"
    BY <1>7 DEF StartCompare, Executed
  <2>2. Verdict = "running" /\ Verdict' = "running"
    BY <2>1 DEF Verdict
  <2> QED BY <2>1, <2>2, QuietMapping DEF Oracle!oracleVars
<1>8. CASE UNCHANGED vars
  <2>1. Verdict' = Verdict /\ UNCHANGED <<options, job, operations, results>>
    BY <1>8 DEF vars, Verdict, Compared, Comparable
  <2> QED BY <2>1, QuietMapping DEF Oracle!oracleVars
<1> QED BY <1>1, <1>2, <1>3, <1>4, <1>5, <1>6, <1>7, <1>8 DEF Next, Step

(* Every behaviour of the executor is a behaviour of the oracle.           *)
THEOREM ExecutorImplementsOracle == Spec => ImplementsOracle
<1>1. Init => Oracle!Init
  BY InitRefines
<1>2. IInv /\ IInv' /\ [Next]_vars => [Oracle!Next]_Oracle!oracleVars
  BY StepRefines
<1> QED BY <1>1, <1>2, Invariance, PTL DEF Spec, ImplementsOracle, Oracle!Spec

=============================================================================
