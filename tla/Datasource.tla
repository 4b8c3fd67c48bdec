----------------------------- MODULE Datasource -----------------------------
(***************************************************************************)
(* fuzzing::datasource::Datasource, the reader and writer every input of   *)
(* the fuzzer passes through.  A field is its length in four bytes, least  *)
(* significant first, followed by its bytes.  A writer appends fields to   *)
(* `out`; a reader walks a byte string it does not trust, clamps each      *)
(* length it finds to the bounds its caller asks for, and throws OutOfData *)
(* when the bytes do not suffice.  Callers catch the exception and go on   *)
(* reading from the same source (util.cpp, components.cpp).                *)
(***************************************************************************)
EXTENDS FieldFormat

CONSTANTS
  Inputs,       \* bound: the byte strings libFuzzer comes up with
  Fields,       \* bound: what is written, a field being a string of bytes
  MaxFields,    \* bound: fields written to one source
  Bounds,       \* bound: the (min, max) pairs callers ask for; max = 0 is none
  MaxReads      \* bound: reads from one source

ASSUME DatasourceAssumption ==
  /\ Inputs \subseteq Seq(Bytes)
  /\ Fields \subseteq Seq(Bytes)
  /\ \A f \in Fields : Len(f) \in Lengths
  /\ MaxFields \in Nat
  /\ MaxReads \in Nat
  /\ Bounds \subseteq [min : Nat, max : Nat]

VARIABLES
  data,     \* the bytes being read
  idx,      \* how many of them have been consumed
  left,     \* how many have not
  thrown,   \* the last read threw OutOfData
  reads,    \* history: the reads that returned, with the bounds asked for
  exact,    \* history: every read so far fits the field it was meant for
  out,      \* the bytes written
  written,  \* history: the fields written, empty for inputs
  starts    \* history: where in out each of them starts

vars == <<data, idx, left, thrown, reads, exact, out, written, starts>>

-----------------------------------------------------------------------------

Init ==
  /\ data = <<>> /\ idx = 0 /\ left = 0
  /\ thrown = FALSE /\ reads = <<>> /\ exact = TRUE
  /\ out = <<>> /\ written = <<>> /\ starts = <<>>

(* put(): the header goes first, also when there is nothing to follow it.  *)
Put(f) ==
  /\ data = <<>> /\ idx = 0 /\ left = 0 /\ reads = <<>>
  /\ Len(written) < MaxFields
  /\ out' = out \o FieldBytes(f)
  /\ written' = Append(written, f)
  /\ starts' = Append(starts, Len(out))
  /\ UNCHANGED <<data, idx, left, thrown, reads, exact>>

(* Datasource::Datasource over bytes some other source wrote, unchanged ... *)
ReadBack ==
  /\ data = <<>> /\ out # <<>>
  /\ data' = out
  /\ left' = Len(out)
  /\ UNCHANGED <<idx, thrown, reads, exact, out, written, starts>>

(* ... or over what the fuzzing engine makes up.                           *)
ReadInput(input) ==
  /\ data = <<>> /\ out = <<>>
  /\ input # <<>>
  /\ data' = input
  /\ left' = Len(input)
  /\ exact' = FALSE
  /\ UNCHANGED <<idx, thrown, reads, out, written, starts>>

(* The field a read is meant for, and whether the bounds let it through.   *)
Fits(b) ==
  Len(reads) < Len(written) =>
    LET f == written[Len(reads) + 1]
    IN  b.min <= Len(f) /\ (b.max = 0 \/ Len(f) <= b.max)

(* get() without four bytes left throws and consumes nothing.              *)
GetHeaderFails(b) ==
  /\ data # <<>>
  /\ left < HeaderSize
  /\ thrown' = TRUE
  /\ exact' = (exact /\ Fits(b))
  /\ UNCHANGED <<data, idx, left, reads, out, written, starts>>

Size(b) == Clamped(LengthAt(data, idx), b)

(* get() without enough bytes left for the body has consumed the header.   *)
FaultKept == UNCHANGED <<idx, left>>   \* fault: a failing read gives it back

ConsumeHeader ==
  /\ idx' = idx + HeaderSize
  /\ left' = left - HeaderSize

TooLong(b) == left - HeaderSize < Size(b)

GetBodyFails(b) ==
  /\ data # <<>>
  /\ left >= HeaderSize
  /\ TooLong(b)
  /\ ConsumeHeader
  /\ thrown' = TRUE
  /\ exact' = (exact /\ Fits(b))
  /\ UNCHANGED <<data, reads, out, written, starts>>

ConsumeField(size) ==
  /\ idx' = idx + HeaderSize + size
  /\ left' = left - HeaderSize - size

GetReturns(b) ==
  /\ data # <<>>
  /\ left >= HeaderSize
  /\ ~TooLong(b)
  /\ Len(reads) < MaxReads
  /\ ConsumeField(Size(b))
  /\ reads' = Append(reads,
       [bounds |-> b,
        bytes |-> SubSeq(data, idx + HeaderSize + 1, idx + HeaderSize + Size(b))])
  /\ thrown' = FALSE
  /\ exact' = (exact /\ Fits(b))
  /\ UNCHANGED <<data, out, written, starts>>

(* The source goes out of scope.                                           *)
Discard ==
  /\ data # <<>>
  /\ data' = <<>> /\ idx' = 0 /\ left' = 0
  /\ thrown' = FALSE /\ reads' = <<>> /\ exact' = TRUE
  /\ out' = <<>> /\ written' = <<>> /\ starts' = <<>>

Next ==
  \/ \E f \in Fields : Put(f)
  \/ ReadBack
  \/ \E input \in Inputs : ReadInput(input)
  \/ \E b \in Bounds : GetHeaderFails(b)
  \/ \E b \in Bounds : GetBodyFails(b)
  \/ \E b \in Bounds : GetReturns(b)
  \/ Discard

Spec == Init /\ [][Next]_vars

-----------------------------------------------------------------------------
(***************************************************************************)
(* Properties.                                                             *)
(***************************************************************************)

(* Every variable holds what its C++ counterpart can hold; in particular   *)
(* the unsigned `left` never wraps.                                        *)
TypeOK ==
  /\ data \in Seq(Bytes)
  /\ idx \in Nat
  /\ left \in Nat
  /\ thrown \in BOOLEAN
  /\ exact \in BOOLEAN
  /\ reads \in Seq([bounds : Bounds, bytes : Seq(Bytes)])
  /\ out \in Seq(Bytes)
  /\ written \in Seq(Fields)
  /\ starts \in Seq(Nat)

(* No read reaches outside the input, whatever lengths the input claims,   *)
(* whatever bounds callers ask for, and also when they go on after an      *)
(* exception (get in datasource.hpp).                                      *)
InBounds == idx + left = Len(data)

(* A read that returns gives its caller a size the caller asked for: at    *)
(* least min, at most max unless min itself exceeds it.  Get<T> copies     *)
(* sizeof(T) bytes out of what it gets (get and Base::Get).                *)
AsAsked(b, size) ==
  /\ b.max = 0 \/ b.min <= b.max => size >= b.min
  /\ b.max # 0 => size <= b.max

SizesAsAsked == \A i \in DOMAIN reads : AsAsked(reads[i].bounds, Len(reads[i].bytes))

(* What one source writes another reads back: as long as no bound cuts a   *)
(* field short or stretches it, reads return the fields in order, empty    *)
(* ones too, and only a read past the last one throws (put and get).       *)
RoundTrip ==
  exact /\ data # <<>> =>
    /\ Len(reads) <= Len(written)
    /\ \A i \in DOMAIN reads : reads[i].bytes = written[i]
    /\ thrown => Len(reads) = Len(written)

(* Every read makes progress: it consumes at least a header, or nothing    *)
(* remains to be read, so a loop that reads until OutOfData ends (GetData  *)
(* and Get<bool> loops in util.cpp, components.cpp, executor.cpp).         *)
ReadsConsume ==
  [][data # <<>> /\ data' = data =>
       idx' >= idx + HeaderSize \/ left < HeaderSize]_vars

=============================================================================
