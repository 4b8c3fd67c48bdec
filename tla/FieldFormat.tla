---------------------------- MODULE FieldFormat ----------------------------
(***************************************************************************)
(* What a field looks like in an input: its length in four bytes, least    *)
(* significant first, followed by its bytes (Datasource::put), and what a  *)
(* reader makes of a length it finds (Datasource::get).                    *)
(***************************************************************************)
EXTENDS Integers, Sequences

CONSTANT ByteValues   \* number of values of a byte (256)

ASSUME ByteAssumption == ByteValues \in Nat \ {0, 1}

HeaderSize == 4   \* sizeof(uint32_t)

Bytes == 0 .. ByteValues - 1

(* The length field of n, and the length that header bytes spell.          *)
Header(n) ==
  LET n1 == n \div ByteValues
      n2 == n1 \div ByteValues
      n3 == n2 \div ByteValues
  IN  <<n % ByteValues, n1 % ByteValues, n2 % ByteValues, n3 % ByteValues>>

LengthAt(bytes, at) ==
  bytes[at + 1] + ByteValues * (bytes[at + 2]
    + ByteValues * (bytes[at + 3] + ByteValues * bytes[at + 4]))

(* The lengths a header can spell.                                         *)
Lengths == {n \in Nat : ((n \div ByteValues) \div ByteValues) \div ByteValues < ByteValues}

(* A length found in the input, clamped up to min and then down to max.    *)
FaultAlwaysCapped(n, b) ==   \* fault: max = 0 is taken for a bound
  IF n > b.max THEN b.max ELSE IF n < b.min THEN b.min ELSE n

Clamped(n, b) ==
  LET atLeast == IF n < b.min THEN b.min ELSE n
  IN  IF b.max # 0 /\ atLeast > b.max THEN b.max ELSE atLeast

FaultEmptySkipped(f) == IF f = <<>> THEN <<>> ELSE Header(Len(f)) \o f   \* fault: no header

FieldBytes(f) == Header(Len(f)) \o f

=============================================================================
