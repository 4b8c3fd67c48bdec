------------------------- MODULE FieldFormatProofs -------------------------
(***************************************************************************)
(* What reading a field yields where one was written, for every base.      *)
(***************************************************************************)
EXTENDS FieldFormat, SequenceTheorems, TLAPS

(* Division with remainder by the number of byte values.                   *)
LEMMA Division ==
  ASSUME NEW n \in Nat
  PROVE  /\ n \div ByteValues \in Nat
         /\ n % ByteValues \in Bytes
         /\ n = ByteValues * (n \div ByteValues) + (n % ByteValues)
BY ByteAssumption DEF Bytes

(* A written length is spelled in four bytes.                              *)
LEMMA HeaderIsBytes ==
  ASSUME NEW n \in Nat
  PROVE  Header(n) \in Seq(Bytes) /\ Len(Header(n)) = HeaderSize
<1> DEFINE n1 == n \div ByteValues
           n2 == n1 \div ByteValues
           n3 == n2 \div ByteValues
<1>1. n1 \in Nat /\ n2 \in Nat /\ n3 \in Nat
  <2>1. n1 \in Nat
    BY Division
  <2> HIDE DEF n1
  <2>2. n2 \in Nat
    BY <2>1, Division
  <2> HIDE DEF n2
  <2> QED
    BY <2>1, <2>2, Division
<1>2. Header(n) = <<n % ByteValues, n1 % ByteValues, n2 % ByteValues, n3 % ByteValues>>
  BY DEF Header
<1> HIDE DEF n1, n2, n3
<1>3. /\ n % ByteValues \in Bytes /\ n1 % ByteValues \in Bytes
      /\ n2 % ByteValues \in Bytes /\ n3 % ByteValues \in Bytes
  BY <1>1, Division
<1> QED
  BY <1>2, <1>3 DEF HeaderSize

(* Reading the header of n where it was written yields n.                  *)
LEMMA HeaderReadBack ==
  ASSUME NEW n \in Lengths, NEW bytes, NEW at \in Nat,
         \A j \in 1 .. 4 : bytes[at + j] = Header(n)[j]
  PROVE  LengthAt(bytes, at) = n
<1> DEFINE B == ByteValues
           n1 == n \div B
           n2 == n1 \div B
           n3 == n2 \div B
<1>0. B \in Nat \ {0, 1}
  BY ByteAssumption
<1>1. n \in Nat /\ n3 < B
  BY DEF Lengths
<1>2. n1 \in Nat /\ n = B * n1 + (n % B)
  BY <1>1, Division
<1>3. Header(n) = <<n % B, n1 % B, n2 % B, n3 % B>>
  BY DEF Header
<1> HIDE DEF n1
<1>4. n2 \in Nat /\ n1 = B * n2 + (n1 % B)
  BY <1>2, Division
<1> HIDE DEF n2
<1>5. n3 \in Nat /\ n2 = B * n3 + (n2 % B) /\ n3 < B
  BY <1>1, <1>4, Division
<1> HIDE DEF n3
<1>6. n3 % B = n3
  BY <1>0, <1>5
<1>7. LengthAt(bytes, at) = (n % B) + B * ((n1 % B) + B * ((n2 % B) + B * n3))
  <2>1. /\ bytes[at + 1] = n % B /\ bytes[at + 2] = n1 % B
        /\ bytes[at + 3] = n2 % B /\ bytes[at + 4] = n3 % B
    BY <1>3
  <2> QED
    BY <1>6, <2>1 DEF LengthAt
<1>8. /\ (n % B) + B * n1 = n /\ (n1 % B) + B * n2 = n1 /\ (n2 % B) + B * n3 = n2
  <2>1. /\ n % B \in Nat /\ n1 % B \in Nat /\ n2 % B \in Nat
        /\ B * n1 \in Nat /\ B * n2 \in Nat /\ B * n3 \in Nat
    BY <1>0, <1>1, <1>2, <1>4, <1>5
  <2> QED
    BY <1>2, <1>4, <1>5, <2>1
<1> QED
  BY <1>7, <1>8

(* A field is bytes: its header's and its own.                             *)
LEMMA FieldIsBytes ==
  ASSUME NEW f \in Seq(Bytes)
  PROVE  /\ FieldBytes(f) \in Seq(Bytes)
         /\ Len(FieldBytes(f)) = HeaderSize + Len(f)
         /\ \A j \in 1 .. 4 : FieldBytes(f)[j] = Header(Len(f))[j]
         /\ \A j \in 1 .. Len(f) : FieldBytes(f)[HeaderSize + j] = f[j]
<1>1. Header(Len(f)) \in Seq(Bytes) /\ Len(Header(Len(f))) = 4
  BY HeaderIsBytes DEF HeaderSize
<1> DEFINE h == Header(Len(f))
<1>2. FieldBytes(f) = h \o f
  BY DEF FieldBytes
<1> HIDE DEF h
<1>3. h \in Seq(Bytes) /\ Len(h) = 4
  BY <1>1 DEF h
<1>4. /\ h \o f \in Seq(Bytes) /\ Len(h \o f) = 4 + Len(f)
      /\ \A j \in 1 .. 4 : (h \o f)[j] = h[j]
      /\ \A j \in 1 .. Len(f) : (h \o f)[4 + j] = f[j]
  <2>0. /\ Len(h \o f) = Len(h) + Len(f)
        /\ \A j \in 1 .. Len(h) + Len(f) : (h \o f)[j] = IF j <= Len(h) THEN h[j] ELSE f[j - Len(h)]
    BY <1>3, ConcatProperties, Zenon
  <2>1. Len(h \o f) = 4 + Len(f)
    BY <1>3, <2>0
  <2>2. \A j \in 1 .. 4 + Len(f) : (h \o f)[j] = IF j <= 4 THEN h[j] ELSE f[j - 4]
    BY <1>3, <2>0
  <2>3. ASSUME NEW j \in 1 .. Len(f) PROVE (h \o f)[4 + j] = f[j]
    <3>1. 4 + j \in 1 .. 4 + Len(f) /\ ~(4 + j <= 4) /\ (4 + j) - 4 = j
      OBVIOUS
    <3> QED
      BY <2>2, <3>1
  <2>4. ASSUME NEW j \in 1 .. 4 PROVE (h \o f)[j] = h[j]
    <3>1. j \in 1 .. 4 + Len(f) /\ j <= 4
      OBVIOUS
    <3> QED
      BY <2>2, <3>1
  <2> QED
    BY <1>3, <2>1, <2>3, <2>4
<1> QED
  BY <1>2, <1>4 DEF h, HeaderSize

(* Where a field was written, its length and its bytes are read back.      *)
LEMMA FieldReadBack ==
  ASSUME NEW bytes \in Seq(Bytes), NEW at \in Nat, NEW f \in Seq(Bytes),
         Len(f) \in Lengths,
         at + HeaderSize + Len(f) <= Len(bytes),
         \A j \in 1 .. HeaderSize + Len(f) : bytes[at + j] = FieldBytes(f)[j]
  PROVE  /\ LengthAt(bytes, at) = Len(f)
         /\ SubSeq(bytes, at + HeaderSize + 1, at + HeaderSize + Len(f)) = f
<1>1. LengthAt(bytes, at) = Len(f)
  <2>1. \A j \in 1 .. 4 : bytes[at + j] = Header(Len(f))[j]
    <3>1. ASSUME NEW j \in 1 .. 4 PROVE bytes[at + j] = Header(Len(f))[j]
      <4>1. j \in 1 .. HeaderSize + Len(f)
        BY DEF HeaderSize
      <4> QED
        BY <4>1, FieldIsBytes
    <3> QED
      BY <3>1
  <2> QED
    BY <2>1, HeaderReadBack
<1>2. \A j \in 1 .. Len(f) : bytes[at + 4 + j] = f[j]
  <2>1. ASSUME NEW j \in 1 .. Len(f)
        PROVE  bytes[at + 4 + j] = f[j]
    <3>1. 4 + j \in 1 .. HeaderSize + Len(f) /\ at + (4 + j) = at + 4 + j
      BY DEF HeaderSize
    <3>2. bytes[at + (4 + j)] = FieldBytes(f)[4 + j]
      BY <3>1
    <3> QED
      BY <3>1, <3>2, FieldIsBytes DEF HeaderSize
  <2> QED
    BY <2>1
<1> DEFINE body == SubSeq(bytes, at + 4 + 1, at + 4 + Len(f))
<1>3. Len(body) = Len(f) /\ body \in Seq(Bytes)
  BY DEF HeaderSize
<1>4. \A j \in 1 .. Len(f) : body[j] = bytes[at + 4 + j]
  BY DEF HeaderSize
<1> HIDE DEF body
<1>5. body = f
  BY <1>2, <1>3, <1>4
<1> QED
  BY <1>1, <1>5 DEF body, HeaderSize

(* A length read from the input is a number.                               *)
LEMMA LengthIsNat ==
  ASSUME NEW bytes \in Seq(Bytes), NEW at \in Nat, at + HeaderSize <= Len(bytes)
  PROVE  LengthAt(bytes, at) \in Nat
<1> DEFINE d(i) == bytes[at + i]
<1>1. d(1) \in Nat /\ d(2) \in Nat /\ d(3) \in Nat /\ d(4) \in Nat
  <2>1. \A i \in 1 .. Len(bytes) : bytes[i] \in Bytes
    OBVIOUS
  <2>2. at + 1 \in 1 .. Len(bytes) /\ at + 2 \in 1 .. Len(bytes)
        /\ at + 3 \in 1 .. Len(bytes) /\ at + 4 \in 1 .. Len(bytes)
    BY DEF HeaderSize
  <2>3. Bytes \subseteq Nat
    BY ByteAssumption DEF Bytes
  <2> QED
    BY <2>1, <2>2, <2>3
<1>2. ByteValues \in Nat
  BY ByteAssumption
<1> HIDE DEF d
<1>3. ASSUME NEW x \in Nat, NEW y \in Nat PROVE x + ByteValues * y \in Nat
  BY <1>2
<1>4. d(3) + ByteValues * d(4) \in Nat
  BY <1>1, <1>3
<1>5. d(2) + ByteValues * (d(3) + ByteValues * d(4)) \in Nat
  BY <1>1, <1>3, <1>4
<1>6. d(1) + ByteValues * (d(2) + ByteValues * (d(3) + ByteValues * d(4))) \in Nat
  BY <1>1, <1>3, <1>5
<1> QED
  BY <1>6 DEF LengthAt, d

(* Clamping a number yields one.                                           *)
LEMMA ClampedIsNat ==
  ASSUME NEW n \in Nat, NEW b \in [min : Nat, max : Nat]
  PROVE  /\ Clamped(n, b) \in Nat
         /\ b.max = 0 \/ b.min <= b.max => Clamped(n, b) >= b.min
         /\ b.max # 0 => Clamped(n, b) <= b.max
         /\ b.min <= n /\ (b.max = 0 \/ n <= b.max) => Clamped(n, b) = n
BY DEF Clamped

=============================================================================
