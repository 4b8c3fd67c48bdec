----------------------------- MODULE Encodings -----------------------------
(***************************************************************************)
(* What modules and the mutator make of bytes and of lengths: the padding  *)
(* of a block cipher's last block and its removal, a signature in DER and  *)
(* back, the two paddings of what an ECDSA library is to sign, and the     *)
(* lengths that share out an input's room among its fields.                *)
(***************************************************************************)
EXTENDS Integers, Sequences, SequencesExt, FiniteSetsExt

CONSTANTS
  Radix,       \* a byte is 0 .. Radix - 1; 256 in the code
  Sequence,    \* tags of DER: 0x30
  Integer,     \* and 0x02
  Texts,       \* sequences of bytes a handler gets
  Numbers,     \* integers a signature is made of
  CipherSizes, \* of the ciphers, in bytes: at most 128 in the libraries
  CurveSizes,  \* of the curves, in bytes; 0 where the repository knows no
               \* number of bits or one that is no multiple of 8
  MaxInserts,  \* bound: bytes ECDSA_RandomPad inserts
  MaxRoom,     \* bound: bytes SplitLength shares out
  MaxLengths   \* bound: fields among which it does

Byte == 0 .. Radix - 1

ASSUME EncodingsAssumption ==
  /\ Radix \in Nat \ {0, 1} /\ Sequence \in Byte /\ Integer \in Byte
  /\ Texts \subseteq Seq(Byte) /\ Numbers \subseteq Int
  /\ CipherSizes \subseteq 1 .. Radix - 1 /\ CurveSizes \subseteq Nat
  /\ MaxInserts \in Nat /\ MaxRoom \in Nat /\ MaxLengths \in Nat

VARIABLES
  work,     \* what is being done
  coding,   \* "start", "coded" or "done"
  given,    \* the bytes, the two numbers or the room it starts from
  size,     \* of a block or a curve; the number of fields
  coded,    \* what came out of the first half, if anything
  result,   \* and of the second
  room      \* room SplitLength has not given away

codeVars == <<work, coding, given, size, coded, result, room>>

(* A std::optional is a sequence of one value or of none.                  *)
Nothing == <<>>
Just(x) == <<x>>

-----------------------------------------------------------------------------
(* Numbers and bytes.                                                      *)

(* What the first n of some digits amount to, for every n.                 *)
ValuesOf(radix, digits) ==
  LET value[n \in 0 .. Len(digits)] ==
        IF n = 0 THEN 0 ELSE value[n - 1] * radix + digits[n]
  IN  value

BinToDec(data) == ValuesOf(Radix, data)[Len(data)]

(* Zero takes a byte too.                                                  *)
BytesOf[n \in Nat] ==
  IF n < Radix THEN <<n>> ELSE Append(BytesOf[n \div Radix], n % Radix)

DecToBin(n) == IF n < 0 THEN Nothing ELSE Just(BytesOf[n])

Filled(n, b) == [i \in 1 .. n |-> b]

-----------------------------------------------------------------------------
(* Block ciphers.                                                          *)

Pkcs7Pad(in, blocksize) ==
  LET numPadBytes == blocksize - (Len(in) % blocksize)
  IN  in \o Filled(numPadBytes, numPadBytes % Radix)

\* fault: a padding as long as the input is refused
FaultPkcs7Unpad(in, blocksize) ==
  IF in = <<>> \/ Len(in) % blocksize # 0 \/ in[Len(in)] >= Len(in) THEN Nothing
  ELSE Just(SubSeq(in, 1, Len(in) - in[Len(in)]))

(* Only the last byte of the padding is looked at.                         *)
Pkcs7Unpad(in, blocksize) ==
  IF in = <<>> \/ Len(in) % blocksize # 0 \/ in[Len(in)] > Len(in) THEN Nothing
  ELSE Just(SubSeq(in, 1, Len(in) - in[Len(in)]))

-----------------------------------------------------------------------------
(* Signatures.                                                             *)

High(bin) == bin[1] >= Radix \div 2

Signed(bin) == (IF High(bin) THEN <<0>> ELSE <<>>) \o bin

\* fault: the length counts the integers as they were before they got a sign
FaultEnclosed(a, b) ==
  <<Sequence, (4 + Len(a) + Len(b)) % Radix>>
    \o <<Integer, Len(a)>> \o Signed(a) \o <<Integer, Len(b)>> \o Signed(b)

(* The length is cut to a byte.                                            *)
Enclosed(a, b) ==
  <<Sequence, (4 + Len(Signed(a)) + Len(Signed(b))) % Radix>>
    \o <<Integer, Len(Signed(a))>> \o Signed(a)
    \o <<Integer, Len(Signed(b))>> \o Signed(b)

ToDER(A, B) ==
  LET a == DecToBin(A)
      b == DecToBin(B)
  IN  IF a = Nothing \/ b = Nothing \/ Len(a[1]) + Len(b[1]) + 4 > Radix - 1
      THEN Nothing ELSE Just(Enclosed(a[1], b[1]))

(* An integer starts at i and ends in the data.                            *)
HasInteger(data, i) ==
  /\ Len(data) >= i + 1
  /\ data[i] = Integer
  /\ data[i + 1] <= Len(data) - (i + 1)

IntegerAt(data, i) == SubSeq(data, i + 2, i + 1 + data[i + 1])

(* Bytes behind the second integer are not looked at.                      *)
SignatureFromDER(data) ==
  IF /\ Len(data) >= 2
     /\ data[1] = Sequence /\ data[2] = Len(data) - 2
     /\ HasInteger(data, 3) /\ HasInteger(data, 5 + data[4])
  THEN Just(<<BinToDec(IntegerAt(data, 3)), BinToDec(IntegerAt(data, 5 + data[4]))>>)
  ELSE Nothing

-----------------------------------------------------------------------------
(* What is signed.                                                         *)

Shortened(data, n) == SubSeq(data, 1, Min({n, Len(data)}))

ECDSA_Pad(data, retSize) ==
  Filled(retSize - Len(Shortened(data, retSize)), 0) \o Shortened(data, retSize)

Stripped(data) ==
  SelectInSeq(data, LAMBDA b : b # 0)

WithoutZeros(data) ==
  IF Stripped(data) = 0 THEN <<>> ELSE SubSeq(data, Stripped(data), Len(data))

(* Zeros that go to the left; what is left of numInserts goes to the right.*)
Zeros(stripped, numBytes, numInserts) ==
  Min({numInserts, numBytes - Len(stripped)})

(* The bytes on the right come from the modifier, or are zeros.            *)
ECDSA_RandomPads(data, numBytes) ==
  IF numBytes = 0 THEN {data}
  ELSE LET stripped == WithoutZeros(Shortened(data, numBytes))
       IN  UNION {LET zeros == Zeros(stripped, numBytes, numInserts)
                  IN  {Filled(zeros, 0) \o stripped \o more :
                         more \in [1 .. numInserts - zeros -> {0, Radix - 1}]} :
                    numInserts \in 0 .. MaxInserts}

-----------------------------------------------------------------------------
(* Steps.                                                                  *)

Start(what, from, n) ==
  work = what /\ given \in from /\ size \in n

CodeInit ==
  /\ \/ Start("cbc", Texts, CipherSizes)
     \/ Start("signature", Numbers \X Numbers, {0})
     \/ Start("hash", Texts, CurveSizes)
     \/ Start("room", 0 .. MaxRoom, 1 .. MaxLengths)
  /\ coding = "start" /\ coded = Nothing /\ result = Nothing
  /\ room = IF work = "room" THEN given ELSE 0

Encode(what, value) ==
  /\ work = what /\ coding = "start"
  /\ coded' = value
  /\ coding' = "coded"
  /\ UNCHANGED <<work, given, size, result, room>>

Decode(what, value) ==
  /\ work = what /\ coding = "coded"
  /\ result' = value
  /\ coding' = "done"
  /\ UNCHANGED <<work, given, size, coded, room>>

(* Encrypt and decrypt handlers; a decrypt handler is also given texts     *)
(* that no encrypt handler made.                                           *)
Pad == Encode("cbc", Pkcs7Pad(given, size))
Decrypted == Encode("cbc", given)
Unpad == Decode("cbc", Pkcs7Unpad(coded, size))

(* What does not fit a signature is not handed on.                         *)
Sign == Encode("signature", ToDER(given[1], given[2]))
ReadSignature ==
  Decode("signature", IF coded = Nothing THEN Nothing ELSE SignatureFromDER(coded[1]))

(* One module pads with ECDSA_RandomPad, another with ECDSA_Pad.           *)
RandomPad ==
  /\ work = "hash"
  /\ \E padded \in ECDSA_RandomPads(given, size) : Encode("hash", padded)
FixedPad == Decode("hash", ECDSA_Pad(given, size))

Drawn(n) == 0 .. n

(* SplitLength: PRNG() % (left + 1), a length for each field ...           *)
Draw ==
  /\ work = "room" /\ coding = "start"
  /\ IF Len(coded) < size
     THEN \E cur \in Drawn(room) :
            coded' = Append(coded, cur) /\ room' = room - cur /\ UNCHANGED coding
     ELSE coding' = "coded" /\ UNCHANGED <<coded, room>>
  /\ UNCHANGED <<work, given, size, result>>

FaultWithout(i) == RemoveAt(coded, 1)   \* fault: another one is erased

Without(i) == RemoveAt(coded, i)

(* ... and then one length after the other, each erased as it is taken.    *)
Shuffle ==
  /\ work = "room" /\ coding = "coded"
  /\ IF Len(result) < size
     THEN \E i \in DOMAIN coded :
            result' = Append(result, coded[i]) /\ coded' = Without(i) /\ UNCHANGED coding
     ELSE coding' = "done" /\ UNCHANGED <<coded, result>>
  /\ UNCHANGED <<work, given, size, room>>

CodeNext ==
  \/ Pad \/ Decrypted \/ Unpad
  \/ Sign \/ ReadSignature
  \/ RandomPad \/ FixedPad
  \/ Draw \/ Shuffle

CodeSpec == CodeInit /\ [][CodeNext]_codeVars

-----------------------------------------------------------------------------
(* A library's own removal of the padding, which looks at all of it.       *)
Unpadded(in) == {t \in {SubSeq(in, 1, n) : n \in 0 .. Len(in)} : Pkcs7Pad(t, size) = in}

(* Whatever a library unpads, Pkcs7Unpad unpads to the same text, so that  *)
(* two modules never differ over a padding; and all that was padded is     *)
(* unpadded, full blocks and the empty text included (util.cpp).           *)
UnpadsLikeLibraries ==
  work = "cbc" /\ coding = "done" => \A t \in Unpadded(coded) : result = Just(t)

FitsByte(pair) ==
  4 + Len(Signed(DecToBin(pair[1])[1])) + Len(Signed(DecToBin(pair[2])[1])) < Radix

(* The number an ECDSA library makes of its input.                         *)
Signee(data) == BinToDec(Shortened(data, size))

(* What a module signs or verifies on its way to a library.  A signature   *)
(* in DER is read back as the same two numbers, or, when signs made its    *)
(* length wrap, not at all, and no short one is lost (ToDER,               *)
(* SignatureFromDER); and however an input is padded, with zeros or at     *)
(* random, the number signed is that of the input ("remains equivalent to  *)
(* ECDSA verify/sign functions", ECDSA_RandomPad; ECDSA_Pad).              *)
SignaturesKept ==
  /\ work = "signature" /\ coding = "done" /\ coded # Nothing =>
       result = IF FitsByte(given) THEN Just(given) ELSE Nothing
  /\ work = "hash" /\ size # 0 =>
       /\ coding # "start" => Signee(coded) = Signee(given)
       /\ coding = "done" => Signee(result) = Signee(given)

Total(lens) == ValuesOf(1, lens)[Len(lens)]

(* Every field gets one of the lengths drawn, and together they fit the    *)
(* room, in whatever order they were taken (SplitLength).                  *)
LengthsFit ==
  work = "room" /\ coding = "done" =>
    /\ Len(result) = size /\ coded = <<>>
    /\ Total(result) = given - room

-----------------------------------------------------------------------------
(* The inductive invariants behind them.                                   *)
PaddingInv ==
  work = "cbc" =>
    /\ size \in CipherSizes /\ given \in Texts
    /\ coding # "start" => coded \in Seq(Byte)
    /\ coding = "done" => result = Pkcs7Unpad(coded, size)

RoomInv ==
  work = "room" =>
    /\ coded \in Seq(Nat) /\ result \in Seq(Nat)
    /\ room \in Nat /\ size \in Nat /\ given \in Nat
    /\ coding = "start" => result = <<>> /\ Len(coded) <= size
    /\ coding # "start" => Len(coded) + Len(result) = size
    /\ coding = "done" => coded = <<>>
    /\ Total(coded) + Total(result) + room = given

SignatureInv ==
  work = "signature" =>
    /\ given \in Numbers \X Numbers
    /\ coding # "start" => coded = ToDER(given[1], given[2])
    /\ coding = "done" =>
         result = IF coded = Nothing THEN Nothing ELSE SignatureFromDER(coded[1])

HashInv ==
  work = "hash" =>
    /\ given \in Texts /\ size \in CurveSizes
    /\ size # 0 =>
         /\ coding # "start" => Signee(coded) = Signee(given)
         /\ coding = "done" => Signee(result) = Signee(given)

=============================================================================
