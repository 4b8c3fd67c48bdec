------------------------------- MODULE Items -------------------------------
(***************************************************************************)
(* The items inputs are made of: what Serialize puts for a value, what the *)
(* constructor taking a Datasource makes of it, and which items follow for *)
(* a value of an optional or a counted one.  A document is an operation or *)
(* a whole input: its layout is the items it starts out with, its draws    *)
(* are the values that may be drawn for each parameter.                    *)
(***************************************************************************)
EXTENDS FieldFormat

CONSTANTS
  Layouts,    \* items by document, as Operations lists them
  Draws,      \* what may be drawn, by document and parameter, the usual first
  Unfaithful  \* the documents whose reader and writer disagree

Documents == DOMAIN Layouts

-----------------------------------------------------------------------------

(* What is put for a value: all of it, the byte a narrower type keeps, or  *)
(* the flag's opposite.                                                    *)
Opposite(v) == <<1 - (v[1] % 2)>>

ToWire(item, v) ==
  CASE item.put = "low byte"   -> SubSeq(v, 1, 1)
    [] item.kind = "absence"   -> Opposite(v)
    [] OTHER                   -> v

FaultWritten(item, v) ==   \* fault: absence is written as presence
  IF item.kind = "absence" THEN v ELSE ToWire(item, v)

WireOf(item, v) == ToWire(item, v)

(* What the reader makes of bytes.  Digits are left alone, every other     *)
(* byte of a bignum becomes one (Bignum::transform).                       *)
Digit(b) == IF b \in 48 .. 57 THEN b ELSE (b % 10) + 48

Residue(bytes, below) ==
  LET from[i \in 0 .. Len(bytes)] ==
        IF i = Len(bytes) THEN 0
        ELSE (from[i + 1] * ByteValues + bytes[i + 1]) % below
  IN  from[0]

Spelled(n, size) ==
  LET rest[i \in 1 .. size] == IF i = 1 THEN n ELSE rest[i - 1] \div ByteValues
  IN  [i \in 1 .. size |-> rest[i] % ByteValues]

Converted(item, bytes) ==
  CASE item.kind = "digits"  -> [i \in DOMAIN bytes |-> Digit(bytes[i])]
    [] item.kind = "number" /\ item.below # 0
                             -> Spelled(Residue(bytes, item.below), Len(bytes))
    [] item.kind = "flag"    -> <<bytes[1] % 2>>
    [] item.kind = "absence" -> Opposite(bytes)
    [] OTHER                 -> bytes

(* What a reader asks the data source for.                                 *)
BoundsOf(item) == [min |-> item.min, max |-> item.max]

(* The items to go on with when a value has been written or read: those it *)
(* brings along, and the rest.                                             *)
Copies(items, n) ==
  [i \in 1 .. n * Len(items) |-> items[((i - 1) % Len(items)) + 1]]

Brings(item, v) ==
  CASE item.gives = <<>>                       -> <<>>
    [] item.kind = "count"                     -> Copies(item.gives, LengthAt(v, 0))
    [] item.kind \in {"flag", "absence"}       -> IF v = <<1>> THEN item.gives ELSE <<>>
    [] OTHER                                   -> <<>>

After(items, v) == Brings(Head(items), v) \o Tail(items)

-----------------------------------------------------------------------------

(* What is put for an item is all of it, the reader's bounds let it        *)
(* through, and the reader's conversion takes it back.                     *)
FitsItem(item, v) ==
  LET wire == WireOf(item, v)
  IN  /\ item.put = "all"
      /\ wire \in Seq(Bytes) /\ Len(wire) \in Lengths
      /\ Clamped(Len(wire), BoundsOf(item)) = Len(wire)
      /\ Converted(item, wire) = v

(* The items of a document: those of its layout, and those that values     *)
(* drawn for them bring along.                                             *)
Drawn(d, item) == {Draws[d][item.name][i] : i \in DOMAIN Draws[d][item.name]}

ElementsOf(items) == {items[i] : i \in DOMAIN items}

WithBrought(d, items) ==
  items \cup UNION {UNION {ElementsOf(Brings(item, v)) : v \in Drawn(d, item)} : item \in items}

ItemsOf(d) == WithBrought(d, WithBrought(d, WithBrought(d, ElementsOf(Layouts[d]))))

(* None brings along others than these, the mutator draws a parameter for  *)
(* each, and what it draws fits, apart from the documents named.           *)
DocumentsFit ==
  \A d \in Documents :
    LET items == ItemsOf(d)
    IN  /\ Layouts[d] \in Seq(items)
        /\ \A item \in items :
             /\ item.name \in DOMAIN Draws[d]
             /\ \A v \in Drawn(d, item) :
                  /\ Brings(item, v) \in Seq(items)
                  /\ d \notin Unfaithful => FitsItem(item, v)

=============================================================================
