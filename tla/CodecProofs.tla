---------------------------- MODULE CodecProofs ----------------------------
(***************************************************************************)
(* Reader and writer of an operation agree as soon as each single value    *)
(* fits its item: for any layouts, any draws and any number of byte        *)
(* values.  The argument runs both in lockstep: before its k-th value the  *)
(* reader has the items to read that the writer had to write before its    *)
(* k-th, and stands where that value starts.                               *)
(***************************************************************************)
EXTENDS Codec, FieldFormatProofs

(* The histories are sequences, of whatever.                               *)
IsSequence(s) == \E S : s \in Seq(S)

LEMMA AppendToAny ==
  ASSUME NEW s, IsSequence(s), NEW e
  PROVE  /\ IsSequence(Append(s, e))
         /\ Len(s) \in Nat
         /\ DOMAIN s = 1 .. Len(s)
         /\ Len(Append(s, e)) = Len(s) + 1
         /\ \A i \in 1 .. Len(s) : Append(s, e)[i] = s[i]
         /\ Append(s, e)[Len(s) + 1] = e
<1>1. PICK S : s \in Seq(S)
  BY DEF IsSequence
<1>2. s \in Seq(S \cup {e}) /\ e \in S \cup {e}
  BY <1>1
<1> DEFINE T == S \cup {e}
<1> HIDE DEF T
<1>3. s \in Seq(T) /\ e \in T
  BY <1>2 DEF T
<1>4. Append(s, e) \in Seq(T)
  BY <1>3
<1> QED
  BY <1>3, <1>4 DEF IsSequence

-----------------------------------------------------------------------------

(* What was put for the i-th value, where the i-th value starts, and what  *)
(* the writer had left to write before it.                                 *)
WireAt(i) == WireOf(Head(wrote[i].todo), wrote[i].value)

StartAt(i) == IF i <= Len(wrote) THEN wrote[i].start ELSE Len(out)

TodoAt(i) ==
  IF i <= Len(wrote) THEN wrote[i].todo
  ELSE IF phase = "writing" THEN todo ELSE <<>>

Histories ==
  /\ IsSequence(wrote) /\ IsSequence(got)
  /\ phase \in {"idle", "writing", "reading", "dropped", "decoded"}
  /\ phase = "idle" => wrote = <<>> /\ out = <<>> /\ got = <<>> /\ idx = 0
  /\ phase = "writing" => got = <<>> /\ idx = 0

(* The writer's side: fields follow each other, items each other.          *)
WrittenInv ==
  Exact =>
    /\ out \in Seq(Bytes)
    /\ \A i \in 1 .. Len(wrote) :
         /\ wrote[i].todo # <<>>
         /\ TodoAt(i + 1) = After(wrote[i].todo, wrote[i].value)
         /\ wrote[i].start \in Nat
         /\ StartAt(i + 1) = wrote[i].start + HeaderSize + Len(WireAt(i))
         /\ wrote[i].start + HeaderSize + Len(WireAt(i)) <= Len(out)
         /\ \A j \in 1 .. HeaderSize + Len(WireAt(i)) :
              out[wrote[i].start + j] = FieldBytes(WireAt(i))[j]
    /\ StartAt(1) = 0
    /\ phase # "idle" => TodoAt(1) = Layouts[doc]

(* The reader's side: it is where the writer was.                          *)
ReadingInv ==
  Exact /\ phase \in {"reading", "dropped", "decoded"} =>
    /\ phase # "dropped"
    /\ Len(got) <= Len(wrote)
    /\ \A i \in 1 .. Len(got) : got[i] = wrote[i].value
    /\ todo = TodoAt(Len(got) + 1)
    /\ idx = StartAt(Len(got) + 1)
    /\ phase = "decoded" => todo = <<>>

LEMMA InitEstablishes == Init => Histories /\ WrittenInv /\ ReadingInv
<1> SUFFICES ASSUME Init PROVE Histories /\ WrittenInv /\ ReadingInv
  OBVIOUS
<1>1. wrote \in Seq({}) /\ got \in Seq({}) /\ out \in Seq(Bytes) /\ Len(wrote) = 0 /\ Len(out) = 0
  BY DEF Init
<1>2. Histories
  BY <1>1 DEF Init, Histories, IsSequence
<1> QED
  BY <1>1, <1>2 DEF Init, WrittenInv, ReadingInv, StartAt

(* One more value that fits extends the writer's side.                     *)
LEMMA WritePreserves ==
  ASSUME Histories, WrittenInv, WriteItem
  PROVE  Histories' /\ WrittenInv'
<1> DEFINE item == Head(todo)
<1>1. PICK i \in DOMAIN Draws[doc][item.name] :
        LET v == Draws[doc][item.name][i]
        IN  /\ out' = IF item.put = "nothing" THEN out ELSE out \o FieldBytes(WireOf(item, v))
            /\ todo' = After(todo, v)
            /\ wrote' = Append(wrote, [todo |-> todo, value |-> v, start |-> Len(out)])
  BY DEF WriteItem
<1> DEFINE v == Draws[doc][item.name][i]
           w == WireOf(item, v)
           r == [todo |-> todo, value |-> v, start |-> Len(out)]
<1>2. /\ wrote' = Append(wrote, r)
      /\ todo' = After(todo, v)
      /\ out' = IF item.put = "nothing" THEN out ELSE out \o FieldBytes(w)
      /\ phase = "writing" /\ phase' = "writing" /\ todo # <<>>
      /\ doc' = doc /\ got' = got /\ idx' = idx
  BY <1>1 DEF WriteItem
<1> HIDE DEF v
<1>3. r.todo = todo /\ r.value = v /\ r.start = Len(out)
  OBVIOUS
<1> HIDE DEF r
<1>n. PICK n : n = Len(wrote)
  OBVIOUS
<1>4. /\ IsSequence(wrote') /\ n \in Nat /\ Len(wrote') = n + 1
      /\ \A k \in 1 .. n : wrote'[k] = wrote[k]
      /\ wrote'[n + 1] = r
      /\ DOMAIN wrote = 1 .. n /\ DOMAIN wrote' = 1 .. n + 1
  <2>1. IsSequence(wrote)
    BY DEF Histories
  <2>2. /\ IsSequence(wrote') /\ n \in Nat /\ Len(wrote') = n + 1
        /\ \A k \in 1 .. n : wrote'[k] = wrote[k]
        /\ wrote'[n + 1] = r /\ DOMAIN wrote = 1 .. n
    BY <1>2, <1>n, <2>1, AppendToAny
  <2>3. DOMAIN wrote' = 1 .. Len(wrote')
    BY <2>2, AppendToAny
  <2> QED
    BY <2>2, <2>3
<1>5. Histories'
  BY <1>2, <1>4 DEF Histories
<1>6. ASSUME Exact'
      PROVE  Exact /\ FitsItem(item, v)
  <2>1. ASSUME NEW k \in 1 .. n PROVE FitsItem(Head(wrote[k].todo), wrote[k].value)
    <3>1. k \in 1 .. n + 1 /\ wrote'[k] = wrote[k]
      BY <1>4
    <3> QED
      BY <1>4, <1>6, <3>1 DEF Exact
  <2>2. FitsItem(Head(wrote'[n + 1].todo), wrote'[n + 1].value)
    <3>1. n + 1 \in DOMAIN wrote'
      BY <1>4
    <3> QED
      BY <1>6, <3>1 DEF Exact
  <2> QED
    BY <1>3, <1>4, <2>1, <2>2 DEF Exact
<1>7. ASSUME Exact'
      PROVE  /\ w \in Seq(Bytes) /\ Len(w) \in Nat
             /\ FieldBytes(w) \in Seq(Bytes) /\ Len(FieldBytes(w)) = HeaderSize + Len(w)
             /\ out' = out \o FieldBytes(w)
             /\ out \in Seq(Bytes)
  <2>1. w \in Seq(Bytes) /\ item.put = "all"
    BY <1>6, <1>7 DEF FitsItem
  <2>2. out' = out \o FieldBytes(w)
    BY <1>2, <2>1
  <2>3. out \in Seq(Bytes)
    BY <1>6, <1>7 DEF WrittenInv
  <2> QED
    BY <2>1, <2>2, <2>3, FieldIsBytes
<1> DEFINE g == FieldBytes(w)
<1> HIDE DEF g, w
<1>8. ASSUME Exact'
      PROVE  /\ out' \in Seq(Bytes)
             /\ Len(out') = Len(out) + HeaderSize + Len(w)
             /\ \A j \in 1 .. Len(out) : out'[j] = out[j]
             /\ \A j \in 1 .. HeaderSize + Len(w) : out'[Len(out) + j] = g[j]
             /\ Len(out) \in Nat
  <2>1. /\ out \in Seq(Bytes) /\ g \in Seq(Bytes) /\ Len(g) = HeaderSize + Len(w)
        /\ out' = out \o g /\ Len(w) \in Nat
    BY <1>7, <1>8 DEF g
  <2>2. /\ Len(out') = Len(out) + Len(g)
        /\ \A j \in 1 .. Len(out) + Len(g) :
             out'[j] = IF j <= Len(out) THEN out[j] ELSE g[j - Len(out)]
        /\ out' \in Seq(Bytes)
    <3>1. /\ Len(out \o g) = Len(out) + Len(g)
          /\ \A j \in 1 .. Len(out) + Len(g) :
               (out \o g)[j] = IF j <= Len(out) THEN out[j] ELSE g[j - Len(out)]
          /\ out \o g \in Seq(Bytes)
      <4>1. out \in Seq(Bytes) /\ g \in Seq(Bytes)
        BY <2>1
      <4> QED
        BY <4>1, ConcatProperties, Zenon
    <3> DEFINE c == out \o g
    <3>2. out' = c
      BY <2>1
    <3> HIDE DEF c
    <3>3. /\ Len(c) = Len(out) + Len(g)
          /\ \A j \in 1 .. Len(out) + Len(g) :
               c[j] = IF j <= Len(out) THEN out[j] ELSE g[j - Len(out)]
          /\ c \in Seq(Bytes)
      BY <3>1, Zenon DEF c
    <3> QED
      BY <3>2, <3>3
  <2>3. Len(out) \in Nat /\ Len(g) \in Nat /\ HeaderSize \in Nat
    BY <2>1 DEF HeaderSize
  <2>4. ASSUME NEW j \in 1 .. Len(out) PROVE out'[j] = out[j]
    <3>1. j \in 1 .. Len(out) + Len(g) /\ j <= Len(out)
      BY <2>3
    <3> QED
      BY <2>2, <3>1
  <2>5. ASSUME NEW j \in 1 .. HeaderSize + Len(w) PROVE out'[Len(out) + j] = g[j]
    <3>1. /\ Len(out) + j \in 1 .. Len(out) + Len(g)
          /\ ~(Len(out) + j <= Len(out)) /\ (Len(out) + j) - Len(out) = j
      BY <2>1, <2>3
    <3> QED
      BY <2>2, <3>1
  <2> QED
    BY <2>1, <2>2, <2>3, <2>4, <2>5
<1>9. ASSUME Exact'
      PROVE  WrittenInv'
  <2>0. HeaderSize \in Nat /\ Len(w) \in Nat
    BY <1>7, <1>9 DEF HeaderSize
  <2>1. ASSUME NEW k \in 1 .. n
        PROVE  /\ WireAt(k)' = WireAt(k)
               /\ wrote'[k] = wrote[k]
               /\ StartAt(k + 1)' = StartAt(k + 1)
               /\ TodoAt(k + 1)' = TodoAt(k + 1)
    <3>1. wrote'[k] = wrote[k]
      BY <1>4
    <3>2. WireAt(k)' = WireAt(k)
      BY <3>1 DEF WireAt
    <3>3. CASE k + 1 <= n
      <4>1. k + 1 \in 1 .. n /\ k + 1 <= n + 1 /\ wrote'[k + 1] = wrote[k + 1]
        BY <1>4, <3>3
      <4> QED
        BY <1>4, <1>n, <3>1, <3>2, <4>1 DEF StartAt, TodoAt
    <3>4. CASE k + 1 = n + 1
      <4>1. ~(k + 1 <= n) /\ k + 1 <= n + 1 /\ wrote'[k + 1] = r
        BY <1>4, <3>4
      <4>2. StartAt(k + 1) = Len(out) /\ TodoAt(k + 1) = todo
        BY <1>2, <1>n, <4>1 DEF StartAt, TodoAt
      <4>3. StartAt(k + 1)' = Len(out) /\ TodoAt(k + 1)' = todo
        BY <1>3, <1>4, <4>1 DEF StartAt, TodoAt
      <4> QED
        BY <3>1, <3>2, <4>2, <4>3
    <3> QED
      BY <1>4, <3>3, <3>4
  <2>2. ASSUME NEW k \in 1 .. n
        PROVE  /\ wrote'[k].todo # <<>>
               /\ TodoAt(k + 1)' = After(wrote'[k].todo, wrote'[k].value)
               /\ wrote'[k].start \in Nat
               /\ StartAt(k + 1)' = wrote'[k].start + HeaderSize + Len(WireAt(k)')
               /\ wrote'[k].start + HeaderSize + Len(WireAt(k)') <= Len(out')
               /\ \A j \in 1 .. HeaderSize + Len(WireAt(k)') :
                    out'[wrote'[k].start + j] = FieldBytes(WireAt(k)')[j]
    <3>1. /\ wrote[k].todo # <<>>
          /\ TodoAt(k + 1) = After(wrote[k].todo, wrote[k].value)
          /\ wrote[k].start \in Nat
          /\ StartAt(k + 1) = wrote[k].start + HeaderSize + Len(WireAt(k))
          /\ wrote[k].start + HeaderSize + Len(WireAt(k)) <= Len(out)
          /\ \A j \in 1 .. HeaderSize + Len(WireAt(k)) :
               out[wrote[k].start + j] = FieldBytes(WireAt(k))[j]
      BY <1>6, <1>9, <1>n DEF WrittenInv
    <3>2. Len(WireAt(k)) \in Nat
      <4>1. FitsItem(Head(wrote[k].todo), wrote[k].value)
        BY <1>4, <1>6, <1>9 DEF Exact
      <4>2. WireAt(k) \in Seq(Bytes)
        BY <4>1, Zenon DEF FitsItem, WireAt
      <4> DEFINE bytes == WireAt(k)
      <4> HIDE DEF bytes
      <4>3. bytes \in Seq(Bytes)
        BY <4>2, Zenon DEF bytes
      <4>4. Len(bytes) \in Nat
        BY ONLY <4>3
      <4> QED
        BY <4>4, Zenon DEF bytes
    <3>3. wrote[k].start + HeaderSize + Len(WireAt(k)) <= Len(out')
      BY <1>8, <1>9, <2>0, <3>1, <3>2
    <3>4. ASSUME NEW j \in 1 .. HeaderSize + Len(WireAt(k))
          PROVE  out'[wrote[k].start + j] = FieldBytes(WireAt(k))[j]
      <4> DEFINE at == wrote[k].start
                 l == Len(WireAt(k))
                 last == Len(out)
      <4>1. at \in Nat /\ l \in Nat /\ at + HeaderSize + l <= last /\ last \in Nat
        BY <1>8, <1>9, <3>1, <3>2
      <4>2. j \in 1 .. HeaderSize + l
        OBVIOUS
      <4> HIDE DEF at, l, last
      <4>3. at + j \in 1 .. last
        BY <2>0, <4>1, <4>2
      <4>4. out'[at + j] = out[at + j]
        BY <1>8, <1>9, <4>3 DEF last
      <4> QED
        BY <3>1, <4>4 DEF at
    <3> QED
      BY <2>1, <3>1, <3>3, <3>4
  <2>3. /\ WireAt(n + 1)' = w /\ wrote'[n + 1].todo # <<>>
        /\ TodoAt(n + 2)' = After(wrote'[n + 1].todo, wrote'[n + 1].value)
        /\ wrote'[n + 1].start = Len(out)
        /\ StartAt(n + 2)' = Len(out')
    <3>1. ~(n + 2 <= Len(wrote'))
      BY <1>4
    <3>2. TodoAt(n + 2)' = todo' /\ StartAt(n + 2)' = Len(out')
      BY <1>2, <3>1 DEF TodoAt, StartAt
    <3>3. /\ wrote'[n + 1].todo = todo /\ wrote'[n + 1].value = v
          /\ wrote'[n + 1].start = Len(out)
      BY <1>3, <1>4
    <3>4. WireAt(n + 1)' = w
      BY <3>3 DEF WireAt, w, item
    <3> QED
      BY <1>2, <3>2, <3>3, <3>4
  <2>4. ASSUME NEW k \in 1 .. n + 1
        PROVE  /\ wrote'[k].todo # <<>>
               /\ TodoAt(k + 1)' = After(wrote'[k].todo, wrote'[k].value)
               /\ wrote'[k].start \in Nat
               /\ StartAt(k + 1)' = wrote'[k].start + HeaderSize + Len(WireAt(k)')
               /\ wrote'[k].start + HeaderSize + Len(WireAt(k)') <= Len(out')
               /\ \A j \in 1 .. HeaderSize + Len(WireAt(k)') :
                    out'[wrote'[k].start + j] = FieldBytes(WireAt(k)')[j]
    <3>1. CASE k \in 1 .. n
      BY <2>2, <3>1
    <3>2. CASE k = n + 1
      <4>1. k + 1 = n + 2
        BY <1>4, <3>2
      <4>2. StartAt(k + 1)' = wrote'[k].start + HeaderSize + Len(w) /\ wrote'[k].start \in Nat
        BY <1>8, <1>9, <2>3, <3>2, <4>1
      <4>3. wrote'[k].start + HeaderSize + Len(w) <= Len(out')
        BY <1>8, <1>9, <2>0, <2>3, <3>2
      <4>4. \A j \in 1 .. HeaderSize + Len(w) : out'[wrote'[k].start + j] = FieldBytes(w)[j]
        BY <1>8, <1>9, <2>3, <3>2 DEF g
      <4>5. WireAt(k)' = w /\ wrote'[k].todo # <<>>
            /\ TodoAt(k + 1)' = After(wrote'[k].todo, wrote'[k].value)
        BY <2>3, <3>2, <4>1
      <4> QED
        BY <4>2, <4>3, <4>4, <4>5
    <3> QED
      BY <1>4, <3>1, <3>2
  <2>5. StartAt(1)' = 0 /\ TodoAt(1)' = Layouts[doc]
    <3>1. StartAt(1) = 0 /\ TodoAt(1) = Layouts[doc]
      BY <1>2, <1>6, <1>9 DEF WrittenInv
    <3>2. CASE n = 0
      <4>1. ~(1 <= Len(wrote)) /\ 1 <= Len(wrote')
        BY <1>4, <1>n, <3>2
      <4> QED
        BY <1>2, <1>3, <1>4, <3>1, <3>2, <4>1 DEF StartAt, TodoAt
    <3>3. CASE n > 0
      <4>1. 1 <= Len(wrote) /\ 1 <= Len(wrote') /\ wrote'[1] = wrote[1]
        BY <1>4, <1>n, <3>3
      <4> QED
        BY <3>1, <4>1 DEF StartAt, TodoAt
    <3> QED
      BY <1>4, <3>2, <3>3
  <2> QED
    BY <1>2, <1>4, <1>8, <1>9, <2>4, <2>5 DEF WrittenInv
<1> QED
  BY <1>5, <1>9 DEF WrittenInv

-----------------------------------------------------------------------------

(* What the reader finds where the writer put a value that fits: all of    *)
(* it, and the items to go on with that the writer went on with.           *)
LEMMA NextItem ==
  ASSUME Histories, WrittenInv, ReadingInv, Exact, phase = "reading", todo # <<>>,
         NEW k, k = Len(got) + 1
  PROVE  /\ k \in 1 .. Len(wrote)
         /\ Suffices(Head(todo))
         /\ idx + HeaderSize + Size(Head(todo)) = StartAt(k + 1)
         /\ Converted(Head(todo), SubSeq(out, idx + HeaderSize + 1,
                                         idx + HeaderSize + Size(Head(todo)))) = wrote[k].value
         /\ After(todo, wrote[k].value) = TodoAt(k + 1)
<1>1. Len(wrote) \in Nat /\ Len(got) \in Nat /\ DOMAIN wrote = 1 .. Len(wrote)
  BY AppendToAny DEF Histories
<1>2. /\ Len(got) <= Len(wrote)
      /\ todo = TodoAt(k) /\ idx = StartAt(k)
  BY DEF ReadingInv
<1>3. k \in 1 .. Len(wrote)
  <2>1. CASE k <= Len(wrote)
    BY <1>1, <2>1
  <2>2. CASE ~(k <= Len(wrote))
    <3>1. todo = <<>>
      BY <1>2, <2>2 DEF TodoAt
    <3> QED
      BY <3>1
  <2> QED
    BY <2>1, <2>2
<1> DEFINE w == WireAt(k)
<1>4. todo = wrote[k].todo /\ idx = wrote[k].start
  BY <1>1, <1>2, <1>3 DEF TodoAt, StartAt
<1>5. FitsItem(Head(wrote[k].todo), wrote[k].value)
  BY <1>1, <1>3 DEF Exact
<1>6. /\ w \in Seq(Bytes) /\ Len(w) \in Lengths
      /\ Clamped(Len(w), BoundsOf(Head(todo))) = Len(w)
      /\ Converted(Head(todo), w) = wrote[k].value
  BY <1>4, <1>5 DEF FitsItem, WireAt
<1>7. /\ TodoAt(k + 1) = After(wrote[k].todo, wrote[k].value)
      /\ idx \in Nat
      /\ StartAt(k + 1) = idx + HeaderSize + Len(w)
      /\ idx + HeaderSize + Len(w) <= Len(out)
      /\ \A j \in 1 .. HeaderSize + Len(w) : out[idx + j] = FieldBytes(w)[j]
      /\ out \in Seq(Bytes)
  BY <1>3, <1>4 DEF WrittenInv
<1> HIDE DEF w
<1>8. /\ LengthAt(out, idx) = Len(w)
      /\ SubSeq(out, idx + HeaderSize + 1, idx + HeaderSize + Len(w)) = w
  BY <1>6, <1>7, FieldReadBack
<1>9. Size(Head(todo)) = Len(w)
  BY <1>6, <1>8 DEF Size
<1>10. Suffices(Head(todo))
  <2>1. Len(w) \in Nat /\ Len(out) \in Nat
    BY <1>6, <1>7
  <2> QED
    BY <1>7, <1>9, <2>1 DEF Suffices, Left, HeaderSize
<1> QED
  BY <1>3, <1>4, <1>6, <1>7, <1>8, <1>9, <1>10

(* A step that leaves the input alone leaves the writer's side alone.      *)
LEMMA WrittenKept ==
  ASSUME Histories, WrittenInv, UNCHANGED <<wrote, out, doc>>,
         phase' # "idle",
         phase = "idle" => phase' = "writing" /\ todo' = Layouts[doc],
         phase = "writing" => \/ phase' = "reading" /\ todo = <<>>
                              \/ phase' = "writing" /\ todo' = todo,
         phase \notin {"idle", "writing"} => phase' # "writing"
  PROVE  /\ WrittenInv'
         /\ Exact' = Exact
         /\ \A k : StartAt(k)' = StartAt(k)
         /\ phase # "idle" => \A k : TodoAt(k)' = TodoAt(k)
<1>1. Exact' = Exact /\ \A k : StartAt(k)' = StartAt(k) /\ WireAt(k)' = WireAt(k)
  BY DEF Exact, StartAt, WireAt
<1>2. ASSUME phase # "idle", NEW k
      PROVE  TodoAt(k)' = TodoAt(k)
  <2>1. CASE k <= Len(wrote)
    BY <2>1 DEF TodoAt
  <2>2. CASE ~(k <= Len(wrote))
    BY <1>2, <2>2 DEF TodoAt
  <2> QED
    BY <2>1, <2>2
<1>3. CASE phase # "idle"
  <2>1. \A k : TodoAt(k)' = TodoAt(k)
    BY <1>2, <1>3
  <2> QED
    BY <1>1, <1>3, <2>1 DEF WrittenInv
<1>4. CASE phase = "idle"
  <2>1. wrote = <<>> /\ out = <<>> /\ wrote' = <<>> /\ out' = <<>>
    BY <1>4 DEF Histories
  <2>2. Len(wrote') = 0 /\ Len(out') = 0 /\ out' \in Seq(Bytes)
    BY <2>1
  <2>3. StartAt(1)' = 0 /\ TodoAt(1)' = Layouts[doc']
    BY <1>4, <2>2 DEF StartAt, TodoAt
  <2> QED
    BY <1>1, <1>4, <2>2, <2>3 DEF WrittenInv
<1> QED
  BY <1>1, <1>2, <1>3, <1>4

(* One more value read keeps the reader where the writer was.              *)
LEMMA ReadPreserves ==
  ASSUME Histories, WrittenInv, ReadingInv, ReadItem
  PROVE  Histories' /\ WrittenInv' /\ ReadingInv'
<1> DEFINE size == Size(Head(todo))
           v == Converted(Head(todo), SubSeq(out, idx + HeaderSize + 1, idx + HeaderSize + size))
<1>1. /\ phase = "reading" /\ phase' = "reading" /\ todo # <<>>
      /\ idx' = idx + HeaderSize + size
      /\ got' = Append(got, v)
      /\ todo' = After(todo, v)
      /\ UNCHANGED <<wrote, out, doc>>
  BY DEF ReadItem
<1> HIDE DEF size, v
<1>p. PICK n : n = Len(got)
  OBVIOUS
<1>2. /\ IsSequence(got') /\ n \in Nat /\ Len(got') = n + 1
      /\ \A k \in 1 .. n : got'[k] = got[k]
      /\ got'[n + 1] = v
  BY <1>1, <1>p, AppendToAny DEF Histories
<1>3. Histories'
  BY <1>1, <1>2 DEF Histories
<1>4. /\ WrittenInv' /\ Exact' = Exact
      /\ \A k : StartAt(k)' = StartAt(k)
      /\ \A k : TodoAt(k)' = TodoAt(k)
  BY <1>1, WrittenKept
<1>5. ASSUME Exact
      PROVE  ReadingInv'
  <2>1. /\ n + 1 \in 1 .. Len(wrote)
        /\ idx + HeaderSize + size = StartAt(n + 2)
        /\ v = wrote[n + 1].value
        /\ After(todo, wrote[n + 1].value) = TodoAt(n + 2)
    <3>1. n + 1 + 1 = n + 2
      BY <1>2
    <3>2. /\ n + 1 \in 1 .. Len(wrote)
          /\ idx + HeaderSize + size = StartAt(n + 1 + 1)
          /\ v = wrote[n + 1].value
          /\ After(todo, wrote[n + 1].value) = TodoAt(n + 1 + 1)
      BY <1>1, <1>p, <1>5, NextItem DEF size, v
    <3> QED
      BY <3>1, <3>2
  <2>2. \A k \in 1 .. n : got[k] = wrote[k].value
    BY <1>1, <1>p, <1>5 DEF ReadingInv
  <2>3. \A k \in 1 .. n + 1 : got'[k] = wrote'[k].value
    <3>1. ASSUME NEW k \in 1 .. n + 1 PROVE got'[k] = wrote'[k].value
      <4>1. CASE k \in 1 .. n
        BY <1>1, <1>2, <2>2, <4>1
      <4>2. CASE k = n + 1
        BY <1>1, <1>2, <2>1, <4>2
      <4> QED
        BY <1>2, <4>1, <4>2
    <3> QED
      BY <3>1
  <2>4. Len(got') + 1 = n + 2 /\ Len(got') <= Len(wrote')
    BY <1>1, <1>2, <2>1
  <2>5. todo' = TodoAt(n + 2)' /\ idx' = StartAt(n + 2)'
    BY <1>1, <1>4, <2>1
  <2> QED
    BY <1>1, <1>2, <2>3, <2>4, <2>5 DEF ReadingInv
<1>6. ASSUME ~Exact
      PROVE  ReadingInv'
  BY <1>4, <1>6 DEF ReadingInv
<1> QED
  BY <1>3, <1>4, <1>5, <1>6

(* The other steps.                                                        *)
LEMMA StepPreserves ==
  ASSUME Histories, WrittenInv, ReadingInv, [Next]_vars
  PROVE  Histories' /\ WrittenInv' /\ ReadingInv'
<1>1. CASE Begin
  <2>1. /\ phase = "idle" /\ phase' = "writing" /\ todo' = Layouts[doc]
        /\ UNCHANGED <<doc, wrote, out, idx, got>>
    BY <1>1 DEF Begin
  <2>2. WrittenInv'
    BY <2>1, WrittenKept
  <2> QED
    BY <2>1, <2>2 DEF Histories, ReadingInv
<1>2. CASE WriteItem
  <2>1. phase' = "writing"
    BY <1>2 DEF WriteItem
  <2> QED
    BY <1>2, <2>1, WritePreserves DEF ReadingInv
<1>3. CASE StartReading
  <2>1. /\ phase = "writing" /\ phase' = "reading" /\ todo = <<>> /\ todo' = Layouts[doc]
        /\ UNCHANGED <<doc, wrote, out, idx, got>>
    BY <1>3 DEF StartReading
  <2>2. /\ WrittenInv' /\ Exact' = Exact
        /\ \A k : StartAt(k)' = StartAt(k)
        /\ \A k : TodoAt(k)' = TodoAt(k)
    <3>1. /\ UNCHANGED <<wrote, out, doc>> /\ phase' # "idle"
          /\ phase = "idle" => phase' = "writing" /\ todo' = Layouts[doc]
          /\ phase = "writing" => \/ phase' = "reading" /\ todo = <<>>
                                  \/ phase' = "writing" /\ todo' = todo
          /\ phase \notin {"idle", "writing"} => phase' # "writing"
      BY <2>1
    <3>2. phase # "idle"
      BY <2>1
    <3> QED
      BY <3>1, <3>2, WrittenKept, Zenon
  <2>3. got' = <<>> /\ idx' = 0 /\ Len(got') = 0
    BY <2>1 DEF Histories
  <2>4. Len(wrote') \in Nat
    BY <2>1, AppendToAny DEF Histories
  <2>5. ASSUME Exact PROVE ReadingInv'
    <3>1. StartAt(1) = 0 /\ TodoAt(1) = Layouts[doc]
      BY <2>1, <2>5 DEF WrittenInv
    <3>2. StartAt(1)' = 0 /\ TodoAt(1)' = todo'
      BY <2>1, <2>2, <3>1
    <3> QED
      BY <2>1, <2>3, <2>4, <3>2 DEF ReadingInv
  <2>6. ASSUME ~Exact PROVE ReadingInv'
    BY <2>2, <2>6 DEF ReadingInv
  <2> QED
    BY <2>1, <2>2, <2>5, <2>6 DEF Histories
<1>4. CASE ReadItem
  BY <1>4, ReadPreserves
<1>5. CASE Drop
  <2>1. /\ phase = "reading" /\ phase' = "dropped" /\ todo # <<>> /\ ~Suffices(Head(todo))
        /\ UNCHANGED <<doc, todo, wrote, out, idx, got>>
    BY <1>5 DEF Drop
  <2>2. WrittenInv' /\ Exact' = Exact
    BY <2>1, WrittenKept
  <2>3. ~Exact
    BY <2>1, NextItem
  <2> QED
    BY <2>1, <2>2, <2>3 DEF Histories, ReadingInv
<1>6. CASE Decode
  <2>1. /\ phase = "reading" /\ phase' = "decoded" /\ todo = <<>>
        /\ UNCHANGED <<doc, todo, wrote, out, idx, got>>
    BY <1>6 DEF Decode
  <2>2. /\ WrittenInv' /\ Exact' = Exact
        /\ \A k : StartAt(k)' = StartAt(k)
        /\ \A k : TodoAt(k)' = TodoAt(k)
    BY <2>1, WrittenKept
  <2>3. ASSUME Exact PROVE ReadingInv'
    <3>1. TodoAt(Len(got) + 1)' = TodoAt(Len(got) + 1) /\ StartAt(Len(got) + 1)' = StartAt(Len(got) + 1)
      BY <2>1, <2>2 DEF TodoAt, StartAt
    <3> QED
      BY <2>1, <2>3, <3>1 DEF ReadingInv
  <2>4. ASSUME ~Exact PROVE ReadingInv'
    BY <2>2, <2>4 DEF ReadingInv
  <2> QED
    BY <2>1, <2>2, <2>3, <2>4 DEF Histories
<1>7. CASE Again
  <2>1. phase' = "idle" /\ wrote' = <<>> /\ got' = <<>> /\ out' = <<>> /\ idx' = 0
    BY <1>7 DEF Again
  <2>2. /\ wrote' \in Seq({}) /\ got' \in Seq({}) /\ out' \in Seq(Bytes)
        /\ Len(wrote') = 0 /\ Len(out') = 0
    BY <2>1
  <2> QED
    BY <2>1, <2>2 DEF Histories, IsSequence, WrittenInv, ReadingInv, StartAt
<1>8. CASE UNCHANGED vars
  <2>1. UNCHANGED <<phase, doc, todo, wrote, out, idx, got>>
    BY <1>8 DEF vars
  <2> QED
    <3>1. Exact' = Exact /\ \A k : StartAt(k)' = StartAt(k) /\ TodoAt(k)' = TodoAt(k) /\ WireAt(k)' = WireAt(k)
      BY <2>1 DEF Exact, StartAt, TodoAt, WireAt
    <3>2. Histories'
      BY <2>1 DEF Histories
    <3>3. WrittenInv'
      BY <2>1, <3>1 DEF WrittenInv
    <3>4. TodoAt(Len(got) + 1)' = TodoAt(Len(got) + 1) /\ StartAt(Len(got) + 1)' = StartAt(Len(got) + 1)
      BY <2>1 DEF TodoAt, StartAt
    <3>5. ReadingInv'
      BY <2>1, <3>1, <3>4 DEF ReadingInv
    <3> QED
      BY <3>2, <3>3, <3>5
<1> QED
  BY <1>1, <1>2, <1>3, <1>4, <1>5, <1>6, <1>7, <1>8 DEF Next

(* A reader that has nothing left to read has read everything.             *)
LEMMA InvariantSuffices ==
  ASSUME Histories, WrittenInv, ReadingInv
  PROVE  RoundTrip
<1> SUFFICES ASSUME Exact
    PROVE  /\ phase # "dropped"
           /\ Len(got) <= Len(wrote)
           /\ \A i \in DOMAIN got : got[i] = wrote[i].value
           /\ phase = "decoded" => Len(got) = Len(wrote) /\ idx = Len(out)
  BY DEF RoundTrip
<1>1. /\ Len(wrote) \in Nat /\ Len(got) \in Nat
      /\ DOMAIN wrote = 1 .. Len(wrote) /\ DOMAIN got = 1 .. Len(got)
  BY AppendToAny DEF Histories
<1>2. CASE phase \in {"idle", "writing"}
  <2>1. got = <<>>
    BY <1>2 DEF Histories
  <2> QED
    BY <1>1, <1>2, <2>1
<1>3. CASE phase \in {"reading", "dropped", "decoded"}
  <2>1. /\ phase # "dropped" /\ Len(got) <= Len(wrote)
        /\ \A i \in 1 .. Len(got) : got[i] = wrote[i].value
        /\ idx = StartAt(Len(got) + 1)
    BY <1>3 DEF ReadingInv
  <2>2. ASSUME phase = "decoded"
        PROVE  Len(got) = Len(wrote) /\ idx = Len(out)
    <3>1. todo = <<>> /\ todo = TodoAt(Len(got) + 1)
      BY <2>2 DEF ReadingInv
    <3>2. ~(Len(got) + 1 <= Len(wrote))
      <4> SUFFICES ASSUME Len(got) + 1 <= Len(wrote) PROVE FALSE
        OBVIOUS
      <4>1. Len(got) + 1 \in 1 .. Len(wrote)
        BY <1>1
      <4>2. wrote[Len(got) + 1].todo # <<>>
        BY <4>1 DEF WrittenInv
      <4> QED
        BY <3>1, <4>2 DEF TodoAt
    <3> QED
      <4>1. idx = Len(out)
        BY <2>1, <3>2 DEF StartAt
      <4>2. Len(got) <= Len(wrote)
        BY <2>1
      <4>3. \A m, n \in Nat : m <= n /\ ~(m + 1 <= n) => m = n
        OBVIOUS
      <4>4. Len(got) = Len(wrote)
        BY <1>1, <3>2, <4>2, <4>3, Zenon
      <4> QED
        BY <4>1, <4>4
  <2> QED
    BY <1>1, <2>1, <2>2
<1> QED
  BY <1>2, <1>3 DEF Histories

(* An operation whose parameters fit their items comes out of the input as *)
(* it went in: the constructors of operations.h take the values Serialize  *)
(* wrote, in turn, all of them and nothing else.                           *)
THEOREM OperationsReadBack == Spec => []RoundTrip
<1>1. Init => Histories /\ WrittenInv /\ ReadingInv
  BY InitEstablishes
<1>2. Histories /\ WrittenInv /\ ReadingInv /\ [Next]_vars
        => Histories' /\ WrittenInv' /\ ReadingInv'
  BY StepPreserves
<1>3. Histories /\ WrittenInv /\ ReadingInv => RoundTrip
  BY InvariantSuffices
<1> QED
  BY <1>1, <1>2, <1>3, PTL DEF Spec

-----------------------------------------------------------------------------

(* Documents whose draws fit.  Only items of a document are written, with  *)
(* values drawn for them: the writer never meets an item the mutator draws *)
(* nothing for, and every value fits its item, however many parameters are *)
(* not the usual ones.                                                     *)
DrawnForItems ==
  /\ doc \in Documents
  /\ phase = "writing" => todo \in Seq(ItemsOf(doc))
  /\ \A i \in DOMAIN wrote :
       /\ Head(wrote[i].todo) \in ItemsOf(doc)
       /\ wrote[i].value \in Drawn(doc, Head(wrote[i].todo))

(* What follows an item are items of its document.                         *)
LEMMA DrawsFollow ==
  ASSUME DocumentsFit, NEW d \in Documents,
         NEW items \in Seq(ItemsOf(d)), items # <<>>, NEW v \in Drawn(d, Head(items))
  PROVE  /\ Head(items) \in ItemsOf(d)
         /\ After(items, v) \in Seq(ItemsOf(d))
<1> DEFINE S == ItemsOf(d)
<1> HIDE DEF S
<1>1. items \in Seq(S)
  BY DEF S
<1>2. Head(items) \in S /\ Tail(items) \in Seq(S)
  BY <1>1
<1>3. Brings(Head(items), v) \in Seq(S)
  BY <1>2 DEF DocumentsFit, S
<1>4. Brings(Head(items), v) \o Tail(items) \in Seq(S)
  BY ONLY <1>2, <1>3, ConcatProperties, Zenon
<1> QED
  BY <1>2, <1>4, Zenon DEF After, S

LEMMA DrawnStepPreserves ==
  ASSUME DocumentsFit, Histories, DrawnForItems, [Next]_vars
  PROVE  DrawnForItems'
<1>1. CASE Begin
  <2>1. phase' = "writing" /\ todo' = Layouts[doc] /\ doc' = doc /\ wrote' = wrote
    BY <1>1 DEF Begin
  <2>2. Layouts[doc] \in Seq(ItemsOf(doc))
    BY DEF DocumentsFit, DrawnForItems
  <2> QED
    BY <2>1, <2>2 DEF DrawnForItems
<1>2. CASE WriteItem
  <2> DEFINE item == Head(todo)
  <2>1. PICK i \in DOMAIN Draws[doc][item.name] :
          LET v == Draws[doc][item.name][i]
          IN  /\ todo' = After(todo, v)
              /\ wrote' = Append(wrote, [todo |-> todo, value |-> v, start |-> Len(out)])
    BY <1>2 DEF WriteItem
  <2> DEFINE v == Draws[doc][item.name][i]
             r == [todo |-> todo, value |-> v, start |-> Len(out)]
  <2>2. /\ wrote' = Append(wrote, r) /\ todo' = After(todo, v)
        /\ v \in Drawn(doc, item)
        /\ phase = "writing" /\ todo # <<>> /\ doc' = doc
    BY <1>2, <2>1 DEF WriteItem, Drawn
  <2>3. r.todo = todo /\ r.value = v
    OBVIOUS
  <2> HIDE DEF v, r
  <2>4. todo \in Seq(ItemsOf(doc)) /\ doc \in Documents
    BY <2>2 DEF DrawnForItems
  <2>5. item \in ItemsOf(doc) /\ After(todo, v) \in Seq(ItemsOf(doc))
    BY <2>2, <2>4, DrawsFollow
  <2>6. /\ IsSequence(wrote') /\ DOMAIN wrote = 1 .. Len(wrote) /\ Len(wrote) \in Nat
        /\ Len(wrote') = Len(wrote) + 1
        /\ \A k \in 1 .. Len(wrote) : wrote'[k] = wrote[k]
        /\ wrote'[Len(wrote) + 1] = r
    BY <2>2, AppendToAny DEF Histories
  <2>7. DOMAIN wrote' = 1 .. Len(wrote')
    BY <2>6, AppendToAny
  <2>8. ASSUME NEW k \in DOMAIN wrote'
        PROVE  /\ Head(wrote'[k].todo) \in ItemsOf(doc)
               /\ wrote'[k].value \in Drawn(doc, Head(wrote'[k].todo))
    <3>1. CASE k \in 1 .. Len(wrote)
      BY <2>6, <3>1 DEF DrawnForItems
    <3>2. CASE k = Len(wrote) + 1
      BY <2>2, <2>3, <2>5, <2>6, <3>2
    <3> QED
      BY <2>6, <2>7, <3>1, <3>2
  <2> QED
    BY <2>2, <2>4, <2>5, <2>8 DEF DrawnForItems
<1>3. CASE StartReading \/ ReadItem \/ Drop \/ Decode
  <2>1. phase' # "writing" /\ doc' = doc /\ wrote' = wrote
    BY <1>3 DEF StartReading, ReadItem, Drop, Decode
  <2> QED
    BY <2>1 DEF DrawnForItems
<1>4. CASE Again
  <2>1. phase' = "idle" /\ doc' \in Documents /\ wrote' = <<>>
    BY <1>4 DEF Again
  <2> QED
    BY <2>1 DEF DrawnForItems
<1>5. CASE UNCHANGED vars
  BY <1>5 DEF vars, DrawnForItems
<1> QED
  BY <1>1, <1>2, <1>3, <1>4, <1>5 DEF Next

(* Then the values of a document whose writer and reader agree fit.        *)
LEMMA DrawnFits ==
  ASSUME DocumentsFit, DrawnForItems, doc \notin Unfaithful
  PROVE  Exact
<1> SUFFICES ASSUME NEW i \in DOMAIN wrote
             PROVE  FitsItem(Head(wrote[i].todo), wrote[i].value)
  BY DEF Exact
<1> QED
  BY DEF DrawnForItems, DocumentsFit

DocumentInv == Histories /\ WrittenInv /\ ReadingInv /\ DrawnForItems

LEMMA DocumentInductive ==
  ASSUME DocumentsFit
  PROVE  /\ Init => DocumentInv
         /\ DocumentInv /\ [Next]_vars => DocumentInv'
<1>1. Init => DrawnForItems
  BY DEF Init, DrawnForItems
<1> QED
  BY <1>1, InitEstablishes, StepPreserves, DrawnStepPreserves DEF DocumentInv

(* If its draws fit its items, an operation's constructor finds every      *)
(* parameter it asks for in the JSON the mutator made, whatever optional   *)
(* and counted items the other parameters bring along (mutator.cpp).       *)
THEOREM ParametersDrawn == ASSUME DocumentsFit PROVE Spec => []ParametersComplete
<1>1. Init => DocumentInv
  BY DocumentInductive
<1>2. DocumentInv /\ [Next]_vars => DocumentInv'
  BY DocumentInductive
<1>3. DocumentInv => ParametersComplete
  <2> SUFFICES ASSUME DocumentInv, phase = "writing", todo # <<>>
               PROVE  Head(todo).name \in DOMAIN Draws[doc]
    BY DEF ParametersComplete
  <2>1. doc \in Documents /\ todo \in Seq(ItemsOf(doc))
    BY DEF DocumentInv, DrawnForItems
  <2>2. Head(todo) \in ItemsOf(doc)
    BY <2>1
  <2> QED
    BY <2>1, <2>2 DEF DocumentsFit
<1> QED
  BY <1>1, <1>2, <1>3, PTL DEF Spec

(* Then the only generated inputs the driver drops are those of operations *)
(* whose Serialize does not write what their constructor reads.            *)
THEOREM FaithfulDecode == ASSUME DocumentsFit PROVE Spec => []FaithfulInputsDecode
<1>1. Init => DocumentInv
  BY DocumentInductive
<1>2. DocumentInv /\ [Next]_vars => DocumentInv'
  BY DocumentInductive
<1>3. DocumentInv => FaithfulInputsDecode
  BY DrawnFits, InvariantSuffices DEF DocumentInv, RoundTrip, FaithfulInputsDecode
<1> QED
  BY <1>1, <1>2, <1>3, PTL DEF Spec

(* And every other operation that runs does so with the parameters drawn   *)
(* for it: all of them, in their order, each as it was drawn.              *)
THEOREM MeantAsDrawn ==
  ASSUME DocumentsFit
  PROVE  Spec => [](doc \notin Unfaithful => MeantOrDropped)
<1>1. Init => DocumentInv
  BY DocumentInductive
<1>2. DocumentInv /\ [Next]_vars => DocumentInv'
  BY DocumentInductive
<1>3. DocumentInv => (doc \notin Unfaithful => MeantOrDropped)
  <2> SUFFICES ASSUME DocumentInv, doc \notin Unfaithful, phase = "decoded"
               PROVE  got = Values
    BY DEF MeantOrDropped
  <2>1. /\ Len(got) = Len(wrote)
        /\ \A i \in DOMAIN got : got[i] = wrote[i].value
    BY DrawnFits, InvariantSuffices DEF DocumentInv, RoundTrip
  <2>2. IsSequence(got) /\ IsSequence(wrote)
    BY DEF DocumentInv, Histories
  <2>3. DOMAIN got = 1 .. Len(got) /\ DOMAIN wrote = 1 .. Len(wrote)
    BY <2>2, AppendToAny
  <2>4. got = [i \in DOMAIN got |-> got[i]]
    BY <2>2 DEF IsSequence
  <2> QED
    BY <2>1, <2>3, <2>4 DEF Values
<1> QED
  BY <1>1, <1>2, <1>3, PTL DEF Spec

=============================================================================
