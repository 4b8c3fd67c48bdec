------------------------------- MODULE Codec -------------------------------
(***************************************************************************)
(* The life of one generated input: the mutator draws parameters, the      *)
(* operation's constructor takes them out of the JSON and Serialize writes *)
(* them; later the constructor taking a Datasource reads them again, item  *)
(* by item.  Nothing in an input says which items it holds: reader and     *)
(* writer have to agree, also on the items that only follow some values of *)
(* others.                                                                 *)
(***************************************************************************)
EXTENDS Items

CONSTANT MaxVaried   \* bound: parameters of a document that are not the usual

VARIABLES
  phase,   \* "idle", "writing", "reading", "dropped" or "decoded"
  doc,     \* the document being written or read
  todo,    \* the items still to write or to read
  wrote,   \* history: the values drawn, with the items then still to write
           \* and where in out they start
  varied,  \* how many of them are not the usual
  out,     \* the bytes written
  idx,     \* how many of them have been read
  got      \* the values read

vars == <<phase, doc, todo, wrote, varied, out, idx, got>>

-----------------------------------------------------------------------------

Init ==
  /\ phase = "idle" /\ doc \in Documents
  /\ todo = <<>> /\ wrote = <<>> /\ varied = 0
  /\ out = <<>> /\ idx = 0 /\ got = <<>>

(* The mutator's switch, and the constructor taking its JSON.              *)
Begin ==
  /\ phase = "idle"
  /\ phase' = "writing"
  /\ todo' = Layouts[doc]
  /\ UNCHANGED <<doc, wrote, varied, out, idx, got>>

(* One item goes from the JSON into the operation and from there into the  *)
(* input.  Without a parameter of its name the library throws and nobody   *)
(* catches: the action is not enabled then.                                *)
WriteItem ==
  /\ phase = "writing"
  /\ todo # <<>>
  /\ LET item == Head(todo)
     IN  /\ item.name \in DOMAIN Draws[doc]
         /\ \E i \in DOMAIN Draws[doc][item.name] :
              LET v == Draws[doc][item.name][i]
              IN  /\ out' = IF item.put = "nothing" THEN out
                            ELSE out \o FieldBytes(WireOf(item, v))
                  /\ todo' = After(todo, v)
                  /\ wrote' = Append(wrote,
                       [todo |-> todo, value |-> v, start |-> Len(out)])
                  /\ varied' = IF i = 1 THEN varied ELSE varied + 1
  /\ varied' <= MaxVaried
  /\ UNCHANGED <<phase, doc, idx, got>>

(* The input reaches the constructor taking a Datasource.                  *)
StartReading ==
  /\ phase = "writing"
  /\ todo = <<>>
  /\ phase' = "reading"
  /\ todo' = Layouts[doc]
  /\ UNCHANGED <<doc, wrote, varied, out, idx, got>>

(* Datasource::get for one item; what is left may not suffice.             *)
Left == Len(out) - idx

Size(item) == Clamped(LengthAt(out, idx), BoundsOf(item))

FaultSuffices(item) == Left >= HeaderSize /\ Left - HeaderSize > Size(item)   \* fault: one more byte

Suffices(item) == Left >= HeaderSize /\ Left - HeaderSize >= Size(item)

ReadItem ==
  /\ phase = "reading"
  /\ todo # <<>>
  /\ LET item == Head(todo)
         size == Size(item)
         v == Converted(item, SubSeq(out, idx + HeaderSize + 1, idx + HeaderSize + size))
     IN  /\ Suffices(item)
         /\ idx' = idx + HeaderSize + size
         /\ got' = Append(got, v)
         /\ todo' = After(todo, v)
  /\ UNCHANGED <<phase, doc, wrote, varied, out>>

(* OutOfData leaves the constructor; the driver drops the input.           *)
Drop ==
  /\ phase = "reading"
  /\ todo # <<>>
  /\ ~Suffices(Head(todo))
  /\ phase' = "dropped"
  /\ UNCHANGED <<doc, todo, wrote, varied, out, idx, got>>

Decode ==
  /\ phase = "reading"
  /\ todo = <<>>
  /\ phase' = "decoded"
  /\ UNCHANGED <<doc, todo, wrote, varied, out, idx, got>>

(* The next round of the fuzzer.                                           *)
Again ==
  /\ phase \in {"decoded", "dropped"}
  /\ phase' = "idle" /\ doc' \in Documents
  /\ todo' = <<>> /\ wrote' = <<>> /\ varied' = 0
  /\ out' = <<>> /\ idx' = 0 /\ got' = <<>>

Next ==
  \/ Begin
  \/ WriteItem
  \/ StartReading
  \/ ReadItem
  \/ Drop
  \/ Decode
  \/ Again

Spec == Init /\ [][Next]_vars

-----------------------------------------------------------------------------
(***************************************************************************)
(* Properties.                                                             *)
(***************************************************************************)

Values == [i \in DOMAIN wrote |-> wrote[i].value]

(* Every variable holds what its C++ counterpart can hold: what is written *)
(* and read are bytes, and the reader stays within what was written.       *)
TypeOK ==
  /\ phase \in {"idle", "writing", "reading", "dropped", "decoded"}
  /\ doc \in Documents
  /\ varied \in 0 .. MaxVaried
  /\ out \in Seq(Bytes)
  /\ idx \in 0 .. Len(out)
  /\ \A i \in DOMAIN wrote : wrote[i].value \in Seq(Bytes)
  /\ \A i \in DOMAIN got : got[i] \in Seq(Bytes)

Exact == \A i \in DOMAIN wrote : FitsItem(Head(wrote[i].todo), wrote[i].value)

(* When every value fits its item, the reader takes the same path through  *)
(* the optional and the counted items as the writer did, and gets each     *)
(* value in turn, never runs out of data and leaves nothing unread         *)
(* (Serialize and the constructors of operations.h and components.cpp).    *)
RoundTrip ==
  Exact =>
    /\ phase # "dropped"
    /\ Len(got) <= Len(wrote)
    /\ \A i \in DOMAIN got : got[i] = wrote[i].value
    /\ phase = "decoded" => Len(got) = Len(wrote) /\ idx = Len(out)

(* An operation runs with the parameters the mutator drew for it or not at *)
(* all: moduli, widths and optional items never turn them into others      *)
(* (mutator.cpp against operations.h).                                     *)
MeantOrDropped == phase = "decoded" => got = Values

(* The only generated inputs that are dropped are those of operations      *)
(* whose Serialize does not write what their constructor reads: UMAC, the  *)
(* SRTP derivations and DSA_PrivateToPublic (operations.h).                *)
FaithfulInputsDecode == phase = "dropped" => doc \in Unfaithful

(* The mutator sets every parameter the constructor it calls asks for,     *)
(* whatever optional items the other parameters bring along.               *)
ParametersComplete ==
  phase = "writing" /\ todo # <<>> => Head(todo).name \in DOMAIN Draws[doc]

=============================================================================
