--------------------------- MODULE HandlerCourses ----------------------------
(***************************************************************************)
(* What a handler does to one object: what the object points to after      *)
(* each step, by all ways through the handler, and what has to be so when  *)
(* a step is taken.  Whether the memory of a handler is sound is a         *)
(* question to each of its objects alone.                                  *)
(***************************************************************************)
EXTENDS HandlerSteps, FiniteSets

(* What an object points to has owners, which are going to free it, and    *)
(* views, which rely on it: those are not freed at the end.                *)
NoBlock == [there |-> FALSE, owners |-> {}, frees |-> 0]
Held(o) == [there |-> TRUE, owners |-> {o}, frees |-> 0]
IsAlive(b) == b.there /\ b.frees = 0

Mentioned(h) ==
  UNION {s.into \cup {s.args[k].of : k \in DOMAIN s.args} : s \in {h.steps[i] : i \in DOMAIN h.steps}}

(* What GetPtr may replace: the object's pointer and, as a copy of a point *)
(* is made in its group, the group's.                                      *)
MayReplace(a) ==
  IF ~a.copied \/ a.of.kind = "BN_CTX" THEN {}
  ELSE {a.of} \cup (IF a.of.kind = "EC_POINT_Copier" THEN {Group} ELSE {})

(* An object that still owns what it points to frees it.                   *)
FreedBy(b, owners) ==
  [b EXCEPT !.owners = @ \ owners, !.frees = @ + Cardinality(b.owners \cap owners)]

FreedAtEnd(h) == {o \in Mentioned(h) : o.kind \in Wrappers} \cup h.atEnd

OwnedToo(b, owners) == [b EXCEPT !.owners = @ \cup owners]

(* What o points to behind step s, and the objects s locks.                *)
After(s, o, b) ==
  CASE s.what \in {"check", "call"} -> IF o \in s.into THEN Held(o) ELSE b
    [] s.what \in {"set0", "keep"} ->
         IF o \in {s.args[k].of : k \in 2 .. Len(s.args)} THEN OwnedToo(b, {s.args[1].of}) ELSE b
    [] s.what = "borrow" -> IF o = s.args[1].of THEN OwnedToo(b, s.into) ELSE b
    [] s.what = "ReleaseOwnership" -> IF o \in s.into THEN [b EXCEPT !.owners = @ \ {o}] ELSE b
    [] s.what = "free" -> FreedBy(b, s.into)
    [] OTHER -> b

LocksOf(s) == IF s.what \in {"Lock", "ReleaseOwnership"} THEN s.into ELSE {}

Leaves(s) == s.what \in {"check", "set0"}   \* goto end

-----------------------------------------------------------------------------
Past(h, n) == n \notin DOMAIN h.steps

(* A place in the course of an object: the step the handler is at, what    *)
(* the object points to there, and whether it is locked.                   *)
AtPlace(n, b, isFixed) == [at |-> n, block |-> b, isFixed |-> isFixed]

Onward(h, o, p) ==
  IF Past(h, p.at) THEN {}
  ELSE LET s == h.steps[p.at]
       IN  {AtPlace(p.at, Held(o), FALSE) :
              k \in {k \in DOMAIN s.args : ~p.isFixed /\ o \in MayReplace(s.args[k])}}
           \cup {AtPlace(p.at + d, After(s, o, p.block), p.isFixed \/ o \in LocksOf(s)) : d \in s.leads}

WellFreed(b) == b.frees <= 1 /\ (b.there => b.frees = 1)

(* A call that is given o gets something alive; what a copy replaces has   *)
(* no owner but o, and no other argument points to it; what is freed by    *)
(* hand is not overwritten before it is; and at `end:' all is freed once.  *)
GoodPlace(h, o, p) ==
  /\ p.block.frees <= 1
  /\ Past(h, p.at) => WellFreed(FreedBy(p.block, FreedAtEnd(h)))
  /\ ~Past(h, p.at) =>
       LET s == h.steps[p.at]
       IN  /\ \A k \in DOMAIN s.args :
                /\ s.args[k].of = o => IsAlive(p.block)
                /\ ~p.isFixed /\ o \in MayReplace(s.args[k]) =>
                     p.block.owners \subseteq {o} /\ \A j \in DOMAIN s.args \ {k} : s.args[j].of # o
           /\ s.what \in {"check", "call"} /\ o \in s.into /\ o.kind = "pointer" => ~IsAlive(p.block)
           /\ Leaves(s) => WellFreed(FreedBy(p.block, FreedAtEnd(h)))

(* The places that are reached in n moves and those reached before them.   *)
Course(h, o) ==
  LET objects == Mentioned(h)
      Places == [at : Nat, block : [there : BOOLEAN, owners : SUBSET objects, frees : Nat], isFixed : BOOLEAN]
      reached[n \in Nat, all \in SUBSET Places, new \in SUBSET Places] ==
        IF n = 0 \/ new = {} THEN all
        ELSE reached[n - 1, all \cup new, UNION {Onward(h, o, p) : p \in new} \ (all \cup new)]
  IN  reached[4 * Len(h.steps), {}, {AtPlace(1, NoBlock, FALSE)}]

Disciplined(h) ==
  /\ \A i \in DOMAIN h.steps : \A k \in DOMAIN h.steps[i].args :
       MayReplace(h.steps[i].args[k]) \subseteq Mentioned(h)
  /\ \A o \in Mentioned(h) :
       LET course == Course(h, o)
       IN  /\ AtPlace(1, NoBlock, FALSE) \in course
           /\ \A p \in course : Onward(h, o, p) \subseteq course /\ GoodPlace(h, o, p)
=============================================================================
