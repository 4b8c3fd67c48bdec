--------------------------- MODULE HandlerMemory -----------------------------
(***************************************************************************)
(* What becomes of the memory of a handler.  Its calls succeed or send it  *)
(* to `end:', C++ leaves open in which order the arguments of a call are   *)
(* evaluated, and an object that is asked for its pointer may replace what *)
(* it points to by a copy.                                                 *)
(***************************************************************************)
EXTENDS HandlerCourses

CONSTANT Handlers   \* by name

(* Each object of each handler is treated right, by itself.                *)
ASSUME HandlersAssumption == \A h \in DOMAIN Handlers : Disciplined(Handlers[h])

VARIABLES
  handler,
  step,      \* of the handler
  pointers,  \* the arguments evaluated so far
  blocks,    \* what each object points to: who will free it, and how often it was freed
  fixed,     \* objects that are locked
  stale,     \* owners of something that its object freed
  ended

handlerVars == <<handler, step, pointers, blocks, fixed, stale, ended>>

-----------------------------------------------------------------------------
Alive(o) == IsAlive(blocks[o])

Objects == [h \in DOMAIN Handlers |-> Mentioned(Handlers[h])]

FaultAtEnd ==   \* fault: what is allocated by hand is forgotten behind `end:'
  [h \in DOMAIN Handlers |-> FreedAtEnd(Handlers[h]) \ Handlers[h].atEnd]
AtEnd == [h \in DOMAIN Handlers |-> FreedAtEnd(Handlers[h])]

Steps == Handlers[handler].steps
Over == Past(Handlers[handler], step)
Now == Steps[step]

NotRead(h, n) ==
  IF Past(Handlers[h], n) THEN <<>>
  ELSE [k \in DOMAIN Handlers[h].steps[n].args |-> "unevaluated"]

HandlersInit ==
  /\ handler \in DOMAIN Handlers
  /\ step = 1 /\ pointers = NotRead(handler, 1)
  /\ blocks = [o \in Objects[handler] |-> NoBlock]
  /\ fixed = {} /\ stale = {} /\ ended = FALSE

Copies(a) == MayReplace(a) \ fixed

Evaluate(k) ==
  /\ ~ended /\ k \in DOMAIN pointers /\ pointers[k] = "unevaluated"
  /\ \E replaced \in SUBSET Copies(Now.args[k]) :
       /\ pointers' = [j \in DOMAIN pointers |->
                         CASE j = k -> IF Alive(Now.args[k].of) THEN "alive" ELSE "dead"
                           [] j # k /\ pointers[j] = "alive" /\ Now.args[j].of \in replaced -> "dead"
                           [] OTHER -> pointers[j]]
       /\ stale' = stale \cup UNION {blocks[o].owners \ {o} : o \in replaced}
       /\ blocks' = [o \in DOMAIN blocks |-> IF o \in replaced THEN Held(o) ELSE blocks[o]]
  /\ UNCHANGED <<handler, step, fixed, ended>>

Ready == ~ended /\ ~Over /\ \A k \in DOMAIN pointers : pointers[k] # "unevaluated"

Leave ==
  /\ ended' = TRUE
  /\ blocks' = [o \in DOMAIN blocks |-> FreedBy(blocks[o], AtEnd[handler])]
  /\ UNCHANGED <<handler, step, pointers, fixed, stale>>

End ==
  \/ ~ended /\ Over /\ Leave
  \/ Ready /\ Leaves(Now) /\ Leave

Goes(d) == step' = step + d /\ pointers' = NotRead(handler, step + d)

Succeed ==
  /\ Ready /\ \E d \in Now.leads : Goes(d)
  /\ blocks' = [o \in DOMAIN blocks |-> After(Now, o, blocks[o])]
  /\ fixed' = fixed \cup LocksOf(Now)
  /\ UNCHANGED <<handler, stale, ended>>

HandlersNext == (\E k \in 1 .. 5 : Evaluate(k)) \/ Succeed \/ End

HandlersSpec == HandlersInit /\ [][HandlersNext]_handlerVars

-----------------------------------------------------------------------------
(* No call is given a pointer to what is not there: what was freed, or was *)
(* replaced while another argument of the call was evaluated.              *)
ArgumentsAlive == \A k \in DOMAIN pointers : pointers[k] # "dead"

(* Whichever call sends a handler to `end:', all it allocated is freed     *)
(* once: numbers that a key, a signature or parameters took over by these, *)
(* and no one is left with something that was replaced by a copy.  Nothing *)
(* that is freed by hand is overwritten before it is.                      *)
FreedOnce ==
  /\ stale = {}
  /\ \A o \in DOMAIN blocks :
       /\ blocks[o].frees <= 1
       /\ ended /\ blocks[o].there => blocks[o].frees = 1
       /\ Ready /\ Now.what \in {"check", "call"} /\ o \in Now.into /\ o.kind = "pointer"
            => ~Alive(o)
=============================================================================
