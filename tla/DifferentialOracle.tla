------------------------- MODULE DifferentialOracle -------------------------
(***************************************************************************)
(* What differential testing promises, without saying how.  A panel of     *)
(* modules is asked one question.  Either the question is declined before  *)
(* anyone was asked, or every member is asked and the verdict follows from *)
(* the set of their answers alone: not from their order, their number, or  *)
(* which members declined to answer.  Only a member known as a quitter can *)
(* leave a question without a verdict.                                     *)
(***************************************************************************)
EXTENDS Integers

CONSTANTS
  Members,    \* those who can sit on a panel
  Quitters,   \* those who may break a question off
  Answers     \* what they can answer

VARIABLES
  panel,        \* the modules of this fuzzer
  comparable,   \* the question has one right answer and it is looked at
  asked,        \* the members asked so far
  answers,      \* what they answered
  verdict

oracleVars == <<panel, comparable, asked, answers, verdict>>

Verdicts == {"idle", "running", "declined", "agreement", "inconclusive",
             "difference", "fault", "abandoned"}

(* A difference or a fault is reported by ending the process.              *)
Final == {"difference", "fault"}

OracleTypeOK ==
  /\ panel \subseteq Members
  /\ comparable \in BOOLEAN
  /\ asked \subseteq Members
  /\ answers \subseteq Answers
  /\ verdict \in Verdicts

Init ==
  /\ panel \subseteq Members
  /\ comparable \in BOOLEAN
  /\ asked = {}
  /\ answers = {}
  /\ verdict = "idle"

Pose ==
  /\ verdict \notin Final \cup {"running"}
  /\ verdict' = "running"
  /\ comparable' \in BOOLEAN
  /\ asked' = {}
  /\ answers' = {}
  /\ UNCHANGED panel

Decline ==
  /\ verdict = "running"
  /\ asked = {}
  /\ verdict' = "declined"
  /\ UNCHANGED <<panel, comparable, asked, answers>>

(* A member answers, or declines to; its answer may be wrong on its face.  *)
Ask ==
  /\ verdict = "running"
  /\ verdict' \in {"running", "fault"}
  /\ \E m \in panel : asked' = asked \cup {m}
  /\ \/ answers' = answers
     \/ \E a \in Answers : answers' = answers \cup {a}
  /\ UNCHANGED <<panel, comparable>>

(* A member breaks the question off, before or after its own answer.       *)
Abandon ==
  /\ verdict = "running"
  /\ verdict' = "abandoned"
  /\ \E m \in panel \cap Quitters :
       \/ UNCHANGED <<asked, answers>>
       \/ /\ asked' = asked \cup {m}
          /\ \E a \in Answers : answers' = answers \cup {a}
  /\ UNCHANGED <<panel, comparable>>

Unanimous == \A a, b \in answers : a = b

Judgement ==
  IF ~comparable THEN "inconclusive"
  ELSE IF Unanimous THEN "agreement" ELSE "difference"

Judge ==
  /\ verdict = "running"
  /\ asked = panel
  /\ verdict' = Judgement
  /\ UNCHANGED <<panel, comparable, asked, answers>>

Next == Pose \/ Decline \/ Ask \/ Abandon \/ Judge

Spec == Init /\ [][Next]_oracleVars

=============================================================================
