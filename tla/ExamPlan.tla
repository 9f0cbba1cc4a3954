------------------------------ MODULE ExamPlan ------------------------------
(***************************************************************************)
(* What the exam routes promise of one exam (app/routers/exams.py): it is *)
(* planned and re-planned until it starts, then runs, then is over        *)
(* ("严格单向流转"), and once it has started nothing but its status         *)
(* changes ("已开始的考试只能改状态").                                        *)
(***************************************************************************)
EXTENDS Integers

CONSTANTS Time, Minute

VARIABLES status, start, end, duration

vars == <<status, start, end, duration>>

Planned(a, b) == a < b /\ duration' = (b - a) \div Minute /\ start' = a /\ end' = b

Init ==
  /\ status = "not_started"
  /\ start \in Time /\ end \in Time /\ start < end
  /\ duration = (end - start) \div Minute

Replan ==
  /\ status = "not_started"
  /\ \E a, b \in Time : Planned(a, b)
  /\ status' \in {"not_started", "ongoing"}

Begin ==
  /\ status = "not_started" /\ status' = "ongoing"
  /\ UNCHANGED <<start, end, duration>>

Close ==
  /\ status = "ongoing" /\ status' = "ended"
  /\ UNCHANGED <<start, end, duration>>

Next == Replan \/ Begin \/ Close

Spec == Init /\ [][Next]_vars
=============================================================================
