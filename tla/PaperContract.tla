---------------------------- MODULE PaperContract ---------------------------
(***************************************************************************)
(* What the handlers of app/routers/auth.py, code.py and admin.py promise *)
(* about an exam paper when no two calls overlap, with no request, lock,  *)
(* socket or restart in sight.  A student enters once with the login      *)
(* code, writes and hands in only while the exam runs, and a paper the    *)
(* student has handed in is closed.  An administrator may take in a paper *)
(* at any time, and that closes it for good.                              *)
(***************************************************************************)
EXTENDS Naturals

CONSTANT Student

VARIABLES hall,     \* the exam: "not_started", "ongoing", "ended"
          phase,    \* each student's paper
          text,     \* the writes it has taken
          entered   \* the students who have used their login code

vars == <<hall, phase, text, entered>>

Init ==
  /\ hall = "not_started"
  /\ phase = [s \in Student |-> "blank"]
  /\ text = [s \in Student |-> 0]
  /\ entered = {}

Enter(s) ==
  /\ hall = "ongoing"
  /\ s \notin entered
  /\ phase[s] = "blank"
  /\ phase' = [phase EXCEPT ![s] = "writing"]
  /\ entered' = entered \cup {s}
  /\ UNCHANGED <<hall, text>>

Write(s) ==
  /\ hall = "ongoing"
  /\ phase[s] = "writing"
  /\ text' = [text EXCEPT ![s] = @ + 1]
  /\ UNCHANGED <<hall, phase, entered>>

HandIn(s) ==
  /\ hall = "ongoing"
  /\ phase[s] = "writing"
  /\ phase' = [phase EXCEPT ![s] = "handed"]
  /\ UNCHANGED <<hall, text, entered>>

TakeIn(s) ==
  /\ phase[s] # "removed"
  /\ phase' = [phase EXCEPT ![s] = "forced"]
  /\ UNCHANGED <<hall, text, entered>>

Remove(s) ==
  /\ phase[s] # "removed"
  /\ phase' = [phase EXCEPT ![s] = "removed"]
  /\ text' = [text EXCEPT ![s] = 0]
  /\ UNCHANGED <<hall, entered>>

Advance ==
  /\ \/ hall = "not_started" /\ hall' = "ongoing"
     \/ hall = "ongoing" /\ hall' = "ended"
  /\ UNCHANGED <<phase, text, entered>>

Next ==
  \/ \E s \in Student : Enter(s) \/ Write(s) \/ HandIn(s) \/ TakeIn(s) \/ Remove(s)
  \/ Advance

Spec == Init /\ [][Next]_vars
=============================================================================
