------------------------------- MODULE Roster ------------------------------
(***************************************************************************)
(* The students of the exams: import_students and delete_student of       *)
(* app/routers/admin.py, and the deletion of an exam they check for.      *)
(*                                                                         *)
(* An import reads the exam, then the student numbers already there, then *)
(* draws a login code for one student after another, looking each up      *)
(* until it finds one that is free, and commits the whole list at once.   *)
(* Each look-up flushes the rows added so far, so it sees them and what   *)
(* is committed, but not the rows of an import that has not committed.    *)
(* Of two imports that drew one code the unique index on login_code fails *)
(* the second: at once when its row is flushed already (the INSERT waits  *)
(* for the other import's end), or else when it is.  Nothing in the       *)
(* database makes a student number unique in an exam.                      *)
(***************************************************************************)
EXTENDS Naturals, FiniteSets

CONSTANTS Exam,
          Number,       \* student numbers
          Code,         \* login codes
          Req,          \* slots for imports in flight
          MaxImports    \* bound: imports started

VARIABLES deleted,   \* exams that are deleted
          rows,      \* the rows of the students
          lastId,    \* the sequence of students.id
          req,       \* the imports in flight
          imports,   \* imports started (the bound's counter)
          crossed    \* history: exams that had two imports in flight at once

vars == <<deleted, rows, lastId, req, imports, crossed>>

Student(id, exam, number, code) == [id |-> id, exam |-> exam, number |-> number, code |-> code]

Idle == [pc |-> "idle"]
\* left: the numbers that have no code yet; new: the rows added to the session;
\* lone (history): no other import was in flight with it
Import(exam, list, lone) ==
  [pc |-> "checking", exam |-> exam, left |-> list, new |-> {}, lone |-> lone]

CodesIn(students) == {s.code : s \in students}
NumbersIn(exam) == {s.number : s \in {t \in rows : t.exam = exam}}

Init ==
  /\ deleted = {} /\ rows = {} /\ lastId = 0
  /\ req = [r \in Req |-> Idle]
  /\ imports = 0 /\ crossed = {}

Goto(r, state) == req' = [req EXCEPT ![r] = state]

---------------------------------------------------------------------------
(* Plausible faults, one for each property; Next uses none of them.       *)

\* the student numbers already there are not looked up
Existing_Never(exam, list) == FALSE

\* the look-up does not see the rows the import has added (no autoflush)
Taken_CommittedOnly(new) == CodesIn(rows)

\* the identifiers are not taken from the sequence
NextId_Kept == lastId

---------------------------------------------------------------------------
(* import_students *)

\* the SELECT of the exam; the list's own duplicates are refused
Begin(r, exam, list) ==
  LET others == {q \in Req : req[q].pc # "idle"} IN
  /\ imports < MaxImports
  /\ req[r].pc = "idle"
  /\ exam \notin deleted
  /\ req' = [q \in Req |-> CASE q = r -> Import(exam, list, others = {})
                           [] q \in others -> [req[q] EXCEPT !.lone = FALSE]
                           [] OTHER -> req[q]]
  /\ imports' = imports + 1
  /\ crossed' = IF \E q \in others : req[q].exam = exam THEN crossed \cup {exam} ELSE crossed
  /\ UNCHANGED <<deleted, rows, lastId>>

Existing(exam, list) == list \cap NumbersIn(exam) # {}

Check(r) ==
  /\ req[r].pc = "checking"
  /\ \/ Existing(req[r].exam, req[r].left) /\ Goto(r, Idle)
     \/ ~Existing(req[r].exam, req[r].left) /\ Goto(r, [req[r] EXCEPT !.pc = "drawing"])
  /\ UNCHANGED <<deleted, rows, lastId, imports, crossed>>

Taken(new) == CodesIn(rows) \cup CodesIn(new)

NextId == lastId + 1

Complete(state) == state.left = {}

\* two rows with one code: the index raises an error and nothing is inserted
Clash(new) == \E s \in new, t \in new \cup rows : s # t /\ s.code = t.code

\* the rows of an import that its look-ups have sent to the database: all but the last
Flushed(new) == {s \in new : \E t \in new : t.id > s.id}

Beaten(q, new) ==
  req[q].pc = "drawing" /\ CodesIn(Flushed(req[q].new)) \cap CodesIn(new) # {}

Draw(r) ==
  LET new == req[r].new IN
  /\ req[r].pc = "drawing" /\ ~Complete(req[r])
  /\ \/ Clash(new) /\ Goto(r, Idle) /\ UNCHANGED lastId
     \/ /\ ~Clash(new)
        /\ \E number \in req[r].left, code \in Code \ Taken(new) :
             Goto(r, [req[r] EXCEPT !.left = @ \ {number},
                                    !.new = @ \cup {Student(lastId + 1, req[r].exam, number, code)}])
        /\ lastId' = NextId
  /\ UNCHANGED <<deleted, rows, imports, crossed>>

Commit(r) ==
  LET new == req[r].new IN
  /\ req[r].pc = "drawing" /\ Complete(req[r])
  /\ \/ Clash(new) /\ Goto(r, Idle) /\ UNCHANGED rows
     \/ /\ ~Clash(new)
        /\ rows' = rows \cup new
        /\ req' = [q \in Req |-> IF q = r \/ Beaten(q, new) THEN Idle ELSE req[q]]
  /\ UNCHANGED <<deleted, lastId, imports, crossed>>

---------------------------------------------------------------------------
delete_student(s) ==
  /\ rows' = rows \ {s}
  /\ UNCHANGED <<deleted, lastId, req, imports, crossed>>

delete_exam(exam) ==
  /\ exam \notin deleted
  /\ deleted' = deleted \cup {exam}
  /\ UNCHANGED <<rows, lastId, req, imports, crossed>>

\* the process restarts; imports that have not committed are lost
Restart ==
  /\ req' = [r \in Req |-> Idle]
  /\ UNCHANGED <<deleted, rows, lastId, imports, crossed>>

Next ==
  \/ \E r \in Req :
       \/ \E exam \in Exam, list \in SUBSET Number : Begin(r, exam, list)
       \/ Check(r) \/ Draw(r) \/ Commit(r)
  \/ \E s \in rows : delete_student(s)
  \/ \E exam \in Exam : delete_exam(exam)
  \/ Restart

Spec == Init /\ [][Next]_vars

---------------------------------------------------------------------------
(* Properties *)

TypeOK ==
  /\ deleted \subseteq Exam
  /\ \A s \in rows : s = Student(s.id, s.exam, s.number, s.code)
       /\ s.id \in 1..lastId /\ s.exam \in Exam /\ s.number \in Number /\ s.code \in Code
  /\ \A r \in Req : req[r].pc # "idle" =>
       /\ req[r].pc \in {"checking", "drawing"}
       /\ req[r].exam \in Exam /\ req[r].left \subseteq Number
       /\ \A s \in req[r].new : s.id \in 1..lastId /\ s.number \notin req[r].left
  /\ lastId \in Nat /\ imports \in Nat /\ crossed \subseteq Exam

\* A student number is there once in an exam ("检查学号是否已存在", admin.py:662), however
\* imports and deletions overlap, unless two imports of that very exam were in
\* flight at once.
NumberOncePerExam ==
  \A s, t \in rows : s.exam = t.exam /\ s.number = t.number => s = t \/ s.exam \in crossed

\* An import that got through its checks is failed by a code that is taken only
\* when another import was in flight with it; what it drew itself, in this list or
\* an earlier one, never fails it.
LoneImportSucceeds ==
  \A r \in Req : req[r].pc = "drawing" /\ req[r].lone => ~Clash(req[r].new)
=============================================================================
