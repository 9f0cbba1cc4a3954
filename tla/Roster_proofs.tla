---------------------------- MODULE Roster_proofs ---------------------------
(***************************************************************************)
(* Proofs about Roster, for any number of exams, student numbers, codes   *)
(* and imports.                                                            *)
(***************************************************************************)
EXTENDS Roster, TLAPS

Rows == [id : 1..lastId, exam : Exam, number : Number, code : Code]
Flight == [pc : {"checking", "drawing"}, exam : Exam, left : SUBSET Number,
           new : SUBSET Rows, lone : BOOLEAN]
Active(r) == req[r].pc # "idle"
Drawing(r) == req[r].pc = "drawing"

\* What an import has added is of its exam, under numbers it no longer has to do.
Added == \A r \in Req : Active(r) =>
  \A s \in req[r].new : s.exam = req[r].exam /\ s.number \notin req[r].left

Typed ==
  /\ deleted \subseteq Exam /\ crossed \subseteq Exam
  /\ lastId \in Nat /\ imports \in Nat
  /\ rows \subseteq Rows
  /\ req \in [Req -> {Idle} \cup Flight]

\* Two imports of one exam are never in flight unnoticed.
Crossing == \A q, r \in Req : q # r /\ Active(q) /\ Active(r) /\ req[q].exam = req[r].exam =>
  req[r].exam \in crossed

\* An import adds each number once, and until somebody crosses it, none that is
\* in its exam already.
OnceInList == \A r \in Req : Active(r) =>
  \A s, t \in req[r].new : s.number = t.number => s = t
StillFree == \A r \in Req : Drawing(r) /\ req[r].exam \notin crossed =>
  \A s \in rows : s.exam = req[r].exam =>
    s.number \notin req[r].left /\ \A t \in req[r].new : t.number # s.number

\* An import that is alone in flight has drawn codes nobody else has.
Alone == \A q, r \in Req : Active(r) /\ req[r].lone /\ q # r => ~Active(q)
OwnCodes == \A r \in Req : Active(r) /\ req[r].lone => ~Clash(req[r].new)

\* An import that still checks has added nothing.
NothingYet == \A r \in Req : req[r].pc = "checking" => req[r].new = {}

Inv == /\ Typed /\ NothingYet /\ Added /\ OnceInList /\ Crossing
       /\ StillFree /\ NumberOncePerExam /\ Alone /\ OwnCodes

---------------------------------------------------------------------------
LEMMA InvTypes == Inv => TypeOK
<1> SUFFICES ASSUME Inv PROVE TypeOK
  OBVIOUS
<1>1. ASSUME NEW s \in rows
      PROVE  /\ s = Student(s.id, s.exam, s.number, s.code)
             /\ s.id \in 1..lastId /\ s.exam \in Exam /\ s.number \in Number /\ s.code \in Code
  BY DEF Inv, Typed, Rows, Student
<1>2. ASSUME NEW r \in Req, req[r].pc # "idle"
      PROVE  /\ req[r].pc \in {"checking", "drawing"}
             /\ req[r].exam \in Exam /\ req[r].left \subseteq Number
             /\ \A s \in req[r].new : s.id \in 1..lastId /\ s.number \notin req[r].left
  <2>1. req[r] \in Flight
    BY <1>2 DEF Inv, Typed, Idle
  <2>2. \A s \in req[r].new : s.number \notin req[r].left
    BY <1>2 DEF Inv, Added, Active
  <2> QED BY <2>1, <2>2 DEF Flight, Rows
<1> QED BY <1>1, <1>2 DEF Inv, Typed, TypeOK

LEMMA InvInit == Init => Inv
BY DEF Init, Inv, Typed, NothingYet, Added, OnceInList, Crossing, StillFree,
       NumberOncePerExam, Alone, OwnCodes, Active, Drawing, Idle

\* Whatever is in flight is a list that is checked or drawn for.
LEMMA ActiveIsFlight ==
  ASSUME Typed, NEW r \in Req, Active(r)
  PROVE  req[r] \in Flight
BY DEF Typed, Active, Idle

---------------------------------------------------------------------------
LEMMA BeginKeeps ==
  ASSUME Inv, NEW r \in Req, NEW exam \in Exam, NEW list \in SUBSET Number, Begin(r, exam, list)
  PROVE  Inv'
<1> DEFINE others == {q \in Req : req[q].pc # "idle"}
<1>1. /\ UNCHANGED <<deleted, rows, lastId>> /\ imports' = imports + 1 /\ r \notin others
      /\ crossed \subseteq crossed'
      /\ \A q \in others : req[q].exam = exam => exam \in crossed'
      /\ crossed' \subseteq crossed \cup {exam}
  BY DEF Begin
<1>2. req'[r] = Import(exam, list, others = {})
  BY DEF Begin
<1>3. \A q \in others : q # r /\ req'[q] = [req[q] EXCEPT !.lone = FALSE]
  BY DEF Begin
<1>4. \A q \in Req \ (others \cup {r}) : req'[q] = Idle
  BY DEF Begin, Inv, Typed, Flight
<1>5. \A q \in others : req[q] \in Flight
  BY ActiveIsFlight DEF Inv, Active
<1>6. Rows' = Rows /\ Flight' = Flight
  BY <1>1 DEF Rows, Flight
<1>7. \A q \in others :
        /\ req'[q] \in Flight /\ req'[q].pc = req[q].pc /\ req'[q].exam = req[q].exam
        /\ req'[q].left = req[q].left /\ req'[q].new = req[q].new /\ ~req'[q].lone
  <2>1. ASSUME NEW f \in Flight, NEW g, g = [f EXCEPT !.lone = FALSE]
        PROVE  /\ g \in Flight /\ g.pc = f.pc /\ g.exam = f.exam
               /\ g.left = f.left /\ g.new = f.new /\ g.lone = FALSE
    BY <2>1 DEF Flight
  <2>2. ASSUME NEW q \in others
        PROVE  req[q] \in Flight /\ req'[q] = [req[q] EXCEPT !.lone = FALSE]
    BY <1>3, <1>5
  <2>3. ASSUME NEW q \in others
        PROVE  /\ req'[q] \in Flight /\ req'[q].pc = req[q].pc /\ req'[q].exam = req[q].exam
               /\ req'[q].left = req[q].left /\ req'[q].new = req[q].new /\ req'[q].lone = FALSE
    BY <2>1, <2>2
  <2> QED BY <2>3
<1>8. /\ req'[r] \in Flight /\ req'[r].pc = "checking" /\ req'[r].exam = exam
      /\ req'[r].left = list /\ req'[r].new = {} /\ req'[r].lone = (others = {})
  BY <1>2 DEF Import, Flight
<1>9. Typed'
  <2>1. req' = [q \in Req |-> req'[q]]
    BY DEF Begin
  <2> QED BY <2>1, <1>1, <1>4, <1>6, <1>7, <1>8 DEF Inv, Typed
<1>10. \A q \in Req : Active(q)' <=> q = r \/ q \in others
  BY <1>4, <1>7, <1>8 DEF Active, Idle
<1>11. NothingYet' /\ Added' /\ OnceInList'
  <2>1. \A q \in Req : req'[q].pc = "checking" => q = r \/ q \in others
    BY <1>4 DEF Idle
  <2>2. \A q \in others : Active(q)
    BY DEF Active
  <2> QED BY <2>1, <2>2, <1>7, <1>8, <1>10 DEF Inv, NothingYet, Added, OnceInList
<1>12. Crossing'
  <2>2. \A q \in others : Active(q)
    BY DEF Active
  <2> QED BY <2>2, <1>1, <1>7, <1>8, <1>10 DEF Inv, Crossing
<1>13. StillFree'
  <2>1. \A q \in Req : Drawing(q)' => q \in others /\ Drawing(q)
    BY <1>4, <1>7, <1>8 DEF Drawing, Idle
  <2> QED BY <2>1, <1>1, <1>7 DEF Inv, StillFree
<1>14. NumberOncePerExam'
  BY <1>1 DEF Inv, NumberOncePerExam
<1>15. Alone' /\ OwnCodes'
  <2>1. \A q \in Req : Active(q)' /\ req'[q].lone => q = r /\ others = {}
    BY <1>7, <1>8, <1>10
  <2> QED BY <2>1, <1>8, <1>10 DEF Alone, OwnCodes, Clash
<1> QED BY <1>9, <1>11, <1>12, <1>13, <1>14, <1>15 DEF Inv

\* An import that ends, by whatever way, takes nothing with it that the invariant needs.
LEMMA EndsKeep ==
  ASSUME Inv, NEW S \in SUBSET Req, UNCHANGED <<deleted, rows, lastId, imports, crossed>>,
         req' = [q \in Req |-> IF q \in S THEN Idle ELSE req[q]]
  PROVE  Inv'
<1>1. \A q \in Req : /\ q \in S => req'[q] = Idle
                     /\ q \notin S => req'[q] = req[q]
  OBVIOUS
<1>2. Typed'
  BY DEF Inv, Typed, Rows, Flight
<1>3. \A q \in Req : q \in S => req'[q].pc = "idle"
  BY <1>1 DEF Idle
<1>4. NothingYet' /\ Added' /\ OnceInList' /\ Crossing'
  BY <1>1, <1>3 DEF Inv, NothingYet, Added, OnceInList, Crossing, Active
<1>5. StillFree' /\ NumberOncePerExam'
  BY <1>1, <1>3 DEF Inv, StillFree, NumberOncePerExam, Drawing
<1>6. Alone' /\ OwnCodes'
  BY <1>1, <1>3 DEF Inv, Alone, OwnCodes, Active, Clash
<1> QED BY <1>2, <1>4, <1>5, <1>6 DEF Inv

LEMMA EndKeeps ==
  ASSUME Inv, NEW r \in Req, Goto(r, Idle), UNCHANGED <<deleted, rows, lastId, imports, crossed>>
  PROVE  Inv'
<1>1. req' = [q \in Req |-> IF q \in {r} THEN Idle ELSE req[q]]
  BY DEF Goto, Inv, Typed
<1> QED BY <1>1, EndsKeep

\* Only imports change: r goes on with what it had.
LEMMA CheckKeeps ==
  ASSUME Inv, NEW r \in Req, Check(r)
  PROVE  Inv'
<1>1. CASE Existing(req[r].exam, req[r].left) /\ Goto(r, Idle)
  BY <1>1, EndKeeps DEF Check
<1>2. CASE ~Existing(req[r].exam, req[r].left) /\ Goto(r, [req[r] EXCEPT !.pc = "drawing"])
  <2>1. UNCHANGED <<deleted, rows, lastId, imports, crossed>> /\ req[r].pc = "checking"
    BY DEF Check
  <2>2. Active(r) /\ req[r] \in Flight
    BY <2>1, ActiveIsFlight DEF Inv, Active
  <2>3. /\ req'[r] \in Flight /\ req'[r].pc = "drawing" /\ req'[r].exam = req[r].exam
        /\ req'[r].left = req[r].left /\ req'[r].new = req[r].new /\ req'[r].lone = req[r].lone
        /\ \A q \in Req \ {r} : req'[q] = req[q]
    BY <1>2, <2>2 DEF Goto, Inv, Typed, Flight
  <2>4. Typed'
    BY <1>2, <2>1, <2>3 DEF Inv, Typed, Goto, Rows, Flight
  <2>5. \A q \in Req : /\ Active(q)' <=> Active(q)
                       /\ req'[q].exam = req[q].exam /\ req'[q].left = req[q].left
                       /\ req'[q].new = req[q].new /\ req'[q].lone = req[q].lone
                       /\ q # r => (Drawing(q)' <=> Drawing(q))
    BY <2>2, <2>3 DEF Active, Drawing
  <2>6. NothingYet' /\ Added' /\ OnceInList' /\ Crossing' /\ Alone'
    BY <2>1, <2>3, <2>5 DEF Inv, NothingYet, Added, OnceInList, Crossing, Alone
  <2>7. StillFree'
    <3>1. req[r].new = {}
      BY <2>1 DEF Inv, NothingYet
    <3>2. \A s \in rows : s.exam = req[r].exam => s.number \notin req[r].left
      BY <1>2 DEF Existing, NumbersIn
    <3> QED BY <2>1, <2>5, <3>1, <3>2 DEF Inv, StillFree
  <2>8. NumberOncePerExam' /\ OwnCodes'
    BY <2>1, <2>5 DEF Inv, NumberOncePerExam, OwnCodes, Clash
  <2> QED BY <2>4, <2>6, <2>7, <2>8 DEF Inv
<1> QED BY <1>1, <1>2 DEF Check

---------------------------------------------------------------------------
LEMMA DrawKeeps ==
  ASSUME Inv, NEW r \in Req, Draw(r)
  PROVE  Inv'
<1>1. CASE Clash(req[r].new)
  BY <1>1, EndKeeps DEF Draw
<1>2. CASE ~Clash(req[r].new)
  <2>1. /\ UNCHANGED <<deleted, rows, imports, crossed>> /\ Drawing(r) /\ Active(r)
        /\ lastId' = lastId + 1
    BY <1>2 DEF Draw, Drawing, Active, NextId
  <2>2. PICK number \in req[r].left, code \in Code \ Taken(req[r].new) :
          Goto(r, [req[r] EXCEPT !.left = @ \ {number},
                                 !.new = @ \cup {Student(lastId + 1, req[r].exam, number, code)}])
    BY <1>2 DEF Draw
  <2> DEFINE s == Student(lastId + 1, req[r].exam, number, code)
  <2>3. req[r] \in Flight
    BY <2>1, ActiveIsFlight DEF Inv
  <2>4. Rows \subseteq Rows' /\ Flight \subseteq Flight' /\ s \in Rows'
    <3>1. lastId \in Nat /\ number \in Number /\ req[r].exam \in Exam
      BY <2>3 DEF Inv, Typed, Flight
    <3>2. 1..lastId \subseteq 1..(lastId + 1) /\ lastId + 1 \in 1..(lastId + 1)
      BY <3>1
    <3>3. Rows \subseteq Rows' /\ s \in Rows'
      BY <2>1, <3>1, <3>2 DEF Rows, Student
    <3> QED BY <3>3 DEF Flight
  <2>5. /\ req'[r].pc = "drawing" /\ req'[r].exam = req[r].exam /\ req'[r].lone = req[r].lone
        /\ req'[r].left = req[r].left \ {number} /\ req'[r].new = req[r].new \cup {s}
        /\ \A q \in Req \ {r} : req'[q] = req[q]
    BY <2>1, <2>2, <2>3 DEF Goto, Inv, Typed, Flight, Drawing
  <2>6. Typed'
    <3>1. req'[r] \in Flight'
      BY <2>2, <2>3, <2>4 DEF Goto, Inv, Typed, Flight
    <3>2. req' = [q \in Req |-> req'[q]]
      BY <2>2 DEF Goto, Inv, Typed
    <3> QED BY <2>1, <2>4, <2>5, <3>1, <3>2 DEF Inv, Typed
  <2>7. \A q \in Req : /\ Active(q)' <=> Active(q)
                       /\ Drawing(q)' <=> Drawing(q)
                       /\ req'[q].exam = req[q].exam /\ req'[q].lone = req[q].lone
    BY <2>1, <2>5 DEF Active, Drawing
  <2>8. s.exam = req[r].exam /\ s.number = number /\ s.code = code
    BY DEF Student
  <2>9. NothingYet' /\ Crossing' /\ Alone' /\ NumberOncePerExam'
    BY <2>1, <2>5, <2>7 DEF Inv, NothingYet, Crossing, Alone, NumberOncePerExam
  <2>10. Added' /\ OnceInList'
    <3>1. \A t \in req[r].new : t.exam = req[r].exam /\ t.number \notin req[r].left
      BY <2>1 DEF Inv, Added
    <3>2. Added'
      BY <2>5, <2>7, <2>8, <3>1 DEF Inv, Added
    <3>3. \A t \in req[r].new : t.number # s.number
      BY <2>8, <3>1
    <3>4. \A t, u \in req'[r].new : t.number = u.number => t = u
      BY <2>1, <2>5, <3>3 DEF Inv, OnceInList
    <3> QED BY <2>5, <2>7, <3>2, <3>4 DEF Inv, OnceInList
  <2>11. StillFree'
    <3>1. ASSUME req[r].exam \notin crossed, NEW t \in rows, t.exam = req[r].exam
          PROVE  t.number \notin req'[r].left /\ \A u \in req'[r].new : u.number # t.number
      <4>1. t.number \notin req[r].left /\ \A u \in req[r].new : u.number # t.number
        BY <2>1, <3>1 DEF Inv, StillFree
      <4> QED BY <2>5, <2>8, <4>1
    <3> QED BY <2>1, <2>5, <2>7, <3>1 DEF Inv, StillFree
  <2>12. OwnCodes'
    <3>1. \A t \in req[r].new \cup rows : t.code # s.code
      BY <2>8 DEF Taken, CodesIn
    <3>2. \A u \in req[r].new, t \in req[r].new \cup rows : u # t => u.code # t.code
      BY <1>2 DEF Clash
    <3>3. ASSUME NEW q \in Req, Active(q)', req'[q].lone,
                 NEW u \in req'[q].new, NEW t \in req'[q].new \cup rows, u # t
          PROVE  u.code # t.code
      <4>1. CASE q = r
        BY <2>5, <3>1, <3>2, <3>3, <4>1
      <4>2. CASE q # r
        BY <2>5, <2>7, <3>3, <4>2 DEF Inv, OwnCodes, Clash
      <4> QED BY <4>1, <4>2
    <3> QED BY <2>1, <3>3 DEF OwnCodes, Clash
  <2> QED BY <2>6, <2>9, <2>10, <2>11, <2>12 DEF Inv
<1> QED BY <1>1, <1>2

---------------------------------------------------------------------------
\* A commit is the end of imports, then new rows under numbers and codes of their own.
LEMMA CommitKeeps ==
  ASSUME Inv, NEW r \in Req, Commit(r)
  PROVE  Inv'
<1>1. CASE Clash(req[r].new)
  BY <1>1, EndKeeps DEF Commit
<1>2. CASE ~Clash(req[r].new)
  <2> DEFINE new == req[r].new
  <2>1. /\ UNCHANGED <<deleted, lastId, imports, crossed>> /\ Drawing(r) /\ Active(r)
        /\ rows' = rows \cup new
        /\ req' = [q \in Req |-> IF q = r \/ Beaten(q, new) THEN Idle ELSE req[q]]
    BY <1>2 DEF Commit, Drawing, Active
  <2>2. req[r] \in Flight
    BY <2>1, ActiveIsFlight DEF Inv
  <2>3. \A q \in Req : (Active(q)' => q # r /\ Active(q) /\ req'[q] = req[q])
                       /\ (Drawing(q)' => Drawing(q))
                       /\ (req'[q].pc = "checking" => req'[q] = req[q])
    BY <2>1 DEF Active, Drawing, Idle
  <2>4. Typed'
    BY <2>1, <2>2 DEF Inv, Typed, Rows, Flight
  <2>5. NothingYet' /\ Added' /\ OnceInList' /\ Crossing' /\ Alone'
    BY <2>1, <2>3 DEF Inv, NothingYet, Added, OnceInList, Crossing, Alone
  <2>6. \A s \in new : s.exam = req[r].exam
    BY <2>1 DEF Inv, Added
  <2>7. StillFree'
    <3> SUFFICES ASSUME NEW q \in Req, Drawing(q)', req'[q].exam \notin crossed
                 PROVE  \A s \in rows' : s.exam = req'[q].exam =>
                          s.number \notin req'[q].left /\ \A t \in req'[q].new : t.number # s.number
      BY <2>1 DEF StillFree
    <3>1. q # r /\ Active(q) /\ Drawing(q) /\ req'[q] = req[q]
      BY <2>3 DEF Active, Drawing
    <3>2. req[r].exam # req[q].exam
      BY <2>1, <3>1 DEF Inv, Crossing
    <3> QED BY <2>1, <2>6, <3>1, <3>2 DEF Inv, StillFree
  <2>8. NumberOncePerExam'
    <3>1. \A s, t \in new : s.number = t.number => s = t
      BY <2>1 DEF Inv, OnceInList
    <3>2. req[r].exam \notin crossed =>
            \A s \in new, t \in rows : t.exam = req[r].exam => s.number # t.number
      BY <2>1 DEF Inv, StillFree
    <3> QED BY <2>1, <2>6, <3>1, <3>2 DEF Inv, NumberOncePerExam
  <2>9. OwnCodes'
    <3>1. \A q \in Req : Active(q)' /\ req'[q].lone => FALSE
      BY <2>1, <2>3 DEF Inv, Alone
    <3> QED BY <3>1 DEF OwnCodes
  <2> QED BY <2>4, <2>5, <2>7, <2>8, <2>9 DEF Inv
<1> QED BY <1>1, <1>2

---------------------------------------------------------------------------
LEMMA InvStep == Inv /\ [Next]_vars => Inv'
<1> SUFFICES ASSUME Inv, [Next]_vars PROVE Inv'
  OBVIOUS
<1>1. ASSUME NEW r \in Req, NEW exam \in Exam, NEW list \in SUBSET Number, Begin(r, exam, list)
      PROVE  Inv'
  BY <1>1, BeginKeeps
<1>2. ASSUME NEW r \in Req, Check(r) \/ Draw(r) \/ Commit(r) PROVE Inv'
  BY <1>2, CheckKeeps, DrawKeeps, CommitKeeps
<1>3. ASSUME NEW s \in rows, delete_student(s) PROVE Inv'
  <2>1. UNCHANGED <<deleted, lastId, req, imports, crossed>> /\ rows' \subseteq rows
    BY <1>3 DEF delete_student
  <2>2. Typed' /\ NothingYet' /\ Added' /\ OnceInList' /\ Crossing' /\ Alone'
    BY <2>1 DEF Inv, Typed, Rows, Flight, NothingYet, Added, OnceInList, Crossing, Alone, Active
  <2>3. StillFree' /\ NumberOncePerExam' /\ OwnCodes'
    BY <2>1 DEF Inv, StillFree, NumberOncePerExam, OwnCodes, Active, Drawing, Clash
  <2> QED BY <2>2, <2>3 DEF Inv
<1>4. ASSUME NEW exam \in Exam, delete_exam(exam) PROVE Inv'
  BY <1>4 DEF delete_exam, Inv, Typed, Rows, Flight, NothingYet, Added, OnceInList, Crossing,
              StillFree, NumberOncePerExam, Alone, OwnCodes, Active, Drawing, Clash
<1>5. CASE Restart
  <2>1. req' = [q \in Req |-> IF q \in Req THEN Idle ELSE req[q]]
    BY <1>5 DEF Restart
  <2> QED BY <1>5, <2>1, EndsKeep DEF Restart
<1>6. CASE UNCHANGED vars
  BY <1>6 DEF vars, Inv, Typed, Rows, Flight, NothingYet, Added, OnceInList, Crossing,
              StillFree, NumberOncePerExam, Alone, OwnCodes, Active, Drawing, Clash
<1> QED BY <1>1, <1>2, <1>3, <1>4, <1>5, <1>6 DEF Next

LEMMA Invariance == Spec => []Inv
BY InvInit, InvStep, PTL DEF Spec

\* Rows and imports in flight keep their types; ids come from the sequence.
THEOREM TypeCorrect == Spec => []TypeOK
BY Invariance, InvTypes, PTL

\* However imports and deletions overlap, a number is there once in an exam, unless
\* two imports of that exam were in flight at once.
THEOREM NumbersUnique == Spec => []NumberOncePerExam
BY Invariance, PTL DEF Inv

LEMMA InvLone == Inv => LoneImportSucceeds
BY DEF Inv, OwnCodes, LoneImportSucceeds, Active

\* An import nobody is in flight with never fails on a code.
THEOREM LoneSucceeds == Spec => []LoneImportSucceeds
BY Invariance, InvLone, PTL
=============================================================================
