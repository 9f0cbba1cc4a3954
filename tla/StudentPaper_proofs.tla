------------------------ MODULE StudentPaper_proofs -------------------------
(***************************************************************************)
(* What the runs of MCStudentPaper check on two students and two slots,   *)
(* for any number of both.  The inductive invariant Inv strengthens the   *)
(* safety invariants with what a request in flight may rely on.           *)
(***************************************************************************)
EXTENDS StudentPaper, TLAPS

\* The save that passed its checks holds the exam row, so the exam it read is
\* still the exam; its student's socket is still remembered.
LockGuards ==
  \A r \in Req : req[r].pc = "save_locked" =>
    lock = r /\ exam = "ongoing" /\ req[r].who \in everOnline

\* Everything a student does comes after a login, and a login leaves not_started.
Begun(s) ==
  /\ logins[s] > 0 => status[s] # "not_started"
  /\ codeUsed[s] => logins[s] > 0
  /\ s \in signedIn \cup everOnline => logins[s] > 0
  /\ code[s] > 0 => logins[s] > 0
  /\ status[s] = "in_progress" => codeUsed[s]
  /\ \A r \in Req : req[r].who = s /\ req[r].pc = "login_student_ok" =>
       req[r].saw # "in_progress"
  /\ \A r \in Req : req[r].who = s /\ req[r].pc \in Authenticated => logins[s] > 0

\* An open paper is one login that no hand-in has used up.
Open(s) == IF status[s] = "in_progress" THEN 1 ELSE 0
Balanced(s) == submits[s] + Open(s) <= logins[s]

Paper(s) == Begun(s) /\ Balanced(s)

Inv == TypeOK /\ LockGuards /\ \A s \in Student : Paper(s)

---------------------------------------------------------------------------
(* How a request moves: only slot r changes, and it stays well typed.     *)

LEMMA StartTyped ==
  ASSUME TypeOK, NEW r \in Req, NEW pc \in Steps \ {"idle"},
         NEW who \in Student \cup {None}, NEW saw \in SubmitStatus \cup ExamStatus \cup {None},
         pc = "exam_loaded" => saw \in ExamStatus,
         pc # "exam_loaded" => who \in Student,
         Start(r, pc, who, saw)
  PROVE  /\ req' \in [Req -> Request]
         /\ \A q \in Req : req'[q].pc \notin {"idle", "exam_loaded"} => req'[q].who \in Student
         /\ \A q \in Req : req'[q].pc = "exam_loaded" => req'[q].saw \in ExamStatus
         /\ started' \in Nat /\ alone' \in BOOLEAN
         /\ \A q \in Req : req'[q] = IF q = r THEN At(pc, who, saw) ELSE req[q]
<1>1. alone' \in BOOLEAN
  BY Zenon DEF Start
<1> QED BY <1>1 DEF TypeOK, Start, Request, At

LEMMA GotoTyped ==
  ASSUME TypeOK, NEW r \in Req, NEW from \in Steps \ {"idle", "exam_loaded"},
         NEW to \in Steps \ {"idle", "exam_loaded"}, Goto(r, from, to)
  PROVE  /\ req' \in [Req -> Request]
         /\ \A q \in Req : req'[q].pc \notin {"idle", "exam_loaded"} => req'[q].who \in Student
         /\ \A q \in Req : req'[q].pc = "exam_loaded" => req'[q].saw \in ExamStatus
         /\ started' \in Nat /\ alone' \in BOOLEAN
         /\ req[r].pc = from /\ req[r].who \in Student
         /\ \A q \in Req : /\ req'[q].pc = IF q = r THEN to ELSE req[q].pc
                           /\ req'[q].who = req[q].who
BY DEF TypeOK, Goto, Request, At, begun

LEMMA FinishTyped ==
  ASSUME TypeOK, NEW r \in Req, NEW from \in Steps, Finish(r, from)
  PROVE  /\ req' \in [Req -> Request]
         /\ \A q \in Req : req'[q].pc \notin {"idle", "exam_loaded"} => req'[q].who \in Student
         /\ \A q \in Req : req'[q].pc = "exam_loaded" => req'[q].saw \in ExamStatus
         /\ started' \in Nat /\ alone' \in BOOLEAN
         /\ req[r].pc = from
         /\ \A q \in Req : req'[q] = IF q = r THEN Idle ELSE req[q]
BY DEF TypeOK, Finish, Request, Idle, At, Steps, begun

---------------------------------------------------------------------------
(* Type correctness *)

LEMMA TypeInit == Init => TypeOK
BY DEF Init, TypeOK, Idle, At, Request, Steps, ExamStatus, SubmitStatus

LEMMA TypeCall ==
  ASSUME TypeOK, NEW r \in Req, Call(r)
  PROVE  TypeOK'
<1>1. ASSUME NEW s \in Student, LoginStart(r, s) PROVE TypeOK'
  BY <1>1, StartTyped DEF LoginStart, TypeOK, paper, sockets, history, Steps
<1>2. ASSUME NEW s \in Student, SaveStart(r, s) PROVE TypeOK'
  BY <1>2, StartTyped DEF SaveStart, TypeOK, paper, sockets, history, Steps
<1>3. ASSUME NEW s \in Student, SubmitStart(r, s) PROVE TypeOK'
  BY <1>3, StartTyped DEF SubmitStart, TypeOK, paper, sockets, history, Steps
<1>4. ASSUME NEW s \in Student, ForceStart(r, s) PROVE TypeOK'
  BY <1>4, StartTyped DEF ForceStart, TypeOK, paper, sockets, history, Steps
<1>5. ASSUME NEW s \in Student, DeleteStart(r, s) PROVE TypeOK'
  BY <1>5, StartTyped DEF DeleteStart, TypeOK, paper, sockets, history, Steps
<1>6. ASSUME NEW s \in Student, WsVerify(r, s) PROVE TypeOK'
  BY <1>6, StartTyped DEF WsVerify, TypeOK, paper, sockets, history, Steps
<1>7. CASE ExamStart(r)
  BY <1>7, StartTyped DEF ExamStart, TypeOK, paper, sockets, history, Steps
<1> QED BY <1>1, <1>2, <1>3, <1>4, <1>5, <1>6, <1>7 DEF Call

LEMMA TypeProceed ==
  ASSUME TypeOK, NEW r \in Req, Proceed(r)
  PROVE  TypeOK'
<1>1. CASE LoginLoad(r)
  BY <1>1 DEF LoginLoad, TypeOK, begun, paper, sockets, history, Steps, Request, At, Idle
<1>2. CASE LoginMark(r)
  <2>1. req[r].who \in Student /\ status'[req[r].who] \in SubmitStatus
    BY <1>2, GotoTyped DEF LoginMark, TypeOK, Steps, Written, SubmitStatus
  <2> QED BY <1>2, <2>1, GotoTyped DEF LoginMark, TypeOK, sockets, Steps
<1>3. CASE LoginReply(r)
  BY <1>3, FinishTyped DEF LoginReply, TypeOK, paper, sockets, history, Steps
<1>4. CASE SaveLock(r)
  BY <1>4, GotoTyped, FinishTyped DEF SaveLock, TypeOK, paper, sockets, history, Steps
<1>5. CASE SaveCommit(r)
  BY <1>5, FinishTyped DEF SaveCommit, TypeOK, sockets, history, Steps, SubmitStatus
<1>6. CASE SubmitReadExam(r)
  BY <1>6, GotoTyped, FinishTyped DEF SubmitReadExam, TypeOK, paper, sockets, history, Steps
<1>7. CASE SubmitCommit(r)
  BY <1>7, FinishTyped DEF SubmitCommit, TypeOK, sockets, Steps, SubmitStatus
<1>8. CASE ForceCommit(r)
  <2>1. req[r].who \in Student /\ status'[req[r].who] \in SubmitStatus
    BY <1>8, GotoTyped DEF ForceCommit, TypeOK, Steps, Written, SubmitStatus
  <2> QED BY <1>8, <2>1, GotoTyped DEF ForceCommit, TypeOK, sockets, history, Steps
<1>9. CASE ForceTell(r)
  BY <1>9, FinishTyped DEF ForceTell, TypeOK, paper, history, Steps
<1>10. CASE DeleteCommit(r)
  BY <1>10, FinishTyped DEF DeleteCommit, TypeOK, sockets, history, Steps
<1>11. CASE ExamCommit(r)
  BY <1>11, FinishTyped
     DEF ExamCommit, TypeOK, paper, sockets, history, Steps, ExamStatus, _VALID_TRANSITIONS
<1>12. CASE WsRegister(r)
  BY <1>12, FinishTyped DEF WsRegister, TypeOK, paper, history, Steps
<1>13. CASE Fail(r)
  <2>1. CutOff({r}) \subseteq HalfDone \X Student
    BY <1>13 DEF TypeOK, CutOff, HalfDone
  <2> QED BY <1>13, <2>1 DEF Fail, TypeOK, begun, paper, sockets, Steps, Request, Idle, At
<1> QED
  BY <1>1, <1>2, <1>3, <1>4, <1>5, <1>6, <1>7, <1>8, <1>9, <1>10, <1>11, <1>12, <1>13
     DEF Proceed, Answer

LEMMA TypeStep ==
  ASSUME TypeOK, [Next]_vars
  PROVE  TypeOK'
<1>1. CASE \E r \in Req : Call(r) \/ Proceed(r)
  BY <1>1, TypeCall, TypeProceed
<1>2. CASE \E s \in Student : WsDrop(s)
  BY <1>2 DEF WsDrop, TypeOK, paper, begun, history
<1>3. CASE Restart
  <2>1. CutOff(Req) \subseteq HalfDone \X Student
    BY DEF TypeOK, CutOff, HalfDone
  <2> QED BY <1>3, <2>1 DEF Restart, TypeOK, paper, begun, Request, Idle, At, Steps
<1>4. CASE UNCHANGED vars
  BY <1>4 DEF vars, TypeOK, paper, sockets, begun, history
<1> QED BY <1>1, <1>2, <1>3, <1>4 DEF Next

\* Every variable keeps its type, and the sockets nest: a student that was told
\* is online, and one that is online is remembered as ever connected.
THEOREM TypeCorrect == Spec => []TypeOK
BY TypeInit, TypeStep, PTL DEF Spec

---------------------------------------------------------------------------
(* The exam row's lock: no step of another request ends a save's right to *)
(* write, because ExamCommit waits for the lock.                          *)

LEMMA LockStep ==
  ASSUME TypeOK, LockGuards, [Next]_vars
  PROVE  LockGuards'
<1>1. ASSUME NEW r \in Req, Call(r) PROVE LockGuards'
  <2>1. UNCHANGED <<exam, lock, everOnline>>
    BY <1>1 DEF Call, LoginStart, SaveStart, SubmitStart, ForceStart, DeleteStart, WsVerify,
                ExamStart, sockets
  <2>2. \A q \in Req : req'[q].pc = "save_locked" => req'[q] = req[q]
    BY <1>1 DEF Call, LoginStart, SaveStart, SubmitStart, ForceStart, DeleteStart, WsVerify,
                ExamStart, Start, TypeOK, At
  <2> QED BY <2>1, <2>2 DEF LockGuards
<1>2. ASSUME NEW r \in Req, Proceed(r) PROVE LockGuards'
  <2>1. CASE SaveLock(r)
    <3>1. CASE lock' = r /\ Goto(r, "save_active", "save_locked")
      BY <2>1, <3>1, GotoTyped, NoneAssumption DEF SaveLock, LockGuards, sockets, Steps
    <3>2. CASE UNCHANGED lock /\ Finish(r, "save_active")
      BY <2>1, <3>2, FinishTyped, NoneAssumption DEF SaveLock, LockGuards, sockets, Steps, Idle, At
    <3> QED BY <2>1, <3>1, <3>2 DEF SaveLock
  <2>2. CASE SaveCommit(r)
    BY <2>2, FinishTyped DEF SaveCommit, LockGuards, sockets, Steps, Idle, At
  <2>3. CASE ExamCommit(r)
    BY <2>3, FinishTyped, NoneAssumption DEF ExamCommit, LockGuards, sockets, Steps, Idle, At
  <2>4. CASE Fail(r)
    BY <2>4 DEF Fail, LockGuards, sockets, Idle, At, TypeOK
  <2>5. CASE WsRegister(r)
    BY <2>5, FinishTyped DEF WsRegister, LockGuards, Steps, Idle, At
  <2>6. CASE LoginLoad(r) \/ LoginMark(r) \/ LoginReply(r) \/ SubmitReadExam(r)
             \/ SubmitCommit(r) \/ ForceCommit(r) \/ ForceTell(r) \/ DeleteCommit(r)
    <3>1. UNCHANGED <<exam, lock, everOnline>>
      BY <2>6 DEF LoginLoad, LoginMark, LoginReply, SubmitReadExam, SubmitCommit, ForceCommit,
                  ForceTell, DeleteCommit, sockets
    <3>2. \A q \in Req : req'[q].pc = "save_locked" => req'[q] = req[q]
      BY <2>6 DEF LoginLoad, LoginMark, LoginReply, SubmitReadExam, SubmitCommit, ForceCommit,
                  ForceTell, DeleteCommit, Goto, Finish, Idle, At, TypeOK
    <3> QED BY <3>1, <3>2 DEF LockGuards
  <2> QED BY <1>2, <2>1, <2>2, <2>3, <2>4, <2>5, <2>6 DEF Proceed, Answer
<1>3. CASE \E s \in Student : WsDrop(s)
  BY <1>3 DEF WsDrop, LockGuards
<1>4. CASE Restart
  BY <1>4 DEF Restart, LockGuards, Idle, At
<1>5. CASE UNCHANGED vars
  BY <1>5 DEF vars, LockGuards, sockets
<1> QED BY <1>1, <1>2, <1>3, <1>4, <1>5 DEF Next

---------------------------------------------------------------------------
(* A student's deeds come after a login; papers balance logins.           *)

\* A step that leaves the student's row and history alone, gives out no
\* credentials and carries no request into a step that it had no right to.
LEMMA PaperKept ==
  ASSUME NEW s \in Student, Paper(s),
         status'[s] = status[s], codeUsed'[s] = codeUsed[s], code'[s] = code[s],
         logins'[s] = logins[s], submits'[s] = submits[s],
         s \in signedIn' \cup everOnline' => s \in signedIn \cup everOnline \/ logins[s] > 0,
         \A q \in Req : req'[q].who = s /\ req'[q].pc \in Authenticated =>
           (req[q].who = s /\ req[q].pc \in Authenticated) \/ logins[s] > 0,
         \A q \in Req : req'[q].who = s /\ req'[q].pc = "login_student_ok" =>
           req'[q] = req[q] \/ req'[q].saw # "in_progress"
  PROVE  Paper(s)'
<1>1. Balanced(s)'
  BY DEF Paper, Balanced, Open
<1>2. Begun(s)'
  BY DEF Paper, Begun
<1> QED BY <1>1, <1>2 DEF Paper

LEMMA PaperCall ==
  ASSUME TypeOK, NEW r \in Req, Call(r), NEW s \in Student, Paper(s)
  PROVE  Paper(s)'
<1>1. UNCHANGED <<status, codeUsed, code, logins, submits, signedIn, everOnline>>
  BY DEF Call, LoginStart, SaveStart, SubmitStart, ForceStart, DeleteStart, WsVerify, ExamStart,
         paper, sockets, history
<1>2. \A q \in Req : q # r => req'[q] = req[q]
  BY DEF Call, LoginStart, SaveStart, SubmitStart, ForceStart, DeleteStart, WsVerify, ExamStart,
         Start, TypeOK
<1>3. /\ req'[r].who = s /\ req'[r].pc \in Authenticated => s \in signedIn
      /\ req'[r].pc # "login_student_ok"
  BY DEF Call, LoginStart, SaveStart, SubmitStart, ForceStart, DeleteStart, WsVerify, ExamStart,
         Start, TypeOK, At, Active, Authenticated
<1>4. s \in signedIn => logins[s] > 0
  BY DEF Paper, Begun
<1>5. \A q \in Req : req'[q].who = s /\ req'[q].pc \in Authenticated =>
        (req[q].who = s /\ req[q].pc \in Authenticated) \/ logins[s] > 0
  BY <1>2, <1>3, <1>4
<1>6. \A q \in Req : req'[q].who = s /\ req'[q].pc = "login_student_ok" => req'[q] = req[q]
  BY <1>2, <1>3
<1> QED BY <1>1, <1>5, <1>6, PaperKept

LEMMA PaperProceed ==
  ASSUME TypeOK, NEW r \in Req, Proceed(r), NEW s \in Student,
         Paper(s)
  PROVE  Paper(s)'
<1>1. CASE LoginLoad(r)
  <2>1. UNCHANGED <<status, codeUsed, code, logins, submits, signedIn, everOnline>>
    BY <1>1 DEF LoginLoad, paper, sockets, history
  <2>2. /\ \A q \in Req : req'[q].pc \in Authenticated => req'[q] = req[q]
        /\ \A q \in Req : req'[q].who = s /\ req'[q].pc = "login_student_ok" =>
             req'[q] = req[q] \/ req'[q].saw # "in_progress"
    BY <1>1 DEF LoginLoad, TypeOK, At, Idle, Authenticated, Paper, Begun
  <2> QED BY <2>1, <2>2, PaperKept
<1>2. CASE LoginMark(r)
  <2>1. /\ req[r].who \in Student /\ req[r].pc = "login_student_ok"
        /\ \A q \in Req : /\ req'[q].who = req[q].who
                          /\ req'[q].pc = IF q = r THEN "login_marked" ELSE req[q].pc
    BY <1>2, GotoTyped DEF LoginMark, Steps
  <2>2. \A q \in Req : q # r => req'[q] = req[q]
    BY <1>2 DEF LoginMark, Goto, TypeOK
  <2>3. CASE s = req[r].who
    <3>1. /\ logins'[s] = logins[s] + 1 /\ logins[s] \in Nat
          /\ submits'[s] = submits[s] /\ submits[s] \in Nat
          /\ codeUsed'[s] /\ code'[s] = code[s]
      BY <1>2, <2>3 DEF LoginMark, TypeOK
    <3>2. status'[s] = "in_progress"
      BY <1>2, <2>1, <2>3 DEF LoginMark, Written, TypeOK, Paper, Begun
    <3>3. Balanced(s)'
      BY <3>1, <3>2 DEF Paper, Balanced, Open
    <3>4. \A q \in Req : req'[q].who = s /\ req'[q].pc = "login_student_ok" =>
            req'[q].saw # "in_progress"
      BY <2>1, <2>2 DEF Paper, Begun
    <3>5. Begun(s)'
      BY <3>1, <3>2, <3>4 DEF Begun
    <3> QED BY <3>3, <3>5 DEF Paper
  <2>4. CASE s # req[r].who
    <3>1. /\ status'[s] = status[s] /\ codeUsed'[s] = codeUsed[s] /\ logins'[s] = logins[s]
          /\ UNCHANGED <<code, submits, signedIn, everOnline>>
      BY <1>2, <2>1, <2>4 DEF LoginMark, TypeOK, sockets
    <3>2. \A q \in Req : req'[q].who = s => req'[q] = req[q]
      BY <2>1, <2>2, <2>4
    <3> QED BY <3>1, <3>2, PaperKept
  <2> QED BY <2>3, <2>4
<1>3. CASE LoginReply(r) \/ WsRegister(r)
  <2>1. UNCHANGED <<status, codeUsed, code, logins, submits>>
    BY <1>3 DEF LoginReply, WsRegister, paper, history
  <2>2. req[r].pc \in Authenticated /\ \A q \in Req : req'[q] = IF q = r THEN Idle ELSE req[q]
    BY <1>3, FinishTyped DEF LoginReply, WsRegister, Steps, Authenticated
  <2>3. signedIn' \cup everOnline' \subseteq signedIn \cup everOnline \cup {req[r].who}
    BY <1>3 DEF LoginReply, WsRegister, sockets
  <2>4. req[r].who = s => logins[s] > 0
    BY <2>2 DEF Paper, Begun
  <2>5. \A q \in Req : req'[q].pc # "idle" => req'[q] = req[q]
    BY <2>2 DEF Idle, At
  <2> QED BY <2>1, <2>3, <2>4, <2>5, PaperKept DEF Authenticated
<1>4. CASE SaveLock(r) \/ SubmitReadExam(r)
  <2>1. UNCHANGED <<status, codeUsed, code, logins, submits, signedIn, everOnline>>
    BY <1>4 DEF SaveLock, SubmitReadExam, paper, sockets, history
  <2>2. /\ \A q \in Req : req'[q].pc \in Authenticated =>
             req[q].pc \in Authenticated /\ req'[q].who = req[q].who
        /\ \A q \in Req : req'[q].pc = "login_student_ok" => req'[q] = req[q]
    BY <1>4 DEF SaveLock, SubmitReadExam, Goto, Finish, TypeOK, At, Idle, Authenticated
  <2> QED BY <2>1, <2>2, PaperKept
<1>5. CASE SaveCommit(r)
  <2>1. /\ req[r].who \in Student /\ req[r].pc \in Authenticated
        /\ \A q \in Req : req'[q] = IF q = r THEN Idle ELSE req[q]
    BY <1>5, FinishTyped DEF SaveCommit, TypeOK, Steps, Authenticated
  <2>2. \A q \in Req : req'[q].pc # "idle" => req'[q] = req[q]
    BY <2>1 DEF Idle, At
  <2>3. UNCHANGED <<codeUsed, logins, submits, signedIn, everOnline>>
    BY <1>5 DEF SaveCommit, sockets, history
  <2>4. req[r].who = s => logins[s] > 0
    BY <2>1 DEF Paper, Begun
  <2>5. status'[s] = status[s]
    BY <1>5, <2>1, <2>4 DEF SaveCommit, TypeOK, Paper, Begun
  <2>6. code'[s] > 0 => logins[s] > 0
    BY <1>5, <2>1, <2>4 DEF SaveCommit, TypeOK, Paper, Begun
  <2>7. Balanced(s)'
    BY <2>3, <2>5 DEF Paper, Balanced, Open
  <2>8. Begun(s)'
    BY <2>2, <2>3, <2>5, <2>6 DEF Paper, Begun, Authenticated
  <2> QED BY <2>7, <2>8 DEF Paper
<1>6. CASE SubmitCommit(r)
  <2>1. /\ req[r].who \in Student /\ req[r].pc \in Authenticated
        /\ \A q \in Req : req'[q] = IF q = r THEN Idle ELSE req[q]
    BY <1>6, FinishTyped DEF SubmitCommit, TypeOK, Steps, Authenticated
  <2>2. \A q \in Req : req'[q].pc # "idle" => req'[q] = req[q]
    BY <2>1 DEF Idle, At
  <2>3. UNCHANGED <<codeUsed, code, logins, signedIn, everOnline>>
    BY <1>6 DEF SubmitCommit, sockets
  <2>4. req[r].who = s => logins[s] > 0
    BY <2>1 DEF Paper, Begun
  <2>5. \/ status'[s] = status[s] /\ submits'[s] = submits[s]
        \/ /\ status[s] = "in_progress" /\ status'[s] = "submitted"
           /\ submits'[s] = submits[s] + 1
    BY <1>6, <2>1, <2>4 DEF SubmitCommit, TypeOK, HandedIn, SubmitStatus, Paper, Begun
  <2>6. Balanced(s)'
    BY <2>3, <2>5 DEF Paper, Balanced, Open, TypeOK
  <2>7. Begun(s)'
    BY <2>2, <2>3, <2>5 DEF Paper, Begun, Authenticated
  <2> QED BY <2>6, <2>7 DEF Paper
<1>7. CASE ForceCommit(r)
  <2>1. /\ req[r].who \in Student
        /\ \A q \in Req : /\ req'[q].who = req[q].who
                          /\ req'[q].pc = IF q = r THEN "force_done" ELSE req[q].pc
    BY <1>7, GotoTyped DEF ForceCommit, Steps
  <2>2. \A q \in Req : req'[q].pc # "force_done" => req'[q] = req[q]
    BY <1>7, <2>1 DEF ForceCommit, Goto, TypeOK
  <2>3. UNCHANGED <<codeUsed, code, logins, submits, signedIn, everOnline>>
    BY <1>7 DEF ForceCommit, sockets, history
  <2>4. status'[s] = status[s] \/ status'[s] = "force_submitted"
    BY <1>7, <2>1 DEF ForceCommit, TypeOK, Written
  <2>5. Balanced(s)'
    BY <2>3, <2>4 DEF Paper, Balanced, Open, TypeOK
  <2>6. Begun(s)'
    BY <2>2, <2>3, <2>4 DEF Paper, Begun, Authenticated
  <2> QED BY <2>5, <2>6 DEF Paper
<1>8. CASE DeleteCommit(r)
  <2>1. /\ req[r].who \in Student
        /\ \A q \in Req : req'[q] = IF q = r THEN Idle ELSE req[q]
    BY <1>8, FinishTyped DEF DeleteCommit, TypeOK, Steps
  <2>2. \A q \in Req : req'[q].pc # "idle" => req'[q] = req[q]
    BY <2>1 DEF Idle, At
  <2>3. /\ UNCHANGED <<status, codeUsed, logins, submits, signedIn, everOnline>>
        /\ code'[s] > 0 => code[s] > 0
    BY <1>8, <2>1 DEF DeleteCommit, sockets, history, TypeOK
  <2>4. Balanced(s)'
    BY <2>3 DEF Paper, Balanced, Open
  <2>5. Begun(s)'
    BY <2>2, <2>3 DEF Paper, Begun, Authenticated
  <2> QED BY <2>4, <2>5 DEF Paper
<1>9. CASE ForceTell(r) \/ ExamCommit(r) \/ Fail(r)
  <2>1. UNCHANGED <<status, codeUsed, code, logins, submits, signedIn, everOnline>>
    BY <1>9 DEF ForceTell, ExamCommit, Fail, paper, sockets, history
  <2>2. \A q \in Req : req'[q].pc # "idle" => req'[q] = req[q]
    BY <1>9 DEF ForceTell, ExamCommit, Fail, Finish, TypeOK, Idle, At
  <2> QED BY <2>1, <2>2, PaperKept DEF Authenticated
<1> QED BY <1>1, <1>2, <1>3, <1>4, <1>5, <1>6, <1>7, <1>8, <1>9 DEF Proceed, Answer

LEMMA PaperStep ==
  ASSUME TypeOK, [Next]_vars, NEW s \in Student, Paper(s)
  PROVE  Paper(s)'
<1>1. CASE \E r \in Req : Call(r) \/ Proceed(r)
  BY <1>1, PaperCall, PaperProceed
<1>2. CASE \E t \in Student : WsDrop(t)
  BY <1>2, PaperKept DEF WsDrop, paper, history
<1>3. CASE Restart
  <2>1. UNCHANGED <<status, codeUsed, code, logins, submits, signedIn>> /\ everOnline' = {}
    BY <1>3 DEF Restart, paper
  <2>2. \A q \in Req : req'[q].pc = "idle"
    BY <1>3 DEF Restart, Idle, At
  <2> QED BY <2>1, <2>2, PaperKept DEF Authenticated
<1>4. CASE UNCHANGED vars
  BY <1>4, PaperKept DEF vars, paper, sockets, history
<1> QED BY <1>1, <1>2, <1>3, <1>4 DEF Next

---------------------------------------------------------------------------
(* From the first commit of a login to its reply: only an error or a stop *)
(* of the process ends the way.                                           *)

LEMMA LockedOutStep ==
  ASSUME TypeOK, NobodyLockedOut, [Next]_vars
  PROVE  NobodyLockedOut'
<1> USE DEF NobodyLockedOut
<1>1. ASSUME NEW r \in Req, Call(r) PROVE NobodyLockedOut'
  <2>1. UNCHANGED <<rows, codeUsed, signedIn, cutOff>>
    BY <1>1 DEF Call, LoginStart, SaveStart, SubmitStart, ForceStart, DeleteStart, WsVerify,
                ExamStart, paper, history
  <2>2. \A q \in Req : req[q].pc = "login_marked" => req'[q] = req[q]
    BY <1>1 DEF Call, LoginStart, SaveStart, SubmitStart, ForceStart, DeleteStart, WsVerify,
                ExamStart, Start, TypeOK
  <2> QED BY <2>1, <2>2
<1>2. ASSUME NEW r \in Req, Proceed(r) PROVE NobodyLockedOut'
  <2>1. CASE LoginMark(r)
    <3>1. /\ req'[r].pc = "login_marked" /\ req'[r].who = req[r].who
          /\ \A q \in Req : req[q].pc = "login_marked" =>
               req'[q].pc = "login_marked" /\ req'[q].who = req[q].who
      BY <2>1, GotoTyped DEF LoginMark, Steps
    <3>2. \A s \in Student : codeUsed'[s] => codeUsed[s] \/ s = req[r].who
      BY <2>1 DEF LoginMark, TypeOK
    <3> QED BY <2>1, <3>1, <3>2 DEF LoginMark, TypeOK
  <2>2. CASE LoginReply(r)
    <3>1. \A q \in Req : q # r => req'[q] = req[q]
      BY <2>2, FinishTyped DEF LoginReply, Steps
    <3> QED BY <2>2, <3>1 DEF LoginReply, paper, history
  <2>3. CASE DeleteCommit(r)
    <3>1. \A q \in Req : req[q].pc = "login_marked" => req'[q] = req[q]
      BY <2>3 DEF DeleteCommit, Finish, TypeOK
    <3>2. UNCHANGED <<codeUsed, signedIn, cutOff>> /\ rows' \subseteq rows
      BY <2>3 DEF DeleteCommit, history
    <3> QED BY <3>1, <3>2
  <2>5. CASE Fail(r)
    <3>1. \A q \in Req : q # r => req'[q] = req[q]
      BY <2>5 DEF Fail, TypeOK
    <3>2. UNCHANGED <<rows, codeUsed, signedIn>> /\ cutOff \subseteq cutOff'
      BY <2>5 DEF Fail, paper
    <3>3. req[r].pc = "login_marked" => <<"login_marked", req[r].who>> \in cutOff'
      BY <2>5 DEF Fail, CutOff, HalfDone
    <3> QED BY <3>1, <3>2, <3>3
  <2>4. CASE LoginLoad(r) \/ SaveLock(r) \/ SaveCommit(r) \/ SubmitReadExam(r) \/ SubmitCommit(r)
             \/ ForceCommit(r) \/ ForceTell(r) \/ ExamCommit(r) \/ WsRegister(r)
    <3>1. UNCHANGED <<rows, codeUsed, signedIn, cutOff>>
      BY <2>4 DEF LoginLoad, SaveLock, SaveCommit, SubmitReadExam, SubmitCommit, ForceCommit,
                  ForceTell, ExamCommit, WsRegister, paper, history
    <3>2. \A q \in Req : req[q].pc = "login_marked" => req'[q] = req[q]
      BY <2>4 DEF LoginLoad, SaveLock, SaveCommit, SubmitReadExam, SubmitCommit, ForceCommit,
                  ForceTell, ExamCommit, WsRegister, Goto, Finish, TypeOK
    <3> QED BY <3>1, <3>2
  <2> QED BY <1>2, <2>1, <2>2, <2>3, <2>4, <2>5 DEF Proceed, Answer
<1>3. CASE \E s \in Student : WsDrop(s)
  BY <1>3 DEF WsDrop, paper, history
<1>4. CASE Restart
  <2>1. \A s \in Student :
          \/ <<"login_marked", s>> \in cutOff
          \/ \E r \in Req : req[r].pc = "login_marked" /\ req[r].who = s
          => <<"login_marked", s>> \in cutOff'
    BY <1>4 DEF Restart, CutOff, HalfDone
  <2> QED BY <1>4, <2>1 DEF Restart, paper, TypeOK
<1>5. CASE UNCHANGED vars
  BY <1>5 DEF vars, paper, history
<1> QED BY <1>1, <1>2, <1>3, <1>4, <1>5 DEF Next

---------------------------------------------------------------------------
(* The theorems *)

LEMMA InvInit == Init => Inv
<1> SUFFICES ASSUME Init PROVE Inv
  OBVIOUS
<1>1. TypeOK
  BY TypeInit
<1>2. LockGuards
  BY DEF Init, LockGuards, Idle, At
<1>3. ASSUME NEW s \in Student PROVE Paper(s)
  BY DEF Init, Paper, Begun, Balanced, Open, Idle, At, Authenticated
<1> QED BY <1>1, <1>2, <1>3 DEF Inv

LEMMA InvStep == Inv /\ [Next]_vars => Inv'
BY TypeStep, LockStep, PaperStep DEF Inv

LEMMA Invariance == Spec => []Inv
BY InvInit, InvStep, PTL DEF Spec

\* At most one successful hand-in per login, for any number of overlapping
\* requests.
THEOREM SubmitsBounded == Spec => []SubmitsBoundedByLogins
<1>1. Inv => SubmitsBoundedByLogins
  <2> SUFFICES ASSUME Inv, NEW s \in Student PROVE submits[s] <= logins[s]
    BY DEF SubmitsBoundedByLogins
  <2>1. submits[s] \in Nat /\ logins[s] \in Nat /\ submits[s] + Open(s) <= logins[s]
    BY DEF Inv, TypeOK, Paper, Balanced
  <2> QED BY <2>1 DEF Open
<1> QED BY <1>1, Invariance, PTL

\* A student shown as not_started has done nothing; the "first save" UPDATE of
\* save_code never hits a row.
THEOREM NotStartedUntouched == Spec => []NotStartedIsUntouched
<1>1. Inv => NotStartedIsUntouched
  <2> SUFFICES ASSUME Inv, NEW s \in Student, status[s] = "not_started"
               PROVE  /\ logins[s] = 0 /\ ~codeUsed[s]
                      /\ s \notin signedIn /\ s \notin everOnline
                      /\ code[s] = 0 /\ submits[s] = 0
    BY DEF NotStartedIsUntouched
  <2>1. submits[s] \in Nat /\ logins[s] \in Nat /\ code[s] \in Nat
    BY DEF Inv, TypeOK
  <2>2. logins[s] = 0 /\ ~codeUsed[s] /\ s \notin signedIn \cup everOnline /\ code[s] = 0
    BY <2>1 DEF Inv, Paper, Begun
  <2>3. submits[s] = 0
    BY <2>1, <2>2 DEF Inv, Paper, Balanced, Open
  <2> QED BY <2>2, <2>3
<1> QED BY <1>1, Invariance, PTL

\* Code is written only while the exam is ongoing, and only for a student whose
\* socket this process has registered.
THEOREM SavesGuarded == Spec => NoSaveAfterEnd /\ SavedOnlyIfMonitored
<1>1. ASSUME Inv, [Next]_vars, NEW s \in Student, code'[s] > code[s]
      PROVE  exam = "ongoing" /\ exam' = "ongoing" /\ s \in everOnline
  <2>1. PICK r \in Req : SaveCommit(r)
    <3>1. ASSUME NEW r \in Req, DeleteCommit(r) PROVE FALSE
      BY <1>1, <3>1, FinishTyped DEF Inv, TypeOK, DeleteCommit, Steps
    <3>2. CASE UNCHANGED code
      BY <1>1, <3>2 DEF Inv, TypeOK
    <3>3. (\E r \in Req : SaveCommit(r) \/ DeleteCommit(r)) \/ UNCHANGED code
      BY <1>1 DEF Next, Call, LoginStart, SaveStart, SubmitStart, ForceStart, DeleteStart,
                  WsVerify, ExamStart, Proceed, Answer, LoginLoad, LoginMark, LoginReply, SaveLock,
                  SubmitReadExam, SubmitCommit, ForceCommit, ForceTell, ExamCommit, WsRegister,
                  Fail, WsDrop, Restart, vars, paper
    <3> QED BY <3>1, <3>2, <3>3
  <2>2. req[r].pc = "save_locked"
    BY <2>1 DEF SaveCommit, Finish
  <2>3. s = req[r].who
    BY <1>1, <2>1 DEF SaveCommit, Inv, TypeOK
  <2> QED BY <1>1, <2>1, <2>2, <2>3 DEF SaveCommit, Inv, LockGuards
<1>2. Inv /\ [Next]_vars =>
        [\A s \in Student : code'[s] > code[s] => exam = "ongoing" /\ exam' = "ongoing"]_vars
  BY <1>1
<1>3. Inv /\ [Next]_vars =>
        [\A s \in Student : code'[s] > code[s] => s \in everOnline]_vars
  BY <1>1
<1> QED BY <1>2, <1>3, Invariance, PTL DEF Spec, NoSaveAfterEnd, SavedOnlyIfMonitored

\* A student whose login code is used can get in, or is about to, unless an error or a stop
\* of the process ended the login between its first commit and its reply: no refusal and
\* no overlap of requests does it.
THEOREM LockedOutByCutOffOnly == Spec => []NobodyLockedOut
<1>1. Init => NobodyLockedOut
  BY DEF Init, NobodyLockedOut
<1>2. TypeOK /\ NobodyLockedOut /\ [Next]_vars => NobodyLockedOut'
  BY LockedOutStep
<1> QED BY <1>1, <1>2, TypeCorrect, PTL DEF Spec

---------------------------------------------------------------------------
(* One request at a time: who is taken in by force is told                *)

\* The one call in flight is the only one that may still have to tell, and the
\* handshake it verified is of a paper that is open.
Informed(s) == s \in told \/ <<"force_done", s>> \in cutOff
Telling == alone =>
  /\ \A q, r \in Req : req[q].pc # "idle" /\ req[r].pc # "idle" => q = r
  /\ \A r \in Req : req[r].pc = "ws_verified" => status[req[r].who] = "in_progress"
  /\ \A s \in online \cap rows : status[s] = "force_submitted" =>
       \/ Informed(s)
       \/ \E r \in Req : req[r].pc = "force_done" /\ req[r].who = s

\* A call that starts alone was told of everybody.
LEMMA TellingCall ==
  ASSUME TypeOK, Telling, NEW r \in Req, Call(r)
  PROVE  Telling'
<1>1. UNCHANGED <<paper, sockets, cutOff>>
  BY DEF Call, LoginStart, SaveStart, SubmitStart, ForceStart, DeleteStart, WsVerify, ExamStart,
         history
<1>2. PICK pc \in Steps \ {"idle", "force_done"}, who \in Student \cup {None},
           saw \in SubmitStatus \cup ExamStatus \cup {None} :
         /\ Start(r, pc, who, saw)
         /\ pc = "ws_verified" => who \in Student /\ status[who] = "in_progress"
  <2>1. ASSUME NEW s \in Student, LoginStart(r, s) PROVE Start(r, "login_exam_ok", s, None)
    BY <2>1 DEF LoginStart
  <2>2. ASSUME NEW s \in Student, SaveStart(r, s) PROVE Start(r, "save_active", s, status[s])
    BY <2>2 DEF SaveStart
  <2>3. ASSUME NEW s \in Student, SubmitStart(r, s) PROVE Start(r, "submit_active", s, status[s])
    BY <2>3 DEF SubmitStart
  <2>4. ASSUME NEW s \in Student, ForceStart(r, s) PROVE Start(r, "force_loaded", s, status[s])
    BY <2>4 DEF ForceStart
  <2>5. ASSUME NEW s \in Student, DeleteStart(r, s) PROVE Start(r, "delete_loaded", s, None)
    BY <2>5 DEF DeleteStart
  <2>6. ASSUME NEW s \in Student, WsVerify(r, s)
        PROVE  Start(r, "ws_verified", s, None) /\ status[s] = "in_progress"
    BY <2>6 DEF WsVerify
  <2>7. ExamStart(r) => Start(r, "exam_loaded", None, exam)
    BY DEF ExamStart
  <2>8. exam \in ExamStatus /\ \A s \in Student : status[s] \in SubmitStatus
    BY DEF TypeOK
  <2> QED BY <2>1, <2>2, <2>3, <2>4, <2>5, <2>6, <2>7, <2>8 DEF Call, Steps
<1>3. \A q \in Req : req'[q] = IF q = r THEN At(pc, who, saw) ELSE req[q]
  BY <1>2 DEF Start, TypeOK
<1>4. alone' => alone /\ \A q \in Req : req[q].pc = "idle"
  BY <1>2 DEF Start
<1> QED BY <1>1, <1>2, <1>3, <1>4 DEF Telling, Informed, At, paper, sockets

\* While alone, only the call itself has anything to tell.
LEMMA TellingProceed ==
  ASSUME TypeOK, Telling, NEW r \in Req, Proceed(r)
  PROVE  Telling'
<1> SUFFICES ASSUME alone'
             PROVE  Telling'
  BY DEF Telling, Informed
<1>1. /\ alone /\ req[r].pc # "idle"
      /\ \A q \in Req : q # r => req'[q] = req[q] /\ req[q].pc = "idle"
  <2>1. alone' = alone
    BY DEF Proceed, Answer, LoginLoad, LoginMark, LoginReply, SaveLock, SaveCommit, SubmitReadExam,
           SubmitCommit, ForceCommit, ForceTell, DeleteCommit, ExamCommit, WsRegister, Fail, Goto,
           Finish, begun, history
  <2>2. req[r].pc # "idle" /\ \A q \in Req : q # r => req'[q] = req[q]
    BY DEF Proceed, Answer, LoginLoad, LoginMark, LoginReply, SaveLock, SaveCommit, SubmitReadExam,
           SubmitCommit, ForceCommit, ForceTell, DeleteCommit, ExamCommit, WsRegister, Fail, Goto,
           Finish, TypeOK
  <2> QED BY <2>1, <2>2 DEF Telling, Informed
<1> DEFINE s == req[r].who
\* it is enough that this call's own student is told of, and all others stay so
<1>2. \A q, p \in Req : req'[q].pc # "idle" /\ req'[p].pc # "idle" => q = p
  BY <1>1
<1>3. \A t \in online \cap rows : status[t] = "force_submitted" /\ t # s => Informed(t)
  BY <1>1 DEF Telling, Informed
<1>4. req[r].pc # "force_done" => \A t \in online \cap rows : status[t] = "force_submitted" => Informed(t)
  BY <1>1 DEF Telling, Informed
<1>5. CASE LoginLoad(r) \/ LoginReply(r) \/ SaveLock(r) \/ SubmitReadExam(r) \/ ExamCommit(r)
  <2>1. UNCHANGED <<rows, status, online, told, cutOff>> /\ req[r].pc # "force_done"
    BY <1>5 DEF LoginLoad, LoginReply, SaveLock, SubmitReadExam, ExamCommit, paper, sockets,
                history, Goto, Finish
  <2>2. req'[r].pc # "ws_verified"
    BY <1>5 DEF LoginLoad, LoginReply, SaveLock, SubmitReadExam, ExamCommit, Goto, Finish, At,
                Idle, TypeOK
  <2> QED BY <1>1, <1>2, <1>4, <2>1, <2>2 DEF Telling, Informed
<1>6. CASE LoginMark(r) \/ SaveCommit(r) \/ SubmitCommit(r)
  <2>1. UNCHANGED <<rows, online, told, cutOff>> /\ req[r].pc # "force_done"
    BY <1>6 DEF LoginMark, SaveCommit, SubmitCommit, paper, sockets, history, Goto, Finish
  <2>2. req'[r].pc # "ws_verified"
    BY <1>6 DEF LoginMark, SaveCommit, SubmitCommit, Goto, Finish, At, Idle, TypeOK
  <2>3. \A t \in Student : status'[t] = "force_submitted" => status[t] = "force_submitted"
    BY <1>6 DEF LoginMark, SaveCommit, SubmitCommit, Written, TypeOK
  <2> QED BY <1>1, <1>2, <1>4, <2>1, <2>2, <2>3 DEF Telling, Informed, TypeOK
<1>7. CASE ForceCommit(r)
  <2>1. UNCHANGED <<rows, online, told, cutOff>> /\ req'[r].pc = "force_done" /\ req'[r].who = s
    BY <1>7, GotoTyped DEF ForceCommit, paper, sockets, history, Steps
  <2>2. \A t \in Student : t # s => status'[t] = status[t]
    BY <1>7 DEF ForceCommit, TypeOK
  <2> QED BY <1>1, <1>2, <1>3, <2>1, <2>2 DEF Telling, Informed, TypeOK
<1>8. CASE ForceTell(r)
  <2>1. UNCHANGED <<rows, status, online, cutOff>> /\ told' = told \cup ({s} \cap online)
    BY <1>8 DEF ForceTell, paper, history
  <2>2. req'[r].pc = "idle"
    BY <1>8 DEF ForceTell, Finish, Idle, At, TypeOK
  <2> QED BY <1>1, <1>2, <1>3, <2>1, <2>2 DEF Telling, Informed
<1>9. CASE DeleteCommit(r)
  <2>1. rows' \subseteq rows /\ UNCHANGED <<status, online, told, cutOff>> /\ req[r].pc # "force_done"
    BY <1>9 DEF DeleteCommit, sockets, history, Finish
  <2>2. req'[r].pc = "idle"
    BY <1>9 DEF DeleteCommit, Finish, Idle, At, TypeOK
  <2> QED BY <1>1, <1>2, <1>4, <2>1, <2>2 DEF Telling, Informed
<1>10. CASE WsRegister(r)
  <2>1. /\ UNCHANGED <<rows, status, cutOff>> /\ online' = online \cup {s} /\ told' = told \ {s}
        /\ req[r].pc = "ws_verified"
    BY <1>10 DEF WsRegister, paper, history, Finish
  <2>2. req'[r].pc = "idle"
    BY <1>10 DEF WsRegister, Finish, Idle, At, TypeOK
  <2>3. status[s] # "force_submitted"
    BY <1>1, <2>1 DEF Telling, Informed
  <2> QED BY <1>1, <1>2, <1>3, <2>1, <2>2, <2>3 DEF Telling, Informed
<1>11. CASE Fail(r)
  <2>1. UNCHANGED <<rows, status, online, told>> /\ cutOff \subseteq cutOff'
    BY <1>11 DEF Fail, paper, sockets
  <2>2. req[r].pc = "force_done" => <<"force_done", s>> \in cutOff'
    BY <1>11 DEF Fail, CutOff, HalfDone
  <2>3. req'[r].pc = "idle"
    BY <1>11 DEF Fail, Idle, At, TypeOK
  <2> QED BY <1>1, <1>2, <1>3, <1>4, <2>1, <2>2, <2>3 DEF Telling, Informed
<1> QED BY <1>5, <1>6, <1>7, <1>8, <1>9, <1>10, <1>11 DEF Proceed, Answer

LEMMA TellingStep ==
  ASSUME TypeOK, Telling, [Next]_vars
  PROVE  Telling'
<1>1. ASSUME NEW r \in Req, Call(r) \/ Proceed(r) PROVE Telling'
  BY <1>1, TellingCall, TellingProceed
<1>2. ASSUME NEW s \in Student, WsDrop(s) PROVE Telling'
  BY <1>2 DEF WsDrop, Telling, Informed, paper, begun, history
<1>3. CASE Restart
  BY <1>3 DEF Restart, Telling, Idle, At
<1>4. CASE UNCHANGED vars
  BY <1>4 DEF vars, Telling, Informed, paper, sockets, begun, history
<1> QED BY <1>1, <1>2, <1>3, <1>4 DEF Next

\* Until two requests have overlapped, everybody who was taken in by force and is
\* still connected has been told, unless the call failed after its commit: no socket can be registered between the commit
\* and the frame, or for a paper that is closed.
THEOREM ForcedAreTold == Spec => []ForcedOnlineIsTold
<1>1. Init => Telling
  BY DEF Init, Telling, Idle, At
<1>2. Spec => [](TypeOK /\ Telling)
  BY <1>1, TypeInit, TypeStep, TellingStep, PTL DEF Spec
<1>3. Telling => ForcedOnlineIsTold
  BY DEF Telling, Informed, ForcedOnlineIsTold
<1> QED BY <1>2, <1>3, PTL

---------------------------------------------------------------------------
(* One request at a time: the contract                                    *)

\* A handed-in paper had its login; and what the one call in flight loaded is so
\* still, and was reason enough to go on.
Admitted == \A s \in Student : status[s] = "submitted" => codeUsed[s]
Relies(r) ==
  LET s == req[r].who
      pc == req[r].pc IN
  /\ pc \in {"login_exam_ok", "login_student_ok", "submit_exam_ok"} => exam = "ongoing"
  /\ pc = "login_student_ok" => s \in rows /\ ~codeUsed[s] /\ req[r].saw = status[s]
  /\ pc \in {"save_active", "save_locked", "submit_active", "submit_exam_ok"} =>
       s \in rows /\ status[s] = "in_progress"
  /\ pc = "force_loaded" => s \in rows /\ req[r].saw = status[s]
  /\ pc = "delete_loaded" => s \in rows
  /\ pc = "exam_loaded" => req[r].saw = exam
Flight == alone =>
  /\ \A q, r \in Req : req[q].pc # "idle" /\ req[r].pc # "idle" => q = r
  /\ \A r \in Req : Relies(r)

LEMMA AdmittedStep ==
  ASSUME Inv, Admitted, [Next]_vars
  PROVE  Admitted'
<1> USE DEF Admitted
<1>1. TypeOK /\ \A s \in Student : Begun(s)
  BY DEF Inv, Paper
<1>2. ASSUME NEW r \in Req, LoginMark(r) \/ SaveCommit(r) \/ ForceCommit(r) PROVE Admitted'
  <2>1. \A s \in Student : /\ status'[s] = "submitted" => status[s] = "submitted"
                           /\ codeUsed[s] => codeUsed'[s]
    BY <1>1, <1>2 DEF LoginMark, SaveCommit, ForceCommit, Written, TypeOK
  <2> QED BY <2>1
<1>3. ASSUME NEW r \in Req, SubmitCommit(r) PROVE Admitted'
  <2>1. req[r].pc = "submit_exam_ok" /\ req[r].who \in Student /\ codeUsed' = codeUsed
    BY <1>1, <1>3 DEF SubmitCommit, Finish, TypeOK
  <2>2. status[req[r].who] \in HandedIn \/ codeUsed[req[r].who]
    <3>1. logins[req[r].who] > 0
      BY <1>1, <2>1 DEF Begun, Authenticated
    <3> QED BY <1>1, <2>1, <3>1 DEF Begun, TypeOK, SubmitStatus, HandedIn
  <2>3. \/ status' = status
        \/ /\ status[req[r].who] \notin HandedIn
           /\ \A s \in Student : s # req[r].who => status'[s] = status[s]
    BY <1>1, <1>3 DEF SubmitCommit, TypeOK
  <2> QED BY <2>1, <2>2, <2>3
<1>4. CASE UNCHANGED <<status, codeUsed>>
  BY <1>4
<1> QED BY <1>2, <1>3, <1>4 DEF Next, Call, LoginStart, SaveStart, SubmitStart, ForceStart,
          DeleteStart, WsVerify, ExamStart, Proceed, Answer, LoginLoad, LoginReply, SaveLock,
          SubmitReadExam, ForceTell, DeleteCommit, ExamCommit, WsRegister, Fail, WsDrop, Restart,
          vars, paper

\* A call that starts alone relies on what it has just read.
LEMMA FlightCall ==
  ASSUME Inv, Flight, NEW r \in Req, Call(r)
  PROVE  Flight'
<1>1. TypeOK /\ UNCHANGED <<exam, paper>>
  BY DEF Inv, Call, LoginStart, SaveStart, SubmitStart, ForceStart, DeleteStart, WsVerify,
         ExamStart
<1>2. ASSUME NEW s \in Student, Active(s) PROVE s \in rows /\ status[s] = "in_progress"
  <2>1. logins[s] > 0 /\ (logins[s] > 0 => status[s] # "not_started")
    BY <1>2 DEF Active, Inv, Paper, Begun
  <2> QED BY <1>1, <1>2, <2>1 DEF Active, HandedIn, TypeOK, SubmitStatus
<1>3. /\ \A q \in Req : q # r => req'[q] = req[q]
      /\ alone' => alone /\ \A q \in Req : req[q].pc = "idle"
  BY <1>1 DEF Call, LoginStart, SaveStart, SubmitStart, ForceStart, DeleteStart, WsVerify,
              ExamStart, Start, TypeOK
<1>4. Relies(r)'
  <2>1. ASSUME NEW s \in Student, LoginStart(r, s) PROVE Relies(r)'
    <3>1. req'[r] = At("login_exam_ok", s, None)
      BY <1>1, <2>1 DEF LoginStart, Start, TypeOK
    <3> QED BY <1>1, <2>1, <3>1 DEF LoginStart, Relies, At
  <2>2. ASSUME NEW s \in Student, SaveStart(r, s) PROVE Relies(r)'
    <3>1. req'[r] = At("save_active", s, status[s])
      BY <1>1, <2>2 DEF SaveStart, Start, TypeOK
    <3> QED BY <1>1, <1>2, <2>2, <3>1 DEF SaveStart, Relies, At, paper
  <2>3. ASSUME NEW s \in Student, SubmitStart(r, s) PROVE Relies(r)'
    <3>1. req'[r] = At("submit_active", s, status[s])
      BY <1>1, <2>3 DEF SubmitStart, Start, TypeOK
    <3> QED BY <1>1, <1>2, <2>3, <3>1 DEF SubmitStart, Relies, At, paper
  <2>4. ASSUME NEW s \in Student, ForceStart(r, s) PROVE Relies(r)'
    <3>1. req'[r] = At("force_loaded", s, status[s])
      BY <1>1, <2>4 DEF ForceStart, Start, TypeOK
    <3> QED BY <1>1, <2>4, <3>1 DEF ForceStart, Relies, At, paper
  <2>5. ASSUME NEW s \in Student, DeleteStart(r, s) PROVE Relies(r)'
    <3>1. req'[r] = At("delete_loaded", s, None)
      BY <1>1, <2>5 DEF DeleteStart, Start, TypeOK
    <3> QED BY <1>1, <2>5, <3>1 DEF DeleteStart, Relies, At, paper
  <2>6. ASSUME NEW s \in Student, WsVerify(r, s) PROVE Relies(r)'
    <3>1. req'[r] = At("ws_verified", s, None)
      BY <1>1, <2>6 DEF WsVerify, Start, TypeOK
    <3> QED BY <3>1 DEF Relies, At
  <2>7. CASE ExamStart(r)
    <3>1. req'[r] = At("exam_loaded", None, exam)
      BY <1>1, <2>7 DEF ExamStart, Start, TypeOK
    <3> QED BY <1>1, <3>1 DEF Relies, At
  <2> QED BY <2>1, <2>2, <2>3, <2>4, <2>5, <2>6, <2>7 DEF Call
<1> QED BY <1>1, <1>3, <1>4 DEF Flight, Relies

LEMMA FlightProceed ==
  ASSUME Inv, Flight, NEW r \in Req, Proceed(r)
  PROVE  Flight'
<1> SUFFICES ASSUME alone'
             PROVE  Flight'
  BY DEF Flight
<1>1. TypeOK
  BY DEF Inv
<1>2. /\ alone /\ req[r].pc # "idle"
      /\ \A q \in Req : q # r => req'[q] = req[q] /\ req[q].pc = "idle"
  <2>1. alone' = alone
    BY DEF Proceed, Answer, LoginLoad, LoginMark, LoginReply, SaveLock, SaveCommit, SubmitReadExam,
           SubmitCommit, ForceCommit, ForceTell, DeleteCommit, ExamCommit, WsRegister, Fail, Goto,
           Finish, begun, history
  <2>2. req[r].pc # "idle" /\ \A q \in Req : q # r => req'[q] = req[q]
    BY <1>1 DEF Proceed, Answer, LoginLoad, LoginMark, LoginReply, SaveLock, SaveCommit, SubmitReadExam,
           SubmitCommit, ForceCommit, ForceTell, DeleteCommit, ExamCommit, WsRegister, Fail, Goto,
           Finish, TypeOK
  <2> QED BY <2>1, <2>2 DEF Flight
<1>3. Relies(r)
  BY <1>2 DEF Flight
<1>4. Relies(r)'
  <2>1. CASE LoginLoad(r)
    <3>1. UNCHANGED <<exam, rows, status, codeUsed>> /\ exam = "ongoing"
      BY <1>3, <2>1 DEF LoginLoad, paper, Relies
    <3>2. \/ /\ req[r].who \in rows /\ ~codeUsed[req[r].who]
             /\ req'[r] = At("login_student_ok", req[r].who, status[req[r].who])
          \/ req'[r] = Idle
      BY <1>1, <2>1 DEF LoginLoad, TypeOK
    <3> QED BY <3>1, <3>2 DEF Relies, At, Idle
  <2>2. CASE SaveLock(r)
    <3>1. UNCHANGED <<exam, rows, status, codeUsed>> /\ req[r].pc = "save_active"
      BY <2>2 DEF SaveLock, paper, Goto, Finish
    <3>2. \/ req'[r].pc = "save_locked" /\ req'[r].who = req[r].who
          \/ req'[r].pc = "idle"
      BY <1>1, <2>2 DEF SaveLock, Goto, Finish, At, Idle, TypeOK
    <3> QED BY <1>3, <3>1, <3>2 DEF Relies
  <2>3. CASE SubmitReadExam(r)
    <3>1. UNCHANGED <<exam, rows, status, codeUsed>> /\ req[r].pc = "submit_active"
      BY <2>3 DEF SubmitReadExam, paper, Goto, Finish
    <3>2. \/ req'[r].pc = "submit_exam_ok" /\ req'[r].who = req[r].who /\ exam = "ongoing"
          \/ req'[r].pc = "idle"
      BY <1>1, <2>3 DEF SubmitReadExam, Goto, Finish, At, Idle, TypeOK
    <3> QED BY <1>3, <3>1, <3>2 DEF Relies
  <2>4. CASE ~(LoginLoad(r) \/ SaveLock(r) \/ SubmitReadExam(r))
    <3>1. req'[r].pc \in {"login_marked", "force_done", "idle"}
      BY <1>1, <2>4 DEF Proceed, Answer, LoginMark, LoginReply, SaveCommit, SubmitCommit, ForceCommit,
             ForceTell, DeleteCommit, ExamCommit, WsRegister, Fail, Goto, Finish, At, Idle, TypeOK
    <3> QED BY <3>1 DEF Relies
  <2> QED BY <2>1, <2>2, <2>3, <2>4
<1> QED BY <1>2, <1>4 DEF Flight, Relies

LEMMA FlightStep ==
  ASSUME Inv, Flight, [Next]_vars
  PROVE  Flight'
<1>1. ASSUME NEW r \in Req, Call(r) \/ Proceed(r) PROVE Flight'
  BY <1>1, FlightCall, FlightProceed
<1>2. ASSUME NEW s \in Student, WsDrop(s) PROVE Flight'
  BY <1>2 DEF WsDrop, Flight, Relies, paper, begun
<1>3. CASE Restart
  BY <1>3 DEF Restart, Flight, Relies, Idle, At
<1>4. CASE UNCHANGED vars
  BY <1>4 DEF vars, Flight, Relies, paper, begun
<1> QED BY <1>1, <1>2, <1>3, <1>4 DEF Next

\* The paper as PaperContract sees it.
PhaseOf(s) ==
  IF s \notin rows THEN "removed"
  ELSE CASE status[s] = "not_started" -> "blank"
         [] status[s] = "in_progress" -> "writing"
         [] status[s] = "submitted" -> "handed"
         [] status[s] = "force_submitted" -> "forced"
Phase == [s \in Student |-> PhaseOf(s)]
Entered == {s \in Student : codeUsed[s]}

LEMMA PhaseIs ==
  ASSUME NEW s \in rows
  PROVE  /\ status[s] = "not_started" => PhaseOf(s) = "blank"
         /\ status[s] = "in_progress" => PhaseOf(s) = "writing"
         /\ status[s] = "submitted" => PhaseOf(s) = "handed"
         /\ status[s] = "force_submitted" => PhaseOf(s) = "forced"
BY DEF PhaseOf

\* Only the paper of s has moved.
LEMMA PhaseMoves ==
  ASSUME TypeOK, NEW s \in Student,
         \A t \in Student : t # s => (t \in rows' <=> t \in rows) /\ status'[t] = status[t]
  PROVE  /\ s \notin rows' => Phase' = [Phase EXCEPT ![s] = "removed"]
         /\ s \in rows' /\ status'[s] = "in_progress" => Phase' = [Phase EXCEPT ![s] = "writing"]
         /\ s \in rows' /\ status'[s] = "submitted" => Phase' = [Phase EXCEPT ![s] = "handed"]
         /\ s \in rows' /\ status'[s] = "force_submitted" =>
              Phase' = [Phase EXCEPT ![s] = "forced"]
<1>1. ASSUME NEW t \in Student, t # s PROVE Phase'[t] = Phase[t]
  <2>1. status[t] \in SubmitStatus
    BY DEF TypeOK
  <2> QED BY <1>1, <2>1 DEF Phase, PhaseOf, SubmitStatus
<1>2. ASSUME NEW p, Phase'[s] = p PROVE Phase' = [Phase EXCEPT ![s] = p]
  BY <1>1, <1>2 DEF Phase
<1>3. /\ s \notin rows' => Phase'[s] = "removed"
      /\ s \in rows' /\ status'[s] = "in_progress" => Phase'[s] = "writing"
      /\ s \in rows' /\ status'[s] = "submitted" => Phase'[s] = "handed"
      /\ s \in rows' /\ status'[s] = "force_submitted" => Phase'[s] = "forced"
  BY DEF Phase, PhaseOf
<1> QED BY <1>2, <1>3

LEMMA ContractActions ==
  ASSUME NEW s \in Student
  PROVE  /\ exam = "ongoing" /\ s \notin Entered /\ Phase[s] = "blank"
            /\ Phase' = [Phase EXCEPT ![s] = "writing"] /\ Entered' = Entered \cup {s}
            /\ UNCHANGED <<exam, code>> => Contract!Next
         /\ exam = "ongoing" /\ Phase[s] = "writing" /\ code' = [code EXCEPT ![s] = @ + 1]
            /\ UNCHANGED <<exam, Phase, Entered>> => Contract!Next
         /\ exam = "ongoing" /\ Phase[s] = "writing"
            /\ Phase' = [Phase EXCEPT ![s] = "handed"]
            /\ UNCHANGED <<exam, code, Entered>> => Contract!Next
         /\ Phase[s] # "removed" /\ Phase' = [Phase EXCEPT ![s] = "forced"]
            /\ UNCHANGED <<exam, code, Entered>> => Contract!Next
         /\ Phase[s] # "removed" /\ Phase' = [Phase EXCEPT ![s] = "removed"]
            /\ code' = [code EXCEPT ![s] = 0]
            /\ UNCHANGED <<exam, Entered>> => Contract!Next
BY DEF Contract!Next, Contract!Enter, Contract!Write, Contract!HandIn, Contract!TakeIn,
       Contract!Remove, Phase, PhaseOf, Entered

LEMMA ContractProceed ==
  ASSUME Inv, Admitted, Flight, alone, NEW r \in Req, Proceed(r)
  PROVE  Reopened \/ Contract!Next \/ UNCHANGED Contract!vars
<1> DEFINE s == req[r].who
<1>1. TypeOK /\ Relies(r)
  BY DEF Inv, Flight
<1>2. \A t \in Student : status[t] \in SubmitStatus
  BY <1>1 DEF TypeOK
<1>3. CASE LoginMark(r)
  <2>1. /\ exam = "ongoing" /\ s \in Student /\ s \in rows /\ ~codeUsed[s] /\ req[r].saw = status[s]
        /\ UNCHANGED <<exam, rows, code>>
    BY <1>1, <1>3 DEF LoginMark, Goto, Relies, TypeOK
  <2>2. status[s] \in {"not_started", "force_submitted"}
    BY <1>2, <2>1 DEF Inv, Paper, Begun, Admitted, SubmitStatus
  <2>3. /\ codeUsed' = [codeUsed EXCEPT ![s] = TRUE]
        /\ status'[s] = "in_progress" /\ \A t \in Student : t # s => status'[t] = status[t]
    BY <1>1, <1>3, <2>1, <2>2 DEF LoginMark, Written, TypeOK
  <2>4. Entered' = Entered \cup {s} /\ s \notin Entered
    BY <1>1, <2>1, <2>3 DEF Entered, TypeOK
  <2>5. Phase' = [Phase EXCEPT ![s] = "writing"]
    BY <1>1, <2>1, <2>3, PhaseMoves
  <2>6. CASE status[s] = "force_submitted"
    BY <1>1, <2>1, <2>3, <2>6 DEF Reopened, TypeOK
  <2>7. CASE status[s] = "not_started"
    <3>1. Phase[s] = "blank"
      BY <2>1, <2>7, PhaseIs DEF Phase
    <3> QED BY <2>1, <2>4, <2>5, <3>1, ContractActions
  <2> QED BY <2>2, <2>6, <2>7
<1>4. CASE SaveCommit(r)
  <2>1. /\ exam = "ongoing" /\ s \in Student /\ s \in rows /\ status[s] = "in_progress"
        /\ code' = [code EXCEPT ![s] = @ + 1] /\ UNCHANGED <<exam, rows, codeUsed>>
    BY <1>1, <1>4 DEF SaveCommit, Finish, Relies, TypeOK, Inv, LockGuards
  <2>2. \A t \in Student : status'[t] = status[t]
    BY <1>1, <1>4, <2>1 DEF SaveCommit, TypeOK
  <2>3. Phase' = Phase /\ Entered' = Entered
    <3>1. \A t \in Student : Phase'[t] = Phase[t]
      BY <1>2, <2>1, <2>2 DEF Phase, PhaseOf, SubmitStatus
    <3> QED BY <2>1, <3>1 DEF Phase, Entered
  <2>4. Phase[s] = "writing"
    BY <2>1, PhaseIs DEF Phase
  <2> QED BY <2>1, <2>3, <2>4, ContractActions
<1>5. CASE SubmitCommit(r)
  <2>1. /\ exam = "ongoing" /\ s \in Student /\ s \in rows /\ status[s] = "in_progress"
        /\ UNCHANGED <<exam, rows, code, codeUsed>>
    BY <1>1, <1>5 DEF SubmitCommit, Finish, Relies, TypeOK
  <2>2. status'[s] = "submitted" /\ \A t \in Student : t # s => status'[t] = status[t]
    BY <1>1, <1>5, <2>1 DEF SubmitCommit, HandedIn, TypeOK
  <2>3. Phase' = [Phase EXCEPT ![s] = "handed"] /\ Entered' = Entered
    BY <1>1, <2>1, <2>2, PhaseMoves DEF Entered
  <2>4. Phase[s] = "writing"
    BY <2>1, PhaseIs DEF Phase
  <2> QED BY <2>1, <2>3, <2>4, ContractActions
<1>6. CASE ForceCommit(r)
  <2>1. /\ s \in Student /\ s \in rows /\ req[r].saw = status[s]
        /\ UNCHANGED <<exam, rows, code, codeUsed>>
    BY <1>1, <1>6 DEF ForceCommit, Goto, Relies, TypeOK
  <2>2. status'[s] = "force_submitted" /\ \A t \in Student : t # s => status'[t] = status[t]
    BY <1>1, <1>6, <2>1 DEF ForceCommit, Written, TypeOK
  <2>3. Phase' = [Phase EXCEPT ![s] = "forced"] /\ Entered' = Entered
    BY <1>1, <2>1, <2>2, PhaseMoves DEF Entered
  <2>4. Phase[s] # "removed"
    BY <1>2, <2>1, PhaseIs DEF Phase, SubmitStatus
  <2> QED BY <2>1, <2>3, <2>4, ContractActions
<1>7. CASE DeleteCommit(r)
  <2>1. /\ s \in Student /\ s \in rows /\ rows' = rows \ {s}
        /\ code' = [code EXCEPT ![s] = 0] /\ UNCHANGED <<exam, status, codeUsed>>
    BY <1>1, <1>7 DEF DeleteCommit, Finish, Relies, TypeOK
  <2>2. Phase' = [Phase EXCEPT ![s] = "removed"] /\ Entered' = Entered
    BY <1>1, <2>1, PhaseMoves DEF Entered
  <2>3. Phase[s] # "removed"
    BY <1>2, <2>1, PhaseIs DEF Phase, SubmitStatus
  <2> QED BY <2>1, <2>2, <2>3, ContractActions
<1>8. CASE ExamCommit(r)
  <2>1. exam' \in _VALID_TRANSITIONS[exam] /\ UNCHANGED paper /\ exam \in ExamStatus
    BY <1>1, <1>8 DEF ExamCommit, Finish, Relies, TypeOK
  <2>2. \/ exam = "not_started" /\ exam' = "ongoing"
        \/ exam = "ongoing" /\ exam' = "ended"
    BY <2>1 DEF _VALID_TRANSITIONS, ExamStatus
  <2> QED BY <2>1, <2>2 DEF Contract!Next, Contract!Advance, paper
<1>9. CASE LoginLoad(r) \/ LoginReply(r) \/ SaveLock(r) \/ SubmitReadExam(r) \/ ForceTell(r)
           \/ WsRegister(r) \/ Fail(r)
  <2>1. UNCHANGED <<exam, paper>>
    BY <1>9 DEF LoginLoad, LoginReply, SaveLock, SubmitReadExam, ForceTell, WsRegister, Fail
  <2> QED BY <2>1 DEF Contract!vars, paper
<1> QED BY <1>3, <1>4, <1>5, <1>6, <1>7, <1>8, <1>9 DEF Proceed, Answer

\* Until two requests have overlapped, the handlers implement PaperContract, sockets,
\* administrators, deletions, errors and restarts of the process included, but for the
\* one login that opens a paper taken in by force before it.
THEOREM ContractImplemented == Spec => ImplementsContract
<1>1. Init => Contract!Init /\ Admitted /\ Flight
  BY DEF Init, Contract!Init, Admitted, Flight, Relies, Idle, At
<1>2. ASSUME Inv, Admitted, Flight, [Next]_vars, alone'
      PROVE  Reopened \/ Contract!Next \/ UNCHANGED Contract!vars
  <2>1. ASSUME NEW r \in Req, Proceed(r)
        PROVE  Reopened \/ Contract!Next \/ UNCHANGED Contract!vars
    <3>1. alone
      BY <1>2, <2>1 DEF Proceed, Answer, LoginLoad, LoginMark, LoginReply, SaveLock, SaveCommit,
             SubmitReadExam, SubmitCommit, ForceCommit, ForceTell, DeleteCommit, ExamCommit,
             WsRegister, Fail, Goto, Finish, begun, history
    <3> QED BY <1>2, <2>1, <3>1, ContractProceed
  <2>2. CASE UNCHANGED <<exam, paper>>
    BY <2>2 DEF Contract!vars, paper
  <2> QED BY <1>2, <2>1, <2>2 DEF Next, Call, LoginStart, SaveStart, SubmitStart, ForceStart,
            DeleteStart, WsVerify, ExamStart, WsDrop, Restart, vars
<1>3. Spec => [](Inv /\ Admitted /\ Flight)
  BY <1>1, InvInit, InvStep, AdmittedStep, FlightStep, PTL DEF Spec
<1>4. Inv /\ Admitted /\ Flight /\ [Next]_vars =>
        [alone' => Reopened \/ [Contract!Next]_(Contract!vars)]_vars
  BY <1>2
<1> QED BY <1>1, <1>3, <1>4, PTL DEF Spec, ImplementsContract

---------------------------------------------------------------------------
(* One request at a time: what two overlapping ones may break holds       *)

\* A code that is not used has let nobody in; and who relies on a fresh reading marks
\* the code of a student who was never let in.
Unused == \A s \in Student : ~codeUsed[s] => logins[s] = 0
LoneLogin == alone => OneLoginPerCode

LEMMA LoneLoginStep ==
  ASSUME Inv, Flight, Unused, LoneLogin, [Next]_vars
  PROVE  Unused' /\ LoneLogin'
<1>1. TypeOK
  BY DEF Inv
<1>2. ASSUME NEW r \in Req, LoginMark(r) PROVE Unused' /\ LoneLogin'
  <2>1. req[r].pc = "login_student_ok" /\ req[r].who \in Student /\ alone' = alone
    BY <1>1, <1>2 DEF LoginMark, Goto, TypeOK, begun
  <2>2. /\ logins' = [logins EXCEPT ![req[r].who] = @ + 1]
        /\ codeUsed' = [codeUsed EXCEPT ![req[r].who] = TRUE]
    BY <1>2 DEF LoginMark
  <2>3. alone => logins[req[r].who] = 0
    BY <2>1 DEF Flight, Relies, Unused
  <2>4. Unused'
    BY <1>1, <2>1, <2>2 DEF Unused, TypeOK
  <2>5. LoneLogin'
    BY <1>1, <2>1, <2>2, <2>3 DEF LoneLogin, OneLoginPerCode, TypeOK
  <2> QED BY <2>4, <2>5
<1>3. CASE UNCHANGED <<codeUsed, logins>> /\ (alone' => alone)
  BY <1>3 DEF Unused, LoneLogin, OneLoginPerCode
<1>4. ASSUME NEW r \in Req, Call(r) PROVE Unused' /\ LoneLogin'
  <2>1. alone' => alone
    BY <1>4 DEF Call, LoginStart, SaveStart, SubmitStart, ForceStart, DeleteStart, WsVerify,
                ExamStart, Start
  <2>2. UNCHANGED <<codeUsed, logins>>
    BY <1>4 DEF Call, LoginStart, SaveStart, SubmitStart, ForceStart, DeleteStart, WsVerify,
                ExamStart, paper, history
  <2> QED BY <1>3, <2>1, <2>2
<1>5. ASSUME NEW r \in Req, Proceed(r) PROVE Unused' /\ LoneLogin'
  <2>1. CASE LoginMark(r)
    BY <1>2, <2>1
  <2>2. CASE ~LoginMark(r)
    <3>1. UNCHANGED <<codeUsed, logins, alone>>
      BY <1>5, <2>2 DEF Proceed, Answer, LoginLoad, LoginReply, SaveLock, SaveCommit, SubmitReadExam,
             SubmitCommit, ForceCommit, ForceTell, DeleteCommit, ExamCommit, WsRegister, Fail,
             Goto, Finish, paper, history, begun
    <3> QED BY <1>3, <3>1
  <2> QED BY <2>1, <2>2
<1>6. CASE Restart \/ (\E s \in Student : WsDrop(s)) \/ UNCHANGED vars
  BY <1>3, <1>6 DEF Restart, WsDrop, vars, paper, history, begun
<1> QED BY <1>4, <1>5, <1>6 DEF Next

\* Until two requests have overlapped a login code lets its holder in once: the second
\* login of one code takes two that both read the row before either marked it.
THEOREM LoneCodeOnce == Spec => [](alone => OneLoginPerCode)
<1>1. Init => Flight /\ Unused /\ LoneLogin
  BY DEF Init, Flight, Relies, Idle, At, Unused, LoneLogin, OneLoginPerCode
<1>2. Spec => [](Inv /\ Flight /\ Unused /\ LoneLogin)
  BY <1>1, InvInit, InvStep, FlightStep, LoneLoginStep, PTL DEF Spec
<1> QED BY <1>2, PTL DEF LoneLogin

\* Until two requests have overlapped nobody's code changes after the hand-in: the save
\* that does takes a hand-in between its look at the student and its commit.
THEOREM LoneFrozen ==
  Spec => [][alone' => \A s \in Student : status[s] \in HandedIn => code'[s] <= code[s]]_vars
<1>1. Init => Flight
  BY DEF Init, Flight, Relies, Idle, At
<1>2. Spec => [](Inv /\ Flight)
  BY <1>1, InvInit, InvStep, FlightStep, PTL DEF Spec
<1>3. ASSUME Inv, Flight, [Next]_vars, alone', NEW s \in Student, status[s] \in HandedIn
      PROVE  code'[s] <= code[s]
  <2>1. code[s] \in Nat /\ TypeOK
    BY <1>3 DEF Inv, TypeOK
  <2>2. ASSUME NEW r \in Req, SaveCommit(r) PROVE code'[s] <= code[s]
    <3>1. req[r].pc = "save_locked" /\ alone /\ code' = [code EXCEPT ![req[r].who] = @ + 1]
      BY <1>3, <2>2 DEF SaveCommit, Finish, begun
    <3>2. status[req[r].who] = "in_progress"
      BY <1>3, <3>1 DEF Flight, Relies
    <3>3. s # req[r].who
      BY <1>3, <3>2 DEF HandedIn
    <3> QED BY <2>1, <3>1, <3>3 DEF TypeOK
  <2>3. ASSUME NEW r \in Req, DeleteCommit(r) PROVE code'[s] <= code[s]
    BY <2>1, <2>3 DEF DeleteCommit, TypeOK
  <2>4. CASE UNCHANGED code
    BY <2>1, <2>4
  <2> QED BY <1>3, <2>2, <2>3, <2>4 DEF Next, Call, LoginStart, SaveStart, SubmitStart,
            ForceStart, DeleteStart, WsVerify, ExamStart, Proceed, Answer, LoginLoad, LoginMark,
            LoginReply, SaveLock, SubmitReadExam, SubmitCommit, ForceCommit, ForceTell,
            ExamCommit, WsRegister, Fail, WsDrop, Restart, vars, paper
<1>4. Inv /\ Flight /\ [Next]_vars =>
        [alone' => \A s \in Student : status[s] \in HandedIn => code'[s] <= code[s]]_vars
  BY <1>3
<1> QED BY <1>2, <1>4, PTL DEF Spec

---------------------------------------------------------------------------
(* What EveryCallEnds rests on besides fairness                           *)

\* The exam row is never locked by nobody: its holder is a save past its checks, which
\* waits for no lock and ends, by a commit or an error, in its next step.
LockIsHeld == lock # None => lock \in Req /\ req[lock].pc = "save_locked"

LEMMA LockHeldStep ==
  ASSUME TypeOK, LockGuards, LockIsHeld, [Next]_vars
  PROVE  LockIsHeld'
<1>1. ASSUME NEW r \in Req, Call(r) PROVE LockIsHeld'
  <2>1. req[r].pc = "idle" /\ lock' = lock /\ \A q \in Req : q # r => req'[q] = req[q]
    BY <1>1 DEF Call, LoginStart, SaveStart, SubmitStart, ForceStart, DeleteStart, WsVerify,
                ExamStart, Start, TypeOK
  <2> QED BY <2>1 DEF LockIsHeld
<1>2. ASSUME NEW r \in Req, Proceed(r) PROVE LockIsHeld'
  <2>1. \A q \in Req : q # r => req'[q] = req[q]
    BY <1>2 DEF Proceed, Answer, LoginLoad, LoginMark, LoginReply, SaveLock, SaveCommit, SubmitReadExam,
           SubmitCommit, ForceCommit, ForceTell, DeleteCommit, ExamCommit, WsRegister, Fail, Goto,
           Finish, TypeOK
  <2>2. \/ lock' = r /\ req'[r].pc = "save_locked"
        \/ lock' = None
        \/ lock' = lock /\ lock # r
    <3>1. CASE SaveLock(r)
      <4>1. CASE lock' = r /\ Goto(r, "save_active", "save_locked")
        BY <4>1 DEF Goto, At, TypeOK
      <4>2. CASE UNCHANGED lock
        BY <3>1, <4>2 DEF SaveLock
      <4> QED BY <3>1, <4>1, <4>2 DEF SaveLock
    <3>2. CASE SaveCommit(r) \/ ExamCommit(r)
      BY <3>2 DEF SaveCommit, ExamCommit
    <3>3. CASE Fail(r)
      BY <3>3 DEF Fail
    <3>4. CASE ~(SaveLock(r) \/ SaveCommit(r) \/ ExamCommit(r) \/ Fail(r))
      <4>1. lock' = lock /\ req[r].pc # "save_locked"
        BY <1>2, <3>4 DEF Proceed, Answer, LoginLoad, LoginMark, LoginReply, SubmitReadExam, SubmitCommit,
               ForceCommit, ForceTell, DeleteCommit, WsRegister, Goto, Finish
      <4>2. r # None
        BY NoneAssumption
      <4> QED BY <4>1, <4>2 DEF LockIsHeld
    <3> QED BY <3>1, <3>2, <3>3, <3>4
  <2> QED BY <2>1, <2>2 DEF LockIsHeld
<1>3. CASE Restart
  BY <1>3 DEF Restart, LockIsHeld
<1>4. CASE UNCHANGED <<lock, req>>
  BY <1>4 DEF LockIsHeld
<1> QED BY <1>1, <1>2, <1>3, <1>4 DEF Next, WsDrop, vars

\* Whoever waits for the exam row waits for a save that can end at once; no wait is a
\* circle, and no refusal, error or restart leaves the row locked.
THEOREM LockIsNeverOrphaned == Spec => []LockIsHeld
<1>1. Init => LockIsHeld
  BY DEF Init, LockIsHeld
<1>2. Spec => [](Inv /\ LockIsHeld)
  BY <1>1, InvInit, InvStep, LockHeldStep, PTL DEF Spec, Inv
<1> QED BY <1>2, PTL

\* How many steps a call has at most before it.
Rank == [idle |-> 0, login_exam_ok |-> 3, login_student_ok |-> 2, login_marked |-> 1,
         save_active |-> 2, save_locked |-> 1, submit_active |-> 2, submit_exam_ok |-> 1,
         force_loaded |-> 2, force_done |-> 1, delete_loaded |-> 1, exam_loaded |-> 1,
         ws_verified |-> 1]

\* A call that has begun only ever moves on, at most three steps: nobody sends it back,
\* and no handler retries.
THEOREM CallsOnlyMoveOn ==
  Spec => [][\A r \in Req : req[r].pc # "idle" =>
               req'[r] = req[r] \/ Rank[req'[r].pc] < Rank[req[r].pc]]_vars
<1>1. ASSUME TypeOK, [Next]_vars, NEW r \in Req, req[r].pc # "idle", req'[r] # req[r]
      PROVE  Rank[req'[r].pc] < Rank[req[r].pc]
  <2>1. ASSUME NEW q \in Req, Call(q) PROVE FALSE
    BY <1>1, <2>1 DEF Call, LoginStart, SaveStart, SubmitStart, ForceStart, DeleteStart, WsVerify,
                ExamStart, Start, TypeOK
  <2>2. ASSUME NEW q \in Req, Proceed(q), q # r PROVE FALSE
    BY <1>1, <2>2 DEF Proceed, Answer, LoginLoad, LoginMark, LoginReply, SaveLock, SaveCommit,
           SubmitReadExam, SubmitCommit, ForceCommit, ForceTell, DeleteCommit, ExamCommit,
           WsRegister, Fail, Goto, Finish, TypeOK
  <2>3. CASE Proceed(r)
    <3>1. CASE req'[r] = Idle
      BY <1>1, <3>1 DEF Idle, At, Rank, TypeOK, Request, Steps
    <3>2. CASE LoginLoad(r) \/ LoginMark(r)
      BY <1>1, <3>1, <3>2 DEF LoginLoad, LoginMark, Goto, At, Rank, TypeOK
    <3>3. CASE SaveLock(r) \/ SubmitReadExam(r) \/ ForceCommit(r)
      BY <1>1, <3>1, <3>3 DEF SaveLock, SubmitReadExam, ForceCommit, Goto, Finish, At, Rank, TypeOK
    <3>4. CASE LoginReply(r) \/ SaveCommit(r) \/ SubmitCommit(r) \/ ForceTell(r) \/ DeleteCommit(r)
               \/ ExamCommit(r) \/ WsRegister(r) \/ Fail(r)
      BY <1>1, <3>1, <3>4 DEF LoginReply, SaveCommit, SubmitCommit, ForceTell, DeleteCommit,
             ExamCommit, WsRegister, Fail, Finish, TypeOK
    <3> QED BY <2>3, <3>2, <3>3, <3>4 DEF Proceed, Answer
  <2>4. CASE Restart
    BY <1>1, <2>4 DEF Restart, Idle, At, Rank, TypeOK, Request, Steps
  <2>5. CASE UNCHANGED req
    BY <1>1, <2>5
  <2> QED BY <1>1, <2>1, <2>2, <2>3, <2>4, <2>5 DEF Next, WsDrop, vars
<1>2. TypeOK /\ [Next]_vars =>
        [\A r \in Req : req[r].pc # "idle" =>
           req'[r] = req[r] \/ Rank[req'[r].pc] < Rank[req[r].pc]]_vars
  BY <1>1
<1> QED BY <1>2, TypeCorrect, PTL DEF Spec

---------------------------------------------------------------------------
(* The sockets of this module are those of WsSession                      *)

OpenPapers == {s \in rows : status[s] = "in_progress"}
Handshake == [r \in Req |-> IF req[r].pc = "ws_verified" THEN req[r].who ELSE None]

\* A handshake of r begins, ends, or is none before and after.
LEMMA HandshakeMoves ==
  ASSUME TypeOK, NEW r \in Req, NEW pc \in Steps, NEW s, NEW saw,
         req' = [req EXCEPT ![r] = At(pc, s, saw)]
  PROVE  /\ pc = "ws_verified" => Handshake' = [Handshake EXCEPT ![r] = s]
         /\ pc # "ws_verified" => Handshake' = [Handshake EXCEPT ![r] = None]
         /\ pc # "ws_verified" /\ req[r].pc # "ws_verified" => Handshake' = Handshake
<1>1. /\ \A q \in Req : q # r => req'[q] = req[q]
      /\ req'[r].pc = pc /\ req'[r].who = s
  BY DEF TypeOK, At
<1>2. \A q \in Req : q # r => Handshake'[q] = Handshake[q]
  BY <1>1 DEF Handshake
<1>3. Handshake'[r] = IF pc = "ws_verified" THEN s ELSE None
  BY <1>1 DEF Handshake
<1>4. Handshake[r] = IF req[r].pc = "ws_verified" THEN req[r].who ELSE None
  BY DEF Handshake
<1>5. /\ Handshake = [q \in Req |-> Handshake[q]]
      /\ Handshake' = [q \in Req |-> Handshake'[q]]
  BY DEF Handshake
<1> HIDE DEF Handshake
<1> QED BY <1>2, <1>3, <1>4, <1>5

\* Calls that are no handshakes.
LEMMA HandshakeApart ==
  ASSUME TypeOK, NEW r \in Req, NEW from \in Steps \ {"ws_verified"},
         NEW to \in Steps \ {"ws_verified"}
  PROVE  /\ \A s, saw : Start(r, to, s, saw) => Handshake' = Handshake
         /\ Goto(r, from, to) => Handshake' = Handshake
         /\ Finish(r, from) => Handshake' = Handshake
<1>1. ASSUME NEW s, NEW saw, Start(r, to, s, saw) PROVE Handshake' = Handshake
  BY <1>1, HandshakeMoves DEF Start
<1>2. ASSUME Goto(r, from, to) PROVE Handshake' = Handshake
  BY <1>2, HandshakeMoves DEF Goto
<1>3. ASSUME Finish(r, from) PROVE Handshake' = Handshake
  BY <1>3, HandshakeMoves DEF Finish, Idle, Steps
<1> QED BY <1>1, <1>2, <1>3

\* The steps of the board, in the terms of this module.
LEMMA BoardActions ==
  ASSUME NEW r \in Req, NEW s \in Student
  PROVE  /\ Handshake[r] = None /\ s \in OpenPapers \ online
            /\ Handshake' = [Handshake EXCEPT ![r] = s]
            /\ UNCHANGED <<OpenPapers, online, everOnline>> => Board!Next
         /\ Handshake[r] # None /\ online' = online \cup {Handshake[r]}
            /\ everOnline' = everOnline \cup {Handshake[r]}
            /\ Handshake' = [Handshake EXCEPT ![r] = None]
            /\ UNCHANGED OpenPapers => Board!Next
         /\ Handshake[r] # None /\ Handshake' = [Handshake EXCEPT ![r] = None]
            /\ UNCHANGED <<OpenPapers, online, everOnline>> => Board!Next
<1>1. ASSUME Handshake[r] = None, s \in OpenPapers \ online,
             Handshake' = [Handshake EXCEPT ![r] = s], UNCHANGED <<OpenPapers, online, everOnline>>
      PROVE  Board!Admit(r, s)
  BY <1>1 DEF Board!Admit, OpenPapers, Handshake
<1>2. ASSUME Handshake[r] # None, online' = online \cup {Handshake[r]},
             everOnline' = everOnline \cup {Handshake[r]},
             Handshake' = [Handshake EXCEPT ![r] = None], UNCHANGED OpenPapers
      PROVE  Board!Register(r)
  BY <1>2 DEF Board!Register, OpenPapers, Handshake
<1>3. ASSUME Handshake[r] # None, Handshake' = [Handshake EXCEPT ![r] = None],
             UNCHANGED <<OpenPapers, online, everOnline>>
      PROVE  Board!Abandon(r)
  BY <1>3 DEF Board!Abandon, OpenPapers, Handshake
<1>4. Board!Admit(r, s) \/ Board!Register(r) \/ Board!Abandon(r) => Board!Next
  BY DEF Board!Next
<1> QED BY <1>1, <1>2, <1>3, <1>4

LEMMA PaperMoves ==
  ASSUME NEW s \in Student, OpenPapers' \in {OpenPapers, OpenPapers \cup {s}, OpenPapers \ {s}},
         UNCHANGED <<online, everOnline, Handshake>>
  PROVE  Board!Next \/ UNCHANGED Board!vars
<1>1. CASE OpenPapers' = OpenPapers
  BY <1>1 DEF Board!vars, OpenPapers, Handshake
<1>2. CASE OpenPapers' \in {OpenPapers \cup {s}, OpenPapers \ {s}}
  BY <1>2 DEF Board!Next, Board!Paper, OpenPapers, Handshake
<1> QED BY <1>1, <1>2

\* Only the paper of s may have been opened or closed.
LEMMA OpenMoves ==
  ASSUME TypeOK, NEW s \in Student,
         \A t \in Student : t # s => (t \in rows' <=> t \in rows) /\ status'[t] = status[t],
         rows' \subseteq Student
  PROVE  OpenPapers' \in {OpenPapers, OpenPapers \cup {s}, OpenPapers \ {s}}
<1>1. \A t : t # s => (t \in OpenPapers' <=> t \in OpenPapers)
  BY DEF OpenPapers, TypeOK
<1>2. CASE s \in OpenPapers'
  BY <1>1, <1>2
<1>3. CASE s \notin OpenPapers'
  BY <1>1, <1>3
<1> HIDE DEF OpenPapers
<1> QED BY <1>2, <1>3

LEMMA BoardCall ==
  ASSUME TypeOK, NEW r \in Req, Call(r)
  PROVE  Board!Next \/ UNCHANGED Board!vars
<1>1. UNCHANGED <<OpenPapers, online, everOnline>>
  BY DEF Call, LoginStart, SaveStart, SubmitStart, ForceStart, DeleteStart, WsVerify, ExamStart,
         paper, sockets, OpenPapers
<1>2. ASSUME NEW s \in Student, WsVerify(r, s) PROVE Board!Next
  <2>1. Handshake[r] = None
    BY <1>2 DEF WsVerify, Start, Handshake
  <2>2. Handshake' = [Handshake EXCEPT ![r] = s]
    BY <1>2, HandshakeMoves DEF WsVerify, Start, Steps
  <2>3. s \in OpenPapers \ online
    BY <1>2 DEF WsVerify, OpenPapers
  <2> QED BY <1>1, <2>1, <2>2, <2>3, BoardActions
<1>3. CASE \/ \E s \in Student : \/ LoginStart(r, s) \/ SaveStart(r, s) \/ SubmitStart(r, s)
                                 \/ ForceStart(r, s) \/ DeleteStart(r, s)
           \/ ExamStart(r)
  <2>1. PICK pc \in Steps \ {"ws_verified"} : \E s, saw : Start(r, pc, s, saw)
    BY <1>3 DEF LoginStart, SaveStart, SubmitStart, ForceStart, DeleteStart, ExamStart, Steps
  <2>2. Handshake' = Handshake
    BY <2>1, HandshakeApart
  <2> QED BY <1>1, <2>2 DEF Board!vars, OpenPapers, Handshake
<1> QED BY <1>2, <1>3 DEF Call

LEMMA BoardProceed ==
  ASSUME TypeOK, NEW r \in Req, Proceed(r)
  PROVE  Board!Next \/ UNCHANGED Board!vars
<1> DEFINE s == req[r].who
<1>1. CASE WsRegister(r)
  <2>1. s \in Student /\ Handshake[r] = s /\ s # None
    BY <1>1, NoneAssumption DEF WsRegister, Finish, Handshake, TypeOK
  <2>2. Handshake' = [Handshake EXCEPT ![r] = None]
    BY <1>1, HandshakeMoves DEF WsRegister, Finish, Idle, Steps
  <2>3. /\ online' = online \cup {s} /\ everOnline' = everOnline \cup {s}
        /\ OpenPapers' = OpenPapers
    BY <1>1 DEF WsRegister, OpenPapers, paper
  <2> QED BY <2>1, <2>2, <2>3, BoardActions
<1>2. CASE Fail(r)
  <2>1. UNCHANGED <<OpenPapers, online, everOnline>>
    BY <1>2 DEF Fail, OpenPapers, paper, sockets
  <2>2. Handshake' = [Handshake EXCEPT ![r] = None]
    BY <1>2, HandshakeMoves DEF Fail, Idle, Steps
  <2>3. CASE req[r].pc = "ws_verified"
    <3>1. s \in Student /\ Handshake[r] # None
      BY <2>3, NoneAssumption DEF Handshake, TypeOK
    <3> QED BY <2>1, <2>2, <3>1, BoardActions
  <2>4. CASE req[r].pc # "ws_verified"
    <3>1. Handshake' = Handshake
      BY <1>2, <2>4, HandshakeMoves DEF Fail, Idle, Steps
    <3> QED BY <2>1, <3>1 DEF Board!vars, OpenPapers, Handshake
  <2> QED BY <2>3, <2>4
<1>3. CASE LoginMark(r) \/ SaveCommit(r) \/ SubmitCommit(r) \/ ForceCommit(r) \/ DeleteCommit(r)
  <2>1. s \in Student
    BY <1>3 DEF LoginMark, SaveCommit, SubmitCommit, ForceCommit, DeleteCommit, Goto, Finish, TypeOK
  <2>2. /\ \A t \in Student : t # s => (t \in rows' <=> t \in rows) /\ status'[t] = status[t]
        /\ rows' \subseteq Student
    BY <1>3, <2>1 DEF LoginMark, SaveCommit, SubmitCommit, ForceCommit, DeleteCommit, TypeOK
  <2>3. UNCHANGED <<online, everOnline>>
    BY <1>3 DEF LoginMark, SaveCommit, SubmitCommit, ForceCommit, DeleteCommit, sockets
  <2>4. Handshake' = Handshake
    <3>1. CASE LoginMark(r)
      BY <3>1, HandshakeApart DEF LoginMark, Steps
    <3>2. CASE ForceCommit(r)
      BY <3>2, HandshakeApart DEF ForceCommit, Steps
    <3>3. CASE SaveCommit(r) \/ SubmitCommit(r) \/ DeleteCommit(r)
      BY <3>3, HandshakeApart DEF SaveCommit, SubmitCommit, DeleteCommit, Steps
    <3> QED BY <1>3, <3>1, <3>2, <3>3
  <2>5. OpenPapers' \in {OpenPapers, OpenPapers \cup {s}, OpenPapers \ {s}}
    BY <2>1, <2>2, OpenMoves
  <2> QED BY <2>1, <2>3, <2>4, <2>5, PaperMoves
<1>4. CASE LoginLoad(r) \/ LoginReply(r) \/ SaveLock(r) \/ SubmitReadExam(r) \/ ForceTell(r)
           \/ ExamCommit(r)
  <2>1. UNCHANGED <<OpenPapers, online, everOnline>>
    BY <1>4 DEF LoginLoad, LoginReply, SaveLock, SubmitReadExam, ForceTell, ExamCommit, OpenPapers,
                paper, sockets
  <2>2. Handshake' = Handshake
    <3>1. CASE LoginLoad(r)
      BY <3>1, HandshakeMoves DEF LoginLoad, Idle, Steps
    <3>2. CASE SaveLock(r)
      BY <3>2, HandshakeApart DEF SaveLock, Steps
    <3>3. CASE SubmitReadExam(r)
      BY <3>3, HandshakeApart DEF SubmitReadExam, Steps
    <3>4. CASE LoginReply(r) \/ ForceTell(r) \/ ExamCommit(r)
      BY <3>4, HandshakeApart DEF LoginReply, ForceTell, ExamCommit, Steps
    <3> QED BY <1>4, <3>1, <3>2, <3>3, <3>4
  <2> QED BY <2>1, <2>2 DEF Board!vars, OpenPapers, Handshake
<1> QED BY <1>1, <1>2, <1>3, <1>4 DEF Proceed, Answer

\* Who is on the board, and who ever was, changes here in the steps SocketBoard has and
\* in no other: the same board that WsSession's endpoints implement.
THEOREM BoardImplemented == Spec => ImplementsBoard
<1>1. Init => Board!Init
  BY DEF Init, Board!Init, Idle, At
<1>2. ASSUME TypeOK, [Next]_vars PROVE Board!Next \/ UNCHANGED Board!vars
  <2>1. ASSUME NEW s \in Student, WsDrop(s) PROVE Board!Next
    BY <2>1 DEF WsDrop, paper, Board!Next, Board!Drop
  <2>2. CASE Restart
    <3>1. /\ online' = {} /\ everOnline' = {} /\ OpenPapers' = OpenPapers
          /\ Handshake' = [r \in Req |-> None]
      BY <2>2 DEF Restart, paper, OpenPapers, Handshake, Idle, At
    <3> QED BY <3>1 DEF Board!Next, Board!Restart, OpenPapers, Handshake
  <2>3. CASE UNCHANGED vars
    BY <2>3 DEF vars, paper, sockets, Board!vars
  <2> QED BY <1>2, <2>1, <2>2, <2>3, BoardCall, BoardProceed DEF Next
<1>3. TypeOK /\ [Next]_vars => [Board!Next]_(Board!vars)
  BY <1>2
<1> QED BY <1>1, <1>3, TypeCorrect, PTL DEF Spec, ImplementsBoard, Board!Spec
=============================================================================
