---------------------------- MODULE StudentPaper ----------------------------
(***************************************************************************)
(* One exam, its students and the HTTP requests that decide what is in a  *)
(* student's paper: login, save code, hand in, forced hand-in, deletion,  *)
(* the exam's status changes, and the part of the WebSocket that the save *)
(* and hand-in rules read (who is connected, who ever was).               *)
(*                                                                         *)
(* A handler runs in one asyncio process but gives way at every await, so *)
(* a request is a sequence of steps: what it reads from PostgreSQL (READ  *)
(* COMMITTED) it keeps in req[r] while others run.  A slot r \in Req      *)
(* serves one request after the other: |Req| = 1 is the system with no    *)
(* overlap, |Req| = 2 lets any two requests interleave.  An UPDATE that   *)
(* is followed by COMMIT holds its row lock to the end, so the two are one *)
(* step.  The only lock held across awaits is the exam row's, taken by    *)
(* save_code with SELECT ... FOR UPDATE.                                  *)
(*                                                                         *)
(* Left out: operation logs (OperationLogs), login_time and submit_time,  *)
(* the problem a code row belongs to (one row per student stands for all), *)
(* JWT expiry (a client that never calls again) and the rate limits (they *)
(* only refuse requests).                                                  *)
(***************************************************************************)
EXTENDS Naturals

CONSTANTS Student,      \* the rows the import created for this exam
          Req,          \* slots for requests in flight
          None,
          MaxRequests,  \* bound: how many requests are ever started,
          MaxAlone      \* and how many as long as they come one at a time

ASSUME NoneAssumption == None \notin Student \cup Req
ASSUME BoundsAssumption == MaxRequests \in Nat /\ MaxAlone \in Nat

VARIABLES
  exam,          \* Exam.status
  lock,          \* the request that holds the exam row FOR UPDATE, or None
  rows,          \* the students whose row exists
  status,        \* Student.submit_status
  codeUsed,      \* Student.login_code_used
  code,          \* how many writes the student's code rows have taken
  signedIn,      \* the students whose client holds a JWT
  online,        \* keys of ws_manager.student_id_to_token
  everOnline,    \* ws_manager.ever_connected_students
  told,          \* connected students that got the force_submit frame
  req,           \* the requests in flight
  started,       \* requests started so far (the bound's counter)
  alone,         \* history: so far requests came one at a time
  cutOff,        \* history: requests that ended between their first commit and their last step
  logins,        \* history: committed logins of each student
  submits        \* history: committed hand-ins of each student

paper == <<rows, status, codeUsed, code>>
sockets == <<online, everOnline, told>>
history == <<logins, submits, cutOff>>
begun == <<started, alone>>
vars == <<exam, lock, paper, signedIn, sockets, req, begun, history>>

ExamStatus == {"not_started", "ongoing", "ended"}
SubmitStatus == {"not_started", "in_progress", "submitted", "force_submitted"}
HandedIn == {"submitted", "force_submitted"}

Steps == {"idle", "login_exam_ok", "login_student_ok", "login_marked",
          "save_active", "save_locked", "submit_active", "submit_exam_ok",
          "force_loaded", "force_done", "delete_loaded", "exam_loaded",
          "ws_verified"}
\* the first commit is made, and more is to come
HalfDone == {"login_marked", "force_done"}
Authenticated == {"login_marked", "save_active", "save_locked", "submit_active",
                  "submit_exam_ok", "ws_verified"}

\* saw: the student status or the exam status the handler loaded and still uses
Request == [pc : Steps, who : Student \cup {None},
            saw : SubmitStatus \cup ExamStatus \cup {None}]
At(pc, who, saw) == [pc |-> pc, who |-> who, saw |-> saw]
Idle == At("idle", None, None)

Init ==
  /\ exam = "not_started"
  /\ lock = None
  /\ rows = Student
  /\ status = [s \in Student |-> "not_started"]
  /\ codeUsed = [s \in Student |-> FALSE]
  /\ code = [s \in Student |-> 0]
  /\ signedIn = {}
  /\ online = {} /\ everOnline = {} /\ told = {}
  /\ req = [r \in Req |-> Idle]
  /\ started = 0
  /\ alone = TRUE
  /\ cutOff = {}
  /\ logins = [s \in Student |-> 0]
  /\ submits = [s \in Student |-> 0]

---------------------------------------------------------------------------
(* Moving a request along.  A refusal before the first await changes      *)
(* nothing and is no step.                                                 *)

Start(r, pc, who, saw) ==
  /\ req[r].pc = "idle"
  /\ alone' = (alone /\ \A q \in Req : req[q].pc = "idle")
  /\ started < MaxRequests \/ (alone' /\ started < MaxAlone)
  /\ started' = started + 1
  /\ req' = [req EXCEPT ![r] = At(pc, who, saw)]

Goto(r, from, to) ==
  /\ req[r].pc = from
  /\ req' = [req EXCEPT ![r] = At(to, req[r].who, req[r].saw)]
  /\ UNCHANGED begun

Finish(r, from) ==
  /\ req[r].pc = from
  /\ req' = [req EXCEPT ![r] = Idle]
  /\ UNCHANGED begun

\* the ORM writes a column only when it differs from what the handler loaded
Written(loaded, new, current) == IF loaded = new THEN current ELSE new

---------------------------------------------------------------------------
(* Plausible faults, one for each property; Next uses none of them.  Each *)
(* is the action whose name it starts with, gone wrong.                    *)

\* the exam's status is looked at once more before the reply
LoginReply_LateCheck(r) ==
  /\ req[r].who \in rows
  /\ Finish(r, "login_marked")
  /\ signedIn' = signedIn \cup {s \in {req[r].who} : exam = "ongoing"}
  /\ UNCHANGED <<exam, lock, paper, sockets, history>>

\* a plain SELECT, without FOR UPDATE
SaveLock_PlainSelect(r) ==
  /\ \/ exam = "ongoing" /\ req[r].who \in everOnline /\ Goto(r, "save_active", "save_locked")
     \/ ~(exam = "ongoing" /\ req[r].who \in everOnline) /\ Finish(r, "save_active")
  /\ UNCHANGED <<exam, lock, paper, signedIn, sockets, history>>

\* the monitoring gate is missing
SaveLock_NoGate(r) ==
  /\ lock = None
  /\ \/ exam = "ongoing" /\ lock' = r /\ Goto(r, "save_active", "save_locked")
     \/ exam # "ongoing" /\ UNCHANGED lock /\ Finish(r, "save_active")
  /\ UNCHANGED <<exam, paper, signedIn, sockets, history>>

\* a refusal leaves the transaction open
SaveLock_RefusalKeepsLock(r) ==
  LET accepted == exam = "ongoing" /\ req[r].who \in everOnline IN
  /\ lock = None
  /\ lock' = r
  /\ \/ accepted /\ Goto(r, "save_active", "save_locked")
     \/ ~accepted /\ Finish(r, "save_active")
  /\ UNCHANGED <<exam, paper, signedIn, sockets, history>>

\* the exam's status is not looked at
SubmitReadExam_AnyStatus(r) ==
  /\ Goto(r, "submit_active", "submit_exam_ok")
  /\ UNCHANGED <<exam, lock, paper, signedIn, sockets, history>>

\* UPDATE by id alone, as before the repository's TOCTOU fix
SubmitCommit_ById(r) ==
  LET s == req[r].who IN
  /\ Finish(r, "submit_exam_ok")
  /\ status' = [status EXCEPT ![s] = "submitted"]
  /\ submits' = [submits EXCEPT ![s] = @ + 1]
  /\ UNCHANGED <<exam, lock, rows, codeUsed, code, signedIn, sockets, logins, cutOff>>

\* verify_token takes any student that has the token
WsVerify_AnyStatus(r, s) ==
  /\ s \in signedIn /\ s \in rows
  /\ s \notin online
  /\ Start(r, "ws_verified", s, None)
  /\ UNCHANGED <<exam, lock, paper, signedIn, sockets, history>>

\* connect fills the maps but not ever_connected_students
WsRegister_NotRemembered(r) ==
  /\ Finish(r, "ws_verified")
  /\ online' = online \cup {req[r].who}
  /\ told' = told \ {req[r].who}
  /\ UNCHANGED <<exam, lock, paper, signedIn, everOnline, history>>

---------------------------------------------------------------------------
\* require_student: the JWT names a row that exists; _check_student_active is
\* made on the row loaded here, before the next await
Active(s) == s \in signedIn /\ s \in rows /\ status[s] \notin HandedIn

---------------------------------------------------------------------------
(* student_login *)

LoginStart(r, s) ==
  /\ exam = "ongoing"
  /\ Start(r, "login_exam_ok", s, None)
  /\ UNCHANGED <<exam, lock, paper, signedIn, sockets, history>>

LoginLoad(r) ==
  LET s == req[r].who
      accepted == s \in rows /\ ~codeUsed[s] IN
  /\ req[r].pc = "login_exam_ok"
  /\ \/ accepted /\ req' = [req EXCEPT ![r] = At("login_student_ok", s, status[s])]
     \/ ~accepted /\ req' = [req EXCEPT ![r] = Idle]
  /\ UNCHANGED <<exam, lock, paper, signedIn, sockets, begun, history>>

LoginMark(r) ==
  LET s == req[r].who IN
  /\ s \in rows
  /\ Goto(r, "login_student_ok", "login_marked")
  /\ codeUsed' = [codeUsed EXCEPT ![s] = TRUE]
  /\ status' = [status EXCEPT ![s] = Written(req[r].saw, "in_progress", @)]
  /\ logins' = [logins EXCEPT ![s] = @ + 1]
  /\ UNCHANGED <<exam, lock, rows, code, signedIn, sockets, submits, cutOff>>

\* the log row is committed and the JWT is sent
LoginReply(r) ==
  /\ req[r].who \in rows
  /\ Finish(r, "login_marked")
  /\ signedIn' = signedIn \cup {req[r].who}
  /\ UNCHANGED <<exam, lock, paper, sockets, history>>

---------------------------------------------------------------------------
(* save_code *)

SaveStart(r, s) ==
  /\ Active(s)
  /\ Start(r, "save_active", s, status[s])
  /\ UNCHANGED <<exam, lock, paper, signedIn, sockets, history>>

\* SELECT exam FOR UPDATE waits for the row; a refusal ends the transaction
SaveLock(r) ==
  LET accepted == exam = "ongoing" /\ req[r].who \in everOnline IN
  /\ lock = None
  /\ \/ accepted /\ lock' = r /\ Goto(r, "save_active", "save_locked")
     \/ ~accepted /\ UNCHANGED lock /\ Finish(r, "save_active")
  /\ UNCHANGED <<exam, paper, signedIn, sockets, history>>

SaveCommit(r) ==
  LET s == req[r].who IN
  /\ s \in rows
  /\ Finish(r, "save_locked")
  /\ lock' = None
  /\ code' = [code EXCEPT ![s] = @ + 1]
  /\ status' = [status EXCEPT ![s] = IF @ = "not_started" THEN "in_progress" ELSE @]
  /\ UNCHANGED <<exam, rows, codeUsed, signedIn, sockets, history>>

---------------------------------------------------------------------------
(* submit_exam *)

SubmitStart(r, s) ==
  /\ Active(s)
  /\ Start(r, "submit_active", s, status[s])
  /\ UNCHANGED <<exam, lock, paper, signedIn, sockets, history>>

SubmitReadExam(r) ==
  /\ \/ exam = "ongoing" /\ Goto(r, "submit_active", "submit_exam_ok")
     \/ exam # "ongoing" /\ Finish(r, "submit_active")
  /\ UNCHANGED <<exam, lock, paper, signedIn, sockets, history>>

\* UPDATE ... WHERE submit_status NOT IN (submitted, force_submitted)
SubmitCommit(r) ==
  LET s == req[r].who
      hit == s \in rows /\ status[s] \notin HandedIn IN
  /\ Finish(r, "submit_exam_ok")
  /\ \/ /\ hit
        /\ status' = [status EXCEPT ![s] = "submitted"]
        /\ submits' = [submits EXCEPT ![s] = @ + 1]
     \/ ~hit /\ UNCHANGED <<status, submits>>
  /\ UNCHANGED <<exam, lock, rows, codeUsed, code, signedIn, sockets, logins, cutOff>>

---------------------------------------------------------------------------
(* force_submit and delete_student, called by an administrator *)

ForceStart(r, s) ==
  /\ s \in rows
  /\ Start(r, "force_loaded", s, status[s])
  /\ UNCHANGED <<exam, lock, paper, signedIn, sockets, history>>

ForceCommit(r) ==
  LET s == req[r].who IN
  /\ s \in rows
  /\ Goto(r, "force_loaded", "force_done")
  /\ status' = [status EXCEPT ![s] = Written(req[r].saw, "force_submitted", @)]
  /\ UNCHANGED <<exam, lock, rows, codeUsed, code, signedIn, sockets, history>>

\* after the commit: a frame to the student's socket, if there is one now
ForceTell(r) ==
  /\ req[r].who \in rows
  /\ Finish(r, "force_done")
  /\ told' = told \cup ({req[r].who} \cap online)
  /\ UNCHANGED <<exam, lock, paper, signedIn, online, everOnline, history>>

DeleteStart(r, s) ==
  /\ s \in rows
  /\ Start(r, "delete_loaded", s, None)
  /\ UNCHANGED <<exam, lock, paper, signedIn, sockets, history>>

DeleteCommit(r) ==
  /\ Finish(r, "delete_loaded")
  /\ rows' = rows \ {req[r].who}
  /\ code' = [code EXCEPT ![req[r].who] = 0]
  /\ UNCHANGED <<exam, lock, status, codeUsed, signedIn, sockets, history>>

---------------------------------------------------------------------------
(* update_exam, its status field *)

_VALID_TRANSITIONS == [not_started |-> {"ongoing"}, ongoing |-> {"ended"}, ended |-> {}]

ExamStart(r) ==
  /\ _VALID_TRANSITIONS[exam] # {}
  /\ Start(r, "exam_loaded", None, exam)
  /\ UNCHANGED <<exam, lock, paper, signedIn, sockets, history>>

\* the plain read took no lock; the UPDATE waits for a save that holds the row
ExamCommit(r) ==
  /\ lock = None
  /\ Finish(r, "exam_loaded")
  /\ exam' \in _VALID_TRANSITIONS[req[r].saw]
  /\ UNCHANGED <<lock, paper, signedIn, sockets, history>>

---------------------------------------------------------------------------
(* The WebSocket as save_code, submit_exam and force_submit see it        *)

\* verify_token asks for IN_PROGRESS, then is_connected, with no await between
WsVerify(r, s) ==
  /\ s \in signedIn /\ s \in rows /\ status[s] = "in_progress"
  /\ s \notin online
  /\ Start(r, "ws_verified", s, None)
  /\ UNCHANGED <<exam, lock, paper, signedIn, sockets, history>>

\* ws_manager.connect, after its await on accept()
WsRegister(r) ==
  /\ Finish(r, "ws_verified")
  /\ online' = online \cup {req[r].who}
  /\ everOnline' = everOnline \cup {req[r].who}
  /\ told' = told \ {req[r].who}
  /\ UNCHANGED <<exam, lock, paper, signedIn, history>>

\* ws_manager.disconnect, for any reason; ever_connected_students keeps s
WsDrop(s) ==
  /\ s \in online
  /\ online' = online \ {s}
  /\ told' = told \ {s}
  /\ UNCHANGED <<exam, lock, paper, signedIn, everOnline, req, begun, history>>

---------------------------------------------------------------------------
CutOff(R) == {<<req[r].pc, req[r].who>> : r \in {q \in R : req[q].pc \in HalfDone}}

\* A handler that ends with an error, at any await: the database is away, the pool has
\* no connection (for a refresh or a second commit as for a first), the problem is not
\* there, the peer is gone.  PostgreSQL rolls the open transaction back and frees the
\* row lock; what is committed stays, also when only its reply is lost.
Fail(r) ==
  /\ req[r].pc # "idle"
  /\ req' = [req EXCEPT ![r] = Idle]
  /\ lock' = IF lock = r THEN None ELSE lock
  /\ cutOff' = cutOff \cup CutOff({r})
  /\ UNCHANGED <<exam, paper, signedIn, sockets, begun, logins, submits>>

\* the student's row was deleted under the handler, which can do nothing else
Bereft(r) ==
  /\ req[r].who \notin rows
  /\ req[r].pc \in {"login_student_ok", "login_marked", "save_locked", "force_loaded",
                    "force_done"}

\* The process stops and starts again: requests and ws_manager are gone, the
\* database and the clients' JWTs stay.
Restart ==
  /\ req' = [r \in Req |-> Idle]
  /\ lock' = None
  /\ online' = {} /\ everOnline' = {} /\ told' = {}
  /\ cutOff' = cutOff \cup CutOff(Req)
  /\ UNCHANGED <<exam, paper, signedIn, begun, logins, submits>>

Call(r) ==
  \/ \E s \in Student : \/ LoginStart(r, s) \/ SaveStart(r, s) \/ SubmitStart(r, s)
                        \/ ForceStart(r, s) \/ DeleteStart(r, s) \/ WsVerify(r, s)
  \/ ExamStart(r)

Answer(r) ==
  \/ LoginLoad(r) \/ LoginMark(r) \/ LoginReply(r)
  \/ SaveLock(r) \/ SaveCommit(r)
  \/ SubmitReadExam(r) \/ SubmitCommit(r)
  \/ ForceCommit(r) \/ ForceTell(r) \/ DeleteCommit(r)
  \/ ExamCommit(r) \/ WsRegister(r)

Proceed(r) == Answer(r) \/ Fail(r)

Next ==
  \/ \E r \in Req : Call(r) \/ Proceed(r)
  \/ \E s \in Student : WsDrop(s)
  \/ Restart

Spec == Init /\ [][Next]_vars

\* The event loop runs every ready handler, and PostgreSQL queues the waiters
\* on a row lock first come first served.  Nothing makes a client call, and no error is
\* counted on but the one of a row that is gone.
Fairness == \A r \in Req : SF_vars(Answer(r) \/ (Bereft(r) /\ Fail(r)))
FairSpec == Spec /\ Fairness

---------------------------------------------------------------------------
(* Properties *)

TypeOK ==
  /\ exam \in ExamStatus
  /\ lock \in Req \cup {None}
  /\ rows \subseteq Student
  /\ status \in [Student -> SubmitStatus]
  /\ codeUsed \in [Student -> BOOLEAN]
  /\ code \in [Student -> Nat]
  /\ signedIn \subseteq Student
  /\ online \subseteq everOnline /\ everOnline \subseteq Student /\ told \subseteq online
  /\ req \in [Req -> Request]
  /\ \A r \in Req : req[r].pc \notin {"idle", "exam_loaded"} => req[r].who \in Student
  /\ \A r \in Req : req[r].pc = "exam_loaded" => req[r].saw \in ExamStatus
  /\ started \in Nat
  /\ alone \in BOOLEAN
  /\ cutOff \subseteq HalfDone \X Student
  /\ logins \in [Student -> Nat]
  /\ submits \in [Student -> Nat]

\* The FOR UPDATE of save_code does its work: whatever the other requests do
\* between its reads and its commit, code is written only while the exam is
\* ongoing, never in the moment after an administrator has ended it.
NoSaveAfterEnd ==
  [][\A s \in Student : code'[s] > code[s] => exam = "ongoing" /\ exam' = "ongoing"]_vars

\* Code is written only for a student whose monitoring socket was registered in
\* this life of the process, also when the process restarts between two saves.
SavedOnlyIfMonitored ==
  [][\A s \in Student : code'[s] > code[s] => s \in everOnline]_vars

\* The conditional UPDATE of submit_exam does its work: of any number of
\* hand-ins in flight for one student at most one succeeds per login, because
\* only a login can open a paper again.
SubmitsBoundedByLogins == \A s \in Student : submits[s] <= logins[s]

\* A student shown as not_started has truly not begun: no login, no JWT, no
\* socket ever, no code, no hand-in.  So the "first save" UPDATE at the end of
\* save_code, which moves not_started to in_progress, never hits a row.
NotStartedIsUntouched ==
  \A s \in Student : status[s] = "not_started" =>
    /\ logins[s] = 0 /\ ~codeUsed[s]
    /\ s \notin signedIn /\ s \notin everOnline
    /\ code[s] = 0 /\ submits[s] = 0

\* A login code lets its holder in once ("登录码已使用", auth.py:116).
OneLoginPerCode == \A s \in Student : logins[s] <= 1

\* The code is marked used in one commit (auth.py:125) and the token is sent after a
\* refresh, a second commit and a SELECT.  Whatever requests overlap, a student whose
\* code is used holds a token, or the login is still under way, or an error or a stop
\* ended that login between the first commit and the reply.  So no refusal of a login,
\* no change of the exam and no forced hand-in leaves a student outside for good.
NobodyLockedOut ==
  \A s \in rows : codeUsed[s] =>
    \/ s \in signedIn \/ <<"login_marked", s>> \in cutOff
    \/ \E r \in Req : req[r].pc = "login_marked" /\ req[r].who = s

\* After hand-in, the student's or a forced one, the code does not change
\* ("您已交卷，无法操作", code.py:98); deleting the student removes it.
FrozenAfterHandIn ==
  [][\A s \in Student : status[s] \in HandedIn => code'[s] <= code[s]]_vars

\* A student whose paper was taken in by force and who is still connected was
\* told so over the socket, once no call is in flight ("通过 WebSocket
\* 发送强制收卷通知", admin.py:849), until two requests have overlapped, unless the call
\* itself failed after its commit.
ForcedOnlineIsTold ==
  alone /\ (\A r \in Req : req[r].pc = "idle") =>
    \A s \in online \cap rows : status[s] = "force_submitted" =>
      s \in told \/ <<"force_done", s>> \in cutOff

\* No call hangs: one that waits for the exam row gets it, so every login,
\* save, hand-in, exam change and socket handshake is answered.
EveryCallEnds == \A r \in Req : req[r].pc # "idle" ~> req[r].pc = "idle"

\* A paper that was taken in by force stays closed: "强制收卷：管理员远程终止考试"
\* (README.md:9), as the student's own hand-in does.
ForcedStaysClosed ==
  [][\A s \in rows \cap rows' : status[s] = "force_submitted" => status'[s] \in HandedIn]_vars

\* Until two requests have overlapped, the handlers implement PaperContract: one
\* login per code, no save and no second hand-in after the hand-in, nothing while
\* the exam does not run.  One step is no step of the contract, and no other: the login
\* that opens a paper taken in by force before it, which ForcedStaysClosed is about.
Contract == INSTANCE PaperContract WITH
  hall <- exam,
  phase <- [s \in Student |->
    IF s \notin rows THEN "removed"
    ELSE CASE status[s] = "not_started" -> "blank"
           [] status[s] = "in_progress" -> "writing"
           [] status[s] = "submitted" -> "handed"
           [] status[s] = "force_submitted" -> "forced"],
  text <- code,
  entered <- {s \in Student : codeUsed[s]}
Reopened == \E s \in Student : /\ status[s] = "force_submitted" /\ status'[s] = "in_progress"
                               /\ ~codeUsed[s] /\ codeUsed'[s]
ImplementsContract ==
  Contract!Init /\ [][alone' => Reopened \/ [Contract!Next]_(Contract!vars)]_vars

\* The sockets of this module, one step for each of theirs, are a SocketBoard as the
\* coroutines of WsSession are: what save_code and submit_exam find on the board here
\* is what websocket_endpoint can put there.
Board == INSTANCE SocketBoard WITH
  Conn <- Req,
  writing <- {s \in rows : status[s] = "in_progress"},
  ever <- everOnline,
  handshake <- [r \in Req |-> IF req[r].pc = "ws_verified" THEN req[r].who ELSE None]
ImplementsBoard == Board!Spec
=============================================================================
