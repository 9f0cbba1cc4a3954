---------------------------- MODULE ProblemBank ----------------------------
(***************************************************************************)
(* The problems of one exam: the routes of app/routers/problems.py, the   *)
(* broadcast of a new problem to the students online                      *)
(* (app/services/websocket.py), the code rows that hang on a problem, and *)
(* the export that reads them all (app/routers/admin.py,                   *)
(* app/utils/export.py).                                                   *)
(*                                                                         *)
(* A request reads, validates what it read, and commits at a later await, *)
(* without a lock.  A session keeps the rows it loaded after its commit   *)
(* (expire_on_commit=False), so create_problem decides whether to         *)
(* broadcast by the exam's status as it was before the commit.            *)
(*                                                                         *)
(* Of the options only what validate_choice_problem tells apart is kept:  *)
(* how many are correct, 0 also standing for fewer than two options or    *)
(* none at all, and 2 for two correct ones or more.  A login is its check *)
(* and its commit here; connecting and handing in are single steps, and   *)
(* the gate on monitoring is left out: StudentPaper and WsSession have    *)
(* them in detail.  Of the archive the code files are kept, and who is    *)
(* listed as what; the names of files and folders, the logs and the       *)
(* summaries are left out.                                                 *)
(***************************************************************************)
EXTENDS Naturals

CONSTANTS Problem,      \* identifiers, each given to one row at most
          Student,
          Req,          \* slots for requests in flight
          None,
          Unset,        \* a field the client left out, a column an UPDATE does not name
          Type,         \* the problem types in use
          MaxRequests   \* bound: requests started

ProblemType == {"coding", "fill_blank", "single_choice", "multiple_choice"}
Options == 0..2

ASSUME TypeAssumption == Type \subseteq ProblemType
ASSUME NoneAssumption == None \notin Nat \cup Problem \cup Student /\ None \notin Type
ASSUME RowAssumption == None \notin [type : Type, options : Options]
ASSUME UnsetAssumption == Unset \notin Nat \cup {None} /\ Unset \notin Type

VARIABLES exam,      \* the exam's status
          bank,      \* each problem's row, or None
          gone,      \* problems deleted
          codes,     \* rows of student_codes: <<student, problem>>
          status,    \* submit_status; "handed_in" is submitted or force_submitted
          entered,   \* students whose login code is used
          knocking,  \* students of whom a login has passed its checks and not committed
          online,    \* students whose registered socket has its peer
          view,      \* the problems the server told a client of, None before the first list
          req,       \* the requests in flight
          export,    \* the export in flight
          started,   \* requests started (the bound's counter)
          passed,    \* history: clients a broadcast passed over since their last list
          unsettled  \* history: students whose paper was open to writing after a hand-in

db == <<exam, bank, gone, codes, status, entered>>
clients == <<knocking, online, view>>
history == <<started, passed, unsettled>>
vars == <<db, clients, req, export, history>>

Progress == {"not_started", "in_progress", "handed_in"}
Row(type, options) == [type |-> type, options |-> options]
Rows == [type : Type, options : Options]
CodesOf(p) == {c \in codes : c[2] = p}
CodesBy(s, rows) == {c \in rows : c[1] = s}

\* problem, row as loaded, columns to write (None: not written), exam status as
\* loaded, code rows loaded, students still to tell
Idle == [pc |-> "idle", problem |-> None, saw |-> None, writes |-> None, exam |-> None,
         codes |-> {}, tell |-> {}]

\* what an export has read so far: the students who handed in, the problems, the codes
Export(pc, over, problems, rows) ==
  [pc |-> pc, over |-> over, problems |-> problems, codes |-> rows]
NoExport == Export("idle", {}, {}, {})

validate_choice_problem(type, options) ==
  /\ type = "single_choice" => options = 1
  /\ type = "multiple_choice" => options >= 1

\* some problems may be there when the history starts
Init ==
  /\ exam = "not_started"
  /\ bank \in [Problem -> {None} \cup {row \in Rows : validate_choice_problem(row.type, row.options)}]
  /\ gone = {} /\ codes = {}
  /\ status = [s \in Student |-> "not_started"]
  /\ entered = {} /\ knocking = {}
  /\ online = {}
  /\ view = [s \in Student |-> None]
  /\ req = [r \in Req |-> Idle]
  /\ export = NoExport
  /\ started = 0 /\ passed = {} /\ unsettled = {}

Start(r, state) ==
  /\ started < MaxRequests
  /\ req[r].pc = "idle"
  /\ req' = [req EXCEPT ![r] = state]
  /\ started' = started + 1
  /\ UNCHANGED <<db, clients, export, passed, unsettled>>
Finish(r) == req' = [req EXCEPT ![r] = Idle]

---------------------------------------------------------------------------
(* Plausible faults, one for each property; Next uses none of them.       *)

\* only the options the client sent are validated
NewRow_SentOnly(saw, type, options) ==
  Row(IF options = Unset \/ type = Unset THEN "coding" ELSE type,
      IF options = Unset THEN saw.options ELSE options)

\* a new problem is announced to students who have not begun
Listeners_NotStarted == {s \in Student : status[s] = "not_started"}

\* the archive lists the students as they are when it is written (rows that expire)
generate_exam_export_LiveStatus ==
  [over |-> {s \in Student : status[s] = "handed_in"},
   files |-> {[who |-> c[1], of |-> c[2], named |-> c[2] \in export.problems] : c \in export.codes},
   empty |-> {s \in Student : CodesBy(s, export.codes) = {}}]

\* a column the client left out is written as null
Column_Reset(written, current) == IF written = Unset THEN None ELSE written

---------------------------------------------------------------------------
(* create_problem *)

CreateLoad(r, row) ==
  /\ validate_choice_problem(row.type, row.options)
  /\ Start(r, [Idle EXCEPT !.pc = "creating", !.saw = row, !.exam = exam])

\* Clients who have a list, and who did not hear of something since.
Listed == {s \in Student : view[s] # None}
PassedOver(students) == passed' = passed \cup (Listed \cap students)

\* Nobody is told of a problem whose exam was loaded before it started.
CreateCommit(r) ==
  /\ req[r].pc = "creating"
  /\ \E p \in Problem :
       /\ bank[p] = None /\ p \notin gone
       /\ bank' = [bank EXCEPT ![p] = req[r].saw]
       /\ \/ req[r].exam = "ongoing"
             /\ req' = [req EXCEPT ![r].pc = "selecting", ![r].problem = p]
          \/ req[r].exam # "ongoing" /\ Finish(r)
  /\ PassedOver(IF req[r].exam # exam THEN Student ELSE {})
  /\ UNCHANGED <<exam, gone, codes, status, entered, clients, started, unsettled, export>>

\* broadcast_new_problem: the SELECT, then a send to each that is registered
Listeners == {s \in Student : status[s] = "in_progress"}

BroadcastSelect(r) ==
  /\ req[r].pc = "selecting"
  /\ req' = [req EXCEPT ![r].pc = "sending", ![r].tell = Listeners]
  /\ PassedOver({s \in Student : status[s] # "in_progress"})
  /\ UNCHANGED <<db, clients, started, unsettled, export>>

\* A student without a socket is skipped; what is sent to a socket whose peer is gone
\* is lost, if it does not raise (Fail).
BroadcastSend(r) ==
  /\ req[r].pc = "sending"
  /\ \/ \E s \in req[r].tell :
          /\ view' = [view EXCEPT ![s] =
               IF s \in online /\ @ # None THEN @ \cup {req[r].problem} ELSE @]
          /\ req' = [req EXCEPT ![r].tell = @ \ {s}]
          /\ PassedOver({s} \ online)
     \/ req[r].tell = {} /\ Finish(r) /\ UNCHANGED <<view, passed>>
  /\ UNCHANGED <<db, knocking, online, started, unsettled, export>>

---------------------------------------------------------------------------
(* update_problem *)

NewRow(saw, type, options) ==
  Row(IF type = Unset THEN saw.type ELSE type,
      IF options = Unset THEN saw.options ELSE options)

\* The UPDATE names the columns that differ from the loaded row: options with the
\* same number of correct ones may differ or not.
UpdateLoad(r, p, type, options) ==
  LET saw == bank[p]
      writtenType == IF saw # None /\ type = saw.type THEN Unset ELSE type IN
  /\ saw # None
  /\ LET new == NewRow(saw, type, options) IN validate_choice_problem(new.type, new.options)
  /\ \E writtenOptions \in {options} \cup (IF options = saw.options THEN {Unset} ELSE {}) :
       Start(r, [Idle EXCEPT !.pc = "updating", !.problem = p, !.saw = saw,
                             !.writes = Row(writtenType, writtenOptions)])

Column(written, current) == IF written = Unset THEN current ELSE written

\* when the row is gone the UPDATE matches nothing and the request ends with an error
UpdateCommit(r) ==
  LET w == req[r].writes IN
  /\ req[r].pc = "updating"
  /\ bank' = [bank EXCEPT ![req[r].problem] =
       IF @ = None THEN None ELSE Row(Column(w.type, @.type), Column(w.options, @.options))]
  /\ Finish(r)
  /\ UNCHANGED <<exam, gone, codes, status, entered, clients, history, export>>

---------------------------------------------------------------------------
(* delete_problem, and the saves it races *)

DeleteLoad(r, p) ==
  /\ bank[p] # None
  /\ Start(r, [Idle EXCEPT !.pc = "deleting", !.problem = p, !.codes = CodesOf(p)])

\* A row saved since the load keeps the problem: problem_id is not nullable.
DeleteCommit(r) ==
  LET p == req[r].problem IN
  /\ req[r].pc = "deleting"
  /\ \/ /\ bank[p] # None /\ CodesOf(p) \subseteq req[r].codes
        /\ bank' = [bank EXCEPT ![p] = None]
        /\ gone' = gone \cup {p}
        /\ codes' = codes \ req[r].codes
     \/ /\ bank[p] = None \/ ~(CodesOf(p) \subseteq req[r].codes)
        /\ UNCHANGED <<bank, gone, codes>>
  /\ Finish(r)
  /\ UNCHANGED <<exam, status, entered, clients, history, export>>

\* save_code: who has handed in is refused, then the exam's row is awaited
SaveStart(r, s, p) ==
  /\ s \in entered /\ status[s] # "handed_in"
  /\ Start(r, [Idle EXCEPT !.pc = "waiting", !.problem = p, !.codes = {<<s, p>>}])

\* the exam's row is locked, and the checks that follow pass
SaveLock(r) ==
  /\ req[r].pc = "waiting"
  /\ \A q \in Req : req[q].pc # "saving"
  /\ exam = "ongoing"
  /\ bank[req[r].problem] # None
  /\ req' = [req EXCEPT ![r].pc = "saving"]
  /\ UNCHANGED <<db, clients, history, export>>

\* the foreign key refuses the row when the problem is gone
SaveCommit(r) ==
  /\ req[r].pc = "saving"
  /\ codes' = IF bank[req[r].problem] = None THEN codes ELSE codes \cup req[r].codes
  /\ Finish(r)
  /\ UNCHANGED <<exam, bank, gone, status, entered, clients, history, export>>

---------------------------------------------------------------------------
(* Whom the broadcasts of these requests have not reached yet *)
Untold(R) ==
  {s \in Student : \E r \in R :
     req[r].pc = "selecting" \/ (req[r].pc = "sending" /\ s \in req[r].tell)}

\* The request ends with what it has committed and no more: a check refused it, the
\* database failed at an await, or a send raised.
Fail(r) ==
  /\ req[r].pc # "idle"
  /\ PassedOver(Untold({r}))
  /\ Finish(r)
  /\ UNCHANGED <<db, clients, started, unsettled, export>>

---------------------------------------------------------------------------
(* export_exam: each SELECT sees what is committed by then *)

ExportStudents ==
  /\ export.pc = "idle"
  /\ started < MaxRequests
  /\ started' = started + 1
  /\ export' = Export("students", {s \in Student : status[s] = "handed_in"}, {}, {})
  /\ UNCHANGED <<db, clients, req, passed, unsettled>>

ExportProblems ==
  /\ export.pc = "students"
  /\ export' = Export("problems", export.over, {p \in Problem : bank[p] # None}, {})
  /\ UNCHANGED <<db, clients, req, history>>

ExportCodes ==
  /\ export.pc = "problems"
  /\ export' = Export("codes", export.over, export.problems, codes)
  /\ UNCHANGED <<db, clients, req, history>>

\* generate_exam_export: who is listed as having handed in, a file for each code, named
\* after its problem when that was read, and the folders that say "no code at all"
generate_exam_export ==
  [over |-> export.over,
   files |-> {[who |-> c[1], of |-> c[2], named |-> c[2] \in export.problems] : c \in export.codes},
   empty |-> {s \in Student : CodesBy(s, export.codes) = {}}]

\* the logs are read, the archive is made and sent
ExportArchive ==
  /\ export.pc = "codes"
  /\ export' = NoExport
  /\ UNCHANGED <<db, clients, req, history>>

---------------------------------------------------------------------------
(* The exam, the students and their connections *)

\* update_exam in one step (ExamLifecycle has its steps); the row is locked while a
\* save is in flight
ExamMoves ==
  /\ \A r \in Req : req[r].pc # "saving"
  /\ \/ exam = "not_started" /\ exam' = "ongoing"
     \/ exam = "ongoing" /\ exam' = "ended"
  /\ UNCHANGED <<bank, gone, codes, status, entered, clients, req, history, export>>

\* student_login: the checks; the commit, whatever the paper has become meanwhile.
\* Another login with the same code may still be between the two.
LoginCheck(s) ==
  /\ exam = "ongoing" /\ s \notin entered
  /\ knocking' = knocking \cup {s}
  /\ UNCHANGED <<db, online, view, req, history, export>>

LoginCommit(s) ==
  /\ s \in knocking
  /\ knocking' \in {knocking, knocking \ {s}}
  /\ entered' = entered \cup {s}
  /\ status' = [status EXCEPT ![s] = "in_progress"]
  /\ unsettled' = unsettled \cup {t \in {s} : status[t] = "handed_in"}
  /\ UNCHANGED <<exam, bank, gone, codes, online, view, req, started, passed, export>>

HandedIn(s) ==
  /\ status' = [status EXCEPT ![s] = "handed_in"]
  /\ unsettled' = unsettled \cup {t \in {s} : \E r \in Req :
                     req[r].pc \in {"waiting", "saving"} /\ CodesBy(t, req[r].codes) # {}}
  /\ UNCHANGED <<exam, bank, gone, codes, entered, clients, req, started, passed, export>>

submit_exam(s) == exam = "ongoing" /\ status[s] = "in_progress" /\ HandedIn(s)

\* the administrator may force any paper, one that was not begun too
force_submit(s) == HandedIn(s)

Connect(s) ==
  /\ status[s] = "in_progress" /\ s \notin online
  /\ online' = online \cup {s}
  /\ UNCHANGED <<db, knocking, view, req, history, export>>

\* The peer is gone, noticed or not, or the connection is unregistered.  A client that
\* comes back need not list again.
Disconnect(s) ==
  /\ s \in online
  /\ online' = online \ {s}
  /\ UNCHANGED <<db, knocking, view, req, history, export>>

\* The list in the answer to the login, or get_student_problems: neither needs a socket.
\* The client counts as told from the SELECT on.
List(s) ==
  /\ s \in entered
  /\ view' = [view EXCEPT ![s] = {p \in Problem : bank[p] # None}]
  /\ passed' = passed \ {s}
  /\ UNCHANGED <<db, knocking, online, req, started, unsettled, export>>

\* the process: requests and connections are in memory
Restart ==
  /\ PassedOver(Untold(Req))
  /\ req' = [r \in Req |-> Idle]
  /\ online' = {}
  /\ knocking' = {}
  /\ export' = NoExport
  /\ UNCHANGED <<db, view, started, unsettled>>

Next ==
  \/ \E r \in Req :
       \/ \E row \in Rows : CreateLoad(r, row)
       \/ \E p \in Problem, type \in Type \cup {Unset}, options \in Options \cup {Unset} :
            UpdateLoad(r, p, type, options)
       \/ \E p \in Problem : DeleteLoad(r, p)
       \/ \E s \in Student, p \in Problem : SaveStart(r, s, p)
       \/ CreateCommit(r) \/ BroadcastSelect(r) \/ BroadcastSend(r)
       \/ UpdateCommit(r) \/ DeleteCommit(r) \/ SaveLock(r) \/ SaveCommit(r)
       \/ Fail(r)
  \/ ExportStudents \/ ExportProblems \/ ExportCodes \/ ExportArchive
  \/ ExamMoves
  \/ \E s \in Student :
       \/ LoginCheck(s) \/ LoginCommit(s) \/ submit_exam(s) \/ force_submit(s)
       \/ Connect(s) \/ Disconnect(s) \/ List(s)
  \/ Restart

Spec == Init /\ [][Next]_vars

---------------------------------------------------------------------------
(* Properties *)

TypeOK ==
  /\ exam \in {"not_started", "ongoing", "ended"}
  /\ bank \in [Problem -> Rows \cup {None}]
  /\ gone \subseteq Problem
  /\ codes \subseteq Student \X Problem
  /\ status \in [Student -> Progress]
  /\ entered \subseteq Student /\ knocking \subseteq Student
  /\ online \subseteq Student
  /\ \A s \in Student : view[s] # None => view[s] \subseteq Problem
  /\ \A r \in Req : req[r].tell \subseteq Student /\ req[r].codes \subseteq Student \X Problem
  /\ export.pc \in {"idle", "students", "problems", "codes"}
  /\ export.over \subseteq Student /\ export.problems \subseteq Problem /\ export.codes \subseteq Student \X Problem
  /\ started \in Nat
  /\ passed \subseteq Student /\ unsettled \subseteq Student

\* A stored choice problem is one that can be marked: a single choice has one
\* correct option, a multiple choice at least one ("单选题必须有且只有一个正确答案",
\* problems.py:57), although an update sends the type or the options alone.  However
\* requests overlap, one thing breaks it and nothing else does: an update that
\* validated the problem against a row that has changed since.
Markable(row) ==
  /\ row.type = "single_choice" => row.options = 1
  /\ row.type = "multiple_choice" => row.options >= 1
OnlyStaleReadsBreak ==
  [][\A p \in Problem :
       bank'[p] # bank[p] /\ bank'[p] # None /\ ~Markable(bank'[p]) =>
         \E r \in Req : req[r].pc = "updating" /\ req[r].problem = p /\ req[r].saw # bank[p]]_vars

\* While the exam runs, once create_problem is done with a problem every client that
\* has listed the problems knows of it, by its list or by the broadcast ("向指定考试的
\* 所有在线考生广播新题目通知", websocket.py:262), however requests, logins, lists and
\* connections overlap.  What makes a client miss one, until it lists again, is this
\* and nothing else: its student was not answering when the listeners were selected,
\* it had no live socket when its turn came, the broadcast ended before its turn, or
\* the exam moved on between the load and the commit of the create_problem.
NewProblemIsHeard ==
  exam = "ongoing" =>
    \A p \in Problem, s \in Student \ passed :
      /\ bank[p] # None /\ view[s] # None
      /\ \A r \in Req : req[r].pc \in {"selecting", "sending"} => req[r].problem # p
      => p \in view[s]

\* What is marked is what was handed in: whom an archive lists as handed in, it has
\* with every code he has, and none of his changes after the archive was read
\* ("打包所有考生代码", admin.py:1054); but for a problem deleted meanwhile, a save that
\* was under way at his hand-in, from its first check on, and a paper that a login
\* opened again.
HandedInIsComplete ==
  [][ExportArchive =>
       \A s \in generate_exam_export.over \ unsettled, p \in Problem :
         bank[p] # None =>
           (<<s, p>> \in codes <=>
              \E f \in generate_exam_export.files : f.who = s /\ f.of = p)]_vars
=============================================================================
