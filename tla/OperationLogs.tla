---------------------------- MODULE OperationLogs ---------------------------
(***************************************************************************)
(* The operation log of one exam: the handlers that write a row because   *)
(* something is missing (a save refused for want of a socket, a failure   *)
(* report, a hand-in nobody monitored), the rows students report          *)
(* themselves, the deletion of a student with all rows, and what the      *)
(* administrators read: the list of logs, page by page, and the counts on *)
(* the dashboard.                                                          *)
(*                                                                         *)
(* As in StudentPaper a request is a sequence of steps from await to      *)
(* await, and a slot r \in Req serves one request after the other.  A row  *)
(* gets its time when it is flushed; flush and commit are one step, and   *)
(* no two rows have the same created_at (microseconds, one process), so   *)
(* the order of the ids is that of the times.                             *)
(*                                                                         *)
(* The exam is ongoing.  Rows of the other kinds are written like the ones *)
(* students report, in the commit of the change they record or in one     *)
(* after it.  Left out: texts, levels and addresses.                       *)
(***************************************************************************)
EXTENDS Naturals, FiniteSets

CONSTANTS Student,
          Req,          \* slots for requests in flight
          None,
          Window,       \* _BLOCK_LOG_DEDUP_WINDOW, WS_REPORT_DEDUP_WINDOW
          PageSize,     \* page_size of the client that reads the list
          MaxTime,      \* bound: the clock stops here
          MaxRequests   \* bound: how many writing requests are ever started

ASSUME NoneAssumption == None \notin Student \cup Req
ASSUME BoundsAssumption == Window \in Nat /\ MaxTime \in Nat /\ MaxRequests \in Nat
ASSUME PageAssumption == PageSize \in Nat \ {0}
ASSUME StudentAssumption == IsFiniteSet(Student)

VARIABLES
  now,      \* the clock
  rows,     \* the students whose row exists
  handed,   \* those with submit_status submitted or force_submitted
  entered,  \* those whose login code is used
  online,   \* keys of ws_manager.student_id_to_token
  ever,     \* ws_manager.ever_connected_students
  lock,     \* the request that holds the exam row FOR UPDATE, or None
  log,      \* the committed rows
  nextId,   \* OperationLog.id
  req,      \* the writing requests in flight
  started,  \* how many there have been (the bound's counter)
  reader,   \* an administrator who reads the list page by page, or the dashboard
  raced,    \* history: students that had two failure reports in flight at once
  unseen    \* history: students whose last hand-in no socket watched to the end of the call

students == <<rows, handed, entered>>
sockets == <<online, ever>>
table == <<log, nextId>>
requests == <<req, started>>
vars == <<now, students, sockets, lock, table, requests, reader, raced, unseen>>

Kind == {"websocket_never_connected", "websocket_connect_failed",
         "websocket_missing_at_submit", "other"}
Row == [id : Nat, who : Student, kind : Kind, at : Nat]

Steps == {"idle", "save", "block_lookup", "block_log", "report", "report_log",
          "submit", "submit_done", "submit_log", "login", "create", "force", "delete"}
Request == [pc : Steps, who : Student \cup {None}]
At(pc, who) == [pc |-> pc, who |-> who]
Idle == At("idle", None)

\* What a reader keeps between its reads.  count: COUNT(*) of the list, submit_count
\* of the dashboard; page: of the list.  History: unread, the rows that were there when
\* the reading began and were on no page yet; torn, what is read has changed between two
\* reads that should agree; gone and reopened, the students deleted and the papers opened
\* again since the dashboard counted the papers.
Reader == [pc : {"closed", "asking", "counted", "submits_counted"},
           page : Nat, count : Nat, unread : SUBSET Row, torn : BOOLEAN,
           gone : Nat, reopened : Nat]
Reading(pc, page, count, unread, torn) ==
  [pc |-> pc, page |-> page, count |-> count, unread |-> unread, torn |-> torn,
   gone |-> 0, reopened |-> 0]
Closed == Reading("closed", 0, 0, {}, FALSE)

\* a change tears a reading of the list that is at one of the given points
Tear(points) == reader' = [reader EXCEPT !.torn = @ \/ reader.pc \in points]
Removed(s) ==
  reader' = [reader EXCEPT
    !.torn = @ \/ reader.pc \in {"asking", "counted"},
    !.gone = IF reader.pc = "submits_counted" /\ s \in rows THEN @ + 1 ELSE @]
Reopened(s) ==
  reader' = [reader EXCEPT
    !.reopened = IF reader.pc = "submits_counted" /\ s \in handed THEN @ + 1 ELSE @]

Init ==
  /\ now = 0
  /\ rows = Student /\ handed = {} /\ entered \in SUBSET Student
  /\ online = {} /\ ever = {}
  /\ lock = None
  /\ log = {} /\ nextId = 1
  /\ req = [r \in Req |-> Idle] /\ started = 0
  /\ reader = Closed
  /\ raced = {} /\ unseen = {}

---------------------------------------------------------------------------
Start(r, pc, s) ==
  /\ req[r].pc = "idle"
  /\ started < MaxRequests
  /\ started' = started + 1
  /\ req' = [req EXCEPT ![r] = At(pc, s)]

Goto(r, from, to) ==
  /\ req[r].pc = from
  /\ req' = [req EXCEPT ![r] = At(to, req[r].who)]
  /\ UNCHANGED started

Finish(r, from) ==
  /\ req[r].pc = from
  /\ req' = [req EXCEPT ![r] = Idle]
  /\ UNCHANGED started

\* INSERT and COMMIT; the foreign key wants the student's row
Insert(r, kind) ==
  /\ req[r].who \in rows
  /\ log' = log \cup {[id |-> nextId, who |-> req[r].who, kind |-> kind, at |-> now]}
  /\ nextId' = nextId + 1
  /\ Tear({"counted"})

---------------------------------------------------------------------------
(* Plausible faults, one for each property; Next uses none of them.       *)

\* the rows are ordered by created_at, oldest first
Recent_Oldest(s, kind) ==
  {e \in log : /\ e.who = s /\ e.kind = kind
               /\ \A f \in log : f.who = s /\ f.kind = kind => e.id <= f.id}

\* a plain SELECT of the exam, without FOR UPDATE
SaveLock_PlainSelect(r) ==
  /\ \/ req[r].who \in ever /\ Finish(r, "save")
     \/ req[r].who \notin ever /\ Goto(r, "save", "block_lookup")
  /\ UNCHANGED <<now, students, sockets, lock, table, reader, raced, unseen>>

\* has_ever_connected instead of is_connected
SubmitCheck_EverConnected(r) ==
  LET s == req[r].who IN
  /\ s \in rows
  /\ \/ s \in ever /\ Finish(r, "submit_done")
     \/ s \notin ever /\ Goto(r, "submit_done", "submit_log")
  /\ UNCHANGED <<now, students, sockets, lock, table, reader, raced, unseen>>

\* offset = page * page_size
Page_NotFromZero(p) ==
  {e \in log : LET newer == Cardinality({f \in log : f.id > e.id})
               IN p * PageSize <= newer /\ newer < (p + 1) * PageSize}

\* total_count keeps the filter of submit_count
total_count_SameFilter == Cardinality(handed)

\* a row keeps its student after the deletion
DeleteCommit_LogsKept(r) ==
  LET s == req[r].who IN
  /\ Finish(r, "delete")
  /\ rows' = rows \ {s} /\ handed' = handed \ {s} /\ entered' = entered \ {s}
  /\ Removed(s)
  /\ UNCHANGED <<now, sockets, lock, table, raced, unseen>>

---------------------------------------------------------------------------
\* ORDER BY created_at DESC LIMIT 1: a set of one row or none
Recent(s, kind) ==
  {e \in log : /\ e.who = s /\ e.kind = kind
               /\ \A f \in log : f.who = s /\ f.kind = kind => f.id <= e.id}

duplicated(s, kind) == \E e \in Recent(s, kind) : now - e.at < Window

---------------------------------------------------------------------------
(* save_code, the part that ends in _log_block_no_ws: the exam row stays  *)
(* locked until the log is committed or the session is closed              *)

SaveStart(r, s) ==
  /\ s \in entered \ handed
  /\ Start(r, "save", s)
  /\ UNCHANGED <<now, students, sockets, lock, table, reader, raced, unseen>>

SaveLock(r) ==
  /\ lock = None
  /\ \/ req[r].who \in ever /\ UNCHANGED lock /\ Finish(r, "save")
     \/ req[r].who \notin ever /\ lock' = r /\ Goto(r, "save", "block_lookup")
  /\ UNCHANGED <<now, students, sockets, table, reader, raced, unseen>>

BlockLookup(r) ==
  LET known == duplicated(req[r].who, "websocket_never_connected") IN
  /\ \/ known /\ lock' = None /\ Finish(r, "block_lookup")
     \/ ~known /\ UNCHANGED lock /\ Goto(r, "block_lookup", "block_log")
  /\ UNCHANGED <<now, students, sockets, table, reader, raced, unseen>>

BlockLog(r) ==
  /\ Finish(r, "block_log")
  /\ Insert(r, "websocket_never_connected")
  /\ lock' = None
  /\ UNCHANGED <<now, students, sockets, raced, unseen>>

---------------------------------------------------------------------------
(* report_ws_failure: no lock.  Its flag is in WsSession.                 *)

ReportStart(r, s) ==
  /\ s \in entered \ online
  /\ Start(r, "report", s)
  /\ raced' = raced \cup
       {t \in {s} : \E q \in Req : req[q].who = t /\ req[q].pc \in {"report", "report_log"}}
  /\ UNCHANGED <<now, students, sockets, lock, table, reader, unseen>>

ReportLookup(r) ==
  LET known == duplicated(req[r].who, "websocket_connect_failed") IN
  /\ \/ known /\ Finish(r, "report")
     \/ ~known /\ Goto(r, "report", "report_log")
  /\ UNCHANGED <<now, students, sockets, lock, table, reader, raced, unseen>>

ReportLog(r) ==
  /\ Finish(r, "report_log")
  /\ Insert(r, "websocket_connect_failed")
  /\ UNCHANGED <<now, students, sockets, lock, raced, unseen>>

---------------------------------------------------------------------------
(* submit_exam from its conditional UPDATE on, and create_log             *)

SubmitStart(r, s) ==
  /\ s \in entered \ handed
  /\ Start(r, "submit", s)
  /\ UNCHANGED <<now, students, sockets, lock, table, reader, raced, unseen>>

SubmitCommit(r) ==
  LET s == req[r].who IN
  /\ \/ /\ s \in rows \ handed
        /\ Goto(r, "submit", "submit_done")
        /\ handed' = handed \cup {s}
        /\ unseen' = (unseen \ {s}) \cup ({s} \ online)
     \/ s \notin rows \ handed /\ Finish(r, "submit") /\ UNCHANGED <<handed, unseen>>
  /\ UNCHANGED <<now, rows, entered, sockets, lock, table, reader, raced>>

\* refresh(student), then is_connected
SubmitCheck(r) ==
  LET s == req[r].who IN
  /\ s \in rows
  /\ \/ s \in online /\ Finish(r, "submit_done")
     \/ s \notin online /\ Goto(r, "submit_done", "submit_log")
  /\ UNCHANGED <<now, students, sockets, lock, table, reader, raced, unseen>>

SubmitLog(r) ==
  /\ Finish(r, "submit_log")
  /\ Insert(r, "websocket_missing_at_submit")
  /\ UNCHANGED <<now, students, sockets, lock, raced, unseen>>

CreateStart(r, s) ==
  /\ s \in entered
  /\ Start(r, "create", s)
  /\ UNCHANGED <<now, students, sockets, lock, table, reader, raced, unseen>>

CreateCommit(r) ==
  /\ Finish(r, "create")
  /\ Insert(r, "other")
  /\ UNCHANGED <<now, students, sockets, lock, raced, unseen>>

---------------------------------------------------------------------------
(* student_login from the check of the code on: the login is committed,   *)
(* and sets in_progress whatever the status was; then its log row         *)

LoginStart(r, s) ==
  /\ s \in rows \ entered
  /\ Start(r, "login", s)
  /\ UNCHANGED <<now, students, sockets, lock, table, reader, raced, unseen>>

LoginCommit(r) ==
  LET s == req[r].who IN
  /\ s \in rows
  /\ Goto(r, "login", "create")
  /\ handed' = handed \ {s} /\ entered' = entered \cup {s}
  /\ Reopened(s)
  /\ UNCHANGED <<now, rows, sockets, lock, table, raced, unseen>>

(* force_submit: no question is asked, of the exam or of the student, but  *)
(* a status that was loaded as force_submitted is not written again        *)

ForceStart(r, s) ==
  /\ s \in rows
  /\ \/ Start(r, "force", s)
     \/ s \in handed /\ Start(r, "create", s)
  /\ UNCHANGED <<now, students, sockets, lock, table, reader, raced, unseen>>

ForceCommit(r) ==
  /\ Finish(r, "force")
  /\ Insert(r, "other")
  /\ handed' = handed \cup {req[r].who}
  /\ UNCHANGED <<now, rows, entered, sockets, lock, raced, unseen>>

---------------------------------------------------------------------------
(* delete_student: the rows it loaded, and by ON DELETE CASCADE the rest  *)

DeleteStart(r, s) ==
  /\ s \in rows
  /\ Start(r, "delete", s)
  /\ UNCHANGED <<now, students, sockets, lock, table, reader, raced, unseen>>

DeleteCommit(r) ==
  LET s == req[r].who IN
  /\ Finish(r, "delete")
  /\ rows' = rows \ {s} /\ handed' = handed \ {s} /\ entered' = entered \ {s}
  /\ log' = {e \in log : e.who # s}
  /\ Removed(s)
  /\ UNCHANGED <<now, sockets, lock, nextId, raced, unseen>>

---------------------------------------------------------------------------
(* list_logs, read page by page until the count is covered                *)

\* ORDER BY created_at DESC OFFSET (page - 1) * page_size LIMIT page_size
Page(p) ==
  {e \in log : LET newer == Cardinality({f \in log : f.id > e.id})
               IN (p - 1) * PageSize <= newer /\ newer < p * PageSize}

ListOpen ==
  /\ reader.pc = "closed"
  /\ reader' = Reading("asking", 1, 0, log, FALSE)
  /\ UNCHANGED <<now, students, sockets, lock, table, requests, raced, unseen>>

ListCount ==
  /\ reader.pc = "asking"
  /\ reader' = Reading("counted", reader.page, Cardinality(log), reader.unread, reader.torn)
  /\ UNCHANGED <<now, students, sockets, lock, table, requests, raced, unseen>>

LastPage == reader.page * PageSize >= reader.count
Unread == (reader.unread \ Page(reader.page)) \cap log

ListRows ==
  /\ reader.pc = "counted"
  /\ \/ ~LastPage /\ reader' = Reading("asking", reader.page + 1, 0, Unread, reader.torn)
     \/ LastPage /\ reader' = Closed
  /\ UNCHANGED <<now, students, sockets, lock, table, requests, raced, unseen>>

---------------------------------------------------------------------------
(* get_dashboard: submit_count, then total_count                          *)

submit_count == Cardinality(handed)
total_count == Cardinality(rows)

BoardSubmits ==
  /\ reader.pc = "closed"
  /\ reader' = Reading("submits_counted", 0, submit_count, {}, FALSE)
  /\ UNCHANGED <<now, students, sockets, lock, table, requests, raced, unseen>>

BoardTotal ==
  /\ reader.pc = "submits_counted"
  /\ reader' = Closed
  /\ UNCHANGED <<now, students, sockets, lock, table, requests, raced, unseen>>

---------------------------------------------------------------------------
\* websocket_endpoint registers a student; the handshake may have begun before
\* the hand-in.  disconnect, for any reason, forgets the student but not ever.
Connect(s) ==
  /\ s \in entered \ online
  /\ online' = online \cup {s} /\ ever' = ever \cup {s}
  /\ unseen' = unseen \ {req[r].who : r \in {q \in Req : req[q].pc = "submit_done"
                                                       /\ req[q].who = s}}
  /\ UNCHANGED <<now, students, lock, table, requests, reader, raced>>

Disconnect(s) ==
  /\ s \in online
  /\ online' = online \ {s}
  /\ UNCHANGED <<now, students, ever, lock, table, requests, reader, raced, unseen>>

\* a hand-in cut off between its commits has no row, and no second attempt can write one
CutOff(R) == {req[r].who : r \in {q \in R : req[q].pc \in {"submit_done", "submit_log"}}}

\* any step may fail and leave the rest undone: the row is gone (refresh raises, or the
\* INSERT meets the foreign key), the database or the pool has no answer
Fail(r) ==
  /\ req[r].pc # "idle"
  /\ req' = [req EXCEPT ![r] = Idle]
  /\ lock' = IF lock = r THEN None ELSE lock
  /\ unseen' = unseen \ CutOff({r})
  /\ UNCHANGED <<now, students, sockets, table, started, reader, raced>>

\* the process stops and starts again
Restart ==
  /\ req' = [r \in Req |-> Idle]
  /\ lock' = None
  /\ online' = {} /\ ever' = {}
  /\ unseen' = unseen \ CutOff(Req)
  /\ UNCHANGED <<now, students, table, started, reader, raced>>

Tick ==
  /\ now < MaxTime
  /\ now' = now + 1
  /\ UNCHANGED <<students, sockets, lock, table, requests, reader, raced, unseen>>

Call(r) ==
  \E s \in Student : SaveStart(r, s) \/ ReportStart(r, s) \/ SubmitStart(r, s)
                    \/ CreateStart(r, s) \/ LoginStart(r, s) \/ ForceStart(r, s)
                    \/ DeleteStart(r, s)

Proceed(r) ==
  \/ SaveLock(r) \/ BlockLookup(r) \/ BlockLog(r)
  \/ ReportLookup(r) \/ ReportLog(r)
  \/ SubmitCommit(r) \/ SubmitCheck(r) \/ SubmitLog(r)
  \/ CreateCommit(r) \/ LoginCommit(r) \/ ForceCommit(r) \/ DeleteCommit(r) \/ Fail(r)

Read == ListOpen \/ ListCount \/ ListRows \/ BoardSubmits \/ BoardTotal

Next ==
  \/ \E r \in Req : Call(r) \/ Proceed(r)
  \/ \E s \in Student : Connect(s) \/ Disconnect(s)
  \/ Read \/ Restart \/ Tick

Spec == Init /\ [][Next]_vars

---------------------------------------------------------------------------
(* Properties *)

TypeOK ==
  /\ now \in Nat
  /\ rows \subseteq Student /\ handed \subseteq rows /\ entered \subseteq rows
  /\ online \subseteq ever /\ ever \subseteq Student
  /\ lock \in Req \cup {None}
  /\ log \subseteq Row /\ nextId \in Nat
  /\ \A e \in log : e.who \in rows /\ e.id < nextId /\ e.at <= now
  /\ req \in [Req -> Request]
  /\ \A r \in Req : req[r].pc # "idle" => req[r].who \in Student
  /\ started \in Nat
  /\ reader \in Reader
  /\ raced \subseteq Student /\ unseen \subseteq Student

\* Two rows of one kind and student are a window apart.
Apart(kind, s) ==
  \A e, f \in log :
    e.kind = kind /\ f.kind = kind /\ e.who = s /\ f.who = s /\ e.id < f.id =>
      f.at - e.at >= Window

\* A refused save is logged once per window (tests/test_ws_report.py:314) however
\* many saves of the student overlap: the look-up and the INSERT of code.py:65 are
\* apart, but the exam row that save_code has locked keeps the next one out.
BlockedOncePerWindow == \A s \in Student : Apart("websocket_never_connected", s)

\* The same look-up in ws.py:52 has no lock around it: a failure report is logged
\* once per window unless two reports of one student were in flight at once.
ReportedOncePerWindow == \A s \in Student \ raced : Apart("websocket_connect_failed", s)

\* The critical row of a hand-in that no socket watched is written by a second
\* commit (code.py:163).  It is there once the request has ended, whoever connects,
\* leaves, hands in again, is forced or is deleted meanwhile, unless an error or a stop
\* of the process ended the request between the two commits.
UnwatchedHandInOnRecord ==
  \A s \in unseen \cap rows :
    \/ \E r \in Req : req[r].who = s /\ req[r].pc \in {"submit_done", "submit_log"}
    \/ \E e \in log : e.who = s /\ e.kind = "websocket_missing_at_submit"

\* Pages count from the newest row, so rows that arrive push older ones towards the
\* pages still to come: who reads all pages has seen every row that was there at the
\* start and still is, unless a student was deleted meanwhile or a row arrived
\* between the count and the rows of one call (logs.py:101).
PagesMissNothing ==
  [][reader.pc = "counted" /\ LastPage /\ reader' = Closed /\ ~reader.torn => Unread = {}]_vars

\* The dashboard counts the papers handed in and then the students (admin.py:973), in
\* two reads: a student deleted between them can make it show more papers than students,
\* and a login that opens a forced paper again (auth.py:123) can make it show that all
\* are in while one is writing.  It is never out by more than one for each of these.
BoardAddsUp ==
  [][reader.pc = "submits_counted" /\ reader' = Closed =>
       /\ reader.count <= total_count + reader.gone
       /\ Cardinality(rows \ handed) + reader.count
            <= total_count + reader.gone + reader.reopened]_vars
=============================================================================
