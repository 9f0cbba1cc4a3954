--------------------------- MODULE ExamLifecycle ----------------------------
(***************************************************************************)
(* The exam row and the requests that write it: update_exam and           *)
(* delete_exam of app/routers/exams.py, from the row create_exam made.    *)
(*                                                                         *)
(* A request loads the row without a lock, later checks and computes the  *)
(* new row from what it loaded, with the clock of that moment, and later  *)
(* still commits.  The ORM's UPDATE names only the columns whose new      *)
(* value differs from the loaded one, so two requests can interleave      *)
(* column by column.  The name and the subject are left out: nothing      *)
(* depends on them.                                                        *)
(***************************************************************************)
EXTENDS Integers

CONSTANTS Req,
          None,
          Time,          \* planned times, and instants of the clock
          Minute,        \* so many units of Time make a minute of duration
          MaxRequests    \* bound: requests started

ASSUME TimeAssumption == Time \subseteq Nat
ASSUME MinuteAssumption == Minute \in Nat \ {0}

VARIABLES exam,      \* the row
          req,       \* requests: where they are, the row loaded, the row wanted
          now,       \* the server's clock
          started,   \* requests started (the bound's counter)
          alone,     \* history: so far requests came one at a time
          overtaken  \* history: a start was stamped though the exam had begun already

vars == <<exam, req, now, started, alone, overtaken>>

Status == {"not_started", "ongoing", "ended"}
ASSUME NoneAssumption == None \notin Req \cup Int \cup Status

\* The definitions named <definition>_<fault> are plausible faults, one for each
\* property; Next uses none of them.  This one lets an exam end that never began.
_VALID_TRANSITIONS_Skip ==
  [not_started |-> {"ongoing", "ended"}, ongoing |-> {"ended"}, ended |-> {}]

_VALID_TRANSITIONS == [not_started |-> {"ongoing"}, ongoing |-> {"ended"}, ended |-> {}]
calculate_duration_minutes(a, b) == (b - a) \div Minute

Stamp == Nat \cup {None}
Row == [status : Status, start : Time, end : Time, duration : Int,
        actualStart : Stamp, actualEnd : Stamp, deleted : BOOLEAN]

\* the body of PUT /api/exams/{id}; None is a field the client left out
Body == [status : Status \cup {None}, start : Time \cup {None}, end : Time \cup {None}]

Step == {"idle", "loaded", "computed"}
Idle == [pc |-> "idle", saw |-> None, new |-> None]
Loaded(saw) == [pc |-> "loaded", saw |-> saw, new |-> None]
Computed(saw, new) == [pc |-> "computed", saw |-> saw, new |-> new]

Init ==
  /\ \E a, b \in Time :
       /\ a < b
       /\ exam = [status |-> "not_started", start |-> a, end |-> b,
                  duration |-> calculate_duration_minutes(a, b),
                  actualStart |-> None, actualEnd |-> None, deleted |-> FALSE]
  /\ req = [r \in Req |-> Idle]
  /\ now = 0
  /\ started = 0
  /\ alone = TRUE
  /\ overtaken = FALSE

---------------------------------------------------------------------------
(* update_exam and delete_exam *)

GivenOr(field, default) == IF field = None THEN default ELSE field

\* the checks, on the row as loaded
StatusOnly(body) == body.start = None /\ body.end = None

\* the times are not compared
Accepted_AnyTimes(row, body) ==
  /\ row.status # "not_started" => StatusOnly(body)
  /\ body.status # None => body.status \in _VALID_TRANSITIONS[row.status]

\* a started exam is still edited
Accepted_NeverFrozen(row, body) ==
  /\ body.status # None => body.status \in _VALID_TRANSITIONS[row.status]
  /\ ~StatusOnly(body) => GivenOr(body.start, row.start) < GivenOr(body.end, row.end)

\* a status the client left out is written as null (model_dump without exclude_unset)
Updated_UnsetIsNull(row, body) ==
  [row EXCEPT !.status = body.status,
              !.actualStart = IF body.status = "ongoing" THEN now ELSE @,
              !.actualEnd = IF body.status = "ended" THEN now ELSE @]

Accepted(row, body) ==
  /\ row.status # "not_started" => StatusOnly(body)
  /\ body.status # None => body.status \in _VALID_TRANSITIONS[row.status]
  /\ ~StatusOnly(body) => GivenOr(body.start, row.start) < GivenOr(body.end, row.end)

\* the row the handler has in memory when it commits
Updated(row, body) ==
  LET a == GivenOr(body.start, row.start)
      b == GivenOr(body.end, row.end) IN
  [status |-> GivenOr(body.status, row.status),
   start |-> a,
   end |-> b,
   duration |-> IF StatusOnly(body) THEN row.duration ELSE calculate_duration_minutes(a, b),
   actualStart |-> IF body.status = "ongoing" THEN GivenOr(row.actualStart, now)
                   ELSE row.actualStart,
   actualEnd |-> IF body.status = "ended" THEN GivenOr(row.actualEnd, now)
                 ELSE row.actualEnd,
   deleted |-> row.deleted]

\* the SELECT both routes begin with; a deleted exam is not found
Load(r) ==
  /\ req[r].pc = "idle"
  /\ ~exam.deleted
  /\ started < MaxRequests
  /\ started' = started + 1
  /\ alone' = (alone /\ \A q \in Req : req[q].pc = "idle")
  /\ req' = [req EXCEPT ![r] = Loaded(exam)]
  /\ UNCHANGED <<exam, now, overtaken>>

Compute(r, new) ==
  /\ req' = [req EXCEPT ![r] = Computed(req[r].saw, new)]
  /\ UNCHANGED <<exam, now, started, alone>>

update_exam(r, body) ==
  /\ req[r].pc = "loaded"
  /\ Accepted(req[r].saw, body)
  /\ Compute(r, Updated(req[r].saw, body))
  /\ overtaken' = (overtaken \/ (body.status = "ongoing" /\ exam.status # "not_started"))

delete_exam(r) ==
  /\ req[r].pc = "loaded"
  /\ Compute(r, [req[r].saw EXCEPT !.deleted = TRUE])
  /\ UNCHANGED overtaken

\* The request ends and nothing is written: a check refused it, or an await raised.
Fail(r) ==
  /\ req[r].pc # "idle"
  /\ req' = [req EXCEPT ![r] = Idle]
  /\ UNCHANGED <<exam, now, started, alone, overtaken>>

---------------------------------------------------------------------------
(* The commit: UPDATE ... SET only the changed columns *)

Column(saw, new, current) == IF new = saw THEN current ELSE new

Merged(saw, new) ==
  [status |-> Column(saw.status, new.status, exam.status),
   start |-> Column(saw.start, new.start, exam.start),
   end |-> Column(saw.end, new.end, exam.end),
   duration |-> Column(saw.duration, new.duration, exam.duration),
   actualStart |-> Column(saw.actualStart, new.actualStart, exam.actualStart),
   actualEnd |-> Column(saw.actualEnd, new.actualEnd, exam.actualEnd),
   deleted |-> Column(saw.deleted, new.deleted, exam.deleted)]

Commit(r) ==
  /\ req[r].pc = "computed"
  /\ exam' = Merged(req[r].saw, req[r].new)
  /\ req' = [req EXCEPT ![r] = Idle]
  /\ UNCHANGED <<now, started, alone, overtaken>>

\* The process stops and starts again: what was loaded and not committed is lost.
Restart ==
  /\ req' = [r \in Req |-> Idle]
  /\ UNCHANGED <<exam, now, started, alone, overtaken>>

Tick ==
  /\ now + 1 \in Time
  /\ now' = now + 1
  /\ UNCHANGED <<exam, req, started, alone, overtaken>>

---------------------------------------------------------------------------
\* What the dashboard shows (admin.py): the planned times decide, until the exam is
\* ended by hand.
calculate_dashboard_status_and_countdown ==
  CASE exam.status = "ended" -> <<"ended", 0>>
    [] exam.status # "ended" /\ now < exam.start -> <<"not_started", exam.start - now>>
    [] exam.status # "ended" /\ exam.start <= now /\ now < exam.end ->
         <<"ongoing", exam.end - now>>
    [] OTHER -> <<"ended", 0>>

Next ==
  \/ \E r \in Req :
       \/ Load(r)
       \/ \E body \in Body : update_exam(r, body)
       \/ delete_exam(r)
       \/ Commit(r)
       \/ Fail(r)
  \/ Restart
  \/ Tick

Spec == Init /\ [][Next]_vars

---------------------------------------------------------------------------
(* Properties *)

TypeOK ==
  /\ exam \in Row
  /\ req \in [Req -> [pc : Step, saw : Row \cup {None}, new : Row \cup {None}]]
  /\ \A r \in Req : req[r].pc # "idle" => req[r].saw \in Row
  /\ \A r \in Req : req[r].pc = "computed" => req[r].new \in Row
  /\ now \in Nat
  /\ started \in Nat
  /\ alone \in BOOLEAN
  /\ overtaken \in BOOLEAN

\* However many administrators press start and end at once, an exam that runs has
\* its actual start and an exam that ended has both times.  They are in order, even
\* if the starts and the ends commit in any order, but in one case: a start that had
\* read the exam as not started took its stamp when another start was committed.
ActualTimesInOrder ==
  /\ exam.status # "not_started" => exam.actualStart # None
  /\ exam.status = "ended" => exam.actualEnd # None
  /\ exam.actualEnd # None => exam.actualStart # None
  /\ ~overtaken /\ exam.actualEnd # None => exam.actualStart <= exam.actualEnd

\* As long as requests come one at a time, the routes implement ExamPlan: the
\* status is "严格单向" (models/exam.py:19), "已开始的考试只能改状态" (exams.py:174), "考试
\* 结束时间必须在开始时间之后" (exams.py:213), and the duration shown is that of the times.
Plan == INSTANCE ExamPlan WITH
  status <- exam.status, start <- exam.start, end <- exam.end, duration <- exam.duration
ImplementsPlan == Plan!Init /\ [][alone' => [Plan!Next]_(Plan!vars)]_vars

\* As long as requests come one at a time, the dashboard of an exam that has begun
\* never goes back: its status moves one way and its countdown only falls.
Rank == [not_started |-> 1, ongoing |-> 2, ended |-> 3]
Shown == calculate_dashboard_status_and_countdown
DashboardNeverGoesBack ==
  [][alone' /\ exam.status # "not_started" =>
       \/ Rank[Shown'[1]] > Rank[Shown[1]]
       \/ Shown'[1] = Shown[1] /\ Shown'[2] <= Shown[2]]_vars
=============================================================================
