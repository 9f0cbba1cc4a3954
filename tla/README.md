# A TLA+ model of the KX exam system backend

The backend (FastAPI, SQLAlchemy on asyncio, PostgreSQL, one process) runs on-line
programming exams: administrators plan an exam, import students and post problems;
students log in with a one-time code, keep a monitoring WebSocket open in full screen,
save code and hand in; administrators start and end the exam, may take in a paper by
force, read the logs and export the result.  The database is read and written without row
locks except in `save_code`, and nothing in memory is locked except the rate limiter.  So
the questions worth a model checker are about handlers that overlap between two awaits,
about sockets that come and go, and about what a restart forgets.

This directory holds TLA+ modules translated from the code under `src/app/`, TLC
configurations that check them on small instances, and proofs, checked by TLAPS, of the
safety properties that hold for every instance.

    tlc -config MCStudentPaper_overlap.cfg MCStudentPaper.tla     # one run
    tlapm StudentPaper_proofs.tla                                 # one set of proofs

`PROJECT.json` lists the runs, the hazards each property is for, the lines each
definition is translated from, and for each property a plausible fault of the code that
breaks it.

## The system: inventory

| Part | State | Operations | Talks to | What makes it correct |
|---|---|---|---|---|
| **Student's paper** (`routers/auth.py`, `routers/code.py`, `force_submit` and `delete_student` of `routers/admin.py`) | rows `students`, `student_codes` | log in, save, hand in, forced hand-in, delete | the exam's row (locked by a save), the socket registry | one login per code, and nobody shut out by a used one but for an error; a paper handed in is final and frozen; no save after the end; a forced student is told |
| **WebSocket session** (`routers/ws.py`, `services/websocket.py`, `report_fullscreen`) | maps in memory, `websocket_token`, `is_fullscreen` | mint a token, open, messages, time-out, disconnect, failure report | the student's row | the maps agree; an entry has a coroutine that will remove it; who is served is on the maps; a silent peer is removed; nothing is left behind |
| **Exam life cycle** (`routers/exams.py`) | row `exams` | create, update, delete | everything reads the status | the status goes forward; a started exam is not replanned; times and duration fit |
| **Administrator accounts** (`routers/admin.py`, `main.init_super_admin`) | rows `admins` | create, update, delete, (de)activate, first account at each start | the permission check of every route | somebody can manage the accounts; the process starts |
| **Problem bank** (`routers/problems.py`, `broadcast_new_problem`) | rows `problems` and the codes on them | create with broadcast, update, delete with cascade | the registry, the exam's status | a stored choice problem can be marked; everybody answering hears of a new one |
| **Export** (`export_exam`, `utils/export.py`) | none | read three tables one after the other, write a zip | papers, problems | what is listed as handed in is there, complete |
| **Student import** (`import_students`) | rows `students` | import a list | deletions of students and exams | a number is once in an exam; a checked import commits |
| **Operation logs** (`routers/logs.py`, `_log_block_no_ws`, `report_ws_failure`, the second commit of `submit_exam`) | append-only rows | write, de-duplicate, list by pages | students, the registry | one row per window; no critical row lost; a reader of all pages sees all rows |
| **Dashboard** (`get_dashboard`) | none | count, work out the exam's stage | papers, the exam's row | counts that fit; a stage that goes forward |
| **Concurrency limit** (`ConcurrencyLimitMiddleware`, `main.py`) | a counter | enter, leave | every HTTP call | no slot is lost; a full server opens again |
| **Rate limiting** (`services/rate_limit.py`, `check_rate_limit`) | a window per key | check, clean up | routes, sockets | bounded bursts; nobody shut out for good |
| Authentication, permissions (`utils/auth.py`, `utils/student_auth.py`) | none (reads rows, JWT) | check a caller | every route | the check is on rows as loaded, stale afterwards |
| Administrator login and passwords | a password hash | log in, verify, change | nothing | (not modelled) |
| Student list and details | none | read and format | students, codes | (not modelled) |
| Wiring, configuration, error handlers, migrations, build | none | start-up | | (not modelled; `lifespan` and `init_super_admin` are) |

Hard behaviours: two requests that overlap at awaits (check-then-act on a row as loaded);
ORM `UPDATE`s that name only the changed columns, so that two updates merge column by
column; sessions that keep loaded rows after a commit (`expire_on_commit=False`,
`database.py:52`); one row lock held across several awaits (`code.py:242`); two commits in
one handler (`auth.py:125`, `code.py:162`); sockets replaced by a second one with the same
or another token, and a `finally` that unregisters by token; peers that vanish silently; a
restart that forgets the registry and not the database; a decision to broadcast taken on a
stale status; lists read in several statements; a clock read before the lock; the edge of
a rate window.

## The modules

One state step is what runs between two awaits.  A request in flight is a record
`req[r]` with its program counter and *what it loaded*; other requests run between its
steps.  `|Req|` (or `|Conn|`) is the number that can overlap.  A commit that follows an
`UPDATE` at once is one step with it (the row lock is held in between).  `Restart` drops
what is in memory and keeps the database.

- **`StudentPaper`** - one exam, its students and the requests that decide a paper.
  `exam, rows, status, codeUsed, code` are columns; `online, everOnline, told` the part of
  the registry the rules read; `lock` is the exam row held by `SELECT ... FOR UPDATE`.
  `LoginStart/Load/Mark/Reply`, `SaveStart/Lock/Commit`, `SubmitStart/ReadExam/Commit`,
  `ForceStart/Commit/Tell`, `DeleteStart/Commit`, `ExamStart/Commit` and
  `WsVerify/Register/Drop` are the steps of the handlers; an early return is the disjunct
  that goes idle.  `Fail` is an exception at any await, also after a first commit: what is
  committed stays, the rest is rolled back and the lock freed.  `ExamLifecycle`,
  `ProblemBank` and `OperationLogs` have the same `Fail`.
- **`PaperContract`** - the abstract specification: enter once a paper that is blank, write
  and hand in while the exam runs, be taken in or removed by an administrator.
  `StudentPaper` maps to it by `phase` (a function of row and status), `text` (the code)
  and `entered` (used codes).  One step of the code is none of the contract and is named,
  `Reopened`: the login that opens a paper taken in by force before it (run
  `paper_forced_reopened`).
- **`SocketBoard`** - the abstract specification of the registry as other handlers see it:
  who is online and who ever was.  A handshake is let in for somebody who writes and is not
  online (`Admit`), reaches the board later (`Register`) or never (`Abandon`); `Drop`,
  `Paper` and `Restart` are the rest.  `StudentPaper` and `WsSession` both map to it, each
  by its `Board` (`ImplementsBoard`).
- **`WsSession`** - one coroutine per socket (`conn[c]`), the registry's maps (`active`,
  `tokenStudent`, `studentToken`, `ever`), the keys of the message rate limit (`windows`)
  and the flag `is_fullscreen`, also written by HTTP calls (`call[s]`). `Open, Verify,
  Accept, Greet, Receive, ReceiveOther, Change, Break, ReceiveEnds, Part, Clear, Leave`
  follow `websocket_endpoint` from the rate check to its `finally`; an error in
  `_handle_disconnect` leads to the outermost handler, which calls it once more
  (`Recovery`); `connect`, `disconnect` and `Counted` (`check_rate_limit`) are the
  registry's methods.
- **`ExamLifecycle`** - the exam's row and the requests in three steps: `Load` (the
  SELECT), `update_exam` or `delete_exam` (checks and stamps, on the row as loaded and with
  the clock of that moment), `Commit`. `Accepted` is the checks, `Updated` the row the
  handler computes, `Merged` the column-wise `UPDATE`;
  `calculate_dashboard_status_and_countdown` is the stage and the time left that the
  dashboard shows.  **`ExamPlan`** is its abstract specification.
- **`AdminAccounts`** - accounts with role and active flag, a request as *authorize, load
  target, count, commit*, and `init_super_admin` at each start.
- **`ProblemBank`** - `create_problem` (load, commit, select the listeners, one send after
  the other), `update_problem` and `delete_problem` (load, commit), the saves they race,
  what each client has been told (`view`), and `export_exam`, which reads students,
  problems and codes in three statements and hands them to `generate_exam_export`.  A save
  is its check, the exam's row, and its commit; a login its checks and its commit, which
  opens the paper whatever it has become; a hand-in, the student's or a forced one, one
  step.  A client lists the problems with or without a socket, at any time after the login.
- **`Roster`** - `import_students` (exam, look-up of numbers, a draw of a code per
  student with the autoflush that goes with it, commit), `delete_student`, `delete_exam`.
- **`OperationLogs`** - the log rows that are hard to get right: those of refused saves
  (`SaveStart/SaveLock/BlockLookup/BlockLog`, under the exam's row lock), of failure
  reports (`ReportStart/Lookup/Log`, without one), of hand-ins nobody watched
  (`SubmitStart/Commit/Check/Log`: two commits), those students report themselves
  (`Create...`); logins and forced hand-ins, which move the dashboard's counts; the
  deletion of a student with all rows; a reader of the list who turns the pages while rows
  come and go (`ListOpen/Count/Rows`); and the dashboard's counts.
- **`HttpGate`** - a call's way to its endpoint: a slot of `ConcurrencyLimitMiddleware`,
  the limiter's windows by IP and by token, the endpoint, and the `finally` that frees the
  slot.  A check reads the clock and takes the lock in two steps, because the dependency
  runs in a thread pool.  Times are kept as ages, so the clock never stops.

`MC<module>` adds the symmetry sets and what a `.cfg` cannot write (the exam's times, the
limits per key); the `.cfg` files give the constants.  Definitions named
`<definition>_<fault>` are plausible faults, one for each property; no next-state relation
uses them, they show that the property can be broken by the code it is about.

How they meet: `ExamLifecycle` decides the status that `StudentPaper`, `ProblemBank` and
`OperationLogs` read; `WsSession` is the registry the same three read.  Those three have a
short registry of their own (connected, ever connected).  That the one of `StudentPaper` is
what `WsSession`'s coroutines can do is proved through `SocketBoard`, which both
implement.  `ProblemBank` and `OperationLogs` take connecting and a forced hand-in or a
change of the exam as single steps, where the code has a check and, later, an effect; that
each is a step the module with the details can come to is by reading, not by proof.

### History variables

`logins`, `submits` (committed logins and hand-ins), `started`, `opened`, `imports` (the
bounds' counters) and, in `HttpGate`, `passed` (calls let in, by age) are not in the code.
The others say *what the code does not guard against has not happened yet*:

| Variable | In | What has happened |
|---|---|---|
| `alone` (false) | `StudentPaper`, `ExamLifecycle`, `AdminAccounts` | two requests overlapped |
| `cutOff` | `StudentPaper` | a login, or a forced hand-in, of this student ended by an error or a stop between its first commit and its last step |
| `overtaken` | `ExamLifecycle` | a start took its stamp when the exam had begun already |
| `passed` | `ProblemBank` | a broadcast passed this client over since its last list: not answering, no live socket, broken off, or never made |
| `unsettled` | `ProblemBank` | a save of this student was under way at his hand-in, or a login opened his paper again |
| `crossed` | `Roster` | two imports of one exam overlapped |
| `raced` | `OperationLogs` | two failure reports of one student overlapped |
| `torn` (of the reader) | `OperationLogs` | a student was deleted while somebody read the list, or a row came between a page's count and its rows |
| `tangled` | `WsSession` | two coroutines of the token, or of its student, ran at once |

`unseen` (`OperationLogs`: who handed in with no socket until the answer, and was not cut
off before it) is what the property is about; `gone` and `reopened` (of its reader) count
the deletions and reopenings between the dashboard's two counts.  A property conditional on
one of these is checked in the same run as the behaviours that break its unconditional
form: it names the exact cause, which is more than "it can fail".

## What the runs check

| Run | Instance | States | Shows |
|---|---|---|---|
| `paper_overlap` | 2 students, 2 requests in flight, 6 in all (8 while they come one at a time), fair | 432,000 | `SubmitsBoundedByLogins`, `NobodyLockedOut` (but for `cutOff`), `NoSaveAfterEnd`, `SavedOnlyIfMonitored` however requests, errors and restarts interleave; `EveryCallEnds`: the row lock is always freed; until two requests overlap, `ForcedOnlineIsTold` and, but for `Reopened`, the refinement of `PaperContract` |
| `ws_two` | 1 student, 2 tokens, 2 sockets, fair | 540,000 | `RegistryCoherent` and `ActiveBacked` through replacement, time-out, failure and refusal; `LoneSocketIsKnown` and `WindowsHaveSockets` for tokens not `tangled`; `VanishedIsUnregistered` |
| `exam_overlap` | 3 requests in flight, 4 in all, planned times 1..3, the clock from 0 to 3 | 639,000 | `ActualTimesInOrder`: the stamps are there, and in order but for `overtaken`; `DashboardNeverGoesBack` and the refinement of `ExamPlan` until two requests overlap |
| `admin_overlap` | 3 accounts, 2 requests in flight, 4 in all, restarts | 330,000 | `BackOnlyOnRequest` always; `AlwaysASuper`, `FailsOnlyOnSecondSuper` until two requests overlap |
| `problems_overlap` | 1 problem, 1 student, 2 requests and an export in flight, 3 in all | 758,000 | `NewProblemIsHeard` but for `passed`; `OnlyStaleReadsBreak`; `HandedInIsComplete` but for `unsettled` |
| `roster_imports` | 2 exams, 2 numbers, 3 codes, 2 imports in flight, 3 in all | 112,000 | `NumberOncePerExam` but for overlapping imports of one exam; `LoneImportSucceeds` |
| `http_gate` | 3 calls or sockets, 2 slots, limits 2 per IP and 1 per token, fair | 166,000 | `SlotsAreCalls`; `BurstIsBounded`: at most twice the limit in any stretch of a window less a thread's wait; `FullGateReopens`, `QuotaReturns` |
| `logs_overlap` | 2 students, 2 writing requests in flight, 3 in all, 1 reader, pages of one row | 2,850,000 | `BlockedOncePerWindow`; `ReportedOncePerWindow` but for `raced`; `UnwatchedHandInOnRecord`; `PagesMissNothing` but for `torn`; `BoardAddsUp`: out by no more than what happened between the counts |
| `paper_double_login` | 1 student, 2 requests | | **violated**: one code lets two clients in |
| `paper_save_after_submit` | 1 student, 2 requests | | **violated**: the code changes after the hand-in |
| `paper_forced_reopened` | 1 student, 1 request at a time | | **violated**: a login opens a paper that was taken in by force |
| `admin_restart` | 3 accounts, 1 request at a time | | **violated**: with two super administrators the process does not start |

With one request at a time `PaperContract` has one login per code and no save after the
hand-in; `OneLoginPerCode` and `FrozenAfterHandIn` fail with two, which is the finding.

### Bounds, and why they are enough

Every race in these modules is between a check and a commit, so it needs two requests and
no third one of the same kind.  The counters bound the *length* of a run:

- `paper_overlap`: 6 requests are start the exam, log in, open the socket, two that race
  and one that follows; `MaxAlone` 8 allows a complete life of one paper (start, login,
  socket, save, hand-in, force, delete) next to another's where nothing overlaps.
- `exam_overlap`: 4 requests with 3 in flight are start and end, and two late ones.
  Three planned times (`Times` in `MCExamLifecycle`) and a clock from 0 to 3: before,
  between, after; `Minute` 2 makes the division round.
- `admin_overlap`: 4 requests are a promotion to a second super administrator, two
  removals that overlap, and an activation; starts and stops are not counted.
- `problems_overlap`: 3 requests are create, then two updates, or a save, a deletion and an
  export; the problem may be there from the start.  One student is told, listed, exported
  and hands in: students share the exam's row and the broadcast's loop only, in which one
  who is passed over says nothing of the next (a broken loop is `Fail`).  Two students are
  too many states for TLC; the theorems cover any number.  `Type` has the two choice types,
  the ones `validate_choice_problem` looks at.
- `roster_imports`: 3 imports are two that overlap, and one before or after; 3 codes for up
  to 4 students make every collision possible.
- `ws_two`: with `MaxOpens` 2 and two tokens the second socket comes with the first's token
  or with a new one, before, during or after the first's end.  A second student shares
  nothing with the first but the maps; the theorems cover any number.
- `http_gate`: three callers at two slots fill the gate and are refused; a window of length
  1 is open for two instants, so windows, their edges and stale checks (`MaxLag` 1) meet
  all the time.  `MaxAge` 2 is as small as the assumption `Window + MaxLag <= MaxAge` lets
  it be: with `MaxAge = Window` the cleanup could drop a window that a late check still
  counts in, and `BurstIsBounded` would fail.  The code has 60 seconds and an hour.
  `Stretch` is then 1, two instants.  A window of 2, a lag of 2 and a `MaxAge` of 4 pass
  too (513,000 states for the safety properties), and there twice the limit is reached.
- `logs_overlap`: `Window` 1 and a clock of 0 and 1 put two rows inside one window or a
  window apart; `PageSize` 1 makes every row a page, so that a row that comes or goes moves
  a page's edge; 3 writing requests are two that race and one row to read.

Deadlock is checked in every run: `Restart`, `Tick` or a client's step is always possible,
and the liveness properties say what must happen without one.
Symmetry is used in runs without liveness only.

### Fairness

- `StudentPaper`: strong fairness of `Answer(r)`, the next step of a handler, or of the
  error that a handler meets whose student's row is gone.  The event loop resumes every
  coroutine whose await is done, and PostgreSQL answers; strong rather than weak because a
  request that waits for the exam row is enabled and disabled as others take and free the
  lock, and PostgreSQL grants row locks in the order of arrival.  No other error is counted
  on, and nothing is assumed of clients: `Call` is not fair.
- `WsSession`: for each connection, weak fairness of the next step of its coroutine, of
  which `ReceiveEnds(c)` is one when the peer is gone: `wait_for` with
  `WS_HEARTBEAT_TIMEOUT` (`ws.py:168`) raises however silent the socket is.  A peer that is
  there need never send anything.
- `HttpGate`: weak fairness of `Tick` (time passes) and of `Go(r)`, the next step of a call
  that was taken in: threads get the lock, endpoints come to an end.  A socket need never
  close, and clients may go on calling.

## What is proved

For any number of students, requests, sockets, tokens, slots, log rows and limits, and any
planned times; `TypeOK` in each module first, by one lemma for each action.

- **`StudentPaper_proofs`** - `TypeCorrect`, `SubmitsBounded`, `NotStartedUntouched`,
  `SavesGuarded` (`NoSaveAfterEnd` and `SavedOnlyIfMonitored`), `LockedOutByCutOffOnly`
  (`NobodyLockedOut`).  The inductive invariant is `TypeOK`, `LockGuards` and, for each
  student, `Begun` and `Balanced`.  `NoSaveAfterEnd` is not inductive: what makes it true
  is that a save past its checks *holds the row*, so no other request can have changed the
  exam (`LockGuards`).  `SubmitsBoundedByLogins` needs that an open paper is a login not
  used up yet, `submits + (1 if in progress) <= logins` (`Balanced`): the conditional
  `UPDATE` of `submit_exam` takes the one, and only a login gives it back.
  `NotStartedIsUntouched` is proved and not run: `Balanced` and `Begun` imply it.
  `ContractImplemented` (`ImplementsContract`) and `ForcedAreTold` (`ForcedOnlineIsTold`)
  are about calls that come one at a time: what the one call in flight loaded is so still,
  and was reason enough to go on (`Flight`, `Relies`), so each commit is a step of
  `PaperContract`, or reopens a forced paper; and no socket is registered between a forced
  hand-in's commit and its frame, or for a paper that is closed (`Telling`).
  `LoneCodeOnce` and `LoneFrozen` are the other half of the two findings: `OneLoginPerCode`
  and `FrozenAfterHandIn`, which overlap breaks, hold until two requests have overlapped,
  so overlap is the only cause. `LockIsNeverOrphaned` and `CallsOnlyMoveOn` are what
  `EveryCallEnds` rests on besides fairness: the holder of the exam row is a save past its
  checks, which waits for nobody, and a call that has begun has at most three steps left,
  none of them back. `BoardImplemented`: the sockets of this module are a `SocketBoard`.
- **`WsSession_proofs`** - `TypeCorrect`, `Coherence` (`RegistryCoherent`), `NoGhosts`
  (`ActiveBacked`), `ServedIsKnown` (`LoneSocketIsKnown`), `NoWindowLeft`
  (`WindowsHaveSockets`).  The maps are removed from by token and by the student the token
  maps to; that this never hits another student's entry needs `Owned`: a token, wherever it
  is kept (row, registry, coroutine), belongs to one student, and one not minted to
  nobody.  That a served socket stays on the maps needs to know who could take it off: an
  entry is of the student its coroutine serves (`EntryMatches`), a second coroutine of the
  token has tangled it (`OneToken`), and a second one of the student has tangled it or was
  refused and has nothing on the maps (`OneStudent`).  Then whatever a `finally`
  unregisters is its own, and the window of a message is that of a registered socket.
  `BoardImplemented`: the coroutines, too, are a `SocketBoard`; `connect` shows one student
  and `disconnect` hides at most one, whichever token it is called with.
  `VanishedOnlyMoveOn` is what `VanishedIsUnregistered` rests on besides fairness: of a
  peer that is gone no message is handled, its coroutine has at most ten steps left, errors
  of the disconnect handling included, and one that has ended has no entry on the maps.
- **`ExamLifecycle_proofs`** - `TypeCorrect`, `TimesInOrder` (`ActualTimesInOrder`).
  `Ordered` says that of all stamps *on the row or in flight* no start is later than an
  end, unless a start was `overtaken`; `InFlight` that a request edits, begins or ends the
  row it saw and that the row has only moved ahead of that; `Staged` that a row has the
  stamps its status calls for, whatever overlapped.
  `PlanImplemented` (`ImplementsPlan`) and `DashboardForward` (`DashboardNeverGoesBack`): of
  requests that come one at a time the one in flight has the row as it is and wants a step
  of the plan (`Alone`, `PlanStep`), so the column-wise `UPDATE` writes exactly that row.
- **`HttpGate_proofs`** - `TypeCorrect` (windows never count above their limit),
  `NoSlotIsLost` (`SlotsAreCalls`).  The counter is the cardinality of the set of calls
  inside; each step puts one call in, takes one out or changes none.
  `BurstsAreBounded` (`BurstIsBounded`): what was let in over the last `Stretch` belongs to
  two windows, the one that is open and the one before it, and neither counts above the
  limit (`TwoWindows`, `Covers`).  It needs the waits of a thread bounded by a window: the
  first version of the property, about a stretch of a whole window whatever the wait, was
  false: calls that waited for the lock enter a window that is over, others open one
  that began before them, and a third window follows within the same stretch.
  `EveryCallCounts` says that the history it is stated on is one: a call let in adds
  exactly one entry (`Numbered`), and only time takes entries away.
- **`OperationLogs_proofs`** - `TypeCorrect`, `BlockedOnce` (`BlockedOncePerWindow`),
  `ReportedOnce` (`ReportedOncePerWindow`), `UnwatchedOnRecord` (`UnwatchedHandInOnRecord`).
  Ids and times order the log alike (`InOrder`), and of the rows of one student and kind
  there is a newest (`Newest`): it is what the look-up finds, so a look-up that finds
  nothing recent leaves the student *fresh*.  Fresh lasts until the `INSERT` because
  nobody else can insert in between: for a save, who refuses it holds the exam's row
  (`LockHeld`, `BlockFresh`); for a report there is no lock, hence the exception of two at
  once (`ReportAlone`, `ReportFresh`).  A hand-in nobody watched needs that its
  student stays off the registry until the check (`UnseenOffline`).
  `BoardIsConsistent` (`BoardAddsUp`): of the papers counted first only a deletion or a
  reopening takes one away, and each is counted (`BoardFits`).
  `PagesAreComplete` (`PagesMissNothing`): a row's place is the number of rows with a later
  id; rows that arrive only push it on.  What is unread has at least the pages read so far
  in front of it (`Ahead`), what arrives is none of it (`UnreadOld`), and a count that
  still fits (`CountFits`) leaves no place behind the last page.  `PagesAreDealt`: while
  nothing changes the pages share out the rows, each to one page, none longer than
  `PageSize`, the newer first; the place is an injection because no id is used twice
  (`IdsDiffer`).  `RefusalsFreeTheExam`: the exam row is held by a refused save that is
  about to log, or by nobody.
- **`ProblemBank_proofs`** - `TypeCorrect`, `MarkableButForStaleReads`
  (`OnlyStaleReadsBreak`), `EverybodyHears` (`NewProblemIsHeard`), `ArchiveIsComplete`
  (`HandedInIsComplete`).  An update in flight carries columns that make a markable row *of
  the row as loaded* (`Sound`).  A client with a list, not passed over since, has heard of a
  problem or is about to be told, and is answering if the broadcast has yet to select
  (`Heard`, `Telling`, `Answering`).  What an archive has read of a student who had handed in
  stays what is there (`ReadIsKept`): nobody who has handed in and is settled is still
  saving (`SaversWrite`), what is over stays so (`OverIsOver`), and a code row has its
  problem (`CodesHaveProblems`).
- **`Roster_proofs`** - `TypeCorrect`, `NumbersUnique` (`NumberOncePerExam`), `LoneSucceeds`
  (`LoneImportSucceeds`).  Two imports of one exam never fly unnoticed (`Crossing`); until
  then the numbers an import still has and those it has added are not in the table
  (`StillFree`); an import that is alone has codes of its own (`OwnCodes`).
- **`AdminAccounts_proofs`** - `TypeCorrect`, `SuperRemains` (`AlwaysASuper`),
  `StartFailsOnSecond` (`FailsOnlyOnSecondSuper`), `DeactivationHolds`
  (`BackOnlyOnRequest`).  While requests come one at a time (`OneAtATime`) the row in the
  session is the row in the table and the caller a super administrator (`Current`): either
  the caller stays one, or there was a second, since only an update that was counted takes
  the role away.

Assumptions: the named `ASSUME`s of the modules (`None` is no other value; times are
natural numbers; a minute is positive; slots are finite and limits positive; a thread
waits no longer than a window, and the cleanup is later than both together; students are
finite; `None` is no row and no window), which TLC evaluates in the runs.  The theorems
are about the specifications without fairness; the counters' bounds are constants in
them, and no proof uses one.

Only model-checked: liveness (`EveryCallEnds`, `VanishedIsUnregistered`,
`FullGateReopens`, `QuotaReturns`): fairness and `ENABLED` are out of the prover's reach.
Of the first two the theorems above have the part that needs neither.  Every invariant and
action property of the passing runs is proved.  `ImplementsBoard` is the other way round:
proved, and not among the properties of the runs (TLC finds no error with it in the
instances of `ws_two` and, with 5 requests, `paper_overlap`).

## Where code and documents disagree

Four have a run (findings in `PROJECT.json`): `paper_double_login` (`auth.py:113`),
`paper_save_after_submit` (`code.py:239`), `paper_forced_reopened` (`auth.py:123`),
`admin_restart` (`main.py:30`).  These were met while modelling; the modules contain the
behaviour, no run is kept for it:

- *Exam.*  `update_exam` checks what it loaded: a start loaded early puts an ended exam
  back to ongoing although the status is one-way (`models/exam.py:19`), which the dashboard
  shows; times sent before the start are committed after it (`exams.py:174`); two updates,
  one of each time, leave the end before the start (`exams.py:213`).  `alone` excludes
  exactly these.  A start whose SELECT came before another start may take its stamp after
  that one and an end have committed, and leave an actual start later than the actual end
  (`exams.py:203`, `overtaken`).
- *Accounts.*  Two demotions count two super administrators each and leave none
  (`admin.py:269`); `delete_admin` and `deactivate_admin` protect the caller only.  A
  holder's change of password, checked against the hash as loaded, may overwrite one that
  was forced meanwhile (`admin.py:537`; passwords are not modelled).
- *Problems.*  One update of the type and one of the options, each valid, leave a single
  choice with two answers (`problems.py:57`); a problem created while the exam starts, to a
  student whose socket is not registered yet or behind a dead one, is not announced
  (`websocket.py:262`, `passed`).
- *Export.*  A save that overlaps the hand-in reaches the database after the archive was
  read, so that the archive is not what is marked later (`unsettled`).  Two problems with equal
  number and cleaned title get one file name, and two students doubled by imports one
  folder (`export.py:24`, `:275`; names are not modelled).
- *Import.*  Two imports of one list double every student (`admin.py:662`).
- *Paper.*  An error or a stop after the first commit of a login uses the code up for
  nobody (`auth.py:125`, `cutOff`).  A socket verified before a forced hand-in and
  registered after its notice stays untold
  (`admin.py:849`).  Two forced hand-ins around a login and a hand-in: the second writes
  only the columns that differ from what it loaded, and leaves the paper as submitted
  although it answered that it took it in (`admin.py:834`).
- *Logs.*  Two failure reports at once are both logged (`ws.py:52`, `raced`).  An error or
  a stop between the two commits of an unwatched hand-in loses its critical row
  (`code.py:163`).  A login that opens a forced paper between the dashboard's two counts
  lets it show all papers in while one is being written (`admin.py:973`).  A list whose
  count and rows are read around a new row shows a page that does not fit its count.
- *Socket.*  Two sockets of one student pass the duplicate check before either registers
  (`ws.py:119`).  Every exit of the endpoint unregisters its token (`ws.py:230`), also that
  of a socket refused as a duplicate or for coming too often: a second tab with the same
  token, though refused, takes the first off the registry, which stays open and is taken
  for unwatched (`tangled`).  A failure report that found the student offline clears the
  flag after the student is back (`ws.py:79`).
- *Deletion.*  Students, problems and their code are removed from the tables although
  `README.md:12` promises soft deletion; only exams are soft-deleted.
- *Rate.*  The socket's limiter calls itself sliding (`websocket.py:237`) and is a fixed
  window; the factor of two in `BurstIsBounded` is what that costs.  The HTTP limiter lets
  calls of three windows into a stretch as long as one when threads wait for the lock:
  each call is counted at the time it read before the wait (`rate_limit.py:45`).

## Simplifications

- Passwords, names, titles and texts are left out; a code row is a count of writes.  One
  exam (two in `Roster`).
- Log rows are in `OperationLogs` only.  Rows written in the commit of the change they
  record are as safe as the change and are left out.
- JWT expiry is a client that does not call again.  A user name, once an account's, is not
  used again in `AdminAccounts`.
- A choice problem is its type and how many options are correct (0, 1, more).
- In `ProblemBank` a hand-in and an update of the exam are one step each; `StudentPaper`
  and `ExamLifecycle` have their steps.
- The database keeps what is committed; a commit whose reply is lost is a request that
  ends (`Fail`, `Restart`).
- No two log rows have the same time: ids and times order them alike.
- One IP and one token in `HttpGate`: keys share nothing.  A refused WebSocket connection
  (`ws.py:101`) is a choice of `Open`.

## Not modelled, and the plan

Done, in this order because the paper and its socket are what the system is for:
`StudentPaper` with `PaperContract`, `WsSession`, `ExamLifecycle` with `ExamPlan`,
`AdminAccounts`, `ProblemBank`, `Roster`; then `OperationLogs`, `HttpGate`, the export,
the dashboard, and what a socket leaves behind; the proofs of the eight modules that
model the code.

Not modelled:

- administrator login and passwords: one hash, read by the login and written by routes
  that nothing else depends on;
- `list_students`, `get_student_detail`, `get_code`, the lists of exams and problems for
  administrators: they read and format;
- the counts of the message rate limit (a refused frame writes nothing either way) and the
  one-way notices of `WebSocketManager` that no route sends;
- the connection pool of `database.py`: 100 calls at 50 connections may wait for one, and a
  save that holds the exam's row already has its own, so they wait, or end with an error
  (`Fail`), and do not block for good; sockets take a connection only to open, for a
  message, and at the end;
- the archive's names, csv columns and summaries, the countdown's seconds in text, error
  formatting, wiring, configuration, migrations, the container build.

Next, proofs: the registries of `OperationLogs` and `ProblemBank` against `SocketBoard`
(their connecting is one step where the board has two, so the mapping needs the handshake
split off first); what `FullGateReopens` and `QuotaReturns` rest on besides fairness, as
for the other two; the steps of a call in the other modules, as `CallsOnlyMoveOn`.
