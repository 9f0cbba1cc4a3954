------------------------ MODULE OperationLogs_proofs ------------------------
(***************************************************************************)
(* Proofs about OperationLogs, for any number of students, requests and   *)
(* rows, any window and any page size.                                     *)
(***************************************************************************)
EXTENDS OperationLogs, FiniteSetTheorems, TLAPS

never == "websocket_never_connected"
failed == "websocket_connect_failed"
missing == "websocket_missing_at_submit"

---------------------------------------------------------------------------
(* Types *)

\* The log is finite: its length is what the reader counts.
Typed == TypeOK /\ IsFiniteSet(log)

ReqTyped ==
  /\ req \in [Req -> Request] /\ started \in Nat
  /\ \A r \in Req : req[r].pc # "idle" => req[r].who \in Student

LogTyped ==
  /\ log \subseteq Row /\ nextId \in Nat /\ IsFiniteSet(log)
  /\ \A e \in log : e.who \in rows /\ e.id < nextId /\ e.at <= now

LEMMA StartTyped ==
  ASSUME TypeOK, NEW r \in Req, NEW pc \in Steps, NEW s \in Student, Start(r, pc, s)
  PROVE  ReqTyped'
BY DEF TypeOK, Start, At, Request, ReqTyped

LEMMA GotoTyped ==
  ASSUME TypeOK, NEW r \in Req, NEW from \in Steps \ {"idle"}, NEW to \in Steps, Goto(r, from, to)
  PROVE  ReqTyped' /\ req[r].pc = from /\ req[r].who \in Student
BY DEF TypeOK, Goto, At, Request, ReqTyped

LEMMA FinishTyped ==
  ASSUME TypeOK, NEW r \in Req, NEW from \in Steps \ {"idle"}, Finish(r, from)
  PROVE  ReqTyped' /\ req[r].pc = from /\ req[r].who \in Student
BY DEF TypeOK, Finish, Idle, At, Request, Steps, ReqTyped

\* What a change does to a reading: never to its place, but to what it is out by.
LEMMA ReaderChanges ==
  ASSUME reader \in Reader, NEW s,
         (\E points : Tear(points)) \/ Removed(s) \/ Reopened(s)
  PROVE  /\ reader' \in Reader
         /\ reader'.pc = reader.pc /\ reader'.count = reader.count
         /\ reader'.page = reader.page /\ reader'.unread = reader.unread
         /\ ~reader'.torn => ~reader.torn
         /\ reader'.gone \in {reader.gone, reader.gone + 1}
         /\ reader'.reopened \in {reader.reopened, reader.reopened + 1}
<1>1. /\ reader.page \in Nat /\ reader.count \in Nat /\ reader.unread \in SUBSET Row
      /\ reader.pc \in {"closed", "asking", "counted", "submits_counted"}
      /\ reader.torn \in BOOLEAN /\ reader.gone \in Nat /\ reader.reopened \in Nat
  BY DEF Reader
<1>2. CASE \E points : Tear(points)
  <2>1. PICK points : reader' = [reader EXCEPT !.torn = @ \/ reader.pc \in points]
    BY <1>2 DEF Tear
  <2>2. (reader.torn \/ reader.pc \in points) \in BOOLEAN
    OBVIOUS
  <2> QED BY <1>1, <2>1, <2>2 DEF Reader
<1>3. CASE Removed(s)
  <2> DEFINE torn == reader.torn \/ reader.pc \in {"asking", "counted"}
             gone == IF reader.pc = "submits_counted" /\ s \in rows
                     THEN reader.gone + 1 ELSE reader.gone
  <2>1. /\ torn \in BOOLEAN /\ (~torn => ~reader.torn)
        /\ gone \in Nat /\ gone \in {reader.gone, reader.gone + 1}
    BY <1>1
  <2>2. reader' = [reader EXCEPT !.torn = torn, !.gone = gone]
    BY <1>3 DEF Removed
  <2> HIDE DEF torn, gone
  <2> QED BY <1>1, <2>1, <2>2 DEF Reader
<1>4. CASE Reopened(s)
  BY <1>1, <1>4 DEF Reopened, Reader
<1> QED BY <1>2, <1>3, <1>4

\* What each of the handlers that write a row does last.
Writes(r, from, kind) == Finish(r, from) /\ Insert(r, kind) /\ UNCHANGED <<now, rows>>

LEMMA WritesTyped ==
  ASSUME Typed, NEW r \in Req, NEW from \in Steps \ {"idle"}, NEW kind \in Kind,
         Writes(r, from, kind)
  PROVE  /\ ReqTyped' /\ LogTyped' /\ reader' \in Reader
         /\ req[r].pc = from /\ req[r].who \in Student
<1>1. ReqTyped' /\ req[r].pc = from /\ req[r].who \in Student
  BY FinishTyped DEF Typed, Writes
<1>2. reader' \in Reader
  BY ReaderChanges DEF Typed, TypeOK, Writes, Insert
<1> DEFINE new == [id |-> nextId, who |-> req[r].who, kind |-> kind, at |-> now]
<1>3. log' = log \cup {new} /\ nextId' = nextId + 1 /\ new.who \in rows /\ UNCHANGED <<rows, now>>
  BY DEF Writes, Insert
<1>4. new \in Row
  BY <1>1 DEF Row, Typed, TypeOK
<1>5. IsFiniteSet(log')
  BY <1>3, FS_AddElement DEF Typed
<1>6. LogTyped'
  <2>1. /\ now \in Nat /\ nextId \in Nat /\ log \subseteq Row
        /\ \A e \in log : e.who \in rows /\ e.id \in Nat /\ e.id < nextId /\ e.at <= now
    BY DEF Typed, TypeOK, Row
  <2>2. new.id = nextId /\ new.at = now
    OBVIOUS
  <2> HIDE DEF new
  <2>3. \A e \in log' : e.who \in rows /\ e.id < nextId + 1 /\ e.at <= now
    BY <1>3, <2>1, <2>2
  <2> QED BY <1>3, <1>4, <1>5, <2>1, <2>3 DEF LogTyped
<1> QED BY <1>1, <1>2, <1>6

\* The handlers that write, and what they write.
WritingSteps ==
  {<<"block_log", never>>, <<"report_log", failed>>, <<"submit_log", missing>>,
   <<"create", "other">>, <<"force", "other">>}

Writing(r) ==
  BlockLog(r) \/ ReportLog(r) \/ SubmitLog(r) \/ CreateCommit(r) \/ ForceCommit(r)

LEMMA WhoWrites ==
  ASSUME NEW r \in Req, Writing(r)
  PROVE  /\ UNCHANGED <<now, rows, entered, sockets, raced, unseen>>
         /\ handed' \in {handed, handed \cup {req[r].who}}
         /\ lock' \in {lock, None}
         /\ \E w \in WritingSteps : Writes(r, w[1], w[2]) /\ (w[2] # never => UNCHANGED lock)
<1>1. CASE BlockLog(r)
  BY <1>1 DEF BlockLog, Writes, WritingSteps, never, students
<1>2. CASE ReportLog(r)
  BY <1>2 DEF ReportLog, Writes, WritingSteps, failed, students
<1>3. CASE SubmitLog(r)
  BY <1>3 DEF SubmitLog, Writes, WritingSteps, missing, students
<1>4. CASE CreateCommit(r)
  BY <1>4 DEF CreateCommit, Writes, WritingSteps, students
<1>5. CASE ForceCommit(r)
  BY <1>5 DEF ForceCommit, Writes, WritingSteps, never
<1> QED BY <1>1, <1>2, <1>3, <1>4, <1>5 DEF Writing

LEMMA TypeStep ==
  ASSUME Typed, [Next]_vars
  PROVE  Typed'
<1> USE DEF Typed
<1>1. ASSUME NEW r \in Req, Writing(r)
      PROVE  Typed'
  <2>1. PICK w \in WritingSteps : Writes(r, w[1], w[2])
    BY <1>1, WhoWrites
  <2>2. w[1] \in Steps \ {"idle"} /\ w[2] \in Kind
    BY DEF WritingSteps, Steps, Kind, never, failed, missing
  <2>3. ReqTyped' /\ LogTyped' /\ reader' \in Reader
    BY <2>1, <2>2, WritesTyped
  <2>4. /\ UNCHANGED <<now, rows, entered, sockets, raced, unseen>> /\ lock' \in {lock, None}
        /\ handed' \in {handed, handed \cup {req[r].who}}
    BY <1>1, WhoWrites
  <2>5. req[r].who \in rows
    BY <2>1 DEF Writes, Insert
  <2> QED BY <2>3, <2>4, <2>5 DEF TypeOK, ReqTyped, LogTyped, sockets
<1>2. ASSUME NEW r \in Req, Call(r) PROVE Typed'
  <2>1. PICK s \in Student : SaveStart(r, s) \/ ReportStart(r, s) \/ SubmitStart(r, s)
                             \/ CreateStart(r, s) \/ LoginStart(r, s) \/ ForceStart(r, s)
                             \/ DeleteStart(r, s)
    BY <1>2 DEF Call
  <2>2. PICK pc \in Steps : Start(r, pc, s)
    BY <2>1 DEF SaveStart, ReportStart, SubmitStart, CreateStart, LoginStart, ForceStart,
                DeleteStart, Steps
  <2>3. ReqTyped'
    BY <2>2, StartTyped
  <2>4. UNCHANGED <<now, students, sockets, lock, table, reader, unseen>> /\ raced' \subseteq Student
    BY <2>1 DEF SaveStart, ReportStart, SubmitStart, CreateStart, LoginStart, ForceStart,
                DeleteStart, TypeOK
  <2> QED BY <2>3, <2>4 DEF TypeOK, ReqTyped, students, sockets, table
<1>3. ASSUME NEW r \in Req, SaveLock(r) \/ BlockLookup(r) \/ ReportLookup(r) \/ SubmitCheck(r)
      PROVE  Typed'
  <2>1. ReqTyped'
    BY <1>3, GotoTyped, FinishTyped DEF SaveLock, BlockLookup, ReportLookup, SubmitCheck, Steps
  <2>2. UNCHANGED <<now, students, sockets, table, reader, raced, unseen>> /\ lock' \in {lock, r, None}
    BY <1>3 DEF SaveLock, BlockLookup, ReportLookup, SubmitCheck
  <2> QED BY <2>1, <2>2 DEF TypeOK, ReqTyped, students, sockets, table
<1>4. ASSUME NEW r \in Req, SubmitCommit(r) PROVE Typed'
  <2>1. ReqTyped' /\ req[r].who \in Student
    BY <1>4, GotoTyped, FinishTyped DEF SubmitCommit, Steps
  <2>2. handed' \subseteq rows /\ unseen' \subseteq Student
    BY <1>4, <2>1 DEF SubmitCommit, TypeOK
  <2> QED BY <1>4, <2>1, <2>2 DEF SubmitCommit, TypeOK, ReqTyped, sockets, table
<1>5. ASSUME NEW r \in Req, DeleteCommit(r) PROVE Typed'
  <2>1. ReqTyped' /\ reader' \in Reader
    BY <1>5, FinishTyped, ReaderChanges DEF DeleteCommit, Steps, TypeOK
  <2>2. IsFiniteSet(log')
    BY <1>5, FS_Subset DEF DeleteCommit
  <2> QED BY <1>5, <2>1, <2>2 DEF DeleteCommit, TypeOK, ReqTyped, sockets
<1>6. ASSUME NEW r \in Req, Fail(r) PROVE Typed'
  BY <1>6 DEF Fail, CutOff, TypeOK, Idle, At, Request, Steps, students, sockets, table
<1>10. ASSUME NEW r \in Req, LoginCommit(r) PROVE Typed'
  <2>1. ReqTyped' /\ req[r].who \in Student
    BY <1>10, GotoTyped DEF LoginCommit, Steps
  <2>2. reader' \in Reader
    BY <1>10, ReaderChanges DEF LoginCommit, TypeOK
  <2> QED BY <1>10, <2>1, <2>2 DEF LoginCommit, TypeOK, ReqTyped, sockets, table
<1>7. CASE Read
  <2>1. Cardinality(log) \in Nat /\ Cardinality(handed) \in Nat
    BY FS_CardinalityType, FS_Subset, StudentAssumption DEF TypeOK
  <2>2. /\ reader.page \in Nat /\ reader.count \in Nat /\ reader.unread \in SUBSET Row
        /\ reader.torn \in BOOLEAN /\ log \in SUBSET Row
    BY DEF TypeOK, Reader
  <2>4. \A pc \in {"asking", "counted", "submits_counted", "closed"}, page \in Nat, count \in Nat,
           unread \in SUBSET Row, torn \in BOOLEAN : Reading(pc, page, count, unread, torn) \in Reader
    BY DEF Reading, Reader
  <2>5. Unread \in SUBSET Row /\ reader.page + 1 \in Nat
    BY <2>2 DEF Unread
  <2>6. reader' \in Reader
    <3>1. CASE ListOpen
      BY <2>2, <2>4, <3>1 DEF ListOpen
    <3>2. CASE ListCount
      BY <2>1, <2>2, <2>4, <3>2 DEF ListCount
    <3>3. CASE ListRows
      BY <2>2, <2>4, <2>5, <3>3 DEF ListRows, Closed
    <3>4. CASE BoardSubmits
      BY <2>1, <2>4, <3>4 DEF BoardSubmits, submit_count
    <3>5. CASE BoardTotal
      BY <2>4, <3>5 DEF BoardTotal, Closed
    <3> QED BY <1>7, <3>1, <3>2, <3>3, <3>4, <3>5 DEF Read
  <2>3. UNCHANGED <<now, students, sockets, lock, table, requests, raced, unseen>>
    BY <1>7 DEF Read, ListOpen, ListCount, ListRows, BoardSubmits, BoardTotal
  <2> QED BY <2>3, <2>6 DEF TypeOK, students, sockets, table, requests
<1>8. ASSUME NEW s \in Student, Connect(s) \/ Disconnect(s) PROVE Typed'
  BY <1>8 DEF Connect, Disconnect, TypeOK, students, table, requests
<1>9. CASE Restart \/ Tick \/ UNCHANGED vars
  BY <1>9 DEF Restart, Tick, vars, TypeOK, Idle, At, Request, Steps, Row, students, sockets, table,
              requests
<1> QED BY <1>1, <1>2, <1>3, <1>4, <1>5, <1>6, <1>7, <1>8, <1>9, <1>10 DEF Next, Proceed, Writing

LEMMA TypeInit == Init => Typed
BY FS_EmptySet DEF Init, Typed, TypeOK, Idle, At, Request, Steps, Closed, Reading, Reader

\* Every variable keeps its type, and no row outlives its student.
THEOREM TypeCorrect == Spec => []TypeOK
<1>1. Spec => []Typed
  BY TypeInit, TypeStep, PTL DEF Spec
<1> QED BY <1>1, PTL DEF Typed

---------------------------------------------------------------------------
(* The log in its order                                                   *)

Of(s, kind) == {e \in log : e.who = s /\ e.kind = kind}

\* Later ids have later times; and the rows of a student and a kind have a newest one,
\* which is what ORDER BY ... LIMIT 1 finds.
InOrder == \A e, f \in log : e.id <= f.id => e.at <= f.at
Newest ==
  \A s \in Student, kind \in Kind :
    Of(s, kind) # {} => \E m \in Of(s, kind) : \A f \in Of(s, kind) : f.id <= m.id
LogInv == InOrder /\ Newest

\* No row of this kind is younger than the window.
Fresh(s, kind) == \A e \in Of(s, kind) : now - e.at >= Window

LEMMA Lookup ==
  ASSUME Typed, LogInv, NEW s \in Student, NEW kind \in Kind, ~duplicated(s, kind)
  PROVE  Fresh(s, kind)
<1> SUFFICES ASSUME NEW e \in Of(s, kind) PROVE now - e.at >= Window
  BY DEF Fresh
<1>1. PICK m \in Of(s, kind) : \A f \in Of(s, kind) : f.id <= m.id
  BY DEF LogInv, Newest
<1>2. m \in Recent(s, kind)
  BY <1>1 DEF Of, Recent
<1>3. m \in log /\ e \in log /\ e.at <= m.at
  BY <1>1 DEF Of, LogInv, InOrder
<1>4. m.at \in Nat /\ e.at \in Nat /\ now \in Nat /\ Window \in Nat
  BY <1>3, BoundsAssumption DEF Typed, TypeOK, Row
<1>5. ~(now - m.at < Window)
  BY <1>2 DEF duplicated
<1> QED BY <1>3, <1>4, <1>5

\* A row is written, a student's rows go, or the log stays.
LEMMA LogChange ==
  ASSUME [Next]_vars
  PROVE  \/ log' = log /\ now' \in {now, now + 1}
         \/ \E r \in Req, w \in WritingSteps : Writes(r, w[1], w[2])
         \/ \E r \in Req : DeleteCommit(r)
<1>1. ASSUME NEW r \in Req, Writing(r)
      PROVE  \E w \in WritingSteps : Writes(r, w[1], w[2])
  BY <1>1, WhoWrites
<1>2. ASSUME NEW r \in Req, Call(r) \/ SaveLock(r) \/ BlockLookup(r) \/ ReportLookup(r)
                            \/ SubmitCheck(r) \/ SubmitCommit(r) \/ LoginCommit(r) \/ Fail(r)
      PROVE  log' = log /\ now' = now
  BY <1>2 DEF Call, SaveStart, ReportStart, SubmitStart, CreateStart, LoginStart, ForceStart,
                DeleteStart, SaveLock,
              BlockLookup, ReportLookup, SubmitCheck, SubmitCommit, LoginCommit, Fail, table
<1>3. CASE Read \/ Restart \/ Tick \/ UNCHANGED vars
           \/ \E s \in Student : Connect(s) \/ Disconnect(s)
  BY <1>3 DEF Read, ListOpen, ListCount, ListRows, BoardSubmits, BoardTotal, Restart, Tick, vars,
              Connect, Disconnect, table
<1> QED BY <1>1, <1>2, <1>3 DEF Next, Proceed, Writing

LEMMA NewRow ==
  ASSUME Typed, NEW r \in Req, NEW w \in WritingSteps, Writes(r, w[1], w[2])
  PROVE  /\ req[r].pc = w[1] /\ req[r].who \in Student /\ w[2] \in Kind
         /\ req' = [req EXCEPT ![r] = Idle] /\ UNCHANGED <<now, rows>>
         /\ \E new \in Row :
              /\ log' = log \cup {new}
              /\ new.id = nextId /\ new.who = req[r].who /\ new.kind = w[2] /\ new.at = now
              /\ \A e \in log : /\ e.id < new.id /\ e.at <= new.at
                                /\ e.id \in Nat /\ e.at \in Nat
<1>1. w[1] \in Steps \ {"idle"} /\ w[2] \in Kind
  BY DEF WritingSteps, Steps, Kind, never, failed, missing
<1>2. req[r].pc = w[1] /\ req[r].who \in Student
  BY <1>1, WritesTyped
<1> DEFINE new == [id |-> nextId, who |-> req[r].who, kind |-> w[2], at |-> now]
<1>3. new \in Row
  BY <1>1, <1>2 DEF Row, Typed, TypeOK
<1>4. log' = log \cup {new} /\ req' = [req EXCEPT ![r] = Idle] /\ UNCHANGED <<now, rows>>
  BY DEF Writes, Insert, Finish
<1>5. \A e \in log : e.id < nextId /\ e.at <= now /\ e.id \in Nat /\ e.at \in Nat
  BY DEF Typed, TypeOK, Row
<1> QED BY <1>1, <1>2, <1>3, <1>4, <1>5

LEMMA LogStep ==
  ASSUME Typed, LogInv, [Next]_vars
  PROVE  LogInv'
<1>1. CASE log' = log
  BY <1>1 DEF LogInv, InOrder, Newest, Of
<1>2. ASSUME NEW r \in Req, NEW w \in WritingSteps, Writes(r, w[1], w[2]) PROVE LogInv'
  <2>1. PICK new \in Row :
          /\ log' = log \cup {new}
          /\ \A e \in log : e.id < new.id /\ e.at <= new.at /\ e.id \in Nat /\ e.at \in Nat
    BY <1>2, NewRow
  <2>2. new.id \in Nat /\ new.at \in Nat
    BY DEF Row
  <2>3. InOrder'
    BY <2>1, <2>2 DEF LogInv, InOrder
  <2>4. ASSUME NEW s \in Student, NEW kind \in Kind, Of(s, kind)' # {}
        PROVE  \E m \in Of(s, kind)' : \A f \in Of(s, kind)' : f.id <= m.id
    <3>1. CASE new.who = s /\ new.kind = kind
      <4>1. new \in Of(s, kind)' /\ \A f \in Of(s, kind)' : f.id <= new.id
        BY <2>1, <2>2, <3>1 DEF Of
      <4> QED BY <4>1
    <3>2. CASE ~(new.who = s /\ new.kind = kind)
      <4>1. Of(s, kind)' = Of(s, kind)
        BY <2>1, <3>2 DEF Of
      <4> QED BY <2>4, <4>1 DEF LogInv, Newest
    <3> QED BY <3>1, <3>2
  <2>5. Newest'
    BY <2>4 DEF Newest
  <2> QED BY <2>3, <2>5 DEF LogInv
<1>3. ASSUME NEW r \in Req, DeleteCommit(r) PROVE LogInv'
  <2>1. log' = {e \in log : e.who # req[r].who}
    BY <1>3 DEF DeleteCommit
  <2>2. \A s \in Student, kind \in Kind : Of(s, kind)' \in {{}, Of(s, kind)}
    BY <2>1 DEF Of
  <2>3. InOrder'
    BY <2>1 DEF LogInv, InOrder
  <2>4. Newest'
    BY <2>2 DEF LogInv, Newest
  <2> QED BY <2>3, <2>4 DEF LogInv
<1> QED BY <1>1, <1>2, <1>3, LogChange

\* What is fresh stays so until somebody writes a row of that kind for that student.
LEMMA FreshStep ==
  ASSUME Typed, [Next]_vars, NEW s \in Student, NEW kind \in Kind, Fresh(s, kind),
         \A r \in Req, w \in WritingSteps :
           Writes(r, w[1], w[2]) => ~(req[r].who = s /\ w[2] = kind)
  PROVE  Fresh(s, kind)'
<1>1. now \in Nat /\ Window \in Nat /\ \A e \in log : e.at \in Nat
  BY BoundsAssumption DEF Typed, TypeOK, Row
<1>2. CASE log' = log /\ now' \in {now, now + 1}
  BY <1>1, <1>2 DEF Fresh, Of
<1>3. ASSUME NEW r \in Req, NEW w \in WritingSteps, Writes(r, w[1], w[2]) PROVE Fresh(s, kind)'
  <2>1. PICK new \in Row : log' = log \cup {new} /\ new.who = req[r].who /\ new.kind = w[2]
    BY <1>3, NewRow
  <2>2. UNCHANGED now
    BY <1>3, NewRow
  <2> QED BY <1>3, <2>1, <2>2 DEF Fresh, Of
<1>4. ASSUME NEW r \in Req, DeleteCommit(r) PROVE Fresh(s, kind)'
  BY <1>4 DEF DeleteCommit, Fresh, Of
<1> QED BY <1>2, <1>3, <1>4, LogChange

\* Rows stay a window apart when what is written was fresh.
LEMMA ApartStep ==
  ASSUME Typed, [Next]_vars, NEW s \in Student, NEW kind \in Kind, Apart(kind, s),
         \A r \in Req, w \in WritingSteps :
           Writes(r, w[1], w[2]) /\ req[r].who = s /\ w[2] = kind => Fresh(s, kind)
  PROVE  Apart(kind, s)'
<1>1. CASE log' \subseteq log
  BY <1>1 DEF Apart
<1>2. ASSUME NEW r \in Req, NEW w \in WritingSteps, Writes(r, w[1], w[2]) PROVE Apart(kind, s)'
  <2>1. PICK new \in Row :
          /\ log' = log \cup {new}
          /\ new.who = req[r].who /\ new.kind = w[2] /\ new.at = now
          /\ \A e \in log : e.id < new.id /\ e.id \in Nat
    BY <1>2, NewRow
  <2>2. new.id \in Nat
    BY DEF Row
  <2>3. new.who = s /\ new.kind = kind => \A e \in Of(s, kind) : new.at - e.at >= Window
    BY <1>2, <2>1 DEF Fresh
  <2> SUFFICES ASSUME NEW e \in log', NEW f \in log', e.kind = kind, f.kind = kind,
                      e.who = s, f.who = s, e.id < f.id
               PROVE  f.at - e.at >= Window
    BY DEF Apart
  <2>4. e \in log
    BY <2>1, <2>2
  <2>5. CASE f \in log
    BY <2>4, <2>5 DEF Apart
  <2>6. CASE f = new
    BY <2>3, <2>4, <2>6 DEF Of
  <2> QED BY <2>1, <2>5, <2>6
<1>3. ASSUME NEW r \in Req, DeleteCommit(r) PROVE log' \subseteq log
  BY <1>3 DEF DeleteCommit
<1> QED BY <1>1, <1>2, <1>3, LogChange

---------------------------------------------------------------------------
(* The two look-ups: one under the exam's lock, one without               *)

Blocking == {"block_lookup", "block_log"}
Reporting == {"report", "report_log"}

\* Who refuses a save holds the exam row; what he is about to log is fresh.
LockHeld == \A r \in Req : req[r].pc \in Blocking => lock = r
BlockFresh ==
  \A r \in Req, s \in Student : req[r].pc = "block_log" /\ req[r].who = s => Fresh(s, never)

\* Nothing but raced tells two reports of one student apart.
ReportAlone ==
  \A q, r \in Req :
    q # r /\ req[q].pc \in Reporting /\ req[r].pc \in Reporting /\ req[q].who = req[r].who =>
      req[r].who \in raced
ReportFresh ==
  \A r \in Req, s \in Student \ raced :
    req[r].pc = "report_log" /\ req[r].who = s => Fresh(s, failed)

LookupInv == LockHeld /\ BlockFresh /\ ReportAlone /\ ReportFresh
Inv == Typed /\ LogInv /\ LookupInv /\ BlockedOncePerWindow /\ ReportedOncePerWindow

\* How a request of r comes to a step that the look-ups are about.
LEMMA Moves ==
  ASSUME Typed, NEW r \in Req, Call(r) \/ Proceed(r)
  PROVE  /\ \A q \in Req : q # r => req'[q] = req[q]
         /\ raced \subseteq raced'
         /\ req'[r].pc = "block_lookup" => lock = None /\ lock' = r
         /\ req'[r].pc = "block_log" =>
              /\ req[r].pc = "block_lookup" /\ UNCHANGED <<lock, log, now>>
              /\ req'[r].who = req[r].who /\ ~duplicated(req[r].who, never)
         /\ req'[r].pc = "report" =>
              \A q \in Req : req[q].pc \in Reporting /\ req[q].who = req'[r].who =>
                req'[r].who \in raced'
         /\ req'[r].pc = "report_log" =>
              /\ req[r].pc = "report" /\ UNCHANGED <<log, now>>
              /\ req'[r].who = req[r].who /\ ~duplicated(req[r].who, failed)
         /\ lock' # lock => lock \in {None, r} \/ req[r].pc \in Blocking
<1> USE DEF Typed
<1>1. ASSUME NEW pc \in Steps \ (Blocking \cup Reporting), NEW s \in Student, Start(r, pc, s)
      PROVE  (\A q \in Req : q # r => req'[q] = req[q]) /\ req'[r].pc = pc
  BY <1>1 DEF Start, At, TypeOK
<1>2. ASSUME NEW from, NEW to, Goto(r, from, to)
      PROVE  /\ \A q \in Req : q # r => req'[q] = req[q]
             /\ req[r].pc = from /\ req'[r].pc = to /\ req'[r].who = req[r].who
  BY <1>2 DEF Goto, At, TypeOK
<1>3. ASSUME req' = [req EXCEPT ![r] = Idle]
      PROVE  (\A q \in Req : q # r => req'[q] = req[q]) /\ req'[r].pc = "idle"
  BY <1>3 DEF Idle, At, TypeOK
<1>4. ASSUME NEW from, Finish(r, from) PROVE req[r].pc = from /\ req' = [req EXCEPT ![r] = Idle]
  BY <1>4 DEF Finish
<1>5. ASSUME NEW s \in Student, SaveStart(r, s) \/ SubmitStart(r, s) \/ CreateStart(r, s)
                                \/ LoginStart(r, s) \/ ForceStart(r, s) \/ DeleteStart(r, s)
      PROVE  /\ \A q \in Req : q # r => req'[q] = req[q]
             /\ req'[r].pc \notin Blocking \cup Reporting /\ UNCHANGED <<lock, raced>>
  <2>1. PICK pc \in Steps \ (Blocking \cup Reporting) : Start(r, pc, s)
    BY <1>5 DEF SaveStart, SubmitStart, CreateStart, LoginStart, ForceStart, DeleteStart, Steps,
                Blocking, Reporting
  <2>2. UNCHANGED <<lock, raced>>
    BY <1>5 DEF SaveStart, SubmitStart, CreateStart, LoginStart, ForceStart, DeleteStart
  <2> QED BY <1>1, <2>1, <2>2
<1>6. ASSUME NEW s \in Student, ReportStart(r, s)
      PROVE  /\ \A q \in Req : q # r => req'[q] = req[q]
             /\ req'[r].pc = "report" /\ req'[r].who = s
             /\ UNCHANGED lock /\ raced \subseteq raced'
             /\ \A q \in Req : req[q].pc \in Reporting /\ req[q].who = s => s \in raced'
  BY <1>6 DEF ReportStart, Start, At, TypeOK, Reporting
<1>7. CASE SaveLock(r)
  BY <1>2, <1>3, <1>4, <1>7 DEF SaveLock
<1>8. CASE BlockLookup(r)
  BY <1>2, <1>3, <1>4, <1>8 DEF BlockLookup, table, Blocking, never
<1>9. CASE ReportLookup(r)
  BY <1>2, <1>3, <1>4, <1>9 DEF ReportLookup, table, failed
<1>10. CASE SubmitCommit(r) \/ SubmitCheck(r) \/ LoginCommit(r)
  BY <1>2, <1>3, <1>4, <1>10 DEF SubmitCommit, SubmitCheck, LoginCommit
<1>11. CASE BlockLog(r)
  BY <1>3, <1>4, <1>11 DEF BlockLog, Blocking
<1>12. CASE ReportLog(r) \/ SubmitLog(r) \/ CreateCommit(r) \/ ForceCommit(r) \/ DeleteCommit(r)
  BY <1>3, <1>4, <1>12 DEF ReportLog, SubmitLog, CreateCommit, ForceCommit, DeleteCommit
<1>13. CASE Fail(r)
  BY <1>3, <1>13 DEF Fail
<1>14. CASE Call(r)
  BY <1>5, <1>6, <1>14 DEF Call, Blocking, Reporting
<1> QED BY <1>7, <1>8, <1>9, <1>10, <1>11, <1>12, <1>13, <1>14 DEF Proceed

LEMMA OthersMove ==
  ASSUME [Next]_vars, \A r \in Req : ~(Call(r) \/ Proceed(r))
  PROVE  \/ UNCHANGED <<req, lock, raced>>
         \/ raced' = raced /\ \A r \in Req : req'[r] = Idle
BY DEF Next, Connect, Disconnect, Read, ListOpen, ListCount, ListRows, BoardSubmits, BoardTotal,
       Restart, Tick, vars, requests

\* Only who holds the lock writes the rows of refused saves.
LEMMA OneBlocks ==
  ASSUME Typed, LockHeld, NEW q \in Req, req[q].pc \in Blocking,
         NEW r \in Req, NEW w \in WritingSteps, Writes(r, w[1], w[2]), w[2] = never
  PROVE  r = q
<1>1. w[1] = "block_log"
  BY DEF WritingSteps, never, failed, missing
<1> QED BY <1>1, NewRow DEF LockHeld, Blocking

LEMMA WhoReports ==
  ASSUME Typed, NEW r \in Req, NEW w \in WritingSteps, Writes(r, w[1], w[2]), w[2] = failed
  PROVE  req[r].pc = "report_log"
BY NewRow DEF WritingSteps, never, failed, missing

LEMMA LookupStep ==
  ASSUME Typed, LogInv, LookupInv, [Next]_vars
  PROVE  LookupInv'
<1> USE DEF LookupInv
<1>k. never \in Kind /\ failed \in Kind
  BY DEF Kind, never, failed
<1>1. ASSUME NEW r \in Req, Call(r) \/ Proceed(r) PROVE LookupInv'
  <2>0. /\ \A q \in Req : q # r => req'[q] = req[q]
        /\ raced \subseteq raced'
        /\ req'[r].pc = "block_lookup" => lock = None /\ lock' = r
        /\ req'[r].pc = "block_log" =>
             /\ req[r].pc = "block_lookup" /\ UNCHANGED <<lock, log, now>>
             /\ req'[r].who = req[r].who /\ ~duplicated(req[r].who, never)
        /\ req'[r].pc = "report" =>
             \A q \in Req : req[q].pc \in Reporting /\ req[q].who = req'[r].who =>
               req'[r].who \in raced'
        /\ req'[r].pc = "report_log" =>
             /\ req[r].pc = "report" /\ UNCHANGED <<log, now>>
             /\ req'[r].who = req[r].who /\ ~duplicated(req[r].who, failed)
        /\ lock' # lock => lock \in {None, r} \/ req[r].pc \in Blocking
    BY <1>1, Moves
  <2>1. LockHeld'
    <3> SUFFICES ASSUME NEW q \in Req, req'[q].pc \in Blocking PROVE lock' = q
      BY DEF LockHeld
    <3>1. CASE q = r
      BY <2>0, <3>1 DEF LockHeld, Blocking
    <3>2. CASE q # r
      <4>1. lock = q
        BY <2>0, <3>2 DEF LockHeld
      <4> QED BY <2>0, <3>2, <4>1, NoneAssumption DEF LockHeld
    <3> QED BY <3>1, <3>2
  <2>2. BlockFresh'
    <3> SUFFICES ASSUME NEW q \in Req, NEW s \in Student, req'[q].pc = "block_log", req'[q].who = s
                 PROVE  Fresh(s, never)'
      BY DEF BlockFresh
    <3>1. CASE q = r
      <4>1. Fresh(s, never)
        BY <1>k, <2>0, <3>1, Lookup
      <4> QED BY <2>0, <3>1, <4>1 DEF Fresh, Of
    <3>2. CASE q # r
      <4>1. req'[q] = req[q] /\ Fresh(s, never)
        BY <2>0, <3>2 DEF BlockFresh
      <4>2. ASSUME NEW p \in Req, NEW w \in WritingSteps, Writes(p, w[1], w[2]), w[2] = never
            PROVE  p = q
        BY <4>1, <4>2, OneBlocks DEF Blocking
      <4>3. ~Writes(q, "block_log", never)
        BY <4>1 DEF Writes, Finish, Idle, At, Typed, TypeOK
      <4>4. \A w \in WritingSteps : w[2] = never => w[1] = "block_log"
        BY DEF WritingSteps, never, failed, missing
      <4>5. \A p \in Req, w \in WritingSteps :
              Writes(p, w[1], w[2]) => ~(req[p].who = s /\ w[2] = never)
        BY <4>2, <4>3, <4>4
      <4> QED BY <1>k, <4>1, <4>5, FreshStep
    <3> QED BY <3>1, <3>2
  <2>3. ReportAlone'
    <3>1. \A p \in Req : p # r /\ req'[p].pc \in Reporting /\ req'[r].pc \in Reporting
                         /\ req'[p].who = req'[r].who => req'[r].who \in raced'
      BY <2>0 DEF ReportAlone, Reporting
    <3> QED BY <2>0, <3>1 DEF ReportAlone
  <2>4. ReportFresh'
    <3> SUFFICES ASSUME NEW q \in Req, NEW s \in Student \ raced', req'[q].pc = "report_log", req'[q].who = s
                 PROVE  Fresh(s, failed)'
      BY DEF ReportFresh
    <3>1. CASE q = r
      <4>1. Fresh(s, failed)
        BY <1>k, <2>0, <3>1, Lookup
      <4> QED BY <2>0, <3>1, <4>1 DEF Fresh, Of
    <3>2. CASE q # r
      <4>1. req'[q] = req[q] /\ Fresh(s, failed)
        BY <2>0, <3>2 DEF ReportFresh
      <4>2. ASSUME NEW p \in Req, NEW w \in WritingSteps, Writes(p, w[1], w[2]), w[2] = failed,
                   req[p].who = s
            PROVE  p = q
        BY <2>0, <4>1, <4>2, WhoReports DEF ReportAlone, Reporting
      <4>3. ~Writes(q, "report_log", failed)
        BY <4>1 DEF Writes, Finish, Idle, At, Typed, TypeOK
      <4>4. \A w \in WritingSteps : w[2] = failed => w[1] = "report_log"
        BY DEF WritingSteps, never, failed, missing
      <4>5. \A p \in Req, w \in WritingSteps :
              Writes(p, w[1], w[2]) => ~(req[p].who = s /\ w[2] = failed)
        BY <4>2, <4>3, <4>4
      <4> QED BY <1>k, <4>1, <4>5, FreshStep
    <3> QED BY <3>1, <3>2
  <2> QED BY <2>1, <2>2, <2>3, <2>4
<1>2. ASSUME \A r \in Req : ~(Call(r) \/ Proceed(r)) PROVE LookupInv'
  <2>1. CASE UNCHANGED <<req, lock, raced>>
    <3>1. \A r \in Req, w \in WritingSteps : ~Writes(r, w[1], w[2])
      <4> SUFFICES ASSUME NEW r \in Req, NEW w \in WritingSteps, Writes(r, w[1], w[2]) PROVE FALSE
        OBVIOUS
      <4>1. w[1] # "idle" /\ req[r].pc = w[1]
        BY NewRow DEF WritingSteps
      <4>2. req'[r].pc = "idle"
        BY NewRow DEF Idle, At, Typed, TypeOK
      <4> QED BY <2>1, <4>1, <4>2
    <3>2. BlockFresh'
      <4> SUFFICES ASSUME NEW q \in Req, NEW s \in Student, req[q].pc = "block_log", req[q].who = s
                   PROVE  Fresh(s, never)'
        BY <2>1 DEF BlockFresh
      <4>1. Fresh(s, never)
        BY DEF BlockFresh
      <4> QED BY <1>k, <3>1, <4>1, FreshStep
    <3>3. ReportFresh'
      <4> SUFFICES ASSUME NEW q \in Req, NEW s \in Student \ raced, req[q].pc = "report_log",
                          req[q].who = s
                   PROVE  Fresh(s, failed)'
        BY <2>1 DEF ReportFresh
      <4>1. Fresh(s, failed)
        BY DEF ReportFresh
      <4> QED BY <1>k, <3>1, <4>1, FreshStep
    <3> QED BY <2>1, <3>2, <3>3 DEF LockHeld, ReportAlone
  <2>2. CASE raced' = raced /\ \A r \in Req : req'[r] = Idle
    BY <2>2 DEF Idle, At, LockHeld, BlockFresh, ReportAlone, ReportFresh, Blocking, Reporting
  <2> QED BY <1>2, <2>1, <2>2, OthersMove
<1> QED BY <1>1, <1>2

LEMMA InvStep ==
  ASSUME Inv, [Next]_vars
  PROVE  Inv'
<1> USE DEF Inv
<1>k. never \in Kind /\ failed \in Kind
  BY DEF Kind, never, failed
<1>1. Typed' /\ LogInv' /\ LookupInv'
  BY TypeStep, LogStep, LookupStep
<1>2. BlockedOncePerWindow'
  <2> SUFFICES ASSUME NEW s \in Student PROVE Apart(never, s)'
    BY DEF BlockedOncePerWindow, never
  <2>1. ASSUME NEW r \in Req, NEW w \in WritingSteps, Writes(r, w[1], w[2]), req[r].who = s,
               w[2] = never
        PROVE  Fresh(s, never)
    <3>1. req[r].pc = "block_log"
      BY <2>1, NewRow DEF WritingSteps, never, failed, missing
    <3> QED BY <2>1, <3>1 DEF LookupInv, BlockFresh
  <2>2. Apart(never, s)
    BY DEF BlockedOncePerWindow, never
  <2> QED BY <1>k, <2>1, <2>2, ApartStep
<1>3. ReportedOncePerWindow'
  <2>1. raced \subseteq raced'
    <3>1. ASSUME NEW r \in Req, Call(r) \/ Proceed(r) PROVE raced \subseteq raced'
      BY <3>1, Moves
    <3> QED BY <3>1, OthersMove
  <2> SUFFICES ASSUME NEW s \in Student \ raced PROVE Apart(failed, s)'
    BY <2>1 DEF ReportedOncePerWindow, failed
  <2>2. ASSUME NEW r \in Req, NEW w \in WritingSteps, Writes(r, w[1], w[2]), req[r].who = s,
               w[2] = failed
        PROVE  Fresh(s, failed)
    BY <2>2, WhoReports DEF LookupInv, ReportFresh
  <2>3. Apart(failed, s)
    BY DEF ReportedOncePerWindow, failed
  <2> QED BY <1>k, <2>2, <2>3, ApartStep
<1> QED BY <1>1, <1>2, <1>3

LEMMA InvInit == Init => Inv
<1> SUFFICES ASSUME Init PROVE Inv
  OBVIOUS
<1>1. Typed
  BY TypeInit
<1>2. LogInv
  BY DEF Init, LogInv, InOrder, Newest, Of
<1>3. LookupInv
  BY DEF Init, LookupInv, LockHeld, BlockFresh, ReportAlone, ReportFresh, Idle, At, Blocking,
         Reporting
<1>4. BlockedOncePerWindow /\ ReportedOncePerWindow
  BY DEF Init, BlockedOncePerWindow, ReportedOncePerWindow, Apart
<1> QED BY <1>1, <1>2, <1>3, <1>4 DEF Inv

LEMMA Invariance == Spec => []Inv
BY InvInit, InvStep, PTL DEF Spec

\* However many saves of a student are refused at once, their rows are a window apart.
THEOREM BlockedOnce == Spec => []BlockedOncePerWindow
BY Invariance, PTL DEF Inv

\* Failure reports of a student are logged a window apart unless two of them raced.
THEOREM ReportedOnce == Spec => []ReportedOncePerWindow
BY Invariance, PTL DEF Inv

---------------------------------------------------------------------------
(* The hand-ins nobody watched                                            *)

\* While the request of who is unseen is on its way to look him up he is still offline.
UnseenOffline ==
  \A r \in Req : req[r].pc = "submit_done" /\ req[r].who \in unseen => req[r].who \notin online

UnseenInv == UnseenOffline /\ UnwatchedHandInOnRecord

LEMMA UnseenInit == Init => UnseenInv
BY DEF Init, UnseenInv, UnseenOffline, UnwatchedHandInOnRecord, Idle, At

\* Steps of r that are not about hand-ins leave what covers the unseen as it is.
LEMMA OtherSteps ==
  ASSUME Typed, UnseenInv, NEW r \in Req, UNCHANGED <<rows, online, log>>, unseen' \subseteq unseen,
         \A q \in Req : q # r => req'[q] = req[q],
         \/ req[r].pc \notin {"submit_done", "submit_log"}
         \/ req[r].who \notin unseen',
         req'[r].pc # "submit_done"
  PROVE  UnseenInv'
BY DEF UnseenInv, UnseenOffline, UnwatchedHandInOnRecord

LEMMA UnseenStep ==
  ASSUME Typed, UnseenInv, [Next]_vars
  PROVE  UnseenInv'
<1> USE DEF Typed
<1>1. ASSUME NEW r \in Req, Writing(r)
      PROVE  UnseenInv'
  <2>1. PICK w \in WritingSteps : Writes(r, w[1], w[2])
    BY <1>1, WhoWrites
  <2>2. /\ UNCHANGED <<rows, online, unseen>> /\ log \subseteq log'
        /\ req' = [req EXCEPT ![r] = Idle] /\ req[r].pc = w[1]
        /\ \E e \in log' : e.who = req[r].who /\ e.kind = w[2]
    BY <1>1, <2>1, WhoWrites, NewRow DEF sockets
  <2>3. req'[r] = Idle /\ \A q \in Req : q # r => req'[q] = req[q]
    BY <2>2 DEF TypeOK
  <2>4. w[1] # "submit_done" /\ (w[1] = "submit_log" => w[2] = missing)
    BY DEF WritingSteps, never, failed, missing
  <2>5. UnseenOffline'
    BY <2>2, <2>3 DEF UnseenInv, UnseenOffline, Idle, At
  <2>6. UnwatchedHandInOnRecord'
    BY <2>2, <2>3, <2>4 DEF UnseenInv, UnwatchedHandInOnRecord, missing
  <2> QED BY <2>5, <2>6 DEF UnseenInv
<1>2. ASSUME NEW r \in Req, \/ Call(r) \/ SaveLock(r) \/ BlockLookup(r) \/ ReportLookup(r)
                            \/ LoginCommit(r)
      PROVE  UnseenInv'
  <2>1. UNCHANGED <<rows, online, log, unseen>>
    BY <1>2 DEF Call, SaveStart, ReportStart, SubmitStart, CreateStart, LoginStart, ForceStart,
                DeleteStart, SaveLock, BlockLookup, ReportLookup, LoginCommit, students, sockets,
                table
  <2>2. /\ \A q \in Req : q # r => req'[q] = req[q]
        /\ req[r].pc \notin {"submit_done", "submit_log"} /\ req'[r].pc # "submit_done"
    BY <1>2 DEF Call, SaveStart, ReportStart, SubmitStart, CreateStart, LoginStart, ForceStart,
                DeleteStart, SaveLock, BlockLookup, ReportLookup, LoginCommit, Start, Goto, Finish,
                Idle, At, TypeOK
  <2> QED BY <2>1, <2>2, OtherSteps
<1>3. ASSUME NEW r \in Req, SubmitCommit(r) PROVE UnseenInv'
  <2>1. CASE Finish(r, "submit") /\ UNCHANGED <<handed, unseen>>
    <3>1. UNCHANGED <<rows, online, log, unseen>>
      BY <1>3, <2>1 DEF SubmitCommit, sockets, table
    <3>2. /\ \A q \in Req : q # r => req'[q] = req[q]
          /\ req[r].pc = "submit" /\ req'[r].pc = "idle"
      BY <2>1 DEF Finish, Idle, At, TypeOK
    <3> QED BY <3>1, <3>2, OtherSteps
  <2>2. CASE /\ Goto(r, "submit", "submit_done")
             /\ unseen' = (unseen \ {req[r].who}) \cup ({req[r].who} \ online)
    <3>1. UNCHANGED <<rows, online, log>>
      BY <1>3 DEF SubmitCommit, sockets, table
    <3>2. /\ \A q \in Req : q # r => req'[q] = req[q]
          /\ req[r].pc = "submit" /\ req'[r].pc = "submit_done" /\ req'[r].who = req[r].who
      BY <2>2 DEF Goto, At, TypeOK
    <3>3. UnseenOffline'
      BY <2>2, <3>1, <3>2 DEF UnseenInv, UnseenOffline
    <3>4. UnwatchedHandInOnRecord'
      BY <2>2, <3>1, <3>2 DEF UnseenInv, UnwatchedHandInOnRecord
    <3> QED BY <3>3, <3>4 DEF UnseenInv
  <2> QED BY <1>3, <2>1, <2>2 DEF SubmitCommit
<1>4. ASSUME NEW r \in Req, SubmitCheck(r) PROVE UnseenInv'
  <2>1. /\ UNCHANGED <<rows, online, log, unseen>> /\ req[r].pc = "submit_done"
        /\ \A q \in Req : q # r => req'[q] = req[q]
        /\ req'[r].pc # "submit_done"
        /\ req[r].who \in online \/ (req'[r].pc = "submit_log" /\ req'[r].who = req[r].who)
    <3>1. CASE req[r].who \in online /\ Finish(r, "submit_done")
      BY <1>4, <3>1 DEF SubmitCheck, students, sockets, table, Finish, Idle, At, TypeOK
    <3>2. CASE Goto(r, "submit_done", "submit_log")
      BY <1>4, <3>2 DEF SubmitCheck, students, sockets, table, Goto, At, TypeOK
    <3> QED BY <1>4, <3>1, <3>2 DEF SubmitCheck
  <2>2. UnseenOffline'
    BY <2>1 DEF UnseenInv, UnseenOffline
  <2>3. UnwatchedHandInOnRecord'
    BY <2>1 DEF UnseenInv, UnseenOffline, UnwatchedHandInOnRecord
  <2> QED BY <2>2, <2>3 DEF UnseenInv
<1>5. ASSUME NEW r \in Req, DeleteCommit(r) PROVE UnseenInv'
  <2>1. /\ rows' = rows \ {req[r].who}
        /\ log' = {e \in log : e.who # req[r].who} /\ UNCHANGED <<online, unseen>>
        /\ \A q \in Req : q # r => req'[q] = req[q]
        /\ req[r].pc = "delete" /\ req'[r].pc = "idle"
    BY <1>5 DEF DeleteCommit, sockets, Finish, Idle, At, TypeOK
  <2>2. UnseenOffline'
    BY <2>1 DEF UnseenInv, UnseenOffline
  <2>3. UnwatchedHandInOnRecord'
    BY <2>1 DEF UnseenInv, UnwatchedHandInOnRecord
  <2> QED BY <2>2, <2>3 DEF UnseenInv
<1>6. ASSUME NEW r \in Req, Fail(r) PROVE UnseenInv'
  <2>1. /\ UNCHANGED <<rows, online, log>> /\ unseen' \subseteq unseen
        /\ \A q \in Req : q # r => req'[q] = req[q]
        /\ req'[r].pc = "idle"
    BY <1>6 DEF Fail, students, sockets, table, Idle, At, TypeOK
  <2>2. req[r].pc \in {"submit_done", "submit_log"} => req[r].who \notin unseen'
    BY <1>6 DEF Fail, CutOff
  <2> QED BY <2>1, <2>2, OtherSteps
<1>7. ASSUME NEW s \in Student, Connect(s) \/ Disconnect(s) PROVE UnseenInv'
  <2>1. UNCHANGED <<students, log, req>> /\ unseen' \subseteq unseen /\ online' \subseteq online \cup {s}
    BY <1>7 DEF Connect, Disconnect, table, requests
  <2>2. s \notin online' \/ online' = online
        \/ \A r \in Req : req[r].pc = "submit_done" /\ req[r].who = s => s \notin unseen'
    BY <1>7 DEF Connect, Disconnect
  <2>3. UnseenOffline'
    BY <2>1, <2>2 DEF UnseenInv, UnseenOffline
  <2> QED BY <2>1, <2>3 DEF UnseenInv, UnwatchedHandInOnRecord, students
<1>8. CASE Restart
  <2>1. /\ UNCHANGED <<students, log>> /\ \A r \in Req : req'[r].pc = "idle"
        /\ unseen' \subseteq unseen
        /\ \A r \in Req : req[r].pc \in {"submit_done", "submit_log"} => req[r].who \notin unseen'
    BY <1>8 DEF Restart, CutOff, table, Idle, At
  <2> QED BY <2>1 DEF UnseenInv, UnseenOffline, UnwatchedHandInOnRecord, students
<1>9. CASE Read \/ Tick \/ UNCHANGED vars
  <2>1. UNCHANGED <<students, online, log, unseen, req>>
    BY <1>9 DEF Read, ListOpen, ListCount, ListRows, BoardSubmits, BoardTotal, Tick, vars, sockets,
                table, requests
  <2> QED BY <2>1 DEF UnseenInv, UnseenOffline, UnwatchedHandInOnRecord, students
<1> QED BY <1>1, <1>2, <1>3, <1>4, <1>5, <1>6, <1>7, <1>8, <1>9 DEF Next, Proceed, Writing

\* However requests, sockets and deletions interleave, the record of a hand-in that
\* nobody watched is written or about to be, but for an error or a stop between the two
\* commits.
THEOREM UnwatchedOnRecord == Spec => []UnwatchedHandInOnRecord
<1>1. Spec => [](Typed /\ UnseenInv)
  BY TypeInit, TypeStep, UnseenInit, UnseenStep, PTL DEF Spec
<1> QED BY <1>1, PTL DEF UnseenInv

---------------------------------------------------------------------------
(* The dashboard's two counts                                              *)

\* What was counted is there still, but for what is known to have gone or been reopened.
BoardFits ==
  reader.pc = "submits_counted" =>
    /\ reader.count <= Cardinality(handed) + reader.gone + reader.reopened
    /\ reader.count <= Cardinality(rows) + reader.gone

LEMMA Countable ==
  ASSUME Typed
  PROVE  /\ IsFiniteSet(handed) /\ IsFiniteSet(rows)
         /\ Cardinality(handed) \in Nat /\ Cardinality(rows) \in Nat
         /\ Cardinality(handed) <= Cardinality(rows)
         /\ reader.count \in Nat /\ reader.gone \in Nat /\ reader.reopened \in Nat
<1>1. handed \subseteq rows /\ rows \subseteq Student /\ reader \in Reader
  BY DEF Typed, TypeOK
<1>2. IsFiniteSet(handed) /\ IsFiniteSet(rows) /\ Cardinality(handed) <= Cardinality(rows)
  BY <1>1, FS_Subset, StudentAssumption
<1> QED BY <1>1, <1>2, FS_CardinalityType DEF Reader

\* One that goes is one less, if it was there at all.
LEMMA OneLess ==
  ASSUME NEW S, IsFiniteSet(S), NEW x
  PROVE  /\ Cardinality(S \ {x}) \in Nat
         /\ x \in S => Cardinality(S) <= Cardinality(S \ {x}) + 1
         /\ x \notin S => Cardinality(S) <= Cardinality(S \ {x})
<1>1. IsFiniteSet(S \ {x}) /\ Cardinality(S) \in Nat
  BY FS_Subset, FS_CardinalityType
<1>2. Cardinality(S \ {x}) = IF x \in S THEN Cardinality(S) - 1 ELSE Cardinality(S)
  BY FS_RemoveElement
<1> QED BY <1>1, <1>2, FS_CardinalityType

LEMMA BoardStep ==
  ASSUME Typed, BoardFits, [Next]_vars
  PROVE  BoardFits'
<1>1. /\ IsFiniteSet(handed) /\ IsFiniteSet(rows)
      /\ Cardinality(handed) \in Nat /\ Cardinality(rows) \in Nat
      /\ Cardinality(handed) <= Cardinality(rows)
      /\ reader.count \in Nat /\ reader.gone \in Nat /\ reader.reopened \in Nat
      /\ reader \in Reader
  BY Countable DEF Typed, TypeOK
<1>2. ASSUME reader'.pc = reader.pc, reader'.count = reader.count,
             reader'.gone \in Nat, reader'.reopened \in Nat,
             reader.gone <= reader'.gone, reader.reopened <= reader'.reopened,
             handed \subseteq handed', handed' \subseteq Student, rows' = rows
      PROVE  BoardFits'
  <2>1. Cardinality(handed) <= Cardinality(handed') /\ Cardinality(handed') \in Nat
    BY <1>2, FS_Subset, FS_CardinalityType, StudentAssumption
  <2> QED BY <1>1, <1>2, <2>1 DEF BoardFits
<1>3. ASSUME NEW r \in Req, Writing(r) PROVE BoardFits'
  <2>1. PICK w \in WritingSteps : Writes(r, w[1], w[2])
    BY <1>3, WhoWrites
  <2>2. rows' = rows /\ req[r].who \in rows /\ \E points : Tear(points)
    BY <2>1 DEF Writes, Insert
  <2>3. handed \subseteq handed' /\ handed' \subseteq Student
    BY <1>3, <2>2, WhoWrites DEF Typed, TypeOK
  <2>4. /\ reader'.pc = reader.pc /\ reader'.count = reader.count
        /\ reader'.gone \in {reader.gone, reader.gone + 1}
        /\ reader'.reopened \in {reader.reopened, reader.reopened + 1}
    BY <1>1, <2>2, ReaderChanges
  <2> QED BY <1>1, <1>2, <2>2, <2>3, <2>4
<1>4. ASSUME NEW r \in Req, DeleteCommit(r) PROVE BoardFits'
  <2> DEFINE s == req[r].who
  <2>1. handed' = handed \ {s} /\ rows' = rows \ {s} /\ Removed(s)
    BY <1>4 DEF DeleteCommit
  <2>2. /\ reader'.pc = reader.pc /\ reader'.count = reader.count
        /\ reader'.reopened = reader.reopened
        /\ reader.pc = "submits_counted" =>
             reader'.gone = IF s \in rows THEN reader.gone + 1 ELSE reader.gone
    <3>1. /\ reader'.pc = reader.pc /\ reader'.count = reader.count
      BY <1>1, <2>1, ReaderChanges
    <3> QED BY <1>1, <2>1, <3>1 DEF Removed, Reader
  <2>3. handed \subseteq rows
    BY DEF Typed, TypeOK
  <2>4. /\ Cardinality(handed') \in Nat /\ Cardinality(rows') \in Nat
        /\ s \in rows => /\ Cardinality(handed) <= Cardinality(handed') + 1
                        /\ Cardinality(rows) <= Cardinality(rows') + 1
        /\ s \notin rows => /\ Cardinality(handed) <= Cardinality(handed')
                           /\ Cardinality(rows) <= Cardinality(rows')
    <3> HIDE DEF s
    <3> QED BY <1>1, <2>1, <2>3, OneLess
  <2> HIDE DEF s
  <2> QED BY <1>1, <2>2, <2>4 DEF BoardFits
<1>5. ASSUME NEW r \in Req, LoginCommit(r) PROVE BoardFits'
  <2> DEFINE s == req[r].who
  <2>1. handed' = handed \ {s} /\ rows' = rows /\ Reopened(s)
    BY <1>5 DEF LoginCommit
  <2>2. /\ reader'.pc = reader.pc /\ reader'.count = reader.count
        /\ reader'.gone = reader.gone
        /\ reader.pc = "submits_counted" =>
             reader'.reopened = IF s \in handed THEN reader.reopened + 1 ELSE reader.reopened
    <3>1. /\ reader'.pc = reader.pc /\ reader'.count = reader.count
      BY <1>1, <2>1, ReaderChanges
    <3> QED BY <1>1, <2>1, <3>1 DEF Reopened, Reader
  <2>4. /\ Cardinality(handed') \in Nat
        /\ s \in handed => Cardinality(handed) <= Cardinality(handed') + 1
        /\ s \notin handed => Cardinality(handed) <= Cardinality(handed')
    <3> HIDE DEF s
    <3> QED BY <1>1, <2>1, OneLess
  <2> HIDE DEF s
  <2> QED BY <1>1, <2>1, <2>2, <2>4 DEF BoardFits
<1>6. ASSUME NEW r \in Req, SubmitCommit(r) PROVE BoardFits'
  <2>1. reader' = reader /\ rows' = rows /\ handed \subseteq handed'
        /\ handed' \subseteq handed \cup rows
    BY <1>6 DEF SubmitCommit
  <2> QED BY <1>1, <1>2, <2>1 DEF Typed, TypeOK
<1>7. CASE Read
  <2>1. CASE BoardSubmits
    <3>1. /\ reader'.count = Cardinality(handed) /\ reader'.gone = 0 /\ reader'.reopened = 0
          /\ UNCHANGED <<handed, rows>>
      BY <2>1 DEF BoardSubmits, Reading, submit_count, students
    <3> QED BY <1>1, <3>1 DEF BoardFits
  <2>2. CASE ListOpen \/ ListCount \/ ListRows \/ BoardTotal
    <3>1. reader'.pc # "submits_counted"
      BY <2>2 DEF ListOpen, ListCount, ListRows, BoardTotal, Closed, Reading
    <3> QED BY <3>1 DEF BoardFits
  <2> QED BY <1>7, <2>1, <2>2 DEF Read
<1>8. CASE UNCHANGED <<reader, handed, rows>>
  BY <1>8 DEF BoardFits
<1>9. ASSUME NEW r \in Req, Call(r) \/ SaveLock(r) \/ BlockLookup(r) \/ ReportLookup(r)
                            \/ SubmitCheck(r) \/ Fail(r)
      PROVE  UNCHANGED <<reader, handed, rows>>
  BY <1>9 DEF Call, SaveStart, ReportStart, SubmitStart, CreateStart, LoginStart, ForceStart,
              DeleteStart, SaveLock, BlockLookup, ReportLookup, SubmitCheck, Fail, students
<1>10. ASSUME Restart \/ Tick \/ UNCHANGED vars \/ \E s \in Student : Connect(s) \/ Disconnect(s)
       PROVE  UNCHANGED <<reader, handed, rows>>
  BY <1>10 DEF Restart, Tick, vars, Connect, Disconnect, students
<1> QED BY <1>3, <1>4, <1>5, <1>6, <1>7, <1>8, <1>9, <1>10 DEF Next, Proceed, Writing

\* The dashboard is out by at most one for each student deleted and each paper reopened
\* between its two reads, for any number of students: it shows no more papers than there
\* were students, and no fewer students to wait for than are still writing.
THEOREM BoardIsConsistent == Spec => BoardAddsUp
<1>1. Init => BoardFits
  BY DEF Init, BoardFits, Closed, Reading
<1>2. Spec => [](Typed /\ BoardFits)
  BY <1>1, TypeInit, TypeStep, BoardStep, PTL DEF Spec
<1>3. ASSUME Typed, BoardFits, reader.pc = "submits_counted"
      PROVE  /\ reader.count <= total_count + reader.gone
             /\ Cardinality(rows \ handed) + reader.count
                  <= total_count + reader.gone + reader.reopened
  <2>1. /\ IsFiniteSet(handed) /\ IsFiniteSet(rows)
        /\ Cardinality(handed) \in Nat /\ Cardinality(rows) \in Nat
        /\ reader.count \in Nat /\ reader.gone \in Nat /\ reader.reopened \in Nat
    BY <1>3, Countable
  <2>2. Cardinality(rows \ handed) = Cardinality(rows) - Cardinality(handed)
    <3>1. handed \subseteq rows /\ rows \cap handed = handed
      BY <1>3 DEF Typed, TypeOK
    <3>2. Cardinality(rows \ handed) = Cardinality(rows) - Cardinality(rows \cap handed)
      BY <2>1, FS_Difference
    <3> QED BY <3>1, <3>2
  <2> QED BY <1>3, <2>1, <2>2 DEF BoardFits, total_count
<1>4. Typed /\ BoardFits => [reader.pc = "submits_counted" /\ reader' = Closed =>
         /\ reader.count <= total_count + reader.gone
         /\ Cardinality(rows \ handed) + reader.count
              <= total_count + reader.gone + reader.reopened]_vars
  BY <1>3
<1> QED BY <1>2, <1>4, PTL DEF BoardAddsUp

---------------------------------------------------------------------------
(* The list, page by page                                                 *)

Newer(e) == Cardinality({f \in log : f.id > e.id})

\* The count a page is compared with is the length of the log, and what was there at
\* the start and on no page yet has at least the pages read so far in front of it.
\* Both break only when a deletion, or a row between count and rows, tears the reading.
CountFits == reader.pc = "counted" /\ ~reader.torn => reader.count = Cardinality(log)
Ahead ==
  reader.pc \in {"asking", "counted"} /\ ~reader.torn =>
    /\ reader.page >= 1
    /\ \A e \in reader.unread \cap log : (reader.page - 1) * PageSize <= Newer(e)
\* Ids are not used again, so a row that arrives is none of the unread ones.
UnreadOld == \A e \in reader.unread : e.id < nextId
ListInv == CountFits /\ Ahead /\ UnreadOld

LEMMA NewerType ==
  ASSUME Typed, NEW e \in log
  PROVE  Newer(e) \in Nat /\ Newer(e) < Cardinality(log)
<1> DEFINE above == {f \in log : f.id > e.id}
<1>1. above \subseteq log /\ IsFiniteSet(log)
  BY DEF Typed
<1>2. e \notin above
  BY DEF Typed, TypeOK, Row
<1>3. /\ Cardinality(above) \in Nat /\ Cardinality(log) \in Nat
      /\ Cardinality(above) < Cardinality(log)
  <2> HIDE DEF above
  <2>1. IsFiniteSet(above) /\ Cardinality(above) <= Cardinality(log)
        /\ (Cardinality(above) = Cardinality(log) => above = log)
    BY <1>1, FS_Subset
  <2>2. Cardinality(above) \in Nat /\ Cardinality(log) \in Nat
    BY <1>1, <2>1, FS_CardinalityType
  <2> QED BY <1>2, <2>1, <2>2
<1> QED BY <1>3 DEF Newer

\* A page by the rows in front of each of its rows.
LEMMA PageByRank ==
  ASSUME NEW p \in Nat
  PROVE  Page(p) = {e \in log : (p - 1) * PageSize <= Newer(e) /\ Newer(e) < p * PageSize}
BY DEF Page, Newer

\* Rows that arrive are in front of those that were there.
LEMMA NewerGrows ==
  ASSUME Typed, NEW r \in Req, NEW w \in WritingSteps, Writes(r, w[1], w[2]), NEW e \in log
  PROVE  Newer(e)' \in Nat /\ Newer(e) <= Newer(e)'
<1>1. PICK new \in Row : log' = log \cup {new}
  BY NewRow
<1> DEFINE above == {f \in log : f.id > e.id}
           above2 == {f \in log' : f.id > e.id}
<1>2. above \subseteq above2 /\ above2 \subseteq log \cup {new}
  BY <1>1
<1>3. IsFiniteSet(log \cup {new})
  BY FS_AddElement DEF Typed
<1>4. IsFiniteSet(above2) /\ IsFiniteSet(above) /\ Cardinality(above) <= Cardinality(above2)
  <2> HIDE DEF above, above2
  <2> QED BY <1>2, <1>3, FS_Subset
<1>5. Cardinality(above2) \in Nat
  BY <1>4, FS_CardinalityType
<1> QED BY <1>4, <1>5 DEF Newer

\* One call of the list: what is on no page so far has this page in front of it too.
LEMMA PageRead ==
  ASSUME Typed, Ahead, reader.pc = "counted", ~reader.torn, NEW e \in Unread
  PROVE  e \in log /\ reader.page \in Nat /\ reader.page * PageSize <= Newer(e)
<1>1. reader.page \in Nat /\ PageSize \in Nat
  BY PageAssumption DEF Typed, TypeOK, Reader
<1>2. e \in log /\ e \in reader.unread /\ e \notin Page(reader.page)
  BY DEF Unread
<1>3. Newer(e) \in Nat /\ (reader.page - 1) * PageSize <= Newer(e)
  BY <1>2, NewerType DEF Ahead
<1>4. reader.page * PageSize \in Nat
  BY <1>1
<1>5. ~(Newer(e) < reader.page * PageSize)
  BY <1>1, <1>2, <1>3, PageByRank
<1> QED BY <1>1, <1>2, <1>3, <1>4, <1>5

\* What tears a reading of the list.
LEMMA TornByRow ==
  ASSUME Typed, Tear({"counted"})
  PROVE  /\ reader'.pc = reader.pc /\ reader'.page = reader.page /\ reader'.unread = reader.unread
         /\ ~reader'.torn => ~reader.torn /\ reader.pc # "counted"
BY ReaderChanges DEF Typed, TypeOK, Tear, Reader

LEMMA TornByDeletion ==
  ASSUME Typed, NEW s, Removed(s)
  PROVE  /\ reader'.unread = reader.unread
         /\ ~reader'.torn => reader'.pc \notin {"asking", "counted"}
BY ReaderChanges DEF Typed, TypeOK, Removed, Reader

LEMMA ListStep ==
  ASSUME Typed, ListInv, [Next]_vars
  PROVE  ListInv'
<1>0. /\ reader.page \in Nat /\ reader.unread \subseteq Row /\ nextId \in Nat /\ PageSize \in Nat
      /\ \A e \in Row : e.id \in Nat
      /\ \A e \in log : e.id < nextId
  BY PageAssumption DEF Typed, TypeOK, Reader, Row
<1>1. ASSUME NEW r \in Req, Writing(r)
      PROVE  ListInv'
  <2>1. PICK w \in WritingSteps : Writes(r, w[1], w[2])
    BY <1>1, WhoWrites
  <2>2. Tear({"counted"}) /\ nextId' = nextId + 1
    BY <2>1 DEF Writes, Insert
  <2>3. /\ reader'.pc = reader.pc /\ reader'.page = reader.page /\ reader'.unread = reader.unread
        /\ ~reader'.torn => ~reader.torn /\ reader.pc # "counted"
    BY <2>2, TornByRow
  <2>4. CountFits'
    BY <2>3 DEF CountFits
  <2>5. UnreadOld'
    BY <1>0, <2>2, <2>3 DEF ListInv, UnreadOld
  <2>6. PICK new \in Row : log' = log \cup {new} /\ new.id = nextId
    BY <2>1, NewRow
  <2>7. reader.unread \cap log' = reader.unread \cap log
    BY <1>0, <2>6 DEF ListInv, UnreadOld
  <2>8. \A e \in log : Newer(e) \in Nat /\ Newer(e)' \in Nat /\ Newer(e) <= Newer(e)'
    BY <2>1, NewerGrows, NewerType
  <2>9. Ahead'
    <3> SUFFICES ASSUME reader'.pc \in {"asking", "counted"}, ~reader'.torn
                 PROVE  /\ reader'.page >= 1
                        /\ \A e \in reader'.unread \cap log' :
                             (reader'.page - 1) * PageSize <= Newer(e)'
      BY DEF Ahead
    <3>1. /\ reader.page >= 1
          /\ \A e \in reader.unread \cap log : (reader.page - 1) * PageSize <= Newer(e)
      BY <2>3 DEF ListInv, Ahead
    <3>2. (reader.page - 1) * PageSize \in Int
      BY <1>0
    <3> QED BY <2>3, <2>7, <2>8, <3>1, <3>2
  <2> QED BY <2>4, <2>5, <2>9 DEF ListInv
<1>2. ASSUME NEW r \in Req, DeleteCommit(r) PROVE ListInv'
  <2>1. /\ reader'.unread = reader.unread /\ nextId' = nextId
        /\ ~reader'.torn => reader'.pc \notin {"asking", "counted"}
    BY <1>2, TornByDeletion DEF DeleteCommit
  <2> QED BY <2>1 DEF ListInv, CountFits, Ahead, UnreadOld
<1>3. CASE ListOpen
  <2>1. reader' = [pc |-> "asking", page |-> 1, count |-> 0, unread |-> log, torn |-> FALSE,
                   gone |-> 0, reopened |-> 0]
        /\ UNCHANGED <<log, nextId>>
    BY <1>3 DEF ListOpen, Reading, table
  <2>2. reader'.pc = "asking" /\ reader'.page = 1 /\ reader'.unread = log
    BY <2>1
  <2>3. \A e \in log : (1 - 1) * PageSize <= Newer(e)'
    BY <1>0, <2>1, NewerType DEF Newer
  <2> QED BY <1>0, <2>1, <2>2, <2>3 DEF ListInv, CountFits, Ahead, UnreadOld
<1>4. CASE ListCount
  <2>1. /\ reader.pc = "asking" /\ reader'.pc = "counted" /\ reader'.page = reader.page
        /\ reader'.count = Cardinality(log) /\ reader'.unread = reader.unread
        /\ reader'.torn = reader.torn
        /\ UNCHANGED <<log, nextId>>
    BY <1>4 DEF ListCount, Reading, table
  <2> QED BY <2>1 DEF ListInv, CountFits, Ahead, UnreadOld, Newer
<1>5. CASE ListRows
  <2>1. UNCHANGED <<log, nextId>>
    BY <1>5 DEF ListRows, table
  <2>2. CASE reader' = Closed
    <3>1. reader'.pc = "closed" /\ reader'.unread = {}
      BY <2>2 DEF Closed, Reading
    <3> QED BY <3>1 DEF ListInv, CountFits, Ahead, UnreadOld
  <2>3. CASE reader' = Reading("asking", reader.page + 1, 0, Unread, reader.torn)
    <3>1. /\ reader'.pc = "asking" /\ reader'.page = reader.page + 1
          /\ reader'.unread = Unread /\ reader'.torn = reader.torn /\ reader.pc = "counted"
      BY <1>5, <2>3 DEF ListRows, Reading
    <3>2. Unread \subseteq reader.unread
      BY DEF Unread
    <3>3. ASSUME ~reader.torn, NEW e \in Unread
          PROVE  reader.page * PageSize <= Newer(e)
      BY <3>1, <3>3, PageRead DEF ListInv
    <3>4. reader.page + 1 >= 1
      BY <1>0
    <3>5. Ahead'
      <4>1. \A e \in log : Newer(e)' = Newer(e)
        BY <2>1 DEF Newer
      <4>2. reader'.unread \cap log' \subseteq Unread /\ Unread \subseteq log
        BY <2>1, <3>1 DEF Unread
      <4> SUFFICES ASSUME reader'.pc \in {"asking", "counted"}, ~reader'.torn
                   PROVE  /\ reader'.page >= 1
                          /\ \A e \in reader'.unread \cap log' :
                               (reader'.page - 1) * PageSize <= Newer(e)'
        BY DEF Ahead
      <4>3. ASSUME NEW e \in reader'.unread \cap log'
            PROVE  (reader'.page - 1) * PageSize <= Newer(e)'
        <5>1. e \in Unread /\ e \in log /\ ~reader.torn
          BY <3>1, <4>2
        <5>2. reader.page * PageSize <= Newer(e)
          BY <3>3, <5>1
        <5>3. Newer(e)' = Newer(e)
          BY <4>1, <5>1
        <5>4. reader'.page - 1 = reader.page
          BY <1>0, <3>1
        <5> QED BY <5>2, <5>3, <5>4, Zenon
      <4> QED BY <3>1, <3>4, <4>3
    <3> QED BY <2>1, <3>1, <3>2, <3>5 DEF ListInv, CountFits, UnreadOld
  <2> QED BY <1>5, <2>2, <2>3 DEF ListRows
<1>6. CASE BoardSubmits \/ BoardTotal
  <2>1. reader'.pc \in {"submits_counted", "closed"} /\ reader'.unread = {}
    BY <1>6 DEF BoardSubmits, BoardTotal, Closed, Reading
  <2> QED BY <2>1 DEF ListInv, CountFits, Ahead, UnreadOld
<1>7. CASE UNCHANGED <<reader, table>>
  BY <1>7 DEF ListInv, CountFits, Ahead, UnreadOld, Newer, table
<1>8. ASSUME NEW r \in Req, Call(r) \/ SaveLock(r) \/ BlockLookup(r) \/ ReportLookup(r)
                            \/ SubmitCheck(r) \/ SubmitCommit(r) \/ Fail(r)
      PROVE  UNCHANGED <<reader, table>>
  BY <1>8 DEF Call, SaveStart, ReportStart, SubmitStart, CreateStart, LoginStart, ForceStart,
                DeleteStart, SaveLock,
              BlockLookup, ReportLookup, SubmitCheck, SubmitCommit, Fail, students
<1>9. CASE Restart \/ Tick \/ UNCHANGED vars \/ \E s \in Student : Connect(s) \/ Disconnect(s)
  BY <1>7, <1>9 DEF Restart, Tick, vars, Connect, Disconnect
<1>10. ASSUME NEW r \in Req, LoginCommit(r) PROVE ListInv'
  <2>1. /\ reader'.pc = reader.pc /\ reader'.page = reader.page /\ reader'.count = reader.count
        /\ reader'.unread = reader.unread
        /\ ~reader'.torn => ~reader.torn
    BY <1>10, ReaderChanges DEF LoginCommit, Typed, TypeOK
  <2>2. UNCHANGED <<log, nextId>>
    BY <1>10 DEF LoginCommit, table
  <2>3. \A e \in log : Newer(e)' = Newer(e)
    BY <2>2 DEF Newer
  <2>4. CountFits' /\ UnreadOld'
    BY <2>1, <2>2 DEF ListInv, CountFits, UnreadOld
  <2>5. Ahead'
    BY <2>1, <2>2, <2>3 DEF ListInv, Ahead
  <2> QED BY <2>4, <2>5 DEF ListInv
<1> QED BY <1>1, <1>2, <1>3, <1>4, <1>5, <1>6, <1>7, <1>8, <1>9, <1>10
        DEF Next, Proceed, Read, Writing

\* Who reads until the count is covered has seen every row that was there when he began
\* and still is, however many arrive meanwhile, unless the reading was torn.
THEOREM PagesAreComplete == Spec => PagesMissNothing
<1>1. Init => ListInv
  BY DEF Init, ListInv, CountFits, Ahead, UnreadOld, Closed, Reading
<1>2. Spec => [](Typed /\ ListInv)
  BY <1>1, TypeInit, TypeStep, ListStep, PTL DEF Spec
<1>3. ASSUME Typed, ListInv, reader.pc = "counted", LastPage, ~reader.torn
      PROVE  Unread = {}
  <2> SUFFICES ASSUME NEW e \in Unread PROVE FALSE
    OBVIOUS
  <2>1. e \in log /\ reader.page * PageSize <= Newer(e) /\ reader.page \in Nat
    BY <1>3, PageRead DEF ListInv
  <2>2. Newer(e) \in Nat /\ Newer(e) < Cardinality(log)
    BY <1>3, <2>1, NewerType
  <2>3. reader.page * PageSize >= Cardinality(log)
    BY <1>3 DEF ListInv, CountFits, LastPage
  <2>4. reader.page * PageSize \in Nat /\ Cardinality(log) \in Nat
    BY <1>3, <2>1, PageAssumption, FS_CardinalityType DEF Typed
  <2> QED BY <2>1, <2>2, <2>3, <2>4
<1>4. Typed /\ ListInv =>
        [reader.pc = "counted" /\ LastPage /\ reader' = Closed /\ ~reader.torn => Unread = {}]_vars
  BY <1>3
<1> QED BY <1>2, <1>4, PTL DEF PagesMissNothing

---------------------------------------------------------------------------
(* What one page is                                                       *)

\* No id is used twice: that makes "newest first" a strict order of the rows.
IdsDiffer == \A e, f \in log : e.id = f.id => e = f

LEMMA IdsStep ==
  ASSUME Typed, IdsDiffer, [Next]_vars
  PROVE  IdsDiffer'
<1>1. CASE log' = log
  BY <1>1 DEF IdsDiffer
<1>2. ASSUME NEW r \in Req, NEW w \in WritingSteps, Writes(r, w[1], w[2]) PROVE IdsDiffer'
  <2>1. PICK new : log' = log \cup {new} /\ \A e \in log : e.id < new.id /\ e.id \in Nat
    BY <1>2, NewRow
  <2>2. \A e \in log : e.id # new.id
    <3> SUFFICES ASSUME NEW e \in log, e.id = new.id PROVE FALSE
      OBVIOUS
    <3>1. e.id < e.id /\ e.id \in Nat
      BY <2>1
    <3> QED BY <3>1
  <2> QED BY <2>1, <2>2 DEF IdsDiffer
<1>3. ASSUME NEW r \in Req, DeleteCommit(r) PROVE IdsDiffer'
  BY <1>3 DEF DeleteCommit, IdsDiffer
<1> QED BY <1>1, <1>2, <1>3, LogChange

\* Of two rows the older has more rows in front of it.
LEMMA Ranked ==
  ASSUME Typed, IdsDiffer, NEW e \in log, NEW f \in log, e # f
  PROVE  \/ e.id > f.id /\ Newer(e) < Newer(f)
         \/ f.id > e.id /\ Newer(f) < Newer(e)
<1>1. ASSUME NEW a \in log, NEW b \in log, a.id > b.id PROVE Newer(a) < Newer(b)
  <2> DEFINE A == {g \in log : g.id > a.id}
             B == {g \in log : g.id > b.id}
  <2>1. \A g \in log : g.id \in Nat
    BY DEF Typed, TypeOK, Row
  <2>2. A \subseteq B /\ B \subseteq log /\ a \in B /\ a \notin A
    BY <1>1, <2>1
  <2>3. Cardinality(A) < Cardinality(B)
    <3> HIDE DEF A, B
    <3>1. IsFiniteSet(B)
      BY <2>2, FS_Subset DEF Typed
    <3>2. /\ IsFiniteSet(A) /\ Cardinality(A) <= Cardinality(B)
          /\ Cardinality(B) = Cardinality(A) => B = A
      BY <2>2, <3>1, FS_Subset
    <3>3. Cardinality(A) \in Nat /\ Cardinality(B) \in Nat
      BY <3>1, <3>2, FS_CardinalityType
    <3> QED BY <2>2, <3>2, <3>3
  <2> QED BY <2>3 DEF Newer
<1>2. e.id \in Nat /\ f.id \in Nat /\ e.id # f.id
  BY DEF Typed, TypeOK, Row, IdsDiffer
<1> QED BY <1>1, <1>2

\* Every number lies in one of the stretches of length k, and in only one.
LEMMA InSomeStretch ==
  ASSUME NEW k \in Nat \ {0}, NEW n \in Nat
  PROVE  \E p \in Nat \ {0} : (p - 1) * k <= n /\ n < p * k
<1> DEFINE d == n \div k
<1>1. d \in Nat /\ d * k <= n /\ n < d * k + k
  OBVIOUS
<1>2. (d + 1) * k = d * k + k
  BY <1>1
<1>3. d + 1 \in Nat \ {0} /\ (d + 1) - 1 = d
  BY <1>1
<1> HIDE DEF d
<1>4. ((d + 1) - 1) * k <= n /\ n < (d + 1) * k
  BY <1>1, <1>2, <1>3
<1> QED BY <1>3, <1>4

LEMMA StretchesInOrder ==
  ASSUME NEW k \in Nat \ {0}, NEW p \in Nat \ {0}, NEW q \in Nat \ {0}, p < q
  PROVE  p * k \in Nat /\ (q - 1) * k \in Nat /\ p * k <= (q - 1) * k
<1>1. PICK d \in Nat : q - 1 = p + d
  <2>1. q - 1 - p \in Nat /\ q - 1 = p + (q - 1 - p)
    OBVIOUS
  <2> QED BY <2>1
<1>2. (p + d) * k = p * k + d * k
  OBVIOUS
<1>3. p * k \in Nat /\ d * k \in Nat
  OBVIOUS
<1>4. (q - 1) * k = p * k + d * k
  BY <1>1, <1>2
<1> QED BY <1>3, <1>4

LEMMA PageIsShort ==
  ASSUME Typed, IdsDiffer, NEW p \in Nat \ {0}
  PROVE  IsFiniteSet(Page(p)) /\ Cardinality(Page(p)) <= PageSize
<1> DEFINE low == (p - 1) * PageSize
           places == low .. (low + PageSize - 1)
           rank == [e \in Page(p) |-> Newer(e)]
<1>1. low \in Nat /\ PageSize \in Nat \ {0} /\ p * PageSize = low + PageSize
  <2>1. PageSize \in Nat \ {0} /\ p - 1 \in Nat
    BY PageAssumption
  <2>2. low \in Nat /\ p * PageSize = low + PageSize
    BY <2>1
  <2> QED BY <2>1, <2>2
<1> HIDE DEF low
<1>2. \A e \in Page(p) : e \in log /\ Newer(e) \in Nat /\ low <= Newer(e) /\ Newer(e) < low + PageSize
  BY <1>1, PageByRank, NewerType DEF low
<1>3. rank \in [Page(p) -> places]
  <2>1. \A e \in Page(p) : Newer(e) \in places
    BY <1>1, <1>2
  <2> QED BY <2>1
<1>4. \A e, f \in Page(p) : rank[e] = rank[f] => e = f
  <2> SUFFICES ASSUME NEW e \in Page(p), NEW f \in Page(p), Newer(e) = Newer(f), e # f PROVE FALSE
    OBVIOUS
  <2>1. Newer(e) \in Nat /\ Newer(f) \in Nat
    BY <1>2
  <2>2. Newer(e) < Newer(f) \/ Newer(f) < Newer(e)
    BY <1>2, Ranked
  <2> QED BY <2>1, <2>2
<1>5. rank \in Injection(Page(p), places)
  <2> HIDE DEF rank, places
  <2>1. IsInjective(rank)
    BY <1>3, <1>4 DEF IsInjective
  <2> QED BY <1>3, <2>1 DEF Injection
<1>6. IsFiniteSet(places) /\ Cardinality(places) = PageSize
  BY <1>1, FS_Interval
<1> HIDE DEF rank, places
<1> QED BY <1>5, <1>6, FS_Injection

\* As long as the table does not change, the pages are the log dealt out: every row is on
\* a page, no row is on two, no page is longer than page_size, and an earlier page has
\* the newer rows.
Dealt ==
  /\ \A e \in log : \E p \in Nat \ {0} : e \in Page(p)
  /\ \A p \in Nat \ {0} : Cardinality(Page(p)) <= PageSize
  /\ \A p, q \in Nat \ {0} : p < q =>
       \A e \in Page(p), f \in Page(q) : e # f /\ e.id > f.id

THEOREM PagesAreDealt == Spec => []Dealt
<1>1. Init => IdsDiffer
  BY DEF Init, IdsDiffer
<1>2. Spec => [](Typed /\ IdsDiffer)
  BY <1>1, TypeInit, TypeStep, IdsStep, PTL DEF Spec
<1>3. ASSUME Typed, IdsDiffer PROVE Dealt
  <2>1. ASSUME NEW e \in log PROVE \E p \in Nat \ {0} : e \in Page(p)
    <3>1. Newer(e) \in Nat
      BY <1>3, NewerType
    <3>2. PICK p \in Nat \ {0} : (p - 1) * PageSize <= Newer(e) /\ Newer(e) < p * PageSize
      BY <3>1, PageAssumption, InSomeStretch
    <3> QED BY <3>2, PageByRank
  <2>2. ASSUME NEW p \in Nat \ {0}, NEW q \in Nat \ {0}, p < q, NEW e \in Page(p), NEW f \in Page(q)
        PROVE  e # f /\ e.id > f.id
    <3>1. /\ e \in log /\ Newer(e) \in Nat /\ Newer(e) < p * PageSize
          /\ f \in log /\ Newer(f) \in Nat /\ (q - 1) * PageSize <= Newer(f)
      BY <1>3, <2>2, PageByRank, NewerType
    <3>2. /\ p * PageSize \in Nat /\ (q - 1) * PageSize \in Nat
          /\ p * PageSize <= (q - 1) * PageSize
      BY <2>2, PageAssumption, StretchesInOrder
    <3>3. Newer(e) < Newer(f)
      BY <3>1, <3>2
    <3>4. e # f
      BY <3>1, <3>3
    <3> QED BY <1>3, <3>1, <3>3, <3>4, Ranked
  <2> QED BY <1>3, <2>1, <2>2, PageIsShort DEF Dealt
<1> QED BY <1>2, <1>3, PTL

---------------------------------------------------------------------------
(* The lock of a refused save                                             *)

\* The exam row is locked by a refused save that is about to log, and by nobody else.
RefusalHolds == lock # None => lock \in Req /\ req[lock].pc \in Blocking

LEMMA RefusalStep ==
  ASSUME Typed, LockHeld, RefusalHolds, [Next]_vars
  PROVE  RefusalHolds'
<1>1. ASSUME NEW r \in Req, NEW s \in Student,
             \/ SaveStart(r, s) \/ ReportStart(r, s) \/ SubmitStart(r, s)
             \/ CreateStart(r, s) \/ LoginStart(r, s) \/ ForceStart(r, s) \/ DeleteStart(r, s)
      PROVE  RefusalHolds'
  <2>1. /\ req[r].pc = "idle" /\ lock' = lock /\ \A q \in Req : q # r => req'[q] = req[q]
    BY <1>1 DEF SaveStart, ReportStart, SubmitStart, CreateStart, LoginStart, ForceStart,
                DeleteStart, Start, Typed, TypeOK
  <2> QED BY <2>1 DEF RefusalHolds, Blocking
<1>2. ASSUME NEW r \in Req, Proceed(r) PROVE RefusalHolds'
  <2>1. \A q \in Req : q # r => req'[q] = req[q]
    BY <1>2 DEF Proceed, SaveLock, BlockLookup, BlockLog, ReportLookup, ReportLog, SubmitCommit,
           SubmitCheck, SubmitLog, CreateCommit, LoginCommit, ForceCommit,
           DeleteCommit, Fail, Goto, Finish, Typed, TypeOK
  <2>2. \/ lock' = r /\ req'[r].pc \in Blocking
        \/ lock' = None
        \/ lock' = lock /\ lock # r
    <3>1. CASE SaveLock(r)
      <4>1. CASE lock' = r /\ Goto(r, "save", "block_lookup")
        BY <4>1 DEF Goto, At, Blocking, Typed, TypeOK
      <4>2. CASE UNCHANGED lock
        BY <3>1, <4>2 DEF SaveLock
      <4> QED BY <3>1, <4>1, <4>2 DEF SaveLock
    <3>2. CASE BlockLookup(r)
      <4>1. CASE UNCHANGED lock /\ Goto(r, "block_lookup", "block_log")
        <5>1. lock = r
          BY <4>1 DEF Goto, LockHeld, Blocking
        <5>2. req'[r].pc = "block_log"
          BY <4>1 DEF Goto, At, Typed, TypeOK
        <5> QED BY <4>1, <5>1, <5>2 DEF Blocking
      <4> QED BY <3>2, <4>1 DEF BlockLookup
    <3>3. CASE BlockLog(r)
      BY <3>3 DEF BlockLog
    <3>4. CASE Fail(r)
      BY <3>4 DEF Fail
    <3>5. CASE ~(SaveLock(r) \/ BlockLookup(r) \/ BlockLog(r) \/ Fail(r))
      <4>1. lock' = lock /\ req[r].pc \notin Blocking
        BY <1>2, <3>5 DEF Proceed, ReportLookup, ReportLog, SubmitCommit, SubmitCheck, SubmitLog,
               CreateCommit, LoginCommit, ForceCommit, DeleteCommit, Goto, Finish, Blocking
      <4>2. r # None
        BY NoneAssumption
      <4> QED BY <4>1, <4>2 DEF RefusalHolds
    <3> QED BY <3>1, <3>2, <3>3, <3>4, <3>5
  <2> QED BY <2>1, <2>2 DEF RefusalHolds
<1>3. CASE Restart
  BY <1>3 DEF Restart, RefusalHolds
<1>4. CASE UNCHANGED <<lock, req>>
  BY <1>4 DEF RefusalHolds
<1>5. Read \/ Tick \/ UNCHANGED vars \/ (\E s \in Student : Connect(s) \/ Disconnect(s)) =>
        UNCHANGED <<lock, req>>
  BY DEF Read, ListOpen, ListCount, ListRows, BoardSubmits, BoardTotal, Tick, vars, Connect,
         Disconnect, requests
<1> QED BY <1>1, <1>2, <1>3, <1>4, <1>5 DEF Next, Call

\* A save that is refused for want of a socket leaves the exam row free, whichever way it
\* ends: the row was known, was written, met a deleted student, or the process stopped.
\* Whoever waits for the row waits for a request that is still there.
THEOREM RefusalsFreeTheExam == Spec => []RefusalHolds
<1>1. Init => RefusalHolds
  BY DEF Init, RefusalHolds
<1>2. Inv => Typed /\ LockHeld
  BY DEF Inv, LookupInv
<1>3. Spec => [](Inv /\ RefusalHolds)
  BY <1>1, <1>2, InvInit, InvStep, RefusalStep, PTL DEF Spec
<1> QED BY <1>3, PTL
=============================================================================
