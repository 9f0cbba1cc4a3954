------------------------ MODULE ExamLifecycle_proofs ------------------------
(***************************************************************************)
(* TypeOK and ActualTimesInOrder for any number of requests and any       *)
(* clock.  The argument: a request that begins the exam carries a stamp   *)
(* taken while the exam had not started (unless it was overtaken), and    *)
(* one that ends it a stamp taken after; so of all stamps written or      *)
(* still in flight, no start is later than an end, and a commit only      *)
(* moves a stamp from the second kind to the first.                        *)
(***************************************************************************)
EXTENDS ExamLifecycle, TLAPS

\* A row has the stamps its status calls for.
Staged(row) ==
  /\ row.status = "not_started" => row.actualStart = None /\ row.actualEnd = None
  /\ row.status # "not_started" => row.actualStart # None
  /\ row.status = "ended" => row.actualEnd # None

\* What a request in flight wants to do to the row it saw.
Edits(saw, new) ==
  new.status = saw.status /\ new.actualStart = saw.actualStart /\ new.actualEnd = saw.actualEnd
Begins(saw, new) ==
  /\ saw.status = "not_started" /\ new.status = "ongoing"
  /\ saw.actualStart = None /\ new.actualStart # None
  /\ new.actualEnd = saw.actualEnd
Ends(saw, new) ==
  /\ saw.status = "ongoing" /\ new.status = "ended"
  /\ saw.actualStart # None /\ new.actualStart = saw.actualStart
  /\ new.actualEnd # None /\ saw.actualEnd \in {None, new.actualEnd}

Wants(saw, new) == Edits(saw, new) \/ Begins(saw, new) \/ Ends(saw, new)

\* The row only moves ahead of what a request saw.
Ahead(saw, row) ==
  /\ saw.status # "not_started" => row.status # "not_started"
  /\ saw.actualEnd # None => row.actualEnd # None

\* Start stamps and end stamps, on the row or in flight and yet to be written.
StartStamp(n) ==
  \/ n = exam.actualStart
  \/ \E r \in Req : /\ req[r].pc = "computed" /\ Begins(req[r].saw, req[r].new)
                    /\ n = req[r].new.actualStart
EndStamp(n) ==
  \/ n = exam.actualEnd
  \/ \E r \in Req : /\ req[r].pc = "computed" /\ Ends(req[r].saw, req[r].new)
                    /\ req[r].saw.actualEnd = None /\ n = req[r].new.actualEnd
Ordered ==
  /\ \A n \in Nat : StartStamp(n) \/ EndStamp(n) => n <= now
  /\ \A m, n \in Nat : StartStamp(m) /\ EndStamp(n) => m <= n

InFlight == \A r \in Req :
  /\ req[r].pc # "idle" => Staged(req[r].saw) /\ Ahead(req[r].saw, exam)
  /\ req[r].pc = "computed" => Wants(req[r].saw, req[r].new)

Inv == /\ TypeOK /\ Staged(exam) /\ InFlight
       /\ ~overtaken => Ordered

---------------------------------------------------------------------------
(* Type correctness *)

LEMMA DurationTyped ==
  ASSUME NEW a \in Time, NEW b \in Time
  PROVE  calculate_duration_minutes(a, b) \in Int
<1>1. b - a \in Int /\ Minute \in Nat /\ Minute > 0
  BY TimeAssumption, MinuteAssumption
<1> QED BY <1>1 DEF calculate_duration_minutes

LEMMA UpdatedTyped ==
  ASSUME NEW row \in Row, NEW body \in Body, now \in Nat
  PROVE  Updated(row, body) \in Row
<1>1. GivenOr(body.start, row.start) \in Time /\ GivenOr(body.end, row.end) \in Time
  BY DEF GivenOr, Row, Body
<1>2. calculate_duration_minutes(GivenOr(body.start, row.start), GivenOr(body.end, row.end)) \in Int
  BY <1>1, DurationTyped
<1>3. GivenOr(body.status, row.status) \in Status
  BY DEF GivenOr, Row, Body
<1>4. GivenOr(row.actualStart, now) \in Stamp /\ GivenOr(row.actualEnd, now) \in Stamp
  BY DEF GivenOr, Row, Stamp
<1> QED BY <1>1, <1>2, <1>3, <1>4 DEF Updated, Row

LEMMA MergedTyped ==
  ASSUME NEW saw \in Row, NEW new \in Row, exam \in Row
  PROVE  Merged(saw, new) \in Row
BY DEF Merged, Column, Row

LEMMA ComputeTyped ==
  ASSUME TypeOK, NEW r \in Req, NEW new \in Row, req[r].pc = "loaded", Compute(r, new),
         overtaken' \in BOOLEAN
  PROVE  TypeOK'
<1>1. req[r].saw \in Row
  BY DEF TypeOK
<1>2. /\ req' \in [Req -> [pc : Step, saw : Row \cup {None}, new : Row \cup {None}]]
      /\ \A q \in Req : req'[q].pc # "idle" => req'[q].saw \in Row
      /\ \A q \in Req : req'[q].pc = "computed" => req'[q].new \in Row
  BY <1>1 DEF TypeOK, Compute, Computed, Step
<1> QED BY <1>2 DEF TypeOK, Compute

LEMMA GoneTyped ==
  ASSUME NEW row \in Row
  PROVE  LET gone == [row EXCEPT !.deleted = TRUE] IN
         /\ gone \in Row /\ gone.status = row.status
         /\ gone.start = row.start /\ gone.end = row.end /\ gone.duration = row.duration
         /\ gone.actualStart = row.actualStart /\ gone.actualEnd = row.actualEnd
BY DEF Row

LEMMA TypeStep ==
  ASSUME TypeOK, [Next]_vars
  PROVE  TypeOK'
<1>1. ASSUME NEW r \in Req, NEW body \in Body, update_exam(r, body) PROVE TypeOK'
  <2>1. req[r].pc = "loaded" /\ req[r].saw \in Row /\ now \in Nat
    BY <1>1 DEF update_exam, TypeOK
  <2>2. overtaken' \in BOOLEAN
    BY <1>1, Zenon DEF update_exam
  <2> QED BY <1>1, <2>1, <2>2, ComputeTyped, UpdatedTyped DEF update_exam
<1>2. ASSUME NEW r \in Req, delete_exam(r) PROVE TypeOK'
  <2>1. req[r].pc = "loaded" /\ req[r].saw \in Row /\ overtaken' \in BOOLEAN
    BY <1>2 DEF delete_exam, TypeOK
  <2>2. [req[r].saw EXCEPT !.deleted = TRUE] \in Row
    BY <2>1, GoneTyped
  <2> QED BY <1>2, <2>1, <2>2, ComputeTyped DEF delete_exam
<1>7. ASSUME NEW r \in Req, Load(r) PROVE TypeOK'
  <2>1. alone' \in BOOLEAN
    BY <1>7, Zenon DEF Load
  <2>2. /\ req' \in [Req -> [pc : Step, saw : Row \cup {None}, new : Row \cup {None}]]
        /\ \A q \in Req : req'[q].pc # "idle" => req'[q].saw \in Row
        /\ \A q \in Req : req'[q].pc = "computed" => req'[q].new \in Row
    BY <1>7 DEF TypeOK, Load, Loaded, Step
  <2> QED BY <1>7, <2>1, <2>2 DEF TypeOK, Load
<1>8. ASSUME NEW r \in Req, Fail(r) PROVE TypeOK'
  BY <1>8 DEF Fail, TypeOK, Idle, Step
<1>3. ASSUME NEW r \in Req, Commit(r) PROVE TypeOK'
  <2>1. exam' \in Row
    BY <1>3, MergedTyped DEF Commit, TypeOK
  <2> QED BY <1>3, <2>1 DEF Commit, TypeOK, Idle, Step
<1>4. CASE Restart
  BY <1>4 DEF Restart, TypeOK, Idle, Step
<1>5. CASE Tick
  BY <1>5, TimeAssumption DEF Tick, TypeOK
<1>6. CASE UNCHANGED vars
  BY <1>6 DEF vars, TypeOK
<1> QED BY <1>1, <1>2, <1>3, <1>4, <1>5, <1>6, <1>7, <1>8 DEF Next

LEMMA TypeInit == Init => TypeOK
<1> SUFFICES ASSUME Init PROVE TypeOK
  OBVIOUS
<1>1. exam \in Row
  BY TimeAssumption, DurationTyped DEF Init, Row, Stamp, Status
<1>2. /\ req \in [Req -> [pc : Step, saw : Row \cup {None}, new : Row \cup {None}]]
      /\ \A r \in Req : req[r].pc = "idle"
  BY DEF Init, Idle, Step
<1>3. now \in Nat /\ started \in Nat /\ alone \in BOOLEAN /\ overtaken \in BOOLEAN
  BY DEF Init
<1> QED BY <1>1, <1>2, <1>3 DEF TypeOK

\* The row keeps its type through any interleaving of column-wise updates, and
\* every request in flight holds two complete rows.
THEOREM TypeCorrect == Spec => []TypeOK
<1>1. TypeOK /\ [Next]_vars => TypeOK'
  BY TypeStep
<1> QED BY TypeInit, <1>1, PTL DEF Spec

---------------------------------------------------------------------------
(* The stamps *)

LEMMA UpdatedWants ==
  ASSUME NEW row \in Row, NEW body \in Body, Staged(row), Accepted(row, body), now \in Nat
  PROVE  /\ Wants(row, Updated(row, body))
         /\ Begins(row, Updated(row, body)) => Updated(row, body).actualStart = now
         /\ Ends(row, Updated(row, body)) =>
              Updated(row, body).actualEnd = GivenOr(row.actualEnd, now)
<1>0. now # None
  BY NoneAssumption
<1>1. CASE body.status = None
  BY <1>1, NoneAssumption
     DEF Updated, GivenOr, Wants, Edits, Begins, Ends, Row, Status
<1>2. CASE body.status = "ongoing" /\ row.status = "not_started"
  BY <1>0, <1>2, NoneAssumption
     DEF Updated, GivenOr, Wants, Edits, Begins, Ends, Row, Status, Staged
<1>3. CASE body.status = "ended" /\ row.status = "ongoing"
  BY <1>0, <1>3, NoneAssumption
     DEF Updated, GivenOr, Wants, Edits, Begins, Ends, Row, Status, Staged
<1> QED BY <1>1, <1>2, <1>3 DEF Accepted, _VALID_TRANSITIONS, Row, Status, Body

\* Of what the row seen says, a start needs a row that had not started, an end one
\* that had.
LEMMA StatusWanted ==
  ASSUME NEW row \in Row, NEW body \in Body, Accepted(row, body),
         Begins(row, Updated(row, body))
  PROVE  body.status = "ongoing"
BY NoneAssumption DEF Begins, Updated, GivenOr, Row, Status, Body

\* A request computes its row: no end stamp is about while the exam has not started.
LEMMA ComputeKeepsOrder ==
  ASSUME Inv, NEW r \in Req, NEW new \in Row, req[r].pc = "loaded", Compute(r, new),
         Wants(req[r].saw, new),
         Begins(req[r].saw, new) =>
           new.actualStart = now /\ (~overtaken' => exam.status = "not_started"),
         Ends(req[r].saw, new) => new.actualEnd = GivenOr(req[r].saw.actualEnd, now),
         ~overtaken' => ~overtaken
  PROVE  Staged(exam)' /\ InFlight' /\ (~overtaken' => Ordered')
<1> DEFINE saw == req[r].saw
<1>1. /\ exam' = exam /\ now' = now
      /\ \A q \in Req : req'[q] = IF q = r THEN Computed(saw, new) ELSE req[q]
      /\ now \in Nat /\ Staged(saw) /\ Ahead(saw, exam)
  BY DEF Compute, Inv, TypeOK, InFlight
<1> HIDE DEF saw
<1>2. Staged(exam)'
  BY <1>1 DEF Inv, Staged
<1>3. InFlight'
  <2>1. Wants(saw, new)
    BY DEF saw
  <2>2. /\ Computed(saw, new).saw = saw /\ Computed(saw, new).new = new
        /\ Computed(saw, new).pc = "computed"
    BY DEF Computed
  <2> QED BY <1>1, <2>1, <2>2 DEF Inv, InFlight
<1>4. ASSUME NEW n \in Nat, StartStamp(n)'
      PROVE  StartStamp(n) \/ (Begins(saw, new) /\ n = now)
  BY <1>1, <1>4 DEF StartStamp, Computed, Begins, saw
<1>5. ASSUME NEW n \in Nat, EndStamp(n)'
      PROVE  EndStamp(n) \/ (Ends(saw, new) /\ n = now)
  BY <1>1, <1>5 DEF EndStamp, Computed, Ends, GivenOr, saw
<1>6. ASSUME exam.status = "not_started", NEW n \in Nat PROVE ~EndStamp(n)
  BY <1>6, NoneAssumption DEF Inv, Staged, InFlight, Ahead, EndStamp, Ends
<1>7. ~(Begins(saw, new) /\ Ends(saw, new))
  BY DEF Begins, Ends
<1> SUFFICES ASSUME ~overtaken' PROVE Ordered'
  BY <1>2, <1>3
<1>0. Ordered /\ (Begins(saw, new) => exam.status = "not_started")
  BY DEF Inv, saw
<1>8. \A n \in Nat : (StartStamp(n) \/ EndStamp(n))' => n <= now'
  BY <1>0, <1>1, <1>4, <1>5 DEF Ordered
<1>9. ASSUME NEW m \in Nat, NEW n \in Nat, StartStamp(m)', EndStamp(n)' PROVE m <= n
  <2>1. StartStamp(m) \/ (Begins(saw, new) /\ m = now)
    BY <1>4, <1>9
  <2>2. EndStamp(n) \/ (Ends(saw, new) /\ n = now)
    BY <1>5, <1>9
  <2> QED BY <1>0, <1>1, <1>6, <1>7, <2>1, <2>2 DEF Ordered
<1> QED BY <1>8, <1>9 DEF Ordered

\* A step that changes neither the row nor the clock and takes no row to write.
LEMMA QuietKeepsOrder ==
  ASSUME Inv, exam' = exam, now' = now, overtaken' = overtaken,
         \A q \in Req : \/ req'[q] = req[q]
                        \/ req'[q].pc = "idle"
                        \/ req'[q].pc = "loaded" /\ req'[q].saw = exam
  PROVE  Staged(exam)' /\ InFlight' /\ (~overtaken' => Ordered')
<1>1. Staged(exam)' /\ InFlight'
  BY DEF Inv, Staged, InFlight, Ahead
<1>2. ASSUME NEW n \in Nat, StartStamp(n)' PROVE StartStamp(n)
  BY <1>2 DEF StartStamp
<1>3. ASSUME NEW n \in Nat, EndStamp(n)' PROVE EndStamp(n)
  BY <1>3 DEF EndStamp
<1> QED BY <1>1, <1>2, <1>3 DEF Inv, Ordered

\* A commit puts on the row only stamps that were in flight.
LEMMA CommitKeepsOrder ==
  ASSUME Inv, NEW r \in Req, Commit(r)
  PROVE  Staged(exam)' /\ InFlight' /\ (~overtaken' => Ordered')
<1> DEFINE saw == req[r].saw
           new == req[r].new
<1>1. /\ Wants(saw, new) /\ Ahead(saw, exam)
      /\ exam \in Row /\ saw \in Row /\ new \in Row /\ req[r].pc = "computed"
      /\ now' = now /\ now \in Nat /\ overtaken' = overtaken
      /\ \A q \in Req : req'[q] = IF q = r THEN Idle ELSE req[q]
  BY DEF Commit, Inv, InFlight, TypeOK
<1>2. /\ exam'.status = Column(saw.status, new.status, exam.status)
      /\ exam'.actualStart = Column(saw.actualStart, new.actualStart, exam.actualStart)
      /\ exam'.actualEnd = Column(saw.actualEnd, new.actualEnd, exam.actualEnd)
  BY DEF Commit, Merged
<1>3. Staged(exam)' /\ Ahead(exam, exam')
  BY <1>1, <1>2 DEF Inv, Staged, Wants, Edits, Begins, Ends, Ahead, Column
<1>4. InFlight'
  BY <1>1, <1>3 DEF Inv, InFlight, Ahead, Idle
<1>5. ASSUME NEW n \in Nat, StartStamp(n)' PROVE StartStamp(n)
  BY <1>1, <1>2, <1>5, NoneAssumption DEF StartStamp, Wants, Edits, Begins, Ends, Column, Idle
<1>6. ASSUME NEW n \in Nat, EndStamp(n)' PROVE EndStamp(n)
  BY <1>1, <1>2, <1>6, NoneAssumption DEF EndStamp, Wants, Edits, Begins, Ends, Column, Idle
<1> QED BY <1>1, <1>3, <1>4, <1>5, <1>6 DEF Inv, Ordered

LEMMA InvInit == Init => Inv
<1> SUFFICES ASSUME Init PROVE Staged(exam) /\ InFlight /\ Ordered
  BY TypeInit DEF Inv
<1>1. exam.status = "not_started" /\ exam.actualStart = None /\ exam.actualEnd = None
  BY DEF Init
<1>2. \A r \in Req : req[r].pc = "idle"
  BY DEF Init, Idle
<1> QED BY <1>1, <1>2, NoneAssumption DEF Staged, InFlight, Ordered, StartStamp, EndStamp

LEMMA InvStep ==
  ASSUME Inv, [Next]_vars
  PROVE  Inv'
<1>0. TypeOK'
  BY TypeStep DEF Inv
<1>1. ASSUME NEW r \in Req, NEW body \in Body, update_exam(r, body) PROVE Inv'
  <2> DEFINE saw == req[r].saw
             new == Updated(saw, body)
  <2>1. /\ req[r].pc = "loaded" /\ saw \in Row /\ now \in Nat /\ Staged(saw)
        /\ Accepted(saw, body) /\ Compute(r, new)
        /\ overtaken' = (overtaken \/ (body.status = "ongoing" /\ exam.status # "not_started"))
    BY <1>1 DEF Inv, TypeOK, InFlight, update_exam
  <2>2. /\ new \in Row /\ Wants(saw, new)
        /\ Begins(saw, new) => new.actualStart = now /\ body.status = "ongoing"
        /\ Ends(saw, new) => new.actualEnd = GivenOr(saw.actualEnd, now)
    BY <2>1, UpdatedTyped, UpdatedWants, StatusWanted
  <2>3. Begins(saw, new) => (~overtaken' => exam.status = "not_started")
    BY <2>1, <2>2
  <2>4. ~overtaken' => ~overtaken
    BY <2>1
  <2> HIDE DEF new
  <2> QED BY <1>0, <2>1, <2>2, <2>3, <2>4, ComputeKeepsOrder DEF Inv
<1>2. ASSUME NEW r \in Req, delete_exam(r) PROVE Inv'
  <2> DEFINE saw == req[r].saw
             gone == [saw EXCEPT !.deleted = TRUE]
  <2>0. saw \in Row /\ req[r].pc = "loaded" /\ overtaken' = overtaken /\ Compute(r, gone)
    BY <1>2 DEF delete_exam, Inv, TypeOK
  <2>1. /\ gone \in Row /\ gone.status = saw.status
        /\ gone.actualStart = saw.actualStart /\ gone.actualEnd = saw.actualEnd
    BY <2>0, GoneTyped
  <2>2. Wants(saw, gone) /\ ~Begins(saw, gone) /\ ~Ends(saw, gone)
    BY <2>1 DEF Wants, Edits, Begins, Ends
  <2> HIDE DEF gone
  <2> QED BY <1>0, <2>0, <2>1, <2>2, ComputeKeepsOrder DEF Inv
<1>3. ASSUME NEW r \in Req, Commit(r) PROVE Inv'
  BY <1>0, <1>3, CommitKeepsOrder DEF Inv
<1>4. CASE Restart
  <2>1. /\ exam' = exam /\ now' = now /\ overtaken' = overtaken
        /\ \A q \in Req : req'[q].pc = "idle"
    BY <1>4 DEF Restart, Idle
  <2> QED BY <1>0, <2>1, QuietKeepsOrder DEF Inv
<1>5. CASE Tick
  <2>1. /\ exam' = exam /\ req' = req /\ now' = now + 1 /\ now \in Nat
        /\ overtaken' = overtaken
    BY <1>5 DEF Tick, Inv, TypeOK
  <2>2. \A n \in Nat : StartStamp(n)' = StartStamp(n) /\ EndStamp(n)' = EndStamp(n)
    BY <2>1 DEF StartStamp, EndStamp
  <2>3. ~overtaken' => Ordered'
    BY <2>1, <2>2 DEF Inv, Ordered
  <2> QED BY <1>0, <2>1, <2>3 DEF Inv, Staged, InFlight
<1>6. CASE UNCHANGED vars
  BY <1>0, <1>6, QuietKeepsOrder DEF vars, Inv
<1>7. ASSUME NEW r \in Req, Load(r) PROVE Inv'
  <2>1. /\ exam' = exam /\ now' = now /\ overtaken' = overtaken
        /\ \A q \in Req : req'[q] = IF q = r THEN Loaded(exam) ELSE req[q]
    BY <1>7 DEF Load, Inv, TypeOK
  <2>2. Loaded(exam).pc = "loaded" /\ Loaded(exam).saw = exam
    BY DEF Loaded
  <2> QED BY <1>0, <2>1, <2>2, QuietKeepsOrder DEF Inv
<1>8. ASSUME NEW r \in Req, Fail(r) PROVE Inv'
  <2>1. /\ exam' = exam /\ now' = now /\ overtaken' = overtaken
        /\ \A q \in Req : req'[q] = IF q = r THEN Idle ELSE req[q]
    BY <1>8 DEF Fail, Inv, TypeOK
  <2>2. Idle.pc = "idle"
    BY DEF Idle
  <2> QED BY <1>0, <2>1, <2>2, QuietKeepsOrder DEF Inv
<1> QED BY <1>1, <1>2, <1>3, <1>4, <1>5, <1>6, <1>7, <1>8 DEF Next

\* However many administrators start and end the exam at once, its actual times are
\* there when its status calls for them, and the end is before the start only if a
\* start was stamped though another was committed.
THEOREM TimesInOrder == Spec => []ActualTimesInOrder
<1>1. Inv => ActualTimesInOrder
  <2> SUFFICES ASSUME Inv PROVE ActualTimesInOrder
    OBVIOUS
  <2>1. exam.actualStart \in Stamp /\ exam.actualEnd \in Stamp /\ Staged(exam)
    BY DEF Inv, TypeOK, Row
  <2>2. exam.actualEnd # None => exam.actualStart # None
    BY <2>1 DEF Staged
  <2>3. ~overtaken /\ exam.actualEnd # None => exam.actualStart <= exam.actualEnd
    BY <2>1, <2>2 DEF Inv, Ordered, StartStamp, EndStamp, Stamp
  <2> QED BY <2>1, <2>2, <2>3 DEF ActualTimesInOrder, Staged
<1>2. Inv /\ [Next]_vars => Inv'
  BY InvStep
<1> QED BY InvInit, <1>1, <1>2, PTL DEF Spec

---------------------------------------------------------------------------
(* One request at a time *)

\* What an accepted request may make of the row.
Kept(row, new) ==
  new.start = row.start /\ new.end = row.end /\ new.duration = row.duration
Replanned(row, new) ==
  /\ row.status = "not_started" /\ new.status \in {"not_started", "ongoing"}
  /\ new.start \in Time /\ new.end \in Time /\ new.start < new.end
  /\ new.duration = (new.end - new.start) \div Minute
PlanStep(row, new) ==
  \/ new.status = row.status /\ Kept(row, new)
  \/ Replanned(row, new)
  \/ row.status = "not_started" /\ new.status = "ongoing" /\ Kept(row, new)
  \/ row.status = "ongoing" /\ new.status = "ended" /\ Kept(row, new)

\* The one request in flight has the row as it is and wants a step of the plan.
Alone == alone =>
  /\ \A q, r \in Req : req[q].pc # "idle" /\ req[r].pc # "idle" => q = r
  /\ \A r \in Req : req[r].pc # "idle" => req[r].saw = exam
  /\ \A r \in Req : req[r].pc = "computed" => PlanStep(exam, req[r].new)

LEMMA UpdatedPlans ==
  ASSUME NEW row \in Row, NEW body \in Body, Accepted(row, body)
  PROVE  PlanStep(row, Updated(row, body))
<1> DEFINE a == GivenOr(body.start, row.start)
           b == GivenOr(body.end, row.end)
           new == Updated(row, body)
<1>1. /\ new.status = GivenOr(body.status, row.status) /\ new.start = a /\ new.end = b
      /\ new.duration = IF StatusOnly(body) THEN row.duration ELSE calculate_duration_minutes(a, b)
  BY DEF Updated
<1>2. a \in Time /\ b \in Time
  BY DEF GivenOr, Row, Body
<1>3. \/ new.status = row.status
      \/ row.status = "not_started" /\ new.status = "ongoing"
      \/ row.status = "ongoing" /\ new.status = "ended"
  BY <1>1 DEF Accepted, _VALID_TRANSITIONS, GivenOr, Row, Status
<1>4. CASE StatusOnly(body)
  <2>1. Kept(row, new)
    BY <1>1, <1>4 DEF Kept, StatusOnly, GivenOr
  <2> QED BY <1>3, <2>1 DEF PlanStep
<1>5. CASE ~StatusOnly(body)
  <2>1. row.status = "not_started" /\ a < b
    BY <1>5 DEF Accepted
  <2>2. new.duration = (b - a) \div Minute
    BY <1>1, <1>5 DEF calculate_duration_minutes
  <2> HIDE DEF a, b, new
  <2>3. Replanned(row, new)
    BY <1>1, <1>2, <1>3, <2>1, <2>2 DEF Replanned
  <2> QED BY <2>3 DEF PlanStep, new
<1> QED BY <1>4, <1>5

LEMMA ComputeKeepsAlone ==
  ASSUME TypeOK, Alone, NEW r \in Req, NEW new \in Row, req[r].pc = "loaded", Compute(r, new),
         PlanStep(req[r].saw, new)
  PROVE  Alone'
<1>1. /\ exam' = exam /\ alone' = alone
      /\ \A q \in Req : req'[q] = IF q = r THEN Computed(req[r].saw, new) ELSE req[q]
  BY DEF Compute, TypeOK
<1>2. /\ Computed(req[r].saw, new).saw = req[r].saw /\ Computed(req[r].saw, new).new = new
      /\ Computed(req[r].saw, new).pc = "computed"
  BY DEF Computed
<1> SUFFICES ASSUME alone PROVE
       /\ \A p, q \in Req : req'[p].pc # "idle" /\ req'[q].pc # "idle" => p = q
       /\ \A q \in Req : req'[q].pc # "idle" => req'[q].saw = exam
       /\ \A q \in Req : req'[q].pc = "computed" => PlanStep(exam, req'[q].new)
  BY <1>1 DEF Alone
<1> QED BY <1>1, <1>2 DEF Alone

\* A lone commit writes the row it wants.
LEMMA CommitPlans ==
  ASSUME TypeOK, Alone, NEW r \in Req, Commit(r), alone
  PROVE  /\ PlanStep(exam, exam') /\ \A q \in Req : req'[q].pc = "idle"
         /\ exam \in Row /\ exam' \in Row /\ now' = now
<1> DEFINE new == req[r].new
<1>1. /\ req[r].saw = exam /\ PlanStep(exam, new) /\ exam \in Row /\ new \in Row
      /\ exam' = Merged(req[r].saw, new) /\ now' = now
      /\ \A q \in Req \ {r} : req[q].pc = "idle"
      /\ \A q \in Req : req'[q] = IF q = r THEN Idle ELSE req[q]
  BY DEF Commit, Alone, TypeOK
<1> HIDE DEF new
<1>2. /\ exam'.status = new.status /\ exam'.start = new.start /\ exam'.end = new.end
      /\ exam'.duration = new.duration
  BY <1>1 DEF Merged, Column
<1>3. PlanStep(exam, exam')
  BY <1>1, <1>2 DEF PlanStep, Kept, Replanned
<1>4. exam' \in Row
  BY <1>1, MergedTyped
<1>5. \A q \in Req : req'[q].pc = "idle"
  BY <1>1 DEF Idle
<1> QED BY <1>1, <1>3, <1>4, <1>5

LEMMA AloneStep ==
  ASSUME TypeOK, Alone, [Next]_vars
  PROVE  Alone'
<1>1. ASSUME NEW r \in Req, NEW body \in Body, update_exam(r, body) PROVE Alone'
  <2>1. req[r].pc = "loaded" /\ req[r].saw \in Row /\ now \in Nat
    BY <1>1 DEF TypeOK, update_exam
  <2> QED BY <1>1, <2>1, UpdatedTyped, UpdatedPlans, ComputeKeepsAlone DEF update_exam
<1>2. ASSUME NEW r \in Req, delete_exam(r) PROVE Alone'
  <2> DEFINE gone == [req[r].saw EXCEPT !.deleted = TRUE]
  <2>1. req[r].pc = "loaded" /\ req[r].saw \in Row /\ Compute(r, gone)
    BY <1>2 DEF TypeOK, delete_exam
  <2>2. gone \in Row /\ PlanStep(req[r].saw, gone)
    BY <2>1, GoneTyped DEF PlanStep, Kept
  <2> HIDE DEF gone
  <2> QED BY <2>1, <2>2, ComputeKeepsAlone
<1>3. ASSUME NEW r \in Req, Commit(r) PROVE Alone'
  <2>1. alone' = alone
    BY <1>3 DEF Commit
  <2> QED BY <1>3, <2>1, CommitPlans DEF Alone
<1>4. CASE Restart
  <2>1. \A q \in Req : req'[q].pc = "idle"
    BY <1>4 DEF Restart, Idle
  <2> QED BY <2>1 DEF Alone
<1>5. CASE Tick \/ UNCHANGED vars
  BY <1>5 DEF Tick, vars, Alone
<1>6. ASSUME NEW r \in Req, Load(r) PROVE Alone'
  <2>1. /\ exam' = exam /\ alone' = (alone /\ \A q \in Req : req[q].pc = "idle")
        /\ \A q \in Req : req'[q] = IF q = r THEN Loaded(exam) ELSE req[q]
    BY <1>6 DEF Load, TypeOK
  <2>2. Loaded(exam).saw = exam /\ Loaded(exam).pc = "loaded"
    BY DEF Loaded
  <2> QED BY <2>1, <2>2 DEF Alone
<1>7. ASSUME NEW r \in Req, Fail(r) PROVE Alone'
  <2>1. /\ exam' = exam /\ alone' = alone
        /\ \A q \in Req : req'[q] = IF q = r THEN Idle ELSE req[q]
    BY <1>7 DEF Fail, TypeOK
  <2>2. Idle.pc = "idle"
    BY DEF Idle
  <2> QED BY <2>1, <2>2 DEF Alone
<1> QED BY <1>1, <1>2, <1>3, <1>4, <1>5, <1>6, <1>7 DEF Next

LEMMA AloneInvariance == Spec => [](TypeOK /\ Alone)
<1>1. Init => TypeOK /\ Alone
  <2>1. Idle.pc = "idle"
    BY DEF Idle
  <2>2. Init => \A r \in Req : req[r] = Idle
    BY DEF Init
  <2>3. Init => \A r \in Req : req[r].pc = "idle"
    BY <2>1, <2>2
  <2> QED BY TypeInit, <2>3 DEF Alone
<1>2. TypeOK /\ Alone /\ [Next]_vars => (TypeOK /\ Alone)'
  BY TypeStep, AloneStep
<1> QED BY <1>1, <1>2, PTL DEF Spec

\* Only a commit or the clock changes what is to be seen of the exam.
LEMMA StepPlans ==
  ASSUME TypeOK, Alone, Next, alone'
  PROVE  \/ UNCHANGED <<exam, now>>
         \/ exam' = exam /\ now' = now + 1
         \/ PlanStep(exam, exam') /\ exam' \in Row /\ now' = now
<1>1. ASSUME NEW r \in Req, Commit(r)
      PROVE  PlanStep(exam, exam') /\ exam' \in Row /\ now' = now
  BY <1>1, CommitPlans DEF Commit
<1> QED BY <1>1 DEF Next, Load, update_exam, delete_exam, Compute, Fail, Restart, Tick

LEMMA PlanInit == Init => Plan!Init
BY DEF Init, Plan!Init, calculate_duration_minutes

\* As long as requests come one at a time, update_exam and delete_exam implement
\* ExamPlan: every step is one of the plan or leaves what it promises alone.
THEOREM PlanImplemented == Spec => ImplementsPlan
<1>1. ASSUME TypeOK, Alone, [Next]_vars, vars' # vars, alone'
      PROVE  [Plan!Next]_(Plan!vars)
  <2>1. CASE exam' = exam
    BY <2>1 DEF Plan!vars
  <2>2. CASE PlanStep(exam, exam')
    <3>1. CASE exam'.status = exam.status /\ Kept(exam, exam')
      BY <3>1 DEF Kept, Plan!vars
    <3>2. CASE Replanned(exam, exam')
      BY <3>2 DEF Replanned, Plan!Next, Plan!Replan, Plan!Planned
    <3>3. CASE exam.status = "not_started" /\ exam'.status = "ongoing" /\ Kept(exam, exam')
      BY <3>3 DEF Kept, Plan!Next, Plan!Begin
    <3>4. CASE exam.status = "ongoing" /\ exam'.status = "ended" /\ Kept(exam, exam')
      BY <3>4 DEF Kept, Plan!Next, Plan!Close
    <3> QED BY <2>2, <3>1, <3>2, <3>3, <3>4 DEF PlanStep
  <2> QED BY <1>1, <2>1, <2>2, StepPlans
<1>2. TypeOK /\ Alone /\ [Next]_vars => [alone' => [Plan!Next]_(Plan!vars)]_vars
  BY <1>1
<1> QED BY <1>2, PlanInit, AloneInvariance, PTL DEF Spec, ImplementsPlan

\* What the dashboard shows of a row at a time.
LEMMA ShownIs ==
  ASSUME TypeOK
  PROVE  /\ exam.status = "ended" => Shown = <<"ended", 0>>
         /\ exam.status # "ended" /\ now < exam.start => Shown = <<"not_started", exam.start - now>>
         /\ exam.status # "ended" /\ exam.start <= now /\ now < exam.end =>
              Shown = <<"ongoing", exam.end - now>>
         /\ exam.status # "ended" /\ exam.start <= now /\ exam.end <= now => Shown = <<"ended", 0>>
<1>1. exam.start \in Nat /\ exam.end \in Nat /\ now \in Nat
  BY TimeAssumption DEF TypeOK, Row
<1> QED BY <1>1 DEF Shown, calculate_dashboard_status_and_countdown

\* As long as requests come one at a time, the dashboard of an exam that has begun
\* never goes back.
THEOREM DashboardForward == Spec => DashboardNeverGoesBack
<1> DEFINE Forward == \/ Rank[Shown'[1]] > Rank[Shown[1]]
                      \/ Shown'[1] = Shown[1] /\ Shown'[2] <= Shown[2]
<1>1. ASSUME TypeOK, Alone, Next, alone', exam.status # "not_started"
      PROVE  Forward
  <2>1. TypeOK' /\ exam.start \in Nat /\ exam.end \in Nat /\ now \in Nat
    BY <1>1, TypeStep, TimeAssumption DEF TypeOK, Row
  <2>2. /\ exam'.start = exam.start /\ exam'.end = exam.end
        /\ exam.status = "ended" => exam'.status = "ended"
        /\ now' = now \/ now' = now + 1
    BY <1>1, StepPlans DEF PlanStep, Kept, Replanned
  <2>3. /\ exam'.status = "ended" => Shown' = <<"ended", 0>>
        /\ exam'.status # "ended" /\ now' < exam.start =>
             Shown' = <<"not_started", exam.start - now'>>
        /\ exam'.status # "ended" /\ exam.start <= now' /\ now' < exam.end =>
             Shown' = <<"ongoing", exam.end - now'>>
        /\ exam'.status # "ended" /\ exam.start <= now' /\ exam.end <= now' =>
             Shown' = <<"ended", 0>>
    BY <2>1, <2>2 DEF Shown, calculate_dashboard_status_and_countdown
  <2>4. /\ exam.status = "ended" => Shown = <<"ended", 0>>
        /\ exam.status # "ended" /\ now < exam.start => Shown = <<"not_started", exam.start - now>>
        /\ exam.status # "ended" /\ exam.start <= now /\ now < exam.end =>
             Shown = <<"ongoing", exam.end - now>>
        /\ exam.status # "ended" /\ exam.start <= now /\ exam.end <= now => Shown = <<"ended", 0>>
    BY <1>1, ShownIs
  <2>5. Rank["not_started"] = 1 /\ Rank["ongoing"] = 2 /\ Rank["ended"] = 3
    BY DEF Rank
  <2>6. CASE Shown = <<"ended", 0>>
    BY <2>1, <2>2, <2>3, <2>4, <2>6
  <2>7. CASE exam.status # "ended" /\ now < exam.start
    BY <2>1, <2>2, <2>3, <2>4, <2>5, <2>7
  <2>8. CASE exam.status # "ended" /\ exam.start <= now /\ now < exam.end
    BY <2>1, <2>2, <2>3, <2>4, <2>5, <2>8
  <2> QED BY <2>1, <2>4, <2>6, <2>7, <2>8
<1>2. TypeOK /\ Alone /\ [Next]_vars => [alone' /\ exam.status # "not_started" => Forward]_vars
  BY <1>1
<1> QED BY <1>2, AloneInvariance, PTL DEF Spec, DashboardNeverGoesBack
=============================================================================
