-------------------------- MODULE ProblemBank_proofs ------------------------
(***************************************************************************)
(* Proofs about ProblemBank, for any number of problems, students and     *)
(* requests and any subset of the problem types.                           *)
(***************************************************************************)
EXTENDS ProblemBank, TLAPS

Statuses == {"not_started", "ongoing", "ended"}
Steps == {"idle", "creating", "selecting", "sending", "updating", "deleting", "waiting", "saving"}
Written == [type : Type \cup {Unset}, options : Options \cup {Unset}]
Request == [pc : Steps, problem : Problem \cup {None}, saw : Rows \cup {None},
            writes : Written \cup {None}, exam : Statuses \cup {None},
            codes : SUBSET (Student \X Problem), tell : SUBSET Student]

\* What an update makes of a row that still is as it was loaded.
Outcome(saw, w) == Row(Column(w.type, saw.type), Column(w.options, saw.options))

\* What is in flight has been validated: against the row as loaded.
Sound(q) ==
  /\ q.pc = "creating" => q.saw \in Rows /\ Markable(q.saw) /\ q.exam \in Statuses
  /\ q.pc = "updating" => q.saw \in Rows /\ q.writes \in Written /\ Markable(Outcome(q.saw, q.writes))
  /\ q.pc \in {"selecting", "sending", "updating", "deleting", "waiting", "saving"} =>
       q.problem \in Problem
  /\ q.pc \in {"deleting", "waiting", "saving"} => \A c \in q.codes : c[2] = q.problem

RequestsOK == req \in [Req -> Request] /\ \A r \in Req : Sound(req[r])
TablesOK ==
  /\ exam \in Statuses /\ bank \in [Problem -> Rows \cup {None}] /\ gone \subseteq Problem
  /\ codes \subseteq Student \X Problem /\ status \in [Student -> Progress]
  /\ entered \subseteq Student
ClientsOK ==
  /\ online \subseteq Student /\ knocking \subseteq Student
  /\ view = [s \in Student |-> view[s]] /\ \A s \in Student : view[s] # None => view[s] \subseteq Problem
ExportOK ==
  /\ export.pc \in {"idle", "students", "problems", "codes"}
  /\ export.over \subseteq Student /\ export.problems \subseteq Problem
  /\ export.codes \subseteq Student \X Problem
HistoryOK == started \in Nat /\ passed \subseteq Student /\ unsettled \subseteq Student
Typed == RequestsOK /\ TablesOK /\ ClientsOK /\ ExportOK /\ HistoryOK

\* Nobody is in before the exam has started, and only who is in has a list.
Entered ==
  /\ exam = "not_started" => entered = {} /\ knocking = {}
  /\ \A s \in Student : view[s] # None => s \in entered

\* Who has not heard of a problem yet is about to be told.
Answering(p, s) == bank[p] # None /\ view[s] # None /\ s \notin passed
Telling(p, s) == \E r \in Req : /\ req[r].problem = p
                                /\ req[r].pc = "selecting" \/ (req[r].pc = "sending" /\ s \in req[r].tell)
Heard == exam = "ongoing" =>
  \A p \in Problem, s \in Student : Answering(p, s) => p \in view[s] \/ Telling(p, s)

\* No code row is without its problem, an archive's only if it was deleted since.
CodesHaveProblems ==
  /\ \A c \in codes : bank[c[2]] # None
  /\ \A c \in export.codes : bank[c[2]] # None \/ c[2] \in gone

\* A save still in flight is of a student who may write, or has handed in during it.
SaversWrite == \A r \in Req : req[r].pc \in {"waiting", "saving"} =>
  \A c \in req[r].codes : status[c[1]] # "handed_in" \/ c[1] \in unsettled

\* What an archive has read of those who had handed in is what is there.
OverIsOver == \A s \in export.over : status[s] = "handed_in" \/ s \in unsettled
Complete(s, p) == <<s, p>> \in codes <=> <<s, p>> \in export.codes
ReadIsKept == export.pc = "codes" =>
  \A s \in export.over \ unsettled, p \in Problem : bank[p] # None => Complete(s, p)

Inv == /\ Typed /\ Entered /\ Heard
       /\ CodesHaveProblems /\ SaversWrite /\ OverIsOver /\ ReadIsKept

LEMMA IdleIsSound == Idle \in Request /\ Sound(Idle) /\ Idle.pc = "idle"
BY DEF Idle, Request, Steps, Sound

LEMMA InvInit == Init => Inv
<1> SUFFICES ASSUME Init PROVE Inv
  OBVIOUS
<1>1. \A r \in Req : req[r] = Idle /\ req[r].pc = "idle"
  BY IdleIsSound DEF Init
<1>2. RequestsOK
  BY <1>1, IdleIsSound DEF Init, RequestsOK
<1>3. TablesOK /\ ClientsOK /\ HistoryOK /\ \A s \in Student : view[s] = None
  BY DEF Init, TablesOK, ClientsOK, HistoryOK, Statuses, Progress
<1>4. export.pc = "idle" /\ export.over = {} /\ export.problems = {} /\ export.codes = {}
  BY DEF Init, NoExport, Export
<1>5. ExportOK /\ CodesHaveProblems /\ OverIsOver /\ ReadIsKept
  BY <1>4 DEF Init, ExportOK, CodesHaveProblems, OverIsOver, ReadIsKept
<1>6. Entered /\ Heard /\ SaversWrite
  BY <1>1, <1>3 DEF Init, Entered, Heard, Answering, SaversWrite
<1> QED BY <1>2, <1>3, <1>5, <1>6 DEF Inv, Typed

LEMMA InvTypes == Inv => TypeOK
BY DEF Inv, Typed, RequestsOK, TablesOK, ClientsOK, ExportOK, HistoryOK, Request, Statuses, TypeOK

---------------------------------------------------------------------------
(* What happens to the requests in flight *)

\* The request of a slot, after a step that does not touch the others.
Only(r) == /\ req' = [q \in Req |-> req'[q]]
           /\ \A q \in Req \ {r} : req'[q] = req[q]

LEMMA OneRequest ==
  ASSUME RequestsOK, NEW r \in Req, Only(r), req'[r] \in Request, Sound(req'[r])
  PROVE  RequestsOK'
<1>1. \A q \in Req : req'[q] \in Request /\ Sound(req'[q])
  BY DEF Only, RequestsOK
<1>2. req' \in [Req -> Request]
  BY <1>1 DEF Only
<1> QED BY <1>1, <1>2 DEF RequestsOK

LEMMA StartStep ==
  ASSUME Inv, NEW r \in Req, NEW state, Start(r, state)
  PROVE  /\ Only(r) /\ req'[r] = state /\ req[r].pc = "idle"
         /\ UNCHANGED <<db, clients, export, passed, unsettled>> /\ started' = started + 1
BY DEF Start, Only, Inv, Typed, RequestsOK

LEMMA FinishStep ==
  ASSUME Inv, NEW r \in Req, Finish(r)
  PROVE  Only(r) /\ req'[r] = Idle /\ req'[r].pc = "idle" /\ RequestsOK'
<1>1. Only(r) /\ req'[r] = Idle
  BY DEF Finish, Only, Inv, Typed, RequestsOK
<1> QED BY <1>1, IdleIsSound, OneRequest DEF Inv, Typed

---------------------------------------------------------------------------
(* Requests begin *)

\* A request that has just been started touches nothing but its slot.
LEMMA StartKeeps ==
  ASSUME Inv, NEW r \in Req, NEW state \in Request, Start(r, state), Sound(state),
         state.pc \in {"creating", "updating", "deleting", "waiting"},
         state.pc = "waiting" => \A c \in state.codes : status[c[1]] # "handed_in"
  PROVE  Inv'
<1>1. /\ Only(r) /\ req'[r] = state /\ req[r].pc = "idle"
      /\ UNCHANGED <<db, clients, export, passed, unsettled>> /\ started' = started + 1
  BY StartStep
<1>2. Typed'
  <2>1. RequestsOK'
    BY <1>1, OneRequest DEF Inv, Typed
  <2> QED BY <1>1, <2>1 DEF Inv, Typed, TablesOK, ClientsOK, ExportOK, HistoryOK, db, clients
<1>3. Entered' /\ CodesHaveProblems' /\ OverIsOver' /\ ReadIsKept'
  BY <1>1 DEF Inv, Entered, CodesHaveProblems, OverIsOver, ReadIsKept, Complete, db, clients
<1>4. SaversWrite'
  BY <1>1 DEF Inv, SaversWrite, Only, db
<1>5. Heard'
  <2>1. \A p \in Problem, s \in Student : Telling(p, s) => Telling(p, s)'
    BY <1>1 DEF Telling, Only
  <2>2. \A p \in Problem, s \in Student : Answering(p, s)' => Answering(p, s)
    BY <1>1 DEF Answering, db, clients
  <2> QED BY <1>1, <2>1, <2>2 DEF Inv, Heard, db, clients
<1> QED BY <1>2, <1>3, <1>4, <1>5 DEF Inv

LEMMA CreateLoadKeeps ==
  ASSUME Inv, NEW r \in Req, NEW row \in Rows, CreateLoad(r, row)
  PROVE  Inv'
<1> DEFINE state == [Idle EXCEPT !.pc = "creating", !.saw = row, !.exam = exam]
<1>1. exam \in Statuses
  BY DEF Inv, Typed, TablesOK
<1>2. state \in Request /\ Sound(state) /\ state.pc = "creating"
  BY <1>1 DEF Request, Steps, Idle, Sound, CreateLoad, validate_choice_problem, Markable
<1> QED BY <1>2, StartKeeps DEF CreateLoad

\* The columns an update writes make of the row it loaded what it has validated.
LEMMA UpdateIsValidated ==
  ASSUME NEW saw \in Rows, NEW type \in Type \cup {Unset}, NEW options \in Options \cup {Unset},
         NEW writtenOptions \in {options} \cup (IF options = saw.options THEN {Unset} ELSE {}),
         LET new == NewRow(saw, type, options) IN validate_choice_problem(new.type, new.options)
  PROVE  LET w == Row(IF type = saw.type THEN Unset ELSE type, writtenOptions)
         IN w \in Written /\ Markable(Outcome(saw, w))
<1> DEFINE w == Row(IF type = saw.type THEN Unset ELSE type, writtenOptions)
           new == NewRow(saw, type, options)
<1>1. w \in Written /\ w.type = (IF type = saw.type THEN Unset ELSE type) /\ w.options = writtenOptions
  BY DEF Written, Row
<1>2. Column(w.type, saw.type) = new.type /\ Column(w.options, saw.options) = new.options
  BY <1>1 DEF Column, NewRow, Row
<1>3. Outcome(saw, w).type = new.type /\ Outcome(saw, w).options = new.options
  BY <1>2 DEF Outcome, Row
<1>4. validate_choice_problem(new.type, new.options)
  OBVIOUS
<1> HIDE DEF w, new
<1>5. Markable(Outcome(saw, w))
  BY <1>3, <1>4 DEF Markable, validate_choice_problem
<1> QED BY <1>1, <1>5 DEF w

LEMMA UpdateLoadKeeps ==
  ASSUME Inv, NEW r \in Req, NEW p \in Problem, NEW type \in Type \cup {Unset},
         NEW options \in Options \cup {Unset}, UpdateLoad(r, p, type, options)
  PROVE  Inv'
<1> DEFINE saw == bank[p]
           w(o) == Row(IF type = saw.type THEN Unset ELSE type, o)
           state(o) == [Idle EXCEPT !.pc = "updating", !.problem = p, !.saw = saw, !.writes = w(o)]
<1>1. saw \in Rows
  BY DEF UpdateLoad, Inv, Typed, TablesOK
<1>2. LET new == NewRow(saw, type, options) IN validate_choice_problem(new.type, new.options)
  BY DEF UpdateLoad
<1>3. PICK o \in {options} \cup (IF options = saw.options THEN {Unset} ELSE {}) : Start(r, state(o))
  BY DEF UpdateLoad
<1>4. w(o) \in Written /\ Markable(Outcome(saw, w(o)))
  BY <1>1, <1>2, UpdateIsValidated
<1> HIDE DEF saw, w
<1>5. state(o) \in Request /\ Sound(state(o)) /\ state(o).pc = "updating"
  BY <1>1, <1>4 DEF Request, Steps, Idle, Sound
<1> HIDE DEF state
<1> QED BY <1>3, <1>5, StartKeeps

LEMMA DeleteLoadKeeps ==
  ASSUME Inv, NEW r \in Req, NEW p \in Problem, DeleteLoad(r, p)
  PROVE  Inv'
<1> DEFINE state == [Idle EXCEPT !.pc = "deleting", !.problem = p, !.codes = CodesOf(p)]
<1>1. CodesOf(p) \subseteq Student \X Problem /\ \A c \in CodesOf(p) : c[2] = p
  BY DEF CodesOf, Inv, Typed, TablesOK
<1>2. state \in Request /\ Sound(state) /\ state.pc = "deleting"
  BY <1>1 DEF Request, Steps, Idle, Sound
<1> QED BY <1>2, StartKeeps DEF DeleteLoad

LEMMA SaveStartKeeps ==
  ASSUME Inv, NEW r \in Req, NEW s \in Student, NEW p \in Problem, SaveStart(r, s, p)
  PROVE  Inv'
<1> DEFINE mine == {<<s, p>>}
           state == [Idle EXCEPT !.pc = "waiting", !.problem = p, !.codes = mine]
<1>1. mine \subseteq Student \X Problem /\ \A c \in mine : c[1] = s /\ c[2] = p
  OBVIOUS
<1> HIDE DEF mine
<1>2. /\ state \in Request /\ Sound(state) /\ state.pc = "waiting"
      /\ \A c \in state.codes : c[1] = s
  BY <1>1 DEF Request, Steps, Idle, Sound
<1>3. status[s] # "handed_in"
  BY DEF SaveStart
<1>4. Start(r, state)
  BY DEF SaveStart, mine
<1> HIDE DEF state
<1> QED BY <1>2, <1>3, <1>4, StartKeeps

---------------------------------------------------------------------------
(* Requests go on and end *)

\* A request that ends, or goes on, without a word to the tables.
LEMMA TellingKept ==
  ASSUME NEW r \in Req, Only(r), NEW p, NEW s, Telling(p, s),
         req[r].pc \notin {"selecting", "sending"}
  PROVE  Telling(p, s)'
BY DEF Telling, Only

LEMMA CreateCommitKeeps ==
  ASSUME Inv, NEW r \in Req, CreateCommit(r)
  PROVE  Inv'
<1>1. /\ req[r].pc = "creating" /\ req[r].saw \in Rows /\ req[r] \in Request
      /\ UNCHANGED <<exam, gone, codes, status, entered, clients, started, unsettled, export>>
      /\ passed' = passed \cup (Listed \cap (IF req[r].exam # exam THEN Student ELSE {}))
  BY DEF CreateCommit, PassedOver, Inv, Typed, RequestsOK, Sound
<1>2. PICK p \in Problem :
        /\ bank[p] = None /\ p \notin gone
        /\ bank' = [bank EXCEPT ![p] = req[r].saw]
        /\ \/ req[r].exam = "ongoing"
              /\ req' = [req EXCEPT ![r].pc = "selecting", ![r].problem = p]
           \/ req[r].exam # "ongoing" /\ Finish(r)
  BY DEF CreateCommit
<1>3. /\ Only(r) /\ RequestsOK'
      /\ \/ req'[r].pc = "idle"
         \/ req'[r].pc = "selecting" /\ req'[r].problem = p
      /\ req[r].exam = "ongoing" => req'[r].pc = "selecting" /\ req'[r].problem = p
  <2>1. CASE req[r].exam # "ongoing" /\ Finish(r)
    BY <2>1, FinishStep
  <2>2. CASE req[r].exam = "ongoing" /\ req' = [req EXCEPT ![r].pc = "selecting", ![r].problem = p]
    <3>1. Only(r) /\ req'[r] = [req[r] EXCEPT !.pc = "selecting", !.problem = p]
      BY <2>2 DEF Only, Inv, Typed, RequestsOK
    <3>2. req'[r] \in Request /\ req'[r].pc = "selecting" /\ req'[r].problem = p
      BY <1>1, <3>1 DEF Request, Steps
    <3>3. Sound(req'[r])
      BY <3>2 DEF Sound
    <3> QED BY <3>1, <3>2, <3>3, OneRequest DEF Inv, Typed
  <2> QED BY <1>2, <2>1, <2>2
<1>4. /\ bank'[p] \in Rows /\ \A q \in Problem \ {p} : bank'[q] = bank[q]
      /\ bank' \in [Problem -> Rows \cup {None}]
  BY <1>1, <1>2 DEF Inv, Typed, TablesOK
<1>10. passed \subseteq passed' /\ passed' \subseteq Student
  BY <1>1 DEF Listed, Inv, Typed, HistoryOK
<1>5. Typed'
  BY <1>1, <1>3, <1>4, <1>10 DEF Inv, Typed, TablesOK, ClientsOK, ExportOK, HistoryOK, clients
<1>6. Entered' /\ OverIsOver'
  BY <1>1 DEF Inv, Entered, OverIsOver, clients
<1>7. SaversWrite'
  BY <1>1, <1>3 DEF Inv, SaversWrite, Only
<1>8. Heard'
  <2> SUFFICES ASSUME exam = "ongoing", NEW q \in Problem, NEW s \in Student,
                      Answering(q, s)'
               PROVE  (q \in view[s] \/ Telling(q, s))'
    BY <1>1 DEF Heard, clients
  <2>1. CASE q = p
    <3>1. req[r].exam = exam
      BY <1>1 DEF Answering, Listed, clients
    <3> QED BY <1>3, <2>1, <3>1 DEF Telling
  <2>2. CASE q # p
    <3>1. Answering(q, s)
      BY <1>1, <1>4, <1>10, <2>2 DEF Answering, clients
    <3>2. q \in view[s] \/ Telling(q, s)
      BY <3>1 DEF Inv, Heard
    <3> QED BY <1>1, <1>3, <3>2, TellingKept DEF clients
  <2> QED BY <2>1, <2>2
<1>9. CodesHaveProblems' /\ ReadIsKept'
  <2>1. bank'[p] # None
    BY <1>4, RowAssumption DEF Rows
  <2>2. \A c \in codes : c[2] # p
    BY <1>2 DEF Inv, CodesHaveProblems
  <2>3. \A c \in export.codes : c[2] # p
    BY <1>2 DEF Inv, CodesHaveProblems
  <2>4. \A c \in codes \cup export.codes : c[2] \in Problem
    BY DEF Inv, Typed, TablesOK, ExportOK
  <2>5. CodesHaveProblems'
    BY <1>1, <1>4, <2>1, <2>4 DEF Inv, CodesHaveProblems
  <2>6. \A s \in Student : <<s, p>> \notin codes /\ <<s, p>> \notin export.codes
    BY <2>2, <2>3
  <2>7. ReadIsKept'
    <3> SUFFICES ASSUME export.pc = "codes", NEW s \in export.over \ unsettled, NEW q \in Problem,
                        bank'[q] # None
                 PROVE  Complete(s, q)
      BY <1>1 DEF ReadIsKept, Complete
    <3>1. s \in Student
      BY DEF Inv, Typed, ExportOK
    <3> QED BY <1>4, <2>6, <3>1 DEF Inv, ReadIsKept, Complete
  <2> QED BY <2>5, <2>7
<1> QED BY <1>5, <1>6, <1>7, <1>8, <1>9 DEF Inv

LEMMA BroadcastSelectKeeps ==
  ASSUME Inv, NEW r \in Req, BroadcastSelect(r)
  PROVE  Inv'
<1>1. /\ req[r].pc = "selecting" /\ req[r].problem \in Problem /\ req[r] \in Request
      /\ UNCHANGED <<db, clients, started, unsettled, export>>
      /\ passed' = passed \cup (Listed \cap {s \in Student : status[s] # "in_progress"})
  BY DEF BroadcastSelect, PassedOver, Inv, Typed, RequestsOK, Sound
<1>2. Only(r) /\ req'[r] = [req[r] EXCEPT !.pc = "sending", !.tell = Listeners]
  BY DEF BroadcastSelect, Only, Inv, Typed, RequestsOK
<1>3. Listeners \subseteq Student
  BY DEF Listeners
<1>4. /\ req'[r] \in Request /\ req'[r].pc = "sending" /\ req'[r].problem = req[r].problem
      /\ req'[r].tell = Listeners
  BY <1>1, <1>2, <1>3 DEF Request, Steps
<1>5. Sound(req'[r])
  BY <1>1, <1>4 DEF Sound
<1>6. Typed'
  <2>1. RequestsOK'
    BY <1>2, <1>4, <1>5, OneRequest DEF Inv, Typed
  <2>2. passed' \subseteq Student
    BY <1>1 DEF Inv, Typed, HistoryOK
  <2> QED BY <1>1, <2>1, <2>2 DEF Inv, Typed, TablesOK, ClientsOK, ExportOK, HistoryOK, db, clients
<1>7. Entered' /\ CodesHaveProblems' /\ OverIsOver' /\ ReadIsKept'
  BY <1>1 DEF Inv, Entered, CodesHaveProblems, OverIsOver, ReadIsKept, Complete, db, clients
<1>8. SaversWrite'
  BY <1>1, <1>2, <1>4 DEF Inv, SaversWrite, Only, db
<1>9. Heard'
  <2> SUFFICES ASSUME exam = "ongoing", NEW p \in Problem, NEW s \in Student,
                      Answering(p, s), s \notin passed'
               PROVE  p \in view[s] \/ Telling(p, s)'
    BY <1>1 DEF Heard, Answering, db, clients
  <2>1. s \in Listeners
    BY <1>1 DEF Answering, Listed, Listeners
  <2>2. ASSUME Telling(p, s) PROVE Telling(p, s)'
    <3>1. PICK q \in Req : /\ req[q].problem = p
                           /\ req[q].pc = "selecting" \/ (req[q].pc = "sending" /\ s \in req[q].tell)
      BY <2>2 DEF Telling
    <3>2. CASE q = r
      BY <1>4, <2>1, <3>1, <3>2 DEF Telling
    <3>3. CASE q # r
      <4>1. req'[q] = req[q]
        BY <1>2, <3>3 DEF Only
      <4> QED BY <3>1, <4>1 DEF Telling
    <3> QED BY <3>2, <3>3
  <2> QED BY <2>2 DEF Inv, Heard
<1> QED BY <1>6, <1>7, <1>8, <1>9 DEF Inv

LEMMA BroadcastSendKeeps ==
  ASSUME Inv, NEW r \in Req, BroadcastSend(r)
  PROVE  Inv'
<1>1. /\ req[r].pc = "sending" /\ req[r].problem \in Problem /\ req[r] \in Request
      /\ req[r].tell \subseteq Student
      /\ UNCHANGED <<db, knocking, online, started, unsettled, export>>
  BY DEF BroadcastSend, Inv, Typed, RequestsOK, Sound, Request
\* The parts that neither a view nor the request of a broadcast matters to.
<1>2. CodesHaveProblems' /\ OverIsOver' /\ ReadIsKept' /\ TablesOK' /\ ExportOK'
  BY <1>1 DEF Inv, Typed, TablesOK, ExportOK, CodesHaveProblems, OverIsOver, ReadIsKept, Complete, db
<1>3. ASSUME Only(r), req'[r].pc \in {"sending", "idle"}
      PROVE  SaversWrite'
  BY <1>1, <1>3 DEF Inv, SaversWrite, Only, db
<1>4. ASSUME NEW s \in req[r].tell,
             view' = [view EXCEPT ![s] =
               IF s \in online /\ @ # None THEN @ \cup {req[r].problem} ELSE @],
             req' = [req EXCEPT ![r].tell = @ \ {s}], PassedOver({s} \ online)
      PROVE  Inv'
  <2>1. Only(r) /\ req'[r] = [req[r] EXCEPT !.tell = @ \ {s}]
    BY <1>4 DEF Only, Inv, Typed, RequestsOK
  <2>2. /\ req'[r] \in Request /\ req'[r].pc = "sending" /\ req'[r].problem = req[r].problem
        /\ req'[r].tell = req[r].tell \ {s}
    BY <1>1, <2>1 DEF Request
  <2>3. RequestsOK'
    <3>1. Sound(req'[r])
      BY <1>1, <2>2 DEF Sound
    <3> QED BY <2>1, <2>2, <3>1, OneRequest DEF Inv, Typed
  <2>4. s \in Student
    BY <1>1
  <2>5. /\ view' = [t \in Student |-> view'[t]]
        /\ \A t \in Student \ {s} : view'[t] = view[t]
        /\ \/ view'[s] = view[s]
           \/ /\ view'[s] = view[s] \cup {req[r].problem}
              /\ view[s] # None
        /\ s \in online /\ view[s] # None => view'[s] = view[s] \cup {req[r].problem}
        /\ view'[s] # None => view[s] # None
    BY <1>4, <2>4 DEF Inv, Typed, ClientsOK
  <2>6. ClientsOK' /\ Entered'
    <3>1. \A t \in Student : view'[t] # None => view'[t] \subseteq Problem
      BY <1>1, <2>5 DEF Inv, Typed, ClientsOK
    <3>2. \A t \in Student : view'[t] # None => t \in entered
      BY <2>5 DEF Inv, Entered
    <3> QED BY <1>1, <2>5, <3>1, <3>2 DEF Inv, Typed, ClientsOK, Entered, db
  <2>7. HistoryOK' /\ passed' = passed \cup (Listed \cap ({s} \ online))
    BY <1>1, <1>4 DEF Inv, Typed, HistoryOK, PassedOver, Listed
  <2>8. Heard'
    <3> SUFFICES ASSUME exam = "ongoing", NEW p \in Problem, NEW t \in Student,
                        Answering(p, t)'
                 PROVE  p \in view'[t] \/ Telling(p, t)'
      BY <1>1 DEF Heard, db
    <3>1. Answering(p, t)
      BY <1>1, <2>5, <2>7 DEF Answering, db
    <3>2. p \in view[t] \/ Telling(p, t)
      BY <3>1 DEF Inv, Heard
    <3>3. CASE p \in view[t]
      BY <2>5, <3>3
    <3>4. CASE Telling(p, t)
      <4>1. CASE t = s /\ p = req[r].problem
        <5>1. s \in online
          BY <2>7, <3>1, <4>1 DEF Answering, Listed
        <5> QED BY <2>5, <3>1, <4>1, <5>1 DEF Answering
      <4>2. CASE t # s \/ p # req[r].problem
        BY <1>1, <2>1, <2>2, <3>4, <4>2 DEF Telling, Only
      <4> QED BY <4>1, <4>2
    <3> QED BY <3>2, <3>3, <3>4
  <2>9. SaversWrite'
    BY <1>3, <2>1, <2>2
  <2> QED BY <1>2, <2>3, <2>6, <2>7, <2>8, <2>9 DEF Inv, Typed
<1>5. ASSUME Finish(r), req[r].tell = {}, UNCHANGED <<view, passed>>
      PROVE  Inv'
  <2>1. Only(r) /\ req'[r].pc = "idle" /\ RequestsOK'
    BY <1>5, FinishStep
  <2>2. ClientsOK' /\ Entered' /\ HistoryOK'
    BY <1>1, <1>5 DEF Inv, Typed, ClientsOK, Entered, HistoryOK, db
  <2>3. Heard'
    <3> SUFFICES ASSUME exam = "ongoing",
                        NEW p \in Problem, NEW t \in Student, Answering(p, t)
                 PROVE  p \in view[t] \/ Telling(p, t)'
      BY <1>1, <1>5 DEF Heard, Answering, db
    <3>1. Telling(p, t) => Telling(p, t)'
      BY <1>1, <1>5, <2>1 DEF Telling, Only
    <3> QED BY <3>1 DEF Inv, Heard
  <2>4. SaversWrite'
    BY <1>3, <2>1
  <2> QED BY <1>2, <2>1, <2>2, <2>3, <2>4 DEF Inv, Typed
<1> QED BY <1>4, <1>5 DEF BroadcastSend

LEMMA UpdateCommitKeeps ==
  ASSUME Inv, NEW r \in Req, UpdateCommit(r)
  PROVE  /\ Inv'
         /\ \A p \in Problem : bank'[p] # bank[p] /\ ~Markable(bank'[p]) /\ bank'[p] # None =>
              req[r].pc = "updating" /\ req[r].problem = p /\ req[r].saw # bank[p]
<1> DEFINE w == req[r].writes
           p == req[r].problem
           merged == Row(Column(w.type, bank[p].type), Column(w.options, bank[p].options))
<1>1. /\ req[r].pc = "updating" /\ p \in Problem /\ w \in Written /\ req[r].saw \in Rows
      /\ Markable(Outcome(req[r].saw, w))
      /\ UNCHANGED <<exam, gone, codes, status, entered, clients, history, export>>
  BY DEF UpdateCommit, Inv, Typed, RequestsOK, Sound
<1>2. Only(r) /\ req'[r].pc = "idle" /\ RequestsOK'
  BY FinishStep DEF UpdateCommit
<1>3. bank \in [Problem -> Rows \cup {None}]
  BY DEF Inv, Typed, TablesOK
<1>4. bank[p] # None => merged \in Rows
  <2> SUFFICES ASSUME bank[p] # None PROVE merged \in Rows
    OBVIOUS
  <2>1. bank[p].type \in Type /\ bank[p].options \in Options
    BY <1>1, <1>3 DEF Rows
  <2>2. w.type \in Type \cup {Unset} /\ w.options \in Options \cup {Unset}
    BY <1>1 DEF Written
  <2>3. Column(w.type, bank[p].type) \in Type /\ Column(w.options, bank[p].options) \in Options
    BY <2>1, <2>2 DEF Column
  <2> QED BY <2>3 DEF Row, Rows
<1>5. /\ \A q \in Problem \ {p} : bank'[q] = bank[q]
      /\ bank'[p] = IF bank[p] = None THEN None ELSE merged
      /\ bank' = [q \in Problem |-> bank'[q]]
  BY <1>1, <1>3 DEF UpdateCommit
<1>6. bank[p] # None => merged # None
  BY <1>4, RowAssumption DEF Rows
<1> HIDE DEF p, w, merged
<1>7. \A q \in Problem : bank'[q] = None <=> bank[q] = None
  BY <1>5, <1>6
<1>8. Typed'
  <2>1. bank' \in [Problem -> Rows \cup {None}]
    BY <1>1, <1>3, <1>4, <1>5
  <2> QED BY <1>1, <1>2, <2>1
          DEF Inv, Typed, TablesOK, ClientsOK, ExportOK, HistoryOK, clients, history
<1>9. Entered' /\ OverIsOver' /\ SaversWrite'
  BY <1>1, <1>2 DEF Inv, Entered, OverIsOver, SaversWrite, Only, clients, history
<1>10. Heard'
  <2>1. \A q \in Problem, s \in Student : Answering(q, s)' => Answering(q, s)
    BY <1>1, <1>7 DEF Answering, clients, history
  <2>2. \A q \in Problem, s \in Student : Telling(q, s) => Telling(q, s)'
    BY <1>1, <1>2, TellingKept
  <2> QED BY <1>1, <2>1, <2>2 DEF Inv, Heard, clients, history
<1>11. CodesHaveProblems' /\ ReadIsKept'
  <2>1. \A c \in codes \cup export.codes : c[2] \in Problem
    BY DEF Inv, Typed, TablesOK, ExportOK
  <2> QED BY <1>1, <1>7, <2>1 DEF Inv, CodesHaveProblems, ReadIsKept, Complete, history
<1>12. ASSUME NEW q \in Problem, bank'[q] # bank[q], ~Markable(bank'[q]), bank'[q] # None
       PROVE  req[r].pc = "updating" /\ req[r].problem = q /\ req[r].saw # bank[q]
  <2>1. q = p /\ bank'[q] = merged
    BY <1>5, <1>12
  <2>2. req[r].saw = bank[p] => merged = Outcome(req[r].saw, w)
    BY DEF Outcome, merged
  <2> QED BY <1>1, <1>12, <2>1, <2>2 DEF p
<1> QED BY <1>8, <1>9, <1>10, <1>11, <1>12 DEF Inv

LEMMA DeleteCommitKeeps ==
  ASSUME Inv, NEW r \in Req, DeleteCommit(r)
  PROVE  Inv' /\ \A p \in Problem : bank'[p] = bank[p] \/ bank'[p] = None
<1> DEFINE p == req[r].problem
<1>1. /\ req[r].pc = "deleting" /\ p \in Problem /\ \A c \in req[r].codes : c[2] = p
      /\ UNCHANGED <<exam, status, entered, clients, history, export>>
  BY DEF DeleteCommit, Inv, Typed, RequestsOK, Sound
<1>2. Only(r) /\ req'[r].pc = "idle" /\ RequestsOK'
  BY FinishStep DEF DeleteCommit
<1>3. \/ /\ bank[p] # None /\ CodesOf(p) \subseteq req[r].codes
         /\ bank' = [bank EXCEPT ![p] = None] /\ gone' = gone \cup {p}
         /\ codes' = codes \ req[r].codes
      \/ UNCHANGED <<bank, gone, codes>>
  BY DEF DeleteCommit
<1> HIDE DEF p
<1>4. /\ codes' \subseteq codes /\ gone' \subseteq Problem /\ gone \subseteq gone'
      /\ bank' \in [Problem -> Rows \cup {None}]
      /\ \A q \in Problem : bank'[q] = bank[q] \/ (q = p /\ bank'[q] = None /\ q \in gone')
      /\ \A c \in codes : c \in codes' \/ c[2] = p
      /\ bank'[p] = bank[p] \/ \A c \in codes' : c[2] # p
      /\ codes' = codes \/ bank'[p] = None
  BY <1>1, <1>3 DEF Inv, Typed, TablesOK, CodesOf
<1>5. Typed'
  BY <1>1, <1>2, <1>4 DEF Inv, Typed, TablesOK, ClientsOK, ExportOK, HistoryOK, clients, history
<1>6. Entered' /\ OverIsOver' /\ SaversWrite'
  BY <1>1, <1>2 DEF Inv, Entered, OverIsOver, SaversWrite, Only, clients, history
<1>7. Heard'
  <2>1. \A q \in Problem, s \in Student : Answering(q, s)' => Answering(q, s)
    BY <1>1, <1>4 DEF Answering, clients, history
  <2>2. \A q \in Problem, s \in Student : Telling(q, s) => Telling(q, s)'
    BY <1>1, <1>2, TellingKept
  <2> QED BY <1>1, <2>1, <2>2 DEF Inv, Heard, clients, history
<1>8. CodesHaveProblems'
  <2>1. \A c \in codes \cup export.codes : c[2] \in Problem
    BY DEF Inv, Typed, TablesOK, ExportOK
  <2>2. \A c \in codes' : bank'[c[2]] # None
    BY <1>4, <2>1 DEF Inv, CodesHaveProblems
  <2>3. \A c \in export.codes : bank'[c[2]] # None \/ c[2] \in gone'
    BY <1>4, <2>1 DEF Inv, CodesHaveProblems
  <2> QED BY <1>1, <2>2, <2>3 DEF CodesHaveProblems
<1>9. ReadIsKept'
  <2> SUFFICES ASSUME export.pc = "codes", NEW s \in export.over \ unsettled, NEW q \in Problem,
                      bank'[q] # None
               PROVE  <<s, q>> \in codes' <=> <<s, q>> \in export.codes
    BY <1>1 DEF ReadIsKept, Complete, history
  <2>1. bank[q] # None
    BY <1>4
  <2>2. <<s, q>> \in codes <=> <<s, q>> \in export.codes
    BY <2>1 DEF Inv, ReadIsKept, Complete
  <2>3. <<s, q>> \in codes <=> <<s, q>> \in codes'
    <3>1. CASE q = p
      BY <1>4, <3>1
    <3>2. CASE q # p
      <4>1. <<s, q>>[2] # p
        BY <3>2
      <4> QED BY <1>4, <4>1
    <3> QED BY <3>1, <3>2
  <2> QED BY <2>2, <2>3
<1> QED BY <1>4, <1>5, <1>6, <1>7, <1>8, <1>9 DEF Inv

LEMMA SaveCommitKeeps ==
  ASSUME Inv, NEW r \in Req, SaveCommit(r)
  PROVE  Inv'
<1> DEFINE p == req[r].problem
<1>1. /\ req[r].pc = "saving" /\ p \in Problem /\ req[r].codes \subseteq Student \X Problem
      /\ UNCHANGED <<exam, bank, gone, status, entered, clients, history, export>>
      /\ codes' = IF bank[p] = None THEN codes ELSE codes \cup req[r].codes
  BY DEF SaveCommit, Inv, Typed, RequestsOK, Sound, Request
<1>2. Only(r) /\ req'[r].pc = "idle" /\ RequestsOK'
  BY FinishStep DEF SaveCommit
<1>3. Typed'
  BY <1>1, <1>2 DEF Inv, Typed, TablesOK, ClientsOK, ExportOK, HistoryOK, clients, history
<1>4. Entered' /\ OverIsOver' /\ SaversWrite'
  BY <1>1, <1>2 DEF Inv, Entered, OverIsOver, SaversWrite, Only, clients, history
<1>5. Heard'
  <2>1. \A q \in Problem, s \in Student : Answering(q, s)' => Answering(q, s)
    BY <1>1 DEF Answering, clients, history
  <2>2. \A q \in Problem, s \in Student : Telling(q, s) => Telling(q, s)'
    BY <1>1, <1>2, TellingKept
  <2> QED BY <1>1, <2>1, <2>2 DEF Inv, Heard, clients, history
<1>6. CodesHaveProblems'
  <2>1. ASSUME bank[p] # None, NEW c \in req[r].codes PROVE bank[c[2]] # None
    BY <1>1, <2>1 DEF Inv, Typed, RequestsOK, Sound
  <2> QED BY <1>1, <2>1 DEF Inv, CodesHaveProblems
<1>7. ReadIsKept'
  <2> SUFFICES ASSUME export.pc = "codes", NEW s \in export.over \ unsettled, NEW q \in Problem,
                      bank[q] # None
               PROVE  <<s, q>> \in codes' <=> <<s, q>> \in export.codes
    BY <1>1 DEF ReadIsKept, Complete, history
  <2>1. <<s, q>> \in codes <=> <<s, q>> \in export.codes
    BY DEF Inv, ReadIsKept, Complete
  <2>2. status[s] = "handed_in" /\ s \notin unsettled
    BY DEF Inv, OverIsOver
  <2>3. <<s, q>> \notin req[r].codes
    <3>1. <<s, q>>[1] = s
      OBVIOUS
    <3> QED BY <1>1, <2>2, <3>1 DEF Inv, SaversWrite
  <2> QED BY <1>1, <2>1, <2>3
<1> QED BY <1>3, <1>4, <1>5, <1>6, <1>7 DEF Inv

LEMMA SaveLockKeeps ==
  ASSUME Inv, NEW r \in Req, SaveLock(r)
  PROVE  Inv'
<1>1. /\ req[r].pc = "waiting" /\ req[r] \in Request /\ Sound(req[r])
      /\ UNCHANGED <<db, clients, history, export>>
  BY DEF SaveLock, Inv, Typed, RequestsOK
<1>2. Only(r) /\ req'[r] = [req[r] EXCEPT !.pc = "saving"]
  BY DEF SaveLock, Only, Inv, Typed, RequestsOK
<1>3. /\ req'[r] \in Request /\ req'[r].pc = "saving" /\ req'[r].problem = req[r].problem
      /\ req'[r].codes = req[r].codes
  BY <1>1, <1>2 DEF Request, Steps
<1>4. Sound(req'[r])
  BY <1>1, <1>3 DEF Sound
<1>5. RequestsOK'
  BY <1>2, <1>3, <1>4, OneRequest DEF Inv, Typed
<1>6. Typed'
  BY <1>1, <1>5 DEF Inv, Typed, TablesOK, ClientsOK, ExportOK, HistoryOK, db, clients, history
<1>7. Entered' /\ CodesHaveProblems' /\ OverIsOver' /\ ReadIsKept'
  BY <1>1 DEF Inv, Entered, CodesHaveProblems, OverIsOver, ReadIsKept, Complete, db, clients, history
<1>8. SaversWrite'
  BY <1>1, <1>2, <1>3 DEF Inv, SaversWrite, Only, db, history
<1>9. Heard'
  <2>1. \A q \in Problem, s \in Student : Telling(q, s) => Telling(q, s)'
    BY <1>1, <1>2, TellingKept
  <2> QED BY <1>1, <2>1 DEF Inv, Heard, Answering, db, clients, history
<1> QED BY <1>6, <1>7, <1>8, <1>9 DEF Inv

\* Requests that end where they are leave those they had to tell passed over.
LEMMA EndsKeep ==
  ASSUME Inv, NEW R \in SUBSET Req, PassedOver(Untold(R)), RequestsOK',
         \A q \in R : req'[q].pc = "idle",
         \A q \in Req \ R : req'[q] = req[q],
         UNCHANGED <<db, view, started, unsettled>>, ClientsOK', ExportOK',
         knocking' \subseteq knocking,
         export' = export \/ (export'.over = {} /\ export'.codes = {} /\ export'.pc = "idle")
  PROVE  Inv'
<1>1. passed' = passed \cup (Listed \cap Untold(R)) /\ passed' \subseteq Student
  BY DEF PassedOver, Untold, Inv, Typed, HistoryOK
<1>2. Typed'
  BY <1>1 DEF Inv, Typed, TablesOK, HistoryOK, db
<1>3. Entered' /\ CodesHaveProblems' /\ OverIsOver' /\ ReadIsKept'
  BY DEF Inv, Entered, CodesHaveProblems, OverIsOver, ReadIsKept, Complete, db
<1>4. SaversWrite'
  BY DEF Inv, SaversWrite, db
<1>5. Heard'
  <2> SUFFICES ASSUME exam = "ongoing", NEW p \in Problem, NEW s \in Student,
                      Answering(p, s), s \notin passed'
               PROVE  p \in view[s] \/ Telling(p, s)'
    BY <1>1 DEF Heard, Answering, db
  <2>1. s \notin Untold(R)
    BY <1>1 DEF Answering, Listed
  <2>2. ASSUME Telling(p, s) PROVE Telling(p, s)'
    <3>1. PICK q \in Req : /\ req[q].problem = p
                           /\ req[q].pc = "selecting" \/ (req[q].pc = "sending" /\ s \in req[q].tell)
      BY <2>2 DEF Telling
    <3>2. q \notin R
      BY <2>1, <3>1 DEF Untold
    <3>3. req'[q] = req[q]
      BY <3>2
    <3> QED BY <3>1, <3>3 DEF Telling
  <2> QED BY <2>2 DEF Inv, Heard
<1> QED BY <1>2, <1>3, <1>4, <1>5 DEF Inv

LEMMA FailKeeps ==
  ASSUME Inv, NEW r \in Req, Fail(r)
  PROVE  Inv'
<1>1. Finish(r) /\ PassedOver(Untold({r})) /\ UNCHANGED <<db, clients, started, unsettled, export>>
  BY DEF Fail
<1>2. Only(r) /\ req'[r].pc = "idle" /\ RequestsOK'
  BY <1>1, FinishStep
<1>3. ClientsOK' /\ ExportOK' /\ UNCHANGED <<view, knocking>>
  BY <1>1 DEF Inv, Typed, ClientsOK, ExportOK, clients
<1>4. /\ \A q \in {r} : req'[q].pc = "idle"
      /\ \A q \in Req \ {r} : req'[q] = req[q]
  BY <1>2 DEF Only
<1> HIDE DEF Inv
<1> QED BY <1>1, <1>2, <1>3, <1>4, EndsKeep

---------------------------------------------------------------------------
(* The export, the exam, the students and their connections *)

LEMMA ExportKeeps ==
  ASSUME Inv, ExportStudents \/ ExportProblems \/ ExportCodes \/ ExportArchive
  PROVE  Inv'
<1>1. UNCHANGED <<db, clients, req, passed, unsettled>> /\ started' \in Nat
  BY DEF ExportStudents, ExportProblems, ExportCodes, ExportArchive, history, Inv, Typed, HistoryOK
<1>2. /\ ExportOK' /\ OverIsOver' /\ (ReadIsKept)'
      /\ \A c \in export'.codes : c \in codes \/ c \in export.codes
  <2>1. CASE ExportStudents
    <3>1. /\ export'.pc = "students" /\ export'.over = {s \in Student : status[s] = "handed_in"}
          /\ export'.problems = {} /\ export'.codes = {}
      BY <2>1 DEF ExportStudents, Export
    <3> QED BY <1>1, <3>1 DEF ExportOK, OverIsOver, ReadIsKept, db
  <2>2. CASE ExportProblems
    <3>1. /\ export'.pc = "problems" /\ export'.over = export.over
          /\ export'.problems = {p \in Problem : bank[p] # None} /\ export'.codes = {}
      BY <2>2 DEF ExportProblems, Export
    <3> QED BY <1>1, <3>1 DEF Inv, Typed, ExportOK, OverIsOver, ReadIsKept, db
  <2>3. CASE ExportCodes
    <3>1. /\ export'.pc = "codes" /\ export'.over = export.over
          /\ export'.problems = export.problems /\ export'.codes = codes
      BY <2>3 DEF ExportCodes, Export
    <3> QED BY <1>1, <3>1 DEF Inv, Typed, ExportOK, TablesOK, OverIsOver, ReadIsKept, Complete, db
  <2>4. CASE ExportArchive
    <3>1. export'.pc = "idle" /\ export'.over = {} /\ export'.problems = {} /\ export'.codes = {}
      BY <2>4 DEF ExportArchive, NoExport, Export
    <3> QED BY <1>1, <3>1 DEF ExportOK, OverIsOver, ReadIsKept, db
  <2> QED BY <2>1, <2>2, <2>3, <2>4
<1>3. Typed' /\ Entered' /\ SaversWrite'
  BY <1>1, <1>2 DEF Inv, Typed, RequestsOK, TablesOK, ClientsOK, HistoryOK, Entered,
                    SaversWrite, db, clients
<1>4. CodesHaveProblems'
  BY <1>1, <1>2 DEF Inv, CodesHaveProblems, db
<1>5. Heard'
  BY <1>1 DEF Inv, Heard, Answering, Telling, db, clients
<1> QED BY <1>2, <1>3, <1>4, <1>5 DEF Inv

LEMMA ExamMovesKeeps ==
  ASSUME Inv, ExamMoves
  PROVE  Inv'
<1>1. /\ UNCHANGED <<bank, gone, codes, status, entered, clients, req, history, export>>
      /\ exam' \in {"ongoing", "ended"} /\ (exam' = "ongoing" => exam = "not_started")
  BY DEF ExamMoves
<1>2. Typed'
  BY <1>1 DEF Inv, Typed, RequestsOK, TablesOK, ClientsOK, ExportOK, HistoryOK, Statuses, clients, history
<1>3. Entered' /\ CodesHaveProblems' /\ SaversWrite' /\ OverIsOver' /\ ReadIsKept'
  BY <1>1 DEF Inv, Entered, CodesHaveProblems, SaversWrite, OverIsOver, ReadIsKept, Complete,
              clients, history
<1>5. Heard'
  <2>1. exam' = "ongoing" => \A s \in Student : view[s] = None
    BY <1>1 DEF Inv, Entered
  <2> QED BY <1>1, <2>1 DEF Heard, Answering, clients
<1> QED BY <1>2, <1>3, <1>5 DEF Inv

LEMMA LoginCheckKeeps ==
  ASSUME Inv, NEW s \in Student, LoginCheck(s)
  PROVE  Inv'
<1>1. /\ exam = "ongoing" /\ knocking' \subseteq Student
      /\ UNCHANGED <<db, online, view, req, history, export>>
  BY DEF LoginCheck, Inv, Typed, ClientsOK
<1> QED BY <1>1 DEF Inv, Typed, RequestsOK, TablesOK, ClientsOK, ExportOK, HistoryOK, Entered, Heard,
     Answering, Telling, CodesHaveProblems, SaversWrite, OverIsOver, ReadIsKept, Complete, db, history

LEMMA LoginCommitKeeps ==
  ASSUME Inv, NEW s \in Student, LoginCommit(s)
  PROVE  Inv'
<1>1. /\ s \in knocking /\ entered' = entered \cup {s} /\ knocking' \subseteq knocking
      /\ UNCHANGED <<exam, bank, gone, codes, online, view, req, started, passed, export>>
      /\ unsettled' = unsettled \cup {t \in {s} : status[t] = "handed_in"}
      /\ status' \in [Student -> Progress] /\ status'[s] = "in_progress"
      /\ \A t \in Student \ {s} : status'[t] = status[t]
  BY DEF LoginCommit, Inv, Typed, TablesOK, Progress
<1>2. unsettled \subseteq unsettled' /\ unsettled' \subseteq Student
  BY <1>1 DEF Inv, Typed, HistoryOK
<1>3. Typed'
  BY <1>1, <1>2 DEF Inv, Typed, RequestsOK, TablesOK, ClientsOK, ExportOK, HistoryOK
<1>4. Entered' /\ CodesHaveProblems' /\ ReadIsKept'
  BY <1>1, <1>2 DEF Inv, Entered, CodesHaveProblems, ReadIsKept, Complete
<1>5. SaversWrite' /\ OverIsOver'
  <2>1. \A r \in Req : \A c \in req[r].codes : c[1] \in Student
    BY DEF Inv, Typed, RequestsOK, Request
  <2>2. export.over \subseteq Student
    BY DEF Inv, Typed, ExportOK
  <2> QED BY <1>1, <1>2, <2>1, <2>2 DEF Inv, SaversWrite, OverIsOver
<1>6. Heard'
  BY <1>1 DEF Inv, Heard, Answering, Telling
<1> QED BY <1>3, <1>4, <1>5, <1>6 DEF Inv

LEMMA HandInKeeps ==
  ASSUME Inv, NEW s \in Student, submit_exam(s) \/ force_submit(s)
  PROVE  Inv'
<1>1. /\ UNCHANGED <<exam, bank, gone, codes, entered, clients, req, started, passed, export>>
      /\ unsettled' = unsettled \cup {t \in {s} : \E r \in Req :
                              req[r].pc \in {"waiting", "saving"} /\ CodesBy(t, req[r].codes) # {}}
  BY DEF submit_exam, force_submit, HandedIn
<1>2. /\ status' \in [Student -> Progress] /\ status'[s] = "handed_in"
      /\ \A t \in Student \ {s} : status'[t] = status[t]
  BY DEF submit_exam, force_submit, HandedIn, Inv, Typed, TablesOK, Progress
<1>3. unsettled \subseteq unsettled' /\ unsettled' \subseteq unsettled \cup {s}
  BY <1>1
<1>4. Typed'
  BY <1>1, <1>2, <1>3 DEF Inv, Typed, RequestsOK, TablesOK, ClientsOK, ExportOK, HistoryOK, clients
<1>5. Entered' /\ CodesHaveProblems'
  BY <1>1, <1>2 DEF Inv, Entered, CodesHaveProblems, clients
<1>6. SaversWrite'
  <2> SUFFICES ASSUME NEW r \in Req, req[r].pc \in {"waiting", "saving"}, NEW c \in req[r].codes
               PROVE  status'[c[1]] # "handed_in" \/ c[1] \in unsettled'
    BY <1>1 DEF SaversWrite
  <2>1. c[1] \in Student
    BY DEF Inv, Typed, RequestsOK, Request
  <2>2. CASE c[1] = s
    <3>1. CodesBy(s, req[r].codes) # {}
      BY <2>2 DEF CodesBy
    <3> QED BY <1>1, <2>2, <3>1
  <2>3. CASE c[1] # s
    BY <1>2, <1>3, <2>1, <2>3 DEF Inv, SaversWrite
  <2> QED BY <2>2, <2>3
<1>7. OverIsOver' /\ ReadIsKept'
  <2>1. export.over \subseteq Student
    BY DEF Inv, Typed, ExportOK
  <2> QED BY <1>1, <1>2, <1>3, <2>1 DEF Inv, OverIsOver, ReadIsKept, Complete
<1>8. Heard'
  BY <1>1 DEF Inv, Heard, Answering, Telling, clients
<1> QED BY <1>4, <1>5, <1>6, <1>7, <1>8 DEF Inv

\* A connection opens or is gone.
LEMMA ConnKeeps ==
  ASSUME Inv, NEW s \in Student, Connect(s) \/ Disconnect(s)
  PROVE  Inv'
<1>1. UNCHANGED <<db, knocking, view, req, history, export>> /\ online' \subseteq Student
  BY DEF Connect, Disconnect, Inv, Typed, ClientsOK
<1> QED BY <1>1 DEF Inv, Typed, RequestsOK, TablesOK, ClientsOK, ExportOK, HistoryOK, Entered, Heard,
     Answering, Telling, CodesHaveProblems, SaversWrite, OverIsOver, ReadIsKept, Complete, db, history

\* A client that lists the problems knows of all of them.
LEMMA ListKeeps ==
  ASSUME Inv, NEW s \in Student, List(s)
  PROVE  Inv'
<1>1. /\ UNCHANGED <<db, knocking, online, req, started, unsettled, export>>
      /\ s \in entered /\ passed' = passed \ {s} /\ passed' \subseteq Student
      /\ view' = [t \in Student |-> view'[t]]
      /\ view'[s] = {p \in Problem : bank[p] # None}
      /\ \A t \in Student \ {s} : view'[t] = view[t]
  BY DEF List, Inv, Typed, ClientsOK, HistoryOK
<1>2. \A t \in Student : view'[t] # None => view'[t] \subseteq Problem /\ t \in entered
  BY <1>1 DEF Inv, Typed, ClientsOK, Entered
<1>3. Typed'
  BY <1>1, <1>2 DEF Inv, Typed, RequestsOK, TablesOK, ClientsOK, ExportOK, HistoryOK, db
<1>4. Entered' /\ CodesHaveProblems' /\ SaversWrite' /\ OverIsOver' /\ ReadIsKept'
  BY <1>1, <1>2 DEF Inv, Entered, CodesHaveProblems, SaversWrite, OverIsOver, ReadIsKept, Complete, db
<1>5. Heard'
  BY <1>1 DEF Inv, Heard, Answering, Telling, db
<1> QED BY <1>3, <1>4, <1>5 DEF Inv

LEMMA RestartKeeps ==
  ASSUME Inv, Restart
  PROVE  Inv'
<1>1. /\ UNCHANGED <<db, view, started, unsettled>> /\ PassedOver(Untold(Req))
      /\ req' = [r \in Req |-> Idle] /\ online' = {} /\ knocking' = {}
  BY DEF Restart
<1>2. export'.pc = "idle" /\ export'.over = {} /\ export'.problems = {} /\ export'.codes = {}
  BY DEF Restart, NoExport, Export
<1>3. \A r \in Req : req'[r] = Idle /\ req'[r].pc = "idle"
  BY <1>1, IdleIsSound
<1>4. RequestsOK'
  BY <1>1, <1>3, IdleIsSound DEF RequestsOK
<1>5. ClientsOK' /\ ExportOK'
  BY <1>1, <1>2 DEF Inv, Typed, ClientsOK, ExportOK
<1> HIDE DEF Inv
<1> QED BY <1>1, <1>2, <1>3, <1>4, <1>5, EndsKeep

---------------------------------------------------------------------------
LEMMA InvStep == Inv /\ [Next]_vars => Inv'
<1> SUFFICES ASSUME Inv, [Next]_vars PROVE Inv'
  OBVIOUS
<1>1. ASSUME NEW r \in Req, NEW row \in Rows, CreateLoad(r, row) PROVE Inv'
  BY <1>1, CreateLoadKeeps
<1>2. ASSUME NEW r \in Req, NEW p \in Problem, NEW type \in Type \cup {Unset},
             NEW options \in Options \cup {Unset}, UpdateLoad(r, p, type, options)
      PROVE  Inv'
  BY <1>2, UpdateLoadKeeps
<1>3. ASSUME NEW r \in Req, NEW p \in Problem, DeleteLoad(r, p) PROVE Inv'
  BY <1>3, DeleteLoadKeeps
<1>4. ASSUME NEW r \in Req, NEW s \in Student, NEW p \in Problem, SaveStart(r, s, p) PROVE Inv'
  BY <1>4, SaveStartKeeps
<1>5. ASSUME NEW r \in Req, CreateCommit(r) \/ BroadcastSelect(r) \/ BroadcastSend(r)
      PROVE  Inv'
  BY <1>5, CreateCommitKeeps, BroadcastSelectKeeps, BroadcastSendKeeps
<1>6. ASSUME NEW r \in Req, UpdateCommit(r) \/ DeleteCommit(r) \/ SaveLock(r) \/ SaveCommit(r) \/ Fail(r)
      PROVE  Inv'
  BY <1>6, UpdateCommitKeeps, DeleteCommitKeeps, SaveLockKeeps, SaveCommitKeeps, FailKeeps
<1>7. CASE ExportStudents \/ ExportProblems \/ ExportCodes \/ ExportArchive
  BY <1>7, ExportKeeps
<1>8. CASE ExamMoves
  BY <1>8, ExamMovesKeeps
<1>9. ASSUME NEW s \in Student, LoginCheck(s) \/ LoginCommit(s) \/ submit_exam(s) \/ force_submit(s)
      PROVE  Inv'
  BY <1>9, LoginCheckKeeps, LoginCommitKeeps, HandInKeeps
<1>10. ASSUME NEW s \in Student, Connect(s) \/ Disconnect(s) \/ List(s) PROVE Inv'
  BY <1>10, ConnKeeps, ListKeeps
<1>11. CASE Restart
  BY <1>11, RestartKeeps
<1>12. CASE UNCHANGED vars
  BY <1>12 DEF vars, db, clients, history, Inv, Typed, RequestsOK, TablesOK, ClientsOK, ExportOK,
     HistoryOK, Entered, Heard, Answering, Telling, CodesHaveProblems, SaversWrite,
     OverIsOver, ReadIsKept, Complete
<1> QED BY <1>1, <1>2, <1>3, <1>4, <1>5, <1>6, <1>7, <1>8, <1>9, <1>10, <1>11, <1>12 DEF Next

LEMMA Invariance == Spec => []Inv
BY InvInit, InvStep, PTL DEF Spec

\* Every variable keeps its type, with what each request in flight must carry.
THEOREM TypeCorrect == Spec => []TypeOK
BY Invariance, InvTypes, PTL

LEMMA InvHeard == Inv => NewProblemIsHeard
BY DEF Inv, Heard, Answering, Telling, NewProblemIsHeard

\* Once create_problem is done every client that has listed the problems knows of it,
\* unless one of the four causes made a broadcast pass it over since its last list.
THEOREM EverybodyHears == Spec => []NewProblemIsHeard
BY Invariance, InvHeard, PTL

\* Only two steps write a row, and only an update may leave one that cannot be marked.
LEMMA StepMarks ==
  ASSUME Inv, [Next]_vars, NEW p \in Problem,
         bank'[p] # bank[p], bank'[p] # None, ~Markable(bank'[p])
  PROVE  \E r \in Req : req[r].pc = "updating" /\ req[r].problem = p /\ req[r].saw # bank[p]
<1>1. ASSUME NEW r \in Req, CreateCommit(r) PROVE FALSE
  <2>1. Markable(req[r].saw)
    BY <1>1 DEF CreateCommit, Inv, Typed, RequestsOK, Sound
  <2>2. bank'[p] = bank[p] \/ bank'[p] = req[r].saw
    BY <1>1 DEF CreateCommit, Inv, Typed, TablesOK
  <2> QED BY <2>1, <2>2
<1>2. ASSUME NEW r \in Req, UpdateCommit(r)
      PROVE  req[r].pc = "updating" /\ req[r].problem = p /\ req[r].saw # bank[p]
  BY <1>2, UpdateCommitKeeps
<1>3. ASSUME NEW r \in Req, DeleteCommit(r) PROVE FALSE
  BY <1>3, DeleteCommitKeeps
<1>4. ASSUME NEW r \in Req,
             \/ \E row \in Rows : CreateLoad(r, row)
             \/ \E q \in Problem, type \in Type \cup {Unset}, options \in Options \cup {Unset} :
                  UpdateLoad(r, q, type, options)
             \/ \E q \in Problem : DeleteLoad(r, q)
             \/ \E s \in Student, q \in Problem : SaveStart(r, s, q)
      PROVE  bank' = bank
  BY <1>4 DEF Start, CreateLoad, UpdateLoad, DeleteLoad, SaveStart, db
<1>5. ASSUME NEW r \in Req, BroadcastSelect(r) \/ BroadcastSend(r) \/ SaveLock(r) \/ SaveCommit(r) \/ Fail(r)
      PROVE  bank' = bank
  BY <1>5 DEF BroadcastSelect, BroadcastSend, SaveLock, SaveCommit, Fail, db
<1>6. ASSUME ExportStudents \/ ExportProblems \/ ExportCodes \/ ExportArchive \/ ExamMoves \/ Restart
      PROVE  bank' = bank
  BY <1>6 DEF ExportStudents, ExportProblems, ExportCodes, ExportArchive, ExamMoves, Restart, db
<1>7. ASSUME NEW s \in Student,
             LoginCheck(s) \/ LoginCommit(s) \/ submit_exam(s) \/ force_submit(s)
      PROVE  bank' = bank
  BY <1>7 DEF LoginCheck, LoginCommit, submit_exam, force_submit, HandedIn, db
<1>8. ASSUME NEW s \in Student, Connect(s) \/ Disconnect(s) \/ List(s)
      PROVE  bank' = bank
  BY <1>8 DEF Connect, Disconnect, List, db
<1>9. UNCHANGED vars => bank' = bank
  BY DEF vars, db
<1>10. \E r \in Req : CreateCommit(r) \/ UpdateCommit(r) \/ DeleteCommit(r)
  BY <1>4, <1>5, <1>6, <1>7, <1>8, <1>9 DEF Next
<1> QED BY <1>1, <1>2, <1>3, <1>10

\* However requests overlap, a choice problem that cannot be marked comes only from
\* an update that validated it against a row that has changed since.
THEOREM MarkableButForStaleReads == Spec => OnlyStaleReadsBreak
<1>1. Inv /\ [Next]_vars =>
        [\A p \in Problem :
           bank'[p] # bank[p] /\ bank'[p] # None /\ ~Markable(bank'[p]) =>
             \E r \in Req : req[r].pc = "updating" /\ req[r].problem = p /\ req[r].saw # bank[p]]_vars
  BY StepMarks
<1> QED BY <1>1, Invariance, PTL DEF Spec, OnlyStaleReadsBreak

LEMMA StepArchives ==
  ASSUME Inv, ExportArchive, NEW s \in generate_exam_export.over \ unsettled, NEW p \in Problem,
         bank[p] # None
  PROVE  <<s, p>> \in codes <=> \E f \in generate_exam_export.files : f.who = s /\ f.of = p
<1>1. s \in export.over \ unsettled /\ export.pc = "codes"
  BY DEF generate_exam_export, ExportArchive
<1>2. <<s, p>> \in codes <=> <<s, p>> \in export.codes
  BY <1>1 DEF Inv, ReadIsKept, Complete
<1>3. \A c \in export.codes : c = <<c[1], c[2]>>
  BY DEF Inv, Typed, ExportOK
<1>4. generate_exam_export.files =
        {[who |-> c[1], of |-> c[2], named |-> c[2] \in export.problems] : c \in export.codes}
  BY DEF generate_exam_export
<1>5. ASSUME <<s, p>> \in export.codes
      PROVE  \E f \in generate_exam_export.files : f.who = s /\ f.of = p
  <2> DEFINE c == <<s, p>>
             f == [who |-> c[1], of |-> c[2], named |-> c[2] \in export.problems]
  <2>1. f \in generate_exam_export.files
    BY <1>4, <1>5
  <2>2. f.who = s /\ f.of = p
    OBVIOUS
  <2> QED BY <2>1, <2>2
<1>6. ASSUME NEW f \in generate_exam_export.files, f.who = s, f.of = p
      PROVE  <<s, p>> \in export.codes
  BY <1>3, <1>4, <1>6
<1> QED BY <1>2, <1>5, <1>6

\* Whom an archive lists as handed in, it has with every code he has, unless a save
\* overlapped his hand-in, a login opened the paper again or the problem was deleted.
THEOREM ArchiveIsComplete == Spec => HandedInIsComplete
<1>1. Inv /\ [Next]_vars =>
        [ExportArchive =>
           \A s \in generate_exam_export.over \ unsettled, p \in Problem :
             bank[p] # None =>
               (<<s, p>> \in codes <=>
                  \E f \in generate_exam_export.files : f.who = s /\ f.of = p)]_vars
  BY StepArchives
<1> QED BY <1>1, Invariance, PTL DEF Spec, HandedInIsComplete
=============================================================================
