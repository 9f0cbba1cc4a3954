------------------------- MODULE AdminAccounts_proofs -----------------------
(***************************************************************************)
(* Proofs about AdminAccounts, for any number of accounts and requests.   *)
(***************************************************************************)
EXTENDS AdminAccounts, FiniteSetTheorems, TLAPS

Kinds == {"update", "create", "deactivate", "activate", "delete"}
Request == [pc : {"idle", "authorized", "counting", "ready"}, me : Admin \cup {None},
            who : Admin \cup {None}, op : Ops \cup {None}, saw : Accounts \cup {None}]
Active(r) == req[r].pc # "idle"

\* A request in flight knows who asks for what; past its load it has a row in its
\* session, but for a creation.
Carries(q) == q.pc # "idle" =>
  /\ q.me \in Admin /\ q.who \in Admin /\ q.op \in Ops
  /\ q.pc = "counting" \/ (q.pc = "ready" /\ q.op.kind # "create") => q.saw \in Accounts

Typed ==
  /\ acct \in [Admin -> Accounts \cup {None}]
  /\ used \subseteq Admin /\ \A a \in Admin : acct[a] # None => a \in used
  /\ process \in {"down", "up", "failed"}
  /\ req \in [Req -> Request] /\ \A r \in Req : Carries(req[r])
  /\ \A r \in Req : Active(r) => req[r].me \in used
  /\ started \in Nat /\ alone \in BOOLEAN

\* Nothing is in flight while the process does not run.
UpWhenActive == \A r \in Req : Active(r) => process = "up"
OneAtATime == alone => \A q, r \in Req : Active(q) /\ Active(r) => q = r

\* What an only request knows is what is: who asks is a super administrator, the row
\* is as loaded, and what is about to be committed leaves one.
Current(r) ==
  LET q == req[r] IN
  /\ q.me \in ActiveSupers
  /\ q.pc = "authorized" => q.saw = acct[q.me]
  /\ q.pc = "counting" \/ (q.pc = "ready" /\ q.op.kind # "create") =>
       q.saw = acct[q.who] /\ ~SelfProtected(q.op, q.me, q.who)
  /\ q.pc = "counting" => q.op.kind = "update"
  /\ q.pc = "ready" /\ NeedsCount(q.op, q.saw) => Cardinality(ActiveSupers) > 1
AllCurrent == alone => \A r \in Req : Active(r) => Current(r)

Inv == /\ Typed /\ UpWhenActive /\ OneAtATime /\ AllCurrent
       /\ AlwaysASuper /\ FailsOnlyOnSecondSuper

---------------------------------------------------------------------------
LEMMA IdleIsFine == Idle \in Request /\ Carries(Idle) /\ Idle.pc = "idle"
BY DEF Idle, At, Request, Carries

LEMMA InvInit == Init => Inv
<1> SUFFICES ASSUME Init PROVE Inv
  OBVIOUS
<1>1. \A r \in Req : req[r] = Idle /\ ~Active(r)
  BY IdleIsFine DEF Init, Active
<1>2. Typed
  BY <1>1, IdleIsFine DEF Init, Typed, Active
<1> QED BY <1>1, <1>2 DEF Init, Inv, UpWhenActive, OneAtATime, AllCurrent, AlwaysASuper,
                          FailsOnlyOnSecondSuper

LEMMA InvTypes == Inv => TypeOK
BY DEF Inv, Typed, Carries, Active, TypeOK

\* What the operations of the routes leave open.
LEMMA Fields ==
  ASSUME NEW op \in Ops
  PROVE  /\ op.kind \in Kinds /\ op.role \in Role \cup {None} /\ op.active \in BOOLEAN \cup {None}
         /\ op.kind = "create" => op.role \in Role
         /\ op.kind = "activate" => op.role = None /\ op.active = TRUE
<1> DEFINE updates == {Op("update", role, active) : role \in Role \cup {None}, active \in BOOLEAN \cup {None}}
           creates == {Op("create", role, TRUE) : role \in Role}
           others == {Op("deactivate", None, FALSE), Op("activate", None, TRUE), Op("delete", None, None)}
<1>1. CASE op \in updates
  <2>1. PICK role \in Role \cup {None}, active \in BOOLEAN \cup {None} : op = Op("update", role, active)
    BY <1>1
  <2> QED BY <2>1 DEF Op, Kinds
<1>2. CASE op \in creates
  <2>1. PICK role \in Role : op = Op("create", role, TRUE)
    BY <1>2
  <2> QED BY <2>1 DEF Op, Kinds
<1>3. CASE op \in others
  <2>1. CASE op = Op("deactivate", None, FALSE)
    BY <2>1 DEF Op, Kinds
  <2>2. CASE op = Op("activate", None, TRUE)
    BY <2>2 DEF Op, Kinds
  <2>3. CASE op = Op("delete", None, None)
    BY <2>3 DEF Op, Kinds
  <2> QED BY <1>3, <2>1, <2>2, <2>3
<1>4. Ops = updates \cup creates \cup others
  BY DEF Ops
<1> HIDE DEF updates, creates, others
<1> QED BY <1>1, <1>2, <1>3, <1>4

\* Two or more leave one when one of them goes.
LEMMA SomebodyElse ==
  ASSUME NEW me \in ActiveSupers, Cardinality(ActiveSupers) > 1
  PROVE  \E a \in ActiveSupers : a # me
<1> SUFFICES ASSUME ActiveSupers = {me} PROVE FALSE
  OBVIOUS
<1>1. Cardinality({me}) = 1
  BY FS_Singleton
<1> QED BY <1>1

---------------------------------------------------------------------------
Only(r) == /\ req' = [q \in Req |-> req'[q]]
           /\ \A q \in Req \ {r} : req'[q] = req[q]

LEMMA GotoStep ==
  ASSUME Inv, NEW r \in Req, NEW pc, NEW saw, Goto(r, pc, saw)
  PROVE  Only(r) /\ req'[r] = At(pc, req[r].me, req[r].who, req[r].op, saw)
BY DEF Goto, Only, Inv, Typed

LEMMA FinishStep ==
  ASSUME Inv, NEW r \in Req, Finish(r)
  PROVE  Only(r) /\ req'[r] = Idle /\ ~Active(r)'
<1>1. Only(r) /\ req'[r] = Idle
  BY DEF Finish, Only, Inv, Typed
<1> QED BY <1>1, IdleIsFine DEF Active

\* A request goes on or ends, and the accounts are as they were.
LEMMA GoesOn ==
  ASSUME Inv, NEW r \in Req, Active(r), Only(r), UNCHANGED <<acct, used, process, counters>>,
         req'[r] \in Request, Carries(req'[r]),
         Active(r)' => req'[r].me = req[r].me,
         alone /\ Active(r)' => Current(r)'
  PROVE  Inv'
<1>1. \A q \in Req : req'[q] \in Request /\ Carries(req'[q])
  BY DEF Only, Inv, Typed
<1>2. \A q \in Req : Active(q)' => Active(q) /\ req'[q].me = req[q].me
  BY DEF Only, Active
<1>3. Typed'
  <2>1. req' \in [Req -> Request]
    BY <1>1 DEF Only
  <2> QED BY <1>1, <1>2, <2>1 DEF Inv, Typed, counters
<1>4. UpWhenActive' /\ OneAtATime'
  BY <1>2 DEF Inv, UpWhenActive, OneAtATime, counters
<1>5. AllCurrent'
  <2> SUFFICES ASSUME alone, NEW q \in Req, Active(q)' PROVE Current(q)'
    BY DEF AllCurrent, counters
  <2>1. q = r
    BY <1>2 DEF Inv, OneAtATime
  <2> QED BY <2>1
<1>6. AlwaysASuper' /\ FailsOnlyOnSecondSuper'
  BY DEF Inv, AlwaysASuper, FailsOnlyOnSecondSuper, ActiveSupers, Supers, counters
<1> QED BY <1>3, <1>4, <1>5, <1>6 DEF Inv

LEMMA GivesUp ==
  ASSUME Inv, NEW r \in Req, Active(r), Finish(r), UNCHANGED <<acct, used, process, counters>>
  PROVE  Inv'
BY FinishStep, IdleIsFine, GoesOn

\* A request ends and has changed accounts; when it was alone somebody is left.
LEMMA Commits ==
  ASSUME Inv, NEW r \in Req, Active(r), Finish(r), UNCHANGED <<process, counters>>,
         acct' \in [Admin -> Accounts \cup {None}],
         used \subseteq used', used' \subseteq Admin,
         \A a \in Admin : acct'[a] # None => a \in used',
         alone => ActiveSupers' # {}
  PROVE  Inv'
<1>1. Only(r) /\ req'[r] = Idle /\ ~Active(r)'
  BY FinishStep
<1>2. \A q \in Req : Active(q)' => Active(q) /\ q # r /\ req'[q] = req[q]
  BY <1>1 DEF Only, Active
<1>3. Typed'
  <2>1. \A q \in Req : req'[q] \in Request /\ Carries(req'[q])
    BY <1>1, IdleIsFine DEF Only, Inv, Typed
  <2>2. req' \in [Req -> Request]
    BY <1>1, <2>1 DEF Only
  <2> QED BY <1>2, <2>1, <2>2 DEF Inv, Typed, counters
<1>4. UpWhenActive' /\ OneAtATime'
  BY <1>2 DEF Inv, UpWhenActive, OneAtATime, counters
<1>5. AllCurrent'
  BY <1>2 DEF Inv, OneAtATime, AllCurrent, counters
<1>6. AlwaysASuper' /\ FailsOnlyOnSecondSuper'
  BY DEF Inv, UpWhenActive, AlwaysASuper, FailsOnlyOnSecondSuper, counters
<1> QED BY <1>3, <1>4, <1>5, <1>6 DEF Inv

---------------------------------------------------------------------------
LEMMA AuthorizeKeeps ==
  ASSUME Inv, NEW r \in Req, NEW me \in Admin, NEW who \in Admin, NEW op \in Ops,
         Authorize(r, me, who, op)
  PROVE  Inv'
<1>1. /\ process = "up" /\ ~Active(r) /\ me \in ActiveSupers
      /\ started' = started + 1 /\ UNCHANGED <<acct, used, process>>
      /\ alone' = (alone /\ \A q \in Req : ~Active(q))
  BY DEF Authorize, Active
<1>2. Only(r) /\ req'[r] = At("authorized", me, who, op, acct[me])
  BY DEF Authorize, Only, Inv, Typed
<1>3. acct[me] \in Accounts \cup {None} /\ me \in used
  BY <1>1 DEF Inv, Typed, ActiveSupers, Supers
<1>4. /\ req'[r].pc = "authorized" /\ req'[r].me = me /\ req'[r].saw = acct[me]
      /\ req'[r] \in Request /\ Carries(req'[r])
  BY <1>2, <1>3 DEF At, Request, Carries
<1>5. Typed'
  <2>1. \A q \in Req : req'[q] \in Request /\ Carries(req'[q])
    BY <1>2, <1>4 DEF Only, Inv, Typed
  <2>2. req' \in [Req -> Request]
    BY <1>2, <2>1 DEF Only
  <2>3. \A q \in Req : Active(q)' => req'[q].me \in used'
    BY <1>1, <1>2, <1>3, <1>4 DEF Only, Inv, Typed, Active
  <2>4. started' \in Nat /\ alone' \in BOOLEAN
    BY <1>1 DEF Inv, Typed
  <2> QED BY <1>1, <2>1, <2>2, <2>3, <2>4 DEF Inv, Typed
<1>6. UpWhenActive'
  BY <1>1 DEF UpWhenActive
<1>7. alone' => \A q \in Req : Active(q)' => q = r
  BY <1>1, <1>2 DEF Only, Active
<1>8. OneAtATime'
  BY <1>7 DEF OneAtATime
<1>9. AllCurrent'
  <2>1. Current(r)'
    BY <1>1, <1>4 DEF Current, ActiveSupers, Supers
  <2> QED BY <1>7, <2>1 DEF AllCurrent
<1>10. AlwaysASuper' /\ FailsOnlyOnSecondSuper'
  BY <1>1 DEF Inv, AlwaysASuper, FailsOnlyOnSecondSuper, ActiveSupers, Supers
<1> QED BY <1>5, <1>6, <1>8, <1>9, <1>10 DEF Inv

LEMMA LoadTargetKeeps ==
  ASSUME Inv, NEW r \in Req, LoadTarget(r)
  PROVE  Inv'
<1> DEFINE q == req[r]
           op == q.op
           target == IF q.who = q.me THEN q.saw ELSE acct[q.who]
           refused == IF op.kind = "create" THEN q.who \in used
                      ELSE target = None \/ SelfProtected(op, q.me, q.who)
<1>1. /\ q.pc = "authorized" /\ Active(r) /\ UNCHANGED <<acct, used, process, counters>>
      /\ \/ refused /\ Finish(r)
         \/ ~refused /\ NeedsCount(op, target) /\ Goto(r, "counting", target)
         \/ ~refused /\ ~NeedsCount(op, target) /\ Goto(r, "ready", target)
  BY DEF LoadTarget, Active
<1>2. /\ q \in Request /\ q.me \in Admin /\ q.who \in Admin /\ op \in Ops
      /\ target \in Accounts \cup {None}
  BY <1>1 DEF Inv, Typed, Carries, Request
<1>3. CASE refused /\ Finish(r)
  BY <1>1, <1>3, GivesUp
<1>4. ASSUME NEW pc \in {"counting", "ready"}, ~refused, Goto(r, pc, target),
             pc = "counting" <=> NeedsCount(op, target)
      PROVE  Inv'
  <2>1. Only(r) /\ req'[r] = At(pc, q.me, q.who, op, target)
    BY <1>4, GotoStep
  <2>2. /\ req'[r].pc = pc /\ req'[r].me = q.me /\ req'[r].who = q.who
        /\ req'[r].op = op /\ req'[r].saw = target /\ req'[r] \in Request
    BY <1>2, <2>1 DEF At, Request
  <2>3. pc = "counting" => op.kind = "update"
    BY <1>4 DEF NeedsCount
  <2>4. op.kind # "create" => target \in Accounts /\ ~SelfProtected(op, q.me, q.who)
    BY <1>2, <1>4
  <2>5. Carries(req'[r])
    BY <1>2, <2>2, <2>3, <2>4 DEF Carries
  <2>6. ASSUME alone PROVE Current(r)'
    <3>1. q.me \in ActiveSupers /\ q.saw = acct[q.me]
      BY <1>1, <2>6 DEF Inv, AllCurrent, Current
    <3>2. target = acct[q.who]
      BY <3>1
    <3> QED BY <1>1, <1>4, <2>2, <2>3, <2>4, <3>1, <3>2 DEF Current, ActiveSupers, Supers
  <2> QED BY <1>1, <2>1, <2>2, <2>5, <2>6, GoesOn
<1> HIDE DEF target, refused
<1> QED BY <1>1, <1>3, <1>4

LEMMA CountKeeps ==
  ASSUME Inv, NEW r \in Req, Count(r)
  PROVE  Inv'
<1>1. /\ req[r].pc = "counting" /\ Active(r) /\ UNCHANGED <<acct, used, process, counters>>
      /\ req[r] \in Request /\ Carries(req[r])
  BY DEF Count, Active, Inv, Typed
<1>2. CASE Cardinality(ActiveSupers) <= 1 /\ Finish(r)
  BY <1>1, <1>2, GivesUp
<1>3. CASE Cardinality(ActiveSupers) > 1 /\ Goto(r, "ready", req[r].saw)
  <2>1. Only(r) /\ req'[r] = At("ready", req[r].me, req[r].who, req[r].op, req[r].saw)
    BY <1>3, GotoStep
  <2>2. /\ req'[r].pc = "ready" /\ req'[r].me = req[r].me /\ req'[r].who = req[r].who
        /\ req'[r].op = req[r].op /\ req'[r].saw = req[r].saw /\ req'[r] \in Request
    BY <1>1, <2>1 DEF At, Request
  <2>3. Carries(req'[r])
    BY <1>1, <2>2 DEF Carries
  <2>4. ASSUME alone PROVE Current(r)'
    <3>1. Current(r)
      BY <1>1, <2>4 DEF Inv, AllCurrent
    <3>2. ActiveSupers' = ActiveSupers
      BY <1>1 DEF ActiveSupers, Supers
    <3> QED BY <1>1, <1>3, <2>2, <3>1, <3>2 DEF Current
  <2> QED BY <1>1, <2>1, <2>2, <2>3, <2>4, GoesOn
<1> QED BY <1>2, <1>3 DEF Count

---------------------------------------------------------------------------
\* The row an update leaves behind: columns as asked for or as they are.
LEMMA MergedRow ==
  ASSUME NEW op \in Ops, NEW saw \in Accounts, NEW current \in Accounts
  PROVE  LET row == Merged(saw, Wanted(op, saw), current) IN
         /\ row \in Accounts
         /\ row.role = current.role \/ (op.role # None /\ op.role # saw.role /\ row.role = op.role)
         /\ row.active = current.active \/ (op.active # None /\ row.active = op.active)
<1> DEFINE wanted == Wanted(op, saw)
           row == Merged(saw, wanted, current)
<1>1. /\ op.role \in Role \cup {None} /\ op.active \in BOOLEAN \cup {None}
      /\ saw.role \in Role /\ saw.active \in BOOLEAN
      /\ current.role \in Role /\ current.active \in BOOLEAN
  BY Fields DEF Accounts
<1>2. wanted.role = GivenOr(op.role, saw.role) /\ wanted.active = GivenOr(op.active, saw.active)
  BY DEF Wanted, Account
<1>3. /\ row = Account(Column(saw.role, wanted.role, current.role),
                       Column(saw.active, wanted.active, current.active))
      /\ row.role = Column(saw.role, wanted.role, current.role)
      /\ row.active = Column(saw.active, wanted.active, current.active)
  BY DEF Merged, Account
<1> HIDE DEF wanted, row
<1>4. /\ row.role \in Role
      /\ row.role = current.role \/ (op.role # None /\ op.role # saw.role /\ row.role = op.role)
  BY <1>1, <1>2, <1>3 DEF Column, GivenOr
<1>5. /\ row.active \in BOOLEAN
      /\ row.active = current.active \/ (op.active # None /\ row.active = op.active)
  BY <1>1, <1>2, <1>3 DEF Column, GivenOr
<1>6. row \in Accounts
  BY <1>3, <1>4, <1>5 DEF Account, Accounts
<1> QED BY <1>4, <1>5, <1>6 DEF row, wanted

\* What CommitChange does to the one row it may touch.
LEMMA ChangeStep ==
  ASSUME Inv, NEW r \in Req, CommitChange(r)
  PROVE  LET q == req[r] IN
         /\ q.pc = "ready" /\ q.op.kind \in {"update", "deactivate", "activate"}
         /\ q \in Request /\ q.me \in Admin /\ q.who \in Admin /\ q.op \in Ops
         /\ Finish(r) /\ UNCHANGED <<used, process, counters>>
         /\ acct' \in [Admin -> Accounts \cup {None}]
         /\ \A a \in Admin \ {q.who} : acct'[a] = acct[a]
         /\ acct[q.who] = None => acct'[q.who] = None
         /\ acct[q.who] # None =>
              /\ acct'[q.who] \in Accounts
              /\ \/ acct'[q.who].role = acct[q.who].role
                 \/ q.op.role # None /\ q.op.role # q.saw.role /\ acct'[q.who].role = q.op.role
              /\ \/ acct'[q.who].active = acct[q.who].active
                 \/ q.op.active # None /\ acct'[q.who].active = q.op.active
<1> DEFINE q == req[r]
<1>1. /\ q.pc = "ready" /\ q.op.kind \in {"update", "deactivate", "activate"}
      /\ Finish(r) /\ UNCHANGED <<used, process, counters>>
      /\ acct' = [acct EXCEPT ![q.who] =
           IF @ = None THEN None ELSE Merged(q.saw, Wanted(q.op, q.saw), @)]
  BY DEF CommitChange
<1>2. q \in Request /\ q.me \in Admin /\ q.who \in Admin /\ q.op \in Ops /\ q.saw \in Accounts
  BY <1>1 DEF Inv, Typed, Carries
<1>3. acct \in [Admin -> Accounts \cup {None}]
  BY DEF Inv, Typed
<1> HIDE DEF q
<1>4. /\ \A a \in Admin \ {q.who} : acct'[a] = acct[a]
      /\ acct[q.who] = None => acct'[q.who] = None
      /\ acct[q.who] # None => acct'[q.who] = Merged(q.saw, Wanted(q.op, q.saw), acct[q.who])
      /\ acct' = [a \in Admin |-> acct'[a]]
  BY <1>1, <1>2, <1>3
<1>5. acct[q.who] # None =>
        /\ acct'[q.who] \in Accounts
        /\ \/ acct'[q.who].role = acct[q.who].role
           \/ q.op.role # None /\ q.op.role # q.saw.role /\ acct'[q.who].role = q.op.role
        /\ \/ acct'[q.who].active = acct[q.who].active
           \/ q.op.active # None /\ acct'[q.who].active = q.op.active
  BY <1>2, <1>3, <1>4, MergedRow
<1>6. acct' \in [Admin -> Accounts \cup {None}]
  BY <1>2, <1>3, <1>4, <1>5
<1> QED BY <1>1, <1>2, <1>4, <1>5, <1>6 DEF q

LEMMA CommitChangeKeeps ==
  ASSUME Inv, NEW r \in Req, CommitChange(r)
  PROVE  Inv'
<1> DEFINE q == req[r]
<1>1. /\ q.pc = "ready" /\ q.op.kind \in {"update", "deactivate", "activate"}
      /\ q \in Request /\ q.me \in Admin /\ q.who \in Admin /\ q.op \in Ops
      /\ Finish(r) /\ UNCHANGED <<used, process, counters>>
      /\ acct' \in [Admin -> Accounts \cup {None}]
      /\ \A a \in Admin \ {q.who} : acct'[a] = acct[a]
      /\ acct[q.who] = None => acct'[q.who] = None
      /\ acct[q.who] # None =>
           /\ acct'[q.who] \in Accounts
           /\ \/ acct'[q.who].role = acct[q.who].role
              \/ q.op.role # None /\ q.op.role # q.saw.role /\ acct'[q.who].role = q.op.role
           /\ \/ acct'[q.who].active = acct[q.who].active
              \/ q.op.active # None /\ acct'[q.who].active = q.op.active
  BY ChangeStep
<1>2. Active(r)
  BY <1>1 DEF Active
<1>3. \A a \in Admin : acct'[a] # None => a \in used'
  BY <1>1 DEF Inv, Typed
<1>4. ASSUME alone PROVE ActiveSupers' # {}
  <2>1. Current(r)
    BY <1>2, <1>4 DEF Inv, AllCurrent
  <2>2. /\ q.me \in ActiveSupers /\ q.saw = acct[q.who] /\ ~SelfProtected(q.op, q.me, q.who)
        /\ NeedsCount(q.op, q.saw) => Cardinality(ActiveSupers) > 1
    BY <1>1, <2>1 DEF Current
  <2> HIDE DEF q
  <2>3. \A a \in ActiveSupers : a # q.who => a \in ActiveSupers'
    BY <1>1 DEF ActiveSupers, Supers
  <2>4. CASE q.who # q.me
    BY <2>2, <2>3, <2>4
  <2>5. CASE q.who = q.me /\ NeedsCount(q.op, q.saw)
    <3>1. PICK a \in ActiveSupers : a # q.me
      BY <2>2, <2>5, SomebodyElse
    <3> QED BY <2>3, <2>5, <3>1
  <2>6. CASE q.who = q.me /\ ~NeedsCount(q.op, q.saw)
    <3>1. /\ acct[q.who] # None /\ acct[q.who].role = "super_admin" /\ acct[q.who].active
          /\ acct[q.who] \in Accounts
      BY <1>1, <2>2, <2>6 DEF ActiveSupers, Supers, Inv, Typed
    <3>2. acct'[q.who].role = "super_admin"
      <4>1. q.op.kind \in {"deactivate", "activate"} => q.op.role = None
        BY <1>1 DEF Ops, Op
      <4> QED BY <1>1, <2>2, <2>6, <3>1, <4>1 DEF NeedsCount
    <3>3. q.op.active = TRUE \/ q.op.active = None
      <4>1. q.op.kind # "deactivate" /\ (q.op.kind = "update" => q.op.active # FALSE)
        BY <2>2, <2>6 DEF SelfProtected
      <4> QED BY <1>1, <4>1, Fields
    <3>4. acct'[q.who].active
      BY <1>1, <3>1, <3>3
    <3>5. acct'[q.who] # None
      BY <1>1, <3>1, AccountAssumption DEF Accounts
    <3> QED BY <1>1, <3>2, <3>4, <3>5 DEF ActiveSupers, Supers
  <2> QED BY <2>4, <2>5, <2>6
<1> QED BY <1>1, <1>2, <1>3, <1>4, Commits DEF Inv, Typed

LEMMA CommitDeleteKeeps ==
  ASSUME Inv, NEW r \in Req, CommitDelete(r)
  PROVE  Inv'
<1>1. /\ req[r].pc = "ready" /\ req[r].op.kind = "delete" /\ Active(r)
      /\ acct' = [acct EXCEPT ![req[r].who] = None]
      /\ Finish(r) /\ UNCHANGED <<used, process, counters>>
  BY DEF CommitDelete, Active
<1>2. req[r].who \in Admin /\ acct \in [Admin -> Accounts \cup {None}]
  BY <1>1 DEF Inv, Typed, Carries
<1>3. /\ acct' \in [Admin -> Accounts \cup {None}]
      /\ \A a \in Admin \ {req[r].who} : acct'[a] = acct[a]
      /\ acct'[req[r].who] = None
  BY <1>1, <1>2
<1>4. \A a \in Admin : acct'[a] # None => a \in used'
  BY <1>1, <1>3 DEF Inv, Typed
<1>5. ASSUME alone PROVE ActiveSupers' # {}
  <2>1. Current(r)
    BY <1>1, <1>5 DEF Inv, AllCurrent
  <2>2. req[r].me \in ActiveSupers /\ ~SelfProtected(req[r].op, req[r].me, req[r].who)
    BY <1>1, <2>1 DEF Current
  <2>3. req[r].me # req[r].who
    BY <1>1, <2>2 DEF SelfProtected
  <2>4. req[r].me \in ActiveSupers'
    BY <1>3, <2>2, <2>3 DEF ActiveSupers, Supers
  <2> QED BY <2>4
<1> QED BY <1>1, <1>3, <1>4, <1>5, Commits DEF Inv, Typed

LEMMA CommitCreateKeeps ==
  ASSUME Inv, NEW r \in Req, CommitCreate(r)
  PROVE  Inv'
<1> DEFINE new == Account(req[r].op.role, TRUE)
<1>1. /\ req[r].pc = "ready" /\ req[r].op.kind = "create" /\ Active(r)
      /\ acct' = IF req[r].who \in used THEN acct ELSE [acct EXCEPT ![req[r].who] = new]
      /\ used' = used \cup {req[r].who}
      /\ Finish(r) /\ UNCHANGED <<process, counters>>
  BY DEF CommitCreate, Active
<1>2. req[r].who \in Admin /\ req[r].op \in Ops /\ acct \in [Admin -> Accounts \cup {None}]
  BY <1>1 DEF Inv, Typed, Carries
<1>3. new \in Accounts
  BY <1>1, <1>2, Fields DEF Account, Accounts
<1> HIDE DEF new
<1>4. /\ acct' \in [Admin -> Accounts \cup {None}]
      /\ \A a \in Admin : acct'[a] = acct[a] \/ (a = req[r].who /\ a \notin used)
  BY <1>1, <1>2, <1>3
<1>5. \A a \in Admin : acct'[a] # None => a \in used'
  BY <1>1, <1>4 DEF Inv, Typed
<1>6. ASSUME alone PROVE ActiveSupers' # {}
  <2>1. req[r].me \in ActiveSupers
    BY <1>1, <1>6 DEF Inv, AllCurrent, Current
  <2>2. req[r].me \in used
    BY <1>1 DEF Inv, Typed
  <2>3. req[r].me \in ActiveSupers'
    BY <1>4, <2>1, <2>2 DEF ActiveSupers, Supers
  <2> QED BY <2>3
<1> QED BY <1>1, <1>2, <1>4, <1>5, <1>6, Commits DEF Inv, Typed

---------------------------------------------------------------------------
LEMMA StartKeeps ==
  ASSUME Inv, init_super_admin
  PROVE  Inv'
<1>1. process # "up" /\ UNCHANGED <<req, counters>>
  BY DEF init_super_admin
<1>2. \A r \in Req : ~Active(r) /\ ~Active(r)'
  BY <1>1 DEF Inv, UpWhenActive, Active
<1>3. UpWhenActive' /\ OneAtATime' /\ AllCurrent'
  BY <1>2 DEF UpWhenActive, OneAtATime, AllCurrent
<1>4. CASE /\ Supers = {} /\ acct[Root] = None
           /\ acct' = [acct EXCEPT ![Root] = Account("super_admin", TRUE)]
           /\ used' = used \cup {Root}
           /\ process' = "up"
  <2>1. Account("super_admin", TRUE) \in Accounts
    BY DEF Account, Accounts, Role
  <2>2. /\ acct'[Root] = Account("super_admin", TRUE)
        /\ acct' \in [Admin -> Accounts \cup {None}]
        /\ \A a \in Admin \ {Root} : acct'[a] = acct[a]
    BY <1>4, <2>1, RootAssumption DEF Inv, Typed
  <2>3. Typed'
    BY <1>1, <1>2, <1>4, <2>2, RootAssumption DEF Inv, Typed, counters
  <2>4. Root \in ActiveSupers'
    <3>1. acct'[Root] # None
      BY <2>1, <2>2, AccountAssumption DEF Accounts
    <3>2. acct'[Root].role = "super_admin" /\ acct'[Root].active = TRUE
      BY <2>2 DEF Account
    <3> QED BY <3>1, <3>2, RootAssumption DEF ActiveSupers, Supers
  <2> QED BY <1>3, <1>4, <2>3, <2>4 DEF Inv, AlwaysASuper, FailsOnlyOnSecondSuper
<1>5. CASE /\ process' \in {"up", "failed"} /\ UNCHANGED <<acct, used>>
           /\ process' = "failed" =>
                (Supers = {} /\ acct[Root] # None) \/ Cardinality(Supers) > 1
  <2>1. Typed'
    BY <1>1, <1>2, <1>5 DEF Inv, Typed, counters
  <2>2. AlwaysASuper'
    BY <1>1, <1>5 DEF Inv, AlwaysASuper, ActiveSupers, Supers, counters
  <2>3. ASSUME alone, process' = "failed" PROVE Cardinality(Supers) > 1
    <3>1. CASE Supers = {} /\ acct[Root] # None
      <4>1. Root \in used
        BY <3>1, RootAssumption DEF Inv, Typed
      <4> QED BY <2>3, <3>1, <4>1 DEF Inv, AlwaysASuper, ActiveSupers
    <3> QED BY <1>5, <2>3, <3>1
  <2>4. FailsOnlyOnSecondSuper'
    BY <1>1, <1>5, <2>3 DEF FailsOnlyOnSecondSuper, Supers, counters
  <2> QED BY <1>3, <2>1, <2>2, <2>4 DEF Inv
<1> QED BY <1>4, <1>5 DEF init_super_admin

LEMMA StopKeeps ==
  ASSUME Inv, Stop
  PROVE  Inv'
<1>1. process' = "down" /\ UNCHANGED <<acct, used, counters>> /\ req' = [r \in Req |-> Idle]
  BY DEF Stop
<1>2. \A r \in Req : req'[r] = Idle /\ ~Active(r)'
  BY <1>1, IdleIsFine DEF Active
<1>3. Typed'
  BY <1>1, <1>2, IdleIsFine DEF Inv, Typed, counters
<1> QED BY <1>1, <1>2, <1>3 DEF Inv, UpWhenActive, OneAtATime, AllCurrent, AlwaysASuper,
                                FailsOnlyOnSecondSuper, ActiveSupers, Supers, counters

LEMMA InvStep == Inv /\ [Next]_vars => Inv'
<1> SUFFICES ASSUME Inv, [Next]_vars PROVE Inv'
  OBVIOUS
<1>1. ASSUME NEW r \in Req, NEW me \in Admin, NEW who \in Admin, NEW op \in Ops,
             Authorize(r, me, who, op)
      PROVE  Inv'
  BY <1>1, AuthorizeKeeps
<1>2. ASSUME NEW r \in Req, LoadTarget(r) \/ Count(r) PROVE Inv'
  BY <1>2, LoadTargetKeeps, CountKeeps
<1>3. ASSUME NEW r \in Req, CommitChange(r) \/ CommitDelete(r) \/ CommitCreate(r) PROVE Inv'
  BY <1>3, CommitChangeKeeps, CommitDeleteKeeps, CommitCreateKeeps
<1>4. CASE init_super_admin
  BY <1>4, StartKeeps
<1>5. CASE Stop
  BY <1>5, StopKeeps
<1>6. CASE UNCHANGED vars
  BY <1>6 DEF vars, counters, Inv, Typed, UpWhenActive, OneAtATime, AllCurrent, Current, Active,
              AlwaysASuper, FailsOnlyOnSecondSuper, ActiveSupers, Supers
<1> QED BY <1>1, <1>2, <1>3, <1>4, <1>5, <1>6 DEF Next

LEMMA Invariance == Spec => []Inv
BY InvInit, InvStep, PTL DEF Spec

\* Every variable keeps its type, and an account's name stays used.
THEOREM TypeCorrect == Spec => []TypeOK
BY Invariance, InvTypes, PTL

\* As long as requests come one at a time, somebody can always manage the accounts.
THEOREM SuperRemains == Spec => []AlwaysASuper
BY Invariance, PTL DEF Inv

\* As long as requests come one at a time, a start fails on a second super
\* administrator only.
THEOREM StartFailsOnSecond == Spec => []FailsOnlyOnSecondSuper
BY Invariance, PTL DEF Inv

---------------------------------------------------------------------------
LEMMA StepActivates ==
  ASSUME Inv, [Next]_vars, NEW a \in Admin,
         acct[a] # None, acct'[a] # None, ~acct[a].active, acct'[a].active
  PROVE  \E r \in Req : req[r].pc = "ready" /\ req[r].who = a /\ req[r].op.active = TRUE
<1>1. acct[a] \in Accounts
  BY DEF Inv, Typed
<1>2. ASSUME NEW r \in Req, CommitChange(r)
      PROVE  req[r].pc = "ready" /\ req[r].who = a /\ req[r].op.active = TRUE
  <2>1. /\ req[r].pc = "ready" /\ req[r].op \in Ops
        /\ a # req[r].who => acct'[a] = acct[a]
        /\ a = req[r].who =>
             acct'[a].active = acct[a].active
             \/ (req[r].op.active # None /\ acct'[a].active = req[r].op.active)
    BY <1>2, ChangeStep
  <2>2. a = req[r].who /\ req[r].op.active # None /\ acct'[a].active = req[r].op.active
    BY <2>1
  <2>3. req[r].op.active \in BOOLEAN
    BY <2>1, <2>2, Fields
  <2> QED BY <2>1, <2>2, <2>3
<1>3. ASSUME NEW r \in Req, CommitDelete(r) PROVE FALSE
  <2>1. acct'[a] = acct[a] \/ acct'[a] = None
    BY <1>3 DEF CommitDelete, Inv, Typed
  <2> QED BY <2>1
<1>4. ASSUME NEW r \in Req, CommitCreate(r) PROVE FALSE
  <2>1. a \in used
    BY DEF Inv, Typed
  <2>2. acct'[a] = acct[a]
    BY <1>4, <2>1 DEF CommitCreate, Inv, Typed
  <2> QED BY <2>2
<1>5. ASSUME init_super_admin PROVE FALSE
  <2>1. acct'[a] = acct[a]
    BY <1>5 DEF init_super_admin, Inv, Typed
  <2> QED BY <2>1
<1>6. \/ \E r \in Req : CommitChange(r) \/ CommitDelete(r) \/ CommitCreate(r)
      \/ init_super_admin
  BY DEF Next, vars, Authorize, LoadTarget, Count, Stop
<1> QED BY <1>2, <1>3, <1>4, <1>5, <1>6

\* However requests overlap, a deactivated account comes back only by a request that
\* asks for it.
THEOREM DeactivationHolds == Spec => BackOnlyOnRequest
<1>1. Inv /\ [Next]_vars =>
        [\A a \in Admin :
           acct[a] # None /\ acct'[a] # None /\ ~acct[a].active /\ acct'[a].active =>
             \E r \in Req : req[r].pc = "ready" /\ req[r].who = a /\ req[r].op.active = TRUE]_vars
  BY StepActivates
<1> QED BY <1>1, Invariance, PTL DEF Spec, BackOnlyOnRequest
=============================================================================
