--------------------------- MODULE AdminAccounts ----------------------------
(***************************************************************************)
(* The administrators' accounts: the routes of app/routers/admin.py that  *)
(* a super administrator manages them with, the permission check that     *)
(* runs before each (app/utils/auth.py), and init_super_admin, which runs *)
(* before the process serves anything (app/main.py).                       *)
(*                                                                         *)
(* An account is known by its user name, which is unique and never        *)
(* changes.  A request reads its own account, then its target, then       *)
(* perhaps a count, and commits, each at an await of its own and without a *)
(* lock.  All its reads go through one session, so a request about the    *)
(* caller's own account works on the row the permission check loaded.     *)
(* Passwords, names and remarks are left out: no check depends on them.   *)
(***************************************************************************)
EXTENDS Naturals, FiniteSets

CONSTANTS Admin,        \* user names
          Root,         \* settings.super_admin_username
          Req,          \* slots for requests in flight
          None,
          MaxRequests   \* bound: requests started

Role == {"super_admin", "senior_admin", "admin"}

ASSUME RootAssumption == Root \in Admin
ASSUME NoneAssumption == None \notin Admin \cup Role /\ None \notin BOOLEAN
ASSUME AccountAssumption == None \notin [role : Role, active : BOOLEAN]

VARIABLES acct,      \* each account's row, or None
          used,      \* the user names an account ever had
          process,   \* "down", "up", or "failed": the last start raised an error
          req,       \* the requests in flight
          started,   \* requests started (the bound's counter)
          alone      \* history: so far requests came one at a time

counters == <<started, alone>>
vars == <<acct, used, process, req, counters>>

Account(role, active) == [role |-> role, active |-> active]
Accounts == [role : Role, active : BOOLEAN]
Supers == {a \in Admin : acct[a] # None /\ acct[a].role = "super_admin"}
ActiveSupers == {a \in Supers : acct[a].active}

\* An operation with its body; None is a field the client left out.
Op(kind, role, active) == [kind |-> kind, role |-> role, active |-> active]
Ops == {Op("update", role, active) : role \in Role \cup {None}, active \in BOOLEAN \cup {None}}
       \cup {Op("create", role, TRUE) : role \in Role}
       \cup {Op("deactivate", None, FALSE), Op("activate", None, TRUE), Op("delete", None, None)}

\* saw: the row the handler has in its session, the caller's and then the target's
At(pc, me, who, op, saw) == [pc |-> pc, me |-> me, who |-> who, op |-> op, saw |-> saw]
Idle == At("idle", None, None, None, None)

Init ==
  /\ acct = [a \in Admin |-> None]
  /\ used = {}
  /\ process = "down"
  /\ req = [r \in Req |-> Idle]
  /\ started = 0
  /\ alone = TRUE

Goto(r, pc, saw) == req' = [req EXCEPT ![r] = At(pc, req[r].me, req[r].who, req[r].op, saw)]
Finish(r) == req' = [req EXCEPT ![r] = Idle]

---------------------------------------------------------------------------
(* Plausible faults, one for each property; Next uses none of them.       *)

\* the count takes deactivated super administrators in
Count_Inactive(r) ==
  /\ req[r].pc = "counting"
  /\ \/ Cardinality(Supers) > 1 /\ Goto(r, "ready", req[r].saw)
     \/ Cardinality(Supers) <= 1 /\ Finish(r)
  /\ UNCHANGED <<acct, used, process, counters>>

\* there is no check for the last super administrator
NeedsCount_Never(op, saw) == FALSE

\* fields the client left out are written too
Wanted_UnsetIsNull(op, saw) == Account(op.role, op.active)

\* the UPDATE writes every column
Merged_WholeRow(saw, new, current) == new

---------------------------------------------------------------------------
(* The routes *)

\* require_admin and has_permission(MANAGE_ADMINS)
Authorize(r, me, who, op) ==
  /\ process = "up"
  /\ started < MaxRequests
  /\ req[r].pc = "idle"
  /\ me \in ActiveSupers
  /\ req' = [req EXCEPT ![r] = At("authorized", me, who, op, acct[me])]
  /\ started' = started + 1
  /\ alone' = (alone /\ \A q \in Req : req[q].pc = "idle")
  /\ UNCHANGED <<acct, used, process>>

\* an account may not deactivate or delete itself
SelfProtected(op, me, who) ==
  who = me /\ (op.kind \in {"deactivate", "delete"} \/ (op.kind = "update" /\ op.active = FALSE))

\* a super administrator is about to lose the role
NeedsCount(op, saw) ==
  /\ op.kind = "update"
  /\ op.role # None /\ op.role # saw.role
  /\ saw.role = "super_admin"

LoadTarget(r) ==
  LET op == req[r].op
      target == IF req[r].who = req[r].me THEN req[r].saw ELSE acct[req[r].who]
      refused == IF op.kind = "create" THEN req[r].who \in used
                 ELSE target = None \/ SelfProtected(op, req[r].me, req[r].who) IN
  /\ req[r].pc = "authorized"
  /\ \/ refused /\ Finish(r)
     \/ ~refused /\ NeedsCount(op, target) /\ Goto(r, "counting", target)
     \/ ~refused /\ ~NeedsCount(op, target) /\ Goto(r, "ready", target)
  /\ UNCHANGED <<acct, used, process, counters>>

Count(r) ==
  /\ req[r].pc = "counting"
  /\ \/ Cardinality(ActiveSupers) > 1 /\ Goto(r, "ready", req[r].saw)
     \/ Cardinality(ActiveSupers) <= 1 /\ Finish(r)
  /\ UNCHANGED <<acct, used, process, counters>>

GivenOr(field, default) == IF field = None THEN default ELSE field
Wanted(op, saw) == Account(GivenOr(op.role, saw.role), GivenOr(op.active, saw.active))

\* UPDATE ... SET only the columns that differ from the row the session loaded
Column(saw, new, current) == IF new = saw THEN current ELSE new
Merged(saw, new, current) ==
  Account(Column(saw.role, new.role, current.role), Column(saw.active, new.active, current.active))

CommitChange(r) ==
  LET who == req[r].who IN
  /\ req[r].pc = "ready"
  /\ req[r].op.kind \in {"update", "deactivate", "activate"}
  /\ acct' = [acct EXCEPT ![who] =
       IF @ = None THEN None   \* no row to update: the request ends with an error
       ELSE Merged(req[r].saw, Wanted(req[r].op, req[r].saw), @)]
  /\ Finish(r)
  /\ UNCHANGED <<used, process, counters>>

CommitDelete(r) ==
  /\ req[r].pc = "ready" /\ req[r].op.kind = "delete"
  /\ acct' = [acct EXCEPT ![req[r].who] = None]
  /\ Finish(r)
  /\ UNCHANGED <<used, process, counters>>

\* the unique index turns the second of two inserts into an error
CommitCreate(r) ==
  LET who == req[r].who IN
  /\ req[r].pc = "ready" /\ req[r].op.kind = "create"
  /\ acct' = IF who \in used THEN acct
             ELSE [acct EXCEPT ![who] = Account(req[r].op.role, TRUE)]
  /\ used' = used \cup {who}
  /\ Finish(r)
  /\ UNCHANGED <<process, counters>>

---------------------------------------------------------------------------
(* The process *)

\* init_super_admin: the SELECT is by role alone, and scalar_one_or_none raises
\* when it finds two rows; the INSERT fails when the name is taken.
init_super_admin ==
  /\ process # "up"
  /\ \/ /\ Supers = {} /\ acct[Root] = None
        /\ acct' = [acct EXCEPT ![Root] = Account("super_admin", TRUE)]
        /\ used' = used \cup {Root}
        /\ process' = "up"
     \/ /\ Cardinality(Supers) = 1
        /\ process' = "up"
        /\ UNCHANGED <<acct, used>>
     \/ /\ (Supers = {} /\ acct[Root] # None) \/ Cardinality(Supers) > 1
        /\ process' = "failed"
        /\ UNCHANGED <<acct, used>>
  /\ UNCHANGED <<req, counters>>

Stop ==
  /\ process = "up"
  /\ process' = "down"
  /\ req' = [r \in Req |-> Idle]
  /\ UNCHANGED <<acct, used, counters>>

Next ==
  \/ \E r \in Req, me \in Admin, who \in Admin, op \in Ops : Authorize(r, me, who, op)
  \/ \E r \in Req : LoadTarget(r) \/ Count(r) \/ CommitChange(r) \/ CommitDelete(r)
                    \/ CommitCreate(r)
  \/ init_super_admin
  \/ Stop

Spec == Init /\ [][Next]_vars

---------------------------------------------------------------------------
(* Properties *)

TypeOK ==
  /\ acct \in [Admin -> Accounts \cup {None}]
  /\ used \subseteq Admin /\ \A a \in Admin : acct[a] # None => a \in used
  /\ process \in {"down", "up", "failed"}
  /\ \A r \in Req : req[r].pc # "idle" =>
       req[r].me \in used /\ req[r].who \in Admin /\ req[r].op \in Ops
  /\ started \in Nat /\ alone \in BOOLEAN

\* As long as requests come one at a time, the self-protection of the routes does
\* its work ("自保护：不能降级最后一个超级管理员", admin.py:269): once the system has
\* started, whatever is deactivated, demoted, deleted or activated again, somebody
\* can still manage the accounts.
AlwaysASuper == alone /\ used # {} => ActiveSupers # {}

\* As long as requests come one at a time, a start fails for one reason only, a
\* second super administrator's row; never because there is none left to find and
\* the configured name is taken.
FailsOnlyOnSecondSuper == alone /\ process = "failed" => Cardinality(Supers) > 1

\* However requests overlap, an account that was deactivated comes back only by a
\* request that asks for it: an update that saw the account active and changes
\* its role does not undo a deactivation.
BackOnlyOnRequest ==
  [][\A a \in Admin :
       acct[a] # None /\ acct'[a] # None /\ ~acct[a].active /\ acct'[a].active =>
         \E r \in Req : req[r].pc = "ready" /\ req[r].who = a /\ req[r].op.active = TRUE]_vars

\* A start creates the super administrator or, when there is one, skips it
\* ("首次启动时创建超级管理员账号（已存在则跳过）", main.py:21).
StartSkipsExisting == process # "failed"
=============================================================================
