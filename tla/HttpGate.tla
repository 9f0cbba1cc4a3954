------------------------------ MODULE HttpGate ------------------------------
(***************************************************************************)
(* What a call passes before an endpoint sees it: the slot counter of     *)
(* ConcurrencyLimitMiddleware (app/main.py), then the fixed-window        *)
(* limiter of app/services/rate_limit.py, by IP and by token.  A WebSocket *)
(* takes no slot.  A background task cleans the limiter's windows up.      *)
(*                                                                         *)
(* The rate_limit dependency is a plain function, so it runs in a thread  *)
(* of a pool: a check reads the clock, then waits for the limiter's lock, *)
(* and other checks, or the clock, may come in between.                   *)
(*                                                                         *)
(* One IP, one token and one route are modelled: keys of other addresses, *)
(* tokens and scopes (a socket's among them) never meet these.  A moment   *)
(* is kept as its age, so the clock never stops: a window's age is         *)
(* now - start.                                                            *)
(***************************************************************************)
EXTENDS Integers, FiniteSets

CONSTANTS Req,        \* slots for calls in flight
          Max,        \* max_concurrent_requests
          Limit,      \* key -> calls let in per window
          Window,     \* its length
          MaxAge,     \* _WINDOW_MAX_AGE
          MaxLag,     \* bound: a thread gets the lock this soon after it read the clock
          None

Key == {"ip", "token"}
Ages == 0..MaxAge + 1   \* older is as old as MaxAge + 1: the cleanup may take it

ASSUME ReqAssumption == IsFiniteSet(Req) /\ Max \in Nat \ {0}
ASSUME LimitAssumption == Limit \in [Key -> Nat \ {0}]
ASSUME TimeAssumption ==
  /\ Window \in Nat /\ MaxLag \in Nat /\ MaxAge \in Nat
  /\ MaxLag <= Window            \* a thread's wait, against 60 s
  /\ Window + MaxLag <= MaxAge   \* both together, against an hour
ASSUME NoneAssumption == None \notin Int /\ None \notin [age : Ages, count : Nat \ {0}]

VARIABLES
  occupied,  \* _active: slots taken
  windows,   \* _windows: key -> (age, count), or None
  req,       \* the calls in flight
  passed     \* history: key -> the calls let in over the last Stretch

vars == <<occupied, windows, req, passed>>

\* How long the calls are looked back at: a window, less what a clock may lag.
Stretch == Window + 1 - MaxLag

\* A call let in: how long ago, and its number among those of its instant.
Passage == [ago : 0..Stretch, nth : Nat \ {0}]
OneMore(calls) ==
  calls \cup {[ago |-> 0, nth |-> Cardinality({c \in calls : c.ago = 0}) + 1]}
Aged(calls) == {[ago |-> c.ago + 1, nth |-> c.nth] : c \in {d \in calls : d.ago < Stretch}}

\* bearer: the call carries a token; stamp: how long ago its check read the clock
Call == [pc : {"free", "ip", "token", "serving", "open"},
         bearer : BOOLEAN, stamp : 0..MaxLag \cup {None}]
At(pc, bearer, stamp) == [pc |-> pc, bearer |-> bearer, stamp |-> stamp]
Free == At("free", FALSE, None)

\* the calls between the slot being taken and the finally block
Inside == {r \in Req : req[r].pc \in {"ip", "token", "serving"}}

Entry(age, count) == [age |-> age, count |-> count]
\* now - start > window, for the now of stamp ago
Expired(e, stamp) == e.age - stamp > Window

Init ==
  /\ occupied = 0
  /\ windows = [k \in Key |-> None]
  /\ req = [r \in Req |-> Free]
  /\ passed = [k \in Key |-> {}]

---------------------------------------------------------------------------
(* Plausible faults, one for each property; Next uses none of them.       *)

\* the comparison is off by one
HasRoom_OffByOne(k, e) == e.count <= Limit[k]

\* a refused call starts the window anew
Refuse_Slides(k, stamp) ==
  /\ windows[k] # None
  /\ ~Expired(windows[k], stamp) /\ windows[k].count >= Limit[k]
  /\ windows' = [windows EXCEPT ![k] = Entry(stamp, windows[k].count)]
  /\ UNCHANGED passed

\* the counter goes down after the call, not in a finally block
Raise_NoFinally(r) ==
  /\ req[r].pc = "serving"
  /\ req' = [req EXCEPT ![r] = Free]
  /\ UNCHANGED <<occupied, windows, passed>>

\* the scope's type is not looked at: a socket holds a slot while it is open
OpenSocket_TakesSlot(r) ==
  /\ req[r].pc = "free"
  /\ occupied < Max
  /\ occupied' = occupied + 1
  /\ req' = [req EXCEPT ![r] = At("open", FALSE, None)]
  /\ UNCHANGED <<windows, passed>>

\* the cleanup takes windows that are still open
cleanup_Early(k) ==
  /\ windows[k] # None
  /\ windows[k].age > 0
  /\ windows' = [windows EXCEPT ![k] = None]
  /\ UNCHANGED <<occupied, req, passed>>

---------------------------------------------------------------------------
(* FixedWindowLimiter *)

HasRoom(k, e) == e.count < Limit[k]

LetIn(k, e) ==
  /\ windows' = [windows EXCEPT ![k] = e]
  /\ passed' = [passed EXCEPT ![k] = OneMore(@)]

\* check(key, limit, window) under its lock, with the time read stamp ago
Admit(k, stamp) ==
  LET e == windows[k] IN
  \/ e = None /\ LetIn(k, Entry(stamp, 1))
  \/ e # None /\ Expired(e, stamp) /\ LetIn(k, Entry(stamp, 1))
  \/ e # None /\ ~Expired(e, stamp) /\ HasRoom(k, e) /\ LetIn(k, Entry(e.age, e.count + 1))

Refuse(k, stamp) ==
  /\ windows[k] # None
  /\ ~Expired(windows[k], stamp) /\ ~HasRoom(k, windows[k])
  /\ UNCHANGED <<windows, passed>>

\* cleanup(), every ten minutes on the event loop
cleanup(k) ==
  /\ windows[k] # None
  /\ windows[k].age > MaxAge
  /\ windows' = [windows EXCEPT ![k] = None]
  /\ UNCHANGED <<occupied, req, passed>>

---------------------------------------------------------------------------
(* ConcurrencyLimitMiddleware, and the rate_limit dependency inside it *)

Arrive(r, bearer) ==
  /\ req[r].pc = "free"
  /\ \/ /\ occupied < Max
        /\ occupied' = occupied + 1
        /\ req' = [req EXCEPT ![r] = At("ip", bearer, None)]
     \/ occupied >= Max /\ UNCHANGED <<occupied, req>>   \* 429
  /\ UNCHANGED <<windows, passed>>

\* any other scope goes straight through to its endpoint
OpenSocket(r) ==
  /\ req[r].pc = "free"
  /\ req' = [req EXCEPT ![r] = At("open", FALSE, None)]
  /\ UNCHANGED <<occupied, windows, passed>>

\* time.monotonic()
ReadClock(r) ==
  /\ req[r].pc \in Key
  /\ req[r].stamp = None
  /\ req' = [req EXCEPT ![r] = At(req[r].pc, req[r].bearer, 0)]
  /\ UNCHANGED <<occupied, windows, passed>>

\* the finally block, whatever the call came to
Release(r) ==
  /\ occupied' = occupied - 1
  /\ req' = [req EXCEPT ![r] = Free]

\* the IP first, then the token if the call has one; a 429 goes out through finally
Check(r) ==
  LET k == req[r].pc IN
  /\ k \in Key
  /\ req[r].stamp # None
  /\ \/ /\ Admit(k, req[r].stamp)
        /\ req' = [req EXCEPT ![r] =
             At(IF k = "ip" /\ req[r].bearer THEN "token" ELSE "serving", FALSE, None)]
        /\ UNCHANGED occupied
     \/ Refuse(k, req[r].stamp) /\ Release(r)

\* the endpoint answers
Finish(r) ==
  /\ req[r].pc = "serving"
  /\ Release(r)
  /\ UNCHANGED <<windows, passed>>

\* the endpoint, or a dependency of it, raises
Raise(r) ==
  /\ req[r].pc = "serving"
  /\ Release(r)
  /\ UNCHANGED <<windows, passed>>

CloseSocket(r) ==
  /\ req[r].pc = "open"
  /\ req' = [req EXCEPT ![r] = Free]
  /\ UNCHANGED <<occupied, windows, passed>>

---------------------------------------------------------------------------
\* one unit of time; a moment older than a window matters to no check
Older(a) == IF a > MaxAge THEN a ELSE a + 1

Tick ==
  /\ \A r \in Req : req[r].stamp # None => req[r].stamp < MaxLag
  /\ req' = [r \in Req |-> IF req[r].stamp = None THEN req[r]
               ELSE At(req[r].pc, req[r].bearer, req[r].stamp + 1)]
  /\ windows' = [k \in Key |-> IF windows[k] = None THEN None
                   ELSE Entry(Older(windows[k].age), windows[k].count)]
  /\ passed' = [k \in Key |-> Aged(passed[k])]
  /\ UNCHANGED occupied

Go(r) == ReadClock(r) \/ Check(r) \/ Finish(r) \/ Raise(r)

Next ==
  \/ \E r \in Req : \/ \E bearer \in BOOLEAN : Arrive(r, bearer)
                    \/ OpenSocket(r) \/ Go(r) \/ CloseSocket(r)
  \/ \E k \in Key : cleanup(k)
  \/ Tick

Spec == Init /\ [][Next]_vars

\* Time passes.  A call that was taken in is carried on and its endpoint comes to an
\* end; a socket may stay open for as long as its peer likes.
FairSpec == Spec /\ WF_vars(Tick) /\ \A r \in Req : WF_vars(Go(r))

---------------------------------------------------------------------------
(* Properties *)

TypeOK ==
  /\ occupied \in Int
  /\ windows \in [Key -> [age : Ages, count : Nat \ {0}] \cup {None}]
  /\ \A k \in Key : windows[k] # None => windows[k].count <= Limit[k]
  /\ req \in [Req -> Call]
  /\ passed \in [Key -> SUBSET Passage] /\ \A k \in Key : IsFiniteSet(passed[k])

\* No slot is lost and none is counted twice: _active is the number of HTTP calls
\* that are inside, whatever each of them came to, and never above the limit.
SlotsAreCalls == occupied = Cardinality(Inside) /\ occupied <= Max

\* The documented weakness at the edge of two windows (rate_limit.py:26) costs a
\* factor of two and no more: in any stretch as long as a window at most 2 * limit
\* calls are let in, though the cleanup drops windows and a check may use a clock read
\* before other checks.  Such a clock starts a window early, so the stretch is shorter
\* by what a thread may wait: over a whole window and a lag the calls of three windows
\* can meet.
BurstIsBounded == \A k \in Key : Cardinality(passed[k]) <= 2 * Limit[k]

\* A full server opens again: each call it took in comes to an end, and the sockets,
\* which last as long as an exam, do not count.
FullGateReopens == occupied = Max ~> occupied < Max

\* Nobody is shut out for good: a key over its limit is let in again, however hard
\* its client goes on trying.
QuotaReturns ==
  \A k \in Key : LET full == windows[k] # None /\ ~Expired(windows[k], 0)
                              /\ ~HasRoom(k, windows[k])
                 IN full ~> ~full
=============================================================================
