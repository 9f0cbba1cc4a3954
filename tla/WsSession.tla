------------------------------ MODULE WsSession -----------------------------
(***************************************************************************)
(* The monitoring WebSocket: websocket_endpoint of app/routers/ws.py, one *)
(* coroutine per connection, the registry WebSocketManager keeps in       *)
(* memory, and Student.is_fullscreen, which sockets and HTTP calls write. *)
(*                                                                         *)
(* A coroutine gives way at each await: verify_token, accept(), every     *)
(* commit and every receive; between two awaits it is one step.  Each exit *)
(* path of the endpoint ends in its finally block, which unregisters the  *)
(* connection's token whether or not this coroutine registered it.        *)
(*                                                                         *)
(* Left out: the log rows (OperationLogs has those of the reports),        *)
(* connection_info (it has the keys of active_connections) and the frames *)
(* sent.  Of the message rate limit the windows are kept, not their       *)
(* counts: a frame that is refused is one that writes no row.             *)
(***************************************************************************)
EXTENDS Naturals

CONSTANTS Student,
          Token,      \* bound: the tokens report_fullscreen can still mint
          Conn,       \* slots for connections open at the same time
          None,
          MaxOpens    \* bound: connections opened in all

ASSUME NoneAssumption == None \notin Student \cup Token \cup Conn
ASSUME MaxOpensAssumption == MaxOpens \in Nat

VARIABLES
  status,         \* the student: in_progress, over (handed in) or deleted
  wsToken,        \* Student.websocket_token
  fullscreen,     \* Student.is_fullscreen
  minted,         \* tokens handed out so far
  active,         \* active_connections: token -> connection
  tokenStudent,   \* token_to_student_id
  studentToken,   \* student_id_to_token
  ever,           \* ever_connected_students
  windows,        \* keys of _rate_windows
  conn,           \* the coroutines
  alive,          \* connections whose peer is still there
  call,           \* per student, the fullscreen or failure report in flight
  opened,         \* connections opened so far (the bound's counter)
  tangled         \* history: tokens of which two coroutines, of one student, ran at once

row == <<status, wsToken, fullscreen>>
registry == <<active, tokenStudent, studentToken, ever, windows>>
history == <<opened, tangled>>
vars == <<row, minted, registry, conn, alive, call, history>>

Steps == {"free", "verifying", "accepting", "greeting", "looping", "changing",
          "parting", "clearing", "reparting", "reclearing", "leaving"}
\* the steps between ws_manager.connect and the end of the finally block
Held == {"greeting", "looping", "changing", "parting", "clearing", "reparting", "reclearing",
         "leaving"}
\* those of them in which it answers for its student
Serving == {"greeting", "looping", "changing", "parting", "clearing"}

\* saw: is_fullscreen as loaded; want: what the coroutine is about to write
Coroutine == [pc : Steps, token : Token \cup {None}, who : Student \cup {None},
              saw : BOOLEAN, want : BOOLEAN]
Co(pc, token, who, saw, want) ==
  [pc |-> pc, token |-> token, who |-> who, saw |-> saw, want |-> want]
Free == Co("free", None, None, FALSE, FALSE)

Call == [pc : {"idle", "minting", "failing"}, saw : BOOLEAN]
CallAt(pc, saw) == [pc |-> pc, saw |-> saw]

Init ==
  /\ status = [s \in Student |-> "in_progress"]
  /\ wsToken = [s \in Student |-> None]
  /\ fullscreen = [s \in Student |-> FALSE]
  /\ minted = {}
  /\ active = [t \in Token |-> None]
  /\ tokenStudent = [t \in Token |-> None]
  /\ studentToken = [s \in Student |-> None]
  /\ ever = {} /\ windows = {}
  /\ conn = [c \in Conn |-> Free]
  /\ alive = {}
  /\ call = [s \in Student |-> CallAt("idle", FALSE)]
  /\ opened = 0 /\ tangled = {}

is_connected(s) == studentToken[s] # None

\* the ORM writes the column only when it differs from what was loaded
Flag(s, saw, want) ==
  fullscreen' = [fullscreen EXCEPT ![s] = IF saw = want THEN @ ELSE want]

\* what was loaded goes with the database session it was loaded in
Move(c, from, to) ==
  /\ conn[c].pc = from
  /\ conn' = [conn EXCEPT ![c] = Co(to, conn[c].token, conn[c].who, FALSE, FALSE)]

Load(c, from, to, want) ==
  /\ conn[c].pc = from
  /\ status[conn[c].who] # "deleted"
  /\ conn' = [conn EXCEPT ![c] =
                Co(to, conn[c].token, conn[c].who, fullscreen[conn[c].who], want)]

\* check_rate_limit, whatever it answers
Counted(t) ==
  /\ windows' = windows \cup {t}
  /\ UNCHANGED <<active, tokenStudent, studentToken, ever>>

---------------------------------------------------------------------------
(* Plausible faults, one for each property; Next uses none of them.       *)

\* disconnect forgets the reverse map
disconnect_ReverseKept(t) ==
  /\ active' = [active EXCEPT ![t] = None]
  /\ tokenStudent' = [tokenStudent EXCEPT ![t] = None]
  /\ windows' = IF active[t] # None THEN windows \ {t} ELSE windows
  /\ UNCHANGED <<studentToken, ever>>

\* ... or the rate window
disconnect_WindowKept(t) ==
  /\ studentToken' = [s \in Student |->
       IF active[t] # None /\ tokenStudent[t] = s THEN None ELSE studentToken[s]]
  /\ active' = [active EXCEPT ![t] = None]
  /\ tokenStudent' = [tokenStudent EXCEPT ![t] = None]
  /\ UNCHANGED <<ever, windows>>

\* the token is not verified before accept()
Open_Unverified(c, t) ==
  /\ conn[c].pc = "free"
  /\ opened < MaxOpens
  /\ conn' = [conn EXCEPT ![c] = Co("accepting", t, None, FALSE, FALSE)]
  /\ alive' = alive \cup {c}
  /\ opened' = opened + 1
  /\ UNCHANGED <<row, minted, registry, call, tangled>>

\* an exit path outside the try ... finally
Break_NoFinally(c) ==
  /\ c \notin alive
  /\ conn[c].pc = "looping"
  /\ conn' = [conn EXCEPT ![c] = Free]
  /\ UNCHANGED <<row, minted, registry, alive, call, history>>

\* finally unregisters the student's token in place of the connection's
Leave_ByStudent(c) ==
  /\ conn[c].pc = "leaving"
  /\ IF conn[c].who # None /\ is_connected(conn[c].who)
     THEN /\ active' = [active EXCEPT ![studentToken[conn[c].who]] = None]
          /\ tokenStudent' = [tokenStudent EXCEPT ![studentToken[conn[c].who]] = None]
          /\ windows' = windows \ {studentToken[conn[c].who]}
          /\ studentToken' = [studentToken EXCEPT ![conn[c].who] = None]
          /\ UNCHANGED ever
     ELSE UNCHANGED registry
  /\ conn' = [conn EXCEPT ![c] = Free]
  /\ alive' = alive \ {c}
  /\ UNCHANGED <<row, minted, call, history>>

\* receive_text without wait_for: only a close frame of a live peer ends it
ReceiveEnds_NoTimeout(c) ==
  /\ c \in alive
  /\ Move(c, "looping", "parting")
  /\ UNCHANGED <<row, minted, registry, alive, call, history>>

---------------------------------------------------------------------------
(* WebSocketManager.connect and .disconnect *)

connect(c, t, s) ==
  /\ active' = [active EXCEPT ![t] = c]
  /\ tokenStudent' = [tokenStudent EXCEPT ![t] = s]
  /\ studentToken' = [studentToken EXCEPT ![s] = t]
  /\ ever' = ever \cup {s}
  /\ UNCHANGED windows

disconnect(t) ==
  /\ studentToken' = [s \in Student |->
       IF active[t] # None /\ tokenStudent[t] = s THEN None ELSE studentToken[s]]
  /\ active' = [active EXCEPT ![t] = None]
  /\ tokenStudent' = [tokenStudent EXCEPT ![t] = None]
  /\ windows' = windows \ {u \in {t} : active[u] # None}
  /\ UNCHANGED ever

---------------------------------------------------------------------------
(* websocket_endpoint *)

\* the connection passes the per-IP limit, or goes straight to the end
Open(c, t) ==
  /\ conn[c].pc = "free"
  /\ opened < MaxOpens
  /\ \E pc \in {"verifying", "leaving"} :
       conn' = [conn EXCEPT ![c] = Co(pc, t, None, FALSE, FALSE)]
  /\ alive' = alive \cup {c}
  /\ opened' = opened + 1
  /\ tangled' = tangled \cup ({t} \cap {conn[d].token : d \in Conn})
  /\ UNCHANGED <<row, minted, registry, call>>

\* the tokens of coroutines that serve s
Twins(s) == {conn[d].token : d \in {e \in Conn : conn[e].pc # "free" /\ conn[e].who = s}}

\* verify_token, and is_connected with no await in between.  A duplicate is logged and
\* closed, and an error in that goes to the outermost handler ("reparting") with the
\* student known; nobody's token, and an error of the look-up, end without.
Verify(c) ==
  LET t == conn[c].token
      owner == {s \in Student : wsToken[s] = t /\ status[s] = "in_progress"} IN
  /\ conn[c].pc = "verifying"
  /\ \/ \E s \in owner :
          \/ /\ is_connected(s)
             /\ \E pc \in {"leaving", "reparting"} :
                  conn' = [conn EXCEPT ![c] = Co(pc, t, s, FALSE, FALSE)]
             /\ UNCHANGED tangled
          \/ /\ ~is_connected(s)
             /\ conn' = [conn EXCEPT ![c] = Co("accepting", t, s, fullscreen[s], TRUE)]
             /\ tangled' = tangled \cup Twins(s) \cup {u \in {t} : Twins(s) # {}}
     \/ /\ conn' = [conn EXCEPT ![c] = Co("leaving", t, None, FALSE, FALSE)]
        /\ UNCHANGED tangled
  /\ UNCHANGED <<row, minted, registry, alive, call, opened>>

\* accept() fails only when the peer is gone, and need not fail then
Accept(c) ==
  /\ conn[c].pc = "accepting"
  /\ \/ /\ connect(c, conn[c].token, conn[c].who)
        /\ conn' = [conn EXCEPT ![c] =
                      Co("greeting", conn[c].token, conn[c].who, conn[c].saw, TRUE)]
     \/ c \notin alive /\ Move(c, "accepting", "reparting") /\ UNCHANGED registry
  /\ UNCHANGED <<row, minted, alive, call, history>>

\* is_fullscreen = TRUE is committed, or the commit fails; the first frame is sent or the
\* peer is gone
Greet(c) ==
  LET s == conn[c].who IN
  /\ conn[c].pc = "greeting"
  /\ \/ /\ status[s] # "deleted"
        /\ Flag(s, conn[c].saw, TRUE)
        /\ \/ Move(c, "greeting", "looping")
           \/ c \notin alive /\ \E pc \in {"parting", "reparting"} : Move(c, "greeting", pc)
     \/ Move(c, "greeting", "reparting") /\ UNCHANGED fullscreen
  /\ UNCHANGED <<status, wsToken, minted, registry, alive, call, history>>

\* a fullscreen_change frame: the row is loaded in a session of its own
Receive(c, isFullscreen) ==
  /\ c \in alive
  /\ \/ Load(c, "looping", "changing", isFullscreen)
     \/ Move(c, "looping", "leaving") /\ status[conn[c].who] = "deleted"
  /\ Counted(conn[c].token)
  /\ UNCHANGED <<row, minted, alive, call, history>>

\* any other frame, one too many, or one whose student could not be loaded: no row is
\* written
ReceiveOther(c) ==
  /\ c \in alive
  /\ conn[c].pc = "looping"
  /\ Counted(conn[c].token)
  /\ UNCHANGED <<row, minted, conn, alive, call, history>>

\* commit and acknowledge, or fail and say so; a peer that is gone ends the loop,
\* through _handle_disconnect or, when the error frame fails as well, without it
Change(c) ==
  LET s == conn[c].who
      after == IF c \in alive THEN {"looping"} ELSE {"looping", "parting", "leaving"} IN
  /\ \E pc \in after : Move(c, "changing", pc)
  /\ \/ status[s] # "deleted" /\ Flag(s, conn[c].saw, conn[c].want)
     \/ UNCHANGED fullscreen
  /\ UNCHANGED <<status, wsToken, minted, registry, alive, call, history>>

\* a frame over the rate limit, not JSON or not handled, and nobody there to be told so
Break(c) ==
  /\ c \notin alive
  /\ Move(c, "looping", "leaving")
  /\ Counted(conn[c].token)
  /\ UNCHANGED <<row, minted, alive, call, history>>

\* the peer closed, the transport failed, or 90 s went by in silence
ReceiveEnds(c) ==
  /\ Move(c, "looping", "parting")
  /\ UNCHANGED <<row, minted, registry, alive, call, history>>

\* where an error in _handle_disconnect leads: from the handlers of the loop to the
\* outermost one, which calls it once more, and from there to the finally block
Recovery(pc) == IF pc \in {"parting", "clearing"} THEN "reparting" ELSE "leaving"

\* _handle_disconnect loads the student, and has nothing to do for one that is deleted
\* (what it looks up on the registry decides only whether it writes a log row)
Part(c) ==
  /\ conn[c].pc \in {"parting", "reparting"}
  /\ \/ Load(c, "parting", "clearing", FALSE) \/ Load(c, "reparting", "reclearing", FALSE)
     \/ status[conn[c].who] = "deleted" /\ Move(c, conn[c].pc, "leaving")
     \/ Move(c, conn[c].pc, Recovery(conn[c].pc))
  /\ UNCHANGED <<row, minted, registry, alive, call, history>>

\* ... and clears the flag
Clear(c) ==
  LET s == conn[c].who IN
  /\ conn[c].pc \in {"clearing", "reclearing"}
  /\ \/ /\ status[s] # "deleted"
        /\ Flag(s, conn[c].saw, FALSE)
        /\ Move(c, conn[c].pc, "leaving")
     \/ Move(c, conn[c].pc, Recovery(conn[c].pc)) /\ UNCHANGED fullscreen
  /\ UNCHANGED <<status, wsToken, minted, registry, alive, call, history>>

\* finally: ws_manager.disconnect(token)
Leave(c) ==
  /\ conn[c].pc = "leaving"
  /\ disconnect(conn[c].token)
  /\ conn' = [conn EXCEPT ![c] = Free]
  /\ alive' = alive \ {c}
  /\ UNCHANGED <<row, minted, call, history>>

\* the other end is gone, with or without a close frame
Vanish(c) ==
  /\ c \in alive
  /\ alive' = alive \ {c}
  /\ UNCHANGED <<row, minted, registry, conn, call, history>>

---------------------------------------------------------------------------
(* report_fullscreen (auth.py) and report_ws_failure (ws.py) *)

ReportLoad(s) ==
  /\ call[s].pc = "idle"
  /\ status[s] # "deleted"
  /\ \/ minted # Token /\ call' = [call EXCEPT ![s] = CallAt("minting", fullscreen[s])]
     \/ ~is_connected(s) /\ call' = [call EXCEPT ![s] = CallAt("failing", fullscreen[s])]
  /\ UNCHANGED <<row, minted, registry, conn, alive, history>>

MintCommit(s, t) ==
  /\ call[s].pc = "minting"
  /\ status[s] # "deleted"
  /\ t \notin minted
  /\ minted' = minted \cup {t}
  /\ wsToken' = [wsToken EXCEPT ![s] = t]
  /\ Flag(s, call[s].saw, TRUE)
  /\ call' = [call EXCEPT ![s] = CallAt("idle", FALSE)]
  /\ UNCHANGED <<status, registry, conn, alive, history>>

FailureCommit(s) ==
  /\ call[s].pc = "failing"
  /\ status[s] # "deleted"
  /\ Flag(s, call[s].saw, FALSE)
  /\ call' = [call EXCEPT ![s] = CallAt("idle", FALSE)]
  /\ UNCHANGED <<status, wsToken, minted, registry, conn, alive, history>>

---------------------------------------------------------------------------
\* the student hands in, or the paper is taken in; an administrator deletes the row
EndExam(s) ==
  /\ status[s] = "in_progress"
  /\ status' = [status EXCEPT ![s] = "over"]
  /\ UNCHANGED <<wsToken, fullscreen, minted, registry, conn, alive, call, history>>

Delete(s) ==
  /\ status[s] # "deleted"
  /\ status' = [status EXCEPT ![s] = "deleted"]
  /\ call' = [call EXCEPT ![s] = CallAt("idle", FALSE)]   \* a report in flight fails
  /\ UNCHANGED <<wsToken, fullscreen, minted, registry, conn, alive, history>>

\* the process stops and starts again; the database stays
Restart ==
  /\ active' = [t \in Token |-> None]
  /\ tokenStudent' = [t \in Token |-> None]
  /\ studentToken' = [s \in Student |-> None]
  /\ ever' = {} /\ windows' = {}
  /\ conn' = [c \in Conn |-> Free]
  /\ alive' = {}
  /\ call' = [s \in Student |-> CallAt("idle", FALSE)]
  /\ UNCHANGED <<row, minted, history>>

Run(c) ==
  \/ Verify(c) \/ Accept(c) \/ Greet(c) \/ Change(c)
  \/ Part(c) \/ Clear(c) \/ Leave(c)

Next ==
  \/ \E c \in Conn : \/ \E t \in minted : Open(c, t)
                     \/ \E b \in BOOLEAN : Receive(c, b)
                     \/ ReceiveOther(c) \/ Run(c) \/ Break(c) \/ ReceiveEnds(c) \/ Vanish(c)
  \/ \E s \in Student : \/ ReportLoad(s) \/ FailureCommit(s) \/ EndExam(s) \/ Delete(s)
                        \/ \E t \in Token : MintCommit(s, t)
  \/ Restart

Spec == Init /\ [][Next]_vars

\* The event loop runs every ready coroutine, and wait_for ends a receive from a
\* peer that is gone.  Clients and administrators need not do anything.
Fairness ==
  \A c \in Conn : WF_vars(Run(c) \/ (c \notin alive /\ ReceiveEnds(c)))
FairSpec == Spec /\ Fairness

---------------------------------------------------------------------------
(* Properties *)

TypeOK ==
  /\ status \in [Student -> {"in_progress", "over", "deleted"}]
  /\ wsToken \in [Student -> Token \cup {None}]
  /\ fullscreen \in [Student -> BOOLEAN]
  /\ minted \subseteq Token
  /\ active \in [Token -> Conn \cup {None}]
  /\ tokenStudent \in [Token -> Student \cup {None}]
  /\ studentToken \in [Student -> Token \cup {None}]
  /\ ever \subseteq Student /\ windows \subseteq Token
  /\ conn \in [Conn -> Coroutine]
  /\ \A c \in Conn : /\ conn[c].pc # "free" => conn[c].token \in Token
                     /\ conn[c].pc \notin {"free", "verifying", "leaving"} =>
                          conn[c].who \in Student
  /\ alive \subseteq Conn
  /\ call \in [Student -> Call]
  /\ opened \in Nat /\ tangled \subseteq Token

\* The three maps agree, whatever the coroutines do in whatever order: a token
\* is in both token maps or in neither, a student maps to a token that is active
\* and that maps back, and who is connected counts as ever connected.
RegistryCoherent ==
  /\ \A t \in Token : active[t] # None <=> tokenStudent[t] # None
  /\ \A s \in Student : is_connected(s) =>
       /\ active[studentToken[s]] # None
       /\ tokenStudent[studentToken[s]] = s
       /\ s \in ever

\* No ghosts: an entry of the registry belongs to a coroutine that registered it
\* and has not left.  A student shown online has a handler that is still running.
ActiveBacked ==
  \A t \in Token : active[t] # None =>
    conn[active[t]].token = t /\ conn[active[t]].pc \in Held

\* A student whose socket is served is on the registry, under the token of that
\* socket: he is told of a forced hand-in and not taken for unwatched.  The duplicate
\* check, the replacement of tokens and the finally blocks of refused sockets keep
\* it so, unless two coroutines of one token, or of one student, ran at once.
LoneSocketIsKnown ==
  \A c \in Conn :
    conn[c].pc \in Serving /\ conn[c].token \notin tangled =>
      active[conn[c].token] = c /\ studentToken[conn[c].who] = conn[c].token

\* A message creates a rate window whether or not the token is still registered
\* (websocket.py:253), and only unregistering removes it.  None is left behind but
\* for tokens of which two coroutines ran at once.
WindowsHaveSockets == \A t \in windows \ tangled : active[t] # None

\* Who vanishes is taken off: no connection whose peer is gone stays on the registry for
\* good, also when no close frame ever arrived (WS_HEARTBEAT_TIMEOUT).
VanishedIsUnregistered ==
  \A c \in Conn : []<>(conn[c].pc # "free" /\ c \notin alive => \A t \in Token : active[t] # c)

\* All that a handler outside this module sees of it is a SocketBoard: whatever the
\* endpoints do, a student gets on it through the two checks of the endpoint, off it
\* through disconnect, and stays among those who ever were.
Board == INSTANCE SocketBoard WITH
  writing <- {s \in Student : status[s] = "in_progress"},
  online <- {s \in Student : is_connected(s)},
  handshake <- [c \in Conn |-> IF conn[c].pc = "accepting" THEN conn[c].who ELSE None]
ImplementsBoard == Board!Spec
=============================================================================
