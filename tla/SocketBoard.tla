----------------------------- MODULE SocketBoard ----------------------------
(***************************************************************************)
(* What the registry of monitoring sockets (WebSocketManager in            *)
(* app/services/websocket.py) promises the handlers that read it: who is  *)
(* online, and who ever was in this life of the process.  A handshake is  *)
(* let in for a student who is writing and not online, at one moment; it  *)
(* reaches the board at a later one, when either may have changed, or not *)
(* at all.  Nobody gets on the board in any other way, and off the list   *)
(* of those who ever were comes nobody until the process stops.           *)
(***************************************************************************)
CONSTANTS Student, Conn, None

VARIABLES writing,    \* students whose paper is open: row there, status in_progress
          online,     \* keys of student_id_to_token
          ever,       \* ever_connected_students
          handshake   \* per connection, the student it was let in for, until it registers

vars == <<writing, online, ever, handshake>>

Init ==
  /\ writing \subseteq Student
  /\ online = {} /\ ever = {}
  /\ handshake = [c \in Conn |-> None]

\* verify_token and is_connected, before the await on accept()
Admit(c, s) ==
  /\ handshake[c] = None
  /\ s \in writing \ online
  /\ handshake' = [handshake EXCEPT ![c] = s]
  /\ UNCHANGED <<writing, online, ever>>

\* connect, after it
Register(c) ==
  /\ handshake[c] # None
  /\ online' = online \cup {handshake[c]}
  /\ ever' = ever \cup {handshake[c]}
  /\ handshake' = [handshake EXCEPT ![c] = None]
  /\ UNCHANGED writing

\* the peer was gone at accept()
Abandon(c) ==
  /\ handshake[c] # None
  /\ handshake' = [handshake EXCEPT ![c] = None]
  /\ UNCHANGED <<writing, online, ever>>

\* disconnect
Drop(s) ==
  /\ s \in online
  /\ online' = online \ {s}
  /\ UNCHANGED <<writing, ever, handshake>>

\* a paper is opened, handed in, taken in or deleted: the board takes no notice
Paper(s) ==
  /\ writing' \in {writing \cup {s}, writing \ {s}}
  /\ UNCHANGED <<online, ever, handshake>>

Restart ==
  /\ online' = {} /\ ever' = {}
  /\ handshake' = [c \in Conn |-> None]
  /\ UNCHANGED writing

Next ==
  \/ \E c \in Conn : \/ \E s \in Student : Admit(c, s)
                     \/ Register(c) \/ Abandon(c)
  \/ \E s \in Student : Drop(s) \/ Paper(s)
  \/ Restart

Spec == Init /\ [][Next]_vars
=============================================================================
