-------------------------- MODULE WsSession_proofs --------------------------
(***************************************************************************)
(* The registry of sockets is coherent and free of ghosts for any number  *)
(* of students, tokens and connections.  The argument: a token never      *)
(* changes hands (Owned), so registering one cannot orphan the entry of   *)
(* another student; and whoever registers a token unregisters it, whatever *)
(* path leads to the finally block.                                       *)
(***************************************************************************)
EXTENDS WsSession, TLAPS

\* Where a token and a student are brought together.
Owns(t, s) ==
  \/ wsToken[s] = t
  \/ tokenStudent[t] = s
  \/ \E c \in Conn : conn[c].token = t /\ conn[c].who = s

Owned ==
  /\ \A t \in Token, s1, s2 \in Student : Owns(t, s1) /\ Owns(t, s2) => s1 = s2
  /\ \A t \in Token \ minted, s \in Student : ~Owns(t, s)

Inv == TypeOK /\ Owned /\ RegistryCoherent /\ ActiveBacked

---------------------------------------------------------------------------
(* Type correctness *)

LEMMA TypeInit == Init => TypeOK
BY DEF Init, TypeOK, Free, Co, Coroutine, Steps, Call, CallAt

LEMMA CoTyped ==
  ASSUME NEW pc \in Steps, NEW t \in Token \cup {None}, NEW s \in Student \cup {None},
         NEW saw \in BOOLEAN, NEW want \in BOOLEAN
  PROVE  Co(pc, t, s, saw, want) \in Coroutine
BY DEF Co, Coroutine

\* A step of one coroutine to a well-typed record.
LEMMA ConnTyped ==
  ASSUME TypeOK, NEW c \in Conn, NEW k \in Coroutine, conn' = [conn EXCEPT ![c] = k],
         k.pc # "free" => k.token \in Token,
         k.pc \notin {"free", "verifying", "leaving"} => k.who \in Student
  PROVE  /\ conn' \in [Conn -> Coroutine]
         /\ \A d \in Conn : /\ conn'[d].pc # "free" => conn'[d].token \in Token
                            /\ conn'[d].pc \notin {"free", "verifying", "leaving"} =>
                                 conn'[d].who \in Student
BY DEF TypeOK

LEMMA MoveTyped ==
  ASSUME TypeOK, NEW c \in Conn, NEW from \in Steps \ {"free", "verifying", "leaving"},
         NEW to \in Steps \ {"free"}, Move(c, from, to)
  PROVE  /\ conn' \in [Conn -> Coroutine]
         /\ \A d \in Conn : /\ conn'[d].pc # "free" => conn'[d].token \in Token
                            /\ conn'[d].pc \notin {"free", "verifying", "leaving"} =>
                                 conn'[d].who \in Student
         /\ conn[c].who \in Student /\ conn[c].token \in Token
BY DEF TypeOK, Move, Co, Coroutine

LEMMA LoadTyped ==
  ASSUME TypeOK, NEW c \in Conn, NEW from \in Steps \ {"free", "verifying", "leaving"},
         NEW to \in Steps \ {"free"}, NEW want \in BOOLEAN, Load(c, from, to, want)
  PROVE  /\ conn' \in [Conn -> Coroutine]
         /\ \A d \in Conn : /\ conn'[d].pc # "free" => conn'[d].token \in Token
                            /\ conn'[d].pc \notin {"free", "verifying", "leaving"} =>
                                 conn'[d].who \in Student
BY DEF TypeOK, Load, Co, Coroutine

LEMMA TypeConn ==
  ASSUME TypeOK, NEW c \in Conn,
         \/ \E t \in minted : Open(c, t)
         \/ \E b \in BOOLEAN : Receive(c, b)
         \/ ReceiveOther(c) \/ Run(c) \/ Break(c) \/ ReceiveEnds(c) \/ Vanish(c)
  PROVE  TypeOK'
<1>1. ASSUME NEW t \in minted, Open(c, t) PROVE TypeOK'
  BY <1>1 DEF Open, TypeOK, row, registry, history, Co, Coroutine, Steps
<1>2. ASSUME NEW b \in BOOLEAN, Receive(c, b) PROVE TypeOK'
  <2>1. conn[c].token \in Token /\ conn[c].pc = "looping"
    BY <1>2 DEF Receive, Load, Move, TypeOK
  <2>2. windows' \subseteq Token /\ UNCHANGED <<active, tokenStudent, studentToken, ever>>
    BY <1>2, <2>1 DEF Receive, Counted, TypeOK
  <2> QED BY <1>2, <2>2, LoadTyped, MoveTyped DEF Receive, TypeOK, row, history, Steps
<1>3. CASE Verify(c)
  <2>1. PICK pc \in {"leaving", "reparting", "accepting"}, s \in Student \cup {None},
             saw, want \in BOOLEAN :
          /\ conn' = [conn EXCEPT ![c] = Co(pc, conn[c].token, s, saw, want)]
          /\ pc # "leaving" => s \in Student
    BY <1>3 DEF Verify, TypeOK
  <2>2. conn[c].token \in Token /\ UNCHANGED <<row, minted, registry, alive, call, opened>>
    BY <1>3 DEF Verify, TypeOK
  <2>4. tangled' \subseteq Token
    <3>1. \A u \in Student : Twins(u) \subseteq Token
      BY DEF Twins, TypeOK
    <3> QED BY <1>3, <2>2, <3>1 DEF Verify, TypeOK
  <2>3. /\ conn' \in [Conn -> Coroutine]
        /\ \A d \in Conn : /\ conn'[d].pc # "free" => conn'[d].token \in Token
                           /\ conn'[d].pc \notin {"free", "verifying", "leaving"} =>
                                conn'[d].who \in Student
    BY <2>1, <2>2, ConnTyped, CoTyped DEF Co, Steps
  <2> QED BY <2>2, <2>3, <2>4 DEF TypeOK, row, registry
<1>4. CASE Accept(c)
  <2>1. CASE connect(c, conn[c].token, conn[c].who) /\ conn' = [conn EXCEPT ![c] =
               Co("greeting", conn[c].token, conn[c].who, conn[c].saw, TRUE)]
    <3>1. /\ conn[c].token \in Token /\ conn[c].who \in Student /\ conn[c].saw \in BOOLEAN
          /\ connect(c, conn[c].token, conn[c].who)
          /\ conn' = [conn EXCEPT ![c] =
                        Co("greeting", conn[c].token, conn[c].who, conn[c].saw, TRUE)]
          /\ UNCHANGED <<row, minted, alive, call, history>>
      BY <1>4, <2>1 DEF Accept, TypeOK, Coroutine
    <3>2. /\ conn' \in [Conn -> Coroutine]
          /\ \A d \in Conn : /\ conn'[d].pc # "free" => conn'[d].token \in Token
                             /\ conn'[d].pc \notin {"free", "verifying", "leaving"} =>
                                  conn'[d].who \in Student
      BY <3>1, ConnTyped, CoTyped DEF Co, Steps
    <3> QED BY <3>1, <3>2 DEF TypeOK, connect, row, history
  <2>2. CASE Move(c, "accepting", "reparting") /\ UNCHANGED registry
    BY <1>4, <2>2, MoveTyped DEF Accept, TypeOK, row, registry, history, Steps
  <2> QED BY <1>4, <2>1, <2>2 DEF Accept
<1>5. CASE Greet(c)
  BY <1>5, MoveTyped DEF Greet, Flag, TypeOK, registry, history, Steps
<1>6. CASE Change(c)
  BY <1>6, MoveTyped DEF Change, Flag, TypeOK, registry, history, Steps, Coroutine
<1>7. CASE Part(c)
  <2>1. /\ conn[c].pc \in Steps \ {"free", "verifying", "leaving"}
        /\ Recovery(conn[c].pc) \in Steps \ {"free"}
    BY <1>7 DEF Part, Recovery, Steps
  <2> QED BY <1>7, <2>1, LoadTyped, MoveTyped DEF Part, TypeOK, row, registry, history, Steps
<1>8. CASE Clear(c)
  <2>1. /\ conn[c].pc \in Steps \ {"free", "verifying", "leaving"}
        /\ Recovery(conn[c].pc) \in Steps \ {"free"}
    BY <1>8 DEF Clear, Recovery, Steps
  <2>2. conn[c].who \in Student
    BY <2>1 DEF TypeOK
  <2>3. fullscreen' \in [Student -> BOOLEAN]
    BY <1>8, <2>2 DEF Clear, Flag, TypeOK
  <2> QED BY <1>8, <2>1, <2>3, MoveTyped DEF Clear, TypeOK, registry, history, Steps
<1>9. CASE Leave(c)
  BY <1>9 DEF Leave, disconnect, TypeOK, row, history, Free, Co, Coroutine, Steps
<1>10. CASE Break(c)
  BY <1>10, MoveTyped DEF Break, Counted, TypeOK, row, history, Steps
<1>11. CASE ReceiveEnds(c)
  BY <1>11, MoveTyped DEF ReceiveEnds, TypeOK, row, registry, history, Steps
<1>13. CASE ReceiveOther(c)
  <2>1. conn[c].token \in Token
    BY <1>13 DEF ReceiveOther, TypeOK
  <2> QED BY <1>13, <2>1 DEF ReceiveOther, Counted, TypeOK, row, history
<1>12. CASE Vanish(c)
  BY <1>12 DEF Vanish, TypeOK, row, registry, history
<1> QED
  BY <1>1, <1>2, <1>3, <1>4, <1>5, <1>6, <1>7, <1>8, <1>9, <1>10, <1>11, <1>12, <1>13 DEF Run

LEMMA TypeStep ==
  ASSUME TypeOK, [Next]_vars
  PROVE  TypeOK'
<1>1. ASSUME NEW s \in Student, ReportLoad(s) PROVE TypeOK'
  <2>1. fullscreen[s] \in BOOLEAN
    BY DEF TypeOK
  <2>2. \E pc \in {"minting", "failing"} : call' = [call EXCEPT ![s] = CallAt(pc, fullscreen[s])]
    BY <1>1 DEF ReportLoad
  <2>3. call' \in [Student -> Call]
    BY <2>1, <2>2 DEF TypeOK, Call, CallAt
  <2> QED BY <1>1, <2>3 DEF ReportLoad, TypeOK, row, registry, history
<1>2. ASSUME NEW s \in Student, NEW t \in Token, MintCommit(s, t) PROVE TypeOK'
  BY <1>2 DEF MintCommit, Flag, TypeOK, registry, history, Call, CallAt
<1>3. ASSUME NEW s \in Student, FailureCommit(s) PROVE TypeOK'
  BY <1>3 DEF FailureCommit, Flag, TypeOK, registry, history, Call, CallAt
<1>4. ASSUME NEW s \in Student, EndExam(s) PROVE TypeOK'
  BY <1>4 DEF EndExam, TypeOK, registry, history
<1>5. ASSUME NEW s \in Student, Delete(s) PROVE TypeOK'
  BY <1>5 DEF Delete, TypeOK, registry, history, Call, CallAt
<1>6. CASE Restart
  BY <1>6 DEF Restart, TypeOK, row, history, Free, Co, Coroutine, Steps, Call, CallAt
<1>7. CASE UNCHANGED vars
  BY <1>7 DEF vars, TypeOK, row, registry, history
<1> QED BY <1>1, <1>2, <1>3, <1>4, <1>5, <1>6, <1>7, TypeConn DEF Next

---------------------------------------------------------------------------
(* A token belongs to one student for good *)

\* A step that brings no token and student together keeps Owned.
LEMMA OwnedKept ==
  ASSUME Owned, minted \subseteq minted',
         \A t \in Token, s \in Student : Owns(t, s)' => Owns(t, s)
  PROVE  Owned'
BY DEF Owned

\* Most steps of a coroutine keep its token, and its student or drop him.
LEMMA ConnKeeps ==
  ASSUME TypeOK, NEW c \in Conn,
         \/ \E b \in BOOLEAN : Receive(c, b)
         \/ ReceiveOther(c) \/ Greet(c) \/ Change(c) \/ Part(c) \/ Clear(c) \/ Break(c) \/ ReceiveEnds(c)
  PROVE  \A d \in Conn : /\ conn'[d].token = conn[d].token /\ conn'[d].who = conn[d].who
                         /\ conn[d].pc \in Held => conn'[d].pc \in Held
<1>1. ASSUME NEW from \in Steps, NEW to \in Held, Move(c, from, to)
      PROVE  \A d \in Conn : /\ conn'[d].token = conn[d].token /\ conn'[d].who = conn[d].who
                             /\ conn[d].pc \in Held => conn'[d].pc \in Held
  BY <1>1 DEF Move, Co, TypeOK
<1>2. ASSUME NEW from \in Steps, NEW to \in Held, NEW want \in BOOLEAN, Load(c, from, to, want)
      PROVE  \A d \in Conn : /\ conn'[d].token = conn[d].token /\ conn'[d].who = conn[d].who
                             /\ conn[d].pc \in Held => conn'[d].pc \in Held
  BY <1>2 DEF Load, Co, TypeOK
<1>3. \/ \E from \in Steps, to \in Held : Move(c, from, to)
      \/ ReceiveOther(c)
      \/ \E from \in Steps, to \in Held, want \in BOOLEAN : Load(c, from, to, want)
  <2>1. ASSUME NEW b \in BOOLEAN, Receive(c, b)
        PROVE  Load(c, "looping", "changing", b) \/ Move(c, "looping", "leaving")
    BY <2>1 DEF Receive
  <2>2. Greet(c) => \E to \in {"looping", "parting", "reparting"} : Move(c, "greeting", to)
    BY DEF Greet
  <2>3. Change(c) => \E to \in {"looping", "parting", "leaving"} : Move(c, "changing", to)
    BY DEF Change
  <2>4. Part(c) => \/ Load(c, "parting", "clearing", FALSE)
                   \/ Load(c, "reparting", "reclearing", FALSE)
                   \/ \E from \in {"parting", "reparting"}, to \in {"reparting", "leaving"} :
                        Move(c, from, to)
    BY DEF Part, Recovery
  <2>5. /\ Clear(c) => \E from \in {"clearing", "reclearing"}, to \in {"reparting", "leaving"} :
                          Move(c, from, to)
        /\ Break(c) => Move(c, "looping", "leaving")
        /\ ReceiveEnds(c) => Move(c, "looping", "parting")
    BY DEF Clear, Recovery, Break, ReceiveEnds
  <2>6. /\ {"looping", "changing", "parting", "reparting", "leaving", "clearing", "reclearing"}
              \subseteq Held
        /\ {"looping", "changing", "greeting", "parting", "reparting", "clearing", "reclearing"}
              \subseteq Steps
    BY DEF Held, Steps
  <2> QED BY <2>1, <2>2, <2>3, <2>4, <2>5, <2>6
<1> QED BY <1>1, <1>2, <1>3 DEF ReceiveOther

LEMMA OwnedStep ==
  ASSUME TypeOK, Owned, [Next]_vars
  PROVE  Owned'
<1>1. ASSUME NEW s \in Student, NEW t \in Token, MintCommit(s, t) PROVE Owned'
  <2>1. minted' = minted \cup {t} /\ t \notin minted
    BY <1>1 DEF MintCommit
  <2>2. \A u \in Token, z \in Student : Owns(u, z)' => Owns(u, z) \/ (u = t /\ z = s)
    BY <1>1 DEF MintCommit, Owns, TypeOK, registry
  <2>3. \A z \in Student : ~Owns(t, z)
    BY <2>1 DEF Owned
  <2>4. \A u \in Token, s1, s2 \in Student : Owns(u, s1)' /\ Owns(u, s2)' => s1 = s2
    BY <2>2, <2>3 DEF Owned
  <2>5. \A u \in Token \ minted', z \in Student : ~Owns(u, z)'
    BY <2>1, <2>2 DEF Owned
  <2> QED BY <2>4, <2>5 DEF Owned
<1>2. ASSUME NEW c \in Conn, Verify(c) PROVE Owned'
  <2>1. UNCHANGED <<wsToken, tokenStudent, minted>>
    BY <1>2 DEF Verify, row, registry
  <2>2. \A d \in Conn : /\ conn'[d].token = conn[d].token
                        /\ \/ conn'[d].who = conn[d].who
                           \/ conn'[d].who = None
                           \/ conn'[d].who \in Student /\ wsToken[conn'[d].who] = conn'[d].token
    BY <1>2 DEF Verify, TypeOK, Co
  <2>3. \A t \in Token, s \in Student : Owns(t, s)' => Owns(t, s)
    BY <2>1, <2>2, NoneAssumption DEF Owns
  <2> QED BY <2>1, <2>3, OwnedKept
<1>3. ASSUME NEW c \in Conn, Accept(c) PROVE Owned'
  <2>1. UNCHANGED <<wsToken, minted>>
    BY <1>3 DEF Accept, row
  <2>2. \A d \in Conn : conn'[d].token = conn[d].token /\ conn'[d].who = conn[d].who
    BY <1>3 DEF Accept, Move, TypeOK, Co
  <2>3. \A t \in Token : \/ tokenStudent'[t] = tokenStudent[t]
                         \/ t = conn[c].token /\ tokenStudent'[t] = conn[c].who
    BY <1>3 DEF Accept, connect, registry, TypeOK
  <2>4. \A t \in Token, s \in Student : Owns(t, s)' => Owns(t, s)
    BY <2>1, <2>2, <2>3 DEF Owns
  <2> QED BY <2>1, <2>4, OwnedKept
<1>4. ASSUME NEW c \in Conn, Leave(c) PROVE Owned'
  <2>1. UNCHANGED <<wsToken, minted>>
    BY <1>4 DEF Leave, row
  <2>2. \A d \in Conn : conn'[d] = conn[d] \/ conn'[d].who = None
    BY <1>4 DEF Leave, TypeOK, Free, Co
  <2>3. \A t \in Token : tokenStudent'[t] \in {tokenStudent[t], None}
    BY <1>4 DEF Leave, disconnect, TypeOK
  <2>4. \A t \in Token, s \in Student : Owns(t, s)' => Owns(t, s)
    BY <2>1, <2>2, <2>3, NoneAssumption DEF Owns
  <2> QED BY <2>1, <2>4, OwnedKept
<1>5. ASSUME NEW c \in Conn,
             \/ \E b \in BOOLEAN : Receive(c, b)
             \/ ReceiveOther(c) \/ Greet(c) \/ Change(c) \/ Part(c) \/ Clear(c) \/ Break(c) \/ ReceiveEnds(c)
      PROVE  Owned'
  <2>1. UNCHANGED <<wsToken, tokenStudent, minted>>
    BY <1>5 DEF Receive, ReceiveOther, Counted, Greet, Change, Part, Clear, Break, ReceiveEnds,
                row, registry
  <2>2. \A d \in Conn : conn'[d].token = conn[d].token /\ conn'[d].who = conn[d].who
    BY <1>5, ConnKeeps
  <2>3. \A t \in Token, s \in Student : Owns(t, s)' => Owns(t, s)
    BY <2>1, <2>2 DEF Owns
  <2> QED BY <2>1, <2>3, OwnedKept
<1>6. ASSUME NEW s \in Student,
             ReportLoad(s) \/ FailureCommit(s) \/ EndExam(s) \/ Delete(s)
      PROVE  Owned'
  <2>1. UNCHANGED <<wsToken, tokenStudent, minted, conn>>
    BY <1>6 DEF ReportLoad, FailureCommit, EndExam, Delete, row, registry
  <2> QED BY <2>1, OwnedKept DEF Owns
<1>7. ASSUME NEW c \in Conn, (\E t \in minted : Open(c, t)) \/ Vanish(c) PROVE Owned'
  <2>1. UNCHANGED <<wsToken, tokenStudent, minted>>
    BY <1>7 DEF Open, Vanish, row, registry
  <2>2. \A d \in Conn : conn'[d] = conn[d] \/ conn'[d].who = None
    BY <1>7 DEF Open, Vanish, TypeOK, Co
  <2>3. \A t \in Token, s \in Student : Owns(t, s)' => Owns(t, s)
    BY <2>1, <2>2, NoneAssumption DEF Owns
  <2> QED BY <2>1, <2>3, OwnedKept
<1>8. CASE Restart
  <2>1. UNCHANGED <<wsToken, minted>>
    BY <1>8 DEF Restart, row
  <2>2. /\ \A t \in Token : tokenStudent'[t] = None
        /\ \A d \in Conn : conn'[d].who = None
    BY <1>8 DEF Restart, Free, Co
  <2>3. \A t \in Token, s \in Student : Owns(t, s)' => Owns(t, s)
    BY <2>1, <2>2, NoneAssumption DEF Owns
  <2> QED BY <2>1, <2>3, OwnedKept
<1>9. CASE UNCHANGED vars
  BY <1>9, OwnedKept DEF vars, row, registry, Owns
<1> QED BY <1>1, <1>2, <1>3, <1>4, <1>5, <1>6, <1>7, <1>8, <1>9 DEF Next, Run

---------------------------------------------------------------------------
(* The maps agree and every entry has its coroutine *)

LEMMA CoherentStep ==
  ASSUME TypeOK, Owned, RegistryCoherent, [Next]_vars
  PROVE  RegistryCoherent'
<1>1. ASSUME NEW c \in Conn, Accept(c), connect(c, conn[c].token, conn[c].who)
      PROVE  RegistryCoherent'
  <2> DEFINE t == conn[c].token
             s == conn[c].who
  <2>1. /\ t \in Token /\ s \in Student
        /\ connect(c, t, s)
    BY <1>1 DEF Accept, TypeOK
  <2>2. \A z \in Student : tokenStudent[t] = z => z = s
    BY <2>1 DEF Owned, Owns
  <2>3. \A u \in Token : active'[u] # None <=> tokenStudent'[u] # None
    BY <2>1, NoneAssumption DEF connect, RegistryCoherent, TypeOK
  <2>4. ASSUME NEW z \in Student, studentToken'[z] # None
        PROVE  /\ active'[studentToken'[z]] # None
               /\ tokenStudent'[studentToken'[z]] = z
               /\ z \in ever'
    <3>1. CASE z = s
      BY <2>1, <3>1, NoneAssumption DEF connect, TypeOK
    <3>2. CASE z # s
      <4>1. studentToken'[z] = studentToken[z] /\ studentToken[z] \in Token \ {t}
        BY <2>1, <2>2, <2>4, <3>2 DEF connect, RegistryCoherent, TypeOK, is_connected
      <4> QED BY <2>1, <2>4, <4>1 DEF connect, RegistryCoherent, TypeOK, is_connected
    <3> QED BY <3>1, <3>2
  <2> QED BY <2>3, <2>4 DEF RegistryCoherent, is_connected
<1>2. ASSUME NEW c \in Conn, Leave(c) PROVE RegistryCoherent'
  <2> DEFINE t == conn[c].token
  <2>1. t \in Token /\ disconnect(t)
    BY <1>2 DEF Leave, TypeOK
  <2>2. \A u \in Token : active'[u] # None <=> tokenStudent'[u] # None
    BY <2>1 DEF disconnect, RegistryCoherent, TypeOK
  <2>3. ASSUME NEW z \in Student, studentToken'[z] # None
        PROVE  /\ active'[studentToken'[z]] # None
               /\ tokenStudent'[studentToken'[z]] = z
               /\ z \in ever'
    <3>1. /\ studentToken'[z] = studentToken[z] /\ studentToken[z] \in Token
          /\ ~(active[t] # None /\ tokenStudent[t] = z)
      BY <2>1, <2>3 DEF disconnect, TypeOK
    <3>2. studentToken[z] # t
      BY <2>3, <3>1 DEF RegistryCoherent, is_connected
    <3> QED BY <2>1, <2>3, <3>1, <3>2 DEF disconnect, RegistryCoherent, TypeOK, is_connected
  <2> QED BY <2>2, <2>3 DEF RegistryCoherent, is_connected
<1>3. CASE Restart
  BY <1>3 DEF Restart, RegistryCoherent, is_connected
<1>4. CASE UNCHANGED <<active, tokenStudent, studentToken, ever>>
  BY <1>4 DEF RegistryCoherent, is_connected
<1>5. \/ \E c \in Conn : Accept(c) /\ connect(c, conn[c].token, conn[c].who)
      \/ \E c \in Conn : Leave(c)
      \/ Restart
      \/ UNCHANGED <<active, tokenStudent, studentToken, ever>>
  BY DEF Next, Run, Open, Receive, ReceiveOther, Counted, Verify, registry, Accept, Greet, Change, Break, ReceiveEnds, Part, Clear,
         Vanish, ReportLoad, MintCommit, FailureCommit, EndExam, Delete, vars
<1> QED BY <1>1, <1>2, <1>3, <1>4, <1>5

LEMMA BackedStep ==
  ASSUME TypeOK, ActiveBacked, [Next]_vars
  PROVE  ActiveBacked'
<1>1. ASSUME NEW c \in Conn, Accept(c) PROVE ActiveBacked'
  <2>1. \A d \in Conn : d # c => conn'[d] = conn[d]
    BY <1>1 DEF Accept, Move, TypeOK
  <2>2. conn[c].pc = "accepting" /\ conn[c].token \in Token
    BY <1>1 DEF Accept, TypeOK
  <2>3. \A t \in Token : active[t] # c
    BY <2>2, NoneAssumption DEF ActiveBacked, Held
  <2>4. CASE connect(c, conn[c].token, conn[c].who) /\ conn' = [conn EXCEPT ![c] =
               Co("greeting", conn[c].token, conn[c].who, conn[c].saw, TRUE)]
    <3>1. /\ conn'[c].token = conn[c].token /\ conn'[c].pc = "greeting"
          /\ active' = [active EXCEPT ![conn[c].token] = c]
      BY <2>4 DEF connect, TypeOK, Co
    <3> QED BY <2>1, <2>2, <2>3, <3>1 DEF ActiveBacked, Held, TypeOK
  <2>5. CASE UNCHANGED registry
    <3>1. active' = active
      BY <2>5 DEF registry
    <3> QED BY <2>1, <2>3, <3>1 DEF ActiveBacked, TypeOK
  <2> QED BY <1>1, <2>4, <2>5 DEF Accept
<1>2. ASSUME NEW c \in Conn, Leave(c) PROVE ActiveBacked'
  <2>1. \A d \in Conn : d # c => conn'[d] = conn[d]
    BY <1>2 DEF Leave, TypeOK
  <2>2. active' = [active EXCEPT ![conn[c].token] = None]
    BY <1>2 DEF Leave, disconnect
  <2> QED BY <2>1, <2>2 DEF ActiveBacked, TypeOK
<1>3. ASSUME NEW c \in Conn, (\E t \in minted : Open(c, t)) \/ Verify(c) PROVE ActiveBacked'
  <2>1. /\ \A d \in Conn : d # c => conn'[d] = conn[d]
        /\ conn[c].pc \in {"free", "verifying"}
        /\ active' = active
    BY <1>3 DEF Open, Verify, registry, TypeOK
  <2>2. \A t \in Token : active[t] # c
    BY <2>1, NoneAssumption DEF ActiveBacked, Held
  <2> QED BY <2>1, <2>2 DEF ActiveBacked, TypeOK
<1>4. ASSUME NEW c \in Conn,
             \/ \E b \in BOOLEAN : Receive(c, b)
             \/ ReceiveOther(c) \/ Greet(c) \/ Change(c) \/ Part(c) \/ Clear(c) \/ Break(c) \/ ReceiveEnds(c)
      PROVE  ActiveBacked'
  <2>1. active' = active
    BY <1>4 DEF Receive, ReceiveOther, Counted, Greet, Change, Part, Clear, Break, ReceiveEnds,
                registry
  <2>2. \A d \in Conn : /\ conn'[d].token = conn[d].token
                        /\ conn[d].pc \in Held => conn'[d].pc \in Held
    BY <1>4, ConnKeeps
  <2> QED BY <2>1, <2>2 DEF ActiveBacked, TypeOK
<1>5. CASE Restart
  BY <1>5 DEF Restart, ActiveBacked
<1>6. CASE UNCHANGED <<active, conn>>
  BY <1>6 DEF ActiveBacked
<1>7. ASSUME (\E c \in Conn : Vanish(c)) \/ UNCHANGED vars
             \/ \E s \in Student : \/ ReportLoad(s) \/ FailureCommit(s) \/ EndExam(s) \/ Delete(s)
                                   \/ \E t \in Token : MintCommit(s, t)
      PROVE  UNCHANGED <<active, conn>>
  BY <1>7 DEF Vanish, ReportLoad, FailureCommit, EndExam, Delete, MintCommit, vars, registry
<1> QED BY <1>1, <1>2, <1>3, <1>4, <1>5, <1>6, <1>7 DEF Next, Run

---------------------------------------------------------------------------
(* A socket that ran alone is known, and leaves no window behind *)

\* a socket let in, until the handler of its end has run
Served == Serving \cup {"accepting"}
\* a socket on its way out
Parting == {"reparting", "reclearing", "leaving"}

\* An entry of the registry is of the student its coroutine serves.
EntryMatches ==
  \A t \in Token : active[t] # None => conn[active[t]].who = tokenStudent[t]

\* Two coroutines of one token have tangled it.
OneToken ==
  \A c, d \in Conn :
    c # d /\ conn[c].pc # "free" /\ conn[d].pc # "free" /\ conn[c].token = conn[d].token =>
      conn[c].token \in tangled

\* A second coroutine of the student has tangled the token, or it was refused and
\* is on its way out, with nothing of its own on the registry.
Refused(d) == conn[d].pc \in Parting /\ active[conn[d].token] # d
OneStudent ==
  \A c, d \in Conn :
    c # d /\ conn[c].pc \in Served /\ conn[d].pc # "free" /\ conn[d].who = conn[c].who =>
      conn[c].token \in tangled \/ Refused(d)

Apart == EntryMatches /\ OneToken /\ OneStudent
LoneInv == Inv /\ Apart /\ LoneSocketIsKnown /\ WindowsHaveSockets

\* What the steps of a coroutine between accept() and the finally block do.
Ordinary(c) ==
  \/ \E b \in BOOLEAN : Receive(c, b)
  \/ ReceiveOther(c) \/ Greet(c) \/ Change(c) \/ Part(c) \/ Clear(c) \/ Break(c) \/ ReceiveEnds(c)

LEMMA OrdinaryStep ==
  ASSUME TypeOK, NEW c \in Conn, Ordinary(c)
  PROVE  /\ UNCHANGED <<active, tokenStudent, studentToken, tangled>>
         /\ \A d \in Conn : /\ conn'[d].token = conn[d].token /\ conn'[d].who = conn[d].who
                            /\ d # c => conn'[d] = conn[d]
         /\ conn[c].pc \in Held /\ conn'[c].pc \in Held
         /\ conn[c].pc \in Parting => conn'[c].pc \in Parting
         /\ \A t \in windows' \ windows : conn[c].pc = "looping" /\ t = conn[c].token
<1>1. UNCHANGED <<active, tokenStudent, studentToken, tangled>>
  BY DEF Ordinary, Receive, ReceiveOther, Counted, Greet, Change, Part, Clear, Break, ReceiveEnds,
         registry, history
<1>2. /\ \A d \in Conn : conn'[d].token = conn[d].token /\ conn'[d].who = conn[d].who
      /\ conn[c].pc \in Held => conn'[c].pc \in Held
  BY ConnKeeps DEF Ordinary
<1>3. /\ \A d \in Conn : d # c => conn'[d] = conn[d]
      /\ conn[c].pc \in Held
      /\ conn[c].pc \in Parting => conn'[c].pc \in Parting
  <2>1. ASSUME NEW from \in Serving, NEW to \in Steps, Move(c, from, to)
        PROVE  (\A d \in Conn : d # c => conn'[d] = conn[d]) /\ conn[c].pc \in Serving
    BY <2>1 DEF Move, TypeOK
  <2>2. ASSUME NEW from \in Serving, NEW to \in Steps, NEW want, Load(c, from, to, want)
        PROVE  (\A d \in Conn : d # c => conn'[d] = conn[d]) /\ conn[c].pc \in Serving
    BY <2>2 DEF Load, TypeOK
  <2>3. CASE Part(c) \/ Clear(c)
    <3>1. \/ \E to \in {"reparting", "leaving"} :
               /\ Move(c, conn[c].pc, to)
               /\ conn[c].pc \in {"parting", "reparting", "clearing", "reclearing"}
          \/ Load(c, "parting", "clearing", FALSE)
          \/ Load(c, "reparting", "reclearing", FALSE)
      BY <2>3 DEF Part, Clear, Recovery
    <3>2. CASE \E to \in {"reparting", "leaving"} : Move(c, conn[c].pc, to)
      BY <3>1, <3>2 DEF Move, Co, Load, Held, Parting, TypeOK
    <3>3. CASE Load(c, "parting", "clearing", FALSE)
      BY <3>3 DEF Load, Held, Parting, TypeOK
    <3>4. CASE Load(c, "reparting", "reclearing", FALSE)
      BY <3>4 DEF Load, Co, Held, Parting, TypeOK
    <3> QED BY <3>1, <3>2, <3>3, <3>4
  <2>4. CASE ReceiveOther(c)
    BY <2>4 DEF ReceiveOther, Held
  <2>5. CASE (\E b \in BOOLEAN : Receive(c, b)) \/ Break(c) \/ ReceiveEnds(c)
    BY <2>1, <2>2, <2>5 DEF Receive, Break, ReceiveEnds, Serving, Steps, Held, Parting
  <2>6. CASE Greet(c) \/ Change(c)
    BY <2>1, <2>6 DEF Greet, Change, Serving, Steps, Held, Parting
  <2> QED BY <2>3, <2>4, <2>5, <2>6 DEF Ordinary, Parting
<1>4. \A t \in windows' \ windows : conn[c].pc = "looping" /\ t = conn[c].token
  BY DEF Ordinary, Receive, ReceiveOther, Counted, Load, Move, Greet, Change, Part, Clear, Break,
         ReceiveEnds, registry
<1> QED BY <1>1, <1>2, <1>3, <1>4

LEMMA ApartStep ==
  ASSUME TypeOK, ActiveBacked, Apart, [Next]_vars
  PROVE  Apart'
<1>1. ASSUME NEW c \in Conn, Ordinary(c) PROVE Apart'
  <2>1. /\ UNCHANGED <<active, tokenStudent, studentToken, tangled>>
        /\ \A d \in Conn : /\ conn'[d].token = conn[d].token /\ conn'[d].who = conn[d].who
                           /\ d # c => conn'[d] = conn[d]
        /\ conn[c].pc \in Held /\ conn'[c].pc \in Held
        /\ conn[c].pc \in Parting => conn'[c].pc \in Parting
    BY <1>1, OrdinaryStep
  <2>2. EntryMatches'
    BY <2>1 DEF Apart, EntryMatches, TypeOK
  <2>3. OneToken'
    BY <2>1 DEF Apart, OneToken, Held
  <2>4. \A b \in Conn : Refused(b) => Refused(b)'
    BY <2>1 DEF Refused
  <2>6. conn'[c].pc \in Served => conn[c].pc \in Served
    BY <2>1 DEF Held, Parting, Served, Serving
  <2>5. OneStudent'
    BY <2>1, <2>4, <2>6 DEF Apart, OneStudent, Held
  <2> QED BY <2>2, <2>3, <2>5 DEF Apart
<1>2. ASSUME NEW c \in Conn, NEW t \in minted, Open(c, t) PROVE Apart'
  <2>1. /\ UNCHANGED <<active, tokenStudent>> /\ conn[c].pc = "free"
        /\ tangled' = tangled \cup ({t} \cap {conn[d].token : d \in Conn})
        /\ \A d \in Conn : d # c => conn'[d] = conn[d]
        /\ conn'[c].token = t /\ conn'[c].who = None /\ conn'[c].pc \in {"verifying", "leaving"}
    BY <1>2 DEF Open, registry, TypeOK, Co
  <2>2. EntryMatches'
    BY <2>1 DEF Apart, EntryMatches, ActiveBacked, Held, TypeOK
  <2>3. OneToken'
    BY <2>1 DEF Apart, OneToken
  <2>4. OneStudent'
    <3> SUFFICES ASSUME NEW a \in Conn, NEW b \in Conn, a # b, conn'[a].pc \in Served,
                        conn'[b].pc # "free", conn'[b].who = conn'[a].who
                 PROVE  conn'[a].token \in tangled' \/ Refused(b)'
      BY DEF OneStudent
    <3>1. a # c /\ conn[a].who \in Student
      BY <2>1 DEF Served, Serving, TypeOK
    <3>2. b # c
      BY <2>1, <3>1, NoneAssumption
    <3> QED BY <2>1, <3>1, <3>2 DEF Apart, OneStudent, Refused
  <2> QED BY <2>2, <2>3, <2>4 DEF Apart
<1>3. ASSUME NEW c \in Conn, Verify(c) PROVE Apart'
  <2>1. /\ UNCHANGED <<active, tokenStudent>> /\ conn[c].pc = "verifying"
        /\ tangled \subseteq tangled'
        /\ \A d \in Conn : d # c => conn'[d] = conn[d]
        /\ conn'[c].token = conn[c].token /\ conn'[c].pc \in {"accepting", "reparting", "leaving"}
    BY <1>3 DEF Verify, registry, TypeOK, Co
  <2>2. conn'[c].pc = "accepting" => tangled' = tangled \cup Twins(conn'[c].who)
                                       \cup {u \in {conn[c].token} : Twins(conn'[c].who) # {}}
    BY <1>3 DEF Verify, TypeOK, Co
  <2>3. \A t \in Token : active[t] # c
    BY <2>1, NoneAssumption DEF ActiveBacked, Held
  <2>4. EntryMatches'
    BY <2>1, <2>3 DEF Apart, EntryMatches, TypeOK
  <2>5. OneToken'
    BY <2>1 DEF Apart, OneToken
  <2>6. OneStudent'
    <3> SUFFICES ASSUME NEW a \in Conn, NEW b \in Conn, a # b, conn'[a].pc \in Served,
                        conn'[b].pc # "free", conn'[b].who = conn'[a].who
                 PROVE  conn'[a].token \in tangled' \/ Refused(b)'
      BY DEF OneStudent
    <3>1. CASE a # c /\ b # c
      BY <2>1, <3>1 DEF Apart, OneStudent, Refused
    <3>2. CASE a = c
      <4>1. conn'[c].pc = "accepting" /\ conn[b].token \in Twins(conn'[c].who)
        BY <2>1, <3>2 DEF Served, Serving, Twins
      <4> QED BY <2>1, <2>2, <3>2, <4>1
    <3>3. CASE b = c /\ conn'[c].pc # "accepting"
      <4>1. conn[c].token \in Token
        BY <2>1 DEF TypeOK
      <4> QED BY <2>1, <2>3, <3>3, <4>1 DEF Refused, Parting
    <3>4. CASE b = c /\ conn'[c].pc = "accepting"
      <4>1. conn[a].token \in Twins(conn'[c].who)
        BY <2>1, <3>4 DEF Served, Serving, Twins
      <4> QED BY <2>1, <2>2, <3>4, <4>1
    <3> QED BY <2>1, <3>1, <3>2, <3>3, <3>4
  <2> QED BY <2>4, <2>5, <2>6 DEF Apart
<1>4. ASSUME NEW c \in Conn, Accept(c) PROVE Apart'
  <2>1. /\ UNCHANGED tangled /\ conn[c].pc = "accepting" /\ conn[c].token \in Token
        /\ \A d \in Conn : /\ d # c => conn'[d] = conn[d]
                           /\ conn'[d].token = conn[d].token /\ conn'[d].who = conn[d].who
        /\ conn'[c].pc \in {"greeting", "reparting"}
    BY <1>4 DEF Accept, history, Move, TypeOK, Co
  <2>2. \/ UNCHANGED <<active, tokenStudent>>
        \/ /\ active' = [active EXCEPT ![conn[c].token] = c]
           /\ tokenStudent' = [tokenStudent EXCEPT ![conn[c].token] = conn[c].who]
    BY <1>4 DEF Accept, connect, registry
  <2>3. EntryMatches'
    BY <2>1, <2>2 DEF Apart, EntryMatches, TypeOK
  <2>4. OneToken'
    BY <2>1 DEF Apart, OneToken
  <2>5. \A b \in Conn : Refused(b) => Refused(b)'
    BY <2>1, <2>2 DEF Refused, Parting, TypeOK
  <2>7. ~Refused(c)
    BY <2>1 DEF Refused, Parting
  <2>6. OneStudent'
    BY <2>1, <2>5, <2>7 DEF Apart, OneStudent, Served, Serving
  <2> QED BY <2>3, <2>4, <2>6 DEF Apart
<1>5. ASSUME NEW c \in Conn, Leave(c) PROVE Apart'
  <2>1. /\ UNCHANGED tangled /\ conn[c].token \in Token
        /\ \A d \in Conn : d # c => conn'[d] = conn[d]
        /\ conn'[c].pc = "free"
        /\ active' = [active EXCEPT ![conn[c].token] = None]
        /\ tokenStudent' = [tokenStudent EXCEPT ![conn[c].token] = None]
    BY <1>5 DEF Leave, disconnect, history, TypeOK, Free, Co
  <2>2. EntryMatches'
    <3> SUFFICES ASSUME NEW t \in Token, active'[t] # None
                 PROVE  conn'[active'[t]].who = tokenStudent'[t]
      BY DEF EntryMatches
    <3>1. t # conn[c].token /\ active'[t] = active[t] /\ tokenStudent'[t] = tokenStudent[t]
      BY <2>1 DEF TypeOK
    <3>2. active[t] # c /\ active[t] \in Conn
      BY <3>1 DEF ActiveBacked, TypeOK
    <3> QED BY <2>1, <3>1, <3>2 DEF Apart, EntryMatches
  <2>3. OneToken'
    BY <2>1 DEF Apart, OneToken
  <2>4. \A b \in Conn : b # c /\ Refused(b) => Refused(b)'
    BY <2>1, NoneAssumption DEF Refused, TypeOK
  <2>5. OneStudent'
    BY <2>1, <2>4 DEF Apart, OneStudent, Served, Serving
  <2> QED BY <2>2, <2>3, <2>5 DEF Apart
<1>6. CASE Restart
  BY <1>6 DEF Restart, Apart, EntryMatches, OneToken, OneStudent, Free, Co
<1>7. CASE UNCHANGED <<active, tokenStudent, conn, tangled>>
  BY <1>7 DEF Apart, EntryMatches, OneToken, OneStudent, Refused
<1>8. ASSUME (\E c \in Conn : Vanish(c)) \/ UNCHANGED vars
             \/ \E s \in Student : \/ ReportLoad(s) \/ FailureCommit(s) \/ EndExam(s) \/ Delete(s)
                                   \/ \E t \in Token : MintCommit(s, t)
      PROVE  UNCHANGED <<active, tokenStudent, conn, tangled>>
  BY <1>8 DEF Vanish, ReportLoad, FailureCommit, EndExam, Delete, MintCommit, vars, registry, history
<1> QED BY <1>1, <1>2, <1>3, <1>4, <1>5, <1>6, <1>7, <1>8 DEF Next, Run, Ordinary

\* Who is on the registry as the one who serves s is c, unless two serve s.
LEMMA EntryIsOwn ==
  ASSUME Inv, Apart, NEW c \in Conn, NEW t \in Token,
         conn[c].pc \in Served, conn[c].token \notin tangled,
         active[t] # None, tokenStudent[t] = conn[c].who
  PROVE  active[t] = c /\ conn[c].token = t
<1> DEFINE e == active[t]
<1>1. e \in Conn /\ conn[e].token = t /\ conn[e].pc \in Held /\ conn[e].who = conn[c].who
  BY DEF Inv, TypeOK, ActiveBacked, Apart, EntryMatches
<1>2. ~Refused(e)
  BY <1>1 DEF Refused
<1>3. e = c
  BY <1>1, <1>2 DEF Apart, OneStudent, Held
<1> QED BY <1>1, <1>3

LEMMA LoneStep ==
  ASSUME LoneInv, [Next]_vars
  PROVE  LoneSocketIsKnown'
<1> USE DEF LoneInv
<1>0. TypeOK /\ RegistryCoherent
  BY DEF Inv
<1>1. ASSUME NEW c \in Conn, Ordinary(c) PROVE LoneSocketIsKnown'
  <2>1. /\ UNCHANGED <<active, studentToken, tangled>>
        /\ \A d \in Conn : /\ conn'[d].token = conn[d].token /\ conn'[d].who = conn[d].who
                           /\ d # c => conn'[d] = conn[d]
        /\ conn'[c].pc \in Serving => conn[c].pc \in Serving
    <3>1. conn'[c].pc \in Serving => conn'[c].pc \notin Parting
      BY DEF Serving, Parting
    <3>2. conn[c].pc \in Held => conn[c].pc \in Serving \cup Parting
      BY DEF Held, Serving, Parting
    <3> QED BY <1>0, <1>1, <3>1, <3>2, OrdinaryStep
  <2> QED BY <2>1 DEF LoneSocketIsKnown
<1>2. ASSUME NEW c \in Conn, (\E t \in minted : Open(c, t)) \/ Verify(c)
      PROVE  LoneSocketIsKnown'
  <2>1. /\ UNCHANGED <<active, studentToken>> /\ tangled \subseteq tangled'
        /\ \A d \in Conn : d # c => conn'[d] = conn[d]
        /\ conn'[c].pc \notin Serving
    BY <1>0, <1>2 DEF Open, Verify, registry, TypeOK, Co, Serving
  <2> QED BY <2>1 DEF LoneSocketIsKnown
<1>3. ASSUME NEW c \in Conn, Accept(c) PROVE LoneSocketIsKnown'
  <2>1. /\ UNCHANGED tangled /\ conn[c].pc = "accepting"
        /\ conn[c].token \in Token /\ conn[c].who \in Student
        /\ \A d \in Conn : d # c => conn'[d] = conn[d]
    BY <1>0, <1>3 DEF Accept, history, Move, TypeOK, Co
  <2>2. CASE UNCHANGED registry /\ conn'[c].pc = "reparting"
    BY <2>1, <2>2 DEF registry, LoneSocketIsKnown, Serving
  <2>3. CASE connect(c, conn[c].token, conn[c].who)
             /\ conn'[c].token = conn[c].token /\ conn'[c].who = conn[c].who
    <3>1. active'[conn[c].token] = c /\ studentToken'[conn[c].who] = conn[c].token
      BY <1>0, <2>1, <2>3 DEF connect, TypeOK
    <3>2. ASSUME NEW d \in Conn, d # c, conn[d].pc \in Serving, conn[d].token \notin tangled
          PROVE  active'[conn[d].token] = d /\ studentToken'[conn[d].who] = conn[d].token
      <4>1. conn[d].token # conn[c].token
        BY <2>1, <3>2 DEF Apart, OneToken, Serving
      <4>2. conn[d].who # conn[c].who
        BY <2>1, <3>2 DEF Apart, OneStudent, Refused, Parting, Served
      <4>3. conn[d].token \in Token /\ conn[d].who \in Student
        BY <1>0, <3>2 DEF TypeOK, Serving
      <4> QED BY <1>0, <2>3, <3>2, <4>1, <4>2, <4>3 DEF connect, TypeOK, LoneSocketIsKnown
    <3> QED BY <2>1, <2>3, <3>1, <3>2 DEF LoneSocketIsKnown
  <2> QED BY <1>0, <1>3, <2>2, <2>3 DEF Accept, Move, Co, TypeOK
<1>4. ASSUME NEW c \in Conn, Leave(c) PROVE LoneSocketIsKnown'
  <2>1. /\ UNCHANGED tangled /\ conn[c].pc = "leaving" /\ conn[c].token \in Token
        /\ conn'[c].pc = "free"
        /\ \A d \in Conn : d # c => conn'[d] = conn[d]
    BY <1>0, <1>4 DEF Leave, history, TypeOK, Free, Co
  <2> SUFFICES ASSUME NEW d \in Conn, d # c, conn[d].pc \in Serving, conn[d].token \notin tangled
               PROVE  active'[conn[d].token] = d /\ studentToken'[conn[d].who] = conn[d].token
    BY <2>1 DEF LoneSocketIsKnown, Serving
  <2>2. /\ conn[d].token \in Token /\ conn[d].who \in Student
        /\ active[conn[d].token] = d /\ studentToken[conn[d].who] = conn[d].token
    BY <1>0 DEF TypeOK, Serving, LoneSocketIsKnown
  <2>3. conn[d].token # conn[c].token
    BY <2>1 DEF Apart, OneToken, Serving
  <2>4. ~(active[conn[c].token] # None /\ tokenStudent[conn[c].token] = conn[d].who)
    BY <2>1, <2>3, EntryIsOwn DEF Served
  <2> QED BY <1>0, <1>4, <2>1, <2>2, <2>3, <2>4 DEF Leave, disconnect, TypeOK
<1>5. CASE Restart
  BY <1>5 DEF Restart, LoneSocketIsKnown, Serving, Free, Co
<1>6. CASE UNCHANGED <<active, studentToken, conn, tangled>>
  BY <1>6 DEF LoneSocketIsKnown
<1>7. ASSUME (\E c \in Conn : Vanish(c)) \/ UNCHANGED vars
             \/ \E s \in Student : \/ ReportLoad(s) \/ FailureCommit(s) \/ EndExam(s) \/ Delete(s)
                                   \/ \E t \in Token : MintCommit(s, t)
      PROVE  UNCHANGED <<active, studentToken, conn, tangled>>
  BY <1>7 DEF Vanish, ReportLoad, FailureCommit, EndExam, Delete, MintCommit, vars, registry, history
<1> QED BY <1>1, <1>2, <1>3, <1>4, <1>5, <1>6, <1>7 DEF Next, Run, Ordinary

LEMMA WindowsStep ==
  ASSUME LoneInv, [Next]_vars
  PROVE  WindowsHaveSockets'
<1> USE DEF LoneInv
<1>0. TypeOK
  BY DEF Inv
<1>1. ASSUME NEW c \in Conn, Ordinary(c) PROVE WindowsHaveSockets'
  <2>1. /\ UNCHANGED <<active, tangled>>
        /\ \A t \in windows' \ windows : conn[c].pc = "looping" /\ t = conn[c].token
    BY <1>0, <1>1, OrdinaryStep
  <2>2. \A t \in (windows' \ windows) \ tangled : active[t] = c
    BY <2>1 DEF LoneSocketIsKnown, Serving
  <2> QED BY <2>1, <2>2, NoneAssumption DEF WindowsHaveSockets
<1>2. ASSUME NEW c \in Conn, (\E t \in minted : Open(c, t)) \/ Verify(c)
      PROVE  WindowsHaveSockets'
  <2>1. UNCHANGED <<active, windows>> /\ tangled \subseteq tangled'
    BY <1>2 DEF Open, Verify, registry
  <2> QED BY <2>1 DEF WindowsHaveSockets
<1>3. ASSUME NEW c \in Conn, Accept(c) PROVE WindowsHaveSockets'
  <2>1. UNCHANGED <<windows, tangled>> /\ windows \subseteq Token
    BY <1>0, <1>3 DEF Accept, connect, registry, history, TypeOK
  <2>2. active' = active \/ active' = [active EXCEPT ![conn[c].token] = c]
    BY <1>3 DEF Accept, connect, registry
  <2>3. \A t \in Token : active[t] # None => active'[t] # None
    BY <1>0, <2>2, NoneAssumption DEF TypeOK
  <2> QED BY <2>1, <2>3 DEF WindowsHaveSockets
<1>4. ASSUME NEW c \in Conn, Leave(c) PROVE WindowsHaveSockets'
  <2> DEFINE t == conn[c].token
  <2>1. /\ UNCHANGED tangled /\ windows \subseteq Token
        /\ active' = [active EXCEPT ![t] = None]
        /\ windows' = windows \ {u \in {t} : active[u] # None}
    BY <1>0, <1>4 DEF Leave, disconnect, history, TypeOK
  <2>2. t \notin windows' \ tangled'
    BY <2>1 DEF WindowsHaveSockets
  <2> QED BY <1>0, <2>1, <2>2 DEF WindowsHaveSockets, TypeOK
<1>5. CASE Restart
  BY <1>5 DEF Restart, WindowsHaveSockets
<1>6. CASE UNCHANGED <<active, windows, tangled>>
  BY <1>6 DEF WindowsHaveSockets
<1>7. ASSUME (\E c \in Conn : Vanish(c)) \/ UNCHANGED vars
             \/ \E s \in Student : \/ ReportLoad(s) \/ FailureCommit(s) \/ EndExam(s) \/ Delete(s)
                                   \/ \E t \in Token : MintCommit(s, t)
      PROVE  UNCHANGED <<active, windows, tangled>>
  BY <1>7 DEF Vanish, ReportLoad, FailureCommit, EndExam, Delete, MintCommit, vars, registry, history
<1> QED BY <1>1, <1>2, <1>3, <1>4, <1>5, <1>6, <1>7 DEF Next, Run, Ordinary

---------------------------------------------------------------------------
(* The theorems *)

LEMMA InvInit == Init => Inv
<1> SUFFICES ASSUME Init PROVE Inv
  OBVIOUS
<1>1. TypeOK
  BY TypeInit
<1>2. Owned
  BY NoneAssumption DEF Init, Owned, Owns, Free, Co
<1>3. RegistryCoherent /\ ActiveBacked
  BY DEF Init, RegistryCoherent, ActiveBacked, is_connected
<1> QED BY <1>1, <1>2, <1>3 DEF Inv

LEMMA InvStep == Inv /\ [Next]_vars => Inv'
BY TypeStep, OwnedStep, CoherentStep, BackedStep DEF Inv

LEMMA Invariance == Spec => []Inv
BY InvInit, InvStep, PTL DEF Spec

\* Every variable keeps its type; a coroutine that has loaded its student knows it.
THEOREM TypeCorrect == Spec => []TypeOK
BY Invariance, PTL DEF Inv

\* The maps of WebSocketManager never disagree, however many tabs a student opens
\* and in whatever order their coroutines run.
THEOREM Coherence == Spec => []RegistryCoherent
BY Invariance, PTL DEF Inv

\* No entry of the registry outlives the coroutine that made it.
THEOREM NoGhosts == Spec => []ActiveBacked
BY Invariance, PTL DEF Inv

LEMMA LoneInvariance == Spec => []LoneInv
<1>1. Init => LoneInv
  BY InvInit DEF Init, LoneInv, Apart, EntryMatches, OneToken, OneStudent, LoneSocketIsKnown,
                 WindowsHaveSockets, Serving, Free, Co
<1>2. LoneInv /\ [Next]_vars => LoneInv'
  BY InvStep, ApartStep, LoneStep, WindowsStep DEF LoneInv, Inv
<1> QED BY <1>1, <1>2, PTL DEF Spec

\* A student whose socket is served is on the registry under the token of that socket,
\* for any number of students, tokens and sockets, as long as no two coroutines of his
\* ran at once.
THEOREM ServedIsKnown == Spec => []LoneSocketIsKnown
BY LoneInvariance, PTL DEF LoneInv

\* No rate window is left behind by a token of which one coroutine at a time ran.
THEOREM NoWindowLeft == Spec => []WindowsHaveSockets
BY LoneInvariance, PTL DEF LoneInv

---------------------------------------------------------------------------
(* The registry as other handlers see it                                  *)

Writing == {s \in Student : status[s] = "in_progress"}
Online == {s \in Student : is_connected(s)}
Handshake == [c \in Conn |-> IF conn[c].pc = "accepting" THEN conn[c].who ELSE None]

\* The handshake of c starts, ends, or is none before and after.
LEMMA HandshakeMoves ==
  ASSUME TypeOK, NEW c \in Conn, NEW pc, NEW t, NEW s, NEW saw, NEW want,
         conn' = [conn EXCEPT ![c] = Co(pc, t, s, saw, want)]
  PROVE  /\ pc = "accepting" => Handshake' = [Handshake EXCEPT ![c] = s]
         /\ pc # "accepting" => Handshake' = [Handshake EXCEPT ![c] = None]
         /\ pc # "accepting" /\ conn[c].pc # "accepting" => Handshake' = Handshake
<1>1. /\ \A d \in Conn : d # c => conn'[d] = conn[d]
      /\ conn'[c].pc = pc /\ conn'[c].who = s
  BY DEF TypeOK, Co
<1>2. \A d \in Conn : d # c => Handshake'[d] = Handshake[d]
  BY <1>1 DEF Handshake
<1>3. Handshake'[c] = IF pc = "accepting" THEN s ELSE None
  BY <1>1 DEF Handshake
<1>4. Handshake[c] = IF conn[c].pc = "accepting" THEN conn[c].who ELSE None
  BY DEF Handshake
<1>5. /\ Handshake = [d \in Conn |-> Handshake[d]]
      /\ Handshake' = [d \in Conn |-> Handshake'[d]]
  BY DEF Handshake
<1> HIDE DEF Handshake
<1> QED BY <1>2, <1>3, <1>4, <1>5

LEMMA HandshakeEnds ==
  ASSUME TypeOK, NEW c \in Conn, NEW pc \in Steps \ {"accepting"}, NEW t, NEW s, NEW saw, NEW want,
         conn' = [conn EXCEPT ![c] = Co(pc, t, s, saw, want)]
  PROVE  /\ Handshake' = [Handshake EXCEPT ![c] = None]
         /\ conn[c].pc # "accepting" => Handshake' = Handshake
BY HandshakeMoves

LEMMA HandshakeApart ==
  ASSUME TypeOK, NEW c \in Conn, NEW from \in Steps \ {"accepting"},
         NEW to \in Steps \ {"accepting"}
  PROVE  /\ Move(c, from, to) => Handshake' = Handshake
         /\ \A want \in BOOLEAN : Load(c, from, to, want) => Handshake' = Handshake
<1>1. ASSUME Move(c, from, to) PROVE Handshake' = Handshake
  BY <1>1, HandshakeEnds DEF Move
<1>2. ASSUME NEW want \in BOOLEAN, Load(c, from, to, want) PROVE Handshake' = Handshake
  BY <1>2, HandshakeEnds DEF Load
<1> QED BY <1>1, <1>2

\* The steps of the board, in the terms of this module.
LEMMA ConnActions ==
  ASSUME NEW c \in Conn
  PROVE  /\ \A s \in Student :
              Handshake[c] = None /\ s \in Writing \ Online
              /\ Handshake' = [Handshake EXCEPT ![c] = s]
              /\ UNCHANGED <<Writing, Online, ever>> => Board!Next
         /\ Handshake[c] # None /\ Online' = Online \cup {Handshake[c]}
            /\ ever' = ever \cup {Handshake[c]} /\ Handshake' = [Handshake EXCEPT ![c] = None]
            /\ UNCHANGED Writing => Board!Next
         /\ Handshake[c] # None /\ Handshake' = [Handshake EXCEPT ![c] = None]
            /\ UNCHANGED <<Writing, Online, ever>> => Board!Next
<1>1. ASSUME NEW s \in Student, Handshake[c] = None, s \in Writing \ Online,
             Handshake' = [Handshake EXCEPT ![c] = s], UNCHANGED <<Writing, Online, ever>>
      PROVE  Board!Admit(c, s)
  BY <1>1 DEF Board!Admit, Writing, Online, Handshake
<1>2. ASSUME Handshake[c] # None, Online' = Online \cup {Handshake[c]},
             ever' = ever \cup {Handshake[c]}, Handshake' = [Handshake EXCEPT ![c] = None],
             UNCHANGED Writing
      PROVE  Board!Register(c)
  BY <1>2 DEF Board!Register, Writing, Online, Handshake
<1>3. ASSUME Handshake[c] # None, Handshake' = [Handshake EXCEPT ![c] = None],
             UNCHANGED <<Writing, Online, ever>>
      PROVE  Board!Abandon(c)
  BY <1>3 DEF Board!Abandon, Writing, Online, Handshake
<1>4. (\E s \in Student : Board!Admit(c, s)) \/ Board!Register(c) \/ Board!Abandon(c) => Board!Next
  BY DEF Board!Next
<1> QED BY <1>1, <1>2, <1>3, <1>4

LEMMA StudentActions ==
  ASSUME NEW s \in Student
  PROVE  /\ s \in Online /\ Online' = Online \ {s}
            /\ UNCHANGED <<Writing, ever, Handshake>> => Board!Next
         /\ Writing' \in {Writing \cup {s}, Writing \ {s}}
            /\ UNCHANGED <<Online, ever, Handshake>> => Board!Next
BY DEF Board!Next, Board!Drop, Board!Paper, Writing, Online, Handshake

LEMMA BoardStutters ==
  UNCHANGED <<Writing, Online, ever, Handshake>> => UNCHANGED Board!vars
BY DEF Board!vars, Writing, Online, Handshake

\* connect puts one student on the board; disconnect takes at most one off.
LEMMA ConnectShows ==
  ASSUME TypeOK, NEW c \in Conn, NEW t \in Token, NEW s \in Student, connect(c, t, s)
  PROVE  Online' = Online \cup {s} /\ ever' = ever \cup {s}
<1>1. \A u \in Student : studentToken'[u] = IF u = s THEN t ELSE studentToken[u]
  BY DEF connect, TypeOK
<1>2. t # None
  BY NoneAssumption
<1> QED BY <1>1, <1>2 DEF connect, Online, is_connected

LEMMA DisconnectShows ==
  ASSUME TypeOK, NEW t \in Token, disconnect(t)
  PROVE  /\ ever' = ever
         /\ \/ Online' = Online
            \/ \E s \in Online : Online' = Online \ {s}
<1>1. \A u \in Student :
        studentToken'[u] = IF active[t] # None /\ tokenStudent[t] = u THEN None ELSE studentToken[u]
  BY DEF disconnect
<1>2. CASE active[t] # None /\ tokenStudent[t] \in Online
  <2>1. Online' = Online \ {tokenStudent[t]}
    BY <1>1, <1>2 DEF Online, is_connected
  <2> QED BY <1>2, <2>1 DEF disconnect
<1>3. CASE ~(active[t] # None /\ tokenStudent[t] \in Online)
  <2>1. Online' = Online
    BY <1>1, <1>3 DEF Online, is_connected
  <2> QED BY <2>1 DEF disconnect
<1> QED BY <1>2, <1>3

LEMMA BoardRun ==
  ASSUME TypeOK, NEW c \in Conn, Run(c)
  PROVE  Board!Next \/ UNCHANGED Board!vars
<1> USE NoneAssumption
<1>1. CASE Verify(c)
  <2>1. UNCHANGED <<Writing, Online, ever>> /\ conn[c].pc = "verifying"
    BY <1>1 DEF Verify, row, registry, Writing, Online, is_connected
  <2>2. Handshake[c] = None
    BY <2>1 DEF Handshake
  <2>3. ASSUME NEW s \in Student, wsToken[s] = conn[c].token /\ status[s] = "in_progress",
               ~is_connected(s),
               conn' = [conn EXCEPT ![c] = Co("accepting", conn[c].token, s, fullscreen[s], TRUE)]
        PROVE  Board!Next
    <3>1. Handshake' = [Handshake EXCEPT ![c] = s]
      BY <2>3, HandshakeMoves
    <3>2. s \in Writing \ Online
      BY <2>3 DEF Writing, Online
    <3> QED BY <2>1, <2>2, <3>1, <3>2, ConnActions
  <2>4. ASSUME NEW s, NEW pc \in {"leaving", "reparting"},
               conn' = [conn EXCEPT ![c] = Co(pc, conn[c].token, s, FALSE, FALSE)]
        PROVE  UNCHANGED Board!vars
    <3>1. pc \in Steps \ {"accepting"}
      BY DEF Steps
    <3>2. Handshake' = Handshake
      BY <2>1, <2>4, <3>1, HandshakeEnds
    <3> QED BY <2>1, <3>2, BoardStutters
  <2> QED BY <1>1, <2>3, <2>4 DEF Verify
<1>2. CASE Accept(c)
  <2>1. /\ conn[c].pc = "accepting" /\ conn[c].who \in Student /\ conn[c].token \in Token
        /\ UNCHANGED <<Writing>>
    BY <1>2 DEF Accept, TypeOK, row, Writing
  <2>2. Handshake[c] = conn[c].who /\ Handshake[c] # None
    BY <2>1 DEF Handshake
  <2>3. CASE /\ connect(c, conn[c].token, conn[c].who)
             /\ conn' = [conn EXCEPT ![c] =
                           Co("greeting", conn[c].token, conn[c].who, conn[c].saw, TRUE)]
    <3>1. Handshake' = [Handshake EXCEPT ![c] = None]
      BY <2>3, HandshakeEnds DEF Steps
    <3>2. Online' = Online \cup {Handshake[c]} /\ ever' = ever \cup {Handshake[c]}
      BY <2>1, <2>2, <2>3, ConnectShows
    <3> QED BY <2>1, <2>2, <3>1, <3>2, ConnActions
  <2>4. CASE Move(c, "accepting", "reparting") /\ UNCHANGED registry
    <3>1. Handshake' = [Handshake EXCEPT ![c] = None]
      BY <2>4, HandshakeEnds DEF Move, Steps
    <3>2. UNCHANGED <<Online, ever>>
      BY <2>4 DEF registry, Online, is_connected
    <3> QED BY <2>1, <2>2, <3>1, <3>2, ConnActions
  <2> QED BY <1>2, <2>3, <2>4 DEF Accept
<1>3. CASE Leave(c)
  <2>1. Handshake' = Handshake /\ Writing' = Writing
    BY <1>3, HandshakeEnds DEF Leave, Free, row, Writing, Steps
  <2>2. conn[c].token \in Token
    BY <1>3 DEF Leave, TypeOK
  <2>3. ever' = ever /\ (Online' = Online \/ \E s \in Online : Online' = Online \ {s})
    BY <1>3, <2>2, DisconnectShows DEF Leave
  <2>4. Online \subseteq Student
    BY DEF Online
  <2> QED BY <2>1, <2>3, <2>4, StudentActions, BoardStutters
<1>4. CASE Greet(c) \/ Change(c) \/ Part(c) \/ Clear(c)
  <2>1. UNCHANGED <<status, registry>>
    BY <1>4 DEF Greet, Change, Part, Clear, row, registry
  <2>2. UNCHANGED <<Writing, Online, ever>>
    BY <2>1 DEF registry, Writing, Online, is_connected
  <2>3. Handshake' = Handshake
    <3>1. CASE Greet(c)
      BY <3>1, HandshakeApart DEF Greet, Steps
    <3>2. CASE Change(c)
      BY <3>2, HandshakeApart DEF Change, Steps
    <3>3. CASE Part(c) \/ Clear(c)
      <4>1. /\ conn[c].pc \in Steps \ {"accepting"}
            /\ Recovery(conn[c].pc) \in Steps \ {"accepting"}
        BY <3>3 DEF Part, Clear, Recovery, Steps
      <4> QED BY <3>3, <4>1, HandshakeApart DEF Part, Clear, Steps
    <3> QED BY <1>4, <3>1, <3>2, <3>3
  <2> QED BY <2>2, <2>3, BoardStutters
<1> QED BY <1>1, <1>2, <1>3, <1>4 DEF Run

LEMMA BoardStep ==
  ASSUME TypeOK, [Next]_vars
  PROVE  Board!Next \/ UNCHANGED Board!vars
<1>1. ASSUME NEW c \in Conn, NEW t \in Token, Open(c, t) PROVE UNCHANGED Board!vars
  <2>1. UNCHANGED <<Writing, Online, ever>>
    BY <1>1 DEF Open, row, registry, Writing, Online, is_connected
  <2>2. Handshake' = Handshake
    <3>1. PICK pc \in {"verifying", "leaving"} :
            conn' = [conn EXCEPT ![c] = Co(pc, t, None, FALSE, FALSE)]
      BY <1>1 DEF Open
    <3>2. pc \in Steps \ {"accepting"} /\ conn[c].pc # "accepting"
      BY <1>1 DEF Open, Steps
    <3> QED BY <3>1, <3>2, HandshakeEnds
  <2> QED BY <2>1, <2>2, BoardStutters
<1>2. ASSUME NEW c \in Conn,
             (\E b \in BOOLEAN : Receive(c, b)) \/ ReceiveOther(c) \/ Break(c) \/ ReceiveEnds(c) \/ Vanish(c)
      PROVE  UNCHANGED Board!vars
  <2>1. UNCHANGED <<Writing, Online, ever>>
    BY <1>2 DEF Receive, ReceiveOther, Break, ReceiveEnds, Vanish, Counted, row, registry,
                Writing, Online, is_connected
  <2>2. conn' = conn \/ Handshake' = Handshake
    <3>1. ASSUME NEW b \in BOOLEAN, Receive(c, b) PROVE Handshake' = Handshake
      BY <3>1, HandshakeApart DEF Receive, Steps
    <3>2. CASE Break(c) \/ ReceiveEnds(c)
      BY <3>2, HandshakeApart DEF Break, ReceiveEnds, Steps
    <3>3. CASE ReceiveOther(c) \/ Vanish(c)
      BY <3>3 DEF ReceiveOther, Vanish
    <3> QED BY <1>2, <3>1, <3>2, <3>3
  <2> QED BY <2>1, <2>2, BoardStutters DEF Handshake
<1>3. ASSUME NEW s \in Student, EndExam(s) \/ Delete(s)
      PROVE  Board!Next \/ UNCHANGED Board!vars
  <2>1. UNCHANGED <<Online, ever, Handshake>>
    BY <1>3 DEF EndExam, Delete, registry, Online, is_connected, Handshake
  <2>2. Writing' = Writing \ {s}
    BY <1>3 DEF EndExam, Delete, Writing, TypeOK
  <2> QED BY <2>1, <2>2, StudentActions
<1>4. ASSUME NEW s \in Student,
             ReportLoad(s) \/ FailureCommit(s) \/ \E t \in Token : MintCommit(s, t)
      PROVE  UNCHANGED Board!vars
  <2>1. UNCHANGED <<Writing, Online, ever, Handshake>>
    BY <1>4 DEF ReportLoad, FailureCommit, MintCommit, row, registry, Writing, Online, is_connected,
                Handshake
  <2> QED BY <2>1, BoardStutters
<1>5. CASE Restart
  <2>1. Online' = {} /\ ever' = {} /\ Handshake' = [c \in Conn |-> None] /\ Writing' = Writing
    BY <1>5 DEF Restart, row, Online, is_connected, Handshake, Free, Co, Writing
  <2> QED BY <2>1 DEF Board!Next, Board!Restart, Writing, Online, Handshake
<1>6. CASE UNCHANGED vars
  BY <1>6, BoardStutters DEF vars, row, registry, Writing, Online, is_connected, Handshake
<1>7. minted \subseteq Token
  BY DEF TypeOK
<1> QED BY <1>1, <1>2, <1>3, <1>4, <1>5, <1>6, <1>7, BoardRun DEF Next

\* The endpoints implement SocketBoard, for any number of students, tokens and
\* connections: this is what lets the other modules take a socket to be one step in, one
\* step out.
THEOREM BoardImplemented == Spec => ImplementsBoard
<1>1. Init => Board!Init
  BY DEF Init, Board!Init, is_connected, Free, Co
<1>2. TypeOK /\ [Next]_vars => [Board!Next]_(Board!vars)
  BY BoardStep
<1> QED BY <1>1, <1>2, TypeCorrect, PTL DEF Spec, ImplementsBoard, Board!Spec

---------------------------------------------------------------------------
(* What VanishedIsUnregistered rests on besides fairness                  *)

\* How many steps a coroutine whose peer is gone has at most before it.
Rank == [verifying |-> 10, accepting |-> 9, greeting |-> 8, changing |-> 7, looping |-> 6,
         parting |-> 5, clearing |-> 4, reparting |-> 3, reclearing |-> 2, leaving |-> 1,
         free |-> 0]

\* The coroutine of a peer that is gone moves on or stays.
MovesOn(c) == conn'[c] = conn[c] \/ Rank[conn'[c].pc] < Rank[conn[c].pc]

LEMMA OnwardByMove ==
  ASSUME TypeOK, NEW c \in Conn, NEW from \in Steps, NEW to \in Steps, Rank[to] < Rank[from]
  PROVE  /\ Move(c, from, to) => MovesOn(c)
         /\ \A want \in BOOLEAN : Load(c, from, to, want) => MovesOn(c)
BY DEF Move, Load, Co, MovesOn, TypeOK

LEMMA RunMovesOn ==
  ASSUME TypeOK, NEW c \in Conn, c \notin alive, Run(c)
  PROVE  MovesOn(c)
<1>1. CASE Verify(c)
  <2>1. conn[c].pc = "verifying"
    BY <1>1 DEF Verify
  <2>2. ASSUME NEW s \in Student,
               conn' = [conn EXCEPT ![c] = Co("accepting", conn[c].token, s, fullscreen[s], TRUE)]
        PROVE  MovesOn(c)
    BY <2>1, <2>2 DEF Co, MovesOn, Rank, TypeOK
  <2>3. ASSUME NEW s, NEW pc \in {"leaving", "reparting"},
               conn' = [conn EXCEPT ![c] = Co(pc, conn[c].token, s, FALSE, FALSE)]
        PROVE  MovesOn(c)
    BY <2>1, <2>3 DEF Co, MovesOn, Rank, TypeOK
  <2> QED BY <1>1, <2>2, <2>3 DEF Verify
<1>2. CASE Accept(c)
  <2>1. CASE conn' = [conn EXCEPT ![c] =
                        Co("greeting", conn[c].token, conn[c].who, conn[c].saw, TRUE)]
    BY <1>2, <2>1 DEF Accept, Co, MovesOn, Rank, TypeOK
  <2>2. CASE Move(c, "accepting", "reparting")
    BY <2>2, OnwardByMove DEF Rank, Steps
  <2> QED BY <1>2, <2>1, <2>2 DEF Accept
<1>3. CASE Greet(c)
  <2>1. \E to \in {"looping", "parting", "reparting"} : Move(c, "greeting", to)
    BY <1>3 DEF Greet
  <2> QED BY <2>1, OnwardByMove DEF Rank, Steps
<1>4. CASE Change(c)
  BY <1>4, OnwardByMove DEF Change, Rank, Steps
<1>5. CASE Part(c) \/ Clear(c)
  <2>1. conn[c].pc \in {"parting", "clearing", "reparting", "reclearing"}
    BY <1>5 DEF Part, Clear
  <2>2. /\ Rank["leaving"] < Rank[conn[c].pc] /\ Rank[Recovery(conn[c].pc)] < Rank[conn[c].pc]
        /\ conn[c].pc \in Steps /\ "leaving" \in Steps /\ Recovery(conn[c].pc) \in Steps
        /\ Rank["clearing"] < Rank["parting"] /\ Rank["reclearing"] < Rank["reparting"]
        /\ {"parting", "clearing", "reparting", "reclearing"} \subseteq Steps
    BY <2>1 DEF Rank, Recovery, Steps
  <2>3. \/ Load(c, "parting", "clearing", FALSE)
        \/ Load(c, "reparting", "reclearing", FALSE)
        \/ Move(c, conn[c].pc, "leaving")
        \/ Move(c, conn[c].pc, Recovery(conn[c].pc))
    BY <1>5 DEF Part, Clear
  <2> QED BY <2>2, <2>3, OnwardByMove
<1>7. CASE Leave(c)
  BY <1>7 DEF Leave, Free, Co, MovesOn, Rank, TypeOK
<1> QED BY <1>1, <1>2, <1>3, <1>4, <1>5, <1>7 DEF Run

\* Once its peer is gone a connection takes at most ten more steps, whatever the other
\* connections do: it never goes back, no message of it is handled any more, and its
\* peer does not return.  After the last of them no entry of the registry is its own.
THEOREM VanishedOnlyMoveOn ==
  Spec => /\ [][\A c \in Conn : conn[c].pc # "free" /\ c \notin alive =>
                  MovesOn(c) /\ c \notin alive']_vars
          /\ [](\A c \in Conn : conn[c].pc = "free" => \A t \in Token : active[t] # c)
<1>1. ASSUME TypeOK, [Next]_vars, NEW c \in Conn, conn[c].pc # "free", c \notin alive
      PROVE  MovesOn(c) /\ c \notin alive'
  <2>1. ASSUME NEW d \in Conn, NEW t \in Token, Open(d, t) PROVE MovesOn(c) /\ c \notin alive'
    BY <1>1, <2>1 DEF Open, MovesOn, TypeOK
  <2>2. ASSUME NEW d \in Conn, Run(d) PROVE MovesOn(c) /\ c \notin alive'
    <3>1. c \notin alive'
      BY <1>1, <2>2 DEF Run, Verify, Accept, Greet, Change, Part, Clear, Leave
    <3>2. d # c => conn'[c] = conn[c]
      <4>1. \E k : conn' = [conn EXCEPT ![d] = k]
        <5>1. CASE Verify(d) \/ Accept(d)
          BY <5>1 DEF Verify, Accept, Move
        <5>2. CASE Greet(d) \/ Change(d)
          BY <5>2 DEF Greet, Change, Move
        <5>3. CASE Part(d) \/ Clear(d) \/ Leave(d)
          BY <5>3 DEF Part, Clear, Leave, Move, Load
        <5> QED BY <2>2, <5>1, <5>2, <5>3 DEF Run
      <4> QED BY <1>1, <4>1 DEF TypeOK
    <3> QED BY <1>1, <2>2, <3>1, <3>2, RunMovesOn DEF MovesOn
  <2>3. ASSUME NEW d \in Conn, (\E b \in BOOLEAN : Receive(d, b)) \/ ReceiveOther(d) \/ Vanish(d)
        PROVE  MovesOn(c) /\ c \notin alive'
    BY <1>1, <2>3 DEF Receive, ReceiveOther, Vanish, Move, Load, MovesOn, TypeOK
  <2>4. ASSUME NEW d \in Conn, Break(d) \/ ReceiveEnds(d) PROVE MovesOn(c) /\ c \notin alive'
    <3>1. c \notin alive'
      BY <1>1, <2>4 DEF Break, ReceiveEnds
    <3>2. CASE d = c
      BY <1>1, <2>4, <3>1, <3>2, OnwardByMove DEF Break, ReceiveEnds, Rank, Steps
    <3>3. CASE d # c
      BY <1>1, <2>4, <3>1, <3>3 DEF Break, ReceiveEnds, Move, MovesOn, TypeOK
    <3> QED BY <3>2, <3>3
  <2>5. ASSUME NEW s \in Student,
               \/ ReportLoad(s) \/ FailureCommit(s) \/ EndExam(s) \/ Delete(s)
               \/ \E t \in Token : MintCommit(s, t)
        PROVE  MovesOn(c) /\ c \notin alive'
    BY <1>1, <2>5 DEF ReportLoad, FailureCommit, EndExam, Delete, MintCommit, MovesOn
  <2>6. CASE Restart
    <3>1. conn'[c] = Free /\ c \notin alive'
      BY <2>6 DEF Restart
    <3>2. conn[c].pc \in Steps
      BY <1>1 DEF TypeOK, Coroutine
    <3> QED BY <1>1, <3>1, <3>2 DEF MovesOn, Free, Co, Rank, Steps
  <2>7. CASE UNCHANGED vars
    BY <1>1, <2>7 DEF vars, MovesOn
  <2>8. minted \subseteq Token
    BY <1>1 DEF TypeOK
  <2> QED BY <1>1, <2>1, <2>2, <2>3, <2>4, <2>5, <2>6, <2>7, <2>8 DEF Next
<1>2. TypeOK /\ [Next]_vars =>
        [\A c \in Conn : conn[c].pc # "free" /\ c \notin alive =>
           MovesOn(c) /\ c \notin alive']_vars
  BY <1>1
<1>3. TypeOK /\ ActiveBacked =>
        \A c \in Conn : conn[c].pc = "free" => \A t \in Token : active[t] # c
  BY NoneAssumption DEF TypeOK, ActiveBacked, Held
<1> QED BY <1>2, <1>3, TypeCorrect, NoGhosts, PTL DEF Spec
=============================================================================
