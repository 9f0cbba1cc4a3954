-------------------------- MODULE HttpGate_proofs --------------------------
(***************************************************************************)
(* The safety of HttpGate for any number of calls, any limits, windows    *)
(* and lags.  SlotsAreCalls: a call goes inside, or comes out, in the step *)
(* that counts _active up, or down, and no other step moves one across.   *)
(* BurstIsBounded: the calls of the last Stretch belong to two windows.   *)
(***************************************************************************)
EXTENDS HttpGate, FiniteSetTheorems, TLAPS

---------------------------------------------------------------------------
(* Type correctness *)

LEMMA CallTyped ==
  ASSUME NEW pc \in {"free", "ip", "token", "serving", "open"}, NEW bearer \in BOOLEAN,
         NEW stamp \in 0..MaxLag \cup {None}
  PROVE  At(pc, bearer, stamp) \in Call
BY DEF At, Call

LEMMA EntryTyped ==
  ASSUME NEW age \in Ages, NEW count \in Nat \ {0}
  PROVE  /\ Entry(age, count) \in [age : Ages, count : Nat \ {0}]
         /\ Entry(age, count) # None => Entry(age, count).count = count
BY DEF Entry

\* The history of a key is a finite set of passages.
Histories == [Key -> SUBSET Passage]
AllFinite(histories) == \A k \in Key : IsFiniteSet(histories[k])

LEMMA OneMoreTyped ==
  ASSUME NEW S \in SUBSET Passage, IsFiniteSet(S)
  PROVE  /\ OneMore(S) \in SUBSET Passage /\ IsFiniteSet(OneMore(S))
         /\ \E new \in Passage :
              /\ OneMore(S) = S \cup {new} /\ new.ago = 0
              /\ new.nth = Cardinality({c \in S : c.ago = 0}) + 1
<1> DEFINE n == Cardinality({c \in S : c.ago = 0})
           new == [ago |-> 0, nth |-> n + 1]
<1>1. n \in Nat
  <2>1. {c \in S : c.ago = 0} \in SUBSET S
    OBVIOUS
  <2> QED BY <2>1, FS_Subset, FS_CardinalityType
<1> HIDE DEF n
<1>2. new \in Passage /\ new.ago = 0 /\ new.nth = n + 1
  BY <1>1, TimeAssumption DEF Passage, Stretch
<1>3. OneMore(S) = S \cup {new}
  BY DEF OneMore, n
<1>4. IsFiniteSet(S \cup {new})
  BY FS_AddElement
<1> QED BY <1>2, <1>3, <1>4 DEF n

LEMMA AgedTyped ==
  ASSUME NEW S \in SUBSET Passage, IsFiniteSet(S)
  PROVE  /\ Aged(S) \in SUBSET Passage /\ IsFiniteSet(Aged(S))
         /\ Cardinality(Aged(S)) <= Cardinality(S)
         /\ \A c \in Aged(S) : \E d \in S : c.ago = d.ago + 1
<1> DEFINE Young == {d \in S : d.ago < Stretch}
           older == [d \in Young |-> [ago |-> d.ago + 1, nth |-> d.nth]]
<1>1. Young \in SUBSET S
  OBVIOUS
<1>2. IsFiniteSet(Young) /\ Cardinality(Young) <= Cardinality(S)
  BY <1>1, FS_Subset
<1>3. Aged(S) = {[ago |-> d.ago + 1, nth |-> d.nth] : d \in Young}
  BY DEF Aged
<1>4. \A d \in Young : d.ago + 1 \in 0..Stretch /\ d.nth \in Nat \ {0} /\ d \in S
  BY TimeAssumption DEF Passage, Stretch
<1> HIDE DEF Young
<1>5. older \in Surjection(Young, Aged(S))
  BY <1>3 DEF Surjection
<1>6. IsFiniteSet(Aged(S)) /\ Cardinality(Aged(S)) <= Cardinality(Young)
  BY <1>2, <1>5, FS_Surjection
<1>7. Aged(S) \in SUBSET Passage
  BY <1>3, <1>4 DEF Passage
<1>8. \A c \in Aged(S) : \E d \in S : c.ago = d.ago + 1
  BY <1>3, <1>4
<1>9. /\ Cardinality(Aged(S)) \in Nat /\ Cardinality(Young) \in Nat
      /\ Cardinality(S) \in Nat
  BY <1>2, <1>6, FS_CardinalityType
<1> QED BY <1>2, <1>6, <1>7, <1>8, <1>9

\* A check, let in or refused, leaves the windows and the history typed.
LEMMA LimiterTyped ==
  ASSUME TypeOK, NEW k \in Key, NEW stamp \in 0..MaxLag,
         Admit(k, stamp) \/ Refuse(k, stamp)
  PROVE  /\ windows' \in [Key -> [age : Ages, count : Nat \ {0}] \cup {None}]
         /\ \A j \in Key : windows'[j] # None => windows'[j].count <= Limit[j]
         /\ passed' \in Histories /\ AllFinite(passed')
<1> DEFINE W == [age : Ages, count : Nat \ {0}]
<1>1. CASE Refuse(k, stamp)
  BY <1>1 DEF TypeOK, Refuse, Histories, AllFinite
<1>2. CASE Admit(k, stamp)
  <2>1. PICK age \in Ages, count \in Nat \ {0} :
          LetIn(k, Entry(age, count)) /\ count <= Limit[k]
    <3>1. stamp \in Ages /\ 1 <= Limit[k]
      BY LimitAssumption, TimeAssumption DEF Ages
    <3>2. CASE LetIn(k, Entry(stamp, 1))
      BY <3>1, <3>2
    <3>3. CASE /\ windows[k] # None /\ HasRoom(k, windows[k])
               /\ LetIn(k, Entry(windows[k].age, windows[k].count + 1))
      <4>1. windows[k] \in W
        BY <3>3 DEF TypeOK
      <4>2. windows[k].age \in Ages /\ windows[k].count + 1 \in Nat \ {0}
        BY <4>1
      <4>3. windows[k].count + 1 <= Limit[k]
        BY <3>3, <4>1, LimitAssumption DEF HasRoom
      <4> QED BY <3>3, <4>2, <4>3
    <3> QED BY <1>2, <3>2, <3>3 DEF Admit
  <2> DEFINE e == Entry(age, count)
  <2>2. e \in W /\ e.count = count
    BY EntryTyped DEF Entry
  <2>3. windows' = [windows EXCEPT ![k] = e]
    BY <2>1 DEF LetIn
  <2>4. passed' = [passed EXCEPT ![k] = OneMore(passed[k])]
    BY <2>1 DEF LetIn
  <2>5. OneMore(passed[k]) \in SUBSET Passage /\ IsFiniteSet(OneMore(passed[k]))
    BY OneMoreTyped DEF TypeOK
  <2>6. passed' \in Histories /\ AllFinite(passed')
    <3> DEFINE h == OneMore(passed[k])
    <3> HIDE DEF h
    <3>1. passed' = [passed EXCEPT ![k] = h] /\ h \in SUBSET Passage /\ IsFiniteSet(h)
      BY <2>4, <2>5 DEF h
    <3> QED BY <3>1 DEF TypeOK, Histories, AllFinite
  <2>7. windows' \in [Key -> W \cup {None}]
    BY <2>2, <2>3 DEF TypeOK
  <2>8. ASSUME NEW j \in Key, windows'[j] # None PROVE windows'[j].count <= Limit[j]
    <3>1. CASE j = k
      BY <3>1, <2>1, <2>2, <2>3 DEF TypeOK
    <3>2. CASE j # k
      BY <3>2, <2>8, <2>3 DEF TypeOK
    <3> QED BY <3>1, <3>2
  <2> QED BY <2>6, <2>7, <2>8
<1> QED BY <1>1, <1>2

LEMMA TickTyped ==
  ASSUME TypeOK, Tick
  PROVE  TypeOK'
<1> DEFINE W == [age : Ages, count : Nat \ {0}]
<1>1. ASSUME NEW r \in Req PROVE req'[r] \in Call
  <2>1. req[r] \in Call /\ req[r].stamp \in 0..MaxLag \cup {None}
    BY DEF TypeOK, Call
  <2>2. CASE req[r].stamp = None
    BY <2>1, <2>2 DEF Tick
  <2>3. CASE req[r].stamp # None
    <3>1. req[r].stamp + 1 \in 0..MaxLag
      BY <2>1, <2>3, TimeAssumption DEF Tick
    <3>2. req'[r] = At(req[r].pc, req[r].bearer, req[r].stamp + 1)
      BY <2>3 DEF Tick
    <3> QED BY <2>1, <3>1, <3>2 DEF At, Call
  <2> QED BY <2>2, <2>3
<1>2. req' \in [Req -> Call]
  BY <1>1 DEF Tick
<1>3. ASSUME NEW k \in Key
      PROVE  windows'[k] \in W \cup {None} /\ (windows'[k] # None => windows'[k].count <= Limit[k])
  <2>1. CASE windows[k] = None
    BY <2>1 DEF Tick
  <2>2. CASE windows[k] # None
    <3>1. windows[k] \in W /\ windows[k].count <= Limit[k]
      BY <2>2 DEF TypeOK
    <3>2. Older(windows[k].age) \in Ages
      BY <3>1, TimeAssumption DEF Older, Ages
    <3>3. windows'[k] = Entry(Older(windows[k].age), windows[k].count)
      BY <2>2 DEF Tick
    <3> QED BY <3>1, <3>2, <3>3 DEF Entry
  <2> QED BY <2>1, <2>2
<1>4. windows' \in [Key -> W \cup {None}]
  BY <1>3 DEF Tick
<1>5. ASSUME NEW k \in Key PROVE passed'[k] \in SUBSET Passage /\ IsFiniteSet(passed'[k])
  <2>1. passed[k] \in SUBSET Passage /\ IsFiniteSet(passed[k])
    BY DEF TypeOK
  <2>2. passed'[k] = Aged(passed[k])
    BY DEF Tick
  <2> QED BY <2>1, <2>2, AgedTyped
<1>6. passed' \in [Key -> SUBSET Passage]
  BY <1>5 DEF Tick
<1> QED BY <1>2, <1>3, <1>4, <1>5, <1>6 DEF TypeOK, Tick

LEMMA StepTyped ==
  ASSUME TypeOK, [Next]_vars
  PROVE  TypeOK'
<1>1. CASE UNCHANGED vars
  BY <1>1 DEF vars, TypeOK
<1>2. CASE Tick
  BY <1>2, TickTyped
<1>3. ASSUME NEW k \in Key, cleanup(k) PROVE TypeOK'
  BY <1>3 DEF cleanup, TypeOK
<1>4. ASSUME NEW r \in Req, NEW bearer \in BOOLEAN, Arrive(r, bearer) PROVE TypeOK'
  <2>1. At("ip", bearer, None) \in Call
    BY CallTyped
  <2> QED BY <1>4, <2>1 DEF Arrive, TypeOK
<1>5. ASSUME NEW r \in Req, OpenSocket(r) \/ CloseSocket(r) PROVE TypeOK'
  <2>1. At("open", FALSE, None) \in Call /\ Free \in Call
    BY CallTyped DEF Free
  <2> QED BY <1>5, <2>1 DEF OpenSocket, CloseSocket, TypeOK
<1>6. ASSUME NEW r \in Req, ReadClock(r) PROVE TypeOK'
  <2>1. At(req[r].pc, req[r].bearer, 0) \in Call
    BY TimeAssumption DEF At, Call, TypeOK
  <2> QED BY <1>6, <2>1 DEF ReadClock, TypeOK
<1>7. ASSUME NEW r \in Req, Finish(r) \/ Raise(r) PROVE TypeOK'
  <2>1. Free \in Call
    BY CallTyped DEF Free
  <2>2. req' \in [Req -> Call] /\ occupied' \in Int /\ UNCHANGED <<windows, passed>>
    BY <1>7, <2>1 DEF Finish, Raise, Release, TypeOK
  <2> QED BY <2>2 DEF TypeOK
<1>8. ASSUME NEW r \in Req, Check(r) PROVE TypeOK'
  <2> DEFINE k == req[r].pc
             to == At(IF k = "ip" /\ req[r].bearer THEN "token" ELSE "serving", FALSE, None)
  <2>1. k \in Key /\ req[r].stamp \in 0..MaxLag
    BY <1>8 DEF Check, TypeOK, Call
  <2>2. Admit(k, req[r].stamp) \/ Refuse(k, req[r].stamp)
    BY <1>8 DEF Check
  <2>3. to \in Call /\ Free \in Call
    BY CallTyped DEF Free
  <2>4. req' \in [Req -> Call] /\ occupied' \in Int
    <3>1. CASE Release(r)
      BY <2>3, <3>1 DEF Release, TypeOK
    <3>2. CASE req' = [req EXCEPT ![r] = to] /\ UNCHANGED occupied
      <4> HIDE DEF to
      <4> QED BY <2>3, <3>2 DEF TypeOK
    <3> QED BY <1>8, <3>1, <3>2 DEF Check
  <2> HIDE DEF k, to
  <2>5. /\ windows' \in [Key -> [age : Ages, count : Nat \ {0}] \cup {None}]
        /\ \A j \in Key : windows'[j] # None => windows'[j].count <= Limit[j]
        /\ passed' \in Histories /\ AllFinite(passed')
    BY <2>1, <2>2, LimiterTyped
  <2> QED BY <2>4, <2>5 DEF TypeOK, Histories, AllFinite
<1> QED BY <1>1, <1>2, <1>3, <1>4, <1>5, <1>6, <1>7, <1>8 DEF Next, Go

\* The type invariant.
THEOREM TypeCorrect == Spec => []TypeOK
<1>1. Init => TypeOK
  <2>1. Free \in Call
    BY CallTyped DEF Free
  <2> QED BY <2>1, FS_EmptySet DEF Init, TypeOK
<1>2. TypeOK /\ [Next]_vars => TypeOK'
  BY StepTyped
<1> QED BY <1>1, <1>2, PTL DEF Spec

---------------------------------------------------------------------------
(* The slots *)

LEMMA InsideFinite == IsFiniteSet(Inside) /\ Cardinality(Inside) \in Nat
BY ReqAssumption, FS_Subset, FS_CardinalityType DEF Inside

LEMMA ComesIn ==
  ASSUME NEW r \in Req, r \notin Inside, Inside' = Inside \cup {r}
  PROVE  Cardinality(Inside') = Cardinality(Inside) + 1
BY InsideFinite, FS_AddElement

LEMMA GoesOut ==
  ASSUME NEW r \in Req, r \in Inside, Inside' = Inside \ {r}
  PROVE  Cardinality(Inside') = Cardinality(Inside) - 1
BY InsideFinite, FS_RemoveElement

\* A call that ends gives its slot back.
LEMMA ReleaseCounts ==
  ASSUME TypeOK, SlotsAreCalls, NEW r \in Req, r \in Inside, Release(r)
  PROVE  SlotsAreCalls'
<1>1. Inside' = Inside \ {r}
  BY DEF Inside, Release, Free, At, TypeOK
<1>2. Cardinality(Inside') = Cardinality(Inside) - 1
  BY <1>1, GoesOut
<1> QED BY <1>2, InsideFinite, ReqAssumption DEF SlotsAreCalls, Release, TypeOK

\* A step that moves no call in or out leaves the count true.
LEMMA SameInside ==
  ASSUME SlotsAreCalls, Inside' = Inside, occupied' = occupied
  PROVE  SlotsAreCalls'
BY DEF SlotsAreCalls

LEMMA StepCounts ==
  ASSUME TypeOK, SlotsAreCalls, [Next]_vars
  PROVE  SlotsAreCalls'
<1>1. CASE UNCHANGED vars
  BY <1>1, SameInside DEF vars, Inside
<1>2. CASE Tick
  <2>1. \A r \in Req : req'[r].pc = req[r].pc
    BY <1>2 DEF Tick, At
  <2> QED BY <1>2, <2>1, SameInside DEF Inside, Tick
<1>3. ASSUME NEW k \in Key, cleanup(k) PROVE SlotsAreCalls'
  BY <1>3, SameInside DEF cleanup, Inside
<1>4. ASSUME NEW r \in Req, NEW bearer \in BOOLEAN, Arrive(r, bearer) PROVE SlotsAreCalls'
  <2>1. CASE occupied < Max /\ occupied' = occupied + 1
             /\ req' = [req EXCEPT ![r] = At("ip", bearer, None)]
    <3>1. r \notin Inside /\ Inside' = Inside \cup {r}
      BY <1>4, <2>1 DEF Arrive, Inside, At, TypeOK
    <3>2. Cardinality(Inside') = Cardinality(Inside) + 1
      BY <3>1, ComesIn
    <3> QED BY <2>1, <3>2, InsideFinite, ReqAssumption DEF SlotsAreCalls, TypeOK
  <2>2. CASE UNCHANGED <<occupied, req>>
    BY <2>2, SameInside DEF Inside
  <2> QED BY <1>4, <2>1, <2>2 DEF Arrive
<1>5. ASSUME NEW r \in Req, OpenSocket(r) \/ CloseSocket(r) PROVE SlotsAreCalls'
  <2>1. req[r].pc \in {"free", "open"} /\ req'[r].pc \in {"free", "open"}
    BY <1>5 DEF OpenSocket, CloseSocket, Free, At, TypeOK
  <2>2. \A q \in Req \ {r} : req'[q] = req[q]
    BY <1>5 DEF OpenSocket, CloseSocket, TypeOK
  <2>3. Inside' = Inside
    BY <2>1, <2>2 DEF Inside
  <2> QED BY <1>5, <2>3, SameInside DEF OpenSocket, CloseSocket
<1>6. ASSUME NEW r \in Req, ReadClock(r) PROVE SlotsAreCalls'
  <2>1. Inside' = Inside
    BY <1>6 DEF ReadClock, Inside, At, TypeOK
  <2> QED BY <1>6, <2>1, SameInside DEF ReadClock
<1>7. ASSUME NEW r \in Req, Finish(r) \/ Raise(r) PROVE SlotsAreCalls'
  <2>1. r \in Inside /\ Release(r)
    BY <1>7 DEF Finish, Raise, Inside
  <2> QED BY <2>1, ReleaseCounts
<1>8. ASSUME NEW r \in Req, Check(r) PROVE SlotsAreCalls'
  <2>1. r \in Inside
    BY <1>8 DEF Check, Inside, Key
  <2>2. CASE Release(r)
    BY <2>1, <2>2, ReleaseCounts
  <2>3. CASE /\ UNCHANGED occupied
             /\ req' = [req EXCEPT ![r] =
                  At(IF req[r].pc = "ip" /\ req[r].bearer THEN "token" ELSE "serving", FALSE, None)]
    <3>1. Inside' = Inside
      BY <2>1, <2>3 DEF Inside, At, TypeOK
    <3> QED BY <2>3, <3>1, SameInside
  <2> QED BY <1>8, <2>2, <2>3 DEF Check
<1> QED BY <1>1, <1>2, <1>3, <1>4, <1>5, <1>6, <1>7, <1>8 DEF Next, Go

\* However calls overlap and whatever they come to, the server's counter is the
\* number of calls inside, so no slot is ever lost and the limit is never passed.
THEOREM NoSlotIsLost == Spec => []SlotsAreCalls
<1>1. Init => SlotsAreCalls
  <2>1. Init => Inside = {}
    BY DEF Init, Inside, Free, At
  <2>2. Init => Cardinality(Inside) = 0
    BY <2>1, FS_EmptySet
  <2> QED BY <2>2, ReqAssumption DEF Init, SlotsAreCalls
<1>2. TypeOK /\ SlotsAreCalls /\ [Next]_vars => SlotsAreCalls'
  BY StepCounts
<1> QED BY <1>1, <1>2, TypeCorrect, PTL DEF Spec

---------------------------------------------------------------------------
(* The bursts                                                              *)

(***************************************************************************)
(* The calls of the last Stretch are those of the window k has now, A, and *)
(* of the one before it, B.  A call was let in at most Window + MaxLag      *)
(* after its window began, so the window that follows begins at most        *)
(* MaxLag - 1 before the last call of the one it follows; once it has       *)
(* expired in its turn, or is old enough for the cleanup, the calls of the  *)
(* first are further back than Stretch.                                     *)
(***************************************************************************)
Covers(e, limit, A, B) ==
  /\ A \in SUBSET Passage /\ IsFiniteSet(A)
  /\ B \in SUBSET Passage /\ IsFiniteSet(B) /\ Cardinality(B) <= limit
  /\ e = None => A = {} /\ \A b \in B : b.ago >= 1
  /\ e # None => /\ Cardinality(A) <= e.count
                 /\ \A c \in A : c.ago >= e.age - Window - MaxLag
                 /\ \A b \in B : b.ago >= e.age - MaxLag + 1

Covered(e, limit, S) == \E A, B \in SUBSET Passage : S = A \cup B /\ Covers(e, limit, A, B)

TwoWindows == \A k \in Key : Covered(windows[k], Limit[k], passed[k])

\* An entry as TypeOK has it.
Entries == [age : Ages, count : Nat \ {0}]

LEMMA EntryIsSome ==
  ASSUME NEW age \in Ages, NEW count \in Nat \ {0}
  PROVE  /\ Entry(age, count) \in Entries /\ Entry(age, count) # None
         /\ Entry(age, count).age = age /\ Entry(age, count).count = count
BY NoneAssumption DEF Entry, Entries

LEMMA Agos ==
  ASSUME NEW S \in SUBSET Passage, NEW c \in S
  PROVE  c.ago \in Int /\ 0 <= c.ago /\ c.ago <= Window + 1 - MaxLag
BY TimeAssumption DEF Passage, Stretch

LEMMA TwoSets ==
  ASSUME NEW limit \in Nat, NEW A, NEW B, IsFiniteSet(A), IsFiniteSet(B),
         Cardinality(A) <= limit, Cardinality(B) <= limit
  PROVE  Cardinality(A \cup B) <= 2 * limit
<1>1. (A \cap B) \in SUBSET A
  OBVIOUS
<1>2. /\ Cardinality(A) \in Nat /\ Cardinality(B) \in Nat /\ Cardinality(A \cap B) \in Nat
      /\ Cardinality(A \cup B) = Cardinality(A) + Cardinality(B) - Cardinality(A \cap B)
  BY <1>1, FS_Union, FS_Subset, FS_CardinalityType
<1> QED BY <1>2

\* What is covered by two windows is bounded.
LEMMA CoveredBounds ==
  ASSUME NEW e \in Entries \cup {None}, NEW limit \in Nat, e # None => e.count <= limit,
         NEW S, Covered(e, limit, S)
  PROVE  Cardinality(S) <= 2 * limit
<1>1. PICK A \in SUBSET Passage, B \in SUBSET Passage : S = A \cup B /\ Covers(e, limit, A, B)
  BY DEF Covered
<1>2. IsFiniteSet(A) /\ IsFiniteSet(B) /\ Cardinality(B) <= limit
  BY <1>1 DEF Covers
<1>3. Cardinality(A) <= limit
  <2>1. CASE e = None
    BY <1>1, <2>1, FS_EmptySet DEF Covers
  <2>2. CASE e # None
    <3>1. Cardinality(A) <= e.count /\ e.count <= limit /\ e.count \in Nat
      BY <1>1, <2>2 DEF Covers, Entries
    <3>2. Cardinality(A) \in Nat
      BY <1>2, FS_CardinalityType
    <3> QED BY <3>1, <3>2
  <2> QED BY <2>1, <2>2
<1> QED BY <1>1, <1>2, <1>3, TwoSets

\* The first call of a window, after nothing or after a cleanup.
LEMMA CoversFirst ==
  ASSUME NEW limit \in Nat \ {0}, NEW S, Covered(None, limit, S), NEW stamp \in 0..MaxLag,
         NEW new \in Passage, new.ago = 0
  PROVE  Covered(Entry(stamp, 1), limit, S \cup {new})
<1>1. PICK B \in SUBSET Passage : S = B /\ Covers(None, limit, {}, B)
  BY DEF Covered, Covers
<1>2. stamp \in Ages
  BY TimeAssumption DEF Ages
<1>3. Entry(stamp, 1) # None /\ Entry(stamp, 1).age = stamp /\ Entry(stamp, 1).count = 1
  BY <1>2, EntryIsSome
<1>4. IsFiniteSet({new}) /\ Cardinality({new}) = 1
  BY FS_Singleton
<1>5. 0 >= stamp - Window - MaxLag /\ \A b \in B : b.ago \in Int /\ b.ago >= stamp - MaxLag + 1
  BY <1>1, Agos, TimeAssumption DEF Covers
<1>6. Covers(Entry(stamp, 1), limit, {new}, B)
  BY <1>1, <1>3, <1>4, <1>5 DEF Covers
<1>7. S \cup {new} = {new} \cup B /\ {new} \in SUBSET Passage
  BY <1>1
<1> QED BY <1>6, <1>7 DEF Covered

\* An expired window: the calls before it are out of sight, its own are the ones before.
LEMMA CoversNext ==
  ASSUME NEW e \in Entries, e # None, NEW limit \in Nat \ {0}, e.count <= limit,
         NEW S, Covered(e, limit, S), NEW stamp \in 0..MaxLag, Expired(e, stamp),
         NEW new \in Passage, new.ago = 0
  PROVE  Covered(Entry(stamp, 1), limit, S \cup {new})
<1>1. PICK A \in SUBSET Passage, B \in SUBSET Passage : S = A \cup B /\ Covers(e, limit, A, B)
  BY DEF Covered
<1>2. e.age \in Int /\ e.age - stamp > Window /\ e.count \in Nat
  BY DEF Entries, Ages, Expired
<1>3. B = {}
  <2> SUFFICES ASSUME NEW b \in B PROVE FALSE
    OBVIOUS
  <2>1. b.ago >= e.age - MaxLag + 1
    BY <1>1 DEF Covers
  <2>2. b.ago \in Int /\ b.ago <= Window + 1 - MaxLag
    BY Agos
  <2> QED BY <1>2, <2>1, <2>2, TimeAssumption
<1>4. /\ IsFiniteSet(A) /\ Cardinality(A) <= limit
      /\ \A c \in A : c.ago \in Int /\ c.ago >= e.age - Window - MaxLag
  <2>1. IsFiniteSet(A) /\ Cardinality(A) <= e.count
    BY <1>1 DEF Covers
  <2>2. Cardinality(A) \in Nat
    BY <2>1, FS_CardinalityType
  <2> QED BY <1>1, <1>2, <2>1, <2>2, Agos DEF Covers
<1>5. stamp \in Ages
  BY TimeAssumption DEF Ages
<1>6. Entry(stamp, 1) # None /\ Entry(stamp, 1).age = stamp /\ Entry(stamp, 1).count = 1
  BY <1>5, EntryIsSome
<1>7. IsFiniteSet({new}) /\ Cardinality({new}) = 1
  BY FS_Singleton
<1>8. 0 >= stamp - Window - MaxLag /\ \A c \in A : c.ago >= stamp - MaxLag + 1
  BY <1>2, <1>4, TimeAssumption
<1>9. Covers(Entry(stamp, 1), limit, {new}, A)
  BY <1>4, <1>6, <1>7, <1>8 DEF Covers
<1>10. S \cup {new} = {new} \cup A /\ {new} \in SUBSET Passage
  BY <1>1, <1>3
<1> QED BY <1>9, <1>10 DEF Covered

\* One more call of the window that is open.
LEMMA CoversMore ==
  ASSUME NEW e \in Entries, e # None, NEW limit \in Nat \ {0},
         NEW S, Covered(e, limit, S), NEW stamp \in 0..MaxLag, ~Expired(e, stamp),
         NEW new \in Passage, new.ago = 0
  PROVE  Covered(Entry(e.age, e.count + 1), limit, S \cup {new})
<1>1. PICK A \in SUBSET Passage, B \in SUBSET Passage : S = A \cup B /\ Covers(e, limit, A, B)
  BY DEF Covered
<1>2. e.age \in Ages /\ e.age \in Int /\ e.count + 1 \in Nat \ {0} /\ e.count \in Nat
      /\ ~(e.age - stamp > Window)
  BY DEF Entries, Ages, Expired
<1> DEFINE e2 == Entry(e.age, e.count + 1)
<1>3. e2 # None /\ e2.age = e.age /\ e2.count = e.count + 1
  BY <1>2, EntryIsSome
<1> HIDE DEF e2
<1>4. IsFiniteSet(A \cup {new}) /\ Cardinality(A \cup {new}) <= e.count + 1
  <2>1. IsFiniteSet(A) /\ Cardinality(A) <= e.count
    BY <1>1 DEF Covers
  <2>2. Cardinality(A) \in Nat /\ Cardinality(A \cup {new}) \in {Cardinality(A), Cardinality(A) + 1}
    BY <2>1, FS_CardinalityType, FS_AddElement
  <2> QED BY <1>2, <2>1, <2>2, FS_AddElement
<1>5. 0 >= e.age - Window - MaxLag
  BY <1>2, TimeAssumption
<1>6. \A c \in A \cup {new} : c.ago >= e.age - Window - MaxLag
  BY <1>1, <1>5 DEF Covers
<1>7. Covers(e2, limit, A \cup {new}, B)
  BY <1>1, <1>3, <1>4, <1>6 DEF Covers
<1>8. S \cup {new} = (A \cup {new}) \cup B /\ A \cup {new} \in SUBSET Passage
  BY <1>1
<1> QED BY <1>7, <1>8 DEF Covered, e2

\* The cleanup of an old window.
LEMMA CoversCleaned ==
  ASSUME NEW e \in Entries, e # None, NEW limit \in Nat, e.count <= limit,
         NEW S, Covered(e, limit, S), e.age > MaxAge
  PROVE  Covered(None, limit, S)
<1>1. PICK A \in SUBSET Passage, B \in SUBSET Passage : S = A \cup B /\ Covers(e, limit, A, B)
  BY DEF Covered
<1>2. e.age \in Int /\ e.count \in Nat
  BY DEF Entries, Ages
<1>3. B = {}
  <2> SUFFICES ASSUME NEW b \in B PROVE FALSE
    OBVIOUS
  <2>1. b.ago >= e.age - MaxLag + 1
    BY <1>1 DEF Covers
  <2>2. b.ago \in Int /\ b.ago <= Window + 1 - MaxLag
    BY Agos
  <2> QED BY <1>2, <2>1, <2>2, TimeAssumption
<1>4. IsFiniteSet(A) /\ Cardinality(A) <= limit
  <2>1. IsFiniteSet(A) /\ Cardinality(A) <= e.count
    BY <1>1 DEF Covers
  <2>2. Cardinality(A) \in Nat
    BY <2>1, FS_CardinalityType
  <2> QED BY <1>2, <2>1, <2>2
<1>5. \A c \in A : c.ago \in Int /\ c.ago >= e.age - Window - MaxLag
  BY <1>1, Agos DEF Covers
<1>6. \A c \in A : c.ago >= 1
  BY <1>2, <1>5, TimeAssumption
<1>7. Covers(None, limit, {}, A)
  BY <1>4, <1>6, FS_EmptySet DEF Covers
<1>8. S = {} \cup A /\ {} \in SUBSET Passage
  BY <1>1, <1>3
<1> QED BY <1>7, <1>8 DEF Covered

\* Time passes: calls and window grow older together, and old calls drop out.
LEMMA CoversOlder ==
  ASSUME NEW e \in Entries \cup {None}, NEW limit \in Nat, NEW S, Covered(e, limit, S)
  PROVE  Covered(IF e = None THEN None ELSE Entry(Older(e.age), e.count), limit, Aged(S))
<1>1. PICK A \in SUBSET Passage, B \in SUBSET Passage : S = A \cup B /\ Covers(e, limit, A, B)
  BY DEF Covered
<1> DEFINE e2 == IF e = None THEN None ELSE Entry(Older(e.age), e.count)
<1>2. Aged(S) = Aged(A) \cup Aged(B)
  BY <1>1 DEF Aged
<1>3. /\ IsFiniteSet(A) /\ IsFiniteSet(B) /\ Cardinality(B) <= limit
  BY <1>1 DEF Covers
<1>4. /\ Aged(A) \in SUBSET Passage /\ IsFiniteSet(Aged(A)) /\ Cardinality(Aged(A)) <= Cardinality(A)
      /\ \A c \in Aged(A) : \E d \in A : c.ago = d.ago + 1
  BY <1>3, AgedTyped
<1>5. /\ Aged(B) \in SUBSET Passage /\ IsFiniteSet(Aged(B)) /\ Cardinality(Aged(B)) <= Cardinality(B)
      /\ \A c \in Aged(B) : \E d \in B : c.ago = d.ago + 1
  BY <1>3, AgedTyped
<1>6. /\ Cardinality(A) \in Nat /\ Cardinality(Aged(A)) \in Nat
      /\ Cardinality(B) \in Nat /\ Cardinality(Aged(B)) \in Nat
  BY <1>3, <1>4, <1>5, FS_CardinalityType
<1>7. \A d \in A \cup B : d.ago \in Int /\ 0 <= d.ago
  BY Agos
<1>8. Cardinality(Aged(B)) <= limit
  BY <1>3, <1>5, <1>6
<1>9. Covers(e2, limit, Aged(A), Aged(B))
  <2>1. CASE e = None
    <3>1. A = {}
      BY <1>1, <2>1 DEF Covers
    <3>2. Aged(A) = {} /\ \A b \in Aged(B) : b.ago >= 1
      BY <1>4, <1>5, <1>7, <3>1
    <3> QED BY <1>4, <1>5, <1>8, <2>1, <3>2 DEF Covers
  <2>2. CASE e # None
    <3>1. e.age \in Ages /\ e.count \in Nat \ {0} /\ e.age \in Int
      BY <2>2 DEF Entries, Ages
    <3>2. Older(e.age) \in Ages /\ Older(e.age) <= e.age + 1 /\ Older(e.age) \in Int
      BY <3>1, TimeAssumption DEF Older, Ages
    <3>3. e2 # None /\ e2.age = Older(e.age) /\ e2.count = e.count
      BY <2>2, <3>1, <3>2, EntryIsSome
    <3> HIDE DEF e2
    <3>4. /\ Cardinality(A) <= e.count
          /\ \A c \in A : c.ago >= e.age - Window - MaxLag
          /\ \A b \in B : b.ago >= e.age - MaxLag + 1
      BY <1>1, <2>2 DEF Covers
    <3>5. Cardinality(Aged(A)) <= e2.count
      BY <1>4, <1>6, <3>1, <3>3, <3>4
    <3>6. ASSUME NEW c \in Aged(A) PROVE c.ago >= e2.age - Window - MaxLag
      <4>1. PICK d \in A : c.ago = d.ago + 1
        BY <1>4
      <4> QED BY <1>7, <3>1, <3>2, <3>3, <3>4, <4>1, TimeAssumption
    <3>7. ASSUME NEW b \in Aged(B) PROVE b.ago >= e2.age - MaxLag + 1
      <4>1. PICK d \in B : b.ago = d.ago + 1
        BY <1>5
      <4> QED BY <1>7, <3>1, <3>2, <3>3, <3>4, <4>1, TimeAssumption
    <3> QED BY <1>4, <1>5, <1>8, <3>3, <3>5, <3>6, <3>7 DEF Covers
  <2> QED BY <2>1, <2>2
<1> HIDE DEF e2
<1>10. Covered(e2, limit, Aged(S))
  BY <1>2, <1>4, <1>5, <1>9 DEF Covered
<1> QED BY <1>10 DEF e2

LEMMA KeyTyped ==
  ASSUME TypeOK, NEW k \in Key
  PROVE  /\ windows[k] \in Entries \cup {None}
         /\ windows[k] # None => windows[k].count <= Limit[k]
         /\ Limit[k] \in Nat \ {0}
         /\ passed[k] \in SUBSET Passage /\ IsFiniteSet(passed[k])
BY LimitAssumption DEF TypeOK, Entries

\* A check of k lets in one call more or changes nothing.
LEMMA CheckCovered ==
  ASSUME TypeOK, TwoWindows, NEW k \in Key, NEW stamp \in 0..MaxLag,
         Admit(k, stamp) \/ Refuse(k, stamp)
  PROVE  TwoWindows'
<1>k. /\ windows[k] \in Entries \cup {None}
      /\ windows[k] # None => windows[k].count <= Limit[k]
      /\ Limit[k] \in Nat \ {0}
      /\ passed[k] \in SUBSET Passage /\ IsFiniteSet(passed[k])
  BY KeyTyped
<1>c. Covered(windows[k], Limit[k], passed[k])
  BY DEF TwoWindows
<1>1. CASE Refuse(k, stamp)
  BY <1>1 DEF Refuse, TwoWindows
<1>2. CASE Admit(k, stamp)
  <2>1. PICK new \in Passage : OneMore(passed[k]) = passed[k] \cup {new} /\ new.ago = 0
    BY <1>k, OneMoreTyped
  <2>2. \E e : LetIn(k, e) /\ Covered(e, Limit[k], passed[k] \cup {new})
    <3>1. CASE windows[k] = None /\ LetIn(k, Entry(stamp, 1))
      <4>1. Covered(Entry(stamp, 1), Limit[k], passed[k] \cup {new})
        BY <1>k, <1>c, <2>1, <3>1, CoversFirst
      <4> QED BY <3>1, <4>1
    <3>2. CASE windows[k] # None /\ Expired(windows[k], stamp) /\ LetIn(k, Entry(stamp, 1))
      <4>1. Covered(Entry(stamp, 1), Limit[k], passed[k] \cup {new})
        BY <1>k, <1>c, <2>1, <3>2, CoversNext
      <4> QED BY <3>2, <4>1
    <3>3. CASE /\ windows[k] # None /\ ~Expired(windows[k], stamp)
               /\ LetIn(k, Entry(windows[k].age, windows[k].count + 1))
      <4>1. Covered(Entry(windows[k].age, windows[k].count + 1), Limit[k], passed[k] \cup {new})
        BY <1>k, <1>c, <2>1, <3>3, CoversMore
      <4> QED BY <3>3, <4>1
    <3> QED BY <1>2, <3>1, <3>2, <3>3 DEF Admit
  <2>3. PICK e : LetIn(k, e) /\ Covered(e, Limit[k], passed[k] \cup {new})
    BY <2>2
  <2>4. windows' = [windows EXCEPT ![k] = e] /\ passed' = [passed EXCEPT ![k] = passed[k] \cup {new}]
    BY <2>1, <2>3 DEF LetIn
  <2>5. ASSUME NEW j \in Key PROVE Covered(windows'[j], Limit[j], passed'[j])
    <3>1. CASE j = k
      <4>1. windows'[j] = e /\ passed'[j] = passed[k] \cup {new}
        BY <2>4, <3>1 DEF TypeOK
      <4> QED BY <2>3, <3>1, <4>1
    <3>2. CASE j # k
      <4>1. windows'[j] = windows[j] /\ passed'[j] = passed[j]
        BY <2>4, <3>2 DEF TypeOK
      <4> QED BY <4>1 DEF TwoWindows
    <3> QED BY <3>1, <3>2
  <2> QED BY <2>5 DEF TwoWindows
<1> QED BY <1>1, <1>2

LEMMA StepCovered ==
  ASSUME TypeOK, TwoWindows, [Next]_vars
  PROVE  TwoWindows'
<1>1. CASE UNCHANGED <<windows, passed>>
  BY <1>1 DEF TwoWindows
<1>2. CASE Tick
  <2>1. ASSUME NEW k \in Key PROVE Covered(windows'[k], Limit[k], passed'[k])
    <3>1. windows'[k] = IF windows[k] = None THEN None
                        ELSE Entry(Older(windows[k].age), windows[k].count)
      BY <1>2 DEF Tick
    <3>2. passed'[k] = Aged(passed[k])
      BY <1>2 DEF Tick
    <3>3. Covered(windows[k], Limit[k], passed[k])
      BY DEF TwoWindows
    <3>4. windows[k] \in Entries \cup {None} /\ Limit[k] \in Nat
      BY KeyTyped
    <3> QED BY <3>1, <3>2, <3>3, <3>4, CoversOlder
  <2> QED BY <2>1 DEF TwoWindows
<1>3. ASSUME NEW k \in Key, cleanup(k) PROVE TwoWindows'
  <2>1. /\ windows[k] \in Entries /\ windows[k] # None
        /\ windows[k].count <= Limit[k] /\ Limit[k] \in Nat
    BY <1>3, KeyTyped DEF cleanup
  <2>2. windows[k].age > MaxAge /\ passed' = passed
    BY <1>3 DEF cleanup
  <2>3. Covered(windows[k], Limit[k], passed[k])
    BY DEF TwoWindows
  <2>4. Covered(None, Limit[k], passed[k])
    BY <2>1, <2>2, <2>3, CoversCleaned
  <2>5. windows'[k] = None /\ \A j \in Key : j # k => windows'[j] = windows[j]
    BY <1>3 DEF cleanup, TypeOK
  <2> QED BY <2>2, <2>4, <2>5 DEF TwoWindows
<1>4. ASSUME NEW r \in Req, Check(r) PROVE TwoWindows'
  <2>1. req[r].pc \in Key /\ req[r].stamp \in 0..MaxLag
    BY <1>4 DEF Check, TypeOK, Call
  <2>2. Admit(req[r].pc, req[r].stamp) \/ Refuse(req[r].pc, req[r].stamp)
    BY <1>4 DEF Check
  <2> QED BY <2>1, <2>2, CheckCovered
<1>5. ASSUME NEW r \in Req, \/ \E bearer \in BOOLEAN : Arrive(r, bearer)
                            \/ OpenSocket(r) \/ CloseSocket(r) \/ ReadClock(r)
                            \/ Finish(r) \/ Raise(r)
      PROVE  UNCHANGED <<windows, passed>>
  BY <1>5 DEF Arrive, OpenSocket, CloseSocket, ReadClock, Finish, Raise
<1>6. CASE UNCHANGED vars
  BY <1>1, <1>6 DEF vars
<1> QED BY <1>1, <1>2, <1>3, <1>4, <1>5, <1>6 DEF Next, Go

\* Any stretch as long as a window, less what a thread may wait, lets in at most
\* twice the limit: its calls belong to two windows.
THEOREM BurstsAreBounded == Spec => []BurstIsBounded
<1>1. Init => TwoWindows
  <2>1. \A k \in Key : Limit[k] \in Nat /\ Covers(None, Limit[k], {}, {})
    BY LimitAssumption, FS_EmptySet DEF Covers
  <2>2. \A k \in Key : Covered(None, Limit[k], {})
    BY <2>1 DEF Covered
  <2> QED BY <2>2 DEF Init, TwoWindows
<1>2. TypeOK /\ TwoWindows /\ [Next]_vars => TwoWindows'
  BY StepCovered
<1>3. TypeOK /\ TwoWindows => BurstIsBounded
  <2> SUFFICES ASSUME TypeOK, TwoWindows, NEW k \in Key
               PROVE  Cardinality(passed[k]) <= 2 * Limit[k]
    BY DEF BurstIsBounded
  <2> QED BY KeyTyped, CoveredBounds DEF TwoWindows
<1> QED BY <1>1, <1>2, <1>3, TypeCorrect, PTL DEF Spec

---------------------------------------------------------------------------
(* The history the bound is about *)

\* The calls of this instant are numbered from 1, so the next number is a new one.
Instant(S) == {c \in S : c.ago = 0}
Numbered == \A k \in Key : \A c \in Instant(passed[k]) : c.nth <= Cardinality(Instant(passed[k]))

LEMMA NextIsNew ==
  ASSUME NEW S \in SUBSET Passage, IsFiniteSet(S),
         \A c \in Instant(S) : c.nth <= Cardinality(Instant(S))
  PROVE  /\ Cardinality(OneMore(S)) = Cardinality(S) + 1
         /\ \A c \in Instant(OneMore(S)) : c.nth <= Cardinality(Instant(OneMore(S)))
<1>1. PICK new \in Passage : /\ OneMore(S) = S \cup {new} /\ new.ago = 0
                             /\ new.nth = Cardinality(Instant(S)) + 1
  BY OneMoreTyped DEF Instant
<1>2. Instant(S) \in SUBSET S /\ \A c \in Instant(S) : c.nth \in Nat
  BY DEF Instant, Passage
<1>3. IsFiniteSet(Instant(S)) /\ Cardinality(Instant(S)) \in Nat
  BY <1>2, FS_Subset, FS_CardinalityType
<1>4. new \notin Instant(S)
  BY <1>1, <1>2, <1>3
<1>5. new \notin S
  BY <1>1, <1>4 DEF Instant
<1>6. Instant(OneMore(S)) = Instant(S) \cup {new}
  BY <1>1 DEF Instant
<1>7. Cardinality(Instant(OneMore(S))) = Cardinality(Instant(S)) + 1
  BY <1>3, <1>4, <1>6, FS_AddElement
<1>8. Cardinality(S \cup {new}) = Cardinality(S) + 1
  <2>1. IsFiniteSet(S)
    OBVIOUS
  <2> QED BY <1>5, <2>1, FS_AddElement
<1>9. Cardinality(OneMore(S)) = Cardinality(S) + 1
  BY <1>1, <1>8
<1>10. ASSUME NEW c \in Instant(OneMore(S)) PROVE c.nth <= Cardinality(Instant(OneMore(S)))
  <2>1. CASE c \in Instant(S)
    BY <1>2, <1>3, <1>7, <2>1
  <2>2. CASE c = new
    BY <1>1, <1>3, <1>7, <2>2
  <2> QED BY <1>6, <2>1, <2>2
<1> QED BY <1>9, <1>10

\* What grows older keeps its number, but there is nothing of this instant any more.
LEMMA AgedInstant ==
  ASSUME NEW S \in SUBSET Passage, IsFiniteSet(S)
  PROVE  Instant(Aged(S)) = {}
<1>1. \A c \in Aged(S) : \E d \in S : c.ago = d.ago + 1
  BY AgedTyped
<1>2. \A d \in S : d.ago \in Int /\ 0 <= d.ago
  BY Agos
<1> QED BY <1>1, <1>2 DEF Instant

\* Nothing is lost by growing older but what leaves the stretch.
LEMMA AgedCounts ==
  ASSUME NEW S \in SUBSET Passage, IsFiniteSet(S)
  PROVE  Cardinality(Aged(S)) = Cardinality({d \in S : d.ago < Stretch})
<1> DEFINE Young == {d \in S : d.ago < Stretch}
           older == [d \in Young |-> [ago |-> d.ago + 1, nth |-> d.nth]]
<1>1. Young \in SUBSET S
  OBVIOUS
<1>2. IsFiniteSet(Young)
  BY <1>1, FS_Subset
<1>3. Aged(S) = {[ago |-> d.ago + 1, nth |-> d.nth] : d \in Young}
  BY DEF Aged
<1>4. older \in Surjection(Young, Aged(S))
  <2> HIDE DEF Young
  <2> QED BY <1>3 DEF Surjection
<1>5. older \in Injection(Young, Aged(S))
  <2>1. ASSUME NEW c \in Young, NEW d \in Young, older[c] = older[d] PROVE c = d
    <3>1. c \in Passage /\ d \in Passage /\ c.ago \in Int /\ d.ago \in Int
      BY <1>1 DEF Passage
    <3>2. c.ago + 1 = d.ago + 1 /\ c.nth = d.nth
      BY <2>1
    <3> QED BY <3>1, <3>2 DEF Passage
  <2>2. older \in [Young -> Aged(S)]
    <3> HIDE DEF Young
    <3> QED BY <1>3
  <2> HIDE DEF Young, older
  <2> QED BY <2>1, <2>2 DEF Injection, IsInjective
<1> HIDE DEF Young, older
<1>6. Cardinality(Aged(S)) = Cardinality(Young)
  BY <1>2, <1>4, <1>5, FS_Surjection
<1> QED BY <1>6 DEF Young

\* How a step changes the history of a key.
LEMMA HistoryStep ==
  ASSUME TypeOK, [Next]_vars, NEW k \in Key
  PROVE  passed'[k] \in {passed[k], OneMore(passed[k]), Aged(passed[k])}
<1>1. CASE Tick
  BY <1>1 DEF Tick
<1>2. ASSUME NEW r \in Req, Check(r)
      PROVE  passed'[k] \in {passed[k], OneMore(passed[k])}
  <2> DEFINE j == req[r].pc
  <2>1. UNCHANGED passed \/ \E e : LetIn(j, e)
    BY <1>2 DEF Check, Admit, Refuse
  <2>2. ASSUME NEW e, LetIn(j, e) PROVE passed'[k] \in {passed[k], OneMore(passed[k])}
    <3>1. passed' = [passed EXCEPT ![j] = OneMore(passed[j])]
      BY <2>2 DEF LetIn
    <3> HIDE DEF j
    <3>2. CASE j = k
      BY <3>1, <3>2 DEF TypeOK
    <3>3. CASE j # k
      BY <3>1, <3>3 DEF TypeOK
    <3> QED BY <3>2, <3>3
  <2> QED BY <2>1, <2>2
<1>3. ASSUME NEW r \in Req, \/ \E bearer \in BOOLEAN : Arrive(r, bearer)
                            \/ OpenSocket(r) \/ CloseSocket(r) \/ ReadClock(r)
                            \/ Finish(r) \/ Raise(r)
      PROVE  UNCHANGED passed
  BY <1>3 DEF Arrive, OpenSocket, CloseSocket, ReadClock, Finish, Raise
<1>4. ASSUME NEW j \in Key, cleanup(j) PROVE UNCHANGED passed
  BY <1>4 DEF cleanup
<1>5. CASE UNCHANGED vars
  BY <1>5 DEF vars
<1> QED BY <1>1, <1>2, <1>3, <1>4, <1>5 DEF Next, Go

LEMMA StepNumbered ==
  ASSUME TypeOK, Numbered, [Next]_vars
  PROVE  Numbered'
<1>1. ASSUME NEW k \in Key PROVE \A c \in Instant(passed'[k]) : c.nth <= Cardinality(Instant(passed'[k]))
  <2>1. passed[k] \in SUBSET Passage /\ IsFiniteSet(passed[k])
    BY KeyTyped
  <2>2. \A c \in Instant(passed[k]) : c.nth <= Cardinality(Instant(passed[k]))
    BY DEF Numbered
  <2>3. CASE passed'[k] = passed[k]
    BY <2>2, <2>3
  <2>4. CASE passed'[k] = OneMore(passed[k])
    BY <2>1, <2>2, <2>4, NextIsNew
  <2>5. CASE passed'[k] = Aged(passed[k])
    BY <2>1, <2>5, AgedInstant
  <2> QED BY <2>3, <2>4, <2>5, HistoryStep
<1> QED BY <1>1 DEF Numbered

\* BurstIsBounded counts what it says: every call let in adds one to the history of its
\* key, and with time only those leave it that are Stretch ago.
THEOREM EveryCallCounts ==
  Spec => [][/\ \A k \in Key, stamp \in 0..MaxLag :
                  Admit(k, stamp) => Cardinality(passed'[k]) = Cardinality(passed[k]) + 1
             /\ Tick => \A k \in Key : Cardinality(passed'[k]) =
                                         Cardinality({c \in passed[k] : c.ago < Stretch})]_vars
<1>1. Init => Numbered
  BY DEF Init, Numbered, Instant
<1>2. TypeOK /\ Numbered /\ [Next]_vars => Numbered'
  BY StepNumbered
<1>3. ASSUME TypeOK, Numbered, NEW k \in Key, NEW stamp \in 0..MaxLag, Admit(k, stamp)
      PROVE  Cardinality(passed'[k]) = Cardinality(passed[k]) + 1
  <2>1. passed' = [passed EXCEPT ![k] = OneMore(passed[k])]
    BY <1>3 DEF Admit, LetIn
  <2>2. passed'[k] = OneMore(passed[k])
    BY <1>3, <2>1 DEF TypeOK
  <2>3. passed[k] \in SUBSET Passage /\ IsFiniteSet(passed[k])
    BY <1>3, KeyTyped
  <2> QED BY <1>3, <2>2, <2>3, NextIsNew DEF Numbered
<1>4. ASSUME TypeOK, Tick, NEW k \in Key
      PROVE  Cardinality(passed'[k]) = Cardinality({c \in passed[k] : c.ago < Stretch})
  <2>1. passed'[k] = Aged(passed[k])
    BY <1>4 DEF Tick
  <2>2. passed[k] \in SUBSET Passage /\ IsFiniteSet(passed[k])
    BY <1>4, KeyTyped
  <2> QED BY <2>1, <2>2, AgedCounts
<1>5. TypeOK /\ Numbered =>
        [/\ \A k \in Key, stamp \in 0..MaxLag :
              Admit(k, stamp) => Cardinality(passed'[k]) = Cardinality(passed[k]) + 1
         /\ Tick => \A k \in Key : Cardinality(passed'[k]) =
                                     Cardinality({c \in passed[k] : c.ago < Stretch})]_vars
  BY <1>3, <1>4
<1>6. Spec => [](TypeOK /\ Numbered)
  BY <1>1, <1>2, TypeCorrect, PTL DEF Spec
<1> QED BY <1>5, <1>6, PTL
=============================================================================
