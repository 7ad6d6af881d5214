----------------------- MODULE InstanceSessionsProofs -----------------------
(***************************************************************************)
(* Flags, QR entries and the sessions map, for every number of instances   *)
(* and of tasks.  Inductive are the types together with where a session    *)
(* can be referred to from (Refs), and the order of start-up: while a      *)
(* stored device is still to be loaded there is no request, and its place  *)
(* in the map is empty.                                                    *)
(***************************************************************************)
EXTENDS InstanceSessions, TLAPS

(* Only tasks that have begun are sessions, and a task works for an        *)
(* instance.                                                               *)
Begun(p) == of[p] \in Instances

TaskRefs == \A p \in Tasks : op[p] # "none" => Begun(p)
Idle     == \A p \in Tasks : op[p] = "none" => pc[p] = "none"
HeldRefs == \A p \in Tasks : held[p] # None => Begun(held[p])
MapRefs  == \A i \in Instances : sessions[i] # None => Begun(sessions[i])
LinkRefs == \A s \in Tasks : link[s] # "off" => Begun(s)
Refs     == TaskRefs /\ Idle /\ HeldRefs /\ MapRefs /\ LinkRefs

Typed == TypeOK /\ Refs

LEMMA TypedInit == Init => Typed
BY SessionsAssumption DEF Init, Typed, TypeOK, Refs, TaskRefs, Idle, HeldRefs, MapRefs, LinkRefs, Tasks, None, Statuses, Ops, Links, Hearts,
   Steps, Exists

LEMMA NoneIsNoTask == None \notin Tasks
BY SessionsAssumption DEF None, Tasks

(* What a step of a task does to the tasks.                                *)
LEMMA MoveTypes ==
    ASSUME Typed, NEW p \in Tasks, NEW step \in Steps, Move(p, step)
    PROVE  /\ op' \in [Tasks -> Ops] /\ of' = of
           /\ pc' \in [Tasks -> Steps] /\ held' \in [Tasks -> Tasks \cup {None}]
           /\ \A q \in Tasks : op'[q] # "none" => op[q] # "none" \/ q = p
           /\ \A q \in Tasks : op'[q] = "none" => op[q] = "none" /\ pc'[q] = IF q = p THEN step ELSE pc[q]
           /\ \A q \in Tasks : held'[q] \in {held[q], None}
BY DEF Typed, TypeOK, Move, started, Ops

LEMMA HoldTypes ==
    ASSUME Typed, NEW p \in Tasks, NEW s \in Tasks, NEW step \in Steps, Hold(p, s, step)
    PROVE  /\ op' = op /\ of' = of
           /\ pc' \in [Tasks -> Steps] /\ held' \in [Tasks -> Tasks \cup {None}]
           /\ \A q \in Tasks : held'[q] = IF q = p THEN s ELSE held[q]
           /\ \A q \in Tasks : q # p => pc'[q] = pc[q]
BY DEF Typed, TypeOK, Hold, started

LEMMA StartTypes ==
    ASSUME Typed, NEW p \in Tasks, NEW o \in Ops \ {"none"}, NEW i \in Instances,
           NEW s \in Tasks \cup {None}, NEW step \in Steps, Start(p, o, i, s, step)
    PROVE  /\ op' \in [Tasks -> Ops] /\ of' \in [Tasks -> Instances \cup {None}]
           /\ pc' \in [Tasks -> Steps] /\ held' \in [Tasks -> Tasks \cup {None}]
           /\ of'[p] = i /\ op'[p] = o
           /\ \A q \in Tasks : q # p => of'[q] = of[q] /\ op'[q] = op[q] /\ pc'[q] = pc[q]
           /\ \A q \in Tasks : held'[q] = IF q = p THEN s ELSE held[q]
           /\ \A q \in Tasks : of[q] \in Instances => of'[q] \in Instances
BY DEF Typed, TypeOK, Start

LEMMA StartRefs ==
    ASSUME Typed, NEW p \in Tasks, NEW o \in Ops \ {"none"}, NEW i \in Instances,
           NEW s \in {p, None}, NEW step \in Steps, Start(p, o, i, s, step),
           \A j \in Instances : sessions'[j] \in {sessions[j], p},
           \A q \in Tasks : link'[q] # "off" => link[q] # "off"
    PROVE  Refs'
<1>1. \A q \in Tasks : Begun(q) => of'[q] \in Instances
  BY StartTypes DEF Begun
<1>2. of'[p] \in Instances
  BY StartTypes
<1>3. \A q \in Tasks : op'[q] # "none" => of'[q] \in Instances
  BY <1>1, <1>2, StartTypes DEF Typed, Refs, TaskRefs
<1>idle. \A q \in Tasks : op'[q] = "none" => pc'[q] = "none"
  <2> TAKE q \in Tasks
  <2>1. op'[p] # "none"
    BY StartTypes
  <2>2. q # p => op'[q] = op[q] /\ pc'[q] = pc[q]
    BY StartTypes
  <2>3. QED BY <2>1, <2>2 DEF Typed, Refs, Idle
<1>4. ASSUME NEW q \in Tasks, held'[q] # None PROVE of'[held'[q]] \in Instances
  <2>1. CASE q = p
    BY <2>1, <1>2, <1>4, StartTypes
  <2>2. CASE q # p
    <3>1. held'[q] = held[q]
      BY <2>2, StartTypes
    <3>2. held[q] \in Tasks
      BY <1>4, <3>1 DEF Typed, TypeOK
    <3>3. QED BY <1>1, <1>4, <3>1, <3>2 DEF Typed, Refs, TaskRefs, Idle, HeldRefs, MapRefs, LinkRefs
  <2>3. QED BY <2>1, <2>2
<1>5. ASSUME NEW j \in Instances, sessions'[j] # None PROVE of'[sessions'[j]] \in Instances
  <2>1. CASE sessions'[j] = p
    BY <2>1, <1>2
  <2>2. CASE sessions'[j] = sessions[j]
    <3>1. sessions[j] \in Tasks /\ Begun(sessions[j])
      BY <2>2, <1>5 DEF Typed, TypeOK, Refs, TaskRefs, Idle, HeldRefs, MapRefs, LinkRefs
    <3>2. QED BY <2>2, <3>1, <1>1
  <2>3. QED BY <2>1, <2>2
<1>6. \A q \in Tasks : link'[q] # "off" => of'[q] \in Instances
  BY <1>1 DEF Typed, Refs, TaskRefs, Idle, HeldRefs, MapRefs, LinkRefs
<1>7. TaskRefs' /\ Idle'
  BY <1>3, <1>idle DEF TaskRefs, Idle, Begun
<1>8. HeldRefs'
  BY <1>4 DEF HeldRefs, Begun
<1>9. MapRefs'
  BY <1>5 DEF MapRefs, Begun
<1>10. LinkRefs'
  BY <1>6 DEF LinkRefs, Begun
<1>11. QED BY <1>7, <1>8, <1>9, <1>10 DEF Refs

LEMMA HoldRefs ==
    ASSUME Typed, NEW p \in Tasks, NEW s \in Tasks, NEW step \in Steps, Hold(p, s, step),
           op[p] # "none", Begun(s),
           \A j \in Instances : sessions'[j] \in {sessions[j], None, s},
           link' = link
    PROVE  Refs'
<1>1. UNCHANGED <<of, op>>
  BY HoldTypes
<1>2. \A q \in Tasks : held'[q] # None => Begun(held'[q])
  BY HoldTypes DEF Typed, Refs, TaskRefs, Idle, HeldRefs, MapRefs, LinkRefs
<1>3. \A q \in Tasks : op[q] = "none" => pc'[q] = "none"
  BY HoldTypes DEF Typed, Refs, TaskRefs, Idle, HeldRefs, MapRefs, LinkRefs
<1>4. \A j \in Instances : sessions'[j] # None => Begun(sessions'[j])
  BY DEF Typed, Refs, TaskRefs, Idle, HeldRefs, MapRefs, LinkRefs
<1>5. QED BY <1>1, <1>2, <1>3, <1>4 DEF Typed, Refs, TaskRefs, Idle, HeldRefs, MapRefs, LinkRefs, Begun

(* Requests and events that begin, session or none in hand.                *)
LEMMA TypedBegins ==
    ASSUME Typed, NEW p \in Tasks, Request(p) \/ Event(p) \/ \E i \in Instances : Load(p, i)
    PROVE  Typed'
<1> USE NoneIsNoTask DEF row, memory, client, started
<1>1. ASSUME NEW i \in Instances, Login(p, i) PROVE Typed'
  <2>1. Start(p, "login", i, p, "insert") /\ sessions' = [sessions EXCEPT ![i] = p]
        /\ UNCHANGED <<row, up, cancelOf, heart, loggingOut, qrCancel, unloaded, client>>
    BY <1>1 DEF Login, CreateSession
  <2>2. "login" \in Ops \ {"none"} /\ "insert" \in Steps
    BY DEF Ops, Steps
  <2>3. TypeOK'
    BY <2>1, <2>2, StartTypes DEF Typed, TypeOK
  <2>4. Refs'
    BY <2>1, <2>2, StartRefs DEF Typed, TypeOK
  <2>5. QED BY <2>3, <2>4 DEF Typed
<1>2. ASSUME NEW i \in Instances, GetQR(p, i) \/ Logout(p, i) \/ DeleteInstance(p, i) PROVE Typed'
  <2>1. /\ \E o \in Ops \ {"none"}, step \in Steps : Start(p, o, i, None, step)
        /\ loggingOut' \in SUBSET Instances
        /\ UNCHANGED <<row, sessions, up, cancelOf, heart, qrCancel, unloaded, client>>
    BY <1>2 DEF GetQR, Logout, DeleteInstance, Ops, Steps, Typed, TypeOK
  <2>2. TypeOK'
    BY <2>1, StartTypes DEF Typed, TypeOK
  <2>3. Refs'
    BY <2>1, StartRefs DEF Typed, TypeOK
  <2>4. QED BY <2>2, <2>3 DEF Typed
<1>3. ASSUME NEW s \in Tasks, Authenticated(p, s) \/ LoggedOut(p, s) \/ Disconnected(p, s) PROVE Typed'
  <2>1. /\ link[s] # "off" /\ \E o \in Ops \ {"none"}, step \in Steps : Start(p, o, of[s], None, step)
        /\ \E l \in Links : link' = [link EXCEPT ![s] = l]
        /\ paired' \in SUBSET Tasks
        /\ UNCHANGED <<row, memory>>
    BY <1>3 DEF Authenticated, LoggedOut, Disconnected, InstanceOf, IsConnected, Ops, Steps, Links,
                Typed, TypeOK
  <2>2. of[s] \in Instances
    BY <2>1 DEF Typed, Refs, TaskRefs, Idle, HeldRefs, MapRefs, LinkRefs, Begun
  <2>3. TypeOK'
    BY <2>1, <2>2, StartTypes DEF Typed, TypeOK
  <2>4. \A q \in Tasks : link'[q] # "off" => link[q] # "off"
    BY <2>1 DEF Typed, TypeOK
  <2>5. Refs'
    BY <2>1, <2>2, <2>4, StartRefs
  <2>6. QED BY <2>3, <2>5 DEF Typed
<1>4. ASSUME NEW i \in Instances, Load(p, i) PROVE Typed'
  <2>1. /\ Start(p, "load", i, p, "connect")
        /\ unloaded' \in SUBSET Instances /\ paired' \in SUBSET Tasks
        /\ UNCHANGED <<row, sessions, up, cancelOf, heart, loggingOut, qrCancel, link>>
    BY <1>4 DEF Load, Typed, TypeOK
  <2>2. "load" \in Ops \ {"none"} /\ "connect" \in Steps
    BY DEF Ops, Steps
  <2>3. TypeOK'
    BY <2>1, <2>2, StartTypes DEF Typed, TypeOK
  <2>4. Refs'
    BY <2>1, <2>2, StartRefs DEF Typed, TypeOK
  <2>5. QED BY <2>3, <2>4 DEF Typed
<1>5. QED BY <1>1, <1>2, <1>3, <1>4 DEF Request, Event

(* Steps of a task that touch memory, row and clients but keep every       *)
(* reference or drop it.                                                   *)
LEMMA TypedMoves ==
    ASSUME Typed, NEW p \in Tasks, NEW step \in Steps, Move(p, step), op[p] # "none",
           status' \in [Instances -> Statuses], isConnected' \in SUBSET Instances,
           sessions' \in [Instances -> Tasks \cup {None}],
           up' \in SUBSET Tasks, cancelOf' \in [Tasks -> Tasks \cup {None}],
           heart' \in [Tasks -> Hearts], loggingOut' \in SUBSET Instances,
           qrCancel' \in [Instances -> Tasks \cup {None}], unloaded' = unloaded,
           link' \in [Tasks -> Links], paired' \in SUBSET Tasks,
           \A i \in Instances : sessions'[i] \in {sessions[i], None, p},
           \A s \in Tasks : link'[s] \in {link[s], "off"} \/ s \in {held[p], p}
    PROVE  Typed'
<1>1. TypeOK'
  BY MoveTypes DEF Typed, TypeOK
<1>2. UNCHANGED of /\ Begun(p)
  BY MoveTypes DEF Typed, Refs, TaskRefs, Idle, HeldRefs, MapRefs, LinkRefs
<1>3. \A q \in Tasks : op'[q] # "none" => Begun(q)
  BY <1>2, MoveTypes DEF Typed, Refs, TaskRefs
<1>idle. \A q \in Tasks : op'[q] = "none" => pc'[q] = "none"
  BY MoveTypes DEF Typed, Refs, Idle
<1>held. \A q \in Tasks : held'[q] # None => Begun(held'[q])
  BY <1>2, MoveTypes DEF Typed, Refs, HeldRefs
<1>4. \A i \in Instances : sessions'[i] # None => Begun(sessions'[i])
  BY <1>2 DEF Typed, Refs, TaskRefs, Idle, HeldRefs, MapRefs, LinkRefs
<1>5. \A s \in Tasks : link'[s] # "off" => Begun(s)
  <2> TAKE s \in Tasks
  <2>1. s = held[p] => Begun(s)
    BY NoneIsNoTask DEF Typed, Refs, TaskRefs, Idle, HeldRefs, MapRefs, LinkRefs
  <2>2. link'[s] # "off" => link[s] # "off" \/ s = held[p] \/ s = p
    OBVIOUS
  <2>3. QED BY <1>2, <2>1, <2>2 DEF Typed, Refs, TaskRefs, Idle, HeldRefs, MapRefs, LinkRefs
<1>6. TaskRefs' /\ Idle' /\ HeldRefs'
  BY <1>2, <1>3, <1>idle, <1>held DEF TaskRefs, Idle, HeldRefs, Begun
<1>7. MapRefs'
  BY <1>2, <1>4 DEF MapRefs, Begun
<1>8. LinkRefs'
  BY <1>2, <1>5 DEF LinkRefs, Begun
<1>9. QED BY <1>1, <1>6, <1>7, <1>8 DEF Typed, Refs

LEMMA TypedContinue ==
    ASSUME Typed, NEW p \in Tasks, Continue(p)
    PROVE  Typed'
<1> USE NoneIsNoTask DEF row, memory, client, Links, Hearts, Statuses
<1> DEFINE i == of[p]
<1>0. op[p] # "none" => i \in Instances
  BY DEF Typed, Refs, TaskRefs, Idle, HeldRefs, MapRefs, LinkRefs, Begun
<1>pc. pc[p] # "none" => op[p] # "none"
  BY DEF Typed, Refs, TaskRefs, Idle, HeldRefs, MapRefs, LinkRefs
<1>types. /\ status \in [Instances -> Statuses] /\ isConnected \in SUBSET Instances
          /\ sessions \in [Instances -> Tasks \cup {None}]
          /\ up \in SUBSET Tasks /\ cancelOf \in [Tasks -> Tasks \cup {None}]
          /\ heart \in [Tasks -> Hearts] /\ loggingOut \in SUBSET Instances
          /\ qrCancel \in [Instances -> Tasks \cup {None}]
          /\ link \in [Tasks -> Links] /\ paired \in SUBSET Tasks
  BY DEF Typed, TypeOK
<1>1. ASSUME InsertInstance(p) PROVE Typed'
  BY <1>1, <1>0, <1>types, TypedMoves DEF InsertInstance, At, Steps
<1>2. ASSUME FindSession(p) PROVE Typed'
  <2>1. CASE Move(p, "create")
    BY <2>1, <1>2, <1>0, <1>types, TypedMoves DEF FindSession, At, Steps
  <2>2. CASE sessions[i] # None /\ Hold(p, sessions[i], "register")
    <3>1. sessions[i] \in Tasks /\ Begun(sessions[i])
      BY <2>2, <1>2, <1>0, <1>types DEF FindSession, At, Typed, Refs, TaskRefs, Idle, HeldRefs, MapRefs, LinkRefs
    <3>2. op[p] # "none" /\ UNCHANGED <<row, memory, client>> /\ "register" \in Steps
      BY <1>2 DEF FindSession, At, Steps
    <3>3. TypeOK'
      BY <3>1, <3>2, <2>2, HoldTypes DEF Typed, TypeOK
    <3>4. Refs'
      BY <3>1, <3>2, <2>2, HoldRefs
    <3>5. QED BY <3>3, <3>4 DEF Typed
  <2>3. QED BY <2>1, <2>2, <1>2 DEF FindSession
<1>3. ASSUME CreateForQR(p) PROVE Typed'
  <2>1. CASE Move(p, "done") /\ UNCHANGED sessions
    BY <2>1, <1>3, <1>0, <1>types, TypedMoves DEF CreateForQR, At, Steps
  <2>2. CASE CreateSession(i, p) /\ Hold(p, p, "register")
    <3>1. i \in Instances
      BY <1>3, <1>0 DEF CreateForQR, At
    <3>2. /\ op[p] # "none" /\ "register" \in Steps /\ Begun(p)
          /\ sessions' = [sessions EXCEPT ![i] = p]
          /\ UNCHANGED <<row, up, cancelOf, heart, loggingOut, qrCancel, unloaded, client>>
      BY <1>3, <2>2 DEF CreateForQR, CreateSession, At, Steps, Typed, Refs, TaskRefs, Idle, HeldRefs, MapRefs, LinkRefs
    <3>3. TypeOK'
      BY <3>1, <3>2, <2>2, HoldTypes DEF Typed, TypeOK
    <3>4. Refs'
      BY <3>1, <3>2, <2>2, HoldRefs DEF Typed, TypeOK
    <3>5. QED BY <3>3, <3>4 DEF Typed
  <2>3. QED BY <2>1, <2>2, <1>3 DEF CreateForQR
<1>4. ASSUME RegisterQR(p) PROVE Typed'
  BY <1>4, <1>0, <1>types, TypedMoves DEF RegisterQR, At, Steps
<1>5. ASSUME OpenChannel(p) PROVE Typed'
  BY <1>5, <1>0, <1>types, TypedMoves DEF OpenChannel, EndFlow, At, Steps
<1>6. ASSUME ConnectForQR(p) PROVE Typed'
  BY <1>6, <1>0, <1>types, TypedMoves DEF ConnectForQR, EndFlow, At, Steps
<1>7. ASSUME EndListening(p) PROVE Typed'
  BY <1>7, <1>0, <1>types, TypedMoves DEF EndListening, EndFlow, At, Steps
<1>8. ASSUME TakeSession(p) PROVE Typed'
  <2>1. CASE Move(p, "missing") /\ UNCHANGED sessions
    BY <2>1, <1>8, <1>0, <1>types, TypedMoves DEF TakeSession, At, Steps
  <2>2. CASE /\ sessions[i] # None /\ Hold(p, sessions[i], "cancel")
             /\ sessions' = [sessions EXCEPT ![i] = None]
    <3>1. sessions[i] \in Tasks /\ Begun(sessions[i])
      BY <2>2, <1>8, <1>0, <1>types DEF TakeSession, At, Typed, Refs, TaskRefs, Idle, HeldRefs, MapRefs, LinkRefs
    <3>2. /\ op[p] # "none" /\ "cancel" \in Steps
          /\ UNCHANGED <<row, up, cancelOf, heart, loggingOut, qrCancel, unloaded, client>>
      BY <1>8 DEF TakeSession, At, Steps
    <3>3. TypeOK'
      <4>1. sessions' \in [Instances -> Tasks \cup {None}]
        BY <2>2, <1>types
      <4>2. Hold(p, sessions[i], "cancel")
        BY <2>2
      <4>3. QED BY <3>1, <3>2, <4>1, <4>2, HoldTypes DEF Typed, TypeOK
    <3>4. Refs'
      BY <3>1, <3>2, <2>2, HoldRefs DEF Typed, TypeOK
    <3>5. QED BY <3>3, <3>4 DEF Typed
  <2>3. QED BY <2>1, <2>2, <1>8 DEF TakeSession
<1>9. ASSUME Unflag(p) PROVE Typed'
  BY <1>9, <1>0, <1>types, TypedMoves DEF Unflag, At, Steps
<1>10. ASSUME CancelHeartbeat(p) \/ ReplaceHeartbeat(p) PROVE Typed'
  BY <1>10, <1>0, <1>types, TypedMoves DEF CancelHeartbeat, ReplaceHeartbeat, StopHeart, At, Steps
<1>11. ASSUME Unlink(p) PROVE Typed'
  BY <1>11, <1>0, <1>types, TypedMoves DEF Unlink, At, Steps
<1>12. ASSUME WriteLoggedOut(p) PROVE Typed'
  BY <1>12, <1>0, <1>types, TypedMoves DEF WriteLoggedOut, Rest, Update, At, Steps
<1>13. ASSUME ReadRow(p) PROVE Typed'
  BY <1>13, <1>pc, <1>0, <1>types, TypedMoves DEF ReadRow, Rest, Steps
<1>14. ASSUME ReleaseSession(p) PROVE Typed'
  BY <1>14, <1>0, <1>types, TypedMoves DEF ReleaseSession, At, Steps
<1>15. ASSUME ForgetSession(p) PROVE Typed'
  BY <1>15, <1>pc, <1>0, <1>types, TypedMoves DEF ForgetSession, Steps
<1>16. ASSUME RemoveRow(p) PROVE Typed'
  BY <1>16, <1>0, <1>types, TypedMoves DEF RemoveRow, At, Steps
<1>17. ASSUME ReadFlag(p) PROVE Typed'
  BY <1>17, <1>pc, <1>0, <1>types, TypedMoves DEF ReadFlag, Steps
<1>18. ASSUME MarkConnected(p) PROVE Typed'
  <2>1. CASE Move(p, "done") /\ UNCHANGED up
    BY <2>1, <1>18, <1>0, <1>types, TypedMoves DEF MarkConnected, At, Steps
  <2>2. CASE /\ sessions[i] # None /\ Hold(p, sessions[i], "identify")
             /\ up' = up \cup {sessions[i]}
    <3>1. sessions[i] \in Tasks /\ Begun(sessions[i])
      BY <2>2, <1>18, <1>0, <1>types DEF MarkConnected, At, Typed, Refs, TaskRefs, Idle, HeldRefs, MapRefs, LinkRefs
    <3>2. /\ op[p] # "none" /\ "identify" \in Steps
          /\ UNCHANGED <<row, sessions, cancelOf, heart, loggingOut, qrCancel, unloaded, client>>
      BY <1>18 DEF MarkConnected, At, Steps
    <3>3. TypeOK'
      <4>1. up' \in SUBSET Tasks
        BY <3>1, <2>2, <1>types
      <4>2. Hold(p, sessions[i], "identify")
        BY <2>2
      <4>3. QED BY <3>1, <3>2, <4>1, <4>2, HoldTypes DEF Typed, TypeOK
    <3>4. Refs'
      BY <3>1, <3>2, <2>2, HoldRefs DEF Typed, TypeOK
    <3>5. QED BY <3>3, <3>4 DEF Typed
  <2>3. QED BY <2>1, <2>2, <1>18 DEF MarkConnected
<1>19. ASSUME Identify(p) PROVE Typed'
  BY <1>19, <1>0, <1>types, TypedMoves DEF Identify, At, Steps
<1>20. ASSUME WriteOnline(p) \/ WriteDisconnected(p) \/ UpdateLoaded(p) PROVE Typed'
  BY <1>20, <1>0, <1>types, TypedMoves DEF WriteOnline, WriteDisconnected, UpdateLoaded, TryUpdate,
     Update, At, Steps
<1>21. ASSUME StartHeartbeat(p) PROVE Typed'
  BY <1>21, <1>0, <1>types, TypedMoves DEF StartHeartbeat, At, Steps
<1>22. ASSUME MarkLoggedOut(p) \/ MarkDisconnected(p) PROVE Typed'
  BY <1>22, <1>0, <1>types, TypedMoves DEF MarkLoggedOut, MarkDisconnected, At, Steps
<1>23. ASSUME ConnectLoaded(p) PROVE Typed'
  BY <1>23, <1>0, <1>types, TypedMoves DEF ConnectLoaded, At, Steps
<1>24. ASSUME StoreLoaded(p) PROVE Typed'
  BY <1>24, <1>0, <1>types, TypedMoves DEF StoreLoaded, At, Steps
<1>25. QED
  BY <1>1, <1>2, <1>3, <1>4, <1>5, <1>6, <1>7, <1>8, <1>9, <1>10, <1>11, <1>12, <1>13, <1>14,
     <1>15, <1>16, <1>17, <1>18, <1>19, <1>20, <1>21, <1>22, <1>23, <1>24 DEF Continue

LEMMA TypedStep ==
    ASSUME Typed, [Next]_vars
    PROVE  Typed'
<1> USE DEF row, memory, client, started
<1>1. ASSUME NEW p \in Tasks, ReceiveCode(p) PROVE Typed'
  <2>1. /\ status' \in [Instances -> Statuses]
        /\ UNCHANGED <<isConnected, memory, client, started, pc, held>>
    BY <1>1 DEF ReceiveCode, Statuses, Typed, TypeOK
  <2>2. QED BY <2>1 DEF Typed, TypeOK, Refs, TaskRefs, Idle, HeldRefs, MapRefs, LinkRefs, Begun
<1>2. ASSUME NEW h \in Tasks, HeartbeatStops(h) PROVE Typed'
  <2>1. /\ heart' \in [Tasks -> Hearts]
        /\ UNCHANGED <<row, sessions, up, cancelOf, loggingOut, qrCancel, unloaded,
                       client, started, pc, held>>
    BY <1>2 DEF HeartbeatStops, Hearts, Typed, TypeOK
  <2>2. QED BY <2>1 DEF Typed, TypeOK, Refs, TaskRefs, Idle, HeldRefs, MapRefs, LinkRefs, Begun
<1>3. ASSUME NEW s \in Tasks, Reconnect(s) \/ Pair(s) PROVE Typed'
  <2>1. /\ link' \in [Tasks -> Links] /\ paired' \in SUBSET Tasks
        /\ \A q \in Tasks : link'[q] # "off" => link[q] # "off"
        /\ UNCHANGED <<row, memory, started, pc, held>>
    BY <1>3 DEF Reconnect, Pair, Links, Typed, TypeOK
  <2>2. QED BY <2>1 DEF Typed, TypeOK, Refs, TaskRefs, Idle, HeldRefs, MapRefs, LinkRefs, Begun
<1>4. CASE UNCHANGED vars
  BY <1>4 DEF vars, Typed, TypeOK, Refs, TaskRefs, Idle, HeldRefs, MapRefs, LinkRefs, Begun
<1>5. QED
  BY <1>1, <1>2, <1>3, <1>4, TypedBegins, TypedContinue DEF Next

(* Sessions and tasks are of their types in every reachable state:         *)
(* whatsapp.go never uses a session it did not find in the map.            *)
THEOREM TypesHold == Spec => []TypeOK
<1>1. Typed => TypeOK
  BY DEF Typed
<1>2. Typed /\ [Next]_vars => Typed'
  BY TypedStep
<1>3. QED BY <1>1, <1>2, TypedInit, PTL DEF Spec

-----------------------------------------------------------------------------
(* Which steps belong to which operation, as far as the arguments need it. *)
LogoutSteps == {"take", "missing", "cancel", "unlink", "status", "read", "unflag", "panicked"}

RoleOf(p) ==
    /\ op[p] = "logout" => pc[p] \in LogoutSteps
    /\ pc[p] = "read" => op[p] \in {"logout", "loggedOut"}
    /\ pc[p] = "forget" => op[p] \in {"delete", "loggedOut"}
    /\ pc[p] = "flag" => op[p] \in {"connected", "disconnected"}

Roles == \A p \in Tasks : RoleOf(p)

(* A step of p is no other task's, and p stays what it is until it ends.   *)
Own(p) ==
    /\ of' = of
    /\ \A q \in Tasks \ {p} : op'[q] = op[q] /\ pc'[q] = pc[q]
    /\ op'[p] \in {op[p], "ended"}

FlagEffect(p) ==
    \/ loggingOut' = loggingOut /\ (op[p] = "logout" => op'[p] = "logout")
    \/ loggingOut' = loggingOut \ {of[p]}

InFlow(p) == op[p] = "qr" /\ pc[p] \in QRFlow

QREffect(p) ==
    \/ qrCancel' = qrCancel /\ (InFlow(p) => InFlow(p)')
    \/ qrCancel' = [qrCancel EXCEPT ![of[p]] = None]
    \/ qrCancel' = [qrCancel EXCEPT ![of[p]] = p] /\ InFlow(p)'

MapEffect(p) ==
    \/ sessions' = sessions
    \/ sessions[of[p]] = None /\ op[p] = "qr" /\ sessions' = [sessions EXCEPT ![of[p]] = p]
    \/ Teardown(p, of[p]) /\ sessions' = [sessions EXCEPT ![of[p]] = None]
    \/ At(p, "load", "store") /\ sessions' = [sessions EXCEPT ![of[p]] = p] /\ pc'[p] = "update"

Loading(p) == op[p] = "load" /\ pc[p] \in {"connect", "store"}

Effect(p) ==
    /\ op[p] # "none" /\ Own(p) /\ RoleOf(p)' /\ unloaded' = unloaded
    /\ FlagEffect(p) /\ QREffect(p) /\ MapEffect(p)
    /\ Loading(p)' => Loading(p)

LEMMA ContinueEffect ==
    ASSUME Typed, Roles, NEW p \in Tasks, Continue(p)
    PROVE  Effect(p)
<1> USE DEF memory, started
<1>0. /\ op \in [Tasks -> Ops] /\ pc \in [Tasks -> Steps] /\ RoleOf(p)
      /\ pc[p] # "none" => op[p] # "none"
  BY DEF Typed, TypeOK, Refs, Idle, Roles
<1>1. ASSUME InsertInstance(p) PROVE Effect(p)
  BY <1>0, <1>1 DEF InsertInstance, Move, At, Effect, Own, RoleOf, FlagEffect, QREffect, InFlow, MapEffect,
     Loading, LogoutSteps, QRFlow
<1>2. ASSUME FindSession(p) PROVE Effect(p)
  BY <1>0, <1>2 DEF FindSession, Move, Hold, At, Effect, Own, RoleOf, FlagEffect, QREffect, InFlow, MapEffect,
     Loading, LogoutSteps, QRFlow
<1>3. ASSUME CreateForQR(p) PROVE Effect(p)
  BY <1>0, <1>3 DEF CreateForQR, CreateSession, Move, Hold, At, Effect, Own, RoleOf, FlagEffect, QREffect, InFlow, MapEffect,
     Loading, LogoutSteps, QRFlow
<1>4. ASSUME RegisterQR(p) PROVE Effect(p)
  BY <1>0, <1>4 DEF RegisterQR, Move, At, Effect, Own, RoleOf, FlagEffect, QREffect, InFlow, MapEffect,
     Loading, LogoutSteps, QRFlow
<1>5. ASSUME OpenChannel(p) PROVE Effect(p)
  BY <1>0, <1>5 DEF OpenChannel, EndFlow, Move, At, Effect, Own, RoleOf, FlagEffect, QREffect, InFlow, MapEffect,
     Loading, LogoutSteps, QRFlow
<1>6. ASSUME ConnectForQR(p) PROVE Effect(p)
  BY <1>0, <1>6 DEF ConnectForQR, EndFlow, Move, At, Effect, Own, RoleOf, FlagEffect, QREffect, InFlow, MapEffect,
     Loading, LogoutSteps, QRFlow
<1>7. ASSUME EndListening(p) PROVE Effect(p)
  BY <1>0, <1>7 DEF EndListening, EndFlow, Move, At, Effect, Own, RoleOf, FlagEffect, QREffect, InFlow, MapEffect,
     Loading, LogoutSteps, QRFlow
<1>8. ASSUME TakeSession(p) PROVE Effect(p)
  BY <1>0, <1>8 DEF TakeSession, Move, Hold, Teardown, At, Effect, Own, RoleOf, FlagEffect, QREffect, InFlow, MapEffect,
     Loading, LogoutSteps, QRFlow
<1>9. ASSUME Unflag(p) PROVE Effect(p)
  BY <1>0, <1>9 DEF Unflag, Move, At, Effect, Own, RoleOf, FlagEffect, QREffect, InFlow, MapEffect,
     Loading, LogoutSteps, QRFlow
<1>10. ASSUME CancelHeartbeat(p) PROVE Effect(p)
  BY <1>0, <1>10 DEF CancelHeartbeat, Move, At, Effect, Own, RoleOf, FlagEffect, QREffect, InFlow, MapEffect,
     Loading, LogoutSteps, QRFlow
<1>11. ASSUME Unlink(p) PROVE Effect(p)
  BY <1>0, <1>11 DEF Unlink, Move, At, Effect, Own, RoleOf, FlagEffect, QREffect, InFlow, MapEffect,
     Loading, LogoutSteps, QRFlow
<1>12. ASSUME WriteLoggedOut(p) PROVE Effect(p)
  BY <1>0, <1>12 DEF WriteLoggedOut, Rest, Move, At, Effect, Own, RoleOf, FlagEffect, QREffect, InFlow, MapEffect,
     Loading, LogoutSteps, QRFlow
<1>13. ASSUME ReadRow(p) PROVE Effect(p)
  BY <1>0, <1>13 DEF ReadRow, Rest, Move, At, Effect, Own, RoleOf, FlagEffect, QREffect, InFlow, MapEffect,
     Loading, LogoutSteps, QRFlow
<1>14. ASSUME ReleaseSession(p) PROVE Effect(p)
  BY <1>0, <1>14 DEF ReleaseSession, Move, At, Effect, Own, RoleOf, FlagEffect, QREffect, InFlow, MapEffect,
     Loading, LogoutSteps, QRFlow
<1>15. ASSUME ForgetSession(p) PROVE Effect(p)
  BY <1>0, <1>15 DEF ForgetSession, Move, Teardown, At, Effect, Own, RoleOf, FlagEffect, QREffect, InFlow, MapEffect,
     Loading, LogoutSteps, QRFlow
<1>16. ASSUME RemoveRow(p) PROVE Effect(p)
  BY <1>0, <1>16 DEF RemoveRow, Move, At, Effect, Own, RoleOf, FlagEffect, QREffect, InFlow, MapEffect,
     Loading, LogoutSteps, QRFlow
<1>17. ASSUME ReadFlag(p) PROVE Effect(p)
  BY <1>0, <1>17 DEF ReadFlag, Move, At, Effect, Own, RoleOf, FlagEffect, QREffect, InFlow, MapEffect,
     Loading, LogoutSteps, QRFlow
<1>18. ASSUME MarkConnected(p) PROVE Effect(p)
  BY <1>0, <1>18 DEF MarkConnected, Move, Hold, At, Effect, Own, RoleOf, FlagEffect, QREffect, InFlow, MapEffect,
     Loading, LogoutSteps, QRFlow
<1>19. ASSUME Identify(p) PROVE Effect(p)
  BY <1>0, <1>19 DEF Identify, Move, At, Effect, Own, RoleOf, FlagEffect, QREffect, InFlow, MapEffect,
     Loading, LogoutSteps, QRFlow
<1>20. ASSUME WriteOnline(p) PROVE Effect(p)
  BY <1>0, <1>20 DEF WriteOnline, Move, At, Effect, Own, RoleOf, FlagEffect, QREffect, InFlow, MapEffect,
     Loading, LogoutSteps, QRFlow
<1>21. ASSUME ReplaceHeartbeat(p) PROVE Effect(p)
  BY <1>0, <1>21 DEF ReplaceHeartbeat, Move, At, Effect, Own, RoleOf, FlagEffect, QREffect, InFlow, MapEffect,
     Loading, LogoutSteps, QRFlow
<1>22. ASSUME StartHeartbeat(p) PROVE Effect(p)
  BY <1>0, <1>22 DEF StartHeartbeat, Move, At, Effect, Own, RoleOf, FlagEffect, QREffect, InFlow, MapEffect,
     Loading, LogoutSteps, QRFlow
<1>23. ASSUME MarkLoggedOut(p) PROVE Effect(p)
  BY <1>0, <1>23 DEF MarkLoggedOut, Move, At, Effect, Own, RoleOf, FlagEffect, QREffect, InFlow, MapEffect,
     Loading, LogoutSteps, QRFlow
<1>24. ASSUME MarkDisconnected(p) PROVE Effect(p)
  BY <1>0, <1>24 DEF MarkDisconnected, Move, At, Effect, Own, RoleOf, FlagEffect, QREffect, InFlow, MapEffect,
     Loading, LogoutSteps, QRFlow
<1>25. ASSUME WriteDisconnected(p) PROVE Effect(p)
  BY <1>0, <1>25 DEF WriteDisconnected, Move, At, Effect, Own, RoleOf, FlagEffect, QREffect, InFlow, MapEffect,
     Loading, LogoutSteps, QRFlow
<1>26. ASSUME ConnectLoaded(p) PROVE Effect(p)
  BY <1>0, <1>26 DEF ConnectLoaded, Move, At, Effect, Own, RoleOf, FlagEffect, QREffect, InFlow, MapEffect,
     Loading, LogoutSteps, QRFlow
<1>27. ASSUME StoreLoaded(p) PROVE Effect(p)
  BY <1>0, <1>27 DEF StoreLoaded, Move, At, Effect, Own, RoleOf, FlagEffect, QREffect, InFlow, MapEffect,
     Loading, LogoutSteps, QRFlow
<1>28. ASSUME UpdateLoaded(p) PROVE Effect(p)
  BY <1>0, <1>28 DEF UpdateLoaded, Move, At, Effect, Own, RoleOf, FlagEffect, QREffect, InFlow, MapEffect,
     Loading, LogoutSteps, QRFlow
<1>29. QED
  BY <1>1, <1>2, <1>3, <1>4, <1>5, <1>6, <1>7, <1>8, <1>9, <1>10, <1>11, <1>12, <1>13, <1>14, <1>15, <1>16, <1>17, <1>18, <1>19, <1>20, <1>21, <1>22, <1>23, <1>24, <1>25, <1>26, <1>27, <1>28 DEF Continue

(* What the beginning of a task does.                                      *)
Others(p) ==
    /\ op[p] = "none"
    /\ \A q \in Tasks \ {p} : op'[q] = op[q] /\ of'[q] = of[q] /\ pc'[q] = pc[q]

Beginning(p, i) ==
    /\ Others(p) /\ of'[p] = i
    /\ \/ /\ Serving /\ op'[p] \in {"login", "qr", "logout", "delete"}
          /\ pc'[p] \in {"insert", "find", "take", "release"} /\ unloaded' = unloaded
       \/ op'[p] \in {"connected", "loggedOut", "disconnected"}
          /\ pc'[p] = (IF op'[p] = "loggedOut" THEN "mark" ELSE "flag") /\ unloaded' = unloaded
       \/ /\ i \in unloaded /\ \A q \in Tasks : op[q] # "load"
          /\ unloaded' = unloaded \ {i} /\ op'[p] = "load" /\ pc'[p] = "connect"
    /\ \/ op'[p] # "logout" /\ loggingOut' = loggingOut
       \/ op'[p] = "logout" /\ loggingOut' = loggingOut \cup {i} /\ pc'[p] = "take"
    /\ qrCancel' = qrCancel
    /\ \/ sessions' = sessions
       \/ /\ op'[p] = "login" /\ sessions[i] = None
          /\ sessions' = [sessions EXCEPT ![i] = p]

LEMMA BeginEffect ==
    ASSUME Typed, NEW p \in Tasks,
           Request(p) \/ Event(p) \/ \E i \in Instances : Load(p, i)
    PROVE  \E i \in Instances : Beginning(p, i)
<1> USE DEF memory
<1>0. op \in [Tasks -> Ops] /\ pc \in [Tasks -> Steps] /\ of \in [Tasks -> Instances \cup {None}]
  BY DEF Typed, TypeOK
<1>1. ASSUME NEW i \in Instances, Login(p, i) PROVE Beginning(p, i)
  BY <1>0, <1>1 DEF Login, CreateSession, Start, Beginning, Others
<1>2. ASSUME NEW i \in Instances, GetQR(p, i) PROVE Beginning(p, i)
  BY <1>0, <1>2 DEF GetQR, Start, Beginning, Others
<1>3. ASSUME NEW i \in Instances, Logout(p, i) PROVE Beginning(p, i)
  BY <1>0, <1>3 DEF Logout, Start, Beginning, Others
<1>4. ASSUME NEW i \in Instances, DeleteInstance(p, i) PROVE Beginning(p, i)
  BY <1>0, <1>4 DEF DeleteInstance, Start, Beginning, Others
<1>5. ASSUME NEW i \in Instances, Load(p, i) PROVE Beginning(p, i)
  BY <1>0, <1>5 DEF Load, Start, Beginning, Others
<1>6. ASSUME NEW s \in Tasks, Authenticated(p, s) \/ LoggedOut(p, s) \/ Disconnected(p, s)
      PROVE  \E i \in Instances : Beginning(p, i)
  <2>1. of[s] \in Instances
    BY <1>6 DEF Authenticated, LoggedOut, Disconnected, IsConnected, Typed, Refs, LinkRefs, Begun
  <2>2. Beginning(p, of[s])
    BY <1>0, <1>6, <2>1 DEF Authenticated, LoggedOut, Disconnected, InstanceOf, Start, Beginning, Others
  <2>3. QED BY <2>1, <2>2
<1>7. QED BY <1>1, <1>2, <1>3, <1>4, <1>5, <1>6 DEF Request, Event

(* Every step is one of three: a task begins, a task goes on, or nothing   *)
(* of what the invariants speak of changes.                                *)
Quiet == UNCHANGED <<op, of, pc, sessions, qrCancel, loggingOut, unloaded>>

LEMMA Shapes ==
    ASSUME Typed, Roles, [Next]_vars
    PROVE  \/ \E p \in Tasks, i \in Instances : Beginning(p, i)
           \/ \E p \in Tasks : Effect(p)
           \/ Quiet
<1>1. CASE \E p \in Tasks : Request(p) \/ Event(p) \/ \E i \in Instances : Load(p, i)
  BY <1>1, BeginEffect
<1>2. CASE \E p \in Tasks : Continue(p)
  BY <1>2, ContinueEffect
<1>3. CASE \/ \E p \in Tasks : ReceiveCode(p) \/ HeartbeatStops(p) \/ Reconnect(p) \/ Pair(p)
           \/ UNCHANGED vars
  BY <1>3 DEF ReceiveCode, HeartbeatStops, Reconnect, Pair, vars, memory, started, Quiet
<1>4. QED BY <1>1, <1>2, <1>3 DEF Next

-----------------------------------------------------------------------------
(* The order of start-up.                                                  *)
Boot ==
    /\ \A p \in Tasks : op[p] \in {"login", "qr", "logout", "delete"} => Serving
    /\ \A p, q \in Tasks : op[p] = "load" /\ op[q] = "load" => p = q
    /\ \A i \in unloaded : sessions[i] = None
    /\ \A p \in Tasks : Loading(p) => sessions[of[p]] = None /\ of[p] \notin unloaded

IInv == Typed /\ Roles /\ Boot /\ FlagHasALogout /\ CancelBelongsToAFlow

LEMMA IInvInit == Init => IInv
<1> SUFFICES ASSUME Init PROVE IInv
  OBVIOUS
<1>1. Typed
  BY TypedInit
<1>2. \A p \in Tasks : op[p] = "none" /\ pc[p] = "none"
  BY DEF Init
<1>3. Roles
  BY <1>2 DEF Roles, RoleOf
<1>4. Boot
  BY <1>2 DEF Init, Boot, Loading
<1>5. FlagHasALogout /\ CancelBelongsToAFlow
  BY DEF Init, FlagHasALogout, CancelBelongsToAFlow
<1>6. QED BY <1>1, <1>3, <1>4, <1>5 DEF IInv

LEMMA RolesStep ==
    ASSUME IInv, [Next]_vars
    PROVE  Roles'
<1>1. ASSUME NEW p \in Tasks, NEW i \in Instances, Beginning(p, i) PROVE Roles'
  BY <1>1 DEF IInv, Roles, RoleOf, Beginning, Others, LogoutSteps
<1>2. ASSUME NEW p \in Tasks, Effect(p) PROVE Roles'
  BY <1>2 DEF IInv, Roles, RoleOf, Effect, Own
<1>3. CASE Quiet
  BY <1>3 DEF IInv, Roles, RoleOf, Quiet
<1>4. QED BY <1>1, <1>2, <1>3, Shapes DEF IInv

LEMMA FlagStep ==
    ASSUME IInv, [Next]_vars
    PROVE  FlagHasALogout'
<1>0. loggingOut \subseteq Instances
  BY DEF IInv, Typed, TypeOK
<1>1. ASSUME NEW p \in Tasks, NEW i \in Instances, Beginning(p, i) PROVE FlagHasALogout'
  BY <1>1 DEF IInv, FlagHasALogout, LoggingOut, Beginning, Others
<1>2. ASSUME NEW p \in Tasks, Effect(p) PROVE FlagHasALogout'
  <2> SUFFICES ASSUME NEW i \in loggingOut'
               PROVE  \E q \in Tasks : op'[q] = "logout" /\ of'[q] = i
    BY DEF FlagHasALogout, LoggingOut
  <2>1. i \in loggingOut
    BY <1>2 DEF Effect, FlagEffect
  <2>2. PICK q \in Tasks : op[q] = "logout" /\ of[q] = i
    BY <2>1 DEF IInv, FlagHasALogout, LoggingOut
  <2>3. op'[q] = "logout" /\ of'[q] = i
    <3>1. CASE q # p
      BY <3>1, <1>2, <2>2 DEF Effect, Own
    <3>2. CASE q = p
      BY <3>2, <1>2, <2>2 DEF Effect, Own, FlagEffect
    <3>3. QED BY <3>1, <3>2
  <2>4. QED BY <2>3
<1>3. CASE Quiet
  BY <1>3 DEF IInv, FlagHasALogout, LoggingOut, Quiet
<1>4. QED BY <1>1, <1>2, <1>3, Shapes DEF IInv

LEMMA CancelStep ==
    ASSUME IInv, [Next]_vars
    PROVE  CancelBelongsToAFlow'
<1>0. /\ qrCancel \in [Instances -> Tasks \cup {None}]
      /\ \A i \in Instances : qrCancel[i] # None =>
            qrCancel[i] \in Tasks /\ InFlow(qrCancel[i]) /\ of[qrCancel[i]] = i
  BY DEF IInv, Typed, TypeOK, CancelBelongsToAFlow, InFlow
<1>1. ASSUME NEW p \in Tasks, NEW i \in Instances, Beginning(p, i) PROVE CancelBelongsToAFlow'
  <2> SUFFICES ASSUME NEW j \in Instances, qrCancel[j] # None
               PROVE  InFlow(qrCancel[j])' /\ of'[qrCancel[j]] = j
    BY <1>1 DEF Beginning, CancelBelongsToAFlow, InFlow
  <2>1. qrCancel[j] \in Tasks \ {p}
    BY <1>0, <1>1 DEF Beginning, Others, InFlow
  <2>2. QED BY <2>1, <1>0, <1>1 DEF Beginning, Others, InFlow
<1>2. ASSUME NEW p \in Tasks, Effect(p) PROVE CancelBelongsToAFlow'
  <2> SUFFICES ASSUME NEW j \in Instances, qrCancel'[j] # None
               PROVE  /\ op'[qrCancel'[j]] = "qr" /\ of'[qrCancel'[j]] = j
                      /\ pc'[qrCancel'[j]] \in QRFlow
    BY DEF CancelBelongsToAFlow
  <2>0. of[p] \in Instances
    BY <1>2 DEF Effect, IInv, Typed, Refs, TaskRefs, Begun
  <2>1. CASE qrCancel'[j] = qrCancel[j] /\ qrCancel[j] # p
    BY <2>1, <1>0, <1>2 DEF Effect, Own, InFlow
  <2>2. CASE qrCancel'[j] = p /\ InFlow(p)' /\ of[p] = j
    BY <2>2, <1>2 DEF Effect, Own, InFlow
  <2>3. CASE qrCancel'[j] = qrCancel[j] /\ qrCancel[j] = p
    <3>1. InFlow(p) /\ of[p] = j
      BY <2>3, <1>0
    <3>2. InFlow(p)'
      BY <2>3, <3>1, <2>0, <1>0, <1>2, NoneIsNoTask DEF Effect, QREffect
    <3>3. QED BY <3>1, <3>2, <2>3, <2>2
  <2>4. QED BY <2>0, <2>1, <2>2, <2>3, <1>0, <1>2 DEF Effect, QREffect
<1>3. CASE Quiet
  BY <1>3 DEF IInv, CancelBelongsToAFlow, Quiet
<1>4. QED BY <1>1, <1>2, <1>3, Shapes DEF IInv

LEMMA BootStep ==
    ASSUME IInv, [Next]_vars
    PROVE  Boot'
<1>0. /\ sessions \in [Instances -> Tasks \cup {None}] /\ unloaded \subseteq Instances
      /\ \A p \in Tasks : op[p] # "none" => of[p] \in Instances
  BY DEF IInv, Typed, TypeOK, Refs, TaskRefs, Begun
<1>1. ASSUME NEW p \in Tasks, NEW i \in Instances, Beginning(p, i) PROVE Boot'
  <2>1. CASE Serving /\ op'[p] # "load" /\ unloaded' = unloaded
    <3>1. Serving' /\ unloaded' = {} /\ \A q \in Tasks : op'[q] # "load"
      BY <2>1, <1>1 DEF Serving, Beginning, Others
    <3>2. QED BY <3>1 DEF Boot, Loading
  <2>2. CASE op'[p] \in {"connected", "loggedOut", "disconnected"} /\ unloaded' = unloaded
    <3>1. Serving => Serving'
      BY <2>2, <1>1 DEF Serving, Beginning, Others
    <3>2. sessions' = sessions
      BY <2>2, <1>1 DEF Beginning
    <3>3. \A q \in Tasks : op'[q] \in {"login", "qr", "logout", "delete", "load"} => q # p
      BY <2>2
    <3>4. QED BY <3>1, <3>2, <3>3, <2>2, <1>1 DEF IInv, Boot, Loading, Beginning, Others
  <2>3. CASE i \in unloaded /\ op'[p] = "load" /\ unloaded' = unloaded \ {i}
             /\ \A q \in Tasks : op[q] # "load"
    <3>1. ~Serving /\ sessions' = sessions /\ sessions[i] = None
      BY <2>3, <1>1 DEF Serving, Beginning, IInv, Boot
    <3>2. \A q \in Tasks : op'[q] \notin {"login", "qr", "logout", "delete"}
      BY <3>1, <2>3, <1>1 DEF Beginning, Others, IInv, Boot
    <3>3. \A q \in Tasks : op'[q] = "load" => q = p
      BY <2>3, <1>1 DEF Beginning, Others
    <3>4. QED BY <3>1, <3>2, <3>3, <2>3, <1>1 DEF Boot, Loading, Beginning, IInv
  <2>4. QED BY <2>1, <2>2, <2>3, <1>1 DEF Beginning
<1>2. ASSUME NEW p \in Tasks, Effect(p) PROVE Boot'
  <2>1. /\ of[p] \in Instances /\ of' = of /\ unloaded' = unloaded /\ op[p] # "none"
        /\ \A q \in Tasks : op'[q] \in {op[q], "ended"}
        /\ \A q \in Tasks : Loading(q)' => Loading(q)
    BY <1>0, <1>2 DEF Effect, Own, Loading
  <2>2. Serving => Serving'
    BY <2>1 DEF Serving
  <2>3. \A q \in Tasks : op'[q] \in {"login", "qr", "logout", "delete"} => Serving'
    BY <2>1, <2>2 DEF IInv, Boot
  <2>4. \A q, r \in Tasks : op'[q] = "load" /\ op'[r] = "load" => q = r
    BY <2>1 DEF IInv, Boot
  <2>5. \A i \in Instances : sessions'[i] # None /\ sessions[i] = None =>
           Serving \/ (Loading(p) /\ ~Loading(p)' /\ i = of[p])
    BY <2>1, <1>0, <1>2 DEF Effect, MapEffect, Loading, At, IInv, Boot
  <2>6. \A i \in unloaded' : sessions'[i] = None
    BY <2>1, <2>5, <1>0 DEF IInv, Boot, Serving
  <2>7. ASSUME NEW q \in Tasks, Loading(q)' PROVE sessions'[of[q]] = None /\ of[q] \notin unloaded
    <3>1. Loading(q) /\ of[q] \in Instances /\ ~Serving
      BY <2>1, <2>7, <1>0 DEF Loading, Serving
    <3>2. Loading(p) => p = q
      BY <3>1 DEF Loading, IInv, Boot
    <3>3. QED BY <3>1, <3>2, <2>5, <2>7 DEF IInv, Boot
  <2>8. QED BY <2>1, <2>3, <2>4, <2>6, <2>7 DEF Boot
<1>3. CASE Quiet
  BY <1>3 DEF IInv, Boot, Loading, Serving, Quiet
<1>4. QED BY <1>1, <1>2, <1>3, Shapes DEF IInv

LEMMA IInvStep ==
    ASSUME IInv, [Next]_vars
    PROVE  IInv'
BY TypedStep, RolesStep, FlagStep, CancelStep, BootStep DEF IInv

-----------------------------------------------------------------------------
(* No instance is left flagged by a logout that returned.                  *)
THEOREM FlagHolds == Spec => []FlagHasALogout
<1>1. IInv => FlagHasALogout
  BY DEF IInv
<1>2. IInv /\ [Next]_vars => IInv'
  BY IInvStep
<1>3. QED BY <1>1, <1>2, IInvInit, PTL DEF Spec

(* GET /qr is refused only while a flow of the instance runs.              *)
THEOREM CancelHolds == Spec => []CancelBelongsToAFlow
<1>1. IInv => CancelBelongsToAFlow
  BY DEF IInv
<1>2. IInv /\ [Next]_vars => IInv'
  BY IInvStep
<1>3. QED BY <1>1, <1>2, IInvInit, PTL DEF Spec

(* A session leaves the map by a teardown of its instance, never because   *)
(* another takes its place.                                                *)
LEMMA MapStep ==
    ASSUME IInv, [Next]_vars, NEW i \in Instances, sessions[i] # None, sessions'[i] # sessions[i]
    PROVE  sessions'[i] = None /\ \E p \in Tasks : Teardown(p, i)
<1>0. sessions \in [Instances -> Tasks \cup {None}]
  BY DEF IInv, Typed, TypeOK
<1>1. ASSUME NEW p \in Tasks, NEW j \in Instances, Beginning(p, j) PROVE FALSE
  BY <1>0, <1>1 DEF Beginning
<1>2. ASSUME NEW p \in Tasks, Effect(p) PROVE sessions'[i] = None /\ Teardown(p, i)
  <2>1. At(p, "load", "store") => sessions[of[p]] = None
    BY DEF IInv, Boot, Loading, At
  <2>2. QED BY <2>1, <1>0, <1>2 DEF Effect, MapEffect
<1>3. QED BY <1>1, <1>2, Shapes DEF IInv, Quiet

THEOREM NeverReplacedHolds == Spec => NeverReplaced
<1>1. IInv /\ [Next]_vars =>
         [\A i \in Instances :
             sessions[i] # None /\ sessions'[i] # sessions[i] =>
                sessions'[i] = None /\ \E p \in Tasks : Teardown(p, i)]_vars
  BY MapStep
<1>2. IInv /\ [Next]_vars => IInv'
  BY IInvStep
<1>3. QED BY <1>1, <1>2, IInvInit, PTL DEF Spec, NeverReplaced
-----------------------------------------------------------------------------
(* Heartbeats.  A session is named after the task that creates it: before  *)
(* that nothing refers to it.                                              *)
Unborn(s) ==
    \/ op[s] = "none" \/ Loading(s)
    \/ op[s] = "qr" /\ pc[s] \in {"find", "create"}

Born == {s \in Tasks : ~Unborn(s)}

(* Steps in which a task has a session in hand whose heartbeat it stops.   *)
StopsHeart(q) ==
    \/ At(q, "logout", "cancel")
    \/ op[q] = "connected" /\ pc[q] \in {"identify", "online", "replace", "beat"}

(* A cancel function was stored for a session there is, by a handler that  *)
(* has ended, and for no other session.                                    *)
CancelsAreOwn ==
    \A s \in Tasks : cancelOf[s] # None =>
        /\ s \in Born /\ op[cancelOf[s]] = "ended"
        /\ \A t \in Tasks : cancelOf[t] = cancelOf[s] => t = s

(* A logout cancels the heartbeat of a session that has left the map, and  *)
(* none comes back.                                                        *)
InHand ==
    \A q \in Tasks : StopsHeart(q) =>
        /\ held[q] \in Born
        /\ op[q] = "logout" => \A i \in Instances : sessions[i] # held[q]

InMap ==
    \A i \in Instances :
        sessions[i] # None => of[sessions[i]] = i /\ sessions[i] \in Born

HeartInv == CancelsAreOwn /\ InHand /\ InMap /\ HeartIsReplaced

(* What a step of p does to hearts.                                        *)
Keeps(p) ==
    /\ cancelOf' = cancelOf /\ heart' = heart
    /\ ~At(p, "connected", "beat")

HeartEffect(p) ==
    /\ \A q \in Tasks \ {p} : held'[q] = held[q]
    /\ Unborn(p)' => Unborn(p)
    /\ \A i \in Instances :
          \/ sessions'[i] \in {sessions[i], None}
          \/ i = of[p] /\ sessions'[i] = p /\ Unborn(p) /\ ~Unborn(p)'
    /\ \/ Keeps(p) /\ ~StopsHeart(p)'
       \/ /\ Keeps(p) /\ op'[p] = "connected"
          /\ StopsHeart(p) /\ held'[p] = held[p]
       \/ /\ Keeps(p) /\ sessions[of[p]] # None /\ held'[p] = sessions[of[p]]
          /\ op'[p] = "logout" => sessions' = [sessions EXCEPT ![of[p]] = None]
       \/ /\ At(p, "logout", "cancel") /\ ~StopsHeart(p)'
          /\ StopHeart(held[p]) /\ UNCHANGED <<cancelOf, sessions>>
       \/ /\ At(p, "connected", "replace") /\ At(p, "connected", "beat")'
          /\ StopHeart(held[p]) /\ UNCHANGED <<cancelOf, sessions, held>>
       \/ /\ At(p, "connected", "beat") /\ op'[p] = "ended"
          /\ cancelOf' = [cancelOf EXCEPT ![held[p]] = p]
          /\ heart' = [heart EXCEPT ![p] = "beating"] /\ UNCHANGED sessions

LEMMA ContinueHearts ==
    ASSUME Typed, Roles, NEW p \in Tasks, Continue(p)
    PROVE  HeartEffect(p)
<1> USE DEF memory, started, HeartEffect, Keeps, StopsHeart, Unborn, Loading, At
<1>0. /\ op \in [Tasks -> Ops] /\ pc \in [Tasks -> Steps] /\ RoleOf(p)
      /\ held \in [Tasks -> Tasks \cup {None}] /\ sessions \in [Instances -> Tasks \cup {None}]
      /\ pc[p] # "none" => op[p] # "none"
  BY DEF Typed, TypeOK, Refs, Idle, Roles
<1>1. ASSUME InsertInstance(p) PROVE HeartEffect(p)
  BY <1>0, <1>1 DEF InsertInstance, Move, RoleOf, LogoutSteps
<1>2. ASSUME FindSession(p) PROVE HeartEffect(p)
  BY <1>0, <1>2 DEF FindSession, Hold, Move, RoleOf, LogoutSteps
<1>3. ASSUME CreateForQR(p) PROVE HeartEffect(p)
  BY <1>0, <1>3 DEF CreateForQR, Hold, CreateSession, Move, RoleOf, LogoutSteps
<1>4. ASSUME RegisterQR(p) PROVE HeartEffect(p)
  BY <1>0, <1>4 DEF RegisterQR, Move, RoleOf, LogoutSteps
<1>5. ASSUME OpenChannel(p) PROVE HeartEffect(p)
  BY <1>0, <1>5 DEF OpenChannel, EndFlow, Move, RoleOf, LogoutSteps
<1>6. ASSUME ConnectForQR(p) PROVE HeartEffect(p)
  BY <1>0, <1>6 DEF ConnectForQR, EndFlow, Move, RoleOf, LogoutSteps
<1>7. ASSUME EndListening(p) PROVE HeartEffect(p)
  BY <1>0, <1>7 DEF EndListening, EndFlow, Move, RoleOf, LogoutSteps
<1>8. ASSUME TakeSession(p) PROVE HeartEffect(p)
  BY <1>0, <1>8 DEF TakeSession, Hold, Move, RoleOf, LogoutSteps
<1>9. ASSUME Unflag(p) PROVE HeartEffect(p)
  BY <1>0, <1>9 DEF Unflag, Move, RoleOf, LogoutSteps
<1>10. ASSUME CancelHeartbeat(p) PROVE HeartEffect(p)
  BY <1>0, <1>10 DEF CancelHeartbeat, Move, RoleOf, LogoutSteps
<1>11. ASSUME Unlink(p) PROVE HeartEffect(p)
  BY <1>0, <1>11 DEF Unlink, Move, RoleOf, LogoutSteps
<1>12. ASSUME WriteLoggedOut(p) PROVE HeartEffect(p)
  BY <1>0, <1>12 DEF WriteLoggedOut, Rest, Move, RoleOf, LogoutSteps
<1>13. ASSUME ReadRow(p) PROVE HeartEffect(p)
  BY <1>0, <1>13 DEF ReadRow, Rest, Move, RoleOf, LogoutSteps
<1>14. ASSUME ReleaseSession(p) PROVE HeartEffect(p)
  BY <1>0, <1>14 DEF ReleaseSession, Move, RoleOf, LogoutSteps
<1>15. ASSUME ForgetSession(p) PROVE HeartEffect(p)
  BY <1>0, <1>15 DEF ForgetSession, Move, RoleOf, LogoutSteps
<1>16. ASSUME RemoveRow(p) PROVE HeartEffect(p)
  BY <1>0, <1>16 DEF RemoveRow, Move, RoleOf, LogoutSteps
<1>17. ASSUME ReadFlag(p) PROVE HeartEffect(p)
  BY <1>0, <1>17 DEF ReadFlag, Move, RoleOf, LogoutSteps
<1>18. ASSUME MarkConnected(p) PROVE HeartEffect(p)
  BY <1>0, <1>18 DEF MarkConnected, Hold, Move, RoleOf, LogoutSteps
<1>19. ASSUME Identify(p) PROVE HeartEffect(p)
  BY <1>0, <1>19 DEF Identify, Move, RoleOf, LogoutSteps
<1>20. ASSUME WriteOnline(p) PROVE HeartEffect(p)
  BY <1>0, <1>20 DEF WriteOnline, Move, RoleOf, LogoutSteps
<1>21. ASSUME ReplaceHeartbeat(p) PROVE HeartEffect(p)
  BY <1>0, <1>21 DEF ReplaceHeartbeat, Move, RoleOf, LogoutSteps
<1>22. ASSUME StartHeartbeat(p) PROVE HeartEffect(p)
  BY <1>0, <1>22 DEF StartHeartbeat, Move, RoleOf, LogoutSteps
<1>23. ASSUME MarkLoggedOut(p) PROVE HeartEffect(p)
  BY <1>0, <1>23 DEF MarkLoggedOut, Move, RoleOf, LogoutSteps
<1>24. ASSUME MarkDisconnected(p) PROVE HeartEffect(p)
  BY <1>0, <1>24 DEF MarkDisconnected, Move, RoleOf, LogoutSteps
<1>25. ASSUME WriteDisconnected(p) PROVE HeartEffect(p)
  BY <1>0, <1>25 DEF WriteDisconnected, Move, RoleOf, LogoutSteps
<1>26. ASSUME ConnectLoaded(p) PROVE HeartEffect(p)
  BY <1>0, <1>26 DEF ConnectLoaded, Move, RoleOf, LogoutSteps
<1>27. ASSUME StoreLoaded(p) PROVE HeartEffect(p)
  BY <1>0, <1>27 DEF StoreLoaded, Move, RoleOf, LogoutSteps
<1>28. ASSUME UpdateLoaded(p) PROVE HeartEffect(p)
  BY <1>0, <1>28 DEF UpdateLoaded, Move, RoleOf, LogoutSteps
<1>29. QED
  BY <1>1, <1>2, <1>3, <1>4, <1>5, <1>6, <1>7, <1>8, <1>9, <1>10, <1>11, <1>12, <1>13, <1>14, <1>15,
     <1>16, <1>17, <1>18, <1>19, <1>20, <1>21, <1>22, <1>23, <1>24, <1>25, <1>26, <1>27, <1>28 DEF Continue

(* The three shapes of a step, with what they do to hearts.                *)
LEMMA HeartShapes ==
    ASSUME Typed, Roles, [Next]_vars
    PROVE  \/ \E p \in Tasks, i \in Instances :
                 /\ Beginning(p, i) /\ UNCHANGED <<cancelOf, heart>>
                 /\ \A q \in Tasks \ {p} : held'[q] = held[q]
           \/ \E p \in Tasks : Effect(p) /\ HeartEffect(p)
           \/ /\ Quiet /\ UNCHANGED <<cancelOf, held>>
              /\ \A h \in Tasks : heart'[h] = "cancelled" => heart[h] = "cancelled"
<1>0. held \in [Tasks -> Tasks \cup {None}] /\ heart \in [Tasks -> Hearts]
  BY DEF Typed, TypeOK
<1>1. ASSUME NEW p \in Tasks, Request(p) \/ Event(p) \/ \E i \in Instances : Load(p, i)
      PROVE  \E i \in Instances :
                /\ Beginning(p, i) /\ UNCHANGED <<cancelOf, heart>>
                /\ \A q \in Tasks \ {p} : held'[q] = held[q]
  <2>1. UNCHANGED <<cancelOf, heart>> /\ \A q \in Tasks \ {p} : held'[q] = held[q]
    BY <1>0, <1>1 DEF Request, Event, Login, GetQR, Logout, DeleteInstance, Load,
       Authenticated, LoggedOut, Disconnected, Start, memory
  <2>2. QED BY <1>1, <2>1, BeginEffect
<1>2. ASSUME NEW p \in Tasks, Continue(p) PROVE Effect(p) /\ HeartEffect(p)
  BY <1>2, ContinueEffect, ContinueHearts
<1>3. CASE \/ \E p \in Tasks : ReceiveCode(p) \/ HeartbeatStops(p) \/ Reconnect(p) \/ Pair(p)
           \/ UNCHANGED vars
  BY <1>0, <1>3 DEF ReceiveCode, HeartbeatStops, Reconnect, Pair, vars, memory, started, Quiet
<1>4. QED BY <1>1, <1>2, <1>3 DEF Next

LEMMA HeartsBegin ==
    ASSUME IInv, HeartInv, NEW p \in Tasks, NEW i \in Instances, Beginning(p, i),
           UNCHANGED <<cancelOf, heart>>, \A q \in Tasks \ {p} : held'[q] = held[q]
    PROVE  HeartInv'
<1>0. /\ sessions \in [Instances -> Tasks \cup {None}] /\ held \in [Tasks -> Tasks \cup {None}]
      /\ cancelOf \in [Tasks -> Tasks \cup {None}] /\ None \notin Tasks
  BY NoneIsNoTask DEF IInv, Typed, TypeOK
<1>1. Unborn(p) /\ op[p] = "none" /\ ~StopsHeart(p)'
  BY DEF Beginning, Others, Unborn, StopsHeart, At
<1>2. \A q \in Tasks \ {p} : /\ StopsHeart(q)' = StopsHeart(q)
                             /\ op'[q] = op[q] /\ of'[q] = of[q] /\ pc'[q] = pc[q]
  BY DEF Beginning, Others, StopsHeart, At
<1>born. p \notin Born /\ Born \subseteq Born' /\ (op'[p] = "login" => p \in Born')
  <2>1. \A q \in Tasks \ {p} : Unborn(q)' = Unborn(q)
    BY DEF Beginning, Others, Unborn, Loading
  <2>2. op'[p] = "login" => ~Unborn(p)'
    BY DEF Unborn, Loading
  <2>3. QED BY <1>1, <2>1, <2>2 DEF Born
<1>3. \A j \in Instances : \/ sessions'[j] = sessions[j]
                           \/ j = i /\ sessions'[j] = p /\ op'[p] = "login" /\ of'[p] = i
  <2>1. of'[p] = i
    BY DEF Beginning
  <2>2. \/ sessions' = sessions
        \/ op'[p] = "login" /\ sessions' = [sessions EXCEPT ![i] = p]
    BY DEF Beginning
  <2>3. CASE sessions' = sessions
    BY <2>3
  <2>4. CASE op'[p] = "login" /\ sessions' = [sessions EXCEPT ![i] = p]
    <3>1. \A j \in Instances : sessions'[j] = IF j = i THEN p ELSE sessions[j]
      BY <2>4, <1>0
    <3>2. QED BY <3>1, <2>1, <2>4
  <2>5. QED BY <2>2, <2>3, <2>4
<1>4. CancelsAreOwn'
  <2> SUFFICES ASSUME NEW s \in Tasks, cancelOf[s] # None
               PROVE  /\ s \in Born' /\ op'[cancelOf[s]] = "ended"
                      /\ \A t \in Tasks : cancelOf[t] = cancelOf[s] => t = s
    BY DEF CancelsAreOwn
  <2>1. s \in Born /\ op[cancelOf[s]] = "ended" /\ cancelOf[s] \in Tasks
        /\ \A t \in Tasks : cancelOf[t] = cancelOf[s] => t = s
    BY <1>0 DEF HeartInv, CancelsAreOwn
  <2>2. s # p /\ cancelOf[s] # p
    BY <2>1, <1>1, <1>born
  <2>3. QED BY <2>1, <2>2, <1>2, <1>born
<1>5. InHand'
  <2> SUFFICES ASSUME NEW q \in Tasks, StopsHeart(q)'
               PROVE  /\ held'[q] \in Born'
                      /\ op'[q] = "logout" => \A j \in Instances : sessions'[j] # held'[q]
    BY DEF InHand
  <2>1. q # p /\ StopsHeart(q) /\ held'[q] = held[q] /\ op'[q] = op[q]
    BY <1>1, <1>2
  <2>2. /\ held[q] \in Born
        /\ op[q] = "logout" => \A j \in Instances : sessions[j] # held[q]
    BY <2>1 DEF HeartInv, InHand
  <2>3. \A j \in Instances : sessions'[j] \in {sessions[j], p}
    BY <1>3
  <2>4. QED BY <2>1, <2>2, <2>3, <1>born
<1>6. InMap'
  <2> SUFFICES ASSUME NEW j \in Instances, sessions'[j] # None
               PROVE  of'[sessions'[j]] = j /\ sessions'[j] \in Born'
    BY DEF InMap
  <2>1. CASE sessions'[j] = sessions[j]
    <3>1. sessions[j] \in Tasks /\ of[sessions[j]] = j /\ sessions[j] \in Born
      BY <2>1, <1>0 DEF HeartInv, InMap
    <3>2. QED BY <2>1, <3>1, <1>2, <1>born
  <2>2. CASE j = i /\ sessions'[j] = p /\ op'[p] = "login" /\ of'[p] = i
    BY <2>2, <1>born
  <2>3. QED BY <2>1, <2>2, <1>3
<1>7. HeartIsReplaced'
  <2> SUFFICES ASSUME NEW j \in Instances, sessions'[j] # None, cancelOf[sessions'[j]] # None,
                      heart[cancelOf[sessions'[j]]] = "cancelled"
               PROVE  \E q \in Tasks : At(q, "connected", "beat")' /\ held'[q] = sessions'[j]
    BY DEF HeartIsReplaced, At
  <2>1. sessions'[j] # p
    BY <1>born DEF HeartInv, CancelsAreOwn
  <2>2. sessions'[j] = sessions[j]
    BY <2>1, <1>3
  <2>3. PICK q \in Tasks : At(q, "connected", "beat") /\ held[q] = sessions[j]
    BY <2>2 DEF HeartInv, HeartIsReplaced
  <2>4. q # p
    BY <2>3, <1>1 DEF At
  <2>5. QED BY <2>2, <2>3, <2>4, <1>2 DEF At
<1>8. QED BY <1>4, <1>5, <1>6, <1>7 DEF HeartInv

LEMMA HeartsGoOn ==
    ASSUME IInv, HeartInv, NEW p \in Tasks, Effect(p), HeartEffect(p)
    PROVE  HeartInv'
<1>0. /\ sessions \in [Instances -> Tasks \cup {None}] /\ held \in [Tasks -> Tasks \cup {None}]
      /\ cancelOf \in [Tasks -> Tasks \cup {None}] /\ heart \in [Tasks -> Hearts]
      /\ None \notin Tasks
  BY NoneIsNoTask DEF IInv, Typed, TypeOK
<1>1. /\ of' = of /\ op'[p] \in {op[p], "ended"} /\ of[p] \in Instances
      /\ \A q \in Tasks \ {p} : op'[q] = op[q] /\ pc'[q] = pc[q] /\ held'[q] = held[q]
  BY DEF Effect, Own, HeartEffect, IInv, Typed, Refs, TaskRefs, Begun
<1>2. Born \subseteq Born'
  <2>1. \A q \in Tasks : Unborn(q)' => Unborn(q)
    BY <1>1 DEF HeartEffect, Unborn, Loading
  <2>2. QED BY <2>1 DEF Born
<1>3. \A q \in Tasks \ {p} : StopsHeart(q)' = StopsHeart(q)
  BY <1>1 DEF StopsHeart, At
<1>4. \A i \in Instances :
         \/ sessions'[i] \in {sessions[i], None}
         \/ i = of[p] /\ sessions'[i] = p /\ p \notin Born /\ p \in Born'
  BY DEF HeartEffect, Born
<1>5. /\ \A s \in Tasks : cancelOf[s] # None =>
            /\ s \in Born /\ op[cancelOf[s]] = "ended" /\ cancelOf[s] \in Tasks
            /\ \A t \in Tasks : cancelOf[t] = cancelOf[s] => t = s
      /\ \A q \in Tasks : StopsHeart(q) =>
            /\ held[q] \in Born /\ held[q] \in Tasks
            /\ op[q] = "logout" => \A i \in Instances : sessions[i] # held[q]
      /\ \A i \in Instances :
            sessions[i] # None => /\ sessions[i] \in Tasks /\ of[sessions[i]] = i
                                  /\ sessions[i] \in Born
  BY <1>0 DEF HeartInv, CancelsAreOwn, InHand, InMap, Born
<1> DEFINE Started == /\ At(p, "connected", "beat") /\ op'[p] = "ended" /\ StopsHeart(p)
                      /\ cancelOf' = [cancelOf EXCEPT ![held[p]] = p]
                      /\ heart' = [heart EXCEPT ![p] = "beating"]
<1>6. cancelOf' = cancelOf \/ Started
  BY DEF HeartEffect, Keeps, StopsHeart, At
<1>7. CancelsAreOwn'
  <2> SUFFICES ASSUME NEW s \in Tasks, cancelOf'[s] # None
               PROVE  /\ s \in Born' /\ op'[cancelOf'[s]] = "ended"
                      /\ \A t \in Tasks : cancelOf'[t] = cancelOf'[s] => t = s
    BY DEF CancelsAreOwn
  <2>1. CASE cancelOf' = cancelOf
    BY <2>1, <1>1, <1>2, <1>5
  <2>2. CASE Started
    <3>1. held[p] \in Tasks /\ held[p] \in Born
      BY <2>2, <1>5
    <3>2. \A t \in Tasks : cancelOf'[t] = IF t = held[p] THEN p ELSE cancelOf[t]
      BY <2>2, <1>0
    <3>3. \A t \in Tasks : cancelOf[t] # p
      BY <2>2, <1>0, <1>5 DEF At
    <3>4. QED BY <2>2, <3>1, <3>2, <3>3, <1>1, <1>2, <1>5
  <2>3. QED BY <2>1, <2>2, <1>6
<1>8. InHand'
  <2> SUFFICES ASSUME NEW q \in Tasks, StopsHeart(q)'
               PROVE  /\ held'[q] \in Born'
                      /\ op'[q] = "logout" => \A i \in Instances : sessions'[i] # held'[q]
    BY DEF InHand
  <2>1. CASE q # p
    <3>1. /\ held[q] \in Tasks /\ held[q] \in Born /\ held'[q] = held[q] /\ op'[q] = op[q]
          /\ op[q] = "logout" => \A i \in Instances : sessions[i] # held[q]
      BY <2>1, <1>1, <1>3, <1>5
    <3>2. QED BY <3>1, <1>0, <1>2, <1>4
  <2>2. CASE q = p /\ StopsHeart(p) /\ held'[p] = held[p] /\ op'[p] # "logout"
    BY <2>2, <1>2, <1>5
  <2>3. CASE q = p /\ sessions[of[p]] # None /\ held'[p] = sessions[of[p]]
             /\ (op'[p] = "logout" => sessions' = [sessions EXCEPT ![of[p]] = None])
    BY <2>3, <1>0, <1>1, <1>2, <1>5
  <2>4. q = p => \/ StopsHeart(p) /\ held'[p] = held[p] /\ op'[p] # "logout"
                 \/ /\ sessions[of[p]] # None /\ held'[p] = sessions[of[p]]
                    /\ (op'[p] = "logout" => sessions' = [sessions EXCEPT ![of[p]] = None])
    BY DEF HeartEffect, StopsHeart, At
  <2>5. QED BY <2>1, <2>2, <2>3, <2>4
<1>9. InMap'
  <2> SUFFICES ASSUME NEW i \in Instances, sessions'[i] # None
               PROVE  of[sessions'[i]] = i /\ sessions'[i] \in Born'
    BY <1>1 DEF InMap
  <2>1. QED BY <1>2, <1>4, <1>5
<1>10. HeartIsReplaced'
  <2> SUFFICES ASSUME NEW i \in Instances, sessions'[i] # None, cancelOf'[sessions'[i]] # None,
                      heart'[cancelOf'[sessions'[i]]] = "cancelled"
               PROVE  \E q \in Tasks : At(q, "connected", "beat")' /\ held'[q] = sessions'[i]
    BY DEF HeartIsReplaced, At
  <2> DEFINE s == sessions[i]
  <2>1. sessions'[i] = s /\ s \in Tasks
    <3>1. p \notin Born => cancelOf'[p] = None
      BY <1>0, <1>5, <1>6
    <3>2. QED BY <3>1, <1>4, <1>5
  <2>2. ASSUME cancelOf[s] # None, heart[cancelOf[s]] = "cancelled"
        PROVE  \E q \in Tasks : At(q, "connected", "beat") /\ held[q] = s
    BY <2>1, <2>2 DEF HeartInv, HeartIsReplaced
  <2>3. ASSUME NEW q \in Tasks \ {p}, At(q, "connected", "beat"), held[q] = s
        PROVE  At(q, "connected", "beat")' /\ held'[q] = sessions'[i]
    BY <2>1, <2>3, <1>1 DEF At
  <2>4. CASE Keeps(p)
    BY <2>1, <2>2, <2>3, <2>4 DEF Keeps
  <2>5. CASE Started
    <3>1. s # held[p]
      <4>1. s = held[p] => cancelOf'[s] = p /\ heart'[p] = "beating"
        BY <2>1, <2>5, <1>0
      <4>2. QED BY <4>1, <2>1
    <3>2. cancelOf'[s] = cancelOf[s] /\ cancelOf[s] # p
      BY <3>1, <2>1, <2>5, <1>0, <1>5 DEF At
    <3>3. heart[cancelOf[s]] = "cancelled"
      BY <3>2, <2>1, <2>5, <1>0, <1>5
    <3>4. QED BY <2>1, <2>2, <2>3, <3>1, <3>2, <3>3
  <2>6. CASE /\ StopsHeart(p) /\ ~At(p, "connected", "beat")
             /\ StopHeart(held[p]) /\ cancelOf' = cancelOf
             /\ op[p] = "logout" \/ (At(p, "connected", "beat")' /\ held'[p] = held[p])
    <3>1. held[p] \in Tasks /\ (op[p] = "logout" => s # held[p])
      BY <2>6, <1>5
    <3>2. CASE s = held[p]
      BY <2>1, <2>6, <3>1, <3>2
    <3>3. CASE s # held[p]
      <4>1. cancelOf[s] # None /\ cancelOf[s] \in Tasks /\ cancelOf[held[p]] # cancelOf[s]
        BY <2>1, <2>6, <3>1, <3>3, <1>5
      <4>2. heart[cancelOf[s]] = "cancelled"
        BY <2>1, <2>6, <4>1, <1>0 DEF StopHeart
      <4>3. QED BY <2>2, <2>3, <2>6, <4>1, <4>2
    <3>4. QED BY <3>2, <3>3
  <2>7. QED BY <2>4, <2>5, <2>6 DEF HeartEffect, StopsHeart, At
<1>11. QED BY <1>7, <1>8, <1>9, <1>10 DEF HeartInv

(* The heartbeat that the session in the map would cancel is cancelled     *)
(* only while a Connected handler is about to store its replacement.       *)
THEOREM HeartIsReplacedHolds == Spec => []HeartIsReplaced
<1>1. Init => HeartInv
  BY DEF Init, HeartInv, CancelsAreOwn, InHand, StopsHeart, At, InMap, HeartIsReplaced
<1>2. IInv /\ HeartInv /\ [Next]_vars => HeartInv'
  <2> SUFFICES ASSUME IInv, HeartInv, [Next]_vars PROVE HeartInv'
    OBVIOUS
  <2>1. CASE /\ Quiet /\ UNCHANGED <<cancelOf, held>>
             /\ \A h \in Tasks : heart'[h] = "cancelled" => heart[h] = "cancelled"
    <3>1. CancelsAreOwn' /\ InHand' /\ InMap'
      BY <2>1 DEF Quiet, HeartInv, CancelsAreOwn, InHand, InMap, Born, Unborn, Loading, StopsHeart, At
    <3>2. \A i \in Instances : sessions[i] # None /\ cancelOf[sessions[i]] # None =>
             cancelOf[sessions[i]] \in Tasks
      BY DEF IInv, Typed, TypeOK
    <3>3. HeartIsReplaced'
      BY <2>1, <3>2 DEF Quiet, HeartInv, HeartIsReplaced, At
    <3>4. QED BY <3>1, <3>3 DEF HeartInv
  <2>2. QED BY <2>1, HeartShapes, HeartsBegin, HeartsGoOn DEF IInv
<1>3. IInv /\ [Next]_vars => IInv'
  BY IInvStep
<1>4. HeartInv => HeartIsReplaced
  BY DEF HeartInv
<1>5. QED BY <1>1, <1>2, <1>3, <1>4, IInvInit, PTL DEF Spec
=============================================================================
