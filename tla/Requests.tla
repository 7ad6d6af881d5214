------------------------------ MODULE Requests ------------------------------
(***************************************************************************)
(* What the gateway does for one call of its message, media, group and     *)
(* contact endpoints: internal/handler/message.go, media.go, group.go and  *)
(* contact.go behind internal/middleware/permission_middleware.go.         *)
(*                                                                         *)
(* Every handler is a straight line of stages, each of which goes on or    *)
(* answers the call; so a handler is written as the sequence of its stages *)
(* and one action below executes each kind of stage.  Between two stages   *)
(* of a call anything else may happen: other calls, logins and logouts of  *)
(* the same instance, changes of the permissions.                          *)
(***************************************************************************)
EXTENDS Naturals, Sequences, FiniteSets, Functions

CONSTANTS
    Tasks,      \* goroutines that serve calls
    Users,
    RoleOf,     \* RoleOf[u]: "admin", "user" or "viewer"
    Instances,
    Numbers,    \* phone numbers
    Links,      \* model.Session values, one per login
    NoInst, NoNumber, NoLink,
    First,      \* the instance that is online when the model starts
    MayCall,    \* MayCall[t]: the handlers task t is used for
    Callers,    \* Callers[t]: the users whose calls it serves
    MaxEvents   \* bound on pairings, drops, logouts and permission changes

ASSUME RequestsAssumption ==
    /\ NoInst \notin Instances /\ NoNumber \notin Numbers /\ NoLink \notin Links
    /\ RoleOf \in [Users -> {"admin", "user", "viewer"}]
    /\ First \in Instances /\ IsFiniteSet(Instances)
    /\ Users # {} /\ Numbers # {} /\ Links # {}
    /\ MaxEvents \in Nat

VARIABLES
    \* --- the database
    row,        \* row[i]: phone_number of instance i, and is it 'online'?
    place,      \* place[i]: rank of instance i by connected_at, 1 is the latest
    access,     \* user_instances: pairs <<user, instance>>
    \* --- the memory of the gateway
    session,    \* the sessions map
    link,       \* link[l]: the client behind a session: its instance and the number
                \* it was paired with last; does the session say connected (flag), is
                \* the socket up, has it a device (paired), does it wait for a phone
                \* (scanning), and how many Connected handlers are due to write its row
    leaving,    \* logouts that have taken the session and not written the row
    marked,     \* marked[i]: LoggedOut handlers of i that have not written the row
    written,    \* written[i]: those that have, and have not removed the session
    searching,  \* keys of mutualGroupsProcessing
    task,       \* task[t]: the call t serves
    \* --- history and bounds
    astray,     \* instances whose logins and logouts overtook each other
    events

database == <<row, place, access>>
memory   == <<session, link, leaving, marked, written>>
vars     == <<database, memory, searching, task, astray, events>>

-----------------------------------------------------------------------------
(* The handlers.                                                           *)

\* Who may call, and for which instance.
Instance == <<"access", "content">>
Number   == <<"number", "content", "lookup", "permit">>
\* Is there a session, does it say connected, is it, and has it a device?
Open     == <<"session", "connected">>
Ready    == <<"session", "ready">>
\* A phone number is formatted and may be looked up at WhatsApp, a group is
\* parsed; a file comes with the call or is downloaded, and is uploaded.
Address  == Ready \o <<"recipient">>
Media    == <<"load", "upload">>
Deliver  == <<"type", "send">>

SendMessage           == Instance \o Address \o Deliver
SendMessageByNumber   == Number \o Address \o Deliver
SendMediaFile         == Instance \o Address \o Media \o Deliver
SendMediaURL          == Instance \o Address \o Media \o Deliver
SendMediaURLByNumber  == Number \o Address \o Media \o Deliver
SendMediaFileByNumber == Number \o Address \o Media \o Deliver

GetGroups                 == <<"access">> \o Open \o <<"ask">>
GetGroupsByNumber         == <<"number", "lookup", "permit">> \o Open \o <<"ask">>
SendGroupMessage          == Instance \o Address \o Deliver
SendGroupMedia            == Instance \o Address \o Media \o Deliver
SendGroupMediaURL         == Instance \o Address \o Media \o Deliver
SendGroupMessageByNumber  == Number \o Address \o Deliver
SendGroupMediaByNumber    == Number \o Address \o Media \o Deliver
SendGroupMediaURLByNumber == Number \o Address \o Media \o Deliver

\* CheckNumber looks at the socket only.
CheckNumber      == Instance \o <<"session", "socket", "recipient", "ask">>
GetContactDetail == <<"access">> \o Ready \o <<"content", "contacts">>
GetMutualGroups  == <<"access">> \o Ready \o <<"content", "enter", "content", "ask", "scan">>
GetContactList   == <<"access">> \o Ready \o <<"contacts">>
ExportContacts   == Instance \o Ready \o <<"contacts">>

Handler == [SendMessage |-> SendMessage, SendMessageByNumber |-> SendMessageByNumber,
            SendMediaFile |-> SendMediaFile, SendMediaURL |-> SendMediaURL,
            SendMediaURLByNumber |-> SendMediaURLByNumber,
            SendMediaFileByNumber |-> SendMediaFileByNumber,
            GetGroups |-> GetGroups, GetGroupsByNumber |-> GetGroupsByNumber,
            SendGroupMessage |-> SendGroupMessage, SendGroupMedia |-> SendGroupMedia,
            SendGroupMediaURL |-> SendGroupMediaURL,
            SendGroupMessageByNumber |-> SendGroupMessageByNumber,
            SendGroupMediaByNumber |-> SendGroupMediaByNumber,
            SendGroupMediaURLByNumber |-> SendGroupMediaURLByNumber,
            CheckNumber |-> CheckNumber, GetContactDetail |-> GetContactDetail,
            GetMutualGroups |-> GetMutualGroups, GetContactList |-> GetContactList,
            ExportContacts |-> ExportContacts]

ASSUME RoutesAssumption ==
    /\ MayCall \in [Tasks -> SUBSET DOMAIN Handler]
    /\ Callers \in [Tasks -> SUBSET Users]

ByNumber(h) == Head(Handler[h]) = "number"

\* A call: its phase ("idle", "running", "sent", "answered"), its user, the
\* stages it has still to do, and
\* inst: the instance of the route, or the one found for the number it asked for.
\* over: the session it found.
\* entered: it holds the entry of its instance in mutualGroupsProcessing.
\* allowed: the instances its user had access to at some time of the call.
\* moved: its session was paired with another number than it asked for.

-----------------------------------------------------------------------------
(* How a call goes on or is answered.                                      *)

At(t, stages) == task[t].phase = "running" /\ Head(task[t].todo) \in stages

\* The last stage of a call that sends nothing ends in its answer.
GoOn(t, c) ==
    LET rest == Tail(c.todo)
    IN  task' = [task EXCEPT ![t] =
                    [c EXCEPT !.todo = rest,
                              !.phase = IF rest = <<>> THEN "answered" ELSE "running"]]
Proceed(t) == GoOn(t, task[t])
Answer(t)  == task' = [task EXCEPT ![t].phase = "answered", ![t].todo = <<>>]

\* A stage that goes on if the condition holds and answers the call if not.
Require(t, condition) == IF condition THEN Proceed(t) ELSE Answer(t)

Idle == [phase |-> "idle", user |-> CHOOSE u \in Users : TRUE,
         inst |-> NoInst, asked |-> NoNumber, todo |-> <<>>, over |-> NoLink,
         entered |-> FALSE, allowed |-> {}, moved |-> FALSE]

May(u, i) == <<u, i>> \in access

\* Rows that are online under the number, and the one that connected last.
Online(n) == {i \in Instances : row[i].online /\ row[i].number = n}
Latest(S) == CHOOSE i \in S : \A j \in S : place[i] <= place[j]

GetActiveInstanceByPhoneNumber(n) == IF Online(n) = {} THEN NoInst ELSE Latest(Online(n))

-----------------------------------------------------------------------------
(* The stages.                                                             *)

\* A request with its claims reaches its route.
Receive(t, u, h, i, n) ==
    /\ task[t].phase = "idle"
    /\ IF ByNumber(h) THEN i = NoInst /\ n \in Numbers ELSE i \in Instances /\ n = NoNumber
    /\ task' = [task EXCEPT ![t] =
                  [phase |-> "running", user |-> u, inst |-> i, asked |-> n,
                   todo |-> Handler[h], over |-> NoLink, entered |-> FALSE,
                   allowed |-> {j \in Instances : May(u, j)}, moved |-> FALSE]]
    /\ UNCHANGED <<database, memory, searching, astray, events>>

RequireInstanceAccess(t) ==
    /\ At(t, {"access"})
    /\ LET u == task[t].user
       IN  Require(t, \/ RoleOf[u] = "admin"
                      \/ RoleOf[u] = "user" /\ May(u, task[t].inst))
    /\ UNCHANGED <<database, memory, searching, astray, events>>

\* It finds the instance by itself, and keeps nothing of what it found.
RequirePhoneNumberAccess(t) ==
    /\ At(t, {"number"})
    /\ LET u == task[t].user
           i == GetActiveInstanceByPhoneNumber(task[t].asked)
       IN  Require(t, \/ RoleOf[u] = "admin"
                      \/ RoleOf[u] = "user" /\ i # NoInst /\ May(u, i))
    /\ UNCHANGED <<database, memory, searching, astray, events>>

\* Body, recipient, group, file, download and local contacts: the outcome
\* depends on nothing the other components change.
Examine(t) ==
    /\ At(t, {"content", "recipient", "load", "contacts"})
    /\ Proceed(t) \/ Answer(t)
    /\ UNCHANGED <<database, memory, searching, astray, events>>

Lookup(t) ==
    /\ At(t, {"lookup"})
    /\ LET i == GetActiveInstanceByPhoneNumber(task[t].asked)
       IN  IF i = NoInst THEN Answer(t) ELSE GoOn(t, [task[t] EXCEPT !.inst = i])
    /\ UNCHANGED <<database, memory, searching, astray, events>>

\* The handler trusts the middleware.
FaultyPermit(t) ==
    /\ At(t, {"permit"})
    /\ Proceed(t)
    /\ UNCHANGED <<database, memory, searching, astray, events>>

Permit(t) ==
    /\ At(t, {"permit"})
    /\ Require(t, RoleOf[task[t].user] = "admin" \/ May(task[t].user, task[t].inst))
    /\ UNCHANGED <<database, memory, searching, astray, events>>

\* The call keeps the session it found here to its end.
GetSession(t) ==
    /\ At(t, {"session"})
    /\ LET l == session[task[t].inst]
       IN  IF l = NoLink THEN Answer(t) ELSE GoOn(t, [task[t] EXCEPT !.over = l])
    /\ UNCHANGED <<database, memory, searching, astray, events>>

\* Flag, socket and device are read one after the other without a pause.
Passes(stage, l) ==
    /\ link[l].up
    /\ stage \in {"connected", "ready"} => link[l].flag
    /\ stage = "ready" => link[l].paired

CheckSession(t) ==
    /\ At(t, {"socket", "connected", "ready"})
    /\ Require(t, Passes(Head(task[t].todo), task[t].over))
    /\ UNCHANGED <<database, memory, searching, astray, events>>

\* A request to WhatsApp over the client: upload, groups, registration.
AskWhatsApp(t) ==
    /\ At(t, {"upload", "ask"})
    /\ \/ link[task[t].over].up /\ Proceed(t)
       \/ Answer(t)
    /\ UNCHANGED <<database, memory, searching, astray, events>>

\* Groups one by one with a pause, then the typing delay of a message:
\* errors on the way are ignored.
TakeTime(t) ==
    /\ At(t, {"scan", "type"})
    /\ Proceed(t)
    /\ UNCHANGED <<database, memory, searching, astray, events>>

\* One search of mutual groups per instance; another is refused with 409.
EnterSearch(t) ==
    /\ At(t, {"enter"})
    /\ LET i == task[t].inst
       IN  IF i \in searching
           THEN Answer(t) /\ UNCHANGED searching
           ELSE /\ GoOn(t, [task[t] EXCEPT !.entered = TRUE])
                /\ searching' = searching \cup {i}
    /\ UNCHANGED <<database, memory, astray, events>>

\* The session is looked up again when the typing delay is over.
FaultySend(t) ==
    /\ At(t, {"send"})
    /\ LET l == session[link[task[t].over].inst]
       IN  \/ /\ l # NoLink /\ link[l].up /\ link[l].paired
              /\ task' = [task EXCEPT ![t].phase = "sent", ![t].todo = <<>>, ![t].over = l]
           \/ Answer(t)
    /\ UNCHANGED <<database, memory, searching, astray, events>>

Send(t) ==
    /\ At(t, {"send"})
    /\ \/ /\ link[task[t].over].up /\ link[task[t].over].paired
          /\ task' = [task EXCEPT ![t].phase = "sent", ![t].todo = <<>>]
       \/ Answer(t)
    /\ UNCHANGED <<database, memory, searching, astray, events>>

\* The answer is written and deferred functions run.
Held(t) == IF task[t].entered THEN {task[t].inst} ELSE {}
Return(t) ==
    /\ task[t].phase \in {"sent", "answered"}
    /\ searching' = searching \ Held(t)
    /\ task' = [task EXCEPT ![t] = Idle]
    /\ UNCHANGED <<database, memory, astray, events>>

Step(t) ==
    \/ RequireInstanceAccess(t) \/ RequirePhoneNumberAccess(t) \/ Examine(t)
    \/ Lookup(t) \/ Permit(t) \/ GetSession(t) \/ CheckSession(t) \/ AskWhatsApp(t)
    \/ TakeTime(t) \/ EnterSearch(t) \/ Send(t) \/ Return(t)

-----------------------------------------------------------------------------
(* What happens to the instances and the permissions meanwhile.  The steps *)
(* of logins, logouts and events are those of InstanceSessions, as far as  *)
(* a call can see them.                                                    *)

Happens == events < MaxEvents /\ events' = events + 1

\* GET /qr: the session of the instance, or a new one in its empty place, is
\* to be paired with the phone that scans the code.
GetQR(i, l) ==
    /\ \/ session[i] = NoLink /\ link[l].inst = NoInst
       \/ session[i] = l /\ ~link[l].flag /\ ~link[l].scanning
    /\ session' = [session EXCEPT ![i] = l]
    /\ link' = [link EXCEPT ![l].inst = i, ![l].scanning = TRUE,
                            ![l].up = @ \/ ~link[l].paired]
    /\ UNCHANGED <<database, leaving, marked, written, searching, task, astray, events>>

\* A logout of the instance whose row update is still to come.
Pending(i) == marked[i] > 0 \/ \E l \in leaving : link[l].inst = i

\* The call goes on over the session, or will find it.
Reaches(c, l) ==
    c.over = l \/ (c.over = NoLink /\ c.inst = link[l].inst /\ session[c.inst] = l)

\* A phone scans the code; the client may have had another number before.
Pair(i, l, n) ==
    /\ Happens
    /\ link[l].inst = i /\ link[l].scanning /\ ~link[l].paired
    /\ link' = [link EXCEPT ![l].number = n, ![l].paired = TRUE, ![l].up = TRUE,
                            ![l].scanning = FALSE]
    /\ astray' = IF session[i] = l /\ Pending(i) THEN astray \cup {i} ELSE astray
    /\ task' = [t \in Tasks |->
                  [task[t] EXCEPT !.moved = @ \/ (Reaches(task[t], l) /\ task[t].asked # n)]]
    /\ UNCHANGED <<database, session, leaving, marked, written, searching>>

\* A paired client is connected, for the first time or again: its event marks
\* whatever session the instance has by then.
Connected(i, l) ==
    LET s == session[i]
    IN  /\ link[l].inst = i /\ link[l].paired
        /\ l = s \/ link[l].up
        /\ s # NoLink /\ ~link[s].flag
        /\ link' = [link EXCEPT ![l].up = TRUE, ![s].flag = TRUE, ![s].due = @ + 1]
        /\ UNCHANGED <<database, session, leaving, marked, written, searching, task, astray, events>>

\* After its stagger the handler writes the row, if the client of the session
\* it found still has a device, whatever became of the session.
UpdateInstanceOnConnected(l) ==
    /\ link[l].due > 0
    /\ link' = [link EXCEPT ![l].due = @ - 1]
    /\ \/ UNCHANGED <<database, astray>>
       \/ LET i == link[l].inst
          IN  /\ link[l].paired
              /\ row' = [row EXCEPT ![i] = [number |-> link[l].number, online |-> TRUE]]
              /\ place' = [j \in Instances |-> IF j = i THEN 1
                                              ELSE IF place[j] < place[i] THEN place[j] + 1
                                              ELSE place[j]]
              /\ astray' = IF session[i] = l THEN astray ELSE astray \cup {i}
              /\ UNCHANGED access
    /\ UNCHANGED <<session, leaving, marked, written, searching, task, events>>

Offline(i) == row' = [row EXCEPT ![i].online = FALSE]

\* The update of the row is executed, or fails.
WritesOffline(i) ==
    \/ Offline(i) /\ UNCHANGED astray
    \/ astray' = astray \cup {i} /\ UNCHANGED row

\* The connection of a client drops.
Disconnected(i, l) ==
    /\ Happens
    /\ link[l].inst = i /\ link[l].up
    /\ link' = [k \in Links |-> [link[k] EXCEPT !.up = @ /\ k # l, !.flag = @ /\ k # session[i]]]
    /\ Offline(i) \/ UNCHANGED row
    /\ UNCHANGED <<place, access, session, leaving, marked, written, searching, task, astray>>

\* A logout by the user: the session leaves the map, the device is unlinked
\* if WhatsApp answers, and the row is written at the end.
DeleteSession(i) ==
    LET l == session[i]
    IN  /\ Happens
        /\ l # NoLink
        /\ session' = [session EXCEPT ![i] = NoLink]
        /\ leaving' = leaving \cup {l}
        /\ \E unlinked \in BOOLEAN :
             link' = [link EXCEPT ![l].up = FALSE, ![l].paired = @ /\ ~unlinked]
        /\ UNCHANGED <<database, marked, written, searching, task, astray>>

UpdateInstanceStatus(l) ==
    /\ l \in leaving
    /\ leaving' = leaving \ {l}
    /\ WritesOffline(link[l].inst)
    /\ UNCHANGED <<place, access, session, link, marked, written, searching, task, events>>

\* The phone removes the device, and the library deletes it.  The handler
\* marks and disconnects the session that it finds; that one stays in the map,
\* where GET /qr finds it.
LoggedOut(i, l) ==
    /\ Happens
    /\ link[l].inst = i /\ link[l].paired
    /\ l = session[i] \/ link[l].up
    /\ link' = [k \in Links |->
                  [link[k] EXCEPT !.paired = @ /\ k # l, !.up = @ /\ k \notin {l, session[i]},
                                  !.flag = @ /\ k # session[i]]]
    /\ marked' = [marked EXCEPT ![i] = @ + 1]
    /\ UNCHANGED <<database, session, leaving, written, searching, task, astray>>

UpdateInstanceOnLoggedOut(i) ==
    /\ marked[i] > 0
    /\ marked' = [marked EXCEPT ![i] = @ - 1]
    /\ written' = [written EXCEPT ![i] = @ + 1]
    /\ WritesOffline(i)
    /\ UNCHANGED <<place, access, session, link, leaving, searching, task, events>>

\* It removes whatever session the instance has by then.
RemoveSession(i) ==
    /\ written[i] > 0
    /\ written' = [written EXCEPT ![i] = @ - 1]
    /\ session' = [session EXCEPT ![i] = NoLink]
    /\ astray' = IF session[i] # NoLink /\ link[session[i]].paired THEN astray \cup {i} ELSE astray
    /\ UNCHANGED <<database, link, leaving, marked, searching, task, events>>

AssignInstance(u, i) ==
    /\ Happens
    /\ access' = access \cup {<<u, i>>}
    /\ task' = [t \in Tasks |->
                  IF task[t].phase = "running" /\ task[t].user = u
                  THEN [task[t] EXCEPT !.allowed = @ \cup {i}] ELSE task[t]]
    /\ UNCHANGED <<row, place, memory, searching, astray>>

RevokeInstance(u, i) ==
    /\ Happens
    /\ May(u, i)
    /\ access' = access \ {<<u, i>>}
    /\ UNCHANGED <<row, place, memory, searching, task, astray>>

-----------------------------------------------------------------------------
\* One instance was loaded at start-up with its device.
Init ==
    LET n == CHOOSE k \in Numbers : TRUE
        l == CHOOSE k \in Links : TRUE
    IN  /\ row = [i \in Instances |-> IF i = First THEN [number |-> n, online |-> TRUE]
                                      ELSE [number |-> NoNumber, online |-> FALSE]]
        /\ place \in Bijection(Instances, 1 .. Cardinality(Instances)) /\ place[First] = 1
        /\ access = {k \in Users : RoleOf[k] = "user"} \X {First}
        /\ session = [i \in Instances |-> IF i = First THEN l ELSE NoLink]
        /\ link = [k \in Links |->
                     IF k = l
                     THEN [inst |-> First, number |-> n, flag |-> TRUE, up |-> TRUE,
                           paired |-> TRUE, scanning |-> FALSE, due |-> 0]
                     ELSE [inst |-> NoInst, number |-> NoNumber, flag |-> FALSE,
                           up |-> FALSE, paired |-> FALSE, scanning |-> FALSE, due |-> 0]]
        /\ marked = [i \in Instances |-> 0] /\ written = [i \in Instances |-> 0]
        /\ leaving = {} /\ searching = {} /\ astray = {}
        /\ task = [t \in Tasks |-> Idle]
        /\ events = 0

Environment ==
    \/ \E i \in Instances, l \in Links :
          \/ GetQR(i, l) \/ Connected(i, l) \/ Disconnected(i, l) \/ LoggedOut(i, l)
          \/ \E n \in Numbers : Pair(i, l, n)
    \/ \E i \in Instances : DeleteSession(i) \/ UpdateInstanceOnLoggedOut(i) \/ RemoveSession(i)
    \/ \E l \in Links : UpdateInstanceOnConnected(l) \/ UpdateInstanceStatus(l)
    \/ \E u \in Users, i \in Instances : AssignInstance(u, i) \/ RevokeInstance(u, i)

Next ==
    \/ \E t \in Tasks : Step(t)
    \/ \E t \in Tasks, i \in Instances \cup {NoInst}, n \in Numbers \cup {NoNumber} :
         \E u \in Callers[t], h \in MayCall[t] : Receive(t, u, h, i, n)
    \/ Environment

Spec == Init /\ [][Next]_vars

-----------------------------------------------------------------------------
(* What the endpoints guarantee.                                           *)

(* A message goes out only over the session of an instance its caller      *)
(* administered or had access to at some moment of the call, also when     *)
(* the number moves to another instance after the middleware has checked   *)
(* the one it found.  (A revocation during the call does not stop it.)     *)
Authorised ==
    \A t \in Tasks : task[t].phase = "sent" /\ RoleOf[task[t].user] # "admin" =>
        /\ RoleOf[task[t].user] = "user"
        /\ link[task[t].over].inst \in task[t].allowed

(* A message sent by number leaves from that number, unless one of two     *)
(* things happened.  The session it goes over was paired with another      *)
(* number after the lookup.  Or logins and logouts of the instance overtook *)
(* each other: the row update of a logout was lost or came after the next  *)
(* pairing, a Connected handler wrote the row of a session no longer in    *)
(* the map, or the end of a logout removed a session paired meanwhile.     *)
FromThatNumber ==
    \A t \in Tasks : task[t].phase = "sent" /\ task[t].asked # NoNumber =>
        \/ link[task[t].over].number = task[t].asked
        \/ task[t].moved \/ link[task[t].over].inst \in astray
=============================================================================
