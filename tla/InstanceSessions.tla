-------------------------- MODULE InstanceSessions --------------------------
(***************************************************************************)
(* The WhatsApp sessions of the API server: internal/service/whatsapp.go   *)
(* (the sessions map and the handlers of the library's events),            *)
(* internal/handler/auth.go (login, QR, logout, delete) and                *)
(* internal/model/instance.go (the instances row).                         *)
(*                                                                         *)
(* Requests, events and the loading of a device at start-up are tasks.  A  *)
(* task moves one step per critical section, call of the library or        *)
(* statement on the row; any task may move between two steps of another.   *)
(* A task creates at most one session and at most one heartbeat, so both   *)
(* are named after the task that creates them.                             *)
(*                                                                         *)
(* The stagger of reconnects (reconnectTracker, lastReconnectTime) only    *)
(* lengthens the pause between two steps of the Connected handler, and any *)
(* pause is allowed here.  The device store is read when a process starts; *)
(* what earlier processes left in it and in the rows is in Init.           *)
(***************************************************************************)
EXTENDS Naturals

CONSTANTS
    Instances,   \* instance IDs
    MaxTasks,    \* bound on the tasks of one run of the process
    KindsOf      \* KindsOf[p]: what the p-th task may be, a bound like MaxTasks

ASSUME SessionsAssumption == MaxTasks \in Nat

Tasks == 1..MaxTasks
None  == 0

VARIABLES
    \* --- the instances table
    status,      \* status[i]: the row's status, or why there is no row
    isConnected, \* instances whose row says is_connected
    \* --- the memory of the process
    sessions,    \* sessions[i]: the session of i in the map, or None
    up,          \* sessions with IsConnected
    cancelOf,    \* cancelOf[s]: the heartbeat that HeartbeatCancel stops
    heart,       \* heart[h]: the heartbeat goroutine
    loggingOut,  \* instances flagged as logging out
    qrCancel,    \* qrCancel[i]: the QR flow in qrCancelFuncs, or None
    unloaded,    \* instances with a stored device still to be loaded
    \* --- the client of each session, as the library keeps it
    link,        \* link[s]: the client's connection
    paired,      \* sessions whose client has a device (Store.ID # nil)
    \* --- the tasks
    op, of, pc, held

row     == <<status, isConnected>>
memory  == <<sessions, up, cancelOf, heart, loggingOut, qrCancel, unloaded>>
client  == <<link, paired>>
started == <<op, of>>
vars    == <<row, memory, client, started, pc, held>>

Statuses == {"new", "failed", "qr_required", "online", "disconnected", "logged_out", "deleted"}
Ops      == {"none", "login", "qr", "logout", "delete", "connected", "loggedOut",
             "disconnected", "load", "ended"}
Links    == {"off", "open", "ready", "lost"}
Hearts   == {"none", "beating", "cancelled", "stopped"}
Steps    == {"none", "done", "panicked",
             "insert", "find", "create", "register", "channel", "connect", "listen",
             "take", "missing", "cancel", "unlink", "status", "read", "unflag",
             "release", "forget", "remove", "flag", "mark", "identify", "online",
             "replace", "beat", "store", "update"}
QRFlow   == {"channel", "connect", "listen"}

TypeOK ==
    /\ status \in [Instances -> Statuses]
    /\ isConnected \in SUBSET Instances
    /\ sessions \in [Instances -> Tasks \cup {None}]
    /\ up \in SUBSET Tasks
    /\ cancelOf \in [Tasks -> Tasks \cup {None}]
    /\ heart \in [Tasks -> Hearts]
    /\ loggingOut \in SUBSET Instances
    /\ qrCancel \in [Instances -> Tasks \cup {None}]
    /\ unloaded \in SUBSET Instances
    /\ link \in [Tasks -> Links]
    /\ paired \in SUBSET Tasks
    /\ op \in [Tasks -> Ops]
    /\ of \in [Tasks -> Instances \cup {None}]
    /\ pc \in [Tasks -> Steps]
    /\ held \in [Tasks -> Tasks \cup {None}]

Exists(i) == status[i] \notin {"new", "failed", "deleted"}
Issued(i) == status[i] \notin {"new", "failed"}   \* a caller has been told the ID

(* Any row that an earlier process can have left.  is_connected outlives   *)
(* online: UpdateInstanceQR sets the status alone.                         *)
Init ==
    /\ status \in [Instances -> Statuses \ {"failed", "deleted"}]
    /\ isConnected \in SUBSET {i \in Instances : status[i] \in {"online", "qr_required"}}
    /\ \A i \in Instances : status[i] = "online" => i \in isConnected
    /\ sessions = [i \in Instances |-> None]
    /\ up = {} /\ cancelOf = [s \in Tasks |-> None]
    /\ heart = [h \in Tasks |-> "none"]
    /\ loggingOut = {} /\ qrCancel = [i \in Instances |-> None]
    /\ unloaded \in SUBSET {i \in Instances : Exists(i)}
    /\ link = [s \in Tasks |-> "off"] /\ paired = {}
    /\ op = [p \in Tasks |-> "none"] /\ of = [p \in Tasks |-> None]
    /\ pc = [p \in Tasks |-> "none"] /\ held = [p \in Tasks |-> None]

-----------------------------------------------------------------------------
(* Tasks.                                                                  *)

Start(p, o, i, s, step) ==
    /\ op[p] = "none" /\ \A q \in 1..(p - 1) : op[q] # "none"
    /\ o \in KindsOf[p]
    /\ op' = [op EXCEPT ![p] = o] /\ of' = [of EXCEPT ![p] = i]
    /\ held' = [held EXCEPT ![p] = s] /\ pc' = [pc EXCEPT ![p] = step]

At(p, o, step) == op[p] = o /\ pc[p] = step

Hold(p, s, step) ==
    /\ held' = [held EXCEPT ![p] = s] /\ pc' = [pc EXCEPT ![p] = step]
    /\ UNCHANGED started

\* A task that is done is forgotten but for its name and its instance.
Move(p, step) ==
    /\ pc' = [pc EXCEPT ![p] = step]
    /\ IF step = "done"
       THEN /\ op' = [op EXCEPT ![p] = "ended"] /\ held' = [held EXCEPT ![p] = None]
            /\ UNCHANGED of
       ELSE UNCHANGED <<started, held>>

\* The server listens once every stored device has been loaded.
Serving == unloaded = {} /\ \A p \in Tasks : op[p] # "load"

IsConnected(s) == link[s] \in {"open", "ready"}

(* One UPDATE of the row; without a row it succeeds and changes nothing.   *)
Update(i, st, connected) ==
    IF Exists(i)
    THEN /\ status' = [status EXCEPT ![i] = st]
         /\ isConnected' = IF connected THEN isConnected \cup {i} ELSE isConnected \ {i}
    ELSE UNCHANGED row

\* A failed statement is logged and the handler goes on.
TryUpdate(i, st, connected) == Update(i, st, connected) \/ UNCHANGED row

-----------------------------------------------------------------------------
(* Creating an instance and pairing it.                                    *)

\* Faulty variant: nobody looks whether the instance has a session.
FaultyCreateSession(i, s) == sessions' = [sessions EXCEPT ![i] = s]

CreateSession(i, s) ==
    /\ sessions[i] = None
    /\ sessions' = [sessions EXCEPT ![i] = s]

Login(p, i) ==
    /\ Serving /\ status[i] = "new"
    /\ CreateSession(i, p)
    /\ Start(p, "login", i, p, "insert")
    /\ UNCHANGED <<row, up, cancelOf, heart, loggingOut, qrCancel, unloaded, client>>

\* The limit or the database refuses the row; the session stays in the map.
InsertInstance(p) ==
    /\ At(p, "login", "insert")
    /\ \E st \in {"qr_required", "failed"} : status' = [status EXCEPT ![of[p]] = st]
    /\ Move(p, "done")
    /\ UNCHANGED <<isConnected, memory, client>>

GetQR(p, i) ==
    /\ Serving /\ Issued(i)
    /\ qrCancel[i] = None
    /\ Start(p, "qr", i, None, "find")
    /\ UNCHANGED <<row, memory, client>>

FindSession(p) ==
    /\ At(p, "qr", "find")
    /\ IF sessions[of[p]] = None
       THEN Move(p, "create")
       ELSE Hold(p, sessions[of[p]], "register")
    /\ UNCHANGED <<row, memory, client>>

CreateForQR(p) ==
    /\ At(p, "qr", "create")
    /\ \/ CreateSession(of[p], p) /\ Hold(p, p, "register")
       \/ sessions[of[p]] # None /\ Move(p, "done") /\ UNCHANGED sessions
    /\ UNCHANGED <<row, up, cancelOf, heart, loggingOut, qrCancel, unloaded, client>>

RegisterQR(p) ==
    /\ At(p, "qr", "register")
    /\ IF held[p] \in up
       THEN Move(p, "done") /\ UNCHANGED qrCancel
       ELSE Move(p, "channel") /\ qrCancel' = [qrCancel EXCEPT ![of[p]] = p]
    /\ UNCHANGED <<row, sessions, up, cancelOf, heart, loggingOut, unloaded, client>>

\* The deferred cleanup removes whatever is registered for the instance.
EndFlow(p) ==
    /\ qrCancel' = [qrCancel EXCEPT ![of[p]] = None]
    /\ Move(p, "done")
    /\ UNCHANGED <<sessions, up, cancelOf, heart, loggingOut, unloaded>>

\* Faulty variant: a flow that gets no channel leaves its entry behind.
FaultyOpenChannel(p) ==
    /\ At(p, "qr", "channel")
    /\ Move(p, IF IsConnected(held[p]) \/ held[p] \in paired THEN "done" ELSE "connect")
    /\ UNCHANGED <<row, memory, client>>

OpenChannel(p) ==
    /\ At(p, "qr", "channel")
    /\ IF IsConnected(held[p]) \/ held[p] \in paired
       THEN EndFlow(p)
       ELSE Move(p, "connect") /\ UNCHANGED memory
    /\ UNCHANGED <<row, client>>

ConnectForQR(p) ==
    /\ At(p, "qr", "connect")
    /\ \/ EndFlow(p) /\ UNCHANGED link
       \/ /\ ~IsConnected(held[p])
          /\ link' = [link EXCEPT ![held[p]] = "open"]
          /\ Move(p, "listen")
          /\ UNCHANGED memory
    /\ UNCHANGED <<row, paired>>

ReceiveCode(p) ==
    /\ At(p, "qr", "listen") /\ Exists(of[p])
    /\ status' = [status EXCEPT ![of[p]] = "qr_required"]
    /\ UNCHANGED <<isConnected, memory, client, started, pc, held>>

\* Success, timeout, error, a closed channel or CancelQR.  The library may
\* disconnect a client that was not paired.
EndListening(p) ==
    /\ At(p, "qr", "listen")
    /\ EndFlow(p)
    /\ \/ UNCHANGED link
       \/ held[p] \notin paired /\ link' = [link EXCEPT ![held[p]] = "off"]
    /\ UNCHANGED <<row, paired>>

-----------------------------------------------------------------------------
(* POST /logout: DeleteSession.                                            *)

Logout(p, i) ==
    /\ Serving /\ Issued(i)
    /\ loggingOut' = loggingOut \cup {i}
    /\ Start(p, "logout", i, None, "take")
    /\ UNCHANGED <<row, sessions, up, cancelOf, heart, qrCancel, unloaded, client>>

TakeSession(p) ==
    /\ At(p, "logout", "take")
    /\ IF sessions[of[p]] = None
       THEN Move(p, "missing") /\ UNCHANGED sessions
       ELSE /\ Hold(p, sessions[of[p]], "cancel")
            /\ sessions' = [sessions EXCEPT ![of[p]] = None]
    /\ UNCHANGED <<row, up, cancelOf, heart, loggingOut, qrCancel, unloaded, client>>

\* Faulty variant: a logout that finds no session returns at once.
FaultyUnflag(p) ==
    /\ At(p, "logout", "missing") \/ At(p, "logout", "unflag")
    /\ loggingOut' = IF pc[p] = "missing" THEN loggingOut ELSE loggingOut \ {of[p]}
    /\ Move(p, "done")
    /\ UNCHANGED <<row, sessions, up, cancelOf, heart, qrCancel, unloaded, client>>

Unflag(p) ==
    /\ At(p, "logout", "missing") \/ At(p, "logout", "unflag")
    /\ loggingOut' = loggingOut \ {of[p]}
    /\ Move(p, "done")
    /\ UNCHANGED <<row, sessions, up, cancelOf, heart, qrCancel, unloaded, client>>

StopHeart(s) ==
    heart' = IF cancelOf[s] = None THEN heart ELSE [heart EXCEPT ![cancelOf[s]] = "cancelled"]

CancelHeartbeat(p) ==
    /\ At(p, "logout", "cancel")
    /\ StopHeart(held[p]) /\ Move(p, "unlink")
    /\ UNCHANGED <<row, sessions, up, cancelOf, loggingOut, qrCancel, unloaded, client>>

\* Client.Logout may fail and is then only logged; Disconnect always runs.
Unlink(p) ==
    /\ At(p, "logout", "unlink")
    /\ link' = [link EXCEPT ![held[p]] = "off"]
    /\ paired' \in {paired, paired \ {held[p]}}
    /\ Move(p, "status")
    /\ UNCHANGED <<row, memory>>

\* What is left to do when the row has been seen to.
Rest(p) == IF op[p] = "logout" THEN "unflag" ELSE "forget"

\* The status is written; if that succeeds the row is read for the event,
\* and the result is used although the read may have found nothing.  There
\* is nobody to tell (Realtime is nil) until the stored devices are loaded.
WriteLoggedOut(p) ==
    /\ At(p, "logout", "status") \/ At(p, "loggedOut", "status")
    /\ \/ /\ Update(of[p], "logged_out", FALSE)
          /\ Move(p, IF Serving THEN "read" ELSE Rest(p))
       \/ Move(p, Rest(p)) /\ UNCHANGED row
    /\ UNCHANGED <<memory, client>>

ReadRow(p) ==
    /\ pc[p] = "read"
    /\ \/ Move(p, "panicked")
       \/ Exists(of[p]) /\ Move(p, Rest(p))
    /\ UNCHANGED <<row, memory, client>>

-----------------------------------------------------------------------------
(* DELETE /instances: DeleteInstance.                                      *)

DeleteInstance(p, i) ==
    /\ Serving /\ Exists(i)
    /\ i \notin isConnected /\ status[i] # "online"
    /\ Start(p, "delete", i, None, "release")
    /\ UNCHANGED <<row, memory, client>>

ReleaseSession(p) ==
    /\ At(p, "delete", "release")
    /\ IF sessions[of[p]] = None
       THEN Move(p, "remove") /\ UNCHANGED client
       ELSE /\ link' = [link EXCEPT ![sessions[of[p]]] = "off"]
            /\ paired' = paired \ {sessions[of[p]]}
            /\ Move(p, "forget")
    /\ UNCHANGED <<row, memory>>

\* Whichever session is in the map now; also the last step of LoggedOut.
ForgetSession(p) ==
    /\ pc[p] = "forget"
    /\ sessions' = [sessions EXCEPT ![of[p]] = None]
    /\ Move(p, IF op[p] = "delete" THEN "remove" ELSE "done")
    /\ UNCHANGED <<row, up, cancelOf, heart, loggingOut, qrCancel, unloaded, client>>

RemoveRow(p) ==
    /\ At(p, "delete", "remove")
    /\ \/ /\ status' = [status EXCEPT ![of[p]] = "deleted"]
          /\ isConnected' = isConnected \ {of[p]}
       \/ UNCHANGED row
    /\ Move(p, "done")
    /\ UNCHANGED <<memory, client>>

-----------------------------------------------------------------------------
(* The handlers of the library's events.  The library calls them in        *)
(* goroutines of its own and survives their panics.                        *)

\* The instance eventHandler(instanceID) was made for.
InstanceOf(s) == of[s]

\* A paired client whose connection is up is logged in.
Authenticated(p, s) ==
    /\ link[s] = "open" /\ s \in paired
    /\ link' = [link EXCEPT ![s] = "ready"]
    /\ Start(p, "connected", InstanceOf(s), None, "flag")
    /\ UNCHANGED <<row, memory, paired>>

\* Connected and Disconnected are ignored during a logout.
ReadFlag(p) ==
    /\ pc[p] = "flag"
    /\ Move(p, IF of[p] \in loggingOut THEN "done" ELSE "mark")
    /\ UNCHANGED <<row, memory, client>>

\* The session in the map, whichever client the event is from.
MarkConnected(p) ==
    /\ At(p, "connected", "mark")
    /\ IF sessions[of[p]] = None
       THEN Move(p, "done") /\ UNCHANGED up
       ELSE Hold(p, sessions[of[p]], "identify") /\ up' = up \cup {sessions[of[p]]}
    /\ UNCHANGED <<row, sessions, cancelOf, heart, loggingOut, qrCancel, unloaded, client>>

Identify(p) ==
    /\ At(p, "connected", "identify")
    /\ Move(p, IF held[p] \in paired THEN "online" ELSE "done")
    /\ UNCHANGED <<row, memory, client>>

WriteOnline(p) ==
    /\ At(p, "connected", "online")
    /\ TryUpdate(of[p], "online", TRUE)
    /\ Move(p, "replace")
    /\ UNCHANGED <<memory, client>>

ReplaceHeartbeat(p) ==
    /\ At(p, "connected", "replace")
    /\ StopHeart(held[p]) /\ Move(p, "beat")
    /\ UNCHANGED <<row, sessions, up, cancelOf, loggingOut, qrCancel, unloaded, client>>

\* Faulty variant: only the first cancel function is stored.
FaultyStartHeartbeat(p) ==
    /\ At(p, "connected", "beat")
    /\ cancelOf' = IF cancelOf[held[p]] = None THEN [cancelOf EXCEPT ![held[p]] = p] ELSE cancelOf
    /\ heart' = [heart EXCEPT ![p] = "beating"]
    /\ Move(p, "done")
    /\ UNCHANGED <<row, sessions, up, loggingOut, qrCancel, unloaded, client>>

StartHeartbeat(p) ==
    /\ At(p, "connected", "beat")
    /\ cancelOf' = [cancelOf EXCEPT ![held[p]] = p]
    /\ heart' = [heart EXCEPT ![p] = "beating"]
    /\ Move(p, "done")
    /\ UNCHANGED <<row, sessions, up, loggingOut, qrCancel, unloaded, client>>

\* Faulty variant: only a missing session ends the goroutine.
FaultyHeartbeatStops(h) ==
    /\ heart[h] = "beating"
    /\ sessions[of[h]] = None
    /\ heart' = [heart EXCEPT ![h] = "stopped"]
    /\ UNCHANGED <<row, sessions, up, cancelOf, loggingOut, qrCancel, unloaded,
                   client, started, pc, held>>

\* The goroutine looks the instance up, not the session it was started for.
\* While it goes on it changes nothing; a cancelled one returns.
HeartbeatStops(h) ==
    /\ heart[h] = "beating"
    /\ sessions[of[h]] \notin up
    /\ heart' = [heart EXCEPT ![h] = "stopped"]
    /\ UNCHANGED <<row, sessions, up, cancelOf, loggingOut, qrCancel, unloaded,
                   client, started, pc, held>>

\* The phone removes the device.
LoggedOut(p, s) ==
    /\ IsConnected(s) /\ s \in paired
    /\ link' = [link EXCEPT ![s] = "off"] /\ paired' = paired \ {s}
    /\ Start(p, "loggedOut", InstanceOf(s), None, "mark")
    /\ UNCHANGED <<row, memory>>

MarkLoggedOut(p) ==
    /\ At(p, "loggedOut", "mark")
    /\ up' = up \ {sessions[of[p]]}
    /\ link' = IF sessions[of[p]] = None THEN link
               ELSE [link EXCEPT ![sessions[of[p]]] = "off"]
    /\ Move(p, "status")
    /\ UNCHANGED <<row, sessions, cancelOf, heart, loggingOut, qrCancel, unloaded, paired>>

\* The connection breaks; the library reconnects by itself.
Disconnected(p, s) ==
    /\ IsConnected(s)
    /\ link' = [link EXCEPT ![s] = "lost"]
    /\ Start(p, "disconnected", InstanceOf(s), None, "flag")
    /\ UNCHANGED <<row, memory, paired>>

MarkDisconnected(p) ==
    /\ At(p, "disconnected", "mark")
    /\ up' = up \ {sessions[of[p]]}
    /\ Move(p, "status")
    /\ UNCHANGED <<row, sessions, cancelOf, heart, loggingOut, qrCancel, unloaded, client>>

WriteDisconnected(p) ==
    /\ At(p, "disconnected", "status")
    /\ TryUpdate(of[p], "disconnected", FALSE)
    /\ Move(p, "done")
    /\ UNCHANGED <<memory, client>>

Reconnect(s) ==
    /\ link[s] = "lost"
    /\ link' = [link EXCEPT ![s] = "open"]
    /\ UNCHANGED <<row, memory, paired, started, pc, held>>

Pair(s) ==
    /\ link[s] = "open" /\ s \notin paired
    /\ paired' = paired \cup {s}
    /\ UNCHANGED <<row, memory, link, started, pc, held>>

-----------------------------------------------------------------------------
(* Start-up: LoadAllDevices takes the stored devices one after the other.  *)

Load(p, i) ==
    /\ i \in unloaded /\ \A q \in Tasks : op[q] # "load"
    /\ unloaded' = unloaded \ {i}
    /\ paired' = paired \cup {p}
    /\ Start(p, "load", i, p, "connect")
    /\ UNCHANGED <<row, sessions, up, cancelOf, heart, loggingOut, qrCancel, link>>

ConnectLoaded(p) ==
    /\ At(p, "load", "connect")
    /\ \/ Move(p, "done") /\ UNCHANGED link
       \/ Move(p, "store") /\ link' = [link EXCEPT ![p] = "open"]
    /\ UNCHANGED <<row, memory, paired>>

StoreLoaded(p) ==
    /\ At(p, "load", "store")
    /\ sessions' = [sessions EXCEPT ![of[p]] = p]
    /\ up' = IF IsConnected(p) THEN up \cup {p} ELSE up
    /\ Move(p, "update")
    /\ UNCHANGED <<row, cancelOf, heart, loggingOut, qrCancel, unloaded, client>>

UpdateLoaded(p) ==
    /\ At(p, "load", "update")
    /\ \/ IsConnected(p) /\ TryUpdate(of[p], "online", TRUE)
       \/ ~IsConnected(p) /\ UNCHANGED row
    /\ Move(p, "done")
    /\ UNCHANGED <<memory, client>>

-----------------------------------------------------------------------------
Request(p) ==
    \E i \in Instances : \/ Login(p, i) \/ GetQR(p, i) \/ Logout(p, i) \/ DeleteInstance(p, i)

Event(p) ==
    \E s \in Tasks : Authenticated(p, s) \/ LoggedOut(p, s) \/ Disconnected(p, s)

\* One step of a task that has begun.
Continue(p) ==
    \/ InsertInstance(p)
    \/ FindSession(p) \/ CreateForQR(p) \/ RegisterQR(p) \/ OpenChannel(p)
    \/ ConnectForQR(p) \/ EndListening(p)
    \/ TakeSession(p) \/ Unflag(p) \/ CancelHeartbeat(p) \/ Unlink(p)
    \/ WriteLoggedOut(p) \/ ReadRow(p)
    \/ ReleaseSession(p) \/ ForgetSession(p) \/ RemoveRow(p)
    \/ ReadFlag(p) \/ MarkConnected(p) \/ Identify(p) \/ WriteOnline(p)
    \/ ReplaceHeartbeat(p) \/ StartHeartbeat(p)
    \/ MarkLoggedOut(p) \/ MarkDisconnected(p) \/ WriteDisconnected(p)
    \/ ConnectLoaded(p) \/ StoreLoaded(p) \/ UpdateLoaded(p)

Next ==
    \/ \E p \in Tasks : Request(p) \/ Event(p) \/ Continue(p) \/ ReceiveCode(p)
    \/ \E h \in Tasks : HeartbeatStops(h)
    \/ \E s \in Tasks : Reconnect(s) \/ Pair(s)
    \/ \E p \in Tasks, i \in Instances : Load(p, i)

Spec == Init /\ [][Next]_vars

\* Go runs every goroutine, statements and calls return, the library ends a
\* QR flow after three minutes at the latest, and tickers tick.  Nothing
\* obliges clients to call or the library to connect.
FairSpec ==
    /\ Spec
    /\ \A p \in Tasks : WF_vars(Continue(p)) /\ WF_vars(HeartbeatStops(p))

-----------------------------------------------------------------------------
(* A logout of i that has not returned to its caller.                      *)
LoggingOut(p, i) == op[p] = "logout" /\ of[p] = i

(* loggingOut makes the handlers ignore Connected and Disconnected: an     *)
(* instance keeps the flag only while one of its logouts is under way, or  *)
(* has panicked between the row and the flag (whatsapp.go:526-598), not    *)
(* after a logout that found no session or whose statements failed.        *)
FlagHasALogout ==
    \A i \in loggingOut : \E p \in Tasks : LoggingOut(p, i)

(* The entry in qrCancelFuncs belongs to a flow that still runs and will   *)
(* remove it, so GET /qr is not answered 409 for ever (auth.go:137-181),   *)
(* though several flows of an instance may overwrite and remove entries.   *)
CancelBelongsToAFlow ==
    \A i \in Instances :
       qrCancel[i] # None =>
          LET p == qrCancel[i] IN op[p] = "qr" /\ of[p] = i /\ pc[p] \in QRFlow

(* A session in the map is never replaced by another: a login, a QR        *)
(* request and the loading at start-up find the place empty, and only the  *)
(* teardown of the instance empties it, so no client in use loses its      *)
(* entry to a second one.                                                  *)
Teardown(p, i) ==
    /\ of[p] = i
    /\ \/ At(p, "logout", "take")
       \/ op[p] \in {"delete", "loggedOut"} /\ pc[p] = "forget"

NeverReplaced ==
    [][\A i \in Instances :
          sessions[i] # None /\ sessions'[i] # sessions[i] =>
             sessions'[i] = None /\ \E p \in Tasks : Teardown(p, i)]_vars

(* The heartbeat that the session in the map would cancel is not already   *)
(* cancelled, unless a Connected handler is about to store its             *)
(* replacement: two handlers and a logout may all cancel and store.        *)
HeartIsReplaced ==
    \A i \in Instances :
       LET s == sessions[i] IN
       s # None /\ cancelOf[s] # None /\ heart[cancelOf[s]] = "cancelled" =>
          \E p \in Tasks : At(p, "connected", "beat") /\ held[p] = s

(* When an instance is without a connected session for good, its           *)
(* heartbeats end, also those nobody can cancel any more.                  *)
HeartbeatsEnd ==
    \A i \in Instances :
       <>[](sessions[i] \notin up) =>
          <>[](\A h \in Tasks : of[h] = i => heart[h] # "beating")
=============================================================================
