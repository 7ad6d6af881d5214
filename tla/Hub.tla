-------------------------------- MODULE Hub ---------------------------------
(***************************************************************************)
(* The WebSocket hub: internal/ws/hub.go with the two handlers that make   *)
(* its clients, internal/handler/websocket.go and inbox.go.                *)
(*                                                                         *)
(* One goroutine, Run, adds and removes clients and hands out published    *)
(* events; message handlers of the WhatsApp library call                   *)
(* BroadcastToInstance, which goes through the same map at the same time.  *)
(* Run closes a client whose buffer is full while it holds the lock for    *)
(* reading only, as BroadcastToInstance does.                              *)
(***************************************************************************)
EXTENDS Naturals, SequencesExt

CONSTANTS
    Clients,     \* connections that may be made
    Listening,   \* those of /listen: BroadcastToInstance addresses them
    Hears,       \* Hears[c]: events that shouldDeliverEvent lets through to c
    Callers,     \* goroutines that call BroadcastToInstance
    Buffer,      \* capacity of a client's send channel (256 in the code)
    Backlog,     \* capacity of the broadcast channel (256 in the code)
    MaxEvents,   \* bound: published events, numbered in their order
    MaxIncoming  \* bound: calls of BroadcastToInstance

ASSUME HubAssumption == Hears \in [Clients -> SUBSET Nat] /\ Buffer \in Nat

VARIABLES
    conn,       \* conn[c]: "none", "open" or "closed"
    reader,     \* reader[c]: state of its ReadPump
    writer,     \* writer[c]: state of its WritePump
    clients,    \* the map of registered clients
    send,       \* send[c]: what its channel holds; Incoming for an incoming message
    closes,     \* closes[c]: how often its channel was closed
    run,        \* what Run is at
    broadcast,  \* the channel of published events
    inside,     \* callers that hold the lock for reading
    todo,       \* todo[b]: clients that caller b has still to come to
    published,  \* events so far
    incoming,   \* calls of BroadcastToInstance so far
    got,        \* history: got[c], the published events that c's channel took
    panicked    \* the process died of a run-time panic

pumps == <<reader, writer>>
loop  == <<run, broadcast>>
reading == <<inside, todo, incoming>>
hubVars == <<conn, pumps, clients, send, closes, loop, reading, published, got, panicked>>

Incoming == 0
Selecting == [at |-> "select"]
Pump == {"off", "running", "leaving", "gone"}

HubInit ==
    /\ conn = [c \in Clients |-> "none"]
    /\ reader = [c \in Clients |-> "off"] /\ writer = [c \in Clients |-> "off"]
    /\ clients = {}
    /\ send = [c \in Clients |-> <<>>] /\ closes = [c \in Clients |-> 0]
    /\ run = Selecting /\ broadcast = <<>>
    /\ inside = {} /\ todo = [b \in Callers |-> {}]
    /\ published = 0 /\ incoming = 0
    /\ got = [c \in Clients |-> <<>>]
    /\ panicked = FALSE

Full(c) == Len(send[c]) >= Buffer
IsClosed(c) == closes[c] > 0
Put(c, e) == send' = [send EXCEPT ![c] = Append(@, e)]

\* Faulty variant: the client is removed and its channel stays open.
FaultyClose(c) == UNCHANGED closes

Close(c) == closes' = [closes EXCEPT ![c] = @ + 1]

-----------------------------------------------------------------------------
(* Connections.                                                            *)

(* WebSocketHandler or ListenMessages: when Run takes the client, its      *)
(* handler goes on and starts the pumps.                                   *)
Register(c) ==
    /\ run = Selecting /\ conn[c] = "none"
    /\ run' = [at |-> "adding", client |-> c]
    /\ conn' = [conn EXCEPT ![c] = "open"]
    /\ reader' = [reader EXCEPT ![c] = "running"]
    /\ writer' = [writer EXCEPT ![c] = "running"]
    /\ UNCHANGED <<clients, send, closes, broadcast, reading, published, got, panicked>>

(* WritePump takes an event from the channel and writes it, or fails to    *)
(* within its deadline.                                                    *)
Write(c) ==
    /\ writer[c] = "running" /\ send[c] # <<>>
    /\ send' = [send EXCEPT ![c] = Tail(@)]
    /\ \/ conn[c] = "open" /\ UNCHANGED writer
       \/ writer' = [writer EXCEPT ![c] = "leaving"]
    /\ UNCHANGED <<conn, reader, clients, closes, loop, reading, published, got, panicked>>

(* The channel is closed and drained: the close frame, and the pump ends. *)
WriteClose(c) ==
    /\ writer[c] = "running" /\ send[c] = <<>> /\ IsClosed(c)
    /\ writer' = [writer EXCEPT ![c] = "leaving"]
    /\ UNCHANGED <<conn, reader, clients, send, closes, loop, reading, published, got, panicked>>

(* The five-minute ping fails. *)
PingFails(c) ==
    /\ writer[c] = "running"
    /\ writer' = [writer EXCEPT ![c] = "leaving"]
    /\ UNCHANGED <<conn, reader, clients, send, closes, loop, reading, published, got, panicked>>

(* ReadPump: the peer goes away or stays silent for 15 minutes... *)
ReadFails(c) ==
    /\ reader[c] = "running" /\ conn[c] = "open"
    /\ reader' = [reader EXCEPT ![c] = "leaving"]
    /\ UNCHANGED <<conn, writer, clients, send, closes, loop, reading, published, got, panicked>>

(* ...or the connection was closed under it. *)
ReadClosed(c) ==
    /\ reader[c] = "running" /\ conn[c] = "closed"
    /\ reader' = [reader EXCEPT ![c] = "leaving"]
    /\ UNCHANGED <<conn, writer, clients, send, closes, loop, reading, published, got, panicked>>

(* A pump ends: Run takes its Unregister, and it closes the connection. *)
Unregister(c, pump) ==
    /\ run = Selecting
    /\ \/ pump = "reader" /\ reader[c] = "leaving"
          /\ reader' = [reader EXCEPT ![c] = "gone"] /\ UNCHANGED writer
       \/ pump = "writer" /\ writer[c] = "leaving"
          /\ writer' = [writer EXCEPT ![c] = "gone"] /\ UNCHANGED reader
    /\ run' = [at |-> "removing", client |-> c]
    /\ conn' = [conn EXCEPT ![c] = "closed"]
    /\ UNCHANGED <<clients, send, closes, broadcast, reading, published, got, panicked>>

-----------------------------------------------------------------------------
(* The loop of Run.                                                        *)

(* h.mu.Lock: no other goroutine holds the lock for reading. *)
MayWrite == inside = {}

AddClient ==
    /\ run.at = "adding" /\ MayWrite
    /\ clients' = clients \cup {run.client}
    /\ run' = Selecting
    /\ UNCHANGED <<conn, pumps, send, closes, broadcast, reading, published, got, panicked>>

\* Faulty variant: a client that was dropped before is closed again.
FaultyIsKnown(c) == TRUE

(* The second pump to leave, or a client that was dropped, is not there. *)
IsKnown(c) == c \in clients

RemoveClient ==
    LET c == run.client IN
    /\ run.at = "removing" /\ MayWrite
    /\ IF IsKnown(c)
         THEN clients' = clients \ {c} /\ Close(c)
         ELSE UNCHANGED <<clients, closes>>
    /\ run' = Selecting
    /\ UNCHANGED <<conn, pumps, send, broadcast, reading, published, got, panicked>>

(* An event leaves the broadcast channel; Run locks for reading. *)
TakeEvent ==
    /\ run = Selecting /\ broadcast # <<>>
    /\ run' = [at |-> "sending", event |-> Head(broadcast), left |-> clients]
    /\ broadcast' = Tail(broadcast)
    /\ UNCHANGED <<conn, pumps, clients, send, closes, reading, published, got, panicked>>

\* Faulty variant: the event is skipped, as BroadcastToInstance does.
FaultyDrop(c) ==
    /\ run' = [run EXCEPT !.left = @ \ {c}]
    /\ UNCHANGED closes

(* A full buffer: the channel is closed here, and deleted in the next step. *)
Drop(c) ==
    /\ Close(c)
    /\ run' = [at |-> "dropping", client |-> c, event |-> run.event, left |-> run.left]

(* The next client in the order of the map: filter, then a send that does  *)
(* not block.                                                              *)
Deliver(c) ==
    /\ run.at = "sending" /\ c \in run.left
    /\ IF run.event \notin Hears[c]
         THEN run' = [run EXCEPT !.left = @ \ {c}] /\ UNCHANGED <<send, closes, got>>
       ELSE IF ~ Full(c)
         THEN /\ Put(c, run.event)
              /\ got' = [got EXCEPT ![c] = Append(@, run.event)]
              /\ run' = [run EXCEPT !.left = @ \ {c}]
              /\ UNCHANGED closes
         ELSE Drop(c) /\ UNCHANGED <<send, got>>
    /\ UNCHANGED <<conn, pumps, clients, broadcast, reading, published, panicked>>

(* delete(h.clients, client) without the lock for writing.  When a caller  *)
(* iterates at that instant, the run time may detect it and end the        *)
(* process.                                                                *)
DeleteDropped ==
    /\ run.at = "dropping"
    /\ clients' = clients \ {run.client}
    /\ run' = [at |-> "sending", event |-> run.event, left |-> run.left \ {run.client}]
    /\ panicked' \in (IF inside = {} THEN {FALSE} ELSE {FALSE, TRUE})
    /\ UNCHANGED <<conn, pumps, send, closes, broadcast, reading, published, got>>

EndEvent ==
    /\ run.at = "sending" /\ run.left = {}
    /\ run' = Selecting
    /\ UNCHANGED <<conn, pumps, clients, send, closes, broadcast, reading, published, got, panicked>>

-----------------------------------------------------------------------------
(* Publish and BroadcastToInstance.                                        *)

(* h.broadcast <- event: the caller is blocked until there is room. *)
Publish ==
    /\ published < MaxEvents /\ Len(broadcast) < Backlog
    /\ published' = published + 1
    /\ broadcast' = Append(broadcast, published + 1)
    /\ UNCHANGED <<conn, pumps, clients, send, closes, run, reading, got, panicked>>

(* RLock; it waits behind a Run that waits for the lock for writing. *)
BroadcastToInstance(b) ==
    /\ b \notin inside /\ incoming < MaxIncoming
    /\ run.at \notin {"adding", "removing"}
    /\ inside' = inside \cup {b}
    /\ todo' = [todo EXCEPT ![b] = clients \cap Listening]
    /\ incoming' = incoming + 1
    /\ UNCHANGED <<conn, pumps, clients, send, closes, loop, published, got, panicked>>

(* The send to the next client: it panics on a closed channel, and skips a *)
(* full one.                                                               *)
SendIncoming(b, c) ==
    /\ c \in todo[b]
    /\ todo' = [todo EXCEPT ![b] = @ \ {c}]
    /\ IF IsClosed(c) THEN panicked' = TRUE /\ UNCHANGED send
       ELSE /\ IF Full(c) THEN UNCHANGED send ELSE Put(c, Incoming)
            /\ UNCHANGED panicked
    /\ UNCHANGED <<conn, pumps, clients, closes, loop, inside, incoming, published, got>>

(* An entry deleted during the iteration may be left out. *)
MissDeleted(b, c) ==
    /\ c \in todo[b] \ clients
    /\ todo' = [todo EXCEPT ![b] = @ \ {c}]
    /\ UNCHANGED <<conn, pumps, clients, send, closes, loop, inside, incoming,
                   published, got, panicked>>

EndBroadcast(b) ==
    /\ b \in inside /\ todo[b] = {}
    /\ inside' = inside \ {b}
    /\ UNCHANGED <<conn, pumps, clients, send, closes, loop, todo, incoming,
                   published, got, panicked>>

-----------------------------------------------------------------------------
RunStep == AddClient \/ RemoveClient \/ TakeEvent \/ DeleteDropped \/ EndEvent
            \/ \E c \in Clients : Deliver(c)

Finish(b) == EndBroadcast(b) \/ \E c \in Clients : SendIncoming(b, c) \/ MissDeleted(b, c)

HubNext ==
    /\ ~ panicked
    /\ \/ RunStep
       \/ \E c \in Clients :
             \/ Register(c) \/ Write(c) \/ WriteClose(c) \/ PingFails(c) \/ ReadFails(c) \/ ReadClosed(c)
             \/ Unregister(c, "reader") \/ Unregister(c, "writer")
       \/ Publish
       \/ \E b \in Callers : BroadcastToInstance(b) \/ Finish(b)

HubSpec == HubInit /\ [][HubNext]_hubVars

(* While the program can do something it does: nobody has to connect, to   *)
(* publish or to fail, and no goroutine is favoured.                       *)
Work ==
    \/ RunStep \/ \E b \in Callers : Finish(b)
    \/ \E c \in Clients :
          \/ Write(c) \/ WriteClose(c) \/ ReadClosed(c)
          \/ Unregister(c, "reader") \/ Unregister(c, "writer")

HubFairness == WF_hubVars(Work)

-----------------------------------------------------------------------------
(* A client that is still in the map has an open channel, but for the step *)
(* in which Run drops it, and no channel is closed twice: the two pumps    *)
(* and a full buffer may all ask for the end of one client.                *)
MapHoldsOpen ==
    \A c \in Clients :
        /\ closes[c] <= 1
        /\ c \in clients /\ IsClosed(c) => run.at = "dropping" /\ run.client = c

(* The published events that a client may hear reach its channel in order  *)
(* and without a gap from the first it got to the last: a client that      *)
(* cannot keep up is cut off and never resumes with events missing.        *)
NoGap ==
    \A c \in Clients :
        LET g == got[c] IN
        /\ \A i, j \in DOMAIN g : i < j => g[i] < g[j]
        /\ g # <<>> => \A e \in Head(g)..Last(g) : e \in Hears[c] <=> e \in Range(g)

(* A connection of which one pump ended is taken apart: the other pump     *)
(* ends too, the client leaves the map, and its channel is closed.         *)
Ended(c) == "leaving" \in {reader[c], writer[c]}
TakenApart(c) == reader[c] = "gone" /\ writer[c] = "gone" /\ c \notin clients /\ IsClosed(c)
EndedIsRemoved == \A c \in Clients : Ended(c) ~> TakenApart(c) \/ panicked

(* internal/ws/hub.go: the lock for reading that BroadcastToInstance takes *)
(* prevents the race with Run.                                             *)
NeverPanics == ~ panicked
=============================================================================
