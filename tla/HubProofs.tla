----------------------------- MODULE HubProofs ------------------------------
(***************************************************************************)
(* The map of clients and the order of events in Hub, for any number of    *)
(* clients, callers and events and any buffers.                            *)
(*                                                                         *)
(* Both rest on Run being one goroutine: nobody else adds to or takes from *)
(* the map, so what it has still to serve is in the map (OwnLoop), and the *)
(* event it serves is the last that left the queue (InTurn).               *)
(***************************************************************************)
EXTENDS Hub, TLAPS

Serving == run.at \in {"sending", "dropping"}

(* The shapes of run, and a client it serves is in the map. *)
OwnLoop ==
    \/ run = Selecting
    \/ run \in [at : {"adding", "removing"}, client : Clients]
    \/ run \in [at : {"sending"}, event : Nat, left : SUBSET clients]
    \/ /\ run \in [at : {"dropping"}, client : clients, event : Nat, left : SUBSET clients]
       /\ run.client \in run.left

Typed ==
    /\ conn \in [Clients -> {"none", "open", "closed"}]
    /\ clients \in SUBSET Clients
    /\ closes \in [Clients -> Nat]
    /\ broadcast \in Seq(Nat) /\ published \in Nat
    /\ got \in [Clients -> Seq(Nat)]
    /\ OwnLoop

(* A connection that Run has not added yet is new in every respect, and    *)
(* none is added again.                                                    *)
New(c) == conn[c] = "none" \/ (run.at = "adding" /\ run.client = c)
NewIsBlank ==
    /\ \A c \in Clients : New(c) => c \notin clients /\ closes[c] = 0 /\ got[c] = <<>>
    /\ run.at = "adding" => conn[run.client] # "none"

MapInv == Typed /\ NewIsBlank /\ MapHoldsOpen

(* The number of the event that left the queue last. *)
Current == published - Len(broadcast)

(* Events are queued, and served, in the order of their numbers. *)
InTurn ==
    /\ Len(broadcast) <= published
    /\ \A k \in 1..Len(broadcast) : broadcast[k] = Current + k
    /\ Serving => run.event = Current

(* The last event that Run has brought to c, or passed it over with. *)
Reached(c) == IF Serving /\ c \in run.left THEN Current - 1 ELSE Current

Ordered(c) ==
    LET g == got[c] IN
    /\ \A i, j \in 1..Len(g) : i < j => g[i] < g[j]
    /\ \A i \in 1..Len(g) : g[i] \in Hears[c] /\ g[i] <= Reached(c)

Complete(c, last) ==
    LET g == got[c] IN
    g # <<>> => \A e \in Hears[c] : g[1] <= e /\ e <= last => \E i \in 1..Len(g) : g[i] = e

(* What a client of the map has got is complete up to now; what one that   *)
(* left it has got stays complete up to the last that it got.              *)
NothingMissed ==
    \A c \in Clients :
        /\ Ordered(c)
        /\ Complete(c, got[c][Len(got[c])])
        /\ c \in clients => Complete(c, Reached(c))

IInv == MapInv /\ InTurn /\ NothingMissed

-----------------------------------------------------------------------------
LEMMA MapInit == HubInit => MapInv
BY DEF HubInit, MapInv, Typed, OwnLoop, Selecting, NewIsBlank, New, MapHoldsOpen, IsClosed

(* A channel is closed by Run alone, for a client that is in the map: when *)
(* it is removed, or when it is dropped and about to be deleted.           *)
LEMMA MapStep ==
    ASSUME MapInv, [HubNext]_hubVars
    PROVE  MapInv'
<1> USE DEF MapInv, Typed, OwnLoop, Selecting, NewIsBlank, New, MapHoldsOpen, IsClosed, reading, pumps, loop
<1>1. ASSUME NEW c \in Clients, Register(c) PROVE MapInv'
  BY <1>1 DEF Register
<1>2. ASSUME NEW c \in Clients, Write(c) PROVE MapInv'
  BY <1>2 DEF Write
<1>3. ASSUME NEW c \in Clients, WriteClose(c) PROVE MapInv'
  BY <1>3 DEF WriteClose
<1>4. ASSUME NEW c \in Clients, PingFails(c) PROVE MapInv'
  BY <1>4 DEF PingFails
<1>5. ASSUME NEW c \in Clients, ReadFails(c) PROVE MapInv'
  BY <1>5 DEF ReadFails
<1>6. ASSUME NEW c \in Clients, ReadClosed(c) PROVE MapInv'
  BY <1>6 DEF ReadClosed
<1>7. ASSUME NEW c \in Clients, NEW pump, Unregister(c, pump) PROVE MapInv'
  BY <1>7 DEF Unregister
<1>8. CASE AddClient
  <2>1. run \in [at : {"adding"}, client : Clients] /\ run.client \notin clients /\ closes[run.client] = 0
    BY <1>8 DEF AddClient
  <2>2. run' = Selecting /\ clients' = clients \cup {run.client}
    BY <1>8 DEF AddClient
  <2>3. UNCHANGED <<conn, closes, got, broadcast, published>>
    BY <1>8 DEF AddClient
  <2>4. Typed'
    BY <2>1, <2>2, <2>3
  <2>5. NewIsBlank'
    BY <2>1, <2>2, <2>3
  <2>6. MapHoldsOpen'
    BY <2>1, <2>2, <2>3
  <2> QED
    BY <2>4, <2>5, <2>6
<1>9. CASE RemoveClient
  <2>1. run \in [at : {"removing"}, client : Clients] /\ run' = Selecting
    BY <1>9 DEF RemoveClient
  <2>2. CASE run.client \in clients
    <3>1. /\ clients' = clients \ {run.client} /\ closes[run.client] = 0
          /\ closes' = [closes EXCEPT ![run.client] = 1]
      BY <1>9, <2>1, <2>2 DEF RemoveClient, IsKnown, Close
    <3>2. UNCHANGED <<conn, got, broadcast, published>>
      BY <1>9 DEF RemoveClient
    <3>3. Typed'
      BY <2>1, <3>1, <3>2
    <3>4. NewIsBlank'
      BY <2>1, <2>2, <3>1, <3>2
    <3>5. MapHoldsOpen'
      BY <2>1, <2>2, <3>1, <3>2
    <3> QED
      BY <3>3, <3>4, <3>5
  <2>3. CASE run.client \notin clients
    BY <1>9, <2>1, <2>3 DEF RemoveClient, IsKnown
  <2> QED
    BY <2>2, <2>3
<1>10. CASE TakeEvent
  BY <1>10 DEF TakeEvent
<1>11. ASSUME NEW c \in Clients, Deliver(c) PROVE MapInv'
  <2>1. /\ run \in [at : {"sending"}, event : Nat, left : SUBSET clients]
        /\ c \in clients /\ c \in run.left /\ closes[c] = 0 /\ ~ New(c)
    BY <1>11 DEF Deliver
  <2>2. CASE Drop(c) /\ UNCHANGED got
    <3>1. /\ run' = [at |-> "dropping", client |-> c, event |-> run.event, left |-> run.left]
          /\ closes' = [closes EXCEPT ![c] = 1]
      BY <2>1, <2>2 DEF Drop, Close
    <3>2. run' \in [at : {"dropping"}, client : clients, event : Nat, left : SUBSET clients]
      BY <2>1, <3>1
    <3> QED
      BY <1>11, <2>1, <2>2, <3>1, <3>2 DEF Deliver
  <2>3. CASE /\ run' = [run EXCEPT !.left = @ \ {c}] /\ UNCHANGED closes
             /\ UNCHANGED got \/ got' = [got EXCEPT ![c] = Append(@, run.event)]
    <3>1. run' \in [at : {"sending"}, event : Nat, left : SUBSET clients] /\ run'.at = "sending"
      BY <2>1, <2>3
    <3>2. got' \in [Clients -> Seq(Nat)] /\ \A d \in Clients \ {c} : got'[d] = got[d]
      <4>1. run.event \in Nat /\ got[c] \in Seq(Nat)
        BY <2>1
      <4>2. Append(got[c], run.event) \in Seq(Nat)
        BY <4>1
      <4>3. CASE UNCHANGED got
        BY <4>3
      <4>4. CASE got' = [got EXCEPT ![c] = Append(@, run.event)]
        BY <4>2, <4>4
      <4> QED
        BY <2>3, <4>3, <4>4
    <3> QED
      BY <1>11, <2>1, <2>3, <3>1, <3>2 DEF Deliver
  <2> QED
    BY <1>11, <2>2, <2>3 DEF Deliver
<1>12. CASE DeleteDropped
  BY <1>12 DEF DeleteDropped
<1>13. CASE EndEvent
  BY <1>13 DEF EndEvent
<1>14. CASE Publish
  BY <1>14 DEF Publish
<1>15. ASSUME NEW b \in Callers, BroadcastToInstance(b) PROVE MapInv'
  BY <1>15 DEF BroadcastToInstance
<1>16. ASSUME NEW b \in Callers, NEW c \in Clients, SendIncoming(b, c) PROVE MapInv'
  BY <1>16 DEF SendIncoming
<1>17. ASSUME NEW b \in Callers, NEW c \in Clients, MissDeleted(b, c) PROVE MapInv'
  BY <1>17 DEF MissDeleted
<1>18. ASSUME NEW b \in Callers, EndBroadcast(b) PROVE MapInv'
  BY <1>18 DEF EndBroadcast
<1>19. CASE UNCHANGED hubVars
  BY <1>19 DEF hubVars
<1> QED
  BY <1>1, <1>2, <1>3, <1>4, <1>5, <1>6, <1>7, <1>8, <1>9, <1>10, <1>11, <1>12, <1>13, <1>14, <1>15, <1>16, <1>17, <1>18, <1>19
     DEF HubNext, RunStep, Finish

-----------------------------------------------------------------------------
(* The steps that neither queue an event nor serve one. *)
Aside ==
    /\ UNCHANGED <<broadcast, published, got>>
    /\ clients' \cap {c \in Clients : got[c] # <<>>} \subseteq clients
    /\ (~ Serving /\ ~ Serving') \/ UNCHANGED run

LEMMA OtherSteps ==
    ASSUME MapInv, [HubNext]_hubVars
    PROVE  \/ Aside \/ TakeEvent \/ DeleteDropped \/ EndEvent \/ Publish
           \/ \E c \in Clients : Deliver(c)
<1> USE DEF Aside, Serving, Selecting, reading, pumps, loop
<1>1. ASSUME NEW c \in Clients,
             \/ Register(c) \/ Write(c) \/ WriteClose(c) \/ PingFails(c) \/ ReadFails(c)
             \/ ReadClosed(c) \/ Unregister(c, "reader") \/ Unregister(c, "writer")
      PROVE  Aside
  BY <1>1 DEF Register, Write, WriteClose, PingFails, ReadFails, ReadClosed, Unregister
<1>2. ASSUME NEW b \in Callers, BroadcastToInstance(b) \/ Finish(b) PROVE Aside
  BY <1>2 DEF BroadcastToInstance, Finish, EndBroadcast, SendIncoming, MissDeleted
<1>3. CASE AddClient
  <2>1. run.client \in Clients /\ got[run.client] = <<>>
    BY <1>3 DEF AddClient, MapInv, Typed, OwnLoop, NewIsBlank, New
  <2> QED
    BY <1>3, <2>1 DEF AddClient
<1>4. CASE RemoveClient
  BY <1>4 DEF RemoveClient
<1>5. CASE UNCHANGED hubVars
  BY <1>5 DEF hubVars
<1> QED
  BY <1>1, <1>2, <1>3, <1>4, <1>5 DEF HubNext, RunStep

(* The queue keeps its order, and Run takes its head. *)
LEMMA TurnStep ==
    ASSUME MapInv, InTurn, [HubNext]_hubVars
    PROVE  InTurn'
<1> USE DEF InTurn, Current, Serving, MapInv, Typed
<1>1. CASE Aside
  BY <1>1 DEF Aside
<1>2. CASE TakeEvent
  <2>1. /\ broadcast # <<>> /\ broadcast' = Tail(broadcast) /\ published' = published
        /\ run' = [at |-> "sending", event |-> Head(broadcast), left |-> clients]
    BY <1>2 DEF TakeEvent
  <2>2. /\ Len(broadcast) \in Nat \ {0} /\ Len(broadcast') = Len(broadcast) - 1
        /\ Head(broadcast) = broadcast[1]
        /\ \A k \in 1..Len(broadcast') : broadcast'[k] = broadcast[k + 1]
    BY <2>1
  <2> QED
    BY <2>1, <2>2
<1>3. CASE Publish
  <2>1. /\ broadcast' = Append(broadcast, published + 1) /\ published' = published + 1 /\ run' = run
    BY <1>3 DEF Publish
  <2>2. /\ Len(broadcast') = Len(broadcast) + 1
        /\ \A k \in 1..Len(broadcast) : broadcast'[k] = broadcast[k]
        /\ broadcast'[Len(broadcast) + 1] = published + 1
    BY <2>1
  <2> QED
    BY <2>1, <2>2
<1>4. ASSUME NEW c \in Clients, Deliver(c) PROVE InTurn'
  <2>1. run \in [at : {"sending"}, event : Nat, left : SUBSET clients]
    BY <1>4 DEF Deliver, OwnLoop, Selecting
  <2>2. run'.event = run.event /\ UNCHANGED <<broadcast, published>>
    BY <1>4, <2>1 DEF Deliver, Drop
  <2> QED
    BY <2>1, <2>2
<1>5. CASE DeleteDropped
  BY <1>5 DEF DeleteDropped
<1>6. CASE EndEvent
  BY <1>6 DEF EndEvent, Selecting
<1> QED
  BY <1>1, <1>2, <1>3, <1>4, <1>5, <1>6, OtherSteps

(* What c got stays ordered and complete when Run goes on without putting  *)
(* anything into its channel, and passes over only what c does not hear.   *)
LEMMA PassedOver ==
    ASSUME MapInv, NEW c \in Clients, got'[c] = got[c],
           Current \in Int, Current' \in Int, Reached(c) <= Reached(c)',
           got[c] # <<>> /\ c \in clients' =>
               c \in clients /\ \A e \in Hears[c] : Reached(c) < e => Reached(c)' < e,
           Ordered(c), Complete(c, got[c][Len(got[c])]), c \in clients => Complete(c, Reached(c))
    PROVE  /\ Ordered(c)' /\ Complete(c, got[c][Len(got[c])])'
           /\ c \in clients' => Complete(c, Reached(c))'
<1>1. Reached(c) \in Int /\ Reached(c)' \in Int
  BY DEF Reached
<1>2. Hears[c] \in SUBSET Nat /\ got[c] \in Seq(Nat)
  BY HubAssumption DEF MapInv, Typed
<1>3. Ordered(c)'
  BY <1>1, <1>2 DEF Ordered
<1>4. Complete(c, got[c][Len(got[c])])'
  BY DEF Complete
<1>5. ASSUME c \in clients' PROVE Complete(c, Reached(c))'
  BY <1>1, <1>2, <1>5 DEF Complete
<1> QED
  BY <1>3, <1>4, <1>5

LEMMA NothingMissedStep ==
    ASSUME MapInv, MapInv', InTurn, InTurn', NothingMissed, [HubNext]_hubVars
    PROVE  NothingMissed'
<1> SUFFICES ASSUME NEW c \in Clients
             PROVE  /\ Ordered(c)' /\ Complete(c, got[c][Len(got[c])])'
                    /\ c \in clients' => Complete(c, Reached(c))'
  BY DEF NothingMissed
<1>t. Current \in Nat /\ Current' \in Nat /\ Hears[c] \in SUBSET Nat /\ got[c] \in Seq(Nat)
  BY HubAssumption DEF MapInv, Typed, InTurn, Current
<1>i. Ordered(c) /\ Complete(c, got[c][Len(got[c])]) /\ (c \in clients => Complete(c, Reached(c)))
  BY DEF NothingMissed
<1>1. CASE Aside
  <2>1. Reached(c)' = Reached(c) /\ got'[c] = got[c] /\ (got[c] # <<>> /\ c \in clients' => c \in clients)
    BY <1>1 DEF Aside, Reached, Current, Serving
  <2>2. Reached(c) \in Int
    BY <1>t DEF Reached
  <2> QED
    BY <1>t, <1>i, <2>1, <2>2, PassedOver
<1>2. CASE TakeEvent
  <2>1. Current' = Current + 1 /\ ~ Serving /\ Serving' /\ run'.left = clients
        /\ UNCHANGED <<clients, got>>
    BY <1>2 DEF TakeEvent, Current, Serving, Selecting, MapInv, Typed, InTurn
  <2>2. Reached(c) = Current /\ Reached(c)' = IF c \in clients THEN Current ELSE Current + 1
    BY <1>t, <2>1 DEF Reached
  <2> QED
    BY <1>t, <1>i, <2>1, <2>2, PassedOver
<1>3. CASE Publish
  <2>1. Current' = Current /\ UNCHANGED <<run, clients, got>>
    BY <1>3 DEF Publish, Current, MapInv, Typed, InTurn
  <2>2. Reached(c)' = Reached(c) /\ Reached(c) \in Int
    BY <1>t, <2>1 DEF Reached, Serving
  <2> QED
    BY <1>t, <1>i, <2>1, <2>2, PassedOver
<1>4. ASSUME NEW d \in Clients, Deliver(d)
      PROVE  /\ Ordered(c)' /\ Complete(c, got[c][Len(got[c])])'
             /\ c \in clients' => Complete(c, Reached(c))'
  <2>1. /\ run \in [at : {"sending"}, event : Nat, left : SUBSET clients]
        /\ d \in run.left /\ UNCHANGED <<clients, broadcast, published>>
    <3>1. run.at = "sending" /\ d \in run.left /\ UNCHANGED <<clients, broadcast, published>>
      BY <1>4 DEF Deliver
    <3>2. OwnLoop
      BY DEF MapInv, Typed
    <3>3. ~ (run = Selecting)
      BY <3>1 DEF Selecting
    <3>4. ~ (run \in [at : {"adding", "removing"}, client : Clients])
      BY <3>1
    <3>5. ~ (run \in [at : {"dropping"}, client : clients, event : Nat, left : SUBSET clients])
      BY <3>1
    <3> QED
      BY <3>1, <3>2, <3>3, <3>4, <3>5 DEF OwnLoop
  <2>2. run.event = Current /\ Serving /\ Current' = Current
    BY <2>1 DEF InTurn, Serving, Current
  <2>3. CASE Drop(d) /\ UNCHANGED got
    <3>1. Serving' /\ run'.left = run.left
      BY <2>3 DEF Drop, Serving
    <3>2. Reached(c)' = Reached(c) /\ Reached(c) \in Int
      BY <1>t, <2>2, <3>1 DEF Reached
    <3> QED
      BY <1>t, <1>i, <2>1, <2>3, <3>2, PassedOver
  <2>4. CASE run' = [run EXCEPT !.left = @ \ {d}]
    <3>1. Serving' /\ run'.left = run.left \ {d}
      BY <2>1, <2>4 DEF Serving
    <3>2. CASE c # d
      <4>1. Reached(c)' = Reached(c) /\ Reached(c) \in Int /\ got'[c] = got[c]
        BY <1>4, <1>t, <2>1, <2>2, <3>1, <3>2 DEF Reached, Deliver, Put, MapInv, Typed
      <4> QED
        BY <1>t, <1>i, <2>1, <4>1, PassedOver
    <3>3. CASE c = d
      <4>1. Reached(c) = Current - 1 /\ Reached(c)' = Current /\ c \in clients
        BY <2>1, <2>2, <3>1, <3>3 DEF Reached
      <4>2. CASE Current \notin Hears[c] /\ UNCHANGED got
        BY <1>t, <1>i, <2>1, <2>2, <4>1, <4>2, PassedOver
      <4>3. CASE Current \in Hears[c] /\ got' = [got EXCEPT ![c] = Append(@, Current)]
        <5> DEFINE g == got[c]
                   h == got'[c]
                   n == Len(g)
        <5>1. /\ n \in Nat /\ h \in Seq(Nat) /\ Len(h) = n + 1 /\ h[n + 1] = Current
              /\ \A i \in 1..n : h[i] = g[i]
          BY <1>t, <4>3 DEF MapInv, Typed
        <5>2. \A i \in 1..n : g[i] \in Hears[c] /\ g[i] <= Current - 1 /\ g[i] \in Nat
          BY <1>t, <1>i, <4>1 DEF Ordered
        <5>3. \A i, j \in 1..n : i < j => g[i] < g[j]
          BY <1>i DEF Ordered
        <5>4. Ordered(c)'
          <6>1. \A i, j \in 1..(n + 1) : i < j => h[i] < h[j]
            <7> SUFFICES ASSUME NEW i \in 1..(n + 1), NEW j \in 1..(n + 1), i < j
                         PROVE  h[i] < h[j]
              OBVIOUS
            <7>1. i \in 1..n
              BY <5>1
            <7>2. CASE j \in 1..n
              BY <5>1, <5>3, <7>1, <7>2
            <7>3. CASE j = n + 1
              <8>1. h[i] = g[i] /\ g[i] <= Current - 1 /\ g[i] \in Nat /\ h[j] = Current
                BY <5>1, <5>2, <7>1, <7>3
              <8> QED
                BY <1>t, <8>1
            <7> QED
              BY <5>1, <7>2, <7>3
          <6>2. \A i \in 1..(n + 1) : h[i] \in Hears[c] /\ h[i] <= Current
            <7> SUFFICES ASSUME NEW i \in 1..(n + 1) PROVE h[i] \in Hears[c] /\ h[i] <= Current
              OBVIOUS
            <7>1. CASE i \in 1..n
              <8>1. h[i] = g[i] /\ g[i] <= Current - 1 /\ g[i] \in Nat /\ g[i] \in Hears[c]
                BY <5>1, <5>2, <7>1
              <8> QED
                BY <1>t, <8>1
            <7>2. CASE i = n + 1
              BY <1>t, <4>3, <5>1, <7>2
            <7> QED
              BY <5>1, <7>1, <7>2
          <6> QED
            BY <4>1, <5>1, <6>1, <6>2 DEF Ordered
        <5>5. Complete(c, Current)'
          <6> SUFFICES ASSUME NEW e \in Hears[c], h[1] <= e, e <= Current
                       PROVE  \E i \in 1..(n + 1) : h[i] = e
            BY <2>2, <5>1 DEF Complete
          <6>1. CASE e = Current
            BY <5>1, <6>1
          <6>2. CASE n # 0 /\ e # Current
            <7>1. g # <<>> /\ h[1] = g[1] /\ e <= Current - 1
              BY <1>t, <5>1, <6>2
            <7>2. \E i \in 1..n : g[i] = e
              BY <1>i, <4>1, <7>1 DEF Complete
            <7>3. PICK i \in 1..n : g[i] = e
              BY <7>2
            <7>4. i \in 1..(n + 1) /\ h[i] = e
              BY <5>1, <7>3
            <7> QED
              BY <7>4
          <6>3. CASE n = 0 /\ e # Current
            BY <1>t, <5>1, <6>3
          <6> QED
            BY <6>1, <6>2, <6>3
        <5>6. got'[c][Len(got'[c])] = Current
          BY <5>1
        <5> QED
          BY <2>2, <4>1, <5>4, <5>5, <5>6 DEF Complete
      <4> QED
        BY <1>4, <2>2, <2>4, <3>3, <4>2, <4>3 DEF Deliver, Drop
    <3> QED
      BY <3>2, <3>3
  <2> QED
    BY <1>4, <2>3, <2>4 DEF Deliver
<1>5. CASE DeleteDropped
  <2>1. /\ run \in [at : {"dropping"}, client : clients, event : Nat, left : SUBSET clients]
        /\ run.client \in run.left /\ clients' = clients \ {run.client} /\ Serving /\ Serving'
        /\ run'.left = run.left \ {run.client} /\ UNCHANGED <<got, broadcast, published>>
    BY <1>5 DEF DeleteDropped, Serving, MapInv, Typed, OwnLoop, Selecting
  <2>2. Current' = Current
    BY <2>1 DEF Current
  <2>3. /\ Reached(c) \in Int /\ Reached(c)' \in Int /\ Reached(c) <= Reached(c)'
        /\ c # run.client => Reached(c)' = Reached(c)
    BY <1>t, <2>1, <2>2 DEF Reached
  <2> QED
    BY <1>t, <1>i, <2>1, <2>3, PassedOver
<1>6. CASE EndEvent
  <2>1. Serving /\ run.left = {} /\ ~ Serving' /\ UNCHANGED <<clients, got, broadcast, published>>
    BY <1>6 DEF EndEvent, Serving, Selecting
  <2>2. Reached(c)' = Reached(c) /\ Reached(c) \in Int
    BY <1>t, <2>1 DEF Reached, Current
  <2> QED
    BY <1>t, <1>i, <2>1, <2>2, PassedOver
<1> QED
  BY <1>1, <1>2, <1>3, <1>4, <1>5, <1>6, OtherSteps

-----------------------------------------------------------------------------
LEMMA InvariantHolds == HubSpec => []IInv
<1>1. HubInit => IInv
  <2>1. HubInit => InTurn
    BY DEF HubInit, InTurn, Current, Serving, Selecting
  <2>2. HubInit => NothingMissed
    BY DEF HubInit, NothingMissed, Ordered, Complete
  <2> QED
    BY <2>1, <2>2, MapInit DEF IInv
<1>2. IInv /\ [HubNext]_hubVars => IInv'
  BY MapStep, TurnStep, NothingMissedStep DEF IInv
<1> QED
  BY <1>1, <1>2, PTL DEF HubSpec

(* Run, pumps and callers: a client in the map has an open channel, but    *)
(* for the step in which Run drops it, and no channel is closed twice.     *)
THEOREM MapAlwaysHoldsOpen == HubSpec => []MapHoldsOpen
<1>1. IInv => MapHoldsOpen
  BY DEF IInv, MapInv
<1> QED
  BY <1>1, InvariantHolds, PTL

(* Broadcast: the events in a client's channel are those it may hear, in   *)
(* order and without a gap, whatever else becomes of the client.           *)
THEOREM NeverAGap == HubSpec => []NoGap
<1>1. IInv => NoGap
  <2> SUFFICES ASSUME IInv, NEW c \in Clients
               PROVE  /\ \A i, j \in DOMAIN got[c] : i < j => got[c][i] < got[c][j]
                      /\ got[c] # <<>> => \A e \in Head(got[c])..Last(got[c]) :
                                              e \in Hears[c] <=> e \in Range(got[c])
    BY DEF NoGap
  <2> DEFINE g == got[c]
  <2>1. g \in Seq(Nat) /\ DOMAIN g = 1..Len(g) /\ Hears[c] \in SUBSET Nat
    BY HubAssumption DEF IInv, MapInv, Typed
  <2>2. Ordered(c) /\ Complete(c, g[Len(g)])
    BY DEF IInv, NothingMissed
  <2>3. \A i \in 1..Len(g) : g[i] \in Hears[c]
    BY <2>2 DEF Ordered
  <2>4. ASSUME g # <<>>, NEW e \in Head(g)..Last(g), e \in Hears[c] PROVE e \in Range(g)
    <3>1. Head(g) = g[1] /\ Last(g) = g[Len(g)]
      BY <2>1, <2>4 DEF Last
    <3>2. PICK i \in 1..Len(g) : g[i] = e
      BY <2>1, <2>2, <2>4, <3>1 DEF Complete
    <3> QED
      BY <2>1, <3>2 DEF Range
  <2> QED
    BY <2>1, <2>2, <2>3, <2>4 DEF Ordered, Range
<1> QED
  BY <1>1, InvariantHolds, PTL
=============================================================================
