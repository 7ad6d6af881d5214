------------------------ MODULE WorkerManagerProofs -------------------------
(***************************************************************************)
(* One cycle per config and no lost goroutine, for every number of         *)
(* configs, goroutines and edits, and however shutdown and reload          *)
(* interleave.  Inductive is the ownership of the map: it names every      *)
(* goroutine that may still begin a cycle and every one that is in the     *)
(* middle of one; a goroutine leaves the map only cancelled and waited     *)
(* for.                                                                    *)
(***************************************************************************)
EXTENDS WorkerManager, TLAPS

(* The part of the types the argument needs. *)
PoolTypes ==
    /\ workers \in [Configs -> Goroutines \cup {None}]
    /\ gstate \in [Goroutines -> Living \cup {"free"}]
    /\ gconf = [g \in Goroutines |-> gconf[g]]
    /\ cancelled \subseteq Goroutines \cup {None}
    /\ awaited \in Configs \cup {None}

Owned(g) == gconf[g].id \in Configs /\ workers[gconf[g].id] = g

MapOwns ==
    \A g \in Goroutines :
       \/ gstate[g] \in Living /\ MayRun(g)
       \/ gstate[g] = "cycling"
       => Owned(g)

AwaitedIsCancelled == awaited \in Configs => workers[awaited] \in cancelled

IInv == PoolTypes /\ MapOwns /\ AwaitedIsCancelled

LEMMA NoneApart == None \notin Goroutines
BY ManagerAssumption

LEMMA InvariantInit == ManagerInit => IInv
BY ManagerAssumption DEF ManagerInit, IInv, PoolTypes, MapOwns, AwaitedIsCancelled, Living

(* Steps that leave the pool and the awaited config alone. *)
LEMMA Frame ==
    ASSUME IInv, UNCHANGED <<workers, gstate, gconf, cancelled, awaited>>
    PROVE  IInv'
BY DEF IInv, PoolTypes, MapOwns, AwaitedIsCancelled, Owned, MayRun

(* A new goroutine takes the place of one that is neither cycling nor able *)
(* to begin a cycle, or of none.                                           *)
LEMMA SpawnKeeps ==
    ASSUME IInv, NEW c \in Configs, NEW g \in Goroutines, Spawn(c, g),
           workers[c] = None \/ (workers[c] \in cancelled /\ gstate[workers[c]] # "cycling")
    PROVE  MapOwns' /\ workers' \in [Configs -> Goroutines \cup {None}]
           /\ gstate' \in [Goroutines -> Living \cup {"free"}]
           /\ gconf' = [h \in Goroutines |-> gconf'[h]]
           /\ cancelled' \subseteq Goroutines \cup {None}
<1> USE DEF IInv, PoolTypes
<1>1. /\ workers' \in [Configs -> Goroutines \cup {None}]
      /\ gstate' \in [Goroutines -> Living \cup {"free"}]
      /\ gconf' = [h \in Goroutines |-> gconf'[h]]
      /\ cancelled' \subseteq Goroutines \cup {None}
  BY DEF Spawn, Living
<1>2. ASSUME NEW h \in Goroutines,
             (gstate'[h] \in Living /\ MayRun(h)') \/ gstate'[h] = "cycling"
      PROVE  Owned(h)'
  <2>1. CASE h = g
    BY <2>1 DEF Spawn, Owned
  <2>2. CASE h # g
    <3>1. /\ gstate'[h] = gstate[h] /\ gconf'[h] = gconf[h]
          /\ h \in cancelled' <=> h \in cancelled
      BY <2>2 DEF Spawn
    <3>2. Owned(h)
      BY <1>2, <3>1 DEF MapOwns, MayRun
    <3>3. gconf[h].id # c
      BY <1>2, <3>1, <3>2, NoneApart DEF Owned, MayRun
    <3>4. QED BY <3>1, <3>2, <3>3 DEF Spawn, Owned
  <2>3. QED BY <2>1, <2>2
<1>3. QED BY <1>1, <1>2 DEF MapOwns

LEMMA InvariantStep ==
    ASSUME IInv, [ManagerNext]_managerVars
    PROVE  IInv'
<1> USE ManagerAssumption DEF api, pool, mgr, stop
<1>1. CASE Api \/ FetchWorkerConfigs \/ Signal \/ LockReload \/ EndReload \/ LockStop \/ EndStop \/ ManagerExit
           \/ UNCHANGED managerVars \/ \E c \in Configs : LeaveAlone(c) \/ WaitedNext(c)
  BY <1>1, Frame DEF Api, CreateWorkerConfig, BeginUpdate, FinishUpdate, ToggleWorkerConfig,
        DeleteWorkerConfig, FetchWorkerConfigs, Signal, LockReload, EndReload, LockStop, EndStop,
        ManagerExit, LeaveAlone, WaitedNext, managerVars
<1>2. ASSUME NEW c \in Configs, NEW g \in Goroutines, StartNew(c, g) PROVE IInv'
  <2>1. Spawn(c, g) /\ workers[c] = None /\ awaited' = awaited /\ awaited = None
    BY <1>2 DEF StartNew, TakesTurn
  <2>2. QED BY <2>1, SpawnKeeps DEF IInv, PoolTypes, AwaitedIsCancelled
<1>3. ASSUME NEW c \in Configs, CancelWorker(c) PROVE IInv'
  <2>1. /\ cancelled' = cancelled \cup {workers[c]} /\ awaited' = c
        /\ UNCHANGED <<workers, gstate, gconf>> /\ workers[c] # None
    BY <1>3 DEF CancelWorker
  <2>2. QED BY <2>1 DEF IInv, PoolTypes, MapOwns, AwaitedIsCancelled, Owned, MayRun
<1>4. ASSUME NEW c \in Configs, NEW g \in Goroutines, RestartWorker(c, g) PROVE IInv'
  <2>1. /\ Spawn(c, g) /\ awaited = c /\ awaited' = None
        /\ gstate[workers[c]] # "cycling"
    BY <1>4 DEF RestartWorker, Awaited, Waited, Counted
  <2>2. workers[c] \in cancelled
    BY <2>1 DEF IInv, AwaitedIsCancelled
  <2>3. QED BY <2>1, <2>2, SpawnKeeps DEF IInv, PoolTypes, AwaitedIsCancelled
<1>5. ASSUME NEW c \in Configs, Drop(c) PROVE IInv'
  <2>1. /\ workers' = [workers EXCEPT ![c] = None] /\ awaited = c /\ awaited' = None
        /\ UNCHANGED <<gstate, gconf, cancelled>> /\ gstate[workers[c]] # "cycling"
    BY <1>5 DEF Drop, Awaited, Waited, Counted
  <2>2. workers[c] \in cancelled
    BY <2>1 DEF IInv, AwaitedIsCancelled
  <2>3. MapOwns'
    <3> SUFFICES ASSUME NEW h \in Goroutines,
                        (gstate[h] \in Living /\ h \notin cancelled) \/ gstate[h] = "cycling"
                 PROVE  gconf[h].id \in Configs /\ workers'[gconf[h].id] = h
      BY <2>1 DEF MapOwns, Owned, MayRun
    <3>1. Owned(h)
      BY DEF IInv, MapOwns, MayRun
    <3>2. gconf[h].id # c
      BY <2>1, <2>2, <3>1 DEF Owned
    <3>3. QED BY <2>1, <3>1, <3>2 DEF IInv, PoolTypes, Owned
  <2>4. QED BY <2>1, <2>3 DEF IInv, PoolTypes, AwaitedIsCancelled
<1>6. ASSUME NEW g \in Goroutines, Begin(g) \/ EndCycle(g) \/ Return(g) \/ RunCycle(g) PROVE IInv'
  <2>1. /\ UNCHANGED <<workers, gconf, cancelled, awaited>>
        /\ \/ gstate' = [gstate EXCEPT ![g] = "running"] /\ gstate[g] \in Living
           \/ gstate' = [gstate EXCEPT ![g] = "free"]
           \/ gstate' = [gstate EXCEPT ![g] = "cycling"] /\ gstate[g] \in Living /\ MayRun(g)
    BY <1>6 DEF Begin, EndCycle, Return, RunCycle, Living
  <2>2. QED BY <2>1 DEF IInv, PoolTypes, MapOwns, AwaitedIsCancelled, Owned, MayRun, Living
<1>7. ASSUME NEW c \in Configs, CancelNext(c) PROVE IInv'
  <2>1. /\ cancelled' = cancelled \cup {workers[c]}
        /\ UNCHANGED <<workers, gstate, gconf, awaited>>
    BY <1>7 DEF CancelNext
  <2>2. workers[c] \in Goroutines \cup {None}
    BY DEF IInv, PoolTypes
  <2>3. QED BY <2>1, <2>2 DEF IInv, PoolTypes, MapOwns, AwaitedIsCancelled, Owned, MayRun
<1>8. QED
  BY <1>1, <1>2, <1>3, <1>4, <1>5, <1>6, <1>7 DEF ManagerNext, Manage, Shutdown, RunWorker

(* A restart waits for the old cycle, so a changed config never has two    *)
(* goroutines at work: wg.Wait in WorkerInstance.Stop, under m.mu.         *)
THEOREM OneCycleHolds == ManagerSpec => []OneCyclePerConfig
<1>1. IInv => OneCyclePerConfig
  BY DEF IInv, MapOwns, Owned, OneCyclePerConfig
<1>2. IInv /\ [ManagerNext]_managerVars => IInv'
  BY InvariantStep
<1>3. QED BY <1>1, <1>2, InvariantInit, PTL DEF ManagerSpec

(* Every goroutine that may still run is where reloads and Stop look.      *)
THEOREM NoneIsLostHolds == ManagerSpec => []NoneIsLost
<1>1. IInv => NoneIsLost
  BY DEF IInv, MapOwns, Owned, NoneIsLost
<1>2. IInv /\ [ManagerNext]_managerVars => IInv'
  BY InvariantStep
<1>3. QED BY <1>1, <1>2, InvariantInit, PTL DEF ManagerSpec

(* What the types rest on: the lock is with the reload while it works and  *)
(* with Stop while it stops, so that neither finds a worker changed under  *)
(* it; the worker that is waited for is one that there is.                 *)
LockedOut ==
    /\ awaited # None => reload = "working" /\ workers[awaited] # None
    /\ reload = "working" => main # "stopping"
    /\ main = "stopping" => \A c \in toStop : workers[c] # None

TInv == ManagerTypeOK /\ LockedOut

LEMMA TypesInit == ManagerInit => TInv
BY ManagerAssumption DEF ManagerInit, TInv, ManagerTypeOK, LockedOut, Living

(* The API touches the table and its requests alone. *)
LEMMA ApiTypes ==
    ASSUME TInv, Api
    PROVE  TInv'
<1> USE ManagerAssumption DEF TInv, ManagerTypeOK, LockedOut, Rows, Updates, pool, mgr, stop, Edit
<1>1. ASSUME NEW c \in Configs, NEW k \in Cores, NEW on \in BOOLEAN, CreateWorkerConfig(c, k, on)
      PROVE  TInv'
  BY <1>1 DEF CreateWorkerConfig
<1>2. ASSUME NEW q \in Requests, NEW c \in Configs, NEW k \in Cores, NEW on \in BOOLEAN \cup {Keep},
             BeginUpdate(q, c, k, on)
      PROVE  TInv'
  <2>1. (IF on = Keep THEN rows[c].enabled ELSE on) \in BOOLEAN
    BY <1>2 DEF BeginUpdate
  <2>2. pending' \in [Requests -> Updates \cup {NoRow}]
    BY <1>2, <2>1 DEF BeginUpdate
  <2>3. QED BY <1>2, <2>2 DEF BeginUpdate
<1>3. ASSUME NEW q \in Requests, FinishUpdate(q) PROVE TInv'
  <2>1. NoRow \notin Updates => pending[q] \in Updates
    BY <1>3 DEF FinishUpdate
  <2>2. QED BY <1>3, <2>1 DEF FinishUpdate
<1>4. ASSUME NEW c \in Configs, ToggleWorkerConfig(c) \/ DeleteWorkerConfig(c) PROVE TInv'
  <2>1. rows[c] \in Rows
    BY <1>4 DEF ToggleWorkerConfig, DeleteWorkerConfig
  <2>2. [rows[c] EXCEPT !.enabled = ~ @] \in Rows
    BY <2>1
  <2>3. rows' \in [Configs -> Rows \cup {NoRow}]
    BY <1>4, <2>2 DEF ToggleWorkerConfig, DeleteWorkerConfig
  <2>4. QED BY <1>4, <2>3 DEF ToggleWorkerConfig, DeleteWorkerConfig
<1>5. QED BY <1>1, <1>2, <1>3, <1>4 DEF Api

(* A reload, from its fetch to its unlock. *)
LEMMA ReloadTypes ==
    ASSUME TInv, FetchWorkerConfigs \/ Manage
    PROVE  TInv'
<1> USE ManagerAssumption DEF TInv, ManagerTypeOK, LockedOut, Living, api, pool, mgr, stop
<1>1. CASE FetchWorkerConfigs
  BY <1>1 DEF FetchWorkerConfigs, Enabled, Rows
<1>2. CASE LockReload \/ EndReload
  BY <1>2 DEF LockReload, EndReload
<1>3. ASSUME NEW c \in Configs, LeaveAlone(c) \/ Drop(c) PROVE TInv'
  BY <1>3 DEF LeaveAlone, TakesTurn, Drop, Awaited
<1>4. ASSUME NEW c \in Configs, CancelWorker(c) PROVE TInv'
  BY <1>4 DEF CancelWorker, TakesTurn
<1>5. ASSUME NEW c \in Configs, NEW g \in Goroutines, StartNew(c, g) \/ RestartWorker(c, g) PROVE TInv'
  <2>1. [id |-> c, core |-> fetched[c].core] \in [id : Configs, core : Cores]
    BY <1>5 DEF StartNew, RestartWorker, Rows
  <2>2. /\ gconf' \in [Goroutines -> [id : Configs, core : Cores] \cup {None}]
        /\ workers' \in [Configs -> Goroutines \cup {None}]
        /\ gstate' \in [Goroutines -> Living \cup {"free"}]
        /\ cancelled' \subseteq Goroutines
    BY <1>5, <2>1 DEF StartNew, RestartWorker, Spawn
  <2>3. QED BY <1>5, <2>2 DEF StartNew, RestartWorker, TakesTurn, Awaited
<1>6. QED BY <1>1, <1>2, <1>3, <1>4, <1>5 DEF Manage

(* The workers and the shutdown. *)
LEMMA OtherTypes ==
    ASSUME TInv, Signal \/ Shutdown \/ UNCHANGED managerVars \/ \E g \in Goroutines : RunWorker(g) \/ RunCycle(g)
    PROVE  TInv'
<1> USE ManagerAssumption DEF TInv, ManagerTypeOK, LockedOut, Living, api, pool, mgr, stop
<1>1. CASE Signal \/ LockStop \/ EndStop \/ ManagerExit
  BY <1>1 DEF Signal, LockStop, EndStop, ManagerExit
<1>2. ASSUME NEW c \in Configs, CancelNext(c) \/ WaitedNext(c) PROVE TInv'
  BY <1>2 DEF CancelNext, WaitedNext
<1>3. ASSUME NEW g \in Goroutines, RunWorker(g) \/ RunCycle(g) PROVE TInv'
  BY <1>3 DEF RunWorker, Begin, EndCycle, Return, RunCycle
<1>4. CASE UNCHANGED managerVars
  BY <1>4 DEF managerVars
<1>5. QED BY <1>1, <1>2, <1>3, <1>4 DEF Shutdown

(* The types of the manager and of its goroutines, and that the lock is    *)
(* with whoever works under it.                                            *)
THEOREM TypesHold == ManagerSpec => []ManagerTypeOK
<1>1. TInv /\ [ManagerNext]_managerVars => TInv'
  BY ApiTypes, ReloadTypes, OtherTypes DEF ManagerNext
<1>2. TInv => ManagerTypeOK
  BY DEF TInv
<1>3. QED BY <1>1, <1>2, TypesInit, PTL DEF ManagerSpec
=============================================================================
