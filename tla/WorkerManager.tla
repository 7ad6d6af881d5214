--------------------------- MODULE WorkerManager ----------------------------
(***************************************************************************)
(* How the outbox worker process follows its configuration: the API's      *)
(* handlers on outbox_worker_config (internal/handler/worker_config.go)    *)
(* and WorkerManager with its worker goroutines (cmd/worker/manager.go,    *)
(* the loop of worker.go).  What a worker does in a cycle is the subject   *)
(* of OutboxWorker; here it is one step that takes its time.               *)
(***************************************************************************)
EXTENDS Naturals, FiniteSets

CONSTANTS
    Configs,    \* ids of outbox_worker_config
    Cores,      \* values of the fields reloadConfigs compares; changes of the
                \* others (allow_media, webhook, name) reach no running worker
    Goroutines, \* bound: worker goroutines that exist at a time
    Requests,   \* update requests to the API
    Keep,       \* an update that does not name `enabled`
    NoRow, None,
    MaxEdits    \* bound: changes of the table

ASSUME ManagerAssumption ==
    /\ NoRow \notin [core : Cores, enabled : BOOLEAN]
    /\ None \notin Goroutines \cup Configs /\ Keep \notin BOOLEAN
    /\ MaxEdits \in Nat

VARIABLES
    rows,      \* rows[c]: the row of c in the table, or NoRow
    used,      \* ids the table has given out
    edits,
    pending,   \* pending[q]: the update q has read the row for
    workers,   \* m.workers: the goroutine of each config, or None
    gstate,    \* gstate[g]: what goroutine g is doing
    gconf,     \* gconf[g]: the config g was made from, by value
    cancelled, \* goroutines whose context is cancelled
    reload,    \* the manager's goroutine in reloadConfigs
    fetched,   \* the enabled rows it has fetched
    todo,      \* the configs it has not come to yet
    awaited,   \* the config whose worker it waits for, or None
    main,      \* the main goroutine, which may be in Stop
    toStop,    \* the configs Stop has not come to yet
    mu         \* who holds m.mu

api  == <<rows, used, edits, pending>>
pool == <<workers, gstate, gconf, cancelled>>
mgr  == <<reload, fetched, todo, awaited>>
stop == <<main, toStop>>
managerVars == <<api, pool, mgr, stop, mu>>

Rows    == [core : Cores, enabled : BOOLEAN]
Updates == [config : Configs, core : Cores, enabled : BOOLEAN]
Living  == {"spawned", "running", "cycling"}
Counted == {"running", "cycling"}     \* after wg.Add(1), before wg.Done()

ManagerTypeOK ==
    /\ rows \in [Configs -> Rows \cup {NoRow}]
    /\ used \subseteq Configs
    /\ edits \in 0..MaxEdits
    /\ pending \in [Requests -> Updates \cup {NoRow}]
    /\ workers \in [Configs -> Goroutines \cup {None}]
    /\ gstate \in [Goroutines -> Living \cup {"free"}]
    /\ gconf \in [Goroutines -> [id : Configs, core : Cores] \cup {None}]
    /\ cancelled \subseteq Goroutines
    /\ reload \in {"idle", "fetched", "working"}
    /\ fetched \in [Configs -> Rows \cup {NoRow}]
    /\ todo \subseteq Configs /\ awaited \in todo \cup {None}
    /\ main \in {"starting", "serving", "cancelling", "stopping", "stopped", "exited"}
    /\ toStop \subseteq Configs
    /\ mu \in {"free", "reload", "stop"}
    /\ mu = "reload" <=> reload = "working" /\ main # "exited"
    /\ mu = "stop" <=> main = "stopping"

ManagerInit ==
    /\ rows = [c \in Configs |-> NoRow]
    /\ used = {} /\ edits = 0
    /\ pending = [q \in Requests |-> NoRow]
    /\ workers = [c \in Configs |-> None]
    /\ gstate = [g \in Goroutines |-> "free"]
    /\ gconf = [g \in Goroutines |-> None]
    /\ cancelled = {}
    /\ reload = "idle"
    /\ fetched = [c \in Configs |-> NoRow]
    /\ todo = {} /\ awaited = None
    /\ main = "starting"
    /\ toStop = {}
    /\ mu = "free"

-----------------------------------------------------------------------------
(* The API. *)
Edit == edits < MaxEdits /\ edits' = edits + 1

CreateWorkerConfig(c, core, on) ==
    /\ Edit /\ c \notin used
    /\ used' = used \cup {c}
    /\ rows' = [rows EXCEPT ![c] = [core |-> core, enabled |-> on]]
    /\ UNCHANGED <<pending, pool, mgr, stop, mu>>

(* An update reads the row first: what it does not name stays as read. *)
BeginUpdate(q, c, core, on) ==
    /\ pending[q] = NoRow /\ rows[c] # NoRow
    /\ edits < MaxEdits
    /\ pending' = [pending EXCEPT ![q] =
           [config |-> c, core |-> core,
            enabled |-> IF on = Keep THEN rows[c].enabled ELSE on]]
    /\ UNCHANGED <<rows, used, edits, pool, mgr, stop, mu>>

FinishUpdate(q) ==
    LET u == pending[q] IN
    /\ Edit /\ u # NoRow
    /\ rows' = IF rows[u.config] = NoRow THEN rows
               ELSE [rows EXCEPT ![u.config] =
                        [core |-> u.core, enabled |-> u.enabled]]
    /\ pending' = [pending EXCEPT ![q] = NoRow]
    /\ UNCHANGED <<used, pool, mgr, stop, mu>>

ToggleWorkerConfig(c) ==
    /\ Edit /\ rows[c] # NoRow
    /\ rows' = [rows EXCEPT ![c].enabled = ~ @]
    /\ UNCHANGED <<used, pending, pool, mgr, stop, mu>>

DeleteWorkerConfig(c) ==
    /\ Edit /\ rows[c] # NoRow
    /\ rows' = [rows EXCEPT ![c] = NoRow]
    /\ UNCHANGED <<used, pending, pool, mgr, stop, mu>>

-----------------------------------------------------------------------------
(* reloadConfigs, on the ticker and once before main waits for a signal.   *)
(* With the manager's context cancelled the query fails.                   *)
Enabled(r) == r # NoRow /\ r.enabled

FetchWorkerConfigs ==
    /\ reload = "idle" /\ main \in {"starting", "serving"}
    /\ fetched' = [c \in Configs |-> IF Enabled(rows[c]) THEN rows[c] ELSE NoRow]
    /\ reload' = "fetched"
    /\ UNCHANGED <<api, pool, todo, awaited, stop, mu>>

LockReload ==
    /\ reload = "fetched" /\ mu = "free" /\ main # "exited"
    /\ mu' = "reload" /\ reload' = "working"
    /\ todo' = Configs
    /\ UNCHANGED <<api, pool, fetched, awaited, stop>>

(* First the configs that were fetched, then those that are gone. *)
TakesTurn(c) ==
    /\ reload = "working" /\ main # "exited"
    /\ c \in todo /\ awaited = None
    /\ fetched[c] = NoRow => \A d \in todo : fetched[d] = NoRow

\* Faulty variant: a running worker is never found to differ.
FaultyDiffers(g, row) == FALSE

Differs(g, row) == gconf[g].core # row.core

(* The goroutine is made from the config and begins when it is scheduled.  *)
Spawn(c, g) ==
    /\ gstate[g] = "free" /\ \A d \in Configs \ {c} : workers[d] # g
    /\ gstate' = [gstate EXCEPT ![g] = "spawned"]
    /\ gconf' = [gconf EXCEPT ![g] = [id |-> c, core |-> fetched[c].core]]
    /\ cancelled' = cancelled \ {g}
    /\ workers' = [workers EXCEPT ![c] = g]

LeaveAlone(c) ==
    /\ TakesTurn(c)
    /\ IF fetched[c] = NoRow THEN workers[c] = None
       ELSE workers[c] # None /\ ~ Differs(workers[c], fetched[c])
    /\ todo' = todo \ {c}
    /\ UNCHANGED <<api, pool, reload, fetched, awaited, stop, mu>>

StartNew(c, g) ==
    /\ TakesTurn(c) /\ fetched[c] # NoRow /\ workers[c] = None
    /\ Spawn(c, g)
    /\ todo' = todo \ {c}
    /\ UNCHANGED <<api, reload, fetched, awaited, stop, mu>>

(* Stop of a worker whose config has changed or is gone: cancel its        *)
(* context, then wait for it with the lock held.                           *)
CancelWorker(c) ==
    /\ TakesTurn(c) /\ workers[c] # None
    /\ fetched[c] # NoRow => Differs(workers[c], fetched[c])
    /\ cancelled' = cancelled \cup {workers[c]}
    /\ awaited' = c
    /\ UNCHANGED <<api, workers, gstate, gconf, reload, fetched, todo, stop, mu>>

\* Faulty variant: nobody waits for the worker's cycle to end.
FaultyWaited(g) == TRUE

(* wg.Wait returns; a goroutine that has not begun does not count yet. *)
Waited(g) == gstate[g] \notin Counted

(* The worker that was waited for is replaced by one of the new config, or *)
(* dropped from the map.                                                   *)
Awaited(c) ==
    /\ awaited = c /\ main # "exited"
    /\ Waited(workers[c])
    /\ awaited' = None /\ todo' = todo \ {c}

RestartWorker(c, g) ==
    /\ Awaited(c) /\ fetched[c] # NoRow /\ Spawn(c, g)
    /\ UNCHANGED <<api, reload, fetched, stop, mu>>

\* Faulty variant: a worker whose config is gone is forgotten, not stopped.
FaultyDrop(c) ==
    /\ TakesTurn(c) /\ fetched[c] = NoRow /\ workers[c] # None
    /\ workers' = [workers EXCEPT ![c] = None] /\ todo' = todo \ {c}
    /\ UNCHANGED <<api, gstate, gconf, cancelled, reload, fetched, awaited, stop, mu>>

Drop(c) ==
    /\ Awaited(c) /\ fetched[c] = NoRow
    /\ workers' = [workers EXCEPT ![c] = None]
    /\ UNCHANGED <<api, gstate, gconf, cancelled, reload, fetched, stop, mu>>

(* The deferred unlock; the first reload is main's own and main goes on. *)
EndReload ==
    /\ reload = "working" /\ todo = {} /\ main # "exited"
    /\ reload' = "idle" /\ mu' = "free"
    /\ main' = IF main = "starting" THEN "serving" ELSE main
    /\ UNCHANGED <<api, pool, fetched, todo, awaited, toStop>>

-----------------------------------------------------------------------------
(* A worker goroutine. *)
Begin(g) ==
    /\ gstate[g] = "spawned" /\ main # "exited"
    /\ gstate' = [gstate EXCEPT ![g] = "running"]
    /\ UNCHANGED <<api, workers, gconf, cancelled, mgr, stop, mu>>

\* Faulty variant: the loop does not look at its context.
FaultyMayRun(g) == TRUE

MayRun(g) == g \notin cancelled

RunCycle(g) ==
    /\ gstate[g] = "running" /\ MayRun(g) /\ main # "exited"
    /\ gstate' = [gstate EXCEPT ![g] = "cycling"]
    /\ UNCHANGED <<api, workers, gconf, cancelled, mgr, stop, mu>>

EndCycle(g) ==
    /\ gstate[g] = "cycling" /\ main # "exited"
    /\ gstate' = [gstate EXCEPT ![g] = "running"]
    /\ UNCHANGED <<api, workers, gconf, cancelled, mgr, stop, mu>>

Return(g) ==
    /\ gstate[g] = "running" /\ ~ MayRun(g) /\ main # "exited"
    /\ gstate' = [gstate EXCEPT ![g] = "free"]
    /\ UNCHANGED <<api, workers, gconf, cancelled, mgr, stop, mu>>

-----------------------------------------------------------------------------
(* SIGTERM: Stop cancels the manager's context, takes the lock, and stops  *)
(* the workers of the map one after the other.                             *)
Signal ==
    /\ main = "serving"
    /\ main' = "cancelling"
    /\ UNCHANGED <<api, pool, mgr, toStop, mu>>

LockStop ==
    /\ main = "cancelling" /\ mu = "free"
    /\ mu' = "stop" /\ main' = "stopping"
    /\ toStop' = {c \in Configs : workers[c] # None}
    /\ UNCHANGED <<api, pool, mgr>>

CancelNext(c) ==
    /\ main = "stopping" /\ c \in toStop
    /\ \A d \in toStop : workers[d] \notin cancelled
    /\ cancelled' = cancelled \cup {workers[c]}
    /\ UNCHANGED <<api, workers, gstate, gconf, mgr, stop, mu>>

WaitedNext(c) ==
    /\ main = "stopping" /\ c \in toStop
    /\ workers[c] \in cancelled /\ Waited(workers[c])
    /\ toStop' = toStop \ {c}
    /\ UNCHANGED <<api, pool, mgr, main, mu>>

EndStop ==
    /\ main = "stopping" /\ toStop = {}
    /\ main' = "stopped" /\ mu' = "free"
    /\ UNCHANGED <<api, pool, mgr, toStop>>

(* main returns and the process ends with whatever still runs. *)
ManagerExit ==
    /\ main = "stopped"
    /\ main' = "exited" /\ mu' = "free"
    /\ UNCHANGED <<api, pool, mgr, toStop>>

-----------------------------------------------------------------------------
Api ==
    \/ \E c \in Configs, k \in Cores, on \in BOOLEAN : CreateWorkerConfig(c, k, on)
    \/ \E q \in Requests, c \in Configs, k \in Cores, on \in BOOLEAN \cup {Keep} :
          BeginUpdate(q, c, k, on)
    \/ \E q \in Requests : FinishUpdate(q)
    \/ \E c \in Configs : ToggleWorkerConfig(c) \/ DeleteWorkerConfig(c)

Manage ==
    \/ LockReload \/ EndReload
    \/ \E c \in Configs : LeaveAlone(c) \/ CancelWorker(c) \/ Drop(c)
    \/ \E c \in Configs, g \in Goroutines : StartNew(c, g) \/ RestartWorker(c, g)

RunWorker(g) == Begin(g) \/ EndCycle(g) \/ Return(g)

Shutdown ==
    \/ LockStop \/ EndStop \/ ManagerExit
    \/ \E c \in Configs : CancelNext(c) \/ WaitedNext(c)

ManagerNext ==
    \/ Api \/ FetchWorkerConfigs \/ Manage \/ Signal \/ Shutdown
    \/ \E g \in Goroutines : RunWorker(g) \/ RunCycle(g)

ManagerSpec == ManagerInit /\ [][ManagerNext]_managerVars

(* The ticker fires, goroutines are scheduled, the mutex is handed to      *)
(* whoever waits for it, and a cycle ends: its calls to the API have       *)
(* deadlines; that the databases answer its statements is assumed.         *)
ManagerFairness ==
    /\ WF_managerVars(FetchWorkerConfigs)
    /\ SF_managerVars(Manage) /\ SF_managerVars(Shutdown)
    /\ \A g \in Goroutines : WF_managerVars(RunWorker(g))

-----------------------------------------------------------------------------
(* No config is worked on by two goroutines at a time, however often it is *)
(* changed: a restart waits for the old cycle, and an old goroutine that   *)
(* had not begun when it was cancelled never runs a cycle.                 *)
OneCyclePerConfig ==
    \A g, h \in Goroutines :
       /\ gstate[g] = "cycling" /\ gstate[h] = "cycling"
       /\ gconf[g].id = gconf[h].id
       => g = h

(* No goroutine is lost: one that may still run is in the map, where the   *)
(* next reload or the shutdown finds it.                                   *)
NoneIsLost ==
    \A g \in Goroutines : gstate[g] \in Living /\ MayRun(g) => workers[gconf[g].id] = g

(* The workers that run are those of the enabled configs, with the fields  *)
(* reloadConfigs compares, some time after the configuration settles: a    *)
(* reload that works on a stale fetch is followed by one that does not.    *)
Follows(c) ==
    IF Enabled(rows[c])
    THEN workers[c] # None /\ gconf[workers[c]].core = rows[c].core
    ELSE workers[c] = None

ConfigsAreFollowed == <>[](main = "serving") => <>[](\A c \in Configs : Follows(c))

(* SIGTERM ends the process: Stop waits for cycles and for a reload, never *)
(* for ever.                                                               *)
StopEnds == main = "cancelling" ~> main = "exited"

=============================================================================
