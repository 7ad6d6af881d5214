# Charon verification project

TLA+ models of Charon (a WhatsApp multi-instance gateway written in Go), TLC
configurations that check them on small instances, and TLAPS proofs of the
properties that matter most for instances of any size. Paths below are relative
to `src/`.

## 1. The system

Charon consists of two processes over one PostgreSQL database.

The **API server** (`main.go`, `internal/`) keeps one WhatsApp connection per
*instance* (a phone), serves the HTTP API and the web interface, pushes events to
WebSocket clients and webhook receivers, accepts messages for later delivery into
the *outbox*, and runs the *warming* worker that lets instances talk to each other.

The **blast worker** (`cmd/worker/`) drains the outbox: one goroutine per row of
`outbox_worker_config` claims messages and sends them through the server's own
HTTP API. Several worker processes and several servers may run at once; the only
things they share are the database and its locks.

### Inventory

| Component | State | Operations | Talks to | What is hard | What makes it correct |
|---|---|---|---|---|---|
| Outbox queue and worker cycle (`cmd/worker/worker.go`, `model.go`) | rows of `outbox` (`status`, `insertDateTime`, `claimed_at`) | enqueue, claim, validate, pick instance, call API, record outcome, webhook, reap | API server over HTTP; receiver of callbacks | rows are updated by id alone; a timer decides that a claim is dead, and nothing bounds a cycle to less; crash and lost answers between send and record; a timed-out call may still be delivered | one holder per row and final outcomes as long as no holder outlasts the timer, bounded copies, FIFO, every row settles |
| Daily limit (`internal/model/outbox.go`) | advisory lock per user, rows of the day | enqueue one, enqueue batch | outbox table | count and insert are separate statements; midnight | never more than the limit, no refusal without cause |
| Worker manager (`cmd/worker/manager.go`, `internal/handler/worker_config.go`) | config table, map of goroutines, mutex | config CRUD, reload, start, restart, stop | the API's handlers, worker goroutines | restart in mid-message, wait groups, shutdown during reload | one cycle per config, no goroutine lost, shutdown ends |
| Accounts and administrators (`internal/handler/admin.go`, `internal/model/admin.go`) | `users`, `sessions` | create, update, delete, login, seed | sessions | several handlers check "last administrator" and act later | how administrators can be lost; deleted accounts stay deleted |
| Warming rooms (`internal/worker/warming_worker.go`, `internal/model/warming/`) | `warming_rooms`, script lines, session advisory locks | tick, send, record, pause, finish; status, restart, delete, edit script | WhatsApp sessions | the row is copied before the lock is taken; users change rooms meanwhile; replicas | no line skipped, none repeated, stopped rooms fall silent |
| WhatsApp session lifecycle (`internal/service/whatsapp.go`, `internal/handler/auth.go`) | map of sessions, `loggingOut`, reconnect tracker, `instances` | login, QR, connected, disconnected, logged out, logout, delete, load at start | WhatsApp library's events | event handlers run concurrently, sleep, and write rows afterwards | the map never exchanges one session for another; flags, cancel functions and heartbeats have an owner that ends them |
| Auto-reply of HUMAN_VS_BOT rooms (`internal/service/warming_auto_reply.go`) | cooldown map, room row | incoming message, delayed reply | WhatsApp sessions, AI provider | check-then-store of the cooldown; reply and progress from an old copy of the room; script and lines change meanwhile | no line passed over, one reply per cooldown |
| WebSocket hub (`internal/ws/hub.go`, `internal/handler/websocket.go`, `inbox.go`) | map of clients, broadcast buffer, one channel and two pumps per client | register, unregister, publish, broadcast | event handlers, browsers | two broadcast paths over one map; a full buffer; two pumps that end each other | a closed channel is not sent on; events without gaps; ended connections are taken apart |
| Webhook delivery (`internal/service/webhook.go`, `internal/handler/webhook.go`) | config cache | get, update, invalidate, sweep, deliver with retries | receivers | a fill races with an invalidation; the secret is read before it is written | an old config is used for cause only; secrets are kept |
| Sessions, logins, API keys (`internal/model/auth_session.go`, `internal/handler/user_auth.go`, `internal/middleware/`) | `sessions`, lockout counters | login, validate, touch, logout, change password | accounts | sliding against absolute expiry, login against password change, parallel attempts against the lock, dropped errors | a new password ends old sessions, lifetime is capped, the lock holds |
| Instance list of the blast worker (`cmd/worker/api_client.go`) | one-minute cache | get | API server | old list | a sender is connected when picked |
| Request handlers (`internal/handler/message.go`, `media.go`, `group.go`, `contact.go`, `internal/middleware/permission_middleware.go`) | one entry per search of mutual groups | resolve the number, check the permission, find the session, send or ask | `instances`, `user_instances`, sessions map | number, permission, instance and session are looked up one after the other; the instance changes in between | sent with permission, from the number asked for |
| Scripts, templates, logs, files, settings, audit, AI, web interface, schema and start-up, helpers | rows and files | CRUD, I/O, formatting | – | little | – |

## 2. Modules

| Module | Models | Rests on |
|---|---|---|
| `LeasedQueue` | abstract: a queue whose messages are leased to workers; a lease may run out | – |
| `OutboxWorker` | outbox table, worker cycle, reaper, API and webhooks as the worker sees them | implements `LeasedQueue` |
| `OutboxWorkerProofs` | theorems about `OutboxWorker` | |
| `EnqueueLimit` | the two limited enqueue transactions | |
| `WorkerManager`, `WorkerManagerProofs` | config handlers, `reloadConfigs`, `Stop`, worker goroutines | a cycle is one step that takes its time; its inside is `OutboxWorker` |
| `AdminUsers`, `AdminUsersProofs` | `UpdateUser`, `DeleteUser`, the seed at start | |
| `WarmingRooms`, `WarmingRoomsProofs` | the tick of the warming worker and the room handlers | |
| `InstanceSessions`, `InstanceSessionsProofs` | the sessions map, the `instances` row, the handlers of the library's events, login, QR, logout and delete | |
| `Requests`, `RequestsProofs` | the message, media, group and contact endpoints behind the permission middleware | sessions and rows as far as an endpoint can see them; their inside is `InstanceSessions` |
| `Hub`, `HubProofs` | `Run`, `Publish`, `BroadcastToInstance`, the pumps | |
| `Webhook` | the config cache, `SetWebhookConfig`, the attempts of a delivery | |
| `AuthSessions` | login with lockout, session rows and their expiry, `ChangePassword` | |
| `AutoReply` | HUMAN_VS_BOT rooms: messages, cooldown, delayed replies, room handlers | |
| `ServicesProofs` | theorems about `EnqueueLimit`, `Webhook`, `AuthSessions` and `AutoReply` | |
| `MCServices` | `EnqueueLimit`, `Hub`, `Webhook`, `AuthSessions` and `AutoReply` side by side: they share no state, so a behaviour is one of the component that `part` names | |
| `MCWorkers` | `WorkerManager`, and `OutboxWorker` with one row and more disturbances, side by side in the same way | |
| `MC*` | values of the constants for TLC | |

Conventions. A database statement or transaction, an HTTP call, or a stretch of
code under a mutex is one step; whatever may happen between two of those in the
code may happen between two steps. An operator called `Faulty...` is no part of the
specification: it is a variant of the operator next to it, with a mistake
that is easily made, and serves to show that a property notices the mistake.

### OutboxWorker

| Code | Model |
|---|---|
| `outbox.status` 0, 3, 1, 2 | `status[m]`: pending, processing, sent, failed |
| `claimed_at < cutoff` | `m \in aged` (time is not counted; a claim *becomes* old) |
| the local variables of `runCycle` | `pc`, `held`, `verdict` |
| the insert of a batch: `BEGIN` (which fixes `NOW()`), the advisory lock, the rows, `COMMIT` | `BeginEnqueue`, `CommitEnqueue`; `insertedAt` is the time of the first |
| `ClaimPendingOutbox` | `LockOldest` reads the table and locks a row (`FOR UPDATE SKIP LOCKED`: `locked`, `LockedByOthers`); then `Claim`, `ClaimUnread` when the statement commits and its row is not read, or `ClaimFails` |
| destination check, `GetInstances`, `SendMessage` | `Validate`, `PickInstance`, `ApiAnswers` / `GiveUp` |
| a handler of the server that goes on after its caller gave up | `orphans`, `OrphanEnds` |
| `UpdateOutboxSuccess`, `UpdateOutboxFailed` | `Settle`, `SettleLost` |
| `sendWebhook` in a goroutine | `callbacks`, `CallbackEnds` |
| `ReapStaleClaims` on the ticker and at start | `Reap`, `Restart` |
| SIGTERM, crash | `Stop` and `Exit`, `Crash` |

`faults` bounds what goes wrong (`MaxFaults`): crashes, stops, lost answers and holders that
take too long. The tenant and application filters are kept (`Handles`), with the SQL
meaning of NULL. Left out: message texts, media, pauses between cycles, and the choice of
the instance, of which only the outcome matters.

Nothing bounds a cycle. The calls to the API have 30 s and two of the outcomes 5 s
(`worker.go:197`, `211`), but the claim and the other outcomes (`worker.go:139`, `151`, `159`, `191`)
and the log rows that are written before an outcome have no deadline, while the
reaper takes a claim of ten minutes for dead. So `ClaimAges` may happen to a row whose holder
is at work. That holder is then `late`, its row `overrun`, and its claim counts among the
`losses`, since another worker may now take the row and send it again. A late holder records its
outcome by id whatever the row says by then. The properties say what is left:
`LeaseSafety` (two holders only with a late one among them; a row that never had one is in
*processing* when its outcome comes), `SettledIsFinal` (an outcome changes in rows that had one only),
and, with no exception, `RightWhenLate`: copies stay bounded, no row says *sent* that was not
delivered, callbacks contradict the row only after a claim was lost. `LeasedQueue` states the same without
the table: a lease may run out under its holder.

Two more history variables: `requeued`, and `hidden[m]`, the rows that were not to be seen when
`m` was claimed, because their transaction had not committed or another claim had them locked. Whatever their stamps, batches
become visible in any order, so *first in, first out* holds among the rows that
a claim could see.

### EnqueueLimit

One transaction per request: `Begin` fixes the date (`NOW()` and `CURRENT_DATE`
are those of the transaction's start), `Lock` takes `pg_advisory_xact_lock(user)`,
`CountToday` counts, `Commit`, `Reject` or `Fail` end it. Single requests use
`count >= max`, batches `count + len > max`; both are in `Fits`. `NewDay` is
midnight, also between the start of a transaction and its count.

### WorkerManager

`reloadConfigs` is a chain of steps: fetch *before* the lock (`FetchWorkerConfigs`),
take the lock, compare each config with its worker, cancel and await, start,
unlock. `Spawn` copies the config by value, and `wg.Add(1)` runs inside the
goroutine, so a goroutine that has not begun is not waited for (`Waited`,
`Begin`). `Stop` cancels the manager's context, takes the same lock and stops the
workers one by one. `Cores` are the values of the fields that `reloadConfigs` compares.

### AdminUsers

`UpdateUser` is a chain of committed statements (look at the target, count
administrators, read the row, write *all* of it, end sessions); `DeleteUser` is one
transaction holding the lock of the target's row. `READ COMMITTED` is modelled by
counts that see what is committed at that moment. `StatementFails` follows each
handler's own error path: a failed look or count before a demotion does not stop
the demotion. `blind` and `switched` record how an administrator was removed.

### WarmingRooms

Rooms of type BOT_VS_BOT. A worker copies due rooms (`Query`), goes through the copy
(`TryLockRoom`, `SkipRoom`), and executes a room *from the copy*: `ReadLine`,
`SendSucceeds` or `SendFails`, `Record`, or `FinishRoom`, then `UnlockRoom`. Status
changes are two steps (`BeginStatus` reads and checks, `FinishStatus` writes), and
restart, deletion and edits of the script are one each. The time of a room is
`nextRun`: none (NULL), set, or due. History: `copies`, `added`, `overtaken`,
`late`, `trouble`.

### InstanceSessions

A request, an event of the WhatsApp library, or the loading of one device is a *task*
(`op[p]`, `of[p]`, `pc[p]`, and the session it holds on to, `held[p]`). Tasks are
numbered in the order in which they begin; a task creates at most one session and one
heartbeat, which bear its number.

| Code | Model |
|---|---|
| row of `instances` | `status[i]` (with the absence of a row before, without and after it), `isConnected` |
| `sessions[instanceID]`, `session.IsConnected` | `sessions[i]`, `up` |
| `session.HeartbeatCancel`, the heartbeat goroutine | `cancelOf[s]`, `heart[h]` |
| `loggingOut`, `qrCancelFuncs` | `loggingOut`, `qrCancel[i]` |
| the client's socket and `Store.ID` | `link[s]`, `paired` |
| `eventHandler`, `case *events.Connected` | `Authenticated`, `ReadFlag`, `MarkConnected`, `Identify`, `WriteOnline`, `ReplaceHeartbeat`, `StartHeartbeat` |
| `*events.LoggedOut`, `*events.Disconnected` | `LoggedOut`, `MarkLoggedOut`, ...; `Disconnected`, `MarkDisconnected`, ... |
| `DeleteSession`, `DeleteInstance` | `Logout` to `Unflag`; `DeleteInstance` to `RemoveRow` |
| `Login`, `GetQR`, `CancelQR` | `Login`, `InsertInstance`; `GetQR` to `EndListening` |
| `LoadAllDevices` | `Load`, `ConnectLoaded`, `StoreLoaded`, `UpdateLoaded` |

Handlers look the instance up again where the code does, so an event of one client may
find the session of another. The statements that fail do so where the code looks at the
error (`TryUpdate`, `WriteLoggedOut`); a row that cannot be read after a logout makes
the handler panic, as it does in the code (`ReadRow`). Left out: the stagger of
reconnects, which only lengthens a pause that is of any length here; incoming
messages; listings; the PATCH of descriptive fields. Cancelling a QR flow is one of
the ends of `EndListening`. What an earlier process left in the table and the device
store is chosen in `Init`; a stored device is identified with the instance whose row
has its JID, at most one each.

### Requests

Every endpoint is a straight line of stages, and `Handler` says which: `number` and
`lookup` (the middleware and the handler each ask the database which instance carries
the number), `access` or `permit`, `session`, `connected` or `ready` or `socket` (what
the handler asks of the session), `recipient`, `load` and `upload` of a file, `type` (the
typing delay) and `send`, or `ask` and `contacts`. One action executes each kind of
stage for whatever handler it is in, and between two stages anything may happen. `enter`
and `scan` are the search of mutual groups with its map of searches in progress.

| Code | Model |
|---|---|
| `GetQR` and the phone that scans the code | `GetQR` (the session of the map again, or a new one), `Pair`: the session may have had another number before |
| `*events.Connected` | `Connected` marks the session it finds; `UpdateInstanceOnConnected` writes the row after the stagger, with the number the client has then |
| `*events.Disconnected` | `Disconnected` |
| `DeleteSession` (logout by the user) | `DeleteSession` takes the session from the map; `UpdateInstanceStatus` writes the row at the end |
| `*events.LoggedOut` | `LoggedOut` marks and disconnects, `UpdateInstanceOnLoggedOut` writes the row, `RemoveSession` removes what is in the map by then |
| `user_instances` | `AssignInstance`, `RevokeInstance` |

History: `allowed` of a call, the instances its user had access to meanwhile; `moved`, its
session was paired with another number after the call could reach it; `astray`, the instances whose
logins and logouts overtook each other (the row update of a logout was lost, or came after
the next pairing; a `Connected` handler wrote the row of a session that had left the map; the end
of a logout removed a session that had been paired again).

### Hub

`run` is where the goroutine of `Run` is, `clients` the map, `send[c]` and `closes[c]`
the channel of a client, `inside` and `todo` the callers of `BroadcastToInstance` in their
loop. `Run` cuts off a client with a full buffer in two steps (`Drop` closes the
channel, `DeleteDropped` deletes it from the map) with the lock held for reading, as
the code does; a step of a broadcast between them, or a delete during an iteration,
sets `panicked`. Contents of events are left out: `Hears` fixes which events the
filter lets through to a client.

### Webhook

`row` is the configuration in `instances`, `cache` the entry with `fresh` for its
five minutes. `Hit`, `Miss` and `Fill` are `GetWebhookConfig`, `Try` and `Retry` the
attempts, `ReadInstance`, `UpdateInstanceWebhook` and `InvalidateWebhookCache` the update,
`DeleteRow` and `ForgetInstance` the deletion of the instance. Configurations are
named by the update that brought them. History: `behind`, `overwritten`, `outdated`.

### AuthSessions

A login is five steps (`BeginLogin` reads the lock, `ReadHash`, `WrongPassword` or
`RightPassword`, `CreateAuthSession`), a change of the password three (`Verify`,
`UpdateUserPassword`, `DestroyAllUserSessions` or `DestroyFails`), and `Accept` leaves
behind a `TouchAuthSession` with the clock it has read. `LoginUser` drops the errors of its
lookups: when the user or the lock cannot be read the login goes on without the check
(`asked` is FALSE), and counting a failure or resetting the count may fail unnoticed.
`absolute_expires_at` was added to the table without filling it in, so callers in `Legacy` begin with a session
that has no cap (`Inherited`), and a touch extends it without limit. `AdminUpdateUser` and
`RevokeSessions` are what an administrator's update does to sessions; who may do it is
the subject of `AdminUsers`. History: `raced`; `late[l]`, the wrong passwords that a caller
who asked for the lock compared while it held.

### AutoReply

`handler[i]` is `HandleIncomingMessage` of an instance, `replies` are the goroutines of
`processAutoReply` with the copy of the room they work on, `cooling` is
`lastReplyTime`. `ReplyFromScript` takes the first line after the copy's sequence, of the copy's
script as it is then; `UpdateRoomProgress` writes the copy's sequence plus one, or fails; an empty
reply ends there. Whether a reply comes from the provider or the script is open in each
case, since an update of the room sets those flags as it likes. Room handlers:
activation in two steps (check of the number, update), `Deactivate`, `RestartRoom`,
`CleanupReplyTime`, and `UpdateWarmingRoom`, which may change the script and keeps the sequence. The
unique index over active rooms of a number makes the second activation fail and refuses a
restart (`Unclaimed`). Script handlers: lines are created, moved, deleted and reordered (`Edit`).
History: `taken`, `started`, and `overtaken`, the rooms where a restart met a reply under
way, where the script changed in mid-run, or where a line was put where the run had
passed. Left out: deletion of a room, a change of its number, and the finish by a
nil line, which `getScriptReply` never gets.

## 3. Runs

Every bound is a constant of the configuration. `CHECK_DEADLOCK FALSE` is set where
the instance may come to rest: requests are finite in number (`Txns`, `Requests`,
`MaxCalls`, `MaxEdits`, `MaxEvents`), and a system without requests has nothing to do.
Type invariants are no properties of runs: they are proved (section 5).

| Run | Question | Instance | Result |
|---|---|---|---|
| `outbox` | lease, bounded copies, honest statuses, FIFO, final outcomes, refinement of `LeasedQueue`; every row that a worker handles settles | 2 rows (one malformed), 2 workers with different filters, 1 disturbance, fair | holds |
| `outbox_null_application` | rows settle, also one without an application | 2 rows, 1 worker, fair | violated |
| `workers` | one cycle per config, no goroutine lost, configs are followed, shutdown ends; and bounded copies, honest statuses and agreeing callbacks through a chain of crashes, losses and late holders | 2 configs, 2 field values, 3 goroutines, 2 edits, fair; 1 row, 2 workers, 3 disturbances | holds |
| `admin_accounts` | how administrators are lost, deleted accounts stay deleted, requests end | 3 accounts, 2 administrators, 2 requests of 4 kinds, failures, 1 restart, fair | holds |
| `admin_last_deleted` | the last administrator stays | 2 administrators, 2 deletions | violated |
| `warming_replicas` | no line skipped, bounded late sends | 2 replicas, 2 lines, 4 calls, 1 fault | holds |
| `warming_single` | no line repeated, an untouched room ends | 1 worker, 2 lines, 4 calls, 2 faults, fair | holds |
| `warming_repeat` | no line repeated with two replicas | 2 replicas, 2 lines, 3 calls | violated |
| `sessions` | no session replaced by another, flags and cancel functions have an owner, heartbeats are replaced and end | 1 instance, 5 tasks, fair | holds |
| `requests` | messages go out with permission and from the number asked for | 1 call at a time, every endpoint, 2 instances, 2 numbers, 2 sessions, 3 events | holds |
| `services` | the limit and its refusals, requests are answered; the map of the hub, no gaps, ended connections; stale configs and kept secrets; old passwords, deadlines, lockout; replies in order and one per cooldown | see below, fair | holds |
| `hub_panics` | the two broadcast paths do not race | 2 clients, 1 broadcast | violated |

Why these bounds are enough to be interesting. Two rows and two workers are what
a double claim, an overtaking and a late outcome take; one disturbance is a crash
between send and record, or a holder that the reaper outruns, with which every exception of a property can
occur; three, with one row, are a late holder, a crash of the second and a lost outcome of the third. Two
administrators who remove each other are the smallest loss, a third account makes
the count wrong without being zero. Three goroutines are an old, a new and a
second config's worker. Two lines, two replicas and four calls let a replica hold
a copy of the room from two lines ago while a user restarts or stops it. All of the
state of `InstanceSessions` is kept per instance and its tasks touch one instance each,
so one instance is enough; `KindsOf` says what the task with each number may be and
keeps to the orders in which sessions, flags and heartbeats are contested. The pool is
the bound: the theorems allow any number of tasks of every kind. In `requests` three
events are a logout and a new pairing with a drop or a second logout, or a
revocation, a reassignment and a move of the number to the other instance. One call at a time is enough
there: a call writes nothing that another reads but the entry of a search for
mutual groups, whose refusal ends a call like any other; and an administrator's call takes the
steps of a user with access to everything.

The parts of `services`: four requests of two users, a batch of two against a limit of
two, and midnight; two clients with room for one event, three published events and
one incoming message, so that a buffer is full while both broadcast paths run, and one
client that hears only the third event; two messages and two updates of one
webhook, of which one names a secret, with two attempts each, so that a fill can lie
around an update and two updates around each other; two callers, one of them with a session from before there were caps, one change of
the password, a threshold of two, a sliding time of one and a lifetime of two units,
so that a late touch meets the deadline; two rooms of one number on two instances, with
different scripts of two lines to begin with and an order that is free for a third, two messages and
two calls of room or script handlers. The attempts of a
delivery (four in the code) and the threshold (five) only count.
Symmetry is used in one safety run only (`warming_replicas`), over the replicas, which
are interchangeable. For the invariants listed in section 5 the proofs remove the bounds.

## 4. Fairness

* `OutboxWorker` (`FairSpec`, for the violated run): a goroutine that can step does (a statement without a
  deadline may take any time, but ends, with an answer or a broken connection); the reaper's ticker fires; time passes, so a claim nobody holds gets
  old; a process that ended is started again (`restart: unless-stopped` in the
  compose file). Nothing is assumed about *which* outcome a call has. The run that
  holds assumes less: some of this work goes on as long as any can (`WorkSpec`), which is
  enough because faults are bounded.
* `AdminUsers`: strong fairness for the steps of a request in progress, since
  PostgreSQL grants a lock to its waiters in order; none for the arrival of requests.
* `EnqueueLimit`, `Hub`: one weak fairness condition over all the work of the component that
  is begun (`Serve`, `Work`). It favours no goroutine, so it is weaker than what the
  scheduler and the database give, and enough since the instances' inputs are finite.
  Requests, connections, messages and failures need not happen.
* `Requests`, `Webhook`, `AuthSessions`, `AutoReply` state safety only: nothing there waits for
  another actor. (Some calls have no deadline, such as the upload of a file in `media.go:120`, so
  no claim is made that each returns.)
* `WorkerManager`: weak fairness for the ticker and the goroutines (cycles have
  deadlines), strong for whoever waits for the mutex: Go's mutex hands itself to a
  waiter that starves. None for the signal or edits.
* `WarmingRooms`: weak fairness for ticks, time and restarts; strong fairness for
  *success* of a send that is tried again and again. The last is an assumption
  about the network: without it the code retries for ever, by design. With two
  replicas it would not be enough: a failed send of one replica writes back the
  sequence of its old copy, and may undo the other's progress each time.
  Liveness is therefore claimed for one worker.
* `InstanceSessions`: weak fairness for the steps of a task that has begun (goroutines
  run, statements and library calls return, a QR flow ends after three minutes at the
  latest) and for the heartbeat's ticker. None for requests, events or reconnects.

## 5. Proofs

All theorems hold for every value of the constants that satisfies the named
assumption of the module. No theorem is about liveness.

**OutboxWorkerProofs.** Four layers, each inductive relative to the ones before it.
`Typed`: the types, and a worker holds a row exactly while its program counter says so.
`LeaseInv`: `LeaseSafety` together with `LocksPending` (a row locked by a claim is pending and
locked by one), `AgedUnheld` (a claim the reaper may take back is processing and its
holders, if any, are late) and `LateOnRecord` (only a late holder can see its row pending,
and late holders are on record in `overrun`); without `AgedUnheld` the reaper could requeue the
row of a holder that no record names.
`AnswerInv`: a verdict exists
only until it is recorded, and success is concluded only after a delivery.
`CopiesInv`: the copies of a row, the workers that may yet send it (`Unsent`), and one
more if the row may come to a further worker (`Spare`: it waits, or its claim is nobody's
or already taken for dead) stay within one plus the claims that came to nothing. It does
not ask for a single holder: when the claim of a live worker ages, the row may go out once more, and that is
the moment at which the loss is counted. `KeptInv`: as long as a row has lost no claim it has one
holder at most, the reaper keeps away from it, and callbacks say what the row says.

No theorem assumes anything of the length of a cycle. `LeaseSafe` and `SettledStays` name the exception
in their statements, through `late` and `overrun`, and `Implementation` shows every step to be a step
of `LeasedQueue` or a stutter, the ageing of a held claim being the lease that runs out. `CopiesBounded`,
`SentWasDelivered` and `CallbacksAgree`, together `RightWhenLate`, need no exception.
`FIFOUnlessRequeued` rests on `OrderInv`: a row older than one that was claimed, or is being claimed,
and still waiting for its own first claim was out of that claim's sight; each claim keeps
this because it takes the oldest it sees.

**AdminUsersProofs.** `CountsAreSane` says that a request that goes on to write counted
more than one administrator or did not count. A removal whose count was the true one
then leaves an administrator (a lemma on finite sets), so every loss is recorded in
`blind` or `switched`. `DeletedStaysDeleted` follows from the write finding no row.

**WorkerManagerProofs.** `OneCyclePerConfig` is not inductive. `MapOwns` is: the map names
every goroutine that may still begin a cycle and every one that is in the middle of
one. A goroutine leaves the map only cancelled (`AwaitedIsCancelled`) and waited for.
The types need `LockedOut`: neither the reload nor `Stop` finds a worker changed under it.

**WarmingRoomsProofs.** `IInv` has four parts: types; `InHand` (the room and line in hand);
`SnapshotsAreTrue` (unless a restart overtook the worker, every original line up to a
copied sequence has gone out, so a progress written from an *old* copy is true of the
past); `OneLateLine` (a worker that may still send for a room that left ACTIVE has not
sent yet). They give `NoLineSkipped` and `LateSendsBounded` for any number of replicas,
rooms and lines. `NoLineRepeated` is proved for one replica (two refute it, section 6), with
`OnceInv`: while no outcome of a run was lost, each line went out once at most, and those that did
are on record, in the row or in the hand of the worker about to write it.

**InstanceSessionsProofs.** `Typed` is the type invariant with what makes it inductive:
every session that the map, a task or a connection refers to was created by a task
that has begun (`Refs`). `Roles` says at which steps each kind of task
can be, and `FlagHasALogout` and `CancelBelongsToAFlow` are inductive with it: a flagged instance has a logout that has not cleared the
flag (the first of two logouts to end clears the flag for both, so the converse does not
hold), and a registered QR flow is between its registration and its cleanup. `Boot` says
that a device that is still being loaded belongs to an instance without a session,
because the server does not listen yet and every stored device is loaded once; without
it `StoreLoaded`, which does not look whether the place is taken, could replace a
session. `HeartInv` gives `HeartIsReplaced`: a cancel function belongs to one session, and a
session that a logout cancels has left the map and never returns to it, so
only a `Connected` handler between its cancel and its store leaves a cancelled one
behind. The proof that a step preserves them goes through a list of the *effects* a
step of a task may have, established action by action.

**RequestsProofs.** `Established` says, for each stage at which a call can be, what its
earlier stages have found out: the rest of its route begins with one of a few prefixes
before `session` and has none of the checks after it, and once the checks are behind it
its caller had access and the instance fits the number. This is what makes the
theorems hold for every endpoint at once: a handler that left out a check, or made it in
another order, would not have a route of that shape. `RowsFollowSessions` is the other half:
a row that is online carries the number of the session its instance has in the map, and that session is
paired, or a logout is still to write the row (`Pending`). It is stated of the row and the session that is in
the map *now*, so that it stands when the session of a logout is paired again under
another number before the logout has removed it. Lookup by number goes through the row and
sending through the map, and only this relation makes the two
agree; `astray` names the instances for which a lost or overtaken update broke it, `moved` the calls
whose session was paired anew under them.
`AlwaysAuthorised` and `AlwaysFromThatNumber` follow for any number of users, instances,
sessions and calls. `RoutesAssumption` says of the constants that tasks call handlers
that exist, as users that exist.

**HubProofs.** `MapHoldsOpen` rests on `Run` being one goroutine: what it has still to serve
is in the map (`OwnLoop`), and a connection that it has not added yet is new in every
respect (`NewIsBlank`). It holds although `BroadcastToInstance` shares the lock:
broadcasts send and never close. `NoGap` needs the position of the loop: events leave the
queue in order (`InTurn`), and what a client of the map got is complete up to the event that
`Run` is at, or the one before while the client is still to be served (`Reached`); once
it has left the map, up to the last it got (`NothingMissed`). That the two broadcast paths can
make the process panic (section 6) is no contradiction: neither invariant is about `panicked`.

**ServicesProofs** holds the proofs of four small components.

*EnqueueLimit.* `CountIsTrue`: what a transaction counted is what there is until
it ends, since only a transaction of the same user could change it and that one would
need the lock. `WithinLimit` follows for any number of users, requests, days and sizes.
`RefusedForCause` follows as well, because rows are only added (`CauseStep`).

*Webhook.* What a fill or an update has read is the row, unless the history says it
was written since (`FillsHoldTheRow`, `SecretsAreTheRows`). An entry can then differ from
the row for the two named causes only (`EntryHasCause`, which says it of expired entries too,
since an entry never becomes fresh again without a fill).

*AuthSessions.* Three independent invariants beside the types. `CapsAreAbsolute`: the
cap of a row is its creation plus the lifetime, and no touch passes it; rows without a cap
are of callers in `Legacy`. `OnceLate`: a caller that asked for the lock and compared one
password under it has to begin again, and if it asks again it is refused; callers whose query failed
are not counted.
`PasswordOfNow`: unless a change is half done, every open session, and every login that
has read a hash, has the password of now, or is named in `raced`. The durations and the
threshold are any natural numbers (`AuthAssumption`).

*AutoReply.* `CooldownCounts`: while a cooldown runs each instance has begun one reply at most,
and when it does not run none. `CopiesAreTrue`: in a room that nothing overtook, every line up
to the sequence of the room, or of any copy that a handler or a reply still holds, has been
taken, and the copies carry the script of the room; a reply that writes its old copy's sequence plus one
therefore writes something true of the past. Lines may be deleted and appended
freely; a line that is put where the run has passed is what `overtaken` is for. Line numbers are any
integers; those of 0 and below are never replies.

Model-checked only: everything under fairness (`EveryRowSettles`,
`EveryRequestAnswered`, `EveryRequestEnds`, `ConfigsAreFollowed`, `StopEnds`,
`ActiveRoomsEnd`, `HeartbeatsEnd`, `EndedIsRemoved`), which the prover does
not handle. Every invariant and every action property that a passing run checks is stated by a
theorem, `NoLineRepeated` for one replica as in its run.

## 6. Where code and documents disagree

Four statements of comments or documents are refuted by a run; `PROJECT.json` quotes
their lines.

* A row enqueued without the optional application is claimed by a wildcard worker and
  cannot be read (NULL does not fit a Go string): it stays in *processing*, is requeued
  after ten minutes, and so on for ever (`outbox_null_application`).
* Two administrators who delete each other at the same time both succeed, although the
  deletion counts administrators in its transaction (`admin_last_deleted`).
* The loop of the hub and `BroadcastToInstance` both hold the lock for reading while one closes
  and deletes what the other iterates over and sends to; either ends the process
  (`hub_panics`).
* Two replicas can both send a room's next line, although a lock per room is there to
  prevent it (`warming_repeat`).

Seen while modelling, and part of the modules' behaviour, but without a run of their own:
the sweep at start requeues only claims older than the cutoff; rows that end in an error
or an invalid number get no callback; two concurrent demotions lose the last administrator
as two deletions do; changes of `allow_media`, webhook and name alone do not reach a
running worker; an update that does not name `enabled` can undo a toggle; and the
progress of a line under way undoes a restart of its room (the history variable
`overtaken` marks those rooms, and `NoLineSkipped` does not speak of them). In the sessions:
a logout whose row has been deleted panics and leaves its instance flagged, so that later
`Connected` and `Disconnected` events are ignored; the row can say online for a dead
connection until the next event, and `is_connected` can stay true when a device does not
load; a session can be taken out of the map while its client goes on
(`LoggedOut` and `DeleteInstance` remove whatever is there); and two `Connected` handlers of
one session can leave a heartbeat that nobody can cancel, which ends with the session
all the same (`HeartbeatsEnd`). Further:

* `Stop` of the manager can return while a reload that had fetched before it starts a worker, which
  begins a message (`CHANGELOG.md:190` calls the shutdown graceful).
* A reply of a HUMAN_VS_BOT room never finishes its room: a script without a next line is an
  error to `getScriptReply`, which expects no line (`sql.ErrNoRows` against nil). Two instances can
  both answer within one cooldown. That two rooms of one number are never active rests on a unique index
  alone, since the check precedes the update and `RestartRoom` makes none, and a failure to create
  the index at start is only logged. `UpdateWarmingRoom` keeps the sequence when the script
  changes, so a run goes on in the middle of the new one (`warming_room.go:417-425`). In a script with
  gaps the written sequence falls behind the line that was sent, so that line is sent again.
* Reordering a script accepts numbers of 0 and below (no handler and no statement looks at them);
  such a line is never spoken, because rooms begin after 0.
* `ChangePassword` succeeds although destroying the sessions failed, and a login that had read
  the old hash opens a session after it.
* A cache fill around an update keeps the old webhook for five minutes; an update without a
  secret undoes one that names a secret in between. A missing instance is answered with
  500 instead of 404, because `UpdateInstanceWebhook` says "instance %s not found" and its handler
  compares with another text.
* `permission_middleware.go:132` resolves the instance "for handlers to reuse", and every handler
  resolves the number again; `README.md:1053` allows 500 contacts a page, `contact.go:349` 50.
* A worker that took longer than ten minutes over a row writes its outcome over whatever another worker has
  recorded since, in `outbox` and to the webhook (`model.go:166-168`, by id alone).
* `insertDateTime` is the start of the transaction, which then waits for the advisory lock: a batch can
  become visible, and be sent, before one with an earlier stamp.
* Between the marks and the removal of a logout (`whatsapp.go:196-253`) a `GET /qr` finds the old session and
  can pair it with another number; the removal then takes it out of the map while its client goes on.
* `LoginUser` drops the error of the query for the lock (`user_auth.go:43-45`), so the lock of `README.md:273`
  does not hold while that query fails, and failures that cannot be counted do not count.
* Sessions from before `absolute_expires_at` have NULL there (`schema.go:478`), and
  `TouchAuthSession` extends them without the absolute limit of `README.md:226`.
* The debounced session middleware and the clean-up of expired sessions are called by nobody.

## 7. Not modelled, and what could come next

Not modelled, because no several actors change the state there, or because it is not
the program's: scripts, templates and logs of the warming (row-by-row CRUD; what the worker
reads of a script is in `WarmingRooms`, and what becomes of the lines of a script in use in `AutoReply`), files, uploads, identity, settings and the audit log
(single rows, files), API keys and registration (single rows), string and media
helpers, the AI provider, the web interface, schema migrations and start-up, API description and
deployment. The one-minute list of instances in the blast worker is no variable:
`PickInstance` takes any outcome of it, also that of an old list. Of the HUMAN_VS_BOT rooms, their
deletion and a change of their number are left out.

Hazards without a property (`PROJECT.json` gives the reasons): the row that does not follow the
connection after the stagger of `Connected`, and the caller that `Publish` blocks. The code allows
the first; nothing promises a bound for the second.

Next: an abstract connection of an instance that `InstanceSessions` implements and `Requests`
uses.
