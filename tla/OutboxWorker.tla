---------------------------- MODULE OutboxWorker ----------------------------
(***************************************************************************)
(* The blast outbox and the worker processes that drain it:                *)
(* cmd/worker/worker.go (runCycle), cmd/worker/model.go (the four          *)
(* statements on the outbox table) and cmd/worker/manager.go (the reaper). *)
(*                                                                         *)
(* A claim locks its row in one step and commits or fails in the next; the *)
(* other statements on the table are one step, and so is every call to the *)
(* gateway's API.  Between two steps a worker may crash, be told to stop,  *)
(* lose its answer, or take longer than the reaper waits.  Rows are        *)
(* updated BY ID ALONE: nothing in the UPDATE that records an outcome      *)
(* checks that the row is still claimed.                                   *)
(***************************************************************************)
EXTENDS Naturals, FiniteSets

CONSTANTS
    Msgs,        \* rows that may be inserted into the outbox
    Workers,     \* worker processes, each running one worker configuration
    NoMsg,       \* what a worker without a claimed row holds
    ClientOf,    \* ClientOf[m]: client_id of row m
    AppOf,       \* AppOf[m]: application of row m, or NullApp for NULL
    NullApp,
    OwnerOf,     \* OwnerOf[w]: user_id of worker w, or AnyClient for 0
    AnyClient,
    AppsOf,      \* AppsOf[w]: applications of worker w, {} for "*" or ""
    Malformed,   \* rows whose destination is no direct phone number
    Direct,      \* workers whose message_type is not "group"
    MaxFaults    \* bound on crashes, stops, lost answers, overlong cycles

ASSUME OutboxAssumption ==
    /\ NoMsg \notin Msgs
    /\ \A w \in Workers : NullApp \notin AppsOf[w]
    /\ Malformed \subseteq Msgs /\ Direct \subseteq Workers
    /\ MaxFaults \in Nat

VARIABLES
    \* --- the outbox table
    status,      \* status[m]: 0 pending, 3 processing, 1 sent, 2 failed
    insertedAt,  \* insertedAt[m]: insertDateTime, equal within a batch;
                 \* 0 before the transaction that inserts m has begun
    clock,       \* the time the latest of these transactions began
    aged,        \* processing rows whose claimed_at is older than the cutoff
    \* --- the worker processes
    pc,          \* pc[w]: where worker w is in its cycle
    locked,      \* locked[w]: the row the claim statement of w has locked
    held,        \* held[w]: the row w claimed in this cycle
    verdict,     \* verdict[w]: what w found out about the row it holds
    stopping,    \* workers whose context is cancelled
    callbacks,   \* webhook goroutines under way: [by, msg, status]
    \* --- the gateway, WhatsApp and the webhook receiver
    orphans,     \* orphans[m]: sends at the API whose caller has given up
    delivered,   \* delivered[m]: copies of m that reached WhatsApp
    notified,    \* notified[m]: the statuses its webhook receiver was told
    \* --- history and bounds
    requeued,    \* rows the reaper has returned to pending
    hidden,      \* hidden[m]: rows that no claim of m could see
    late,        \* holders whose claim has outlived the reaper's cutoff
    overrun,     \* rows that have had such a holder
    losses,      \* losses[m]: how often a worker's claim of m came to nothing
    faults       \* disturbances so far, at most MaxFaults

table   == <<status, insertedAt, clock, aged>>
process == <<pc, locked, held, verdict, stopping>>
network == <<orphans, delivered>>
webhook == <<callbacks, notified>>
leases  == <<late, overrun, losses>>
history == <<requeued, hidden, leases>>
vars    == <<table, process, network, webhook, history, faults>>

Statuses == {"absent", "pending", "processing", "sent", "failed"}
Settled  == {"sent", "failed"}
Steps    == {"idle", "claiming", "claimed", "routing", "sending", "settling", "stopped", "down"}
Verdicts == {"none", "success", "failure", "error", "invalid"}
Holding  == {"claimed", "routing", "sending", "settling"}
Callbacks == [by : Workers, msg : Msgs, status : Settled]

TypeOK ==
    /\ status \in [Msgs -> Statuses]
    /\ insertedAt \in [Msgs -> Nat] /\ clock \in Nat
    /\ aged \in SUBSET Msgs
    /\ pc \in [Workers -> Steps]
    /\ locked \in [Workers -> Msgs \cup {NoMsg}]
    /\ held \in [Workers -> Msgs \cup {NoMsg}]
    /\ verdict \in [Workers -> Verdicts]
    /\ stopping \in SUBSET Workers
    /\ callbacks \in SUBSET Callbacks
    /\ orphans \in [Msgs -> Nat] /\ delivered \in [Msgs -> Nat]
    /\ notified \in [Msgs -> SUBSET Settled]
    /\ requeued \in SUBSET Msgs
    /\ hidden \in [Msgs -> SUBSET Msgs]
    /\ late \in SUBSET Workers /\ overrun \in SUBSET Msgs
    /\ losses \in [Msgs -> Nat]
    /\ faults \in 0..MaxFaults

Init ==
    /\ status = [m \in Msgs |-> "absent"]
    /\ insertedAt = [m \in Msgs |-> 0] /\ clock = 0
    /\ aged = {}
    /\ pc = [w \in Workers |-> "idle"]
    /\ locked = [w \in Workers |-> NoMsg]
    /\ held = [w \in Workers |-> NoMsg]
    /\ verdict = [w \in Workers |-> "none"]
    /\ stopping = {}
    /\ callbacks = {}
    /\ orphans = [m \in Msgs |-> 0] /\ delivered = [m \in Msgs |-> 0]
    /\ notified = [m \in Msgs |-> {}]
    /\ requeued = {}
    /\ hidden = [m \in Msgs |-> {}]
    /\ late = {} /\ overrun = {}
    /\ losses = [m \in Msgs |-> 0]
    /\ faults = 0

(* One more thing goes wrong; the bound keeps the instance finite. *)
Disturb == faults < MaxFaults /\ faults' = faults + 1

-----------------------------------------------------------------------------
(* The API inserts a batch of one client in a transaction.  NOW() is the   *)
(* time that began; then it waits for the client's advisory lock.          *)
BeginEnqueue(S) ==
    /\ S # {}
    /\ \A m \in S : status[m] = "absent" /\ insertedAt[m] = 0
    /\ \A m, n \in S : ClientOf[m] = ClientOf[n]
    /\ clock' = clock + 1
    /\ insertedAt' = [m \in Msgs |-> IF m \in S THEN clock' ELSE insertedAt[m]]
    /\ UNCHANGED <<status, aged, process, network, webhook, history, faults>>

(* The whole batch becomes visible, in no order with the batches begun     *)
(* before or after.  One that is rolled back never comes to this.          *)
CommitEnqueue(S) ==
    /\ \E m \in S : S = {n \in Msgs : insertedAt[n] = insertedAt[m]}
    /\ \A m \in S : status[m] = "absent" /\ insertedAt[m] > 0
    /\ status' = [m \in Msgs |-> IF m \in S THEN "pending" ELSE status[m]]
    /\ UNCHANGED <<insertedAt, clock, aged, process, network, webhook, history, faults>>

(* The tenant and application filters of a worker's claim; an application  *)
(* of NULL is IN no list.                                                  *)
Handles(w, m) ==
    /\ OwnerOf[w] = AnyClient \/ ClientOf[m] = OwnerOf[w]
    /\ AppsOf[w] = {} \/ AppOf[m] \in AppsOf[w]

LockedByOthers(w) == {locked[v] : v \in Workers \ {w}}

\* Faulty variants: the claim forgets to exclude other workers' rows, retries
\* failed rows, or takes rows in any order.
FaultyClaimTaken(w) ==
    {m \in Msgs \ LockedByOthers(w) : status[m] \in {"pending", "processing"} /\ Handles(w, m)}
FaultyClaimFailed(w) ==
    {m \in Msgs \ LockedByOthers(w) : status[m] \in {"pending", "failed"} /\ Handles(w, m)}
FaultyOrder(S) == S

(* The rows the subquery of the claim may pick: pending, and not locked by *)
(* another claim (SKIP LOCKED).                                            *)
Claimable(w) ==
    {m \in Msgs \ LockedByOthers(w) : status[m] = "pending" /\ Handles(w, m)}

(* ORDER BY insertDateTime LIMIT 1: some row none other is older than. *)
Oldest(S) == {m \in S : \A n \in S : insertedAt[m] <= insertedAt[n]}

(* ClaimPendingOutbox begins: the statement reads the table and locks the  *)
(* row.  What is not committed, or locked by another claim, it does not    *)
(* see.                                                                    *)
LockOldest(w) ==
    /\ pc[w] = "idle" /\ w \notin stopping
    /\ \E m \in Oldest(Claimable(w)) :
          /\ locked' = [locked EXCEPT ![w] = m]
          /\ hidden' = [hidden EXCEPT ![m] =
                 @ \cup {n \in Msgs : status[n] = "absent" \/ n \in LockedByOthers(w)}]
    /\ pc' = [pc EXCEPT ![w] = "claiming"]
    /\ UNCHANGED <<table, held, verdict, stopping, network, webhook, requeued, leases, faults>>

EndClaim(w, step) ==
    /\ pc[w] = "claiming"
    /\ pc' = [pc EXCEPT ![w] = step]
    /\ locked' = [locked EXCEPT ![w] = NoMsg]

(* UPDATE ... status = 3, claimed_at = NOW(), and the row is returned. *)
Claim(w) ==
    /\ EndClaim(w, "claimed")
    /\ AppOf[locked[w]] # NullApp
    /\ status' = [status EXCEPT ![locked[w]] = "processing"]
    /\ held' = [held EXCEPT ![w] = locked[w]]
    /\ UNCHANGED <<insertedAt, clock, aged, verdict, stopping, network, webhook, history, faults>>

(* The claim commits and its RETURNING row never reaches the worker: a     *)
(* NULL application does not scan into a Go string, the context was        *)
(* cancelled meanwhile, or the connection broke.  The cycle returns.       *)
ClaimUnread(w) ==
    /\ EndClaim(w, "idle")
    /\ status' = [status EXCEPT ![locked[w]] = "processing"]
    /\ IF AppOf[locked[w]] = NullApp \/ w \in stopping THEN UNCHANGED faults ELSE Disturb
    /\ UNCHANGED <<insertedAt, clock, aged, held, verdict, stopping, network, webhook, history>>

(* The statement is rolled back, and the row is pending as before. *)
ClaimFails(w) ==
    /\ EndClaim(w, "idle")
    /\ IF w \in stopping THEN UNCHANGED faults ELSE Disturb
    /\ UNCHANGED <<table, held, verdict, stopping, network, webhook, history>>

(* Destination check: a group worker takes any destination. *)
Validate(w) ==
    /\ pc[w] = "claimed"
    /\ IF w \in Direct /\ held[w] \in Malformed
         THEN /\ pc' = [pc EXCEPT ![w] = "settling"]
              /\ verdict' = [verdict EXCEPT ![w] = "invalid"]
         ELSE /\ pc' = [pc EXCEPT ![w] = "routing"]
              /\ UNCHANGED verdict
    /\ UNCHANGED <<table, locked, held, stopping, network, webhook, history, faults>>

(* GetInstances: an instance of the circle, or an error or an empty list. *)
PickInstance(w) ==
    /\ pc[w] = "routing"
    /\ \/ /\ pc' = [pc EXCEPT ![w] = "sending"]
          /\ UNCHANGED verdict
       \/ /\ pc' = [pc EXCEPT ![w] = "settling"]
          /\ verdict' = [verdict EXCEPT ![w] = "error"]
    /\ UNCHANGED <<table, locked, held, stopping, network, webhook, history, faults>>

(* The API answers.  It says success only after WhatsApp took the message; *)
(* an unsuccessful answer may hide a message that went out all the same.   *)
ApiAnswers(w) ==
    /\ pc[w] = "sending"
    /\ \/ /\ verdict' = [verdict EXCEPT ![w] = "success"]
          /\ delivered' = [delivered EXCEPT ![held[w]] = @ + 1]
       \/ /\ verdict' = [verdict EXCEPT ![w] = "failure"]
          /\ \/ delivered' = [delivered EXCEPT ![held[w]] = @ + 1]
             \/ UNCHANGED delivered
    /\ pc' = [pc EXCEPT ![w] = "settling"]
    /\ UNCHANGED <<table, locked, held, stopping, orphans, webhook, history, faults>>

(* A request whose caller is gone may have reached the API, or not. *)
Abandon(m) ==
    \/ orphans' = [orphans EXCEPT ![m] = @ + 1]
    \/ UNCHANGED orphans

(* The call fails: timeout, broken connection, cancelled context. *)
GiveUp(w) ==
    /\ pc[w] = "sending"
    /\ Abandon(held[w])
    /\ verdict' = [verdict EXCEPT ![w] = "error"]
    /\ pc' = [pc EXCEPT ![w] = "settling"]
    /\ UNCHANGED <<table, locked, held, stopping, delivered, webhook, history, faults>>

(* The API sends with a background context: it finishes a send, or fails   *)
(* it, though nobody waits for the answer.                                 *)
OrphanEnds(m) ==
    /\ orphans[m] > 0
    /\ orphans' = [orphans EXCEPT ![m] = @ - 1]
    /\ \/ delivered' = [delivered EXCEPT ![m] = @ + 1]
       \/ UNCHANGED delivered
    /\ UNCHANGED <<table, process, webhook, history, faults>>

\* Faulty variant: a call that ended in an error counts as sent.
FaultyOutcome(v) == IF v \in {"success", "error"} THEN "sent" ELSE "failed"

(* UpdateOutboxSuccess for an answer of success, UpdateOutboxFailed else. *)
Outcome(v) == IF v = "success" THEN "sent" ELSE "failed"

\* Faulty variant: every callback reports success.
FaultyCallback(w) ==
    callbacks \cup (IF verdict[w] \in {"success", "failure"}
                      THEN {[by |-> w, msg |-> held[w], status |-> "sent"]} ELSE {})

(* Only an answer of the API starts a webhook goroutine; the paths that    *)
(* end in an error or in an invalid number return before it.               *)
WithCallback(w) ==
    callbacks \cup (IF verdict[w] \in {"success", "failure"}
                      THEN {[by |-> w, msg |-> held[w], status |-> Outcome(verdict[w])]} ELSE {})

LetGo(w) ==
    /\ held' = [held EXCEPT ![w] = NoMsg]
    /\ verdict' = [verdict EXCEPT ![w] = "none"]
    /\ late' = late \ {w}
    /\ pc' = [pc EXCEPT ![w] = "idle"]

(* A claim that ends without an outcome, counted once: that of a late      *)
(* holder was when it became late.                                         *)
GivenUp(w) ==
    losses' = [m \in Msgs |-> IF m = held[w] /\ w \notin late THEN losses[m] + 1 ELSE losses[m]]

(* An invalid number is recorded with the worker's own context: once that  *)
(* is cancelled the statement does not run.  The other paths use a         *)
(* background context.                                                     *)
CannotRecord(w) == verdict[w] = "invalid" /\ w \in stopping

(* The outcome is written, by id alone, and claimed_at is cleared; the     *)
(* update waits for a claim that has the row locked.                       *)
Settle(w) ==
    /\ pc[w] = "settling"
    /\ ~ CannotRecord(w)
    /\ held[w] \notin LockedByOthers(w)
    /\ status' = [status EXCEPT ![held[w]] = Outcome(verdict[w])]
    /\ aged' = aged \ {held[w]}
    /\ callbacks' = WithCallback(w)
    /\ LetGo(w)
    /\ UNCHANGED <<insertedAt, clock, locked, stopping, network, notified, requeued, hidden,
                   overrun, losses, faults>>

(* The write fails; that is only logged, and the webhook goes out all the  *)
(* same.                                                                   *)
SettleLost(w) ==
    /\ pc[w] = "settling"
    /\ IF CannotRecord(w) THEN UNCHANGED faults ELSE Disturb
    /\ callbacks' = WithCallback(w)
    /\ GivenUp(w)
    /\ LetGo(w)
    /\ UNCHANGED <<table, locked, stopping, network, notified, requeued, hidden, overrun>>

(* sendWebhook: one attempt. *)
CallbackEnds(c) ==
    /\ callbacks' = callbacks \ {c}
    /\ \/ /\ notified' = [notified EXCEPT ![c.msg] = @ \cup {c.status}]
          /\ UNCHANGED faults
       \/ Disturb /\ UNCHANGED notified
    /\ UNCHANGED <<table, process, network, history>>

-----------------------------------------------------------------------------
(* Ten minutes pass since m was claimed.  Nothing bounds a cycle to less:  *)
(* the calls to the API have 30 s, but most of the statements of a cycle,  *)
(* the log rows written before an outcome and some of the outcomes among   *)
(* them, run without any timeout.  A holder that is still at work then is  *)
(* late.                                                                   *)
ClaimAges(m) ==
    /\ status[m] = "processing" /\ m \notin aged
    /\ aged' = aged \cup {m}
    /\ IF \E w \in Workers : held[w] = m /\ w \notin late
         THEN /\ Disturb
              /\ late' = late \cup {w \in Workers : held[w] = m}
              /\ overrun' = overrun \cup {m}
              /\ losses' = [losses EXCEPT ![m] = @ + 1]
         ELSE UNCHANGED <<leases, faults>>
    /\ UNCHANGED <<status, insertedAt, clock, process, network, webhook, requeued, hidden>>

\* Faulty variants: the reaper ignores the age of a claim, the status of a
\* row without one, or reaps nothing.
FaultyReapAll == {m \in Msgs : status[m] = "processing"}
FaultyReapUnclaimed == aged \cup {m \in Msgs : status[m] \in Settled}
FaultyReapNone == {}

(* WHERE status = 3 AND claimed_at < cutoff. *)
StaleClaims == {m \in aged : status[m] = "processing"}

(* ReapStaleClaims: one UPDATE over all stale rows. *)
ReapStaleClaims ==
    /\ status' = [m \in Msgs |-> IF m \in StaleClaims THEN "pending" ELSE status[m]]
    /\ requeued' = requeued \cup StaleClaims
    /\ aged' = {}
    /\ UNCHANGED <<insertedAt, clock, hidden, leases>>

Running(w) == pc[w] \notin {"stopped", "down"}

(* The manager's ticker, every 60 s in a process that is up. *)
Reap ==
    /\ \E w \in Workers : Running(w)
    /\ ReapStaleClaims
    /\ UNCHANGED <<process, network, webhook, faults>>

(* SIGTERM: the manager cancels the context and waits for the cycle. *)
Stop(w) ==
    /\ Running(w) /\ w \notin stopping
    /\ Disturb
    /\ stopping' = stopping \cup {w}
    /\ UNCHANGED <<table, pc, locked, held, verdict, network, webhook, history>>

(* The loop sees the cancelled context between two cycles.  The process    *)
(* ends without waiting for its webhook goroutines.                        *)
Exit(w) ==
    /\ pc[w] = "idle" /\ w \in stopping
    /\ pc' = [pc EXCEPT ![w] = "stopped"]
    /\ callbacks' = {c \in callbacks : c.by # w}
    /\ UNCHANGED <<table, locked, held, verdict, stopping, network, notified, history, faults>>

(* The process dies; its claim statement, if one is under way, is rolled   *)
(* back or committed all the same.                                         *)
Crash(w) ==
    /\ Running(w)
    /\ Disturb
    /\ \/ UNCHANGED status
       \/ locked[w] # NoMsg /\ status' = [status EXCEPT ![locked[w]] = "processing"]
    /\ IF pc[w] = "sending" THEN Abandon(held[w]) ELSE UNCHANGED orphans
    /\ GivenUp(w)
    /\ locked' = [locked EXCEPT ![w] = NoMsg]
    /\ held' = [held EXCEPT ![w] = NoMsg]
    /\ verdict' = [verdict EXCEPT ![w] = "none"]
    /\ late' = late \ {w}
    /\ pc' = [pc EXCEPT ![w] = "down"]
    /\ callbacks' = {c \in callbacks : c.by # w}
    /\ UNCHANGED <<insertedAt, clock, aged, stopping, delivered, notified, requeued, hidden, overrun>>

(* A process starts: the startup sweep, then its worker. *)
Restart(w) ==
    /\ ~ Running(w)
    /\ ReapStaleClaims
    /\ pc' = [pc EXCEPT ![w] = "idle"]
    /\ stopping' = stopping \ {w}
    /\ UNCHANGED <<locked, held, verdict, network, webhook, faults>>

-----------------------------------------------------------------------------
Cycle(w) ==
    \/ LockOldest(w) \/ Claim(w) \/ ClaimUnread(w) \/ ClaimFails(w)
    \/ Validate(w) \/ PickInstance(w)
    \/ ApiAnswers(w) \/ GiveUp(w) \/ Settle(w) \/ SettleLost(w) \/ Exit(w)

Next ==
    \/ \E S \in SUBSET Msgs : BeginEnqueue(S) \/ CommitEnqueue(S)
    \/ \E w \in Workers : Cycle(w) \/ Stop(w) \/ Crash(w) \/ Restart(w)
    \/ \E m \in Msgs : OrphanEnds(m) \/ ClaimAges(m)
    \/ \E c \in callbacks : CallbackEnds(c)
    \/ Reap

Spec == Init /\ [][Next]_vars

(* A worker that runs takes its next step, a timer fires, time passes, and *)
(* a process that ended is started again (restart: unless-stopped).        *)
Fairness ==
    /\ \A w \in Workers : WF_vars(Cycle(w)) /\ WF_vars(Restart(w))
    /\ \A m \in Msgs : WF_vars(ClaimAges(m)) /\ WF_vars(OrphanEnds(m))
    /\ WF_vars(Reap)
    /\ WF_vars(\E c \in callbacks : CallbackEnds(c))

FairSpec == Spec /\ Fairness

(* Less than that, and enough where faults are bounded and rows have an    *)
(* application: something of it goes on as long as anything can.           *)
Work ==
    \/ \E w \in Workers : Cycle(w) \/ Restart(w)
    \/ \E m \in Msgs : OrphanEnds(m) \/ ClaimAges(m)
    \/ \E c \in callbacks : CallbackEnds(c)
    \/ Reap

WorkSpec == Spec /\ WF_vars(Work)

-----------------------------------------------------------------------------
(* What the outbox guarantees.                                             *)

(* Two workers have one row in hand only if one of them has been at it for *)
(* longer than the reaper waits; and a worker whose row never saw such a   *)
(* holder finds it still in processing when it comes back with the         *)
(* outcome: the update by id alone in UpdateOutboxSuccess and              *)
(* UpdateOutboxFailed then overwrites nobody else's work.                  *)
LeaseSafety ==
    /\ \A v, w \in Workers :
          v # w /\ held[v] = held[w] /\ held[v] # NoMsg => v \in late \/ w \in late
    /\ \A w \in Workers :
          held[w] # NoMsg => status[held[w]] = "processing" \/ held[w] \in overrun

(* A row reaches WhatsApp once, and once more for each claim of it that    *)
(* came to nothing: a crash, a lost write, a worker that the reaper took   *)
(* for dead.  Sends still under way are counted.                           *)
CopiesBounded ==
    \A m \in Msgs :
        delivered[m] + orphans[m]
            + Cardinality({w \in Workers : pc[w] = "sending" /\ held[w] = m})
          <= 1 + losses[m]

(* No row is reported as sent that no API call delivered. *)
SentWasDelivered == \A m \in Msgs : status[m] = "sent" => delivered[m] > 0

(* What the webhook receiver was told, or is about to be told, is what the *)
(* row says, unless an outcome of that row was lost on its way to the      *)
(* table (sendWebhook runs whether or not the update succeeded).           *)
CallbacksAgree ==
    /\ \A c \in callbacks : status[c.msg] = c.status \/ losses[c.msg] > 0
    /\ \A m \in Msgs : notified[m] \subseteq {status[m]} \/ losses[m] > 0

(* What a late holder cannot break, though it writes over what others have *)
(* recorded: the count of the copies, the truth of `sent`, and the word of *)
(* the webhook about rows no claim of which came to nothing.               *)
RightWhenLate == CopiesBounded /\ SentWasDelivered /\ CallbacksAgree

(* Sequential FIFO queuing: among rows the same workers may take, one      *)
(* whose enqueue began later overtakes an earlier one only if the earlier  *)
(* one was claimed before, lost, and requeued by the reaper, or if it was  *)
(* out of sight when the later one was claimed: its transaction had not    *)
(* committed, or another claim had it locked and then failed.              *)
FIFOUnlessRequeued ==
    \A m, n \in Msgs :
        /\ status[m] = "pending" /\ status[n] \notin {"absent", "pending"}
        /\ insertedAt[m] < insertedAt[n]
        /\ \A w \in Workers : Handles(w, n) => Handles(w, m)
        => m \in requeued \cup hidden[n]

(* A row that has an outcome is never taken back by a worker, the reaper   *)
(* or a restart, and its outcome stays what it is, unless two workers came *)
(* back with one, the reaper having outrun the first.                      *)
SettledIsFinal ==
    [][\A m \in Msgs :
          status[m] \in Settled =>
             /\ status'[m] \in Settled
             /\ status'[m] = status[m] \/ m \in overrun]_vars

(* The outbox with its timer is a queue with leases that may run out. *)
Lease == [m \in Msgs |-> {w \in Workers \ late : held[w] = m}]
Past  == [m \in Msgs |-> {w \in late : held[w] = m}]
Budget == [m \in Msgs |-> 1 + losses[m]]

LQ == INSTANCE LeasedQueue
        WITH state <- status, lease <- Lease, past <- Past, expired <- overrun,
             copies <- delivered, budget <- Budget

(* Every step of the workers, the reaper and the API is a step of the      *)
(* leased queue or changes nothing it can see.                             *)
ImplementsLeasedQueue == LQ!Spec

(* A row that some worker handles is settled in the end, whatever crashes, *)
(* stops and lost answers happen to it on the way.                         *)
EveryRowSettles ==
    \A m \in Msgs :
        (\E w \in Workers : Handles(w, m)) =>
            (status[m] = "pending" ~> status[m] \in Settled)
=============================================================================
