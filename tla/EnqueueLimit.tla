---------------------------- MODULE EnqueueLimit ----------------------------
(***************************************************************************)
(* The daily limit on the outbox: EnqueueOutboxMessageWithLimit and        *)
(* EnqueueOutboxBatchWithLimit of internal/model/outbox.go.  Each request  *)
(* is one database transaction: it takes the advisory lock of its user,    *)
(* counts the user's rows of the day, and inserts its rows, which others   *)
(* see when it commits.  The date of a transaction is the date it began:   *)
(* NOW() and CURRENT_DATE do not move while it waits for the lock, so      *)
(* midnight may pass in between.                                           *)
(***************************************************************************)
EXTENDS Naturals

CONSTANTS
    Txns,       \* requests, each served by one transaction
    Users,
    UserOf,     \* UserOf[t]: the authenticated user of request t
    SizeOf,     \* SizeOf[t]: how many messages it enqueues, all or none
    MaxDaily,   \* OUTBOX_MAX_DAILY_PER_USER
    LastDay,    \* bound: the last day of the instance
    NoTxn

ASSUME EnqueueAssumption ==
    /\ UserOf \in [Txns -> Users]
    /\ SizeOf \in [Txns -> Nat \ {0}]
    /\ MaxDaily \in Nat /\ LastDay \in Nat
    /\ NoTxn \notin Txns

VARIABLES
    today,    \* the date of the database server
    rows,     \* rows[u][d]: committed rows of u with an insertDateTime on day d
    lock,     \* lock[u]: holder of pg_advisory_xact_lock(u)
    step,     \* step[t]: how far transaction t is
    date,     \* date[t]: the day t began
    count     \* count[t]: what t's SELECT COUNT(*) returned

vars == <<today, rows, lock, step, date, count>>

Days  == 0..LastDay
Steps == {"new", "waiting", "locked", "counted", "committed", "rejected", "failed"}
Locked == {"locked", "counted"}
Open  == {"waiting"} \cup Locked

(* The lock of a user is held by a request of that user that is between    *)
(* taking it and its end, and every such request holds it.                 *)
TypeOK ==
    /\ today \in Days
    /\ rows \in [Users -> [Days -> Nat]]
    /\ lock \in [Users -> Txns \cup {NoTxn}]
    /\ step \in [Txns -> Steps]
    /\ date \in [Txns -> Days]
    /\ count \in [Txns -> Nat]
    /\ \A t \in Txns : step[t] \in Locked <=> lock[UserOf[t]] = t
    /\ \A u \in Users : lock[u] # NoTxn => UserOf[lock[u]] = u

Init ==
    /\ today = 0
    /\ rows = [u \in Users |-> [d \in Days |-> 0]]
    /\ lock = [u \in Users |-> NoTxn]
    /\ step = [t \in Txns |-> "new"]
    /\ date = [t \in Txns |-> 0]
    /\ count = [t \in Txns |-> 0]

(* BEGIN: the transaction's clock stops here. *)
Begin(t) ==
    /\ step[t] = "new"
    /\ step' = [step EXCEPT ![t] = "waiting"]
    /\ date' = [date EXCEPT ![t] = today]
    /\ UNCHANGED <<today, rows, lock, count>>

\* Faulty variant: the transaction does not wait for the lock.
FaultyMayLock(t) == TRUE

MayLock(t) == lock[UserOf[t]] = NoTxn

(* SELECT pg_advisory_xact_lock(clientID). *)
Lock(t) ==
    /\ step[t] = "waiting"
    /\ MayLock(t)
    /\ lock' = [lock EXCEPT ![UserOf[t]] = t]
    /\ step' = [step EXCEPT ![t] = "locked"]
    /\ UNCHANGED <<today, rows, date, count>>

\* Faulty variant: only rows of the present date are counted, not those of
\* the transaction's own.
FaultyCounted(t) == rows[UserOf[t]][today]

(* insertdatetime >= CURRENT_DATE, the date of the transaction.  Rows of   *)
(* the next day are in it too when midnight passed since it began; no      *)
(* transaction lives longer than that (see NewDay).                        *)
Counted(t) ==
    LET r == rows[UserOf[t]] IN
    IF date[t] + 1 \in Days THEN r[date[t]] + r[date[t] + 1] ELSE r[date[t]]

(* enqueueCountToday, a statement of its own that sees all commits so far. *)
CountToday(t) ==
    /\ step[t] = "locked"
    /\ count' = [count EXCEPT ![t] = Counted(t)]
    /\ step' = [step EXCEPT ![t] = "counted"]
    /\ UNCHANGED <<today, rows, lock, date>>

\* Faulty variant: a message is refused although it would just fit.
FaultyStrictFits(t) == count[t] + SizeOf[t] < MaxDaily

(* A single message is refused when count >= maxDaily, a batch when        *)
(* count + len > maxDaily: the same condition for one message.             *)
Fits(t) == IF SizeOf[t] = 1 THEN count[t] < MaxDaily ELSE count[t] + SizeOf[t] <= MaxDaily

\* Faulty variant: the transaction ends and the lock stays, as it would with
\* the session-level pg_advisory_lock.
FaultyRelease(t) == UNCHANGED lock

Release(t) == lock' = [lock EXCEPT ![UserOf[t]] = IF @ = t THEN NoTxn ELSE @]

(* The INSERTs and COMMIT; the lock goes with the transaction. *)
Commit(t) ==
    /\ step[t] = "counted" /\ Fits(t)
    /\ rows' = [rows EXCEPT ![UserOf[t]][date[t]] = @ + SizeOf[t]]
    /\ Release(t)
    /\ step' = [step EXCEPT ![t] = "committed"]
    /\ UNCHANGED <<today, date, count>>

(* ErrDailyLimitReached, and the deferred rollback. *)
Reject(t) ==
    /\ step[t] = "counted" /\ ~ Fits(t)
    /\ Release(t)
    /\ step' = [step EXCEPT ![t] = "rejected"]
    /\ UNCHANGED <<today, rows, date, count>>

(* The client hangs up, or a statement fails: rollback. *)
Fail(t) ==
    /\ step[t] \in Open
    /\ Release(t)
    /\ step' = [step EXCEPT ![t] = "failed"]
    /\ UNCHANGED <<today, rows, date, count>>

(* Midnight.  A transaction does not live for a whole day. *)
NewDay ==
    /\ today < LastDay
    /\ \A t \in Txns : step[t] \in Open => date[t] = today
    /\ today' = today + 1
    /\ UNCHANGED <<rows, lock, step, date, count>>

Next ==
    \/ \E t \in Txns : Begin(t) \/ Lock(t) \/ CountToday(t) \/ Commit(t) \/ Reject(t) \/ Fail(t)
    \/ NewDay

Spec == Init /\ [][Next]_vars

(* The server keeps working while a request that it has begun can go on.   *)
Serve(t) == Lock(t) \/ CountToday(t) \/ Commit(t) \/ Reject(t)

Fairness == WF_vars(\E t \in Txns : Serve(t))

FairSpec == Spec /\ Fairness

-----------------------------------------------------------------------------
(* No user ever has more rows of one day than the limit allows, however    *)
(* many requests run at once and whether or not midnight passes between    *)
(* the start of a transaction and its count.                               *)
WithinLimit == \A u \in Users, d \in Days : rows[u][d] <= MaxDaily

(* A request is refused only when the user's rows of its day and of the    *)
(* day after leave no room for it, now and from now on.                    *)
RefusedForCause ==
    \A t \in Txns : step[t] = "rejected" => Counted(t) + SizeOf[t] > MaxDaily

(* Every request that began is answered: requests queue on the lock of     *)
(* their user and no rollback forgets to release it.                       *)
EveryRequestAnswered == \A t \in Txns : step[t] = "waiting" ~> step[t] \notin Open
=============================================================================
