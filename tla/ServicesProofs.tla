-------------------------- MODULE ServicesProofs ----------------------------
(***************************************************************************)
(* Four small components, each with an inductive invariant of its own.     *)
(*                                                                         *)
(* EnqueueLimit: the holder of a user's lock that has counted knows the    *)
(* true count, since only the holder of that lock commits rows of the user.*)
(* Webhook: what a fill and an update know of the row they have read is    *)
(* still the row, unless the history says that it was written since.       *)
(* AuthSessions: a row's cap, if it has one, is its creation and the       *)
(* lifetime; a caller that has made its one late comparison is not between *)
(* a look at the lock and the comparison; what a login has read is the     *)
(* password of now, unless a change is half done or the login was          *)
(* overtaken by one.                                                       *)
(* AutoReply: an old copy of a room is still true of what has been done.   *)
(***************************************************************************)
EXTENDS EnqueueLimit, Webhook, AuthSessions, AutoReply, WellFoundedInduction, TLAPS

-----------------------------------------------------------------------------
(* EnqueueLimit, for every set of requests, users, sizes, limits and days. *)

(* What a transaction has counted is still true, and its day is a day.     *)
CountIsTrue == \A t \in Txns : step[t] = "counted" => count[t] = Counted(t)

LimitInv == TypeOK /\ CountIsTrue /\ WithinLimit

(* The rows of a transaction's own day are among those it counts.          *)
LEMMA CountedCoversItsDay ==
    ASSUME TypeOK, NEW t \in Txns
    PROVE  Counted(t) \in Nat /\ rows[UserOf[t]][date[t]] <= Counted(t)
BY EnqueueAssumption DEF TypeOK, Counted, Days

(* Types, and the agreement of locks and steps, survive every step.        *)
LEMMA LimitTypeStep ==
    ASSUME TypeOK, [Next]_vars
    PROVE  TypeOK'
<1> USE EnqueueAssumption
<1>1. ASSUME NEW t \in Txns, Begin(t) PROVE TypeOK'
  BY <1>1 DEF TypeOK, Begin, Steps, Open, Locked, Days
<1>2. ASSUME NEW t \in Txns, Lock(t) PROVE TypeOK'
  BY <1>2 DEF TypeOK, Lock, MayLock, Steps, Open, Locked
<1>3. ASSUME NEW t \in Txns, CountToday(t) PROVE TypeOK'
  BY <1>3, CountedCoversItsDay DEF TypeOK, CountToday, Steps, Open, Locked
<1>4. ASSUME NEW t \in Txns, Commit(t) PROVE TypeOK'
  BY <1>4 DEF TypeOK, Commit, Release, Steps, Open, Locked
<1>5. ASSUME NEW t \in Txns, Reject(t) PROVE TypeOK'
  BY <1>5 DEF TypeOK, Reject, Release, Steps, Open, Locked
<1>6. ASSUME NEW t \in Txns, Fail(t) PROVE TypeOK'
  BY <1>6 DEF TypeOK, Fail, Release, Steps, Open, Locked
<1>7. CASE NewDay
  BY <1>7 DEF TypeOK, NewDay, Days
<1>8. CASE UNCHANGED vars
  BY <1>8 DEF TypeOK, vars
<1>9. QED BY <1>1, <1>2, <1>3, <1>4, <1>5, <1>6, <1>7, <1>8 DEF Next

(* A count stays true while its transaction holds the lock: the rows of    *)
(* its user do not change under it.                                        *)
LEMMA CountStep ==
    ASSUME TypeOK, CountIsTrue, [Next]_vars
    PROVE  CountIsTrue'
<1> USE EnqueueAssumption
<1>1. ASSUME NEW t \in Txns, Begin(t) PROVE CountIsTrue'
  BY <1>1 DEF TypeOK, CountIsTrue, Counted, Begin
<1>2. ASSUME NEW t \in Txns, Lock(t) PROVE CountIsTrue'
  BY <1>2 DEF TypeOK, CountIsTrue, Counted, Lock
<1>3. ASSUME NEW t \in Txns, CountToday(t) PROVE CountIsTrue'
  BY <1>3 DEF TypeOK, CountIsTrue, Counted, CountToday
<1>4. ASSUME NEW t \in Txns, Commit(t) PROVE CountIsTrue'
  <2> SUFFICES ASSUME NEW s \in Txns, step'[s] = "counted"
               PROVE  count'[s] = Counted(s)'
    BY DEF CountIsTrue
  <2>1. s # t /\ step[s] = "counted"
    BY <1>4 DEF Commit, TypeOK
  <2>2. UserOf[s] # UserOf[t]
    BY <1>4, <2>1 DEF TypeOK, Commit, Locked
  <2>3. rows'[UserOf[s]] = rows[UserOf[s]]
    BY <1>4, <2>2 DEF TypeOK, Commit
  <2>4. QED BY <1>4, <2>1, <2>3 DEF CountIsTrue, Counted, Commit
<1>5. ASSUME NEW t \in Txns, Reject(t) PROVE CountIsTrue'
  BY <1>5 DEF TypeOK, CountIsTrue, Counted, Reject
<1>6. ASSUME NEW t \in Txns, Fail(t) PROVE CountIsTrue'
  BY <1>6 DEF TypeOK, CountIsTrue, Counted, Fail
<1>7. CASE NewDay
  BY <1>7 DEF CountIsTrue, Counted, NewDay
<1>8. CASE UNCHANGED vars
  BY <1>8 DEF CountIsTrue, Counted, vars
<1>9. QED BY <1>1, <1>2, <1>3, <1>4, <1>5, <1>6, <1>7, <1>8 DEF Next

(* Only a commit adds rows, and it adds what its count left room for.      *)
LEMMA LimitStep ==
    ASSUME TypeOK, CountIsTrue, WithinLimit, [Next]_vars
    PROVE  WithinLimit'
<1> USE EnqueueAssumption
<1>1. ASSUME NEW t \in Txns, Commit(t) PROVE WithinLimit'
  <2>1. count[t] = Counted(t)
    BY <1>1 DEF Commit, CountIsTrue
  <2>2. count[t] + SizeOf[t] <= MaxDaily
    BY <1>1 DEF Commit, Fits, TypeOK
  <2>3. rows[UserOf[t]][date[t]] + SizeOf[t] <= MaxDaily
    <3>1. rows[UserOf[t]][date[t]] <= count[t]
      BY <2>1, CountedCoversItsDay
    <3>2. rows[UserOf[t]][date[t]] \in Nat /\ count[t] \in Nat /\ SizeOf[t] \in Nat
      BY DEF TypeOK
    <3>3. QED BY <2>2, <3>1, <3>2
  <2>4. QED BY <1>1, <2>3 DEF WithinLimit, Commit, TypeOK
<1>2. CASE UNCHANGED rows
  BY <1>2 DEF WithinLimit
<1>3. QED
  BY <1>1, <1>2 DEF Next, vars, Begin, Lock, CountToday, Reject, Fail, NewDay

(* No user ever has more rows of one day than the limit, whatever requests *)
(* EnqueueOutboxMessageWithLimit and EnqueueOutboxBatchWithLimit serve at  *)
(* once.                                                                   *)
THEOREM LimitHolds == Spec => []WithinLimit
<1>1. Init => LimitInv
  BY EnqueueAssumption
     DEF Init, LimitInv, TypeOK, CountIsTrue, WithinLimit, Days, Steps, Open, Locked
<1>2. LimitInv /\ [Next]_vars => LimitInv'
  BY LimitTypeStep, CountStep, LimitStep DEF LimitInv
<1>3. LimitInv => WithinLimit
  BY DEF LimitInv
<1>4. QED BY <1>1, <1>2, <1>3, PTL DEF Spec

(* A request that is between its lock and its end holds the lock of its    *)
(* user, and only such a request does.                                     *)
THEOREM LimitTypesHold == Spec => []TypeOK
<1>1. Init => TypeOK
  BY EnqueueAssumption DEF Init, TypeOK, Days, Steps, Open, Locked
<1>2. TypeOK /\ [Next]_vars => TypeOK'
  BY LimitTypeStep
<1>3. QED BY <1>1, <1>2, PTL DEF Spec

(* What refuses a request stays true of it: rows are only added.           *)
LEMMA CauseStep ==
    ASSUME TypeOK, CountIsTrue, RefusedForCause, [Next]_vars
    PROVE  RefusedForCause'
<1> USE EnqueueAssumption
<1> SUFFICES ASSUME NEW t \in Txns, step'[t] = "rejected"
             PROVE  Counted(t)' + SizeOf[t] > MaxDaily
  BY DEF RefusedForCause
<1>1. Counted(t) \in Nat /\ SizeOf[t] \in Nat /\ Counted(t)' \in Nat
  <2>1. TypeOK'
    BY LimitTypeStep
  <2>2. rows'[UserOf[t]] \in [Days -> Nat] /\ date'[t] \in Days
    BY <2>1 DEF TypeOK
  <2>3. Counted(t)' \in Nat
    BY <2>2 DEF Counted
  <2>4. Counted(t) \in Nat /\ SizeOf[t] \in Nat
    BY CountedCoversItsDay
  <2>5. QED BY <2>3, <2>4
<1>2. ASSUME NEW s \in Txns, Commit(s) PROVE Counted(t) <= Counted(t)'
  <2>1. \A u \in Users, d \in Days : rows[u][d] \in Nat /\ rows'[u][d] \in Nat /\ rows[u][d] <= rows'[u][d]
    BY <1>2 DEF Commit, TypeOK
  <2>2. UserOf[t] \in Users /\ date[t] \in Days /\ date' = date
    BY <1>2 DEF Commit, TypeOK
  <2>3. QED BY <2>1, <2>2 DEF Counted, Days
<1>3. CASE step[t] = "rejected"
  <2>1. Counted(t) + SizeOf[t] > MaxDaily
    BY <1>3 DEF RefusedForCause
  <2>2. date'[t] = date[t]
    BY <1>3 DEF Next, vars, Begin, Lock, CountToday, Commit, Reject, Fail, NewDay, TypeOK
  <2>3. Counted(t) <= Counted(t)'
    <3>1. CASE UNCHANGED rows
      BY <1>1, <2>2, <3>1 DEF Counted
    <3>2. QED BY <1>2, <3>1 DEF Next, vars, Begin, Lock, CountToday, Reject, Fail, NewDay
  <2>4. QED BY <1>1, <2>1, <2>3
<1>4. CASE step[t] # "rejected"
  <2>1. Reject(t)
    BY <1>4 DEF Next, vars, Begin, Lock, CountToday, Commit, Reject, Fail, NewDay, TypeOK
  <2>2. Counted(t)' = Counted(t) /\ Counted(t) = count[t]
    BY <2>1 DEF Reject, Counted, CountIsTrue
  <2>3. ~ Fits(t) => count[t] + SizeOf[t] > MaxDaily
    BY <1>1, <2>2 DEF Fits
  <2>4. QED BY <2>1, <2>2, <2>3 DEF Reject
<1>5. QED BY <1>3, <1>4

(* The checks of single messages and of batches refuse only what does not  *)
(* fit, at the boundary and around midnight.                               *)
THEOREM RefusalsHaveCause == Spec => []RefusedForCause
<1>1. Init => TypeOK /\ CountIsTrue /\ RefusedForCause
  BY EnqueueAssumption
     DEF Init, TypeOK, CountIsTrue, RefusedForCause, Days, Steps, Open, Locked
<1>2. TypeOK /\ CountIsTrue /\ RefusedForCause /\ [Next]_vars => (TypeOK /\ CountIsTrue /\ RefusedForCause)'
  BY LimitTypeStep, CountStep, CauseStep
<1>3. QED BY <1>1, <1>2, PTL DEF Spec

-----------------------------------------------------------------------------
(* Webhook, for every number of messages, updates and attempts.            *)

(* The part of the types the argument needs. *)
WebhookTyped ==
    /\ sending \in [Sends -> {"new", "filling", "trying", "waiting", "ended"}]
    /\ config = [s \in Sends |-> config[s]]
    /\ overwritten \in [Sends -> BOOLEAN]
    /\ updating \in [Updates -> {"new", "read", "written", "ended"}]
    /\ secret = [u \in Updates |-> secret[u]]
    /\ outdated \in [Updates -> BOOLEAN]

(* A fill holds the row, unless the row was written under it. *)
FillsHoldTheRow == \A s \in Sends : sending[s] = "filling" => overwritten[s] \/ config[s] = row

(* An entry differs from the row for a cause, expired or not. *)
EntryHasCause == cache # Missing /\ cache # row => Invalidating \/ behind

(* What an update without a secret has settled on is the row's own. *)
SecretsAreTheRows ==
    \A u \in Updates \ Gives :
       updating[u] = "read" => outdated[u] \/ row.secret = 0 \/ secret[u] = row.secret

WebhookInv == WebhookTyped /\ FillsHoldTheRow /\ EntryHasCause /\ SecretsAreTheRows

LEMMA WebhookInvInit == WebhookInit => WebhookInv
BY DEF WebhookInit, WebhookInv, WebhookTyped, FillsHoldTheRow, EntryHasCause, SecretsAreTheRows

(* The steps of a message: none of them writes the row. *)
LEMMA WebhookSendStep ==
    ASSUME WebhookInv, NEW s \in Sends, Hit(s) \/ Miss(s) \/ Fill(s) \/ Try(s) \/ Retry(s)
    PROVE  WebhookInv'
<1> USE DEF WebhookInv, WebhookTyped
<1>1. UNCHANGED row /\ UNCHANGED updates
  BY DEF Hit, Miss, Fill, Try, Retry
<1>2. SecretsAreTheRows'
  BY <1>1 DEF SecretsAreTheRows, updates
<1>3. CASE Hit(s)
  BY <1>1, <1>2, <1>3 DEF Hit, Proceed, Goto, FillsHoldTheRow, EntryHasCause, Invalidating, entry, updates
<1>4. CASE Miss(s)
  BY <1>1, <1>2, <1>4 DEF Miss, Goto, FillsHoldTheRow, EntryHasCause, Invalidating, entry, updates
<1>5. CASE Fill(s)
  BY <1>1, <1>2, <1>5 DEF Fill, Proceed, Goto, FillsHoldTheRow, EntryHasCause, Invalidating, updates
<1>6. CASE Try(s) \/ Retry(s)
  BY <1>1, <1>2, <1>6 DEF Try, Retry, Goto, FillsHoldTheRow, EntryHasCause, Invalidating, entry, updates
<1>7. QED BY <1>3, <1>4, <1>5, <1>6

(* The steps of an update. *)
LEMMA WebhookUpdateStep ==
    ASSUME WebhookInv, NEW u \in Updates,
           ReadInstance(u) \/ UpdateInstanceWebhook(u) \/ InvalidateWebhookCache(u)
    PROVE  WebhookInv'
<1> USE DEF WebhookInv, WebhookTyped
<1>1. CASE ReadInstance(u)
  BY <1>1 DEF ReadInstance, Effective, FillsHoldTheRow, EntryHasCause, SecretsAreTheRows, Invalidating, entry, sends
<1>2. CASE UpdateInstanceWebhook(u) /\ row = Missing
  BY <1>2 DEF UpdateInstanceWebhook, FillsHoldTheRow, EntryHasCause, SecretsAreTheRows, Invalidating, entry
<1>3. CASE UpdateInstanceWebhook(u) /\ row # Missing
  <2>1. WebhookTyped' /\ FillsHoldTheRow' /\ SecretsAreTheRows'
    BY <1>3 DEF UpdateInstanceWebhook, Overtake, FillsHoldTheRow, SecretsAreTheRows
  <2>2. updating'[u] = "written"
    BY <1>3 DEF UpdateInstanceWebhook
  <2>3. QED BY <2>1, <2>2 DEF EntryHasCause, Invalidating
<1>4. CASE InvalidateWebhookCache(u)
  BY <1>4 DEF InvalidateWebhookCache, Invalidate, Clear, FillsHoldTheRow, EntryHasCause, SecretsAreTheRows, sends
<1>5. QED BY <1>1, <1>2, <1>3, <1>4

LEMMA WebhookInvStep ==
    ASSUME WebhookInv, [WebhookNext]_webhookVars
    PROVE  WebhookInv'
<1> USE DEF WebhookInv, WebhookTyped
<1>1. CASE Expire \/ Sweep
  BY <1>1 DEF Expire, Sweep, Clear, FillsHoldTheRow, EntryHasCause, SecretsAreTheRows, Invalidating, sends, updates
<1>2. CASE DeleteRow
  BY <1>2 DEF DeleteRow, Overtake, FillsHoldTheRow, EntryHasCause, SecretsAreTheRows, Invalidating, entry
<1>3. CASE ForgetInstance
  BY <1>3 DEF ForgetInstance, Invalidate, Clear, FillsHoldTheRow, EntryHasCause, SecretsAreTheRows, sends
<1>4. CASE UNCHANGED webhookVars
  BY <1>4 DEF webhookVars, entry, sends, updates, FillsHoldTheRow, EntryHasCause, SecretsAreTheRows, Invalidating
<1>5. QED BY <1>1, <1>2, <1>3, <1>4, WebhookSendStep, WebhookUpdateStep DEF WebhookNext

(* GetWebhookConfig: the entry in use is the row's configuration but for   *)
(* the two named causes.                                                   *)
THEOREM StaleForCauseHolds == WebhookSpec => []StaleForCause
<1>1. WebhookInv => StaleForCause
  BY DEF WebhookInv, EntryHasCause, StaleForCause, Usable
<1>2. WebhookInv /\ [WebhookNext]_webhookVars => WebhookInv'
  BY WebhookInvStep
<1>3. QED BY <1>1, <1>2, WebhookInvInit, PTL DEF WebhookSpec

(* SetWebhookConfig keeps the secret of a request that names none, unless  *)
(* the row was written between its two statements.                         *)
THEOREM SecretKeptHolds == WebhookSpec => SecretKept
<1>1. ASSUME WebhookInv, [WebhookNext]_webhookVars
      PROVE  [\A u \in Updates \ Gives :
                 updating[u] = "read" /\ updating'[u] = "written" =>
                   row'.secret = row.secret \/ row.secret = 0 \/ outdated[u]]_webhookVars
  <2> SUFFICES ASSUME NEW u \in Updates \ Gives, updating[u] = "read", updating'[u] = "written"
               PROVE  row'.secret = row.secret \/ row.secret = 0 \/ outdated[u]
    OBVIOUS
  <2>1. UpdateInstanceWebhook(u) /\ row # Missing
    BY <1>1 DEF WebhookInv, WebhookTyped, WebhookNext, webhookVars, updates, Hit, Miss, Fill, Try, Retry, ReadInstance,
       UpdateInstanceWebhook, InvalidateWebhookCache, Expire, Sweep, DeleteRow, ForgetInstance
  <2>2. row'.secret = secret[u]
    BY <2>1 DEF UpdateInstanceWebhook
  <2>3. QED BY <1>1, <2>2 DEF WebhookInv, SecretsAreTheRows
<1>2. WebhookInv /\ [WebhookNext]_webhookVars => WebhookInv'
  BY WebhookInvStep
<1>3. QED BY <1>1, <1>2, WebhookInvInit, PTL DEF WebhookSpec, SecretKept

-----------------------------------------------------------------------------
(* AuthSessions, for every number of callers and changes.                  *)

Rows == [password : {0} \cup Changes, created : Nat, expires : Nat, cap : Nat \cup {NoCap}]

AuthTyped ==
    /\ now \in Nat
    /\ account \in [password : {0} \cup Changes, active : BOOLEAN, failures : Nat, locked : BOOLEAN]
    /\ sessions \in [Logins -> Rows]
    /\ login \in [Logins ->
          [at : {"idle", "begun", "read", "verified"}, asked : BOOLEAN, read : {0} \cup Changes]]
    /\ change \in [Changes -> {"new", "verified", "updated", "ended", "failed"}]
    /\ touches \subseteq [login : Logins, until : Nat]
    /\ late \in [Logins -> Nat]

(* The zeros of NoSession fit every lifetime, and only an inherited row has *)
(* no deadline.                                                            *)
CapsAreAbsolute ==
    \A l \in Logins :
       IF sessions[l].cap = NoCap
       THEN l \in Legacy
       ELSE /\ sessions[l].cap <= sessions[l].created + Lifetime
            /\ sessions[l].expires <= sessions[l].created + Lifetime

(* Nobody is late while there is no lock, and who is late once has to      *)
(* begin again and ask, which the lock refuses.                            *)
OnceLate ==
    \A l \in Logins :
       /\ ~ account.locked => late[l] = 0
       /\ late[l] <= 1
       /\ late[l] = 1 => ~ (login[l].at \in {"begun", "read"} /\ login[l].asked)

HalfDone == \E k \in Changes : change[k] \in {"updated", "failed"}

(* Both what is open and what is about to be opened has the password of now. *)
PasswordOfNow ==
    HalfDone \/ \A l \in Logins \ raced :
       /\ Exists(l) => sessions[l].password = account.password
       /\ login[l].at \in {"read", "verified"} => login[l].read = account.password

AuthInv == AuthTyped /\ CapsAreAbsolute /\ OnceLate /\ PasswordOfNow

LEMMA EarlierIsLower ==
    ASSUME NEW a \in Nat, NEW b \in Nat
    PROVE  Earlier(a, b) \in Nat /\ Earlier(a, b) <= a /\ Earlier(a, b) <= b
BY DEF Earlier

LEMMA AuthInvInit == AuthInit => AuthInv
BY AuthAssumption DEF AuthInit, AuthInv, AuthTyped, Rows, NoSession, Inherited, NoCap, Idle, CapsAreAbsolute, OnceLate,
   PasswordOfNow, HalfDone, Exists

(* Deleting rows disturbs nothing. *)
LEMMA DeleteKeeps ==
    ASSUME AuthInv, NEW L, Delete(L)
    PROVE  /\ sessions' \in [Logins -> Rows] /\ touches' \subseteq [login : Logins, until : Nat]
           /\ CapsAreAbsolute'
           /\ \A l \in Logins : Exists(l)' => Exists(l) /\ sessions'[l] = sessions[l]
BY AuthAssumption DEF Delete, AuthInv, AuthTyped, Rows, NoSession, NoCap, CapsAreAbsolute, Exists

(* LoginUser. *)
LEMMA LoginStep ==
    ASSUME AuthInv, NEW l \in Logins,
           BeginLogin(l) \/ ReadHash(l) \/ WrongPassword(l) \/ RightPassword(l) \/ CreateAuthSession(l)
    PROVE  AuthInv'
<1> USE AuthAssumption DEF AuthInv, AuthTyped
<1>1. CASE BeginLogin(l)
  BY <1>1 DEF BeginLogin, MayTry, CapsAreAbsolute, OnceLate, PasswordOfNow, HalfDone, Exists
<1>2. CASE ReadHash(l)
  <2>1. UNCHANGED <<now, account, sessions, change, touches, raced, late>>
    BY <1>2 DEF ReadHash
  <2>2. CASE login' = [login EXCEPT ![l] = Idle]
    BY <2>1, <2>2 DEF Idle, CapsAreAbsolute, OnceLate, PasswordOfNow, HalfDone, Exists
  <2>3. CASE login' = [login EXCEPT ![l].at = "read", ![l].read = account.password]
    <3>1. login'[l] = [at |-> "read", asked |-> login[l].asked, read |-> account.password]
      BY <2>3
    <3>2. login' = [login EXCEPT ![l] = login'[l]]
      BY <2>3
    <3>3. login[l].at = "begun"
      BY <1>2 DEF ReadHash
    <3>4. AuthTyped' /\ CapsAreAbsolute'
      BY <2>1, <3>1, <3>2 DEF CapsAreAbsolute
    <3>5. OnceLate' /\ PasswordOfNow'
      BY <2>1, <3>1, <3>2, <3>3 DEF OnceLate, PasswordOfNow, HalfDone, Exists
    <3>6. QED BY <3>4, <3>5
  <2>4. QED BY <1>2, <2>2, <2>3 DEF ReadHash
<1>3. CASE WrongPassword(l)
  <2>1. account' \in [password : {0} \cup Changes, active : BOOLEAN, failures : Nat, locked : BOOLEAN]
        /\ account'.password = account.password /\ (account.locked => account'.locked)
    <3>1. Earlier(account.failures + 1, Threshold) \in Nat
      BY EarlierIsLower
    <3>2. (account.locked \/ account.failures + 1 >= Threshold) \in BOOLEAN
      OBVIOUS
    <3>3. Count = [account EXCEPT !.failures = Earlier(account.failures + 1, Threshold),
                      !.locked = account.locked \/ account.failures + 1 >= Threshold]
      BY DEF Count
    <3>4. CASE account' = Count
      BY <3>1, <3>2, <3>3, <3>4
    <3>5. CASE account' = account
      BY <3>5
    <3>6. QED BY <1>3, <3>4, <3>5 DEF WrongPassword
  <2>2. AuthTyped' /\ CapsAreAbsolute'
    BY <1>3, <2>1 DEF WrongPassword, Idle, CapsAreAbsolute
  <2>3. OnceLate'
    BY <1>3, <2>1 DEF WrongPassword, Idle, OnceLate
  <2>4. PasswordOfNow'
    BY <1>3, <2>1 DEF WrongPassword, Idle, PasswordOfNow, HalfDone, Exists
  <2>5. QED BY <2>2, <2>3, <2>4
<1>4. CASE RightPassword(l)
  <2>1. /\ login' = [login EXCEPT ![l].at = "verified", ![l].asked = FALSE]
        /\ UNCHANGED <<now, sessions, change, touches, raced>>
    BY <1>4 DEF RightPassword
  <2>2. \/ /\ account' = [account EXCEPT !.failures = 0, !.locked = FALSE]
           /\ late' = [m \in Logins |-> 0]
        \/ UNCHANGED <<account, late>>
    BY <1>4 DEF RightPassword
  <2>3. AuthTyped' /\ CapsAreAbsolute' /\ account'.password = account.password
    <3>1. login'[l] = [at |-> "verified", asked |-> FALSE, read |-> login[l].read]
      BY <2>1
    <3>2. login' = [login EXCEPT ![l] = login'[l]]
      BY <2>1
    <3>3. login' \in [Logins ->
              [at : {"idle", "begun", "read", "verified"}, asked : BOOLEAN, read : {0} \cup Changes]]
      <4>1. login'[l] \in [at : {"idle", "begun", "read", "verified"}, asked : BOOLEAN, read : {0} \cup Changes]
        BY <3>1
      <4>2. QED BY <3>2, <4>1
    <3>4. /\ account' \in [password : {0} \cup Changes, active : BOOLEAN, failures : Nat, locked : BOOLEAN]
          /\ account'.password = account.password
      <4>1. CASE account' = [account EXCEPT !.failures = 0, !.locked = FALSE]
        BY <4>1
      <4>2. CASE account' = account
        BY <4>2
      <4>3. QED BY <2>2, <4>1, <4>2
    <3>5. late' \in [Logins -> Nat]
      BY <2>2
    <3>6. QED BY <2>1, <3>3, <3>4, <3>5 DEF CapsAreAbsolute
  <2>4. OnceLate'
    BY <2>1, <2>2 DEF OnceLate
  <2>5. PasswordOfNow'
    BY <1>4, <2>1, <2>3 DEF RightPassword, PasswordOfNow, HalfDone, Exists
  <2>6. QED BY <2>3, <2>4, <2>5
<1>5. CASE CreateAuthSession(l)
  <2> DEFINE cap == now + Lifetime
             expiry == Earlier(now + Sliding, cap)
             opened == [password |-> login[l].read, created |-> now, cap |-> cap, expires |-> expiry]
  <2>1. expiry \in Nat /\ expiry <= cap /\ cap \in Nat
    <3>1. now + Lifetime \in Nat /\ now + Sliding \in Nat
      OBVIOUS
    <3>2. QED BY <3>1, EarlierIsLower
  <2>2. /\ sessions' = [sessions EXCEPT ![l] = opened] \/ sessions' = sessions
        /\ login' = [login EXCEPT ![l] = Idle] /\ login[l].at = "verified"
        /\ UNCHANGED <<now, account, change, touches, raced, late>>
    BY <1>5 DEF CreateAuthSession
  <2> HIDE DEF cap, expiry
  <2>3. AuthTyped'
    <3>1. opened \in Rows
      BY <2>1 DEF Rows, cap
    <3>2. sessions' \in [Logins -> Rows]
      BY <2>2, <3>1
    <3>3. login' \in [Logins ->
              [at : {"idle", "begun", "read", "verified"}, asked : BOOLEAN, read : {0} \cup Changes]]
      BY <2>2 DEF Idle
    <3>4. QED BY <2>2, <3>2, <3>3
  <2>4. CapsAreAbsolute'
    <3>1. ASSUME sessions' = [sessions EXCEPT ![l] = opened] PROVE CapsAreAbsolute'
      <4>1. sessions'[l].cap = cap /\ sessions'[l].expires = expiry /\ sessions'[l].created = now
        BY <3>1
      <4>2. \A m \in Logins \ {l} : sessions'[m] = sessions[m]
        BY <3>1
      <4>3. QED BY <2>1, <4>1, <4>2 DEF CapsAreAbsolute, cap, NoCap
    <3>2. QED BY <2>2, <3>1 DEF CapsAreAbsolute
  <2>5. OnceLate'
    BY <2>2 DEF Idle, OnceLate
  <2>6. PasswordOfNow'
    BY <2>2 DEF Idle, PasswordOfNow, HalfDone, Exists
  <2>7. QED BY <2>3, <2>4, <2>5, <2>6
<1>6. QED BY <1>1, <1>2, <1>3, <1>4, <1>5

(* Requests with a session. *)
LEMMA RequestStep ==
    ASSUME AuthInv, NEW l \in Logins, Accept(l) \/ RefuseInactive(l) \/ LogoutUser(l)
    PROVE  AuthInv'
<1> USE AuthAssumption DEF AuthInv, AuthTyped
<1>1. CASE Accept(l)
  BY <1>1 DEF Accept, CapsAreAbsolute, OnceLate, PasswordOfNow, HalfDone, Exists
<1>2. ASSUME NEW L, Delete(L), UNCHANGED <<now, account, login, change, raced, late>>
      PROVE  AuthInv'
  BY <1>2, DeleteKeeps DEF OnceLate, PasswordOfNow, HalfDone
<1>3. QED BY <1>1, <1>2 DEF RefuseInactive, LogoutUser

LEMMA TouchStep ==
    ASSUME AuthInv, NEW t \in touches, TouchAuthSession(t)
    PROVE  AuthInv'
<1> USE AuthAssumption DEF AuthInv, AuthTyped
<1> DEFINE l == t.login
           expiry == Extended(l, t.until)
<1>1. l \in Logins /\ t.until \in Nat /\ sessions[l] \in Rows
  OBVIOUS
<1>2. expiry \in Nat /\ (sessions[l].cap # NoCap => expiry <= sessions[l].cap)
  BY <1>1, EarlierIsLower DEF Extended, Rows
<1>3. /\ sessions' = [sessions EXCEPT ![l].expires = expiry]
      /\ touches' \subseteq touches
      /\ UNCHANGED <<now, account, login, change, raced, late>>
  BY DEF TouchAuthSession
<1>4. sessions[l] = NoSession => expiry = 0
  BY <1>2 DEF NoSession, NoCap
<1> HIDE DEF l, expiry
<1>5. AuthTyped'
  BY <1>1, <1>2, <1>3 DEF Rows
<1>6. /\ sessions'[l].expires = expiry /\ sessions'[l].cap = sessions[l].cap
      /\ sessions'[l].created = sessions[l].created /\ sessions'[l].password = sessions[l].password
      /\ \A m \in Logins \ {l} : sessions'[m] = sessions[m]
  BY <1>1, <1>3 DEF Rows
<1>7. CapsAreAbsolute'
  BY <1>1, <1>2, <1>6 DEF CapsAreAbsolute, Rows, NoCap
<1>8. OnceLate'
  BY <1>3 DEF OnceLate
<1>9. PasswordOfNow'
  <2>1. ASSUME NEW m \in Logins, Exists(m)' PROVE Exists(m)
    <3>1. CASE m # l
      BY <1>6, <2>1, <3>1 DEF Exists
    <3>2. CASE m = l /\ sessions[l] = NoSession
      <4>1. sessions'[l] = NoSession
        BY <1>1, <1>3, <1>4, <3>2 DEF NoSession
      <4>2. QED BY <2>1, <3>2, <4>1 DEF Exists
    <3>3. QED BY <3>1, <3>2 DEF Exists
  <2>2. \A m \in Logins : sessions'[m].password = sessions[m].password
    BY <1>6
  <2>3. QED BY <1>3, <2>1, <2>2 DEF PasswordOfNow, HalfDone
<1>10. QED BY <1>5, <1>7, <1>8, <1>9

(* ChangePassword: while it is half done nothing is said; when it ends,    *)
(* no session is open, and the logins that have read a hash are named.     *)
LEMMA ChangeStep ==
    ASSUME AuthInv, NEW k \in Changes,
           Verify(k) \/ UpdateUserPassword(k) \/ DestroyAllUserSessions(k) \/ DestroyFails(k)
    PROVE  AuthInv'
<1> USE AuthAssumption DEF AuthInv, AuthTyped
<1>1. CASE Verify(k)
  BY <1>1 DEF Verify, At, CapsAreAbsolute, OnceLate, PasswordOfNow, HalfDone, Exists
<1>2. CASE UpdateUserPassword(k)
  <2>1. HalfDone' /\ AuthTyped'
    BY <1>2 DEF UpdateUserPassword, At, HalfDone
  <2>2. account'.locked = account.locked
    BY <1>2 DEF UpdateUserPassword
  <2>3. QED BY <1>2, <2>1, <2>2 DEF UpdateUserPassword, CapsAreAbsolute, OnceLate, PasswordOfNow
<1>3. CASE DestroyAllUserSessions(k)
  <2>1. Delete(Logins) /\ UNCHANGED <<now, account, login, late>>
        /\ change' = [change EXCEPT ![k] = "ended"]
    BY <1>3 DEF DestroyAllUserSessions, Destroyed, At
  <2>2. AuthTyped' /\ CapsAreAbsolute' /\ OnceLate'
    BY <2>1, DeleteKeeps DEF OnceLate
  <2>3. \A l \in Logins : ~ Exists(l)'
    BY <2>1 DEF Delete, Exists
  <2>4. \A l \in Logins \ raced' : login'[l].at \notin {"read", "verified"}
    BY <1>3 DEF DestroyAllUserSessions
  <2>5. QED BY <2>2, <2>3, <2>4 DEF PasswordOfNow
<1>4. CASE DestroyFails(k)
  BY <1>4 DEF DestroyFails, At, CapsAreAbsolute, OnceLate, PasswordOfNow, HalfDone, Exists
<1>5. QED BY <1>1, <1>2, <1>3, <1>4

LEMMA AuthInvStep ==
    ASSUME AuthInv, [AuthNext]_authVars
    PROVE  AuthInv'
<1> USE AuthAssumption DEF AuthInv, AuthTyped
<1>1. CASE Unlock
  <2>1. account'.password = account.password /\ AuthTyped'
    BY <1>1 DEF Unlock
  <2>2. QED
    BY <1>1, <2>1 DEF Unlock, CapsAreAbsolute, OnceLate, PasswordOfNow, HalfDone, Exists
<1>2. CASE AdminUpdateUser
  <2>1. account'.password = account.password /\ account'.locked = account.locked /\ AuthTyped'
    BY <1>2 DEF AdminUpdateUser
  <2>2. QED
    BY <1>2, <2>1 DEF AdminUpdateUser, CapsAreAbsolute, OnceLate, PasswordOfNow, HalfDone, Exists
<1>3. CASE RevokeSessions
  <2>1. CASE Delete(Logins)
    BY <1>3, <2>1, DeleteKeeps DEF RevokeSessions, OnceLate, PasswordOfNow, HalfDone
  <2>2. CASE UNCHANGED <<sessions, touches>>
    BY <1>3, <2>2 DEF RevokeSessions, CapsAreAbsolute, OnceLate, PasswordOfNow, HalfDone, Exists
  <2>3. QED BY <1>3, <2>1, <2>2 DEF RevokeSessions
<1>4. CASE Tick
  BY <1>4 DEF Tick, CapsAreAbsolute, OnceLate, PasswordOfNow, HalfDone, Exists
<1>5. CASE UNCHANGED authVars
  BY <1>5 DEF authVars, CapsAreAbsolute, OnceLate, PasswordOfNow, HalfDone, Exists
<1>6. QED
  BY <1>1, <1>2, <1>3, <1>4, <1>5, LoginStep, RequestStep, TouchStep, ChangeStep DEF AuthNext

LEMMA AuthInvHolds == AuthSpec => []AuthInv
<1>1. AuthInv /\ [AuthNext]_authVars => AuthInv'
  BY AuthInvStep
<1>2. QED BY <1>1, AuthInvInit, PTL DEF AuthSpec

(* LEAST(absoluteExpiry, ...) of TouchAuthSession and the expiry that      *)
(* CreateAuthSession sets: no row outlives its absolute deadline, and the  *)
(* rows without one are those of before there was a deadline.              *)
THEOREM CapAlwaysHolds == AuthSpec => []CapHolds
<1>1. AuthInv => CapHolds
  BY DEF AuthInv, CapsAreAbsolute, CapHolds
<1>2. QED BY <1>1, AuthInvHolds, PTL

(* IsAccountLocked before a comparison: a caller that asked it compares one *)
(* password at most while the account is locked, whatever counts are lost. *)
THEOREM LockoutAlwaysHolds == AuthSpec => []LockoutHolds
<1>1. AuthInv => LockoutHolds
  BY DEF AuthInv, OnceLate, LockoutHolds
<1>2. QED BY <1>1, AuthInvHolds, PTL

(* ChangePassword leaves no session of an older password, but those of the *)
(* logins it overtook.                                                     *)
THEOREM OldPasswordAlwaysShutOut == AuthSpec => []OldPasswordShutOut
<1>1. AuthInv => OldPasswordShutOut
  BY DEF AuthInv, PasswordOfNow, HalfDone, OldPasswordShutOut
<1>2. QED BY <1>1, AuthInvHolds, PTL

-----------------------------------------------------------------------------
(* AutoReply: no reply is skipped, and each instance begins one reply at    *)
(* most in a cooldown, for any rooms, instances, scripts, edits of their   *)
(* lines, messages and calls.                                              *)

Copy == [at : {"reading", "free"}, room : Rooms, script : Scripts, seq : Nat]
Reply == [id : Nat, by : Instances, room : Rooms, script : Scripts, seq : Nat,
          at : {"delayed", "rendered", "sending"}]

ReplyTyped ==
    /\ sequence \in [Rooms -> Nat] /\ script \in [Rooms -> Scripts]
    /\ lines \in [Scripts -> SUBSET Int]
    /\ handler \in [Instances -> {Waiting} \cup Copy]
    /\ replies \subseteq Reply
    /\ messages \in Nat
    /\ taken \in [Rooms -> SUBSET Int]
    /\ started \in [Instances -> [Rooms -> Nat]]

(* While the cooldown of a room runs, each instance began one reply in it  *)
(* at most; when it does not run, nobody has begun one, and a handler that *)
(* found it so has begun none since.                                       *)
CooldownCounts ==
    \A i \in Instances, r \in Rooms :
        /\ started[i][r] <= 1
        /\ r \notin cooling \/ (handler[i].at = "free" /\ handler[i].room = r) => started[i][r] = 0

(* Every line up to k has been taken in the run of r. *)
AllTaken(r, k) == \A n \in lines[script[r]] : 0 < n /\ n <= k => n \in taken[r]

(* What a row or a copy of it says was done was done, and a reply that has *)
(* its line and not yet written its progress has taken what it will write. *)
CopiesAreTrue ==
    \A r \in Rooms \ overtaken :
        /\ AllTaken(r, sequence[r])
        /\ \A i \in Instances : handler[i].room = r =>
              handler[i].script = script[r] /\ AllTaken(r, handler[i].seq)
        /\ \A p \in replies : p.room = r =>
              /\ p.script = script[r] /\ AllTaken(r, p.seq)
              /\ p.at = "rendered" => AllTaken(r, p.seq + 1)

ReplyInv == ReplyTyped /\ CooldownCounts /\ CopiesAreTrue

(* A set of line numbers that is not empty has a least one. *)
LEMMA LeastLine ==
    ASSUME NEW S \in SUBSET Nat, S # {}
    PROVE  Min(S) \in S /\ \A m \in S : Min(S) <= m
<1>1. PICK n \in S : \A m \in S : ~ (<<m, n>> \in OpToRel(<, Nat))
  BY NatLessThanWellFounded, WFMin
<1>2. ASSUME NEW m \in S, m < n PROVE <<m, n>> \in OpToRel(<, Nat)
  BY <1>1, <1>2 DEF OpToRel
<1>3. \A m \in S : ~ (m < n)
  BY <1>1, <1>2, Zenon
<1>4. \A m \in S : n <= m
  BY <1>3
<1> QED
  BY <1>1, <1>4 DEF Min

LEMMA ReplyInvInit == ReplyInit => ReplyInv
<1> SUFFICES ASSUME ReplyInit PROVE ReplyInv
  OBVIOUS
<1>1. ReplyTyped /\ CooldownCounts
  BY ReplyAssumption DEF ReplyInit, ReplyTyped, CooldownCounts, Waiting
<1>2. CopiesAreTrue
  BY ReplyAssumption DEF ReplyInit, CopiesAreTrue, AllTaken, Waiting
<1>3. QED BY <1>1, <1>2 DEF ReplyInv

(* The handler of an instance: it copies a row, and hands its copy on.     *)
LEMMA HandlerStep ==
    ASSUME ReplyInv, NEW i \in Instances, Receive(i) \/ CheckCooldown(i) \/ StartReply(i)
    PROVE  ReplyInv'
<1> USE ReplyAssumption DEF ReplyInv
<1>1. CASE Receive(i)
  <2>1. PICK r \in Rooms :
           handler' = [handler EXCEPT ![i] =
               [at |-> "reading", room |-> r, script |-> script[r], seq |-> sequence[r]]]
    BY <1>1 DEF Receive
  <2>2. /\ handler'[i] = [at |-> "reading", room |-> r, script |-> script[r], seq |-> sequence[r]]
        /\ \A j \in Instances \ {i} : handler'[j] = handler[j]
    BY <2>1 DEF ReplyTyped
  <2>3. UNCHANGED <<sequence, script, lines, replies, cooling, taken, overtaken, started>>
    BY <1>1 DEF Receive, cooldowns, texts
  <2>4. ReplyTyped'
    <3>1. handler'[i] \in Copy
      BY <2>2 DEF ReplyTyped, Copy
    <3>2. handler' \in [Instances -> {Waiting} \cup Copy]
      BY <2>1, <2>2, <3>1 DEF ReplyTyped
    <3>3. messages' \in Nat
      BY <1>1 DEF Receive, ReplyTyped
    <3>4. QED BY <2>3, <3>2, <3>3 DEF ReplyTyped
  <2>5. CooldownCounts'
    BY <2>2, <2>3 DEF CooldownCounts
  <2>6. CopiesAreTrue'
    <3>1. \A q \in Rooms : \A k : AllTaken(q, k)' <=> AllTaken(q, k)
      BY <2>3 DEF AllTaken
    <3>2. QED BY <2>2, <2>3, <3>1 DEF CopiesAreTrue
  <2>7. QED BY <2>4, <2>5, <2>6
<1>2. CASE CheckCooldown(i)
  <2>1. handler[i] \in Copy
    BY <1>2 DEF CheckCooldown, ReplyTyped, Waiting
  <2>2. /\ \/ handler'[i] = Waiting
           \/ /\ handler[i].room \notin cooling
              /\ handler'[i] = [handler[i] EXCEPT !.at = "free"]
        /\ \A j \in Instances \ {i} : handler'[j] = handler[j]
    BY <1>2 DEF CheckCooldown, ReplyTyped
  <2>3. /\ handler'[i] = Waiting \/ handler'[i] \in Copy
        /\ \/ handler'[i] = Waiting
           \/ /\ handler'[i].room = handler[i].room /\ handler'[i].seq = handler[i].seq
              /\ handler'[i].script = handler[i].script
    <3>1. [handler[i] EXCEPT !.at = "free"] \in Copy
      BY <2>1 DEF Copy
    <3>2. /\ [handler[i] EXCEPT !.at = "free"].room = handler[i].room
          /\ [handler[i] EXCEPT !.at = "free"].seq = handler[i].seq
          /\ [handler[i] EXCEPT !.at = "free"].script = handler[i].script
      BY <2>1 DEF Copy
    <3>3. CASE handler'[i] = Waiting
      BY <3>3
    <3>4. CASE handler'[i] = [handler[i] EXCEPT !.at = "free"]
      BY <3>1, <3>2, <3>4, Zenon
    <3>5. QED BY <2>2, <3>3, <3>4
  <2>4. UNCHANGED <<sequence, script, lines, replies, cooling, messages, taken, overtaken, started>>
    BY <1>2 DEF CheckCooldown, cooldowns, texts
  <2>5. ReplyTyped'
    <3>1. handler' \in [Instances -> {Waiting} \cup Copy]
      BY <1>2, <2>3 DEF CheckCooldown, ReplyTyped
    <3>2. QED BY <2>4, <3>1 DEF ReplyTyped
  <2>6. CooldownCounts'
    <3>1. \A r \in Rooms : handler'[i].at = "free" /\ handler'[i].room = r => r \notin cooling
      BY <2>2, <2>3 DEF Waiting
    <3>2. QED BY <2>2, <2>4, <3>1 DEF CooldownCounts
  <2>7. CopiesAreTrue'
    <3>1. \A q \in Rooms : \A k : AllTaken(q, k)' <=> AllTaken(q, k)
      BY <2>4 DEF AllTaken
    <3>2. QED BY <2>2, <2>3, <2>4, <3>1 DEF CopiesAreTrue, Waiting
  <2>8. QED BY <2>5, <2>6, <2>7
<1>3. CASE StartReply(i)
  <2> DEFINE r == handler[i].room
             p == [id |-> messages, by |-> i, room |-> r, script |-> handler[i].script,
                   seq |-> handler[i].seq, at |-> "delayed"]
  <2>1. handler[i] \in Copy /\ handler[i].at = "free"
    BY <1>3 DEF StartReply, ReplyTyped, Waiting
  <2>2. /\ replies' = replies \cup {p} /\ p \in Reply /\ r \in Rooms
        /\ p.room = r /\ p.seq = handler[i].seq /\ p.script = handler[i].script /\ p.at = "delayed"
    BY <1>3, <2>1 DEF StartReply, ReplyTyped, Copy, Reply
  <2>3. /\ handler'[i] = Waiting
        /\ \A j \in Instances \ {i} : handler'[j] = handler[j]
    BY <1>3 DEF StartReply, ReplyTyped
  <2>4. /\ started'[i][r] = started[i][r] + 1
        /\ \A j \in Instances, q \in Rooms : j # i \/ q # r => started'[j][q] = started[j][q]
    BY <1>3, <2>2 DEF StartReply, ReplyTyped
  <2>5. UNCHANGED <<sequence, script, lines, messages, taken, overtaken>>
    BY <1>3 DEF StartReply, texts
  <2>6. ReplyTyped'
    <3>1. handler' \in [Instances -> {Waiting} \cup Copy] /\ started' \in [Instances -> [Rooms -> Nat]]
      BY <1>3, <2>2 DEF StartReply, ReplyTyped
    <3>2. replies' \subseteq Reply
      BY <2>2 DEF ReplyTyped
    <3>3. QED BY <2>5, <3>1, <3>2 DEF ReplyTyped
  <2>7. CooldownCounts'
    <3>1. started[i][r] = 0
      BY <2>1, <2>2 DEF CooldownCounts
    <3>2. cooling' = cooling \cup {r}
      BY <1>3 DEF StartReply, Stored
    <3>3. handler'[i].at # "free"
      BY <2>3 DEF Waiting
    <3> HIDE DEF r
    <3>4. QED BY <2>3, <2>4, <3>1, <3>2, <3>3 DEF CooldownCounts
  <2>8. CopiesAreTrue'
    <3>1. \A q \in Rooms : \A k : AllTaken(q, k)' <=> AllTaken(q, k)
      BY <2>5 DEF AllTaken
    <3> HIDE DEF p
    <3>2. \A q \in Rooms \ overtaken, x \in replies' : x.room = q =>
             /\ x.script = script[q] /\ AllTaken(q, x.seq)
             /\ x.at = "rendered" => AllTaken(q, x.seq + 1)
      BY <2>2 DEF CopiesAreTrue
    <3>3. \A q \in Rooms \ overtaken, j \in Instances : handler'[j].room = q =>
             handler'[j].script = script[q] /\ AllTaken(q, handler'[j].seq)
      BY <2>3 DEF CopiesAreTrue, Waiting
    <3>4. QED BY <2>5, <3>1, <3>2, <3>3 DEF CopiesAreTrue
  <2>9. QED BY <2>6, <2>7, <2>8
<1>4. QED BY <1>1, <1>2, <1>3

(* A reply keeps its copy to its end.                                      *)
LEMMA BecomesKeepsCopy ==
    ASSUME NEW p \in Reply, NEW at \in {"rendered", "sending"},
           Becomes(p, at) \/ End(p)
    PROVE  \A q \in replies' :
              \/ q \in replies
              \/ /\ q \in Reply /\ q.at = at
                 /\ q.room = p.room /\ q.script = p.script /\ q.seq = p.seq
<1>1. /\ [p EXCEPT !.at = at] \in Reply /\ [p EXCEPT !.at = at].at = at
      /\ [p EXCEPT !.at = at].room = p.room /\ [p EXCEPT !.at = at].script = p.script
      /\ [p EXCEPT !.at = at].seq = p.seq
  BY DEF Reply
<1>2. replies' = replies \ {p} \/ replies' = (replies \ {p}) \cup {[p EXCEPT !.at = at]}
  BY DEF Becomes, End
<1>3. \A q \in replies' : q \in replies \/ q = [p EXCEPT !.at = at]
  BY <1>2, Zenon
<1>4. QED BY <1>1, <1>3, Zenon

(* The end of a reply, or a step of it that takes and writes nothing.      *)
LEMMA QuietReplyStep ==
    ASSUME ReplyInv, NEW p \in replies, ReplyFromAI(p) \/ NoReply(p) \/ SendReply(p)
    PROVE  ReplyInv'
<1> USE DEF ReplyInv
<1>1. UNCHANGED <<sequence, script, lines, handler, cooling, messages, taken, overtaken, started>>
  BY DEF ReplyFromAI, NoReply, SendReply, texts, cooldowns
<1>2. p \in Reply /\ (Becomes(p, "sending") \/ End(p))
  BY DEF ReplyFromAI, NoReply, SendReply, SendUnlessEmpty, ReplyTyped
<1>3. \A q \in replies' :
         \/ q \in replies
         \/ /\ q \in Reply /\ q.at = "sending"
            /\ q.room = p.room /\ q.script = p.script /\ q.seq = p.seq
  BY <1>2, BecomesKeepsCopy
<1>4. ReplyTyped'
  BY <1>1, <1>3 DEF ReplyTyped
<1>5. CooldownCounts'
  BY <1>1 DEF CooldownCounts
<1>6. \A q \in Rooms : \A k : AllTaken(q, k)' <=> AllTaken(q, k)
  BY <1>1 DEF AllTaken
<1>7. CopiesAreTrue'
  BY <1>1, <1>3, <1>6 DEF CopiesAreTrue
<1>8. QED BY <1>4, <1>5, <1>7

(* getScriptReply: what is taken is the next line of the copy.             *)
LEMMA TakeStep ==
    ASSUME ReplyInv, NEW p \in replies, ReplyFromScript(p)
    PROVE  ReplyInv'
<1> USE DEF ReplyInv
<1> DEFINE r == p.room
           rest == Following(p)
           next == Min(rest)
<1>1. p \in Reply /\ r \in Rooms /\ p.seq \in Nat /\ p.script \in Scripts
  BY DEF ReplyTyped, Reply
<1>2. /\ UNCHANGED <<sequence, script, lines, handler, cooling, messages, overtaken, started>>
      /\ Becomes(p, "rendered") /\ rest # {}
      /\ taken' = [taken EXCEPT ![r] = @ \cup {next}]
  BY DEF ReplyFromScript, texts, cooldowns
<1>3. \A q \in replies' :
         \/ q \in replies
         \/ /\ q \in Reply /\ q.at = "rendered"
            /\ q.room = p.room /\ q.script = p.script /\ q.seq = p.seq
  BY <1>1, <1>2, BecomesKeepsCopy
<1>4. rest \in SUBSET Nat
  <2>1. \A n \in Int : n > p.seq => n \in Nat
    BY <1>1
  <2>2. lines[p.script] \in SUBSET Int
    BY <1>1 DEF ReplyTyped
  <2>3. \A n \in rest : n \in Nat
    BY <2>1, <2>2 DEF Following
  <2>4. QED BY <2>3
<1>5. next \in rest /\ \A n \in rest : next <= n
  BY <1>2, <1>4, LeastLine
<1> HIDE DEF next
<1>6. /\ \A q \in Rooms : taken[q] \subseteq taken'[q]
      /\ next \in taken'[r]
  BY <1>1, <1>2 DEF ReplyTyped
<1>7. ReplyTyped'
  <2>1. next \in Int
    BY <1>4, <1>5
  <2>2. taken' \in [Rooms -> SUBSET Int]
    BY <1>2, <2>1 DEF ReplyTyped
  <2>3. QED BY <1>2, <1>3, <2>2 DEF ReplyTyped
<1>8. CooldownCounts'
  BY <1>2 DEF CooldownCounts
<1>9. \A q \in Rooms : \A k : AllTaken(q, k) => AllTaken(q, k)'
  BY <1>2, <1>6 DEF AllTaken
<1>10. r \notin overtaken => AllTaken(r, p.seq + 1)'
  <2> SUFFICES ASSUME r \notin overtaken, NEW n \in lines[script[r]], 0 < n, n <= p.seq + 1
               PROVE  n \in taken'[r]
    BY <1>2 DEF AllTaken
  <2>1. AllTaken(r, p.seq) /\ p.script = script[r]
    BY <1>1 DEF CopiesAreTrue
  <2>2. n \in Int
    BY <1>1 DEF ReplyTyped
  <2>3. CASE n <= p.seq
    <3>1. n \in taken[r]
      BY <2>1, <2>3 DEF AllTaken
    <3>2. QED BY <1>1, <1>6, <3>1
  <2>4. CASE n = p.seq + 1
    <3>1. n \in rest
      BY <1>1, <2>1, <2>4 DEF Following
    <3>2. next <= n /\ next > p.seq /\ next \in Int
      BY <1>4, <1>5, <3>1 DEF Following
    <3>3. next = n
      BY <1>1, <2>2, <2>4, <3>2
    <3>4. QED BY <1>6, <3>3
  <2>5. QED BY <1>1, <2>2, <2>3, <2>4
<1>11. CopiesAreTrue'
  <2> SUFFICES ASSUME NEW q \in Rooms \ overtaken
               PROVE  /\ AllTaken(q, sequence[q])'
                      /\ \A j \in Instances : handler[j].room = q =>
                            handler[j].script = script[q] /\ AllTaken(q, handler[j].seq)'
                      /\ \A x \in replies' : x.room = q =>
                            /\ x.script = script[q] /\ AllTaken(q, x.seq)'
                            /\ x.at = "rendered" => AllTaken(q, x.seq + 1)'
    BY <1>2 DEF CopiesAreTrue
  <2>1. AllTaken(q, sequence[q])'
    BY <1>2, <1>9 DEF CopiesAreTrue, AllTaken
  <2>2. \A j \in Instances : handler[j].room = q =>
            handler[j].script = script[q] /\ AllTaken(q, handler[j].seq)'
    BY <1>2, <1>9 DEF CopiesAreTrue, AllTaken
  <2>3. ASSUME NEW x \in replies', x.room = q
        PROVE  /\ x.script = script[q] /\ AllTaken(q, x.seq)'
               /\ x.at = "rendered" => AllTaken(q, x.seq + 1)'
    <3>1. CASE x \in replies
      BY <1>9, <2>3, <3>1 DEF CopiesAreTrue
    <3>2. CASE x.room = p.room /\ x.script = p.script /\ x.seq = p.seq
      <4>1. p.script = script[q] /\ AllTaken(q, p.seq)
        BY <2>3, <3>2 DEF CopiesAreTrue
      <4>2. AllTaken(q, x.seq + 1)'
        BY <1>10, <2>3, <3>2
      <4>3. QED BY <1>9, <3>2, <4>1, <4>2
    <3>3. QED BY <1>3, <3>1, <3>2
  <2>4. QED BY <2>1, <2>2, <2>3
<1>12. QED BY <1>7, <1>8, <1>11

(* UpdateRoomProgress: the row is told no more than its copy's reply took. *)
LEMMA ProgressStep ==
    ASSUME ReplyInv, NEW p \in replies, UpdateRoomProgress(p)
    PROVE  ReplyInv'
<1> USE DEF ReplyInv
<1> DEFINE r == p.room
<1>1. p \in Reply /\ r \in Rooms /\ p.seq \in Nat /\ p.at = "rendered"
  BY DEF ReplyTyped, Reply, UpdateRoomProgress
<1>2. /\ UNCHANGED <<script, lines, handler, cooling, messages, taken, overtaken, started>>
      /\ sequence' \in {sequence, [sequence EXCEPT ![r] = p.seq + 1]}
      /\ Becomes(p, "sending") \/ End(p)
  BY DEF UpdateRoomProgress, NextSeq, SendUnlessEmpty, texts, cooldowns
<1>3. \A q \in replies' :
         \/ q \in replies
         \/ /\ q \in Reply /\ q.at = "sending"
            /\ q.room = p.room /\ q.script = p.script /\ q.seq = p.seq
  BY <1>1, <1>2, BecomesKeepsCopy
<1>4. sequence'[r] \in {sequence[r], p.seq + 1} /\ \A q \in Rooms \ {r} : sequence'[q] = sequence[q]
  BY <1>1, <1>2 DEF ReplyTyped
<1>5. ReplyTyped'
  <2>1. sequence' \in [Rooms -> Nat]
    BY <1>1, <1>2 DEF ReplyTyped
  <2>2. QED BY <1>2, <1>3, <2>1 DEF ReplyTyped
<1>6. CooldownCounts'
  BY <1>2 DEF CooldownCounts
<1>7. \A q \in Rooms : \A k : AllTaken(q, k)' <=> AllTaken(q, k)
  BY <1>2 DEF AllTaken
<1>8. \A q \in Rooms \ overtaken : AllTaken(q, sequence'[q])
  BY <1>1, <1>4 DEF CopiesAreTrue
<1>9. \A q \in Rooms \ overtaken, x \in replies' : x.room = q =>
         /\ x.script = script[q] /\ AllTaken(q, x.seq)
         /\ x.at = "rendered" => AllTaken(q, x.seq + 1)
  BY <1>3 DEF CopiesAreTrue
<1>10. CopiesAreTrue'
  BY <1>2, <1>7, <1>8, <1>9 DEF CopiesAreTrue
<1>11. QED BY <1>5, <1>6, <1>10

(* The cooldown of a room ends, or a room handler drops it. *)
LEMMA AfreshStep ==
    ASSUME ReplyInv, NEW r \in Rooms, CooldownEnds(r) \/ CleanupReplyTime(r)
    PROVE  ReplyInv'
<1> USE DEF ReplyInv
<1>1. /\ cooling' = cooling \ {r} /\ started' = Afresh(r)
      /\ UNCHANGED <<sequence, script, lines, handler, replies, messages, taken, overtaken>>
  BY DEF CooldownEnds, CleanupReplyTime, texts
<1>2. /\ \A i \in Instances : started'[i][r] = 0
      /\ \A i \in Instances, q \in Rooms \ {r} : started'[i][q] = started[i][q]
  BY <1>1 DEF Afresh, ReplyTyped
<1>3. ReplyTyped'
  <2>1. started' \in [Instances -> [Rooms -> Nat]]
    BY <1>1 DEF Afresh, ReplyTyped
  <2>2. QED BY <1>1, <2>1 DEF ReplyTyped
<1>4. CooldownCounts'
  BY <1>1, <1>2 DEF CooldownCounts
<1>5. CopiesAreTrue'
  BY <1>1 DEF CopiesAreTrue, AllTaken
<1>6. QED BY <1>3, <1>4, <1>5

(* What holds of a room is kept while its row, its script, the copies and  *)
(* the history of it are.                                                  *)
LEMMA RoomKept ==
    ASSUME ReplyTyped, CopiesAreTrue, UNCHANGED <<handler, replies>>,
           NEW q \in Rooms \ overtaken,
           sequence'[q] = sequence[q], script'[q] = script[q],
           \A k \in Nat : AllTaken(q, k) /\
               (k <= sequence[q] \/ (\E i \in Instances : handler[i].room = q /\ k <= handler[i].seq)
                  \/ (\E p \in replies : p.room = q /\ k <= p.seq + 1))
               => AllTaken(q, k)'
    PROVE  /\ AllTaken(q, sequence[q])'
           /\ \A i \in Instances : handler'[i].room = q =>
                 handler'[i].script = script'[q] /\ AllTaken(q, handler[i].seq)'
           /\ \A p \in replies' : p.room = q =>
                 /\ p.script = script'[q] /\ AllTaken(q, p.seq)'
                 /\ p.at = "rendered" => AllTaken(q, p.seq + 1)'
<1>1. AllTaken(q, sequence[q])'
  <2>1. sequence[q] \in Nat /\ AllTaken(q, sequence[q])
    BY DEF ReplyTyped, CopiesAreTrue
  <2>2. QED BY <2>1 DEF AllTaken
<1>2. ASSUME NEW i \in Instances, handler[i].room = q
      PROVE  handler[i].script = script'[q] /\ AllTaken(q, handler[i].seq)'
  <2>1. handler[i].script = script[q] /\ AllTaken(q, handler[i].seq)
    BY <1>2 DEF CopiesAreTrue
  <2>2. handler[i].seq \in Nat
    BY DEF ReplyTyped, Waiting, Copy
  <2>3. QED BY <1>2, <2>1, <2>2 DEF AllTaken
<1>3. ASSUME NEW p \in replies, p.room = q
      PROVE  /\ p.script = script'[q] /\ AllTaken(q, p.seq)'
             /\ p.at = "rendered" => AllTaken(q, p.seq + 1)'
  <2>1. p.script = script[q] /\ AllTaken(q, p.seq) /\ (p.at = "rendered" => AllTaken(q, p.seq + 1))
    BY <1>3 DEF CopiesAreTrue
  <2>2. p.seq \in Nat /\ p.seq + 1 \in Nat /\ p.seq <= p.seq + 1 /\ p.seq + 1 <= p.seq + 1
    BY DEF ReplyTyped, Reply
  <2>3. QED BY <1>3, <2>1, <2>2
<1>4. QED BY <1>1, <1>2, <1>3

(* A room starts or stops, or its run begins again or gets another script: *)
(* the rooms whose copies that overtook are named.                         *)
LEMMA RoomStep ==
    ASSUME ReplyInv, NEW r \in Rooms, NEW to, NEW s \in Scripts,
           \/ BeginActivation(r) \/ Activate(r) \/ Deactivate(r, to)
           \/ RestartRoom(r) \/ UpdateWarmingRoom(r, s)
    PROVE  ReplyInv'
<1> USE ReplyAssumption DEF ReplyInv
<1>1. UNCHANGED <<handler, replies, cooling, messages, started, lines>>
  BY DEF BeginActivation, Activate, Deactivate, RestartRoom, UpdateWarmingRoom, texts, cooldowns
<1>2. CooldownCounts'
  BY <1>1 DEF CooldownCounts
<1>3. ASSUME NEW q \in Rooms \ overtaken, sequence'[q] = sequence[q], script'[q] = script[q], taken'[q] = taken[q]
      PROVE  /\ AllTaken(q, sequence[q])'
             /\ \A i \in Instances : handler'[i].room = q =>
                   handler'[i].script = script'[q] /\ AllTaken(q, handler[i].seq)'
             /\ \A p \in replies' : p.room = q =>
                   /\ p.script = script'[q] /\ AllTaken(q, p.seq)'
                   /\ p.at = "rendered" => AllTaken(q, p.seq + 1)'
  <2>1. \A k : AllTaken(q, k) => AllTaken(q, k)'
    BY <1>1, <1>3 DEF AllTaken
  <2>2. QED BY <1>1, <1>3, <2>1, RoomKept
<1>4. ASSUME sequence'[r] = 0, ~ UnderWay(r)
      PROVE  /\ AllTaken(r, sequence[r])'
             /\ \A i \in Instances : handler'[i].room # r
             /\ \A p \in replies' : p.room # r
  <2>1. AllTaken(r, sequence[r])'
    <3>1. \A n : ~ (0 < n /\ n <= 0) \/ n \notin Int
      OBVIOUS
    <3>2. lines'[script'[r]] \subseteq Int
      BY <1>1 DEF ReplyTyped, BeginActivation, Activate, Deactivate, RestartRoom, UpdateWarmingRoom, texts
    <3>3. QED BY <1>4, <3>1, <3>2, Zenon DEF AllTaken
  <2>2. QED BY <1>1, <1>4, <2>1 DEF UnderWay
<1>5. CASE RestartRoom(r)
  <2>1. ReplyTyped'
    BY <1>1, <1>5 DEF RestartRoom, ReplyTyped, texts
  <2>2. /\ \A q \in Rooms \ {r} : sequence'[q] = sequence[q] /\ taken'[q] = taken[q]
        /\ overtaken \subseteq overtaken' \cup {r}
        /\ sequence'[r] = 0 /\ (r \notin overtaken' => ~ UnderWay(r))
        /\ script' = script
    BY <1>5 DEF RestartRoom, ReplyTyped, texts
  <2>3. CopiesAreTrue'
    <3> SUFFICES ASSUME NEW q \in Rooms \ overtaken'
                 PROVE  /\ AllTaken(q, sequence[q])'
                        /\ \A i \in Instances : handler'[i].room = q =>
                              handler'[i].script = script'[q] /\ AllTaken(q, handler[i].seq)'
                        /\ \A p \in replies' : p.room = q =>
                              /\ p.script = script'[q] /\ AllTaken(q, p.seq)'
                              /\ p.at = "rendered" => AllTaken(q, p.seq + 1)'
      BY DEF CopiesAreTrue
    <3>1. CASE q = r
      BY <1>4, <2>2, <3>1
    <3>2. CASE q # r
      <4>1. q \in Rooms \ {r}
        BY <3>2
      <4>2. sequence'[q] = sequence[q] /\ taken'[q] = taken[q] /\ q \in Rooms \ overtaken
        BY <2>2, <3>2, <4>1
      <4>3. script'[q] = script[q]
        BY <2>2
      <4>4. QED BY <1>3, <4>2, <4>3
    <3>3. QED BY <3>1, <3>2
  <2>4. QED BY <1>2, <2>1, <2>3
<1>6. CASE UpdateWarmingRoom(r, s)
  <2>1. ReplyTyped'
    BY <1>1, <1>6 DEF UpdateWarmingRoom, ReplyTyped
  <2>2. /\ \A q \in Rooms \ {r} : script'[q] = script[q] /\ taken'[q] = taken[q]
        /\ sequence' = sequence
        /\ overtaken \subseteq overtaken'
        /\ r \notin overtaken' => ~ UnderWay(r) /\ ~ sequence[r] > 0
    BY <1>6 DEF UpdateWarmingRoom, ReplyTyped
  <2>3. r \notin overtaken' => sequence'[r] = 0
    BY <2>2 DEF ReplyTyped
  <2>4. CopiesAreTrue'
    BY <1>3, <1>4, <2>2, <2>3 DEF CopiesAreTrue
  <2>5. QED BY <1>2, <2>1, <2>4
<1>7. CASE BeginActivation(r) \/ Activate(r) \/ Deactivate(r, to)
  <2>1. UNCHANGED <<sequence, script, taken, overtaken>>
    BY <1>7 DEF BeginActivation, Activate, Deactivate, texts
  <2>2. ReplyTyped'
    BY <1>1, <2>1 DEF ReplyTyped
  <2>3. CopiesAreTrue'
    BY <1>3, <2>1 DEF CopiesAreTrue
  <2>4. QED BY <1>2, <2>2, <2>3
<1>8. QED BY <1>5, <1>6, <1>7

(* Lines are put, moved and deleted: those that a run has passed, or a     *)
(* copy of it, are named.                                                  *)
LEMMA EditStep ==
    ASSUME ReplyInv, NEW s \in Scripts, NEW gone, NEW given \in SUBSET Orders, Edit(s, gone, given)
    PROVE  ReplyInv'
<1> USE ReplyAssumption DEF ReplyInv
<1>1. /\ UNCHANGED <<sequence, script, handler, replies, cooling, messages, started>>
      /\ lines' = [lines EXCEPT ![s] = (lines[s] \ gone) \cup given]
      /\ taken' = [r \in Rooms |-> IF script[r] = s THEN taken[r] \ given ELSE taken[r]]
      /\ overtaken' = overtaken \cup
            {r \in Rooms : script[r] = s /\ \E n \in given : 0 < n /\ Passed(r, n)}
  BY DEF Edit, cooldowns
<1>2. ReplyTyped'
  <2>1. lines' \in [Scripts -> SUBSET Int]
    BY <1>1 DEF ReplyTyped
  <2>2. taken' \in [Rooms -> SUBSET Int]
    BY <1>1 DEF ReplyTyped
  <2>3. QED BY <1>1, <2>1, <2>2 DEF ReplyTyped
<1>3. CooldownCounts'
  BY <1>1 DEF CooldownCounts
<1>4. ASSUME NEW q \in Rooms \ overtaken', NEW k \in Nat, AllTaken(q, k),
             \/ k <= sequence[q] \/ (\E i \in Instances : handler[i].room = q /\ k <= handler[i].seq)
             \/ (\E p \in replies : p.room = q /\ k <= p.seq + 1)
      PROVE  AllTaken(q, k)'
  <2> SUFFICES ASSUME NEW n \in lines'[script[q]], 0 < n, n <= k
               PROVE  n \in taken'[q]
    BY <1>1 DEF AllTaken
  <2>1. script[q] \in Scripts /\ n \in Int
    BY <1>1, <1>2 DEF ReplyTyped
  <2>2. CASE script[q] # s
    BY <1>1, <1>4, <2>1, <2>2 DEF AllTaken, ReplyTyped
  <2>3. CASE script[q] = s
    <3>1. n \notin given
      <4>1. Passed(q, n)
        <5>1. CASE k <= sequence[q]
          BY <2>1, <5>1 DEF Passed, ReplyTyped
        <5>2. ASSUME NEW i \in Instances, handler[i].room = q, k <= handler[i].seq
              PROVE  Passed(q, n)
          <6>1. handler[i].seq \in Nat
            BY DEF ReplyTyped, Waiting, Copy
          <6>2. n <= handler[i].seq
            BY <2>1, <5>2, <6>1
          <6>3. QED BY <5>2, <6>2 DEF Passed
        <5>3. ASSUME NEW p \in replies, p.room = q, k <= p.seq + 1
              PROVE  Passed(q, n)
          <6>1. p.seq \in Nat
            BY DEF ReplyTyped, Reply
          <6>2. n <= p.seq + 1
            BY <2>1, <5>3, <6>1
          <6>3. QED BY <5>3, <6>2 DEF Passed
        <5>4. QED BY <1>4, <5>1, <5>2, <5>3
      <4>2. QED BY <1>1, <2>3, <4>1
    <3>2. n \in lines[s]
      BY <1>1, <2>1, <2>3, <3>1 DEF ReplyTyped
    <3>3. n \in taken[q]
      BY <1>4, <2>3, <3>2 DEF AllTaken
    <3>4. QED BY <1>1, <2>3, <3>1, <3>3
  <2>4. QED BY <2>2, <2>3
<1>5. CopiesAreTrue'
  <2> SUFFICES ASSUME NEW q \in Rooms \ overtaken'
               PROVE  /\ AllTaken(q, sequence[q])'
                      /\ \A i \in Instances : handler'[i].room = q =>
                            handler'[i].script = script'[q] /\ AllTaken(q, handler[i].seq)'
                      /\ \A p \in replies' : p.room = q =>
                            /\ p.script = script'[q] /\ AllTaken(q, p.seq)'
                            /\ p.at = "rendered" => AllTaken(q, p.seq + 1)'
    BY DEF CopiesAreTrue
  <2>1. q \in Rooms \ overtaken /\ sequence'[q] = sequence[q] /\ script'[q] = script[q]
    BY <1>1
  <2>2. QED BY <1>1, <1>4, <2>1, RoomKept
<1>6. QED BY <1>2, <1>3, <1>5

LEMMA ScriptStep ==
    ASSUME ReplyInv, NEW s \in Scripts,
           \/ CreateWarmingScriptLine(s) \/ UpdateWarmingScriptLine(s)
           \/ DeleteWarmingScriptLine(s) \/ ReorderScriptLines(s)
    PROVE  ReplyInv'
<1>1. CASE CreateWarmingScriptLine(s)
  BY <1>1, EditStep DEF CreateWarmingScriptLine
<1>2. CASE UpdateWarmingScriptLine(s)
  BY <1>2, EditStep DEF UpdateWarmingScriptLine
<1>3. CASE DeleteWarmingScriptLine(s)
  BY <1>3, EditStep DEF DeleteWarmingScriptLine
<1>4. CASE ReorderScriptLines(s)
  BY <1>4, EditStep DEF ReorderScriptLines
<1>5. QED BY <1>1, <1>2, <1>3, <1>4

LEMMA ReplyInvHolds == ReplySpec => []ReplyInv
<1>1. ASSUME ReplyInv, [ReplyNext]_replyVars PROVE ReplyInv'
  <2>1. CASE UNCHANGED replyVars
    BY <1>1, <2>1 DEF replyVars, texts, cooldowns, ReplyInv, ReplyTyped, CooldownCounts, CopiesAreTrue, AllTaken
  <2>2. ASSUME NEW p \in replies,
               \/ ReplyFromAI(p) \/ ReplyFromScript(p) \/ NoReply(p)
               \/ UpdateRoomProgress(p) \/ SendReply(p)
        PROVE  ReplyInv'
    BY <1>1, <2>2, QuietReplyStep, TakeStep, ProgressStep
  <2>3. ASSUME NEW r \in Rooms,
               \/ BeginActivation(r) \/ Activate(r) \/ RestartRoom(r)
               \/ \E to \in {"STOPPED", "PAUSED", "FINISHED"} : Deactivate(r, to)
               \/ \E s \in Scripts : UpdateWarmingRoom(r, s)
        PROVE  ReplyInv'
    <3>1. script[r] \in Scripts
      BY <1>1 DEF ReplyInv, ReplyTyped
    <3>2. QED BY <1>1, <2>3, <3>1, RoomStep
  <2>4. QED BY <1>1, <2>1, <2>2, <2>3, HandlerStep, AfreshStep, ScriptStep DEF ReplyNext
<1>2. QED BY <1>1, ReplyInvInit, PTL DEF ReplySpec

(* getScriptReply, UpdateRoomProgress: the sequence of a room passes no    *)
(* line that no reply took, from whatever copies replies start, in         *)
(* whatever order they end and whatever lines are appended, deleted or     *)
(* moved ahead of the run; the rooms for which it may are named by cause.  *)
THEOREM NoReplyEverSkipped == ReplySpec => []NoReplySkipped
<1>1. ReplyInv => NoReplySkipped
  BY DEF ReplyInv, CopiesAreTrue, AllTaken, NoReplySkipped
<1>2. QED BY <1>1, ReplyInvHolds, PTL

(* lastReplyTime: an instance begins one reply at most in a cooldown of a  *)
(* room.                                                                   *)
THEOREM OneReplyPerCooldownHolds == ReplySpec => []OneReplyPerCooldown
<1>1. ReplyInv => OneReplyPerCooldown
  BY DEF ReplyInv, CooldownCounts, OneReplyPerCooldown
<1>2. QED BY <1>1, ReplyInvHolds, PTL
=============================================================================
