---------------------------- MODULE AuthSessions ----------------------------
(***************************************************************************)
(* Logins and cookie sessions of one user: internal/handler/user_auth.go,  *)
(* the session rows of internal/model/auth_session.go, the lockout columns *)
(* of internal/model/user.go, and SessionOrAPIKeyMiddleware.               *)
(*                                                                         *)
(* Passwords are numbered: 0 is the first one, change k brings number k.   *)
(* A login reads the lock, reads the hash, compares and counts, and        *)
(* inserts its session in steps of their own, and a change of the password *)
(* is several statements without a transaction.                            *)
(***************************************************************************)
EXTENDS Integers, FiniteSets

CONSTANTS
    Logins,     \* callers of LoginUser, one after the other and again
    Legacy,     \* those with a session of before absolute_expires_at, NULL there
    Changes,    \* calls of ChangePassword, numbers above 0
    Sliding,    \* SESSION_EXPIRY, in units of the clock
    Lifetime,   \* AbsoluteSessionLifetime
    Threshold,  \* failures that lock the account (5 in the code)
    MaxTime, MaxTouches \* bounds: the clock, touches under way

ASSUME AuthAssumption ==
    Sliding \in Nat /\ Lifetime \in Nat /\ Threshold \in Nat /\ Legacy \subseteq Logins

VARIABLES
    now,
    account,    \* the row of the user
    sessions,   \* the user's rows, one for each caller at most
    login,      \* login[l]: where it is, if it asked for the lock, and the hash it has read
    change,     \* change[k]: where the password change is
    touches,    \* TouchAuthSession calls between their clock and their UPDATE
    revoking,   \* deletions that an administrator's update has still to make
    raced,      \* history: logins that had read the hash when a change destroyed
    late        \* history: late[l], wrong passwords l compared since the lock it asked for

authVars == <<now, account, sessions, login, change, touches, revoking, raced, late>>

NoCap     == -1
NoSession == [password |-> 0, created |-> 0, expires |-> 0, cap |-> 0]
Inherited == [password |-> 0, created |-> 0, expires |-> Sliding, cap |-> NoCap]
Idle      == [at |-> "idle", asked |-> FALSE, read |-> 0]

(* absolute_expires_at was added to the table without filling it in.       *)
AuthInit ==
    /\ now = 0
    /\ account = [password |-> 0, active |-> TRUE, failures |-> 0, locked |-> FALSE]
    /\ sessions = [l \in Logins |-> IF l \in Legacy THEN Inherited ELSE NoSession]
    /\ login = [l \in Logins |-> Idle]
    /\ change = [k \in Changes |-> "new"]
    /\ touches = {} /\ revoking = 0
    /\ raced = {} /\ late = [l \in Logins |-> 0]

Exists(l) == sessions[l] # NoSession
Earlier(a, b) == IF a <= b THEN a ELSE b

-----------------------------------------------------------------------------
(* LoginUser.                                                              *)

\* Faulty variant: the lock is not looked at.
FaultyMayTry == TRUE

(* IsAccountLocked; a locked account is refused like a wrong password. *)
MayTry == ~ account.locked

(* The lock is looked at, unless the lookup of the user or the query of    *)
(* the lock fails: both errors are dropped.                                *)
BeginLogin(l) ==
    /\ login[l].at = "idle" /\ ~ Exists(l)
    /\ \E asked \in BOOLEAN :
          /\ asked => MayTry
          /\ login' = [login EXCEPT ![l] = [at |-> "begun", asked |-> asked, read |-> 0]]
    /\ raced' = raced \ {l}
    /\ UNCHANGED <<now, account, sessions, change, touches, revoking, late>>

(* AuthenticateUser reads the row; a disabled account is refused and not   *)
(* counted, and so is a query that fails.                                  *)
ReadHash(l) ==
    /\ login[l].at = "begun"
    /\ \/ account.active /\ login' = [login EXCEPT ![l].at = "read", ![l].read = account.password]
       \/ login' = [login EXCEPT ![l] = Idle]
    /\ UNCHANGED <<now, account, sessions, change, touches, revoking, raced, late>>

(* IncrementFailedLogin: the failure that reaches the threshold locks, and *)
(* so does every one after it.                                             *)
Count == [account EXCEPT
            !.failures = Earlier(@ + 1, Threshold),
            !.locked = @ \/ account.failures + 1 >= Threshold]

(* The comparison with what the request gave fails.  It goes uncounted if  *)
(* the user was not found before, or if the count fails.                   *)
WrongPassword(l) ==
    /\ login[l].at = "read"
    /\ login' = [login EXCEPT ![l] = Idle]
    /\ account' \in {Count, account}
    /\ late' = [late EXCEPT ![l] = IF account.locked /\ login[l].asked THEN @ + 1 ELSE @]
    /\ UNCHANGED <<now, sessions, change, touches, revoking, raced>>

(* It succeeds: ResetFailedLogin, whose error is dropped too... *)
RightPassword(l) ==
    /\ login[l].at = "read"
    /\ login' = [login EXCEPT ![l].at = "verified", ![l].asked = FALSE]
    /\ \/ /\ account' = [account EXCEPT !.failures = 0, !.locked = FALSE]
          /\ late' = [m \in Logins |-> 0]
       \/ UNCHANGED <<account, late>>
    /\ UNCHANGED <<now, sessions, change, touches, revoking, raced>>

(* ...and CreateAuthSession, unless it fails. *)
CreateAuthSession(l) ==
    /\ login[l].at = "verified"
    /\ login' = [login EXCEPT ![l] = Idle]
    /\ \/ sessions' = [sessions EXCEPT ![l] =
             [password |-> login[l].read, created |-> now,
              cap |-> now + Lifetime, expires |-> Earlier(now + Sliding, now + Lifetime)]]
       \/ UNCHANGED sessions
    /\ UNCHANGED <<now, account, change, touches, revoking, raced, late>>

(* Fifteen minutes pass; the count of failures stays. *)
Unlock ==
    /\ account.locked
    /\ account' = [account EXCEPT !.locked = FALSE]
    /\ late' = [m \in Logins |-> 0]
    /\ UNCHANGED <<now, sessions, login, change, touches, revoking, raced>>

-----------------------------------------------------------------------------
(* Requests with a session.                                                *)

Live(l) == Exists(l) /\ now <= sessions[l].expires

(* The rows are deleted; a touch of one that is under way finds no row. *)
Delete(L) ==
    /\ sessions' = [l \in Logins |-> IF l \in L THEN NoSession ELSE sessions[l]]
    /\ touches' = {t \in touches : t.login \notin L}

(* GetAuthSessionByToken accepts, and a goroutine is started that has read *)
(* the clock for the new expiry.                                           *)
Accept(l) ==
    /\ Live(l) /\ account.active
    /\ Cardinality(touches) < MaxTouches
    /\ touches' = touches \cup {[login |-> l, until |-> now + Sliding]}
    /\ UNCHANGED <<now, account, sessions, login, change, revoking, raced, late>>

(* The sessions of a disabled user are all deleted when one is used. *)
RefuseInactive(l) ==
    /\ Live(l) /\ ~ account.active
    /\ Delete(Logins)
    /\ UNCHANGED <<now, account, login, change, revoking, raced, late>>

\* Faulty variant: LEAST is left out.
FaultyExtended(l, until) == until

(* COALESCE: where there is no absolute deadline the touch has its way.    *)
Extended(l, until) ==
    IF sessions[l].cap = NoCap THEN until ELSE Earlier(until, sessions[l].cap)

(* TouchAuthSession: one UPDATE of the row. *)
TouchAuthSession(t) ==
    /\ touches' = touches \ {t}
    /\ sessions' = [sessions EXCEPT ![t.login].expires = Extended(t.login, t.until)]
    /\ UNCHANGED <<now, account, login, change, revoking, raced, late>>

LogoutUser(l) ==
    /\ Exists(l)
    /\ Delete({l})
    /\ UNCHANGED <<now, account, login, change, revoking, raced, late>>

-----------------------------------------------------------------------------
(* ChangePassword, and what an administrator does.                         *)

At(k, where) == change' = [change EXCEPT ![k] = where]

(* A request with a session in which AuthenticateUser accepts the old      *)
(* password; the new one is hashed.                                        *)
Verify(k) ==
    /\ change[k] = "new" /\ account.active
    /\ \E l \in Logins : Live(l)
    /\ At(k, "verified")
    /\ UNCHANGED <<now, account, sessions, login, touches, revoking, raced, late>>

UpdateUserPassword(k) ==
    /\ change[k] = "verified"
    /\ At(k, "updated")
    /\ account' = [account EXCEPT !.password = k]
    /\ UNCHANGED <<now, sessions, login, touches, revoking, raced, late>>

\* Faulty variant: only sessions that have expired are destroyed.
FaultyDestroyed == {l \in Logins : ~ Live(l)}

(* All sessions of the user. *)
Destroyed == Logins

DestroyAllUserSessions(k) ==
    /\ change[k] = "updated"
    /\ At(k, "ended")
    /\ Delete(Destroyed)
    /\ raced' = {l \in Logins : login[l].at \in {"read", "verified"}}
    /\ UNCHANGED <<now, account, login, revoking, late>>

(* It fails: the error is logged, and the request succeeds all the same. *)
DestroyFails(k) ==
    /\ change[k] = "updated"
    /\ At(k, "failed")
    /\ UNCHANGED <<now, account, sessions, login, touches, revoking, raced, late>>

(* AdminUpdateUser enables the account, or disables it... *)
AdminUpdateUser ==
    /\ account' = [account EXCEPT !.active = ~ @]
    /\ revoking' = IF account.active THEN 2 ELSE revoking
    /\ UNCHANGED <<now, sessions, login, change, touches, raced, late>>

(* ...and then deletes the user's sessions, and so does its handler. *)
RevokeSessions ==
    /\ revoking > 0
    /\ revoking' = revoking - 1
    /\ Delete(Logins) \/ UNCHANGED <<sessions, touches>>     \* errors are dropped
    /\ UNCHANGED <<now, account, login, change, raced, late>>

Tick ==
    /\ now < MaxTime
    /\ now' = now + 1
    /\ UNCHANGED <<account, sessions, login, change, touches, revoking, raced, late>>

AuthNext ==
    \/ \E l \in Logins :
          \/ BeginLogin(l) \/ ReadHash(l) \/ WrongPassword(l) \/ RightPassword(l) \/ CreateAuthSession(l)
          \/ Accept(l) \/ RefuseInactive(l) \/ LogoutUser(l)
    \/ \E t \in touches : TouchAuthSession(t)
    \/ \E k \in Changes :
          Verify(k) \/ UpdateUserPassword(k) \/ DestroyAllUserSessions(k) \/ DestroyFails(k)
    \/ Unlock \/ AdminUpdateUser \/ RevokeSessions \/ Tick

AuthSpec == AuthInit /\ [][AuthNext]_authVars

-----------------------------------------------------------------------------
(* README.md: a change of the password destroys all sessions.  When none   *)
(* is half done, or failed half way, the sessions there are were opened    *)
(* with the password of now, but for a login that had read the old hash    *)
(* before and inserts its session after.                                   *)
OldPasswordShutOut ==
    (\A k \in Changes : change[k] \notin {"updated", "failed"}) =>
        \A l \in Logins : Exists(l) /\ l \notin raced => sessions[l].password = account.password

(* README.md: a session that is used all the time still ends with its      *)
(* absolute deadline, however late its touches come.  Only a session of    *)
(* before the deadline was stored has none.                                *)
CapHolds ==
    \A l \in Logins :
       IF sessions[l].cap = NoCap
       THEN l \in Legacy
       ELSE sessions[l].expires <= sessions[l].created + Lifetime

(* README.md: failed logins lock the account.  From then on each login     *)
(* call compares one more password at most, the one it had under way, not  *)
(* counting the calls whose query of the lock failed: they are let through.*)
LockoutHolds == \A l \in Logins : late[l] <= 1
=============================================================================
