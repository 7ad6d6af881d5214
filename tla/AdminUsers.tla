----------------------------- MODULE AdminUsers -----------------------------
(***************************************************************************)
(* Administrators who update and delete accounts at the same time: the     *)
(* handlers UpdateUser and DeleteUser of internal/handler/admin.go, the    *)
(* statements they run (internal/model/admin.go, user.go) and the seeding  *)
(* of an administrator at startup.                                         *)
(*                                                                         *)
(* An update is a chain of statements that commit one by one: it looks at  *)
(* the target, counts the administrators, reads the row again, writes all  *)
(* of it, and ends the target's sessions.  A deletion is one transaction   *)
(* that holds the lock of the target's row, and of no other.  Everything   *)
(* runs at READ COMMITTED: a count sees what is committed, locked or not.  *)
(***************************************************************************)
EXTENDS Naturals, FiniteSets

CONSTANTS
    Users,      \* accounts, identified by users.id
    Founders,   \* the administrators after the first start: the seed made one
    Seed,       \* the account SeedAdminUser creates or promotes ("admin")
    Requests,   \* requests to PATCH or DELETE /api/admin/users/:id
    Orders,     \* bound: what the requests of this instance may ask for
    Keep,       \* a field the request does not name
    NoRequest,
    DbFails,    \* whether statements may fail
    MaxRestarts \* bound: restarts of the server

(* What PATCH can ask: a role, or is_active, or both, or neither (then it  *)
(* is the name that changes).                                              *)
Patches == [role : {"admin", "user", Keep}, active : {TRUE, FALSE, Keep}]
Delete  == [role |-> "gone", active |-> Keep]

ASSUME AdminAssumption ==
    /\ IsFiniteSet(Users) /\ Founders \subseteq Users /\ Founders # {} /\ Seed \in Users
    /\ Orders \subseteq Patches \cup {Delete}
    /\ Keep \notin {"admin", "user", "gone"} /\ Keep \notin BOOLEAN
    /\ NoRequest \notin Requests
    /\ DbFails \in BOOLEAN
    /\ MaxRestarts \in Nat

VARIABLES
    role,      \* role[u]: users.role, "none" before the row, "gone" after it
    active,    \* active[u]: users.is_active
    sessions,  \* accounts that have a session
    lock,      \* lock[u]: the transaction that holds u's row
    pc,        \* pc[r]: how far request r is
    req,       \* req[r]: its actor, its target and what it asks for
    seen,      \* seen[r]: the row AdminUpdateUser read
    count,     \* count[r]: the number of administrators r counted, 0 if none
    blind,     \* some administrator was removed on a count that was not true
    switched,  \* some request has switched an administrator off
    restarts

vars == <<role, active, sessions, lock, pc, req, seen, count, blind, switched, restarts>>

Roles == {"none", "admin", "user", "gone"}
Steps == {"idle", "demoting", "suspect", "checked", "read", "written",
          "deleting", "locked", "counted", "done", "refused", "failed"}
Updating == {"demoting", "suspect", "checked", "read", "written"}
Holding  == {"locked", "counted"}
Rows  == [role : Roles, active : BOOLEAN]

\* Faulty variant: a deleted account still counts as one (a soft delete).
FaultyExists(u) == role[u] # "none"

Exists(u) == role[u] \in {"admin", "user"}
Admins == {u \in Users : role[u] = "admin" /\ active[u]}

Typed ==
    /\ role \in [Users -> Roles]
    /\ active \in [Users -> BOOLEAN]
    /\ sessions \subseteq Users
    /\ lock \in [Users -> Requests \cup {NoRequest}]
    /\ pc \in [Requests -> Steps]
    /\ req \in [Requests -> [actor : Users, target : Users, order : Patches \cup {Delete}]]
    /\ seen \in [Requests -> Rows]
    /\ count \in [Requests -> Nat]
    /\ blind \in BOOLEAN /\ switched \in BOOLEAN
    /\ restarts \in 0..MaxRestarts

(* Updates carry a patch; a row is locked by the deletion of that row, from *)
(* the SELECT to the end of its transaction, and by nobody else.           *)
OrdersFit  == \A r \in Requests : pc[r] \in Updating => req[r].order \in Patches
LocksAgree ==
    /\ \A r \in Requests : pc[r] \in Holding => lock[req[r].target] = r
    /\ \A u \in Users : lock[u] # NoRequest =>
          pc[lock[u]] \in Holding /\ req[lock[u]].target = u

TypeOK == Typed /\ OrdersFit /\ LocksAgree

Init ==
    /\ role = [u \in Users |-> IF u \in Founders THEN "admin" ELSE "none"]
    /\ active = [u \in Users |-> u \in Founders]
    /\ sessions = Founders
    /\ lock = [u \in Users |-> NoRequest]
    /\ pc = [r \in Requests |-> "idle"]
    /\ req = [r \in Requests |-> [actor |-> Seed, target |-> Seed, order |-> Delete]]
    /\ seen = [r \in Requests |-> [role |-> "user", active |-> TRUE]]
    /\ count = [r \in Requests |-> 0]
    /\ blind = FALSE /\ switched = FALSE
    /\ restarts = 0

Ghosts == <<blind, switched>>
Table  == <<role, active, sessions>>

-----------------------------------------------------------------------------
(* AdminCreateUser: an administrator adds an account, with any role. *)
Create(a, u, ro) ==
    /\ a \in sessions /\ a \in Admins
    /\ role[u] = "none"
    /\ role' = [role EXCEPT ![u] = ro]
    /\ active' = [active EXCEPT ![u] = TRUE]
    /\ UNCHANGED <<sessions, lock, pc, req, seen, count, Ghosts, restarts>>

(* A user signs in, an active one. *)
Login(u) ==
    /\ Exists(u) /\ active[u] /\ u \notin sessions
    /\ sessions' = sessions \cup {u}
    /\ UNCHANGED <<role, active, lock, pc, req, seen, count, Ghosts, restarts>>

(* The session is valid, the actor an administrator now, and nobody        *)
(* demotes or deletes himself.                                             *)
Admit(r, a, u, o) ==
    /\ pc[r] = "idle"
    /\ a \in sessions /\ a \in Admins
    /\ o.role \in {"user", "gone"} => a # u
    /\ req' = [req EXCEPT ![r] = [actor |-> a, target |-> u, order |-> o]]
    /\ pc' = [pc EXCEPT ![r] = CASE o = Delete        -> "deleting"
                                 [] o.role = "user"   -> "demoting"
                                 [] OTHER             -> "checked"]
    /\ UNCHANGED <<Table, lock, seen, count, Ghosts, restarts>>

(* ------------------------------ UpdateUser ------------------------------ *)
(* A demotion looks whether the target is an administrator at all.         *)
LookAtTarget(r) ==
    /\ pc[r] = "demoting"
    /\ pc' = [pc EXCEPT ![r] = IF role[req[r].target] = "admin" THEN "suspect" ELSE "checked"]
    /\ UNCHANGED <<Table, lock, req, seen, count, Ghosts, restarts>>

\* Faulty variant: the last administrator is no exception.
FaultyIsLast(n) == n < 1

IsLast(n) == n <= 1

(* CountAdminUsers, and LAST_ADMIN when there is one left. *)
CountForDemotion(r) ==
    /\ pc[r] = "suspect"
    /\ count' = [count EXCEPT ![r] = Cardinality(Admins)]
    /\ pc' = [pc EXCEPT ![r] = IF IsLast(Cardinality(Admins)) THEN "refused" ELSE "checked"]
    /\ UNCHANGED <<Table, lock, req, seen, Ghosts, restarts>>

(* AdminUpdateUser reads the row; the update of a missing one fails. *)
ReadRow(r) ==
    LET u == req[r].target IN
    /\ pc[r] = "checked"
    /\ seen' = [seen EXCEPT ![r] = [role |-> role[u], active |-> active[u]]]
    /\ pc' = [pc EXCEPT ![r] = IF Exists(u) THEN "read" ELSE "failed"]
    /\ UNCHANGED <<Table, lock, req, count, Ghosts, restarts>>

Named(field, old) == IF field = Keep THEN old ELSE field

(* The request takes an administrator away, and the number it counted,     *)
(* if it counted, is not the number there is.                              *)
RemovesBlindly(r) ==
    /\ req[r].target \in Admins
    /\ count[r] # Cardinality(Admins)

(* UPDATE users SET role, is_active: every field, the ones the request     *)
(* does not name from what was read.  It waits for the lock of the row,    *)
(* and finds none when the row was deleted meanwhile.                      *)
WriteRow(r) ==
    LET u == req[r].target
        o == req[r].order
        newRole   == Named(o.role, seen[r].role)
        newActive == Named(o.active, seen[r].active)
    IN
    /\ pc[r] = "read" /\ lock[u] = NoRequest
    /\ IF ~ Exists(u)
       THEN UNCHANGED <<role, active, Ghosts>>
       ELSE /\ role' = [role EXCEPT ![u] = newRole]
            /\ active' = [active EXCEPT ![u] = newActive]
            /\ blind' = (blind \/ (/\ newRole # "admin" \/ (o.active = Keep /\ ~ newActive)
                                  /\ RemovesBlindly(r)))
            /\ switched' = (switched \/ (o.active = FALSE /\ u \in Admins))
    /\ pc' = [pc EXCEPT ![r] = "written"]
    /\ UNCHANGED <<sessions, lock, req, seen, count, restarts>>

EndsSessions(o) == o.active = FALSE \/ o.role # Keep

(* DestroyAllUserSessions, and the answer. *)
EndSessions(r) ==
    /\ pc[r] = "written"
    /\ sessions' = IF EndsSessions(req[r].order) THEN sessions \ {req[r].target} ELSE sessions
    /\ pc' = [pc EXCEPT ![r] = "done"]
    /\ UNCHANGED <<role, active, lock, req, seen, count, Ghosts, restarts>>

(* ------------------------------ DeleteUser ------------------------------ *)
(* SELECT role ... FOR UPDATE. *)
LockTarget(r) ==
    LET u == req[r].target IN
    /\ pc[r] = "deleting" /\ lock[u] = NoRequest
    /\ IF ~ Exists(u)
       THEN /\ pc' = [pc EXCEPT ![r] = "failed"]
            /\ UNCHANGED lock
       ELSE /\ pc' = [pc EXCEPT ![r] = "locked"]
            /\ lock' = [lock EXCEPT ![u] = r]
    /\ UNCHANGED <<Table, req, seen, count, Ghosts, restarts>>

(* SELECT COUNT: only an administrator is counted for, active or not. *)
CountAdmins(r) ==
    /\ pc[r] = "locked"
    /\ count' = [count EXCEPT ![r] =
                    IF role[req[r].target] = "admin" THEN Cardinality(Admins) ELSE 0]
    /\ pc' = [pc EXCEPT ![r] = "counted"]
    /\ UNCHANGED <<Table, lock, req, seen, Ghosts, restarts>>

MayDelete(r) == role[req[r].target] = "admin" => ~ IsLast(count[r])

\* Faulty variant: a refused transaction is not rolled back.
FaultyUnlock(u) == UNCHANGED lock

Unlock(u) == lock' = [lock EXCEPT ![u] = NoRequest]

(* DELETE and COMMIT; the sessions go with the row (ON DELETE CASCADE). *)
DeleteRow(r) ==
    LET u == req[r].target IN
    /\ pc[r] = "counted" /\ MayDelete(r)
    /\ role' = [role EXCEPT ![u] = "gone"]
    /\ active' = [active EXCEPT ![u] = FALSE]
    /\ sessions' = sessions \ {u}
    /\ blind' = (blind \/ RemovesBlindly(r))
    /\ lock' = [lock EXCEPT ![u] = NoRequest]
    /\ pc' = [pc EXCEPT ![r] = "done"]
    /\ UNCHANGED <<req, seen, count, switched, restarts>>

(* "cannot delete the last admin user", and the deferred rollback. *)
RefuseDelete(r) ==
    /\ pc[r] = "counted" /\ ~ MayDelete(r)
    /\ Unlock(req[r].target)
    /\ pc' = [pc EXCEPT ![r] = "refused"]
    /\ UNCHANGED <<Table, req, seen, count, Ghosts, restarts>>

-----------------------------------------------------------------------------
NeedsSeed == Admins = {}

(* The server stops, with the requests it was serving, and starts again:   *)
(* SeedAdminUser creates the account, or promotes and activates the one    *)
(* that has its name.                                                      *)
Restart ==
    /\ restarts < MaxRestarts
    /\ restarts' = restarts + 1
    /\ pc' = [r \in Requests |-> IF pc[r] \in {"idle", "done", "refused"} THEN pc[r] ELSE "failed"]
    /\ lock' = [u \in Users |-> NoRequest]
    /\ IF NeedsSeed
       THEN /\ role' = [role EXCEPT ![Seed] = "admin"]
            /\ active' = [active EXCEPT ![Seed] = TRUE]
       ELSE UNCHANGED <<role, active>>
    /\ UNCHANGED <<sessions, req, seen, count, Ghosts>>

(* A statement fails.  Where the handlers look before a demotion they go   *)
(* on without an answer; the end of the sessions is not insisted on; every *)
(* other failure ends the request, and a transaction with it.              *)
StatementFails(r) ==
    LET u == req[r].target IN
    /\ DbFails
    /\ \/ /\ pc[r] \in {"demoting", "suspect"}
          /\ pc' = [pc EXCEPT ![r] = "checked"]
          /\ UNCHANGED lock
       \/ /\ pc[r] = "written"
          /\ pc' = [pc EXCEPT ![r] = "done"]
          /\ UNCHANGED lock
       \/ /\ pc[r] \in {"checked", "read", "deleting"}
          /\ pc' = [pc EXCEPT ![r] = "failed"]
          /\ UNCHANGED lock
       \/ /\ pc[r] \in {"locked", "counted"}
          /\ pc' = [pc EXCEPT ![r] = "failed"]
          /\ Unlock(u)
    /\ UNCHANGED <<Table, req, seen, count, Ghosts, restarts>>

Update(r) == LookAtTarget(r) \/ CountForDemotion(r) \/ ReadRow(r) \/ WriteRow(r) \/ EndSessions(r)
Remove(r) == LockTarget(r) \/ CountAdmins(r) \/ DeleteRow(r) \/ RefuseDelete(r)

Next ==
    \/ \E u \in Users : Login(u)
    \/ \E a, u \in Users, ro \in {"admin", "user"} : Create(a, u, ro)
    \/ \E r \in Requests, a, u \in Users, o \in Orders : Admit(r, a, u, o)
    \/ \E r \in Requests : Update(r) \/ Remove(r) \/ StatementFails(r)
    \/ Restart

Spec == Init /\ [][Next]_vars

(* The server serves every request it has admitted; PostgreSQL grants row  *)
(* locks in the order they were asked for.                                 *)
FairSpec == Spec /\ \A r \in Requests : SF_vars(Update(r) \/ Remove(r))

-----------------------------------------------------------------------------
(* Some account can administer.  The comment on AdminDeleteUserAtomic      *)
(* says the transaction guarantees it, the comment in UpdateUser that the  *)
(* last administrator is not demoted.                                      *)
SomeAdmin == Admins # {}

(* Administrators run out in two ways only: a request switched one off     *)
(* (no guard counts then), or a request removed one although the count it  *)
(* decided by was no longer, or never, the true one.                       *)
LossHasACause == SomeAdmin \/ blind \/ switched

(* A deleted account does not come back: an update that read the row       *)
(* before the deletion and writes all of it afterwards finds no row.  Only *)
(* the seed of a start may create its account again.                       *)
DeletedStaysDeleted ==
    [][\A u \in Users : role[u] = "gone" => role'[u] = "gone" \/ (u = Seed /\ restarts' > restarts)]_vars

(* Every request is answered: a deletion that is refused gives the row     *)
(* back, and no two deletions wait for each other.                         *)
EveryRequestEnds ==
    \A r \in Requests : pc[r] # "idle" ~> pc[r] \in {"done", "refused", "failed"}

=============================================================================
