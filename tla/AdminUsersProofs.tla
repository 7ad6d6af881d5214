-------------------------- MODULE AdminUsersProofs --------------------------
(***************************************************************************)
(* How administrators can and cannot run out, for every set of accounts    *)
(* and requests.  The inductive part is what a request knows from its      *)
(* count: it has not counted yet, or it was not told that the target is    *)
(* the last.  A removal decided by a true count then leaves one.           *)
(***************************************************************************)
EXTENDS AdminUsers, FiniteSetTheorems, TLAPS

(* A request counts once, and goes on to write only past the last one.     *)
CountsAreSane ==
    /\ \A r \in Requests :
          pc[r] \in {"idle", "demoting", "suspect", "deleting", "locked"} => count[r] = 0
    /\ \A r \in Requests : pc[r] \in {"checked", "read"} => count[r] = 0 \/ count[r] > 1

IInv == TypeOK /\ CountsAreSane /\ LossHasACause

LEMMA AdminsAreFinite == IsFiniteSet(Admins) /\ Cardinality(Admins) \in Nat
BY AdminAssumption, FS_Subset, FS_CardinalityType DEF Admins

(* When more than one element is counted, taking one out leaves another.   *)
LEMMA OneOfManyLeaves ==
    ASSUME NEW S, IsFiniteSet(S), Cardinality(S) > 1, NEW u
    PROVE  S \ {u} # {}
<1>1. CASE u \in S
  BY <1>1, FS_RemoveElement, FS_EmptySet, FS_CardinalityType
<1>2. CASE u \notin S
  BY <1>2, FS_EmptySet
<1>3. QED BY <1>1, <1>2

(* The types of one request, taken out of the functions.                   *)
LEMMA RequestTypes ==
    ASSUME TypeOK, NEW r \in Requests
    PROVE  /\ req[r].target \in Users
           /\ req[r].order \in Patches \cup {Delete}
           /\ seen[r].role \in Roles /\ seen[r].active \in BOOLEAN
<1>1. req[r] \in [actor : Users, target : Users, order : Patches \cup {Delete}]
  BY DEF TypeOK, Typed
<1>2. seen[r] \in Rows
  BY DEF TypeOK, Typed
<1>3. QED BY <1>1, <1>2 DEF Rows

(* What an update writes has the types of the columns.                     *)
LEMMA WrittenTypes ==
    ASSUME TypeOK, NEW r \in Requests, pc[r] = "read"
    PROVE  /\ Named(req[r].order.role, seen[r].role) \in Roles
           /\ Named(req[r].order.active, seen[r].active) \in BOOLEAN
<1>1. req[r].order \in Patches
  BY DEF TypeOK, OrdersFit, Updating
<1>2. req[r].order.role \in {"admin", "user", Keep} /\ req[r].order.active \in {TRUE, FALSE, Keep}
  BY <1>1 DEF Patches
<1>3. Named(req[r].order.role, seen[r].role) \in Roles
  BY <1>2, RequestTypes DEF Named, Roles
<1>4. Named(req[r].order.active, seen[r].active) \in BOOLEAN
  <2>1. CASE req[r].order.active = Keep
    BY <2>1, RequestTypes DEF Named
  <2>2. CASE req[r].order.active # Keep
    <3>1. req[r].order.active \in BOOLEAN
      BY <1>2, <2>2
    <3>2. QED BY <2>2, <3>1 DEF Named
  <2>3. QED BY <2>1, <2>2
<1>5. QED BY <1>3, <1>4

(* The types of the table, the requests and the ghosts.                    *)
LEMMA TypedStep ==
    ASSUME TypeOK, [Next]_vars
    PROVE  Typed'
<1> USE DEF TypeOK, Typed, Steps, Roles, Ghosts, Table
<1>1. ASSUME NEW a \in Users, NEW u \in Users, NEW ro \in {"admin", "user"}, Create(a, u, ro)
      PROVE  Typed'
  BY <1>1 DEF Create
<1>2. ASSUME NEW u \in Users, Login(u) PROVE Typed'
  BY <1>2 DEF Login
<1>3. ASSUME NEW r \in Requests, NEW a \in Users, NEW u \in Users, NEW o \in Orders,
             Admit(r, a, u, o)
      PROVE  Typed'
  <2>1. [actor |-> a, target |-> u, order |-> o]
          \in [actor : Users, target : Users, order : Patches \cup {Delete}]
    BY AdminAssumption
  <2>2. QED BY <1>3, <2>1 DEF Admit
<1>4. ASSUME NEW r \in Requests, LookAtTarget(r) PROVE Typed'
  BY <1>4 DEF LookAtTarget
<1>5. ASSUME NEW r \in Requests, CountForDemotion(r) PROVE Typed'
  BY <1>5, AdminsAreFinite DEF CountForDemotion
<1>6. ASSUME NEW r \in Requests, ReadRow(r) PROVE Typed'
  BY <1>6, RequestTypes DEF ReadRow, Rows
<1>7. ASSUME NEW r \in Requests, WriteRow(r) PROVE Typed'
  <2>1. pc[r] = "read"
    BY <1>7 DEF WriteRow
  <2>2. role' \in [Users -> Roles]
    BY <1>7, <2>1, RequestTypes, WrittenTypes DEF WriteRow
  <2>3. active' \in [Users -> BOOLEAN]
    <3> DEFINE v == Named(req[r].order.active, seen[r].active)
    <3>1. v \in BOOLEAN
      BY <2>1, WrittenTypes
    <3>2. active' = active \/ active' = [active EXCEPT ![req[r].target] = v]
      BY <1>7 DEF WriteRow
    <3> HIDE DEF v
    <3>3. QED BY <3>1, <3>2
  <2>4. blind' \in BOOLEAN /\ switched' \in BOOLEAN
    BY <1>7 DEF WriteRow
  <2>5. QED BY <1>7, <2>2, <2>3, <2>4 DEF WriteRow
<1>8. ASSUME NEW r \in Requests, EndSessions(r) PROVE Typed'
  BY <1>8 DEF EndSessions
<1>9. ASSUME NEW r \in Requests, LockTarget(r) PROVE Typed'
  BY <1>9, RequestTypes DEF LockTarget
<1>10. ASSUME NEW r \in Requests, CountAdmins(r) PROVE Typed'
  BY <1>10, AdminsAreFinite DEF CountAdmins
<1>11. ASSUME NEW r \in Requests, DeleteRow(r) PROVE Typed'
  BY <1>11 DEF DeleteRow
<1>12. ASSUME NEW r \in Requests, RefuseDelete(r) PROVE Typed'
  BY <1>12 DEF RefuseDelete, Unlock
<1>13. ASSUME NEW r \in Requests, StatementFails(r) PROVE Typed'
  BY <1>13 DEF StatementFails, Unlock
<1>14. CASE Restart
  <2>1. role' \in [Users -> Roles] /\ active' \in [Users -> BOOLEAN]
    BY <1>14, AdminAssumption DEF Restart
  <2>2. pc' \in [Requests -> Steps] /\ lock' \in [Users -> Requests \cup {NoRequest}]
    BY <1>14 DEF Restart
  <2>3. restarts' \in 0..MaxRestarts
    BY <1>14, AdminAssumption DEF Restart
  <2>4. QED BY <1>14, <2>1, <2>2, <2>3 DEF Restart
<1>15. CASE UNCHANGED vars
  BY <1>15 DEF vars
<1>16. QED
  BY <1>1, <1>2, <1>3, <1>4, <1>5, <1>6, <1>7, <1>8, <1>9, <1>10, <1>11, <1>12,
     <1>13, <1>14, <1>15 DEF Next, Update, Remove

(* Updates carry patches: a request enters the updating steps with one.    *)
LEMMA OrdersStep ==
    ASSUME TypeOK, [Next]_vars
    PROVE  OrdersFit'
<1> SUFFICES ASSUME NEW s \in Requests, pc'[s] \in Updating
             PROVE  req'[s].order \in Patches
  BY DEF OrdersFit
<1>1. pc[s] \in Updating => req[s].order \in Patches
  BY DEF TypeOK, OrdersFit
<1>2. ASSUME NEW r \in Requests, NEW a \in Users, NEW u \in Users, NEW o \in Orders,
             Admit(r, a, u, o)
      PROVE  req'[s].order \in Patches
  <2>1. CASE s # r
    BY <1>1, <1>2, <2>1 DEF Admit, TypeOK, Typed
  <2>2. CASE s = r
    <3>1. req'[r].order = o
      BY <1>2 DEF Admit, TypeOK, Typed
    <3>2. pc'[r] = CASE o = Delete -> "deleting" [] o.role = "user" -> "demoting" [] OTHER -> "checked"
      BY <1>2 DEF Admit, TypeOK, Typed
    <3>3. o # Delete
      BY <2>2, <3>2 DEF Updating, Delete
    <3>4. QED BY <2>2, <3>1, <3>3, AdminAssumption
  <2>3. QED BY <2>1, <2>2
<1>3. ASSUME UNCHANGED req, pc'[s] \in Updating => pc[s] \in Updating
      PROVE  req'[s].order \in Patches
  BY <1>1, <1>3
<1>4. ASSUME NEW r \in Requests, Update(r) \/ Remove(r) \/ StatementFails(r)
      PROVE  req'[s].order \in Patches
  BY <1>3, <1>4 DEF Update, Remove, LookAtTarget, CountForDemotion, ReadRow, WriteRow, EndSessions,
        LockTarget, CountAdmins, DeleteRow, RefuseDelete, StatementFails, Updating, TypeOK, Typed
<1>5. CASE Restart
  BY <1>3, <1>5 DEF Restart, Updating
<1>6. CASE \/ UNCHANGED vars
           \/ \E u \in Users : Login(u)
           \/ \E a, u \in Users, ro \in {"admin", "user"} : Create(a, u, ro)
  BY <1>3, <1>6 DEF vars, Login, Create
<1>7. QED BY <1>2, <1>4, <1>5, <1>6 DEF Next

(* Locks: a step that changes none and moves no request in or out of the   *)
(* transaction keeps the agreement.                                        *)
LEMMA LocksFrame ==
    ASSUME TypeOK, UNCHANGED lock,
           \A r \in Requests : pc'[r] \in Holding <=> pc[r] \in Holding,
           \A r \in Requests : pc[r] \in Holding => req'[r] = req[r]
    PROVE  LocksAgree'
BY DEF TypeOK, Typed, LocksAgree

(* A request that leaves the transaction gives up its one lock.            *)
LEMMA LocksUnlock ==
    ASSUME TypeOK, NEW r \in Requests, pc[r] \in Holding, Unlock(req[r].target),
           NEW p \in Steps \ Holding, pc' = [pc EXCEPT ![r] = p], UNCHANGED req
    PROVE  LocksAgree'
<1>1. ASSUME NEW s \in Requests, pc'[s] \in Holding PROVE lock'[req'[s].target] = s
  <2>1. s # r /\ pc[s] \in Holding
    BY <1>1 DEF TypeOK, Typed
  <2>2. req[s].target # req[r].target
    BY <2>1 DEF TypeOK, LocksAgree
  <2>3. QED BY <2>1, <2>2, RequestTypes DEF TypeOK, Typed, LocksAgree, Unlock
<1>2. ASSUME NEW v \in Users, lock'[v] # NoRequest
      PROVE  pc'[lock'[v]] \in Holding /\ req'[lock'[v]].target = v
  <2>1. v # req[r].target /\ lock'[v] = lock[v]
    BY <1>2, RequestTypes DEF TypeOK, Typed, Unlock
  <2>2. lock[v] # r /\ lock[v] \in Requests
    BY <1>2, <2>1, RequestTypes DEF TypeOK, Typed, LocksAgree
  <2>3. QED BY <1>2, <2>1, <2>2 DEF TypeOK, Typed, LocksAgree
<1>3. QED BY <1>1, <1>2 DEF LocksAgree

LEMMA LocksStep ==
    ASSUME TypeOK, [Next]_vars
    PROVE  LocksAgree'
<1>1. ASSUME NEW r \in Requests, NEW a \in Users, NEW u \in Users, NEW o \in Orders,
             Admit(r, a, u, o)
      PROVE  LocksAgree'
  <2>1. pc'[r] \notin Holding /\ pc[r] \notin Holding
    BY <1>1 DEF Admit, TypeOK, Typed, Holding
  <2>2. \A s \in Requests : s # r => pc'[s] = pc[s] /\ req'[s] = req[s]
    BY <1>1 DEF Admit, TypeOK, Typed
  <2>3. QED BY <1>1, <2>1, <2>2, LocksFrame DEF Admit
<1>2. ASSUME NEW r \in Requests, Update(r) PROVE LocksAgree'
  BY <1>2, LocksFrame DEF Update, LookAtTarget, CountForDemotion, ReadRow, WriteRow, EndSessions,
        Holding, TypeOK, Typed
<1>3. ASSUME NEW r \in Requests, LockTarget(r) PROVE LocksAgree'
  <2> DEFINE u == req[r].target
  <2>1. CASE ~ Exists(u)
    BY <1>3, <2>1, LocksFrame DEF LockTarget, Holding, TypeOK, Typed
  <2>2. CASE Exists(u)
    <3>1. /\ pc' = [pc EXCEPT ![r] = "locked"] /\ lock' = [lock EXCEPT ![u] = r]
          /\ UNCHANGED req /\ lock[u] = NoRequest /\ pc[r] \notin Holding
      BY <1>3, <2>2 DEF LockTarget, Holding
    <3>2. \A s \in Requests : pc[s] \in Holding => s # r /\ req[s].target # u
      BY <3>1, AdminAssumption DEF TypeOK, Typed, LocksAgree
    <3>3. u \in Users
      BY RequestTypes
    <3> HIDE DEF u
    <3>4. \A s \in Requests : pc'[s] \in Holding => lock'[req'[s].target] = s
      <4> SUFFICES ASSUME NEW s \in Requests, pc'[s] \in Holding PROVE lock'[req[s].target] = s
        BY <3>1
      <4>1. CASE s = r
        BY <3>1, <3>3, <4>1 DEF TypeOK, Typed, u
      <4>2. CASE s # r
        <5>1. pc[s] \in Holding /\ req[s].target # u /\ req[s].target \in Users
          BY <3>1, <3>2, <4>2, RequestTypes DEF TypeOK, Typed
        <5>2. QED BY <3>1, <5>1 DEF TypeOK, Typed, LocksAgree
      <4>3. QED BY <4>1, <4>2
    <3>5. \A v \in Users : lock'[v] # NoRequest =>
             pc'[lock'[v]] \in Holding /\ req'[lock'[v]].target = v
      <4> SUFFICES ASSUME NEW v \in Users, lock'[v] # NoRequest
                   PROVE  pc'[lock'[v]] \in Holding /\ req[lock'[v]].target = v
        BY <3>1
      <4>1. CASE v = u
        BY <3>1, <4>1 DEF TypeOK, Typed, Holding, u
      <4>2. CASE v # u
        BY <3>1, <4>2 DEF TypeOK, Typed, LocksAgree
      <4>3. QED BY <4>1, <4>2
    <3>6. QED BY <3>4, <3>5 DEF LocksAgree
  <2>3. QED BY <2>1, <2>2
<1>4. ASSUME NEW r \in Requests, CountAdmins(r) PROVE LocksAgree'
  BY <1>4, LocksFrame DEF CountAdmins, Holding, TypeOK, Typed
<1>5. ASSUME NEW r \in Requests, DeleteRow(r) PROVE LocksAgree'
  BY <1>5, LocksUnlock, "done" \in Steps \ Holding DEF DeleteRow, Unlock, Steps, Holding
<1>6. ASSUME NEW r \in Requests, RefuseDelete(r) PROVE LocksAgree'
  BY <1>6, LocksUnlock, "refused" \in Steps \ Holding DEF RefuseDelete, Steps, Holding
<1>7. ASSUME NEW r \in Requests, StatementFails(r) PROVE LocksAgree'
  <2>1. CASE pc[r] \in Holding
    BY <1>7, <2>1, LocksUnlock, "failed" \in Steps \ Holding DEF StatementFails, Steps, Holding
  <2>2. CASE pc[r] \notin Holding
    BY <1>7, <2>2, LocksFrame DEF StatementFails, Holding, TypeOK, Typed
  <2>3. QED BY <2>1, <2>2
<1>8. CASE Restart
  BY <1>8 DEF Restart, LocksAgree, Holding, TypeOK, Typed
<1>9. CASE \/ UNCHANGED vars
           \/ \E u \in Users : Login(u)
           \/ \E a, u \in Users, ro \in {"admin", "user"} : Create(a, u, ro)
  BY <1>9, LocksFrame DEF vars, Login, Create
<1>10. QED
  BY <1>1, <1>2, <1>3, <1>4, <1>5, <1>6, <1>7, <1>8, <1>9 DEF Next, Remove

(* What a request counted, if it counted, is more than one when it goes on *)
(* to write.                                                               *)
LEMMA CountsStep ==
    ASSUME TypeOK, CountsAreSane, [Next]_vars
    PROVE  CountsAreSane'
<1> DEFINE Early == {"idle", "demoting", "suspect", "deleting", "locked"}
<1> SUFFICES ASSUME NEW s \in Requests
             PROVE  /\ pc'[s] \in Early => count'[s] = 0
                    /\ pc'[s] \in {"checked", "read"} => count'[s] = 0 \/ count'[s] > 1
  BY DEF CountsAreSane
<1>1. ASSUME UNCHANGED count,
             pc'[s] \in Early => pc[s] \in Early,
             pc'[s] \in {"checked", "read"} => pc[s] \in Early \cup {"checked", "read"}
      PROVE  /\ pc'[s] \in Early => count'[s] = 0
             /\ pc'[s] \in {"checked", "read"} => count'[s] = 0 \/ count'[s] > 1
  BY <1>1 DEF CountsAreSane
<1>2. ASSUME NEW r \in Requests, CountForDemotion(r)
      PROVE  /\ pc'[s] \in Early => count'[s] = 0
             /\ pc'[s] \in {"checked", "read"} => count'[s] = 0 \/ count'[s] > 1
  BY <1>2, AdminsAreFinite DEF CountForDemotion, IsLast, CountsAreSane, TypeOK, Typed
<1>3. ASSUME NEW r \in Requests, CountAdmins(r)
      PROVE  /\ pc'[s] \in Early => count'[s] = 0
             /\ pc'[s] \in {"checked", "read"} => count'[s] = 0 \/ count'[s] > 1
  BY <1>3 DEF CountAdmins, CountsAreSane, TypeOK, Typed
<1>4. ASSUME NEW r \in Requests, NEW a \in Users, NEW u \in Users, NEW o \in Orders,
             Admit(r, a, u, o)
      PROVE  /\ pc'[s] \in Early => count'[s] = 0
             /\ pc'[s] \in {"checked", "read"} => count'[s] = 0 \/ count'[s] > 1
  BY <1>1, <1>4 DEF Admit, TypeOK, Typed
<1>5. ASSUME NEW r \in Requests,
             \/ LookAtTarget(r) \/ ReadRow(r) \/ WriteRow(r) \/ EndSessions(r) \/ LockTarget(r)
             \/ DeleteRow(r) \/ RefuseDelete(r) \/ StatementFails(r)
      PROVE  /\ pc'[s] \in Early => count'[s] = 0
             /\ pc'[s] \in {"checked", "read"} => count'[s] = 0 \/ count'[s] > 1
  BY <1>1, <1>5 DEF LookAtTarget, ReadRow, WriteRow, EndSessions, LockTarget, DeleteRow,
        RefuseDelete, StatementFails, TypeOK, Typed
<1>6. CASE Restart
  BY <1>1, <1>6 DEF Restart
<1>7. CASE \/ UNCHANGED vars
           \/ \E u \in Users : Login(u)
           \/ \E a, u \in Users, ro \in {"admin", "user"} : Create(a, u, ro)
  BY <1>1, <1>7 DEF vars, Login, Create
<1>8. QED BY <1>2, <1>3, <1>4, <1>5, <1>6, <1>7 DEF Next, Update, Remove

(* A step that leaves every other account alone takes away at most one     *)
(* administrator, and one more than that were counted.                     *)
LEMMA CountedOutLeavesOne ==
    ASSUME NEW u \in Users, Cardinality(Admins) > 1, Admins \ {u} \subseteq Admins'
    PROVE  SomeAdmin'
BY AdminsAreFinite, OneOfManyLeaves DEF SomeAdmin

LEMMA OthersStay ==
    ASSUME Typed, NEW u \in Users, NEW ro, NEW ac,
           role' = [role EXCEPT ![u] = ro], active' = [active EXCEPT ![u] = ac]
    PROVE  Admins \ {u} \subseteq Admins'
BY DEF Typed, Admins

(* The cause is recorded with the loss. *)
LEMMA LossStep ==
    ASSUME TypeOK, CountsAreSane, LossHasACause, [Next]_vars
    PROVE  LossHasACause'
<1>1. CASE Admins \subseteq Admins' /\ (blind => blind') /\ (switched => switched')
  BY <1>1 DEF LossHasACause, SomeAdmin
<1>2. ASSUME NEW r \in Requests, WriteRow(r) PROVE LossHasACause'
  <2> DEFINE u == req[r].target
             o == req[r].order
             newRole == Named(o.role, seen[r].role)
             newActive == Named(o.active, seen[r].active)
  <2>1. pc[r] = "read" /\ u \in Users /\ newRole \in Roles /\ newActive \in BOOLEAN
    BY <1>2, RequestTypes, WrittenTypes DEF WriteRow
  <2>2. o.active = Keep \/ o.active = FALSE \/ o.active = TRUE
    BY <2>1 DEF TypeOK, OrdersFit, Updating, Patches
  <2>3. CASE ~ Exists(u)
    BY <1>2, <2>3 DEF WriteRow, Admins, LossHasACause, SomeAdmin, Ghosts
  <2>4. CASE Exists(u)
    <3>1. /\ role' = [role EXCEPT ![u] = newRole]
          /\ active' = [active EXCEPT ![u] = newActive]
          /\ blind' = (blind \/ (/\ newRole # "admin" \/ (o.active = Keep /\ ~ newActive)
                                /\ RemovesBlindly(r)))
          /\ switched' = (switched \/ (o.active = FALSE /\ u \in Admins))
      BY <1>2, <2>4 DEF WriteRow
    <3>2. Admins \ {u} \subseteq Admins'
      BY <2>1, <3>1, OthersStay DEF TypeOK
    <3>3. CASE u \notin Admins
      BY <3>1, <3>2, <3>3 DEF LossHasACause, SomeAdmin
    <3>4. CASE u \in Admins /\ newRole = "admin" /\ newActive = TRUE
      <4>1. u \in Admins'
        BY <2>1, <3>1, <3>4 DEF Admins, TypeOK, Typed
      <4>2. QED BY <4>1 DEF LossHasACause, SomeAdmin
    <3>5. CASE u \in Admins /\ o.active = FALSE
      BY <3>1, <3>5 DEF LossHasACause
    <3>6. CASE u \in Admins /\ (newRole # "admin" \/ (o.active = Keep /\ ~ newActive))
      <4>1. CASE count[r] # Cardinality(Admins)
        BY <3>1, <3>6, <4>1 DEF LossHasACause, RemovesBlindly
      <4>2. CASE count[r] = Cardinality(Admins)
        <5>1. Cardinality(Admins) # 0
          BY <3>6, AdminsAreFinite, FS_EmptySet
        <5>2. Cardinality(Admins) > 1
          BY <2>1, <4>2, <5>1 DEF CountsAreSane
        <5>3. QED BY <2>1, <3>2, <5>2, CountedOutLeavesOne DEF LossHasACause
      <4>3. QED BY <4>1, <4>2
    <3>7. o.active = TRUE => newActive = TRUE
      BY AdminAssumption DEF Named
    <3>8. newActive = TRUE \/ newActive = FALSE
      BY <2>1
    <3> HIDE DEF u, o, newRole, newActive
    <3>9. QED BY <2>2, <3>3, <3>4, <3>5, <3>6, <3>7, <3>8
  <2>5. QED BY <2>3, <2>4
<1>3. ASSUME NEW r \in Requests, DeleteRow(r) PROVE LossHasACause'
  <2> DEFINE u == req[r].target
  <2>1. u \in Users
    BY RequestTypes
  <2>2. Admins \ {u} \subseteq Admins'
    BY <1>3, <2>1, OthersStay DEF DeleteRow, TypeOK
  <2>3. CASE u \notin Admins
    BY <1>3, <2>2, <2>3 DEF DeleteRow, LossHasACause, SomeAdmin
  <2>4. CASE u \in Admins /\ count[r] # Cardinality(Admins)
    BY <1>3, <2>4 DEF DeleteRow, RemovesBlindly, LossHasACause
  <2>5. CASE u \in Admins /\ count[r] = Cardinality(Admins)
    <3>1. count[r] > 1
      BY <1>3, <2>5, AdminsAreFinite DEF DeleteRow, MayDelete, IsLast, Admins
    <3>2. QED BY <2>1, <2>2, <2>5, <3>1, CountedOutLeavesOne DEF LossHasACause
  <2>6. QED BY <2>3, <2>4, <2>5
<1>4. ASSUME NEW a \in Users, NEW u \in Users, NEW ro \in {"admin", "user"}, Create(a, u, ro)
      PROVE  LossHasACause'
  <2>1. u \notin Admins
    BY <1>4 DEF Create, Admins
  <2>2. Admins \ {u} \subseteq Admins'
    BY <1>4, OthersStay DEF Create, TypeOK
  <2>3. QED BY <1>1, <1>4, <2>1, <2>2 DEF Create, Ghosts
<1>5. CASE Restart
  <2>1. CASE Admins = {}
    <3>1. Seed \in Admins'
      BY <1>5, <2>1, AdminAssumption DEF Restart, NeedsSeed, Admins, TypeOK, Typed
    <3>2. QED BY <3>1 DEF LossHasACause, SomeAdmin
  <2>2. CASE Admins # {}
    BY <1>5, <2>2 DEF Restart, NeedsSeed, Admins, LossHasACause, SomeAdmin
  <2>3. QED BY <2>1, <2>2
<1>6. ASSUME UNCHANGED <<role, active, blind, switched>> PROVE LossHasACause'
  BY <1>6 DEF LossHasACause, SomeAdmin, Admins
<1>7. ASSUME NEW r \in Requests, NEW a \in Users, NEW u \in Users, NEW o \in Orders,
             Admit(r, a, u, o)
      PROVE  LossHasACause'
  BY <1>6, <1>7 DEF Admit, Table, Ghosts
<1>8. ASSUME NEW r \in Requests,
             \/ LookAtTarget(r) \/ CountForDemotion(r) \/ ReadRow(r) \/ EndSessions(r)
             \/ LockTarget(r) \/ CountAdmins(r) \/ RefuseDelete(r) \/ StatementFails(r)
      PROVE  LossHasACause'
  BY <1>6, <1>8 DEF LookAtTarget, CountForDemotion, ReadRow, EndSessions, LockTarget, CountAdmins,
        RefuseDelete, StatementFails, Table, Ghosts
<1>9. CASE UNCHANGED vars \/ \E u \in Users : Login(u)
  BY <1>6, <1>9 DEF vars, Login, Ghosts
<1>10. QED
  BY <1>2, <1>3, <1>4, <1>5, <1>7, <1>8, <1>9 DEF Next, Update, Remove

(* The invariant of the whole module.                                      *)
LEMMA InvariantStep == IInv /\ [Next]_vars => IInv'
BY TypedStep, OrdersStep, LocksStep, CountsStep, LossStep DEF IInv, TypeOK

LEMMA InvariantInit == Init => IInv
<1> SUFFICES ASSUME Init PROVE IInv
  OBVIOUS
<1>1. TypeOK
  <2>1. role \in [Users -> Roles] /\ active \in [Users -> BOOLEAN] /\ sessions \subseteq Users
    BY AdminAssumption DEF Init, Roles
  <2>2. req \in [Requests -> [actor : Users, target : Users, order : Patches \cup {Delete}]]
    BY AdminAssumption DEF Init
  <2>3. seen \in [Requests -> Rows]
    BY DEF Init, Rows, Roles
  <2>4. Typed
    <3>1. blind \in BOOLEAN /\ switched \in BOOLEAN
      BY DEF Init
    <3>2. restarts \in 0..MaxRestarts /\ count \in [Requests -> Nat]
      BY AdminAssumption DEF Init
    <3>3. lock \in [Users -> Requests \cup {NoRequest}] /\ pc \in [Requests -> Steps]
      BY DEF Init, Steps
    <3>4. QED BY <2>1, <2>2, <2>3, <3>1, <3>2, <3>3 DEF Typed
  <2>5. OrdersFit /\ LocksAgree
    BY DEF Init, OrdersFit, LocksAgree, Holding, Updating
  <2>6. QED BY <2>4, <2>5 DEF TypeOK
<1>2. CountsAreSane
  BY DEF Init, CountsAreSane
<1>3. Admins = Founders
  BY AdminAssumption DEF Init, Admins
<1>4. QED BY <1>1, <1>2, <1>3, AdminAssumption DEF IInv, LossHasACause, SomeAdmin

(* AdminUpdateUser and AdminDeleteUserAtomic lose the last administrator   *)
(* only by switching one off, or by a removal whose count was not true:    *)
(* with true counts the check `adminCount <= 1` is enough.                 *)
THEOREM LossExplained == Spec => []LossHasACause
<1>1. IInv => LossHasACause
  BY DEF IInv
<1>2. QED BY <1>1, InvariantInit, InvariantStep, PTL DEF Spec

(* The deletion's transaction and the row it locks always agree, and every *)
(* variable keeps its type.                                                *)
THEOREM TypesHold == Spec => []TypeOK
<1>1. IInv => TypeOK
  BY DEF IInv
<1>2. QED BY <1>1, InvariantInit, InvariantStep, PTL DEF Spec

(* No interleaving of updates and deletions brings a deleted row back.     *)
THEOREM NoResurrection == Spec => DeletedStaysDeleted
<1> DEFINE Stays == \A u \in Users :
                       role[u] = "gone" => role'[u] = "gone" \/ (u = Seed /\ restarts' > restarts)
<1>1. IInv /\ [Next]_vars => [Stays]_vars
  <2> SUFFICES ASSUME IInv, Next, NEW v \in Users, role[v] = "gone"
               PROVE  role'[v] = "gone" \/ (v = Seed /\ restarts' > restarts)
    BY DEF vars
  <2> USE DEF IInv, TypeOK, Typed
  <2>1. ASSUME NEW r \in Requests, WriteRow(r) PROVE role'[v] = "gone"
    BY <2>1 DEF WriteRow, Exists
  <2>2. ASSUME NEW r \in Requests, DeleteRow(r) PROVE role'[v] = "gone"
    BY <2>2 DEF DeleteRow
  <2>3. CASE Restart
    BY <2>3 DEF Restart
  <2>4. ASSUME NEW a \in Users, NEW u \in Users, NEW ro \in {"admin", "user"}, Create(a, u, ro)
        PROVE  role'[v] = "gone"
    BY <2>4 DEF Create
  <2>5. ASSUME UNCHANGED role PROVE role'[v] = "gone"
    BY <2>5
  <2>6. QED
    BY <2>1, <2>2, <2>3, <2>4, <2>5 DEF Next, Update, Remove, Login, Admit, LookAtTarget,
       CountForDemotion, ReadRow, EndSessions, LockTarget, CountAdmins, RefuseDelete,
       StatementFails, Table
<1>2. QED BY <1>1, InvariantInit, InvariantStep, PTL DEF Spec, DeletedStaysDeleted
=============================================================================
