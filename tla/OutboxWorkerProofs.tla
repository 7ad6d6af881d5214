------------------------- MODULE OutboxWorkerProofs -------------------------
(***************************************************************************)
(* Proofs about OutboxWorker, for any number of rows and workers, any      *)
(* filters and any bound on disturbances: crashes, lost answers, and       *)
(* workers that are slower than the reaper are all among the steps.        *)
(***************************************************************************)
EXTENDS OutboxWorker, FiniteSetTheorems, TLAPS

(* A worker holds a row exactly in the steps between its claim and the     *)
(* record of the outcome, locks one exactly while its claim is under way,  *)
(* and can be late only with a row; without this a callback could be about *)
(* no row.                                                                 *)
HoldsWhileWorking ==
    \A w \in Workers :
        /\ held[w] # NoMsg <=> pc[w] \in Holding
        /\ locked[w] # NoMsg <=> pc[w] = "claiming"
        /\ w \in late => held[w] # NoMsg

(* A row that a claim has locked stays pending until the claim ends: other *)
(* claims skip it, an outcome waits, and the reaper looks for no such row. *)
LocksPending ==
    \A w \in Workers :
        locked[w] # NoMsg =>
            /\ status[locked[w]] = "pending"
            /\ \A v \in Workers \ {w} : locked[v] # locked[w]

Typed == TypeOK /\ HoldsWhileWorking

(* The strengthened type invariant is inductive. *)
LEMMA TypedHolds == Spec => []Typed
<1>1. Init => Typed
  BY OutboxAssumption DEF Init, Typed, TypeOK, HoldsWhileWorking, Holding, Statuses, Steps, Verdicts, Callbacks
<1>2. Typed /\ [Next]_vars => Typed'
  <2> SUFFICES ASSUME Typed, [Next]_vars PROVE Typed'
    OBVIOUS
  <2> USE OutboxAssumption DEF Typed, TypeOK, HoldsWhileWorking, Holding, Statuses, Steps, Verdicts, Callbacks, Settled,
          table, process, network, webhook, history, leases
  <2>1. ASSUME NEW S \in SUBSET Msgs, BeginEnqueue(S) \/ CommitEnqueue(S) PROVE Typed'
    BY <2>1 DEF BeginEnqueue, CommitEnqueue
  <2>2. ASSUME NEW w \in Workers, LockOldest(w) PROVE Typed'
    BY <2>2 DEF LockOldest, Oldest, Claimable
  <2>3. ASSUME NEW w \in Workers, Claim(w) PROVE Typed'
    BY <2>3 DEF Claim, EndClaim
  <2>19. ASSUME NEW w \in Workers, ClaimUnread(w) \/ ClaimFails(w) PROVE Typed'
    BY <2>19 DEF ClaimUnread, ClaimFails, EndClaim, Disturb
  <2>4. ASSUME NEW w \in Workers, Validate(w) PROVE Typed'
    BY <2>4 DEF Validate
  <2>5. ASSUME NEW w \in Workers, PickInstance(w) PROVE Typed'
    BY <2>5 DEF PickInstance
  <2>6. ASSUME NEW w \in Workers, ApiAnswers(w) PROVE Typed'
    BY <2>6 DEF ApiAnswers
  <2>7. ASSUME NEW w \in Workers, GiveUp(w) PROVE Typed'
    BY <2>7 DEF GiveUp, Abandon
  <2>8. ASSUME NEW w \in Workers, Settle(w) PROVE Typed'
    BY <2>8 DEF Settle, LetGo, WithCallback, Outcome
  <2>9. ASSUME NEW w \in Workers, SettleLost(w) PROVE Typed'
    BY <2>9 DEF SettleLost, GivenUp, LetGo, WithCallback, Outcome, Disturb
  <2>10. ASSUME NEW w \in Workers, Exit(w) PROVE Typed'
    BY <2>10 DEF Exit
  <2>11. ASSUME NEW w \in Workers, Stop(w) PROVE Typed'
    BY <2>11 DEF Stop, Disturb
  <2>12. ASSUME NEW w \in Workers, Crash(w) PROVE Typed'
    BY <2>12 DEF Running, Crash, GivenUp, Disturb, Abandon
  <2>13. ASSUME NEW w \in Workers, Restart(w) PROVE Typed'
    BY <2>13 DEF Restart, Running, ReapStaleClaims, StaleClaims
  <2>14. ASSUME NEW m \in Msgs, OrphanEnds(m) PROVE Typed'
    BY <2>14 DEF OrphanEnds
  <2>15. ASSUME NEW m \in Msgs, ClaimAges(m) PROVE Typed'
    BY <2>15 DEF ClaimAges, Disturb
  <2>16. ASSUME NEW c \in callbacks, CallbackEnds(c) PROVE Typed'
    BY <2>16 DEF CallbackEnds, Disturb
  <2>17. CASE Reap
    BY <2>17 DEF Reap, ReapStaleClaims, StaleClaims
  <2>18. CASE UNCHANGED vars
    BY <2>18 DEF vars
  <2> QED
    BY <2>1, <2>2, <2>3, <2>4, <2>5, <2>6, <2>7, <2>8, <2>9, <2>10, <2>11,
       <2>12, <2>13, <2>14, <2>15, <2>16, <2>17, <2>18, <2>19 DEF Next, Cycle
<1> QED
  BY <1>1, <1>2, PTL DEF Spec

(* The types of everything the outbox, its workers and its network keep. *)
THEOREM TypeCorrect == Spec => []TypeOK
<1>1. Typed => TypeOK
  BY DEF Typed
<1> QED
  BY <1>1, TypedHolds, PTL

-----------------------------------------------------------------------------
LEMMA LockStep ==
    ASSUME Typed, LocksPending, [Next]_vars
    PROVE  LocksPending'
<1> USE OutboxAssumption DEF Typed, TypeOK, HoldsWhileWorking, LocksPending,
        table, process, network, webhook, history, leases
<1>1. ASSUME NEW S \in SUBSET Msgs, BeginEnqueue(S) \/ CommitEnqueue(S) PROVE LocksPending'
  BY <1>1 DEF BeginEnqueue, CommitEnqueue
<1>2. ASSUME NEW w \in Workers, LockOldest(w) PROVE LocksPending'
  BY <1>2 DEF LockOldest, Oldest, Claimable, LockedByOthers
<1>3. ASSUME NEW w \in Workers, Claim(w) \/ ClaimUnread(w) \/ ClaimFails(w) PROVE LocksPending'
  BY <1>3 DEF Claim, ClaimUnread, ClaimFails, EndClaim
<1>4. ASSUME NEW w \in Workers,
             Validate(w) \/ PickInstance(w) \/ ApiAnswers(w) \/ GiveUp(w) \/ Exit(w) \/ Stop(w)
      PROVE  LocksPending'
  BY <1>4 DEF Validate, PickInstance, ApiAnswers, GiveUp, Exit, Stop
<1>5. ASSUME NEW w \in Workers, Settle(w) PROVE LocksPending'
  <2>1. locked' = locked /\ \A m \in Msgs : m # held[w] => status'[m] = status[m]
    BY <1>5 DEF Settle
  <2>2. \A v \in Workers : held[w] # NoMsg => locked[v] # held[w]
    BY <1>5 DEF Settle, LockedByOthers, Holding
  <2>3. held[w] # NoMsg
    BY <1>5 DEF Settle, Holding
  <2> QED
    BY <2>1, <2>2, <2>3
<1>6. ASSUME NEW w \in Workers, SettleLost(w) PROVE LocksPending'
  BY <1>6 DEF SettleLost
<1>7. ASSUME NEW w \in Workers, Crash(w) PROVE LocksPending'
  BY <1>7 DEF Crash
<1>8. ASSUME ReapStaleClaims, locked' = locked PROVE LocksPending'
  BY <1>8 DEF ReapStaleClaims
<1>9. ASSUME NEW m \in Msgs, OrphanEnds(m) \/ ClaimAges(m) PROVE LocksPending'
  BY <1>9 DEF OrphanEnds, ClaimAges
<1>10. ASSUME NEW c \in callbacks, CallbackEnds(c) PROVE LocksPending'
  BY <1>10 DEF CallbackEnds
<1>11. CASE UNCHANGED vars
  BY <1>11 DEF vars
<1> QED
  BY <1>1, <1>2, <1>3, <1>4, <1>5, <1>6, <1>7, <1>8, <1>9, <1>10, <1>11
     DEF Next, Cycle, Reap, Restart

(* A claim that may have committed took a pending row, and no other. *)
LEMMA ClaimTakes ==
    ASSUME Typed, LocksPending, NEW w \in Workers,
           Claim(w) \/ ClaimUnread(w) \/ (Crash(w) /\ status' # status)
    PROVE  \E r \in Msgs :
              /\ r = locked[w] /\ status[r] = "pending" /\ held[w] = NoMsg
              /\ status' = [status EXCEPT ![r] = "processing"]
  BY OutboxAssumption DEF Typed, TypeOK, HoldsWhileWorking, Holding, LocksPending,
     Claim, ClaimUnread, EndClaim, Crash

-----------------------------------------------------------------------------
(* Whoever holds a claim the reaper may take back is late. *)
AgedUnheld ==
    \A m \in aged : status[m] = "processing" /\ \A w \in Workers : held[w] = m => w \in late

(* Only a late holder can see its row pending, and its row is on record.   *)
LateOnRecord ==
    /\ \A w \in Workers : held[w] # NoMsg =>
          /\ status[held[w]] # "absent"
          /\ status[held[w]] = "pending" => w \in late
    /\ \A w \in late : held[w] \in overrun

LeaseInv == LocksPending /\ LeaseSafety /\ AgedUnheld /\ LateOnRecord

(* LeaseSafety is inductive only together with the rest: a row the reaper  *)
(* may requeue has late holders only, so whoever claims it next is the one *)
(* holder of it who is not late.                                           *)
LEMMA LeaseStep ==
    ASSUME Typed, Typed', LeaseInv, [Next]_vars
    PROVE  LeaseInv'
<1> USE OutboxAssumption DEF Typed, TypeOK, HoldsWhileWorking, Holding, LeaseInv, LeaseSafety, AgedUnheld, LateOnRecord,
          table, process, network, webhook, history, leases
<1>0. LocksPending'
  BY LockStep
<1>1. ASSUME NEW S \in SUBSET Msgs, BeginEnqueue(S) \/ CommitEnqueue(S) PROVE LeaseInv'
  BY <1>0, <1>1 DEF BeginEnqueue, CommitEnqueue
<1>2. ASSUME NEW w \in Workers, LockOldest(w) \/ ClaimFails(w) PROVE LeaseInv'
  BY <1>0, <1>2 DEF LockOldest, ClaimFails, EndClaim
<1>3. ASSUME NEW w \in Workers, Claim(w) PROVE LeaseInv'
  <2>1. PICK r \in Msgs : /\ r = locked[w] /\ status[r] = "pending" /\ held[w] = NoMsg
                          /\ status' = [status EXCEPT ![r] = "processing"]
    BY <1>3, ClaimTakes
  <2>2. held' = [held EXCEPT ![w] = r] /\ UNCHANGED <<late, overrun, aged>> /\ w \notin late
    BY <1>3, <2>1 DEF Claim
  <2>3. \A v \in Workers : held[v] = r => v \in late
    BY <2>1
  <2> QED
    BY <1>0, <2>1, <2>2, <2>3
<1>19. ASSUME NEW w \in Workers, ClaimUnread(w) PROVE LeaseInv'
  <2>1. PICK r \in Msgs : /\ status[r] = "pending" /\ status' = [status EXCEPT ![r] = "processing"]
    BY <1>19, ClaimTakes
  <2>2. UNCHANGED <<held, late, overrun, aged>>
    BY <1>19 DEF ClaimUnread
  <2> QED
    BY <1>0, <2>1, <2>2
<1>4. ASSUME NEW w \in Workers, Validate(w) PROVE LeaseInv'
  BY <1>0, <1>4 DEF Validate
<1>5. ASSUME NEW w \in Workers, PickInstance(w) PROVE LeaseInv'
  BY <1>0, <1>5 DEF PickInstance
<1>6. ASSUME NEW w \in Workers, ApiAnswers(w) PROVE LeaseInv'
  BY <1>0, <1>6 DEF ApiAnswers
<1>7. ASSUME NEW w \in Workers, GiveUp(w) PROVE LeaseInv'
  BY <1>0, <1>7 DEF GiveUp, Abandon
<1>8. ASSUME NEW w \in Workers, Settle(w) PROVE LeaseInv'
  <2>1. /\ held[w] \in Msgs /\ held' = [held EXCEPT ![w] = NoMsg]
        /\ status' = [status EXCEPT ![held[w]] = Outcome(verdict[w])]
        /\ aged' = aged \ {held[w]} /\ late' = late \ {w} /\ overrun' = overrun
    BY <1>8 DEF Settle, LetGo
  <2>2. \A v \in Workers : v # w /\ held[v] = held[w] => held[w] \in overrun
    BY <2>1
  <2> QED
    BY <1>0, <2>1, <2>2 DEF Outcome
<1>9. ASSUME NEW w \in Workers, SettleLost(w) PROVE LeaseInv'
  BY <1>0, <1>9 DEF SettleLost, LetGo
<1>10. ASSUME NEW w \in Workers, Exit(w) PROVE LeaseInv'
  BY <1>0, <1>10 DEF Exit
<1>11. ASSUME NEW w \in Workers, Stop(w) PROVE LeaseInv'
  BY <1>0, <1>11 DEF Stop
<1>12. ASSUME NEW w \in Workers, Crash(w) PROVE LeaseInv'
  <2>1. /\ held' = [held EXCEPT ![w] = NoMsg] /\ late' = late \ {w}
        /\ UNCHANGED <<aged, overrun>>
    BY <1>12 DEF Crash
  <2>2. CASE status' = status
    BY <1>0, <2>1, <2>2
  <2>3. CASE status' # status
    <3>1. PICK r \in Msgs : /\ status[r] = "pending" /\ status' = [status EXCEPT ![r] = "processing"]
      BY <1>12, <2>3, ClaimTakes
    <3> QED
      BY <1>0, <2>1, <3>1
  <2> QED
    BY <2>2, <2>3
<1>13. ASSUME ReapStaleClaims, held' = held PROVE LeaseInv'
  <2>1. \A m \in StaleClaims : \A w \in Workers : held[w] = m => w \in late
    BY DEF StaleClaims
  <2> QED
    BY <1>0, <1>13, <2>1 DEF ReapStaleClaims, StaleClaims
<1>14. ASSUME NEW m \in Msgs, OrphanEnds(m) PROVE LeaseInv'
  BY <1>0, <1>14 DEF OrphanEnds
<1>15. ASSUME NEW m \in Msgs, ClaimAges(m) PROVE LeaseInv'
  BY <1>0, <1>15 DEF ClaimAges
<1>16. ASSUME NEW c \in callbacks, CallbackEnds(c) PROVE LeaseInv'
  BY <1>0, <1>16 DEF CallbackEnds
<1>18. CASE UNCHANGED vars
  BY <1>0, <1>18 DEF vars
<1> QED
  BY <1>1, <1>2, <1>3, <1>4, <1>5, <1>6, <1>7, <1>8, <1>9, <1>10, <1>11,
       <1>12, <1>13, <1>14, <1>15, <1>16, <1>18, <1>19 DEF Next, Cycle, Restart, Reap

LEMMA LeaseHolds == Spec => [](Typed /\ LeaseInv)
<1>1. Init => LeaseInv
  BY DEF Init, LeaseInv, LocksPending, LeaseSafety, AgedUnheld, LateOnRecord
<1>2. Typed /\ Typed' /\ LeaseInv /\ [Next]_vars => LeaseInv'
  BY LeaseStep
<1> QED
  BY <1>1, <1>2, TypedHolds, PTL DEF Spec

(* Two workers have one row in hand only if one of them has outlived the   *)
(* reaper's cutoff, and an update by id overwrites somebody else's work    *)
(* only on a row that has had such a holder.                               *)
THEOREM LeaseSafe == Spec => []LeaseSafety
<1>1. LeaseInv => LeaseSafety
  BY DEF LeaseInv
<1> QED
  BY <1>1, LeaseHolds, PTL

-----------------------------------------------------------------------------
(* A verdict is held only until it is recorded, and success is concluded   *)
(* from nothing but an answer that followed a delivery.                    *)
VerdictMeans ==
    \A w \in Workers :
        /\ verdict[w] # "none" => pc[w] = "settling"
        /\ verdict[w] = "success" => delivered[held[w]] > 0

AnswerInv == VerdictMeans /\ SentWasDelivered

LEMMA AnswerStep ==
    ASSUME Typed, Typed', AnswerInv, [Next]_vars
    PROVE  AnswerInv'
<1> USE OutboxAssumption DEF Typed, TypeOK, HoldsWhileWorking, Holding, AnswerInv, VerdictMeans, SentWasDelivered,
        table, process, network, webhook, history, leases
<1>1. ASSUME NEW S \in SUBSET Msgs, BeginEnqueue(S) \/ CommitEnqueue(S) PROVE AnswerInv'
  BY <1>1 DEF BeginEnqueue, CommitEnqueue
<1>2. ASSUME NEW w \in Workers, LockOldest(w) PROVE AnswerInv'
  BY <1>2 DEF LockOldest
<1>3. ASSUME NEW w \in Workers, Claim(w) \/ ClaimUnread(w) \/ ClaimFails(w) PROVE AnswerInv'
  BY <1>3 DEF Claim, ClaimUnread, ClaimFails, EndClaim
<1>4. ASSUME NEW w \in Workers, Validate(w) PROVE AnswerInv'
  BY <1>4 DEF Validate
<1>5. ASSUME NEW w \in Workers, PickInstance(w) PROVE AnswerInv'
  BY <1>5 DEF PickInstance
<1>6. ASSUME NEW w \in Workers, ApiAnswers(w) PROVE AnswerInv'
  BY <1>6 DEF ApiAnswers
<1>7. ASSUME NEW w \in Workers, GiveUp(w) PROVE AnswerInv'
  BY <1>7 DEF GiveUp, Abandon
<1>8. ASSUME NEW w \in Workers, Settle(w) PROVE AnswerInv'
  BY <1>8 DEF Settle, LetGo, Outcome
<1>9. ASSUME NEW w \in Workers, SettleLost(w) PROVE AnswerInv'
  BY <1>9 DEF SettleLost, LetGo
<1>10. ASSUME NEW w \in Workers, Exit(w) PROVE AnswerInv'
  BY <1>10 DEF Exit
<1>11. ASSUME NEW w \in Workers, Stop(w) PROVE AnswerInv'
  BY <1>11 DEF Stop
<1>12. ASSUME NEW w \in Workers, Crash(w) PROVE AnswerInv'
  BY <1>12 DEF Crash, Running, Abandon
<1>13. ASSUME NEW w \in Workers, Restart(w) PROVE AnswerInv'
  BY <1>13 DEF Restart, Running, ReapStaleClaims, StaleClaims
<1>14. ASSUME NEW m \in Msgs, OrphanEnds(m) PROVE AnswerInv'
  BY <1>14 DEF OrphanEnds
<1>15. ASSUME NEW m \in Msgs, ClaimAges(m) PROVE AnswerInv'
  BY <1>15 DEF ClaimAges
<1>16. ASSUME NEW c \in callbacks, CallbackEnds(c) PROVE AnswerInv'
  BY <1>16 DEF CallbackEnds
<1>17. CASE Reap
  BY <1>17 DEF Reap, ReapStaleClaims, StaleClaims
<1>18. CASE UNCHANGED vars
  BY <1>18 DEF vars
<1> QED
  BY <1>1, <1>2, <1>3, <1>4, <1>5, <1>6, <1>7, <1>8, <1>9, <1>10, <1>11,
     <1>12, <1>13, <1>14, <1>15, <1>16, <1>17, <1>18 DEF Next, Cycle

(* No row is reported as sent that no API call delivered. *)
THEOREM SentDelivered == Spec => []SentWasDelivered
<1>1. Init => AnswerInv
  BY DEF Init, AnswerInv, VerdictMeans, SentWasDelivered
<1>2. Typed /\ Typed' /\ AnswerInv /\ [Next]_vars => AnswerInv'
  BY AnswerStep
<1>3. AnswerInv => SentWasDelivered
  BY DEF AnswerInv
<1> QED
  BY <1>1, <1>2, <1>3, TypedHolds, PTL DEF Spec

-----------------------------------------------------------------------------
(* The copies of m so far, and those still under way without a caller; the *)
(* workers that may yet send m; and whether m may yet come to one more: it *)
(* waits for a claim, or nobody but late holders has it and it will wait   *)
(* again.                                                                  *)
CopiesOf(m) == delivered[m] + orphans[m]
Unsent(m)   == {w \in Workers : held[w] = m /\ pc[w] \in {"claimed", "routing", "sending"}}
Free(m)     == \A w \in Workers : held[w] = m => w \in late
Open(m) ==
    \/ status[m] \in {"absent", "pending"}
    \/ status[m] = "processing" /\ Free(m)
Spare(m) == IF Open(m) THEN 1 ELSE 0

(* Whoever may add to the copies of m has one of the budget in hand for    *)
(* it.  Nothing here asks that a row is held by one worker only: two may   *)
(* hold it once the reaper has been wrong, and that has been counted.      *)
Tally(m) ==
    /\ IsFiniteSet(Unsent(m))
    /\ CopiesOf(m) + Cardinality(Unsent(m)) + Spare(m) <= 1 + losses[m]

CopiesInv == \A m \in Msgs : Tally(m)

(* A step in which at most w gives up its chance to send m, for one copy   *)
(* more at most, or for none if w had no such chance.                      *)
LEMMA TallyKept ==
    ASSUME Typed, Typed', NEW m \in Msgs, Tally(m), NEW w,
           Unsent(m)' = Unsent(m) \ {w},
           CopiesOf(m)' + Spare(m)' + losses[m]
             <= CopiesOf(m) + Spare(m) + losses'[m] + (IF w \in Unsent(m) THEN 1 ELSE 0)
    PROVE  Tally(m)'
<1> DEFINE U == Unsent(m)
           V == U \ {w}
<1>1. IsFiniteSet(U) /\ IsFiniteSet(V)
      /\ Cardinality(V) = IF w \in U THEN Cardinality(U) - 1 ELSE Cardinality(U)
  BY FS_RemoveElement DEF Tally
<1>2. Cardinality(U) \in Nat
  BY <1>1, FS_CardinalityType
<1>3. /\ delivered[m] \in Nat /\ orphans[m] \in Nat /\ losses[m] \in Nat
      /\ delivered'[m] \in Nat /\ orphans'[m] \in Nat /\ losses'[m] \in Nat
  BY DEF Typed, TypeOK
<1>4. Spare(m) \in 0..1 /\ Spare(m)' \in 0..1
  BY DEF Spare
<1>5. CopiesOf(m) + Cardinality(U) + Spare(m) <= 1 + losses[m]
  BY DEF Tally
<1>6. CopiesOf(m)' + Cardinality(V) + Spare(m)' <= 1 + losses'[m]
  BY <1>1, <1>2, <1>3, <1>4, <1>5 DEF CopiesOf
<1> QED
  BY <1>1, <1>6 DEF Tally

(* A step that changes nobody's chances. *)
LEMMA TallyFrame ==
    ASSUME Typed, Typed', NEW m \in Msgs, Tally(m),
           Unsent(m)' = Unsent(m),
           CopiesOf(m)' + Spare(m)' + losses[m] <= CopiesOf(m) + Spare(m) + losses'[m]
    PROVE  Tally(m)'
<1> DEFINE U == Unsent(m)
<1>2. Cardinality(U) \in Nat
  BY FS_CardinalityType DEF Tally
<1>3. /\ delivered[m] \in Nat /\ orphans[m] \in Nat /\ losses[m] \in Nat
      /\ delivered'[m] \in Nat /\ orphans'[m] \in Nat /\ losses'[m] \in Nat
  BY DEF Typed, TypeOK
<1>4. Spare(m) \in 0..1 /\ Spare(m)' \in 0..1
  BY DEF Spare
<1> QED
  BY <1>2, <1>3, <1>4 DEF Tally, CopiesOf

(* A step of worker w that leaves the rows as they are: from where it may  *)
(* send what it holds to where it may not.                                 *)
LEMMA UnsentLeaves ==
    ASSUME Typed, NEW w \in Workers, NEW m \in Msgs, NEW p,
           pc' = [pc EXCEPT ![w] = p], p \notin {"claimed", "routing", "sending"},
           held' = held \/ held' = [held EXCEPT ![w] = NoMsg]
    PROVE  Unsent(m)' = Unsent(m) \ {w}
<1>1. \A v \in Workers : v # w => pc'[v] = pc[v] /\ held'[v] = held[v]
  BY DEF Typed, TypeOK
<1>2. pc'[w] = p
  BY DEF Typed, TypeOK
<1> QED
  BY <1>1, <1>2 DEF Unsent

(* The tally of m over the steps of a worker that may send it or has a row *)
(* in hand.                                                                *)
LEMMA TallyOfCycle ==
    ASSUME Typed, Typed', NEW m \in Msgs, Tally(m), LeaseInv, NEW w \in Workers,
           Cycle(w) \/ Stop(w) \/ Crash(w)
    PROVE  Tally(m)'
<1> USE OutboxAssumption DEF table, process, network, webhook, history, leases
<1>a. /\ status[m] \in Statuses /\ held[w] \in Msgs \cup {NoMsg}
      /\ delivered[m] \in Nat /\ orphans[m] \in Nat /\ losses[m] \in Nat
  BY DEF Typed, TypeOK
<1>b. Spare(m) \in 0..1 /\ Spare(m)' \in 0..1
  BY DEF Spare
<1>1. CASE Claim(w)
  <2>1. PICK r \in Msgs : /\ r = locked[w] /\ status[r] = "pending" /\ held[w] = NoMsg
                          /\ status' = [status EXCEPT ![r] = "processing"]
    BY <1>1, ClaimTakes DEF LeaseInv
  <2>2. /\ held' = [held EXCEPT ![w] = r] /\ pc' = [pc EXCEPT ![w] = "claimed"]
        /\ w \notin late /\ UNCHANGED <<late, delivered, orphans, losses>>
    BY <1>1, <2>1 DEF Claim, EndClaim, Typed, HoldsWhileWorking
  <2>3. /\ \A v \in Workers : v # w => pc'[v] = pc[v] /\ held'[v] = held[v]
        /\ pc'[w] = "claimed" /\ held'[w] = r
    BY <2>1, <2>2 DEF Typed, TypeOK
  <2>4. CopiesOf(m)' = CopiesOf(m) /\ losses'[m] = losses[m]
    BY <2>2 DEF CopiesOf
  <2>5. CASE m = r
    <3>1. Unsent(m)' = Unsent(m) \cup {w} /\ w \notin Unsent(m)
      BY <2>1, <2>2, <2>3, <2>5 DEF Unsent
    <3>2. IsFiniteSet(Unsent(m)') /\ Cardinality(Unsent(m)') = Cardinality(Unsent(m)) + 1
      BY <3>1, FS_AddElement DEF Tally
    <3>3. Spare(m) = 1
      BY <2>1, <2>5 DEF Spare, Open
    <3>4. status'[m] = "processing" /\ ~ Free(m)'
      BY <2>1, <2>2, <2>3, <2>5 DEF Free, Typed, TypeOK
    <3>5. Spare(m)' = 0
      BY <3>4 DEF Spare, Open
    <3>6. CopiesOf(m) \in Nat /\ Cardinality(Unsent(m)) \in Nat
          /\ CopiesOf(m) + Cardinality(Unsent(m)) + Spare(m) <= 1 + losses[m]
      BY <1>a, FS_CardinalityType DEF Tally, CopiesOf
    <3>7. CopiesOf(m)' + Cardinality(Unsent(m)') + Spare(m)' <= 1 + losses'[m]
      BY <1>a, <2>4, <3>2, <3>3, <3>5, <3>6
    <3> QED
      BY <3>2, <3>7 DEF Tally
  <2>6. CASE m # r
    <3>1. Unsent(m)' = Unsent(m)
      BY <2>1, <2>2, <2>3, <2>6 DEF Unsent
    <3>2. Spare(m)' = Spare(m)
      BY <2>1, <2>2, <2>3, <2>6 DEF Spare, Open, Free, Typed, TypeOK
    <3> QED
      BY <1>a, <1>b, <2>4, <3>1, <3>2, TallyFrame DEF CopiesOf
  <2> QED
    BY <2>5, <2>6
<1>2. CASE ClaimUnread(w)
  <2>1. PICK r \in Msgs : status[r] = "pending" /\ status' = [status EXCEPT ![r] = "processing"]
    BY <1>2, ClaimTakes DEF LeaseInv
  <2>2. /\ pc[w] = "claiming" /\ pc' = [pc EXCEPT ![w] = "idle"]
        /\ UNCHANGED <<held, late, delivered, orphans, losses>>
    BY <1>2 DEF ClaimUnread, EndClaim
  <2>3. Unsent(m)' = Unsent(m) /\ CopiesOf(m)' = CopiesOf(m)
    BY <2>2 DEF Unsent, CopiesOf, Typed, TypeOK
  <2>4. Spare(m)' <= Spare(m)
    BY <2>1, <2>2 DEF Spare, Open, Free, Typed, TypeOK
  <2> QED
    BY <1>a, <1>b, <2>2, <2>3, <2>4, TallyFrame DEF CopiesOf
<1>3. CASE Validate(w) \/ PickInstance(w)
  <2>1. UNCHANGED <<status, late, held, delivered, orphans, losses>>
    BY <1>3 DEF Validate, PickInstance
  <2>2. /\ CopiesOf(m)' = CopiesOf(m) /\ CopiesOf(m) \in Nat
        /\ Spare(m)' = Spare(m) /\ losses'[m] = losses[m]
    BY <1>a, <2>1 DEF CopiesOf, Spare, Open, Free
  <2>3. PICK p \in {"routing", "sending", "settling"} : pc' = [pc EXCEPT ![w] = p]
    BY <1>3 DEF Validate, PickInstance
  <2>4. pc[w] \in {"claimed", "routing"}
    BY <1>3 DEF Validate, PickInstance
  <2>5. CASE p = "settling"
    <3>1. Unsent(m)' = Unsent(m) \ {w}
      BY <2>1, <2>3, <2>5, UnsentLeaves
    <3> QED
      BY <1>a, <1>b, <2>2, <3>1, TallyKept
  <2>6. CASE p # "settling"
    <3>1. Unsent(m)' = Unsent(m)
      BY <2>1, <2>3, <2>4, <2>6 DEF Unsent, Typed, TypeOK
    <3> QED
      BY <1>a, <1>b, <2>2, <3>1, TallyFrame
  <2> QED
    BY <2>5, <2>6
<1>4. CASE ApiAnswers(w) \/ GiveUp(w)
  <2>1. /\ pc[w] = "sending" /\ pc' = [pc EXCEPT ![w] = "settling"]
        /\ UNCHANGED <<status, late, held, losses>>
        /\ \A r \in Msgs \ {held[w]} : delivered'[r] = delivered[r] /\ orphans'[r] = orphans[r]
    BY <1>4 DEF ApiAnswers, GiveUp, Abandon, Typed, TypeOK
  <2>2. Unsent(m)' = Unsent(m) \ {w}
    BY <2>1, UnsentLeaves
  <2>3. Spare(m)' = Spare(m)
    BY <2>1 DEF Spare, Open, Free
  <2>4. CASE m = held[w]
    <3>1. w \in Unsent(m)
      BY <2>1, <2>4 DEF Unsent
    <3>2. CopiesOf(m)' <= CopiesOf(m) + 1
      BY <1>4, <1>a, <2>4 DEF CopiesOf, ApiAnswers, GiveUp, Abandon, Typed, TypeOK
    <3>3. CopiesOf(m) \in Nat /\ CopiesOf(m)' \in Nat
      BY DEF CopiesOf, Typed, TypeOK
    <3> QED
      BY <1>a, <1>b, <2>1, <2>2, <2>3, <3>1, <3>2, <3>3, TallyKept
  <2>5. CASE m # held[w]
    <3>1. Unsent(m)' = Unsent(m)
      BY <2>2, <2>5 DEF Unsent
    <3>2. CopiesOf(m)' = CopiesOf(m)
      BY <2>1, <2>5 DEF CopiesOf
    <3> QED
      BY <1>a, <1>b, <2>1, <2>3, <3>1, <3>2, TallyFrame DEF CopiesOf
  <2> QED
    BY <2>4, <2>5
<1>5. CASE Settle(w)
  <2>1. /\ held[w] \in Msgs /\ pc[w] = "settling"
        /\ pc' = [pc EXCEPT ![w] = "idle"] /\ held' = [held EXCEPT ![w] = NoMsg]
        /\ status' = [status EXCEPT ![held[w]] = Outcome(verdict[w])]
        /\ late' = late \ {w}
        /\ UNCHANGED <<delivered, orphans, losses>>
    BY <1>5 DEF Settle, LetGo, Typed, TypeOK, HoldsWhileWorking, Holding
  <2>2. Unsent(m)' = Unsent(m) \ {w} /\ w \notin Unsent(m)
    BY <2>1, UnsentLeaves DEF Unsent
  <2>3. Spare(m)' <= Spare(m)
    <3>1. CASE m = held[w]
      <4>1. status'[m] \in Settled
        BY <2>1, <3>1 DEF Outcome, Settled, Typed, TypeOK
      <4> QED
        BY <4>1, <1>b DEF Spare, Open, Settled
    <3>2. CASE m # held[w]
      <4>1. status'[m] = status[m]
        BY <2>1, <3>2 DEF Typed, TypeOK
      <4>2. Free(m)' <=> Free(m)
        BY <2>1, <3>2 DEF Free, Typed, TypeOK
      <4> QED
        BY <4>1, <4>2, <1>b DEF Spare, Open
    <3> QED
      BY <3>1, <3>2
  <2>4. CopiesOf(m)' = CopiesOf(m) /\ CopiesOf(m) \in Nat
    BY <1>a, <2>1 DEF CopiesOf
  <2> QED
    BY <1>a, <1>b, <2>1, <2>2, <2>3, <2>4, TallyKept
<1>6. CASE SettleLost(w) \/ Crash(w)
  <2>1. PICK p \in {"idle", "down"} : pc' = [pc EXCEPT ![w] = p]
    BY <1>6 DEF SettleLost, LetGo, Crash
  <2>2. /\ held' = [held EXCEPT ![w] = NoMsg] /\ late' = late \ {w}
        /\ losses'[m] = IF m = held[w] /\ w \notin late THEN losses[m] + 1 ELSE losses[m]
    BY <1>6 DEF SettleLost, LetGo, Crash, GivenUp, Typed, TypeOK
  <2>3. Unsent(m)' = Unsent(m) \ {w}
    BY <2>1, <2>2, UnsentLeaves
  \* At most, a claim under way commits.
  <2>7. \/ status' = status
        \/ \E r \in Msgs : status[r] = "pending" /\ status' = [status EXCEPT ![r] = "processing"]
    <3>1. CASE SettleLost(w)
      BY <3>1 DEF SettleLost
    <3>2. CASE Crash(w) /\ status' # status
      BY <3>2, ClaimTakes DEF LeaseInv
    <3> QED
      BY <1>6, <3>1, <3>2
  <2>8. ASSUME m = held[w] => w \in late PROVE Spare(m)' <= Spare(m)
    <3>1. Free(m)' <=> Free(m)
      BY <2>2, <2>8 DEF Free, Typed, TypeOK
    <3> QED
      BY <2>7, <3>1 DEF Spare, Open, Typed, TypeOK
  <2>4. CASE m # held[w]
    <3>1. Unsent(m)' = Unsent(m)
      BY <2>3, <2>4 DEF Unsent
    <3>2. CopiesOf(m)' = CopiesOf(m) /\ CopiesOf(m) \in Nat
      BY <1>6, <1>a, <2>4 DEF CopiesOf, SettleLost, Crash, Abandon, Typed, TypeOK
    <3> QED
      BY <1>a, <1>b, <2>2, <2>4, <2>8, <3>1, <3>2, TallyFrame
  <2>5. CASE m = held[w] /\ w \in Unsent(m)
    <3>1. CopiesOf(m)' <= CopiesOf(m) + 1 /\ CopiesOf(m) \in Nat /\ CopiesOf(m)' \in Nat
      BY <1>6, <1>a DEF CopiesOf, SettleLost, Crash, Abandon, Typed, TypeOK
    <3>2. Spare(m)' + losses[m] <= Spare(m) + losses'[m]
      BY <1>a, <1>b, <2>2, <2>5, <2>8
    <3> QED
      BY <1>a, <1>b, <2>2, <2>3, <2>5, <3>1, <3>2, TallyKept
  <2>6. CASE m = held[w] /\ w \notin Unsent(m)
    <3>1. pc[w] # "sending"
      BY <2>6 DEF Unsent
    <3>2. CopiesOf(m)' = CopiesOf(m) /\ CopiesOf(m) \in Nat
      BY <1>6, <1>a, <3>1 DEF CopiesOf, SettleLost, Crash
    <3>3. Spare(m)' + losses[m] <= Spare(m) + losses'[m]
      BY <1>a, <1>b, <2>2, <2>6, <2>8
    <3> QED
      BY <1>a, <1>b, <2>2, <2>3, <2>6, <3>2, <3>3, TallyKept
  <2> QED
    BY <2>4, <2>5, <2>6
<1>7. CASE Exit(w)
  <2>1. /\ pc[w] = "idle" /\ pc' = [pc EXCEPT ![w] = "stopped"]
        /\ UNCHANGED <<status, late, held, delivered, orphans, losses>>
    BY <1>7 DEF Exit
  <2>2. Unsent(m)' = Unsent(m)
    BY <2>1 DEF Unsent, Typed, TypeOK
  <2> QED
    BY <1>a, <1>b, <2>1, <2>2, TallyFrame DEF CopiesOf, Spare, Open, Free
<1>8. CASE Stop(w)
  <2>1. UNCHANGED <<status, late, pc, held, delivered, orphans, losses>>
    BY <1>8 DEF Stop
  <2> QED
    BY <1>a, <1>b, <2>1, TallyFrame DEF CopiesOf, Spare, Open, Free, Unsent
<1>9. CASE LockOldest(w) \/ ClaimFails(w)
  <2>1. /\ pc[w] \in {"idle", "claiming"}
        /\ \E p \in {"idle", "claiming"} : pc' = [pc EXCEPT ![w] = p]
        /\ UNCHANGED <<status, late, held, delivered, orphans, losses>>
    BY <1>9 DEF LockOldest, ClaimFails, EndClaim
  <2>2. Unsent(m)' = Unsent(m)
    BY <2>1 DEF Unsent, Typed, TypeOK
  <2> QED
    BY <1>a, <1>b, <2>1, <2>2, TallyFrame DEF CopiesOf, Spare, Open, Free
<1> QED
  BY <1>1, <1>2, <1>3, <1>4, <1>5, <1>6, <1>7, <1>8, <1>9 DEF Cycle

(* The other steps: the API, the reaper, time, the sends without a caller. *)
LEMMA TallyOfRest ==
    ASSUME Typed, Typed', NEW m \in Msgs, Tally(m), LeaseInv, [Next]_vars,
           ~ \E w \in Workers : Cycle(w) \/ Stop(w) \/ Crash(w)
    PROVE  Tally(m)'
<1> USE OutboxAssumption DEF table, process, network, webhook, history, leases
<1>a. delivered[m] \in Nat /\ orphans[m] \in Nat /\ losses[m] \in Nat
  BY DEF Typed, TypeOK
<1>b. Spare(m) \in 0..1 /\ Spare(m)' \in 0..1
  BY DEF Spare
<1>1. ASSUME NEW S \in SUBSET Msgs, BeginEnqueue(S) \/ CommitEnqueue(S) PROVE Tally(m)'
  <2>1. Unsent(m)' = Unsent(m) /\ CopiesOf(m)' = CopiesOf(m) /\ losses' = losses
    BY <1>1 DEF BeginEnqueue, CommitEnqueue, Unsent, CopiesOf
  <2>2. Spare(m)' = Spare(m)
    BY <1>1 DEF BeginEnqueue, CommitEnqueue, Spare, Open, Free
  <2> QED
    BY <1>a, <1>b, <2>1, <2>2, TallyFrame DEF CopiesOf
<1>2. ASSUME ReapStaleClaims, UNCHANGED <<held, delivered, orphans>>, Unsent(m)' = Unsent(m)
      PROVE  Tally(m)'
  <2>1. CopiesOf(m)' = CopiesOf(m) /\ losses' = losses /\ late' = late
    BY <1>2 DEF ReapStaleClaims, CopiesOf
  <2>2. CASE m \in StaleClaims
    <3>1. Spare(m) = 1
      BY <2>2 DEF StaleClaims, Spare, Open, Free, LeaseInv, AgedUnheld
    <3> QED
      BY <1>2, <1>a, <1>b, <2>1, <3>1, TallyFrame DEF CopiesOf
  <2>3. CASE m \notin StaleClaims
    <3>1. status'[m] = status[m]
      BY <1>2, <2>3 DEF ReapStaleClaims
    <3>2. Spare(m)' = Spare(m)
      BY <1>2, <2>1, <3>1 DEF Spare, Open, Free
    <3> QED
      BY <1>2, <1>a, <1>b, <2>1, <3>2, TallyFrame DEF CopiesOf
  <2> QED
    BY <2>2, <2>3
<1>3. ASSUME NEW w \in Workers, Restart(w) PROVE Tally(m)'
  <2>1. held[w] = NoMsg /\ held' = held /\ pc' = [pc EXCEPT ![w] = "idle"]
    BY <1>3 DEF Restart, Running, Typed, HoldsWhileWorking, Holding
  <2>2. Unsent(m)' = Unsent(m)
    BY <2>1 DEF Unsent, Typed, TypeOK
  <2> QED
    BY <1>2, <1>3, <2>2 DEF Restart
<1>4. CASE Reap
  BY <1>2, <1>4 DEF Reap, Unsent
<1>5. ASSUME NEW r \in Msgs, OrphanEnds(r) PROVE Tally(m)'
  <2>1. UNCHANGED <<status, late, pc, held, losses>>
    BY <1>5 DEF OrphanEnds
  <2>2. CopiesOf(m)' <= CopiesOf(m) /\ CopiesOf(m) \in Nat /\ CopiesOf(m)' \in Nat
    BY <1>5, <1>a DEF OrphanEnds, CopiesOf, Typed, TypeOK
  <2>3. Unsent(m)' = Unsent(m) /\ Spare(m)' = Spare(m)
    BY <2>1 DEF Unsent, Spare, Open, Free
  <2> QED
    BY <1>a, <1>b, <2>1, <2>2, <2>3, TallyFrame
<1>6. ASSUME NEW r \in Msgs, ClaimAges(r) PROVE Tally(m)'
  <2>1. UNCHANGED <<status, pc, held, delivered, orphans>> /\ status[r] = "processing"
    BY <1>6 DEF ClaimAges
  <2>2. Unsent(m)' = Unsent(m) /\ CopiesOf(m)' = CopiesOf(m) /\ CopiesOf(m) \in Nat
    BY <1>a, <2>1 DEF Unsent, CopiesOf
  <2>3. CASE m = r /\ ~ Free(m)
    <3>1. losses'[m] = losses[m] + 1
      BY <1>6, <2>3 DEF ClaimAges, Free, Typed, TypeOK
    <3> QED
      BY <1>a, <1>b, <2>2, <3>1, TallyFrame
  <2>4. CASE m = r /\ Free(m)
    <3>1. losses' = losses /\ late' = late
      BY <1>6, <2>4 DEF ClaimAges, Free, leases
    <3>2. Spare(m)' = Spare(m)
      BY <2>1, <3>1 DEF Spare, Open, Free
    <3> QED
      BY <1>a, <1>b, <2>2, <3>1, <3>2, TallyFrame
  <2>5. CASE m # r
    <3>1. losses'[m] = losses[m] /\ (Free(m)' <=> Free(m))
      BY <1>6, <2>5 DEF ClaimAges, Free, Typed, TypeOK
    <3>2. Spare(m)' = Spare(m)
      BY <2>1, <3>1 DEF Spare, Open
    <3> QED
      BY <1>a, <1>b, <2>2, <3>1, <3>2, TallyFrame
  <2> QED
    BY <2>3, <2>4, <2>5
<1>7. ASSUME UNCHANGED <<status, late, pc, held, delivered, orphans, losses>> PROVE Tally(m)'
  BY <1>7, <1>a, <1>b, TallyFrame DEF CopiesOf, Spare, Open, Free, Unsent
<1>8. ASSUME NEW c \in callbacks, CallbackEnds(c) PROVE Tally(m)'
  BY <1>7, <1>8 DEF CallbackEnds
<1>9. CASE UNCHANGED vars
  BY <1>7, <1>9 DEF vars
<1> QED
  BY <1>1, <1>3, <1>4, <1>5, <1>6, <1>8, <1>9 DEF Next

LEMMA CopiesHold == Spec => [](Typed /\ LeaseInv /\ CopiesInv)
<1>1. Init => CopiesInv
  <2> SUFFICES ASSUME Init PROVE CopiesInv
    OBVIOUS
  <2>2. ASSUME NEW m \in Msgs PROVE Tally(m)
    <3>1. Unsent(m) = {}
      BY OutboxAssumption DEF Init, Unsent
    <3>2. IsFiniteSet({}) /\ Cardinality({}) = 0
      BY FS_EmptySet
    <3>3. delivered[m] = 0 /\ orphans[m] = 0 /\ losses[m] = 0
      BY DEF Init
    <3> QED
      BY <3>1, <3>2, <3>3 DEF Tally, CopiesOf, Spare
  <2> QED
    BY <2>2 DEF CopiesInv
<1>2. Typed /\ Typed' /\ LeaseInv /\ CopiesInv /\ [Next]_vars => CopiesInv'
  BY TallyOfCycle, TallyOfRest DEF CopiesInv
<1> QED
  BY <1>1, <1>2, LeaseHolds, PTL DEF Spec

(* The part of it that the other proofs use. *)
Within == \A m \in Msgs : CopiesOf(m) <= 1 + losses[m]

LEMMA CopiesWithin ==
    ASSUME Typed, CopiesInv
    PROVE  Within /\ CopiesBounded
<1> SUFFICES ASSUME NEW m \in Msgs
             PROVE  /\ CopiesOf(m) <= 1 + losses[m]
                    /\ CopiesOf(m) + Cardinality({w \in Workers : pc[w] = "sending" /\ held[w] = m})
                         <= 1 + losses[m]
  BY DEF Within, CopiesBounded, CopiesOf
<1> DEFINE S == {w \in Workers : pc[w] = "sending" /\ held[w] = m}
           U == Unsent(m)
<1>1. S \in SUBSET U
  BY DEF Unsent
<1>2. IsFiniteSet(U) /\ CopiesOf(m) + Cardinality(U) + Spare(m) <= 1 + losses[m]
  BY DEF CopiesInv, Tally
<1>3. IsFiniteSet(S) /\ Cardinality(S) <= Cardinality(U)
  BY <1>1, <1>2, FS_Subset
<1>4. Cardinality(S) \in Nat /\ Cardinality(U) \in Nat
  BY <1>2, <1>3, FS_CardinalityType
<1>5. CopiesOf(m) \in Nat /\ losses[m] \in Nat /\ Spare(m) \in 0..1
  BY DEF CopiesOf, Spare, Typed, TypeOK
<1> QED
  BY <1>2, <1>3, <1>4, <1>5

(* A row reaches WhatsApp at most once more than its claims came to        *)
(* nothing, sends under way included, however slow a worker is.            *)
THEOREM CopiesAreBounded == Spec => []CopiesBounded
<1>1. Typed /\ CopiesInv => CopiesBounded
  BY CopiesWithin
<1> QED
  BY <1>1, CopiesHold, PTL

-----------------------------------------------------------------------------
(* As long as no claim of m came to nothing, one worker holds it at most   *)
(* and is not late, and what the receiver of its webhook was told or is    *)
(* about to be told is what the row says.                                  *)
Kept(m) ==
    /\ \A v, w \in Workers : held[v] = m /\ held[w] = m => v = w
    /\ \A w \in Workers : held[w] = m => status[m] = "processing" /\ w \notin late
    /\ \A c \in callbacks : c.msg = m => status[m] = c.status
    /\ notified[m] \subseteq {status[m]}

KeptInv == \A m \in Msgs : losses[m] = 0 => Kept(m)

LEMMA KeptStep ==
    ASSUME Typed, Typed', LeaseInv, KeptInv, [Next]_vars
    PROVE  KeptInv'
<1> SUFFICES ASSUME NEW m \in Msgs, losses'[m] = 0 PROVE Kept(m)'
  BY DEF KeptInv
<1> USE OutboxAssumption DEF table, process, network, webhook, history, leases
<1>a. /\ status \in [Msgs -> Statuses] /\ held \in [Workers -> Msgs \cup {NoMsg}]
      /\ callbacks \subseteq Callbacks /\ notified[m] \subseteq Settled
      /\ losses \in [Msgs -> Nat] /\ NoMsg # m
  BY DEF Typed, TypeOK
<1>b. losses[m] = 0 => Kept(m)
  BY DEF KeptInv
\* A row without an outcome has told nobody anything.
<1>c. ASSUME Kept(m), status[m] \notin Settled
      PROVE  notified[m] = {} /\ \A c \in callbacks : c.msg # m
  BY <1>a, <1>c DEF Kept, Callbacks
<1>d. ASSUME losses[m] = 0, UNCHANGED <<status, late, held, callbacks, notified>> PROVE Kept(m)'
  BY <1>b, <1>d DEF Kept
<1>12. ASSUME NEW S \in SUBSET Msgs, BeginEnqueue(S) PROVE Kept(m)'
  BY <1>12, <1>d DEF BeginEnqueue
<1>1. ASSUME NEW S \in SUBSET Msgs, CommitEnqueue(S) PROVE Kept(m)'
  <2>1. Kept(m) /\ UNCHANGED <<late, held, callbacks, notified>>
    BY <1>1, <1>b DEF CommitEnqueue
  <2>2. CASE m \in S
    <3>1. status[m] = "absent"
      BY <1>1, <2>2 DEF CommitEnqueue
    <3>2. notified[m] = {} /\ (\A c \in callbacks : c.msg # m) /\ \A w \in Workers : held[w] # m
      BY <2>1, <3>1, <1>c DEF Settled, Kept
    <3> QED
      BY <2>1, <3>2 DEF Kept
  <2>3. CASE m \notin S
    <3>1. status'[m] = status[m]
      BY <1>1, <2>3 DEF CommitEnqueue
    <3> QED
      BY <2>1, <3>1 DEF Kept
  <2> QED
    BY <2>2, <2>3
<1>13. ASSUME NEW w \in Workers, LockOldest(w) \/ ClaimFails(w) PROVE Kept(m)'
  <2>1. losses' = losses /\ UNCHANGED <<status, late, held, callbacks, notified>>
    BY <1>13 DEF LockOldest, ClaimFails
  <2> QED
    BY <2>1, <1>d
<1>2. ASSUME NEW w \in Workers, Claim(w) \/ ClaimUnread(w) PROVE Kept(m)'
  <2>1. PICK r \in Msgs : /\ r = locked[w] /\ status[r] = "pending" /\ held[w] = NoMsg
                          /\ status' = [status EXCEPT ![r] = "processing"]
    BY <1>2, ClaimTakes DEF LeaseInv
  <2>2. /\ Kept(m) /\ UNCHANGED <<late, callbacks, notified>> /\ w \notin late
        /\ held' = [held EXCEPT ![w] = r] \/ held' = held
    BY <1>2, <1>b, <2>1 DEF Claim, ClaimUnread, Typed, HoldsWhileWorking
  <2>3. CASE m = r
    <3>1. /\ notified[m] = {} /\ \A c \in callbacks : c.msg # m
          /\ \A v \in Workers : held[v] # m
      BY <2>1, <2>2, <2>3, <1>c DEF Settled, Kept
    <3>3. \A v \in Workers : held'[v] = m => v = w
      BY <1>a, <2>2, <3>1
    <3> QED
      BY <1>a, <2>1, <2>2, <2>3, <3>1, <3>3 DEF Kept
  <2>4. CASE m # r
    <3>1. status'[m] = status[m] /\ \A v \in Workers : held'[v] = m => held[v] = m
      BY <1>a, <2>1, <2>2, <2>4
    <3> QED
      BY <2>2, <3>1 DEF Kept
  <2> QED
    BY <2>3, <2>4
<1>3. ASSUME NEW w \in Workers, Validate(w) \/ PickInstance(w) \/ ApiAnswers(w) \/ GiveUp(w) \/ Stop(w)
      PROVE  Kept(m)'
  <2>1. losses' = losses /\ UNCHANGED <<status, late, held, callbacks, notified>>
    BY <1>3 DEF Validate, PickInstance, ApiAnswers, GiveUp, Stop
  <2> QED
    BY <2>1, <1>d
<1>4. ASSUME NEW w \in Workers, Settle(w) PROVE Kept(m)'
  <2>1. /\ status' = [status EXCEPT ![held[w]] = Outcome(verdict[w])]
        /\ late' = late \ {w} /\ held' = [held EXCEPT ![w] = NoMsg]
        /\ callbacks' = WithCallback(w) /\ notified' = notified
    BY <1>4 DEF Settle, LetGo
  <2>2. Kept(m)
    BY <1>4, <1>b DEF Settle
  <2>3. \A v \in Workers : held'[v] = m => held[v] = m /\ v # w
    BY <1>a, <2>1
  <2>4. CASE m = held[w]
    <3>1. /\ notified[m] = {} /\ \A c \in callbacks : c.msg # m
          /\ \A v \in Workers : held[v] = m => v = w
      BY <2>2, <2>4, <1>c DEF Settled, Kept
    <3>2. status'[m] = Outcome(verdict[w])
      BY <1>a, <2>1, <2>4
    <3>3. \A c \in callbacks' : c.msg = m => c.status = status'[m]
      BY <2>1, <3>1, <3>2 DEF WithCallback
    <3> QED
      BY <2>1, <2>3, <3>1, <3>3 DEF Kept
  <2>5. CASE m # held[w]
    <3>1. status'[m] = status[m]
      BY <1>a, <2>1, <2>5
    <3>2. \A c \in callbacks' : c.msg = m => c \in callbacks
      BY <2>1, <2>5 DEF WithCallback
    <3> QED
      BY <1>a, <2>1, <2>2, <2>3, <2>5, <3>1, <3>2 DEF Kept
  <2> QED
    BY <2>4, <2>5
<1>5. ASSUME NEW w \in Workers, SettleLost(w) PROVE Kept(m)'
  <2>1. losses[m] = 0 /\ (m = held[w] => w \in late)
    BY <1>5, <1>a DEF SettleLost, GivenUp
  <2>2. Kept(m) /\ m # held[w]
    BY <2>1, <1>b DEF Kept
  <2>3. /\ UNCHANGED <<status, notified>> /\ held' = [held EXCEPT ![w] = NoMsg]
        /\ late' = late \ {w} /\ \A c \in callbacks' : c.msg = m => c \in callbacks
    BY <1>5, <2>2 DEF SettleLost, LetGo, WithCallback
  <2>4. \A v \in Workers : held'[v] = m => held[v] = m
    BY <1>a, <2>3
  <2> QED
    BY <2>2, <2>3, <2>4 DEF Kept
<1>14. ASSUME NEW w \in Workers, Crash(w) PROVE Kept(m)'
  <2>1. losses[m] = 0 /\ (m = held[w] => w \in late)
    BY <1>14, <1>a DEF Crash, GivenUp
  <2>2. Kept(m) /\ m # held[w]
    BY <2>1, <1>b DEF Kept
  <2>3. /\ notified' = notified /\ held' = [held EXCEPT ![w] = NoMsg]
        /\ late' = late \ {w} /\ callbacks' \subseteq callbacks
    BY <1>14 DEF Crash
  <2>4. \A v \in Workers : held'[v] = m => held[v] = m
    BY <1>a, <2>3
  <2>5. CASE status'[m] = status[m]
    BY <2>2, <2>3, <2>4, <2>5 DEF Kept
  <2>6. CASE status'[m] # status[m]
    <3>1. status[m] = "pending" /\ status'[m] = "processing"
      BY <1>14, <1>a, <2>6, ClaimTakes DEF LeaseInv
    <3>2. /\ notified[m] = {} /\ \A c \in callbacks : c.msg # m
          /\ \A v \in Workers : held[v] # m
      BY <2>2, <3>1, <1>c DEF Settled, Kept
    <3> QED
      BY <2>3, <2>4, <3>2 DEF Kept
  <2> QED
    BY <2>5, <2>6
<1>6. ASSUME NEW w \in Workers, Exit(w) PROVE Kept(m)'
  <2>1. /\ losses' = losses /\ UNCHANGED <<status, late, held, notified>>
        /\ callbacks' \subseteq callbacks
    BY <1>6 DEF Exit
  <2> QED
    BY <2>1, <1>b DEF Kept
\* A stale claim of m is nobody's, for m has lost none.
<1>7. ASSUME ReapStaleClaims, UNCHANGED <<held, callbacks, notified>> PROVE Kept(m)'
  <2>1. Kept(m) /\ late' = late
    BY <1>7, <1>b DEF ReapStaleClaims
  <2>2. CASE m \in StaleClaims
    <3>1. \A w \in Workers : held[w] # m
      BY <2>1, <2>2 DEF StaleClaims, Kept, LeaseInv, AgedUnheld
    <3>2. notified[m] = {} /\ \A c \in callbacks : c.msg # m
      BY <2>1, <2>2, <1>c DEF StaleClaims, Settled
    <3> QED
      BY <1>7, <3>1, <3>2 DEF Kept
  <2>3. CASE m \notin StaleClaims
    <3>1. status'[m] = status[m]
      BY <1>7, <2>3 DEF ReapStaleClaims
    <3> QED
      BY <1>7, <2>1, <3>1 DEF Kept
  <2> QED
    BY <2>2, <2>3
<1>8. ASSUME NEW r \in Msgs, OrphanEnds(r) PROVE Kept(m)'
  BY <1>8, <1>d DEF OrphanEnds
<1>9. ASSUME NEW r \in Msgs, ClaimAges(r) PROVE Kept(m)'
  <2>1. UNCHANGED <<status, held, callbacks, notified>>
    BY <1>9 DEF ClaimAges
  <2>2. CASE late' = late
    BY <1>9, <2>1, <2>2, <1>b DEF ClaimAges, Kept, Typed, TypeOK
  <2>3. CASE late' # late
    <3>1. /\ late' = late \cup {w \in Workers : held[w] = r}
          /\ losses' = [losses EXCEPT ![r] = @ + 1]
      BY <1>9, <2>3 DEF ClaimAges
    <3>2. m # r /\ losses[m] = 0
      BY <1>a, <3>1
    <3> QED
      BY <2>1, <3>1, <3>2, <1>b DEF Kept
  <2> QED
    BY <2>2, <2>3
<1>10. ASSUME NEW c \in callbacks, CallbackEnds(c) PROVE Kept(m)'
  <2>1. /\ Kept(m) /\ UNCHANGED <<status, late, held>> /\ callbacks' \subseteq callbacks
        /\ notified'[m] = notified[m] \/ (c.msg = m /\ notified'[m] = notified[m] \cup {c.status})
    BY <1>10, <1>b DEF CallbackEnds, Typed, TypeOK
  <2> QED
    BY <2>1 DEF Kept
<1>11. CASE UNCHANGED vars
  BY <1>11, <1>d DEF vars
<1> QED
  BY <1>1, <1>2, <1>3, <1>4, <1>5, <1>6, <1>7, <1>8, <1>9, <1>10, <1>11,
     <1>12, <1>13, <1>14
     DEF Next, Cycle, Reap, Restart

(* The webhook tells its receiver what the row says, unless an outcome of  *)
(* the row was lost on its way to the table or its worker was taken for    *)
(* dead.                                                                   *)
THEOREM CallbacksAlwaysAgree == Spec => []CallbacksAgree
<1>1. Init => KeptInv
  BY OutboxAssumption DEF Init, KeptInv, Kept
<1>2. Typed /\ Typed' /\ LeaseInv /\ KeptInv /\ [Next]_vars => KeptInv'
  BY KeptStep
<1>3. Typed /\ KeptInv => CallbacksAgree
  <2> SUFFICES ASSUME Typed, KeptInv PROVE CallbacksAgree
    OBVIOUS
  <2>1. \A m \in Msgs : losses[m] > 0 \/ Kept(m)
    BY DEF KeptInv, Typed, TypeOK
  <2>2. \A c \in callbacks : c.msg \in Msgs
    BY DEF Typed, TypeOK, Callbacks
  <2> QED
    BY <2>1, <2>2 DEF Kept, CallbacksAgree
<1> QED
  BY <1>1, <1>2, <1>3, LeaseHolds, PTL DEF Spec

(* What a late holder cannot break: the count of the copies, the truth of  *)
(* `sent`, and the word of the webhook.                                    *)
THEOREM RightWhenLateHolds == Spec => []RightWhenLate
<1>1. CopiesBounded /\ SentWasDelivered /\ CallbacksAgree => RightWhenLate
  BY DEF RightWhenLate
<1> QED
  BY <1>1, CopiesAreBounded, SentDelivered, CallbacksAlwaysAgree, PTL

-----------------------------------------------------------------------------
(* A row that some worker has claimed at least once, or is claiming. *)
Claimed(n) == status[n] \notin {"absent", "pending"} \/ n \in requeued
Taken(n)   == Claimed(n) \/ \E w \in Workers : locked[w] = n

(* What is not committed yet was out of sight of every claim there was. *)
ClaimedExists ==
    /\ \A n \in Msgs : Taken(n) => status[n] # "absent"
    /\ \A w \in Workers : held[w] # NoMsg => Claimed(held[w])
    /\ \A m, n \in Msgs : status[m] = "absent" /\ Taken(n) => m \in hidden[n]

InOrder ==
    \A m, n \in Msgs :
        /\ status[m] = "pending" /\ Taken(n)
        /\ insertedAt[m] < insertedAt[n]
        /\ \A w \in Workers : Handles(w, n) => Handles(w, m)
        => m \in requeued \cup hidden[n]

OrderInv == ClaimedExists /\ InOrder

(* A step that takes no row for the first time and submits none.           *)
LEMMA OrderKept ==
    ASSUME OrderInv, UNCHANGED <<insertedAt, hidden>>, requeued \subseteq requeued',
           \A m \in Msgs : /\ Taken(m)' => Taken(m)
                           /\ status'[m] = "absent" <=> status[m] = "absent"
                           /\ status'[m] = "pending" => status[m] = "pending" \/ m \in requeued',
           \A w \in Workers : held'[w] # NoMsg => Claimed(held[w])'
    PROVE  OrderInv'
  BY DEF OrderInv, ClaimedExists, InOrder, Handles, Claimed

(* FIFO is not inductive: a late holder may settle a row that has been     *)
(* requeued, which then has left the queue without a claim.  What was ever *)
(* claimed keeps its place behind the older rows that its claim could see. *)
LEMMA OrderStep ==
    ASSUME Typed, Typed', LeaseInv, OrderInv, [Next]_vars
    PROVE  OrderInv'
<1> USE OutboxAssumption DEF table, process, network, webhook, history, leases
<1>a. /\ status \in [Msgs -> Statuses] /\ locked \in [Workers -> Msgs \cup {NoMsg}]
      /\ held \in [Workers -> Msgs \cup {NoMsg}] /\ hidden \in [Msgs -> SUBSET Msgs]
      /\ NoMsg \notin Msgs
  BY DEF Typed, TypeOK
<1>0. ASSUME UNCHANGED <<status, insertedAt, locked, held, requeued, hidden>> PROVE OrderInv'
  BY <1>0 DEF OrderInv, ClaimedExists, InOrder, Taken, Claimed, Handles
<1>1. ASSUME NEW S \in SUBSET Msgs, BeginEnqueue(S) PROVE OrderInv'
  <2>1. UNCHANGED <<status, locked, held, requeued, hidden>>
    BY <1>1 DEF BeginEnqueue
  <2>2. \A m \in Msgs : status[m] # "absent" => insertedAt'[m] = insertedAt[m]
    BY <1>1 DEF BeginEnqueue
  <2>3. \A m \in Msgs : Taken(m)' <=> Taken(m)
    BY <2>1 DEF Taken, Claimed
  <2>4. ClaimedExists'
    BY <2>1, <2>3 DEF OrderInv, ClaimedExists, Claimed
  <2>5. InOrder'
    <3> SUFFICES ASSUME NEW m \in Msgs, NEW n \in Msgs, status[m] = "pending", Taken(n),
                        insertedAt'[m] < insertedAt'[n],
                        \A v \in Workers : Handles(v, n) => Handles(v, m)
                 PROVE  m \in requeued \cup hidden[n]
      BY <2>1, <2>3 DEF InOrder, Handles
    <3>1. status[n] # "absent"
      BY DEF OrderInv, ClaimedExists
    <3>2. insertedAt[m] < insertedAt[n]
      BY <2>2, <3>1
    <3> QED
      BY <3>2 DEF OrderInv, InOrder
  <2> QED
    BY <2>4, <2>5 DEF OrderInv
<1>2. ASSUME NEW S \in SUBSET Msgs, CommitEnqueue(S) PROVE OrderInv'
  <2>1. UNCHANGED <<insertedAt, locked, held, requeued, hidden>>
    BY <1>2 DEF CommitEnqueue
  <2>2. \A m \in Msgs : status'[m] = IF m \in S THEN "pending" ELSE status[m]
    BY <1>2 DEF CommitEnqueue
  <2>3. \A m \in S : status[m] = "absent"
    BY <1>2 DEF CommitEnqueue
  <2>4. \A m \in Msgs : Taken(m)' <=> Taken(m)
    BY <2>1, <2>2, <2>3 DEF Taken, Claimed, OrderInv, ClaimedExists
  <2>5. ClaimedExists'
    <3>1. \A m \in Msgs : status'[m] = "absent" => status[m] = "absent"
      BY <2>2
    <3>2. \A v \in Workers : held[v] # NoMsg => Claimed(held[v])'
      BY <1>a, <2>1, <2>2, <2>3 DEF OrderInv, ClaimedExists, Claimed
    <3> QED
      BY <2>1, <2>4, <3>1, <3>2 DEF OrderInv, ClaimedExists
  <2>6. InOrder'
    BY <2>1, <2>2, <2>3, <2>4 DEF OrderInv, ClaimedExists, InOrder, Handles
  <2> QED
    BY <2>5, <2>6 DEF OrderInv
\* The row that is locked now: what is older, pending and as widely handled is
\* locked by another claim.
<1>3. ASSUME NEW w \in Workers, LockOldest(w) PROVE OrderInv'
  <2>1. PICK r \in Oldest(Claimable(w)) :
           /\ locked' = [locked EXCEPT ![w] = r]
           /\ hidden' = [hidden EXCEPT ![r] =
                @ \cup {n \in Msgs : status[n] = "absent" \/ n \in LockedByOthers(w)}]
    BY <1>3 DEF LockOldest
  <2>2. r \in Msgs /\ status[r] = "pending" /\ Handles(w, r)
    BY <2>1 DEF Oldest, Claimable
  <2>3. UNCHANGED <<status, insertedAt, held, requeued>>
    BY <1>3 DEF LockOldest
  <2>4. \A n \in Msgs : /\ Taken(n)' => Taken(n) \/ n = r
                        /\ hidden[n] \subseteq hidden'[n]
    BY <1>a, <2>1, <2>2, <2>3 DEF Taken, Claimed
  <2>5. \A m \in Msgs : status[m] = "absent" \/ m \in LockedByOthers(w) => m \in hidden'[r]
    BY <1>a, <2>1, <2>2
  <2>6. \A v \in Workers : held[v] # NoMsg => Claimed(held[v])'
    BY <2>3 DEF OrderInv, ClaimedExists, Claimed
  <2>7. ClaimedExists'
    <3>1. ASSUME NEW n \in Msgs, Taken(n)' PROVE status'[n] # "absent"
      BY <2>2, <2>3, <2>4, <3>1 DEF OrderInv, ClaimedExists
    <3>2. ASSUME NEW m \in Msgs, NEW n \in Msgs, status'[m] = "absent", Taken(n)' PROVE m \in hidden'[n]
      <4>1. CASE n = r
        BY <2>3, <2>5, <3>2, <4>1
      <4>2. CASE n # r
        BY <2>3, <2>4, <3>2, <4>2 DEF OrderInv, ClaimedExists
      <4> QED
        BY <4>1, <4>2
    <3> QED
      BY <2>3, <2>6, <3>1, <3>2 DEF ClaimedExists
  <2>8. InOrder'
    <3> SUFFICES ASSUME NEW m \in Msgs, NEW n \in Msgs, status'[m] = "pending", Taken(n)',
                        insertedAt'[m] < insertedAt'[n],
                        \A v \in Workers : Handles(v, n) => Handles(v, m)
                 PROVE  m \in requeued' \cup hidden'[n]
      BY DEF InOrder, Handles
    <3>1. CASE Taken(n)
      BY <2>3, <2>4, <3>1 DEF OrderInv, InOrder
    <3>2. CASE n = r
      <4>1. m \in LockedByOthers(w) \/ m \in Claimable(w)
        BY <2>2, <2>3, <3>2 DEF Claimable
      <4>2. CASE m \in Claimable(w)
        <5>1. insertedAt[r] <= insertedAt[m]
          BY <2>1, <4>2 DEF Oldest
        <5> QED
          BY <2>3, <3>2, <5>1 DEF Typed, TypeOK
      <4> QED
        BY <2>5, <3>2, <4>1, <4>2
    <3> QED
      BY <2>4, <3>1, <3>2
  <2> QED
    BY <2>7, <2>8 DEF OrderInv
<1>4. ASSUME NEW w \in Workers, Claim(w) \/ ClaimUnread(w) PROVE OrderInv'
  <2>1. PICK r \in Msgs : /\ r = locked[w] /\ status[r] = "pending" /\ held[w] = NoMsg
                          /\ status' = [status EXCEPT ![r] = "processing"]
    BY <1>4, ClaimTakes DEF LeaseInv
  <2>2. /\ UNCHANGED <<insertedAt, requeued, hidden>> /\ locked' = [locked EXCEPT ![w] = NoMsg]
        /\ held' = [held EXCEPT ![w] = r] \/ held' = held
    BY <1>4, <2>1 DEF Claim, ClaimUnread, EndClaim
  <2>3. \A n \in Msgs : Taken(n)' <=> Taken(n)
    BY <1>a, <2>1, <2>2 DEF Taken, Claimed
  <2>4. \A v \in Workers : held'[v] # NoMsg => Claimed(held[v])'
    <3>1. Claimed(r)' /\ \A n \in Msgs : Claimed(n) => Claimed(n)'
      BY <1>a, <2>1, <2>2 DEF Claimed
    <3> QED
      BY <1>a, <2>2, <3>1 DEF OrderInv, ClaimedExists
  <2> QED
    BY <1>a, <2>1, <2>2, <2>3, <2>4, OrderKept
<1>5. ASSUME NEW w \in Workers, ClaimFails(w) PROVE OrderInv'
  <2>1. /\ UNCHANGED <<status, insertedAt, held, requeued, hidden>>
        /\ locked' = [locked EXCEPT ![w] = NoMsg]
    BY <1>5 DEF ClaimFails, EndClaim
  <2>2. \A n \in Msgs : Taken(n)' => Taken(n)
    BY <1>a, <2>1 DEF Taken, Claimed
  <2>3. \A v \in Workers : held'[v] # NoMsg => Claimed(held[v])'
    BY <2>1 DEF Claimed, OrderInv, ClaimedExists
  <2> QED
    BY <2>1, <2>2, <2>3, OrderKept
<1>6. ASSUME NEW w \in Workers,
             Validate(w) \/ PickInstance(w) \/ ApiAnswers(w) \/ GiveUp(w) \/ Exit(w) \/ Stop(w)
      PROVE  OrderInv'
  BY <1>0, <1>6 DEF Validate, PickInstance, ApiAnswers, GiveUp, Exit, Stop
<1>7. ASSUME NEW w \in Workers, Settle(w) PROVE OrderInv'
  <2>1. /\ held[w] \in Msgs /\ held' = [held EXCEPT ![w] = NoMsg]
        /\ status' = [status EXCEPT ![held[w]] = Outcome(verdict[w])]
        /\ UNCHANGED <<insertedAt, locked, requeued, hidden>>
    BY <1>7 DEF Settle, LetGo, Typed, TypeOK, HoldsWhileWorking, Holding
  <2>2. Claimed(held[w]) /\ status[held[w]] # "absent"
    BY <2>1 DEF OrderInv, ClaimedExists, Taken
  <2>3. \A n \in Msgs : /\ status'[n] = status[n] \/ (n = held[w] /\ status'[n] \in {"sent", "failed"})
                        /\ Claimed(n) => Claimed(n)'
                        /\ Claimed(n)' => Claimed(n)
    BY <1>a, <2>1, <2>2 DEF Claimed, Outcome
  <2>4. \A n \in Msgs : Taken(n)' => Taken(n)
    BY <2>1, <2>3 DEF Taken
  <2>5. \A v \in Workers : held'[v] # NoMsg => Claimed(held[v])'
    BY <1>a, <2>1, <2>3 DEF OrderInv, ClaimedExists
  <2> QED
    BY <2>1, <2>2, <2>3, <2>4, <2>5, OrderKept
<1>8. ASSUME NEW w \in Workers, SettleLost(w) PROVE OrderInv'
  <2>1. /\ UNCHANGED <<status, insertedAt, locked, requeued, hidden>>
        /\ held' = [held EXCEPT ![w] = NoMsg]
    BY <1>8 DEF SettleLost, LetGo
  <2>2. \A n \in Msgs : (Taken(n)' <=> Taken(n)) /\ (Claimed(n)' <=> Claimed(n))
    BY <2>1 DEF Taken, Claimed
  <2>3. \A v \in Workers : held'[v] # NoMsg => Claimed(held[v])'
    BY <1>a, <2>1, <2>2 DEF OrderInv, ClaimedExists
  <2> QED
    BY <2>1, <2>2, <2>3, OrderKept
<1>9. ASSUME NEW w \in Workers, Crash(w) PROVE OrderInv'
  <2>1. /\ UNCHANGED <<insertedAt, requeued, hidden>>
        /\ held' = [held EXCEPT ![w] = NoMsg] /\ locked' = [locked EXCEPT ![w] = NoMsg]
    BY <1>9 DEF Crash
  <2>2. \A n \in Msgs : \/ status'[n] = status[n]
                        \/ n = locked[w] /\ status[n] = "pending" /\ status'[n] = "processing"
    BY <1>9, <1>a, ClaimTakes DEF LeaseInv
  <2>3. \A n \in Msgs : (Taken(n)' => Taken(n)) /\ (Claimed(n) => Claimed(n)')
    BY <1>a, <2>1, <2>2 DEF Taken, Claimed
  <2>4. \A v \in Workers : held'[v] # NoMsg => Claimed(held[v])'
    BY <1>a, <2>1, <2>3 DEF OrderInv, ClaimedExists
  <2> QED
    BY <2>1, <2>2, <2>3, <2>4, OrderKept
<1>10. ASSUME ReapStaleClaims, UNCHANGED <<locked, held>> PROVE OrderInv'
  <2>1. /\ UNCHANGED <<insertedAt, hidden>> /\ requeued' = requeued \cup StaleClaims
        /\ \A n \in Msgs : status'[n] = IF n \in StaleClaims THEN "pending" ELSE status[n]
    BY <1>10 DEF ReapStaleClaims
  <2>2. \A n \in StaleClaims : status[n] = "processing"
    BY DEF StaleClaims
  <2>3. \A n \in Msgs : Claimed(n)' <=> Claimed(n)
    BY <2>1, <2>2 DEF Claimed
  <2>4. \A n \in Msgs : Taken(n)' => Taken(n)
    BY <1>10, <2>3 DEF Taken
  <2>5. \A v \in Workers : held'[v] # NoMsg => Claimed(held[v])'
    BY <1>10, <1>a, <2>3 DEF OrderInv, ClaimedExists
  <2> QED
    BY <2>1, <2>2, <2>4, <2>5, OrderKept
<1>11. ASSUME NEW m \in Msgs, OrphanEnds(m) \/ ClaimAges(m) PROVE OrderInv'
  BY <1>0, <1>11 DEF OrphanEnds, ClaimAges
<1>12. ASSUME NEW c \in callbacks, CallbackEnds(c) PROVE OrderInv'
  BY <1>0, <1>12 DEF CallbackEnds
<1>13. CASE UNCHANGED vars
  BY <1>0, <1>13 DEF vars
<1> QED
  BY <1>1, <1>2, <1>3, <1>4, <1>5, <1>6, <1>7, <1>8, <1>9, <1>10, <1>11,
     <1>12, <1>13 DEF Next, Cycle, Reap, Restart

(* Among rows that the same workers may take, a later one leaves the queue *)
(* before an earlier one only if the earlier one was claimed before, lost  *)
(* and requeued, or if it was out of sight of the later one's claim.       *)
THEOREM FIFOHolds == Spec => []FIFOUnlessRequeued
<1>1. Init => OrderInv
  BY OutboxAssumption DEF Init, OrderInv, ClaimedExists, InOrder, Taken, Claimed
<1>2. Typed /\ Typed' /\ LeaseInv /\ OrderInv /\ [Next]_vars => OrderInv'
  BY OrderStep
<1>3. OrderInv => FIFOUnlessRequeued
  BY DEF OrderInv, InOrder, FIFOUnlessRequeued, Taken, Claimed
<1> QED
  BY <1>1, <1>2, <1>3, LeaseHolds, PTL DEF Spec

-----------------------------------------------------------------------------
(* Only the record of an outcome touches a row that has one, and then the  *)
(* row is no longer in processing: whoever records it was overrun, or came *)
(* after somebody who was.                                                 *)
LEMMA SettledStep ==
    ASSUME Typed, LeaseInv, [Next]_vars, NEW r \in Msgs, status[r] \in Settled
    PROVE  status'[r] \in Settled /\ (status'[r] = status[r] \/ r \in overrun)
<1> USE OutboxAssumption DEF table, process, network, webhook, history, leases
<1>a. status \in [Msgs -> Statuses] /\ held \in [Workers -> Msgs \cup {NoMsg}]
  BY DEF Typed, TypeOK
<1>b. status[r] \notin {"absent", "pending", "processing"}
  BY DEF Settled
<1>1. ASSUME NEW S \in SUBSET Msgs, BeginEnqueue(S) \/ CommitEnqueue(S) PROVE status'[r] = status[r]
  BY <1>1, <1>b DEF BeginEnqueue, CommitEnqueue
<1>2. ASSUME NEW w \in Workers, Claim(w) \/ ClaimUnread(w) \/ Crash(w) PROVE status'[r] = status[r]
  BY <1>2, <1>a, <1>b, ClaimTakes DEF LeaseInv
<1>3. ASSUME NEW w \in Workers, Settle(w)
      PROVE  status'[r] \in Settled /\ (status'[r] = status[r] \/ r \in overrun)
  <2>1. held[w] \in Msgs /\ status' = [status EXCEPT ![held[w]] = Outcome(verdict[w])]
    BY <1>3 DEF Settle, Typed, TypeOK, HoldsWhileWorking, Holding
  <2>2. held[w] = r => r \in overrun
    BY <1>b, <2>1 DEF LeaseInv, LeaseSafety
  <2> QED
    BY <1>a, <2>1, <2>2 DEF Outcome, Settled
<1>4. ASSUME ReapStaleClaims PROVE status'[r] = status[r]
  BY <1>4, <1>b DEF ReapStaleClaims, StaleClaims
<1>5. ASSUME status' = status PROVE status'[r] = status[r]
  BY <1>5
<1>6. ASSUME NEW w \in Workers, \/ LockOldest(w) \/ ClaimFails(w) \/ Validate(w) \/ PickInstance(w)
                               \/ ApiAnswers(w) \/ GiveUp(w) \/ SettleLost(w) \/ Exit(w) \/ Stop(w)
      PROVE  status' = status
  BY <1>6 DEF LockOldest, ClaimFails, Validate, PickInstance, ApiAnswers, GiveUp, SettleLost, Exit, Stop
<1>7. ASSUME NEW m \in Msgs, OrphanEnds(m) \/ ClaimAges(m) PROVE status' = status
  BY <1>7 DEF OrphanEnds, ClaimAges
<1>8. ASSUME NEW c \in callbacks, CallbackEnds(c) PROVE status' = status
  BY <1>8 DEF CallbackEnds
<1>9. CASE UNCHANGED vars
  BY <1>9 DEF vars
<1> QED
  BY <1>1, <1>2, <1>3, <1>4, <1>6, <1>7, <1>8, <1>9 DEF Next, Cycle, Reap, Restart

(* A row that has an outcome keeps it, unless the reaper had outrun one of *)
(* the workers that came back with one.                                    *)
THEOREM SettledStays == Spec => SettledIsFinal
<1>1. Typed /\ LeaseInv /\ [Next]_vars
        => [\A m \in Msgs : status[m] \in Settled =>
               /\ status'[m] \in Settled
               /\ status'[m] = status[m] \/ m \in overrun]_vars
  BY SettledStep
<1> QED
  BY <1>1, LeaseHolds, PTL DEF Spec, SettledIsFinal

-----------------------------------------------------------------------------
(* Refinement: one lemma for the steps that show, one for those that do    *)
(* not, and the theorem.                                                   *)
Unseen == UNCHANGED <<status, held, delivered, leases>>

LEMMA UnseenStutters == Unseen => UNCHANGED LQ!vars
  BY DEF Unseen, LQ!vars, Lease, Past, Budget, leases

LEMMA InitMaps == Init => LQ!Init
  BY OutboxAssumption DEF Init, LQ!Init, Lease, Past, Budget

Seen == Typed /\ LeaseInv /\ AnswerInv /\ Within

(* The three mapped functions, row by row. *)
LEMMA Mapped ==
    /\ Lease = [r \in Msgs |-> Lease[r]] /\ Lease' = [r \in Msgs |-> Lease'[r]]
    /\ Past = [r \in Msgs |-> Past[r]] /\ Past' = [r \in Msgs |-> Past'[r]]
    /\ \A r \in Msgs : /\ Lease[r] = {v \in Workers \ late : held[v] = r}
                      /\ Lease'[r] = {v \in Workers \ late' : held'[v] = r}
                      /\ Past[r] = {v \in late : held[v] = r}
                      /\ Past'[r] = {v \in late' : held'[v] = r}
  BY DEF Lease, Past

(* Who is on a row, worker by worker. *)
LEMMA OnRow ==
    ASSUME TypeOK, TypeOK', NEW r \in Msgs, NEW v
    PROVE  /\ v \in Lease[r] <=> v \in Workers /\ v \notin late /\ held[v] = r
           /\ v \in Lease'[r] <=> v \in Workers /\ v \notin late' /\ held'[v] = r
           /\ v \in Past[r] <=> v \in Workers /\ v \in late /\ held[v] = r
           /\ v \in Past'[r] <=> v \in Workers /\ v \in late' /\ held'[v] = r
<1>1. late \subseteq Workers /\ late' \subseteq Workers
  BY DEF TypeOK
<1> QED
  BY <1>1 DEF Lease, Past

LEMMA BudgetGrows ==
    ASSUME TypeOK, NEW m \in Msgs, NEW d \in {0, 1},
           \A r \in Msgs : losses'[r] = IF r = m THEN losses[r] + d ELSE losses[r]
    PROVE  Budget' = [Budget EXCEPT ![m] = @ + d]
<1>1. Budget' = [r \in Msgs |-> 1 + losses'[r]]
  BY DEF Budget
<1>2. [Budget EXCEPT ![m] = @ + d] = [r \in Msgs |-> IF r = m THEN 1 + losses[r] + d ELSE 1 + losses[r]]
  BY DEF Budget
<1>3. \A r \in Msgs : 1 + losses'[r] = IF r = m THEN 1 + losses[r] + d ELSE 1 + losses[r]
  BY DEF TypeOK
<1> QED
  BY <1>1, <1>2, <1>3

(* A worker that lets its row go leaves it, with a lease or without. *)
LEMMA Leaves ==
    ASSUME Typed, TypeOK', NEW w \in Workers, held[w] # NoMsg,
           held' = [held EXCEPT ![w] = NoMsg], late' = late \ {w}
    PROVE  LQ!Leave(held[w], w)
<1> DEFINE m == held[w]
<1>1. m \in Msgs /\ held \in [Workers -> Msgs \cup {NoMsg}] /\ late \subseteq Workers /\ NoMsg \notin Msgs
  BY OutboxAssumption DEF Typed, TypeOK
<1>t. /\ TypeOK /\ \A v \in Workers : v # w => held'[v] = held[v]
      /\ held'[w] = NoMsg /\ late' = late \ {w}
  BY <1>1 DEF Typed
<1>2. w \in Lease[m] \cup Past[m]
  BY <1>1, OnRow DEF Typed
<1>3. \A r \in Msgs : Lease'[r] = IF r = m THEN Lease[r] \ {w} ELSE Lease[r]
  <2>1. ASSUME NEW r \in Msgs, NEW v
        PROVE  v \in Lease'[r] <=> v \in (IF r = m THEN Lease[r] \ {w} ELSE Lease[r])
    BY <1>1, <1>t, <2>1, OnRow
  <2> QED
    BY <2>1
<1>4. \A r \in Msgs : Past'[r] = IF r = m THEN Past[r] \ {w} ELSE Past[r]
  <2>1. ASSUME NEW r \in Msgs, NEW v
        PROVE  v \in Past'[r] <=> v \in (IF r = m THEN Past[r] \ {w} ELSE Past[r])
    BY <1>1, <1>t, <2>1, OnRow
  <2> QED
    BY <2>1
<1>5. Lease' = [Lease EXCEPT ![m] = @ \ {w}]
  BY <1>1, <1>3, Mapped
<1>6. Past' = [Past EXCEPT ![m] = @ \ {w}]
  BY <1>1, <1>4, Mapped
<1> QED
  BY <1>2, <1>5, <1>6 DEF LQ!Leave

LEMMA StepMaps ==
    ASSUME Seen, Seen', [Next]_vars
    PROVE  [LQ!Next]_(LQ!vars)
<1> USE OutboxAssumption DEF table, process, network, webhook, history
<1>a. /\ Typed /\ TypeOK /\ TypeOK' /\ LeaseInv /\ LocksPending
      /\ held \in [Workers -> Msgs \cup {NoMsg}] /\ late \subseteq Workers /\ NoMsg \notin Msgs
  BY DEF Seen, Typed, TypeOK, LeaseInv
<1>1. ASSUME NEW S \in SUBSET Msgs, BeginEnqueue(S) PROVE Unseen
  BY <1>1 DEF BeginEnqueue, Unseen
<1>2. ASSUME NEW S \in SUBSET Msgs, CommitEnqueue(S) PROVE LQ!Next
  <2>1. LQ!Submit(S)
    BY <1>2 DEF CommitEnqueue, LQ!Submit, Lease, Past, Budget, leases
  <2> QED
    BY <2>1 DEF LQ!Next
<1>3. ASSUME NEW w \in Workers, Claim(w) PROVE LQ!Next
  <2>1. PICK m \in Msgs : /\ m = locked[w] /\ status[m] = "pending" /\ held[w] = NoMsg
                          /\ status' = [status EXCEPT ![m] = "processing"]
    BY <1>3, <1>a, ClaimTakes
  <2>2. /\ held' = [held EXCEPT ![w] = m] /\ w \notin late
        /\ UNCHANGED <<late, overrun, losses, delivered>>
    BY <1>3, <1>a, <2>1 DEF Claim, leases, Typed, HoldsWhileWorking
  <2>3. Lease[m] = {}
    BY <1>a, <2>1, Mapped DEF LeaseInv, LateOnRecord
  <2>4. \A r \in Msgs : Lease'[r] = (IF r = m THEN {w} ELSE Lease[r]) /\ Past'[r] = Past[r]
    <3>1. \A r \in Msgs : Past'[r] = Past[r]
      <4>1. ASSUME NEW r \in Msgs, NEW v
            PROVE  v \in Past'[r] <=> v \in (Past[r])
        BY <1>a, <2>1, <2>2, <4>1, OnRow
      <4> QED
        BY <4>1
    <3>2. ASSUME NEW r \in Msgs, r # m PROVE Lease'[r] = Lease[r]
      <4>1. ASSUME NEW v PROVE v \in Lease'[r] <=> v \in Lease[r]
        BY <1>a, <2>1, <2>2, <3>2, OnRow
      <4> QED
        BY <4>1
    <3>3. Lease'[m] = {w}
      BY <1>a, <2>1, <2>2, <2>3, OnRow
    <3> QED
      BY <3>1, <3>2, <3>3
  <2>5. Lease' = [Lease EXCEPT ![m] = {w}] /\ Past' = Past
    BY <2>4, Mapped
  <2>6. LQ!Take(m, {w})
    BY <2>1, <2>2, <2>3, <2>5 DEF LQ!Take, Budget
  <2> QED
    BY <2>6 DEF LQ!Next
<1>4. ASSUME NEW w \in Workers, ClaimUnread(w) \/ Crash(w), status' # status, UNCHANGED <<held, delivered, leases>>
      PROVE  LQ!Next
  <2>1. PICK m \in Msgs : status[m] = "pending" /\ status' = [status EXCEPT ![m] = "processing"]
    BY <1>4, <1>a, ClaimTakes
  <2>2. Lease' = Lease /\ Past' = Past /\ Budget' = Budget /\ overrun' = overrun
    BY <1>4 DEF Lease, Past, Budget, leases
  <2>3. Lease[m] = {}
    BY <1>a, <2>1, Mapped DEF LeaseInv, LateOnRecord
  <2>4. Lease' = [Lease EXCEPT ![m] = {}]
    BY <2>2, <2>3, Mapped
  <2>5. LQ!Take(m, {})
    BY <1>4, <2>1, <2>2, <2>3, <2>4 DEF LQ!Take
  <2> QED
    BY <2>5 DEF LQ!Next
<1>5. ASSUME NEW w \in Workers, ClaimUnread(w) PROVE LQ!Next \/ Unseen
  <2>1. UNCHANGED <<held, delivered, leases>>
    BY <1>5 DEF ClaimUnread
  <2> QED
    BY <1>4, <1>5, <2>1 DEF Unseen
<1>6. ASSUME NEW w \in Workers, \/ LockOldest(w) \/ ClaimFails(w) \/ Validate(w) \/ PickInstance(w)
                               \/ GiveUp(w) \/ Exit(w) \/ Stop(w)
      PROVE  Unseen
  BY <1>6 DEF Unseen, LockOldest, ClaimFails, Validate, PickInstance, GiveUp, Exit, Stop
<1>7. ASSUME NEW m \in Msgs, delivered' = [delivered EXCEPT ![m] = @ + 1],
             UNCHANGED <<status, held, leases>>
      PROVE  LQ!Next
  <2>1. delivered'[m] + orphans'[m] <= 1 + losses'[m] /\ orphans'[m] \in Nat
        /\ delivered[m] \in Nat /\ losses[m] \in Nat
    BY DEF Seen, Within, CopiesOf, Typed, TypeOK
  <2>2. delivered[m] < Budget[m]
    BY <1>7, <2>1, <1>a DEF Budget, TypeOK, leases
  <2>3. LQ!Transmit(m)
    BY <1>7, <2>2 DEF LQ!Transmit, Lease, Past, Budget, leases
  <2> QED
    BY <2>3 DEF LQ!Next
<1>8. ASSUME NEW w \in Workers, ApiAnswers(w) PROVE LQ!Next \/ Unseen
  <2>1. held[w] \in Msgs /\ UNCHANGED <<status, held, leases>>
    BY <1>8, <1>a DEF ApiAnswers, Typed, HoldsWhileWorking, Holding
  <2> QED
    BY <1>7, <1>8, <2>1 DEF ApiAnswers, Unseen
<1>9. ASSUME NEW m \in Msgs, OrphanEnds(m) PROVE LQ!Next \/ Unseen
  BY <1>7, <1>9 DEF OrphanEnds, Unseen
<1>10. ASSUME NEW w \in Workers, Settle(w) PROVE LQ!Next
  <2> DEFINE m == held[w]
             outcome == Outcome(verdict[w])
  <2>1. m # NoMsg /\ m \in Msgs
    BY <1>10, <1>a DEF Settle, Typed, HoldsWhileWorking, Holding
  <2>2. LQ!Leave(m, w)
    BY <1>10, <1>a, <2>1, Leaves DEF Settle, LetGo
  <2>3. status[m] = "processing" \/ m \in overrun
    BY <1>a, <2>1 DEF LeaseInv, LeaseSafety
  <2>4. outcome \in LQ!Settled /\ (outcome = "sent" => delivered[m] > 0)
    BY DEF Outcome, LQ!Settled, Seen, AnswerInv, VerdictMeans
  <2>5. LQ!Settle(m, w, outcome)
    BY <1>10, <2>2, <2>3, <2>4 DEF Settle, LQ!Settle, Budget
  <2> QED
    BY <2>1, <2>4, <2>5 DEF LQ!Next
<1>11. ASSUME NEW w \in Workers, held[w] # NoMsg, GivenUp(w), late' = late \ {w},
              held' = [held EXCEPT ![w] = NoMsg], UNCHANGED <<status, delivered, overrun>>
       PROVE  LQ!Next
  <2> DEFINE m == held[w]
  <2>1. m \in Msgs /\ LQ!Leave(m, w)
    BY <1>11, <1>a, Leaves
  <2>2. w \in Lease[m] <=> w \notin late
    BY <2>1, Mapped
  <2>3. Budget' = [Budget EXCEPT ![m] = IF w \in Lease[m] THEN @ + 1 ELSE @]
    <3>1. CASE w \in late
      <4>1. \A r \in Msgs : losses'[r] = IF r = m THEN losses[r] + 0 ELSE losses[r]
        BY <1>11, <1>a, <3>1 DEF GivenUp, TypeOK
      <4>2. Budget' = [Budget EXCEPT ![m] = @ + 0]
        BY <4>1, <1>a, <2>1, BudgetGrows
      <4>3. Budget[m] + 0 = Budget[m]
        BY <1>a, <2>1 DEF Budget, TypeOK
      <4> QED
        BY <4>2, <4>3, <3>1, <2>2
    <3>2. CASE w \notin late
      <4>1. \A r \in Msgs : losses'[r] = IF r = m THEN losses[r] + 1 ELSE losses[r]
        BY <1>11, <3>2 DEF GivenUp
      <4> QED
        BY <4>1, <1>a, <2>1, <2>2, <3>2, BudgetGrows
    <3> QED
      BY <3>1, <3>2
  <2>4. LQ!Lose(m, w)
    BY <1>11, <2>1, <2>3 DEF LQ!Lose
  <2> QED
    BY <2>1, <2>4 DEF LQ!Next
<1>12. ASSUME NEW w \in Workers, SettleLost(w) PROVE LQ!Next
  <2>1. held[w] # NoMsg
    BY <1>12, <1>a DEF SettleLost, Typed, HoldsWhileWorking, Holding
  <2> QED
    BY <1>11, <1>12, <2>1 DEF SettleLost, LetGo
<1>13. ASSUME NEW w \in Workers, Crash(w) PROVE LQ!Next \/ Unseen
  <2>1. CASE held[w] = NoMsg
    <3>1. held' = held /\ w \notin late /\ late' = late
      BY <1>13, <1>a, <2>1 DEF Crash, Typed, HoldsWhileWorking
    <3>2. losses' = losses
      BY <1>13, <1>a, <2>1 DEF Crash, GivenUp, TypeOK
    <3>3. UNCHANGED <<held, delivered, leases>>
      BY <1>13, <3>1, <3>2 DEF Crash, leases
    <3> QED
      BY <1>4, <1>13, <3>3 DEF Unseen
  <2>2. CASE held[w] # NoMsg
    <3>1. status' = status
      BY <1>13, <1>a, <2>2 DEF Crash, Typed, HoldsWhileWorking, Holding
    <3> QED
      BY <1>11, <1>13, <2>2, <3>1 DEF Crash
  <2> QED
    BY <2>1, <2>2
<1>14. ASSUME ReapStaleClaims, UNCHANGED <<held, delivered>> PROVE LQ!Next
  <2>1. \A m \in StaleClaims : status[m] = "processing" /\ Lease[m] = {}
    BY <1>a, OnRow DEF StaleClaims, LeaseInv, AgedUnheld, TypeOK
  <2>2. LQ!Requeue(StaleClaims)
    <3>1. Lease' = Lease /\ Past' = Past /\ Budget' = Budget /\ overrun' = overrun
      BY <1>14 DEF ReapStaleClaims, Lease, Past, Budget, leases
    <3>2. status' = [m \in Msgs |-> IF m \in StaleClaims THEN "pending" ELSE status[m]]
      BY <1>14 DEF ReapStaleClaims
    <3> QED
      BY <1>14, <2>1, <3>1, <3>2 DEF LQ!Requeue
  <2>3. StaleClaims \in SUBSET Msgs
    BY <1>a DEF StaleClaims, TypeOK
  <2> QED
    BY <2>2, <2>3 DEF LQ!Next
<1>15. ASSUME NEW w \in Workers, Restart(w) PROVE LQ!Next
  BY <1>14, <1>15 DEF Restart
<1>16. ASSUME Reap PROVE LQ!Next
  BY <1>14, <1>16 DEF Reap
<1>17. ASSUME NEW m \in Msgs, ClaimAges(m) PROVE LQ!Next \/ Unseen
  <2>1. CASE UNCHANGED leases
    BY <1>17, <2>1 DEF ClaimAges, Unseen
  <2>2. CASE \E w \in Workers : held[w] = m /\ w \notin late
    <3>1. /\ late' = late \cup {w \in Workers : held[w] = m} /\ overrun' = overrun \cup {m}
          /\ losses' = [losses EXCEPT ![m] = @ + 1]
          /\ UNCHANGED <<status, held, delivered>> /\ status[m] = "processing"
      BY <1>17, <2>2 DEF ClaimAges
    <3>2. Lease[m] # {}
      BY <2>2, Mapped
    <3>3. \A r \in Msgs : Lease'[r] = IF r = m THEN {} ELSE Lease[r]
      <4>1. ASSUME NEW r \in Msgs, NEW v
            PROVE  v \in Lease'[r] <=> v \in (IF r = m THEN {} ELSE Lease[r])
        BY <1>a, <3>1, <4>1, OnRow
      <4> QED
        BY <4>1
    <3>4. \A r \in Msgs : Past'[r] = IF r = m THEN Past[r] \cup Lease[r] ELSE Past[r]
      <4>1. ASSUME NEW r \in Msgs, NEW v
            PROVE  v \in Past'[r] <=> v \in (IF r = m THEN Past[r] \cup Lease[r] ELSE Past[r])
        BY <1>a, <3>1, <4>1, OnRow
      <4> QED
        BY <4>1
    <3>5. Lease' = [Lease EXCEPT ![m] = {}] /\ Past' = [Past EXCEPT ![m] = @ \cup Lease[m]]
      BY <3>3, <3>4, Mapped
    <3>6. \A r \in Msgs : losses'[r] = IF r = m THEN losses[r] + 1 ELSE losses[r]
      BY <1>a, <3>1 DEF TypeOK
    <3>7. Budget' = [Budget EXCEPT ![m] = @ + 1]
      BY <1>a, <3>6, BudgetGrows
    <3>8. LQ!Expire(m)
      BY <3>1, <3>2, <3>5, <3>7 DEF LQ!Expire
    <3> QED
      BY <3>8 DEF LQ!Next
  <2> QED
    BY <1>17, <2>1, <2>2 DEF ClaimAges
<1>18. ASSUME NEW c \in callbacks, CallbackEnds(c) PROVE Unseen
  BY <1>18 DEF CallbackEnds, Unseen
<1>19. ASSUME UNCHANGED vars PROVE Unseen
  BY <1>19 DEF vars, Unseen
<1>20. LQ!Next \/ Unseen
  BY <1>1, <1>2, <1>3, <1>5, <1>6, <1>8, <1>9, <1>10, <1>12, <1>13, <1>15,
     <1>16, <1>17, <1>18, <1>19 DEF Next, Cycle
<1> QED
  BY <1>20, UnseenStutters

(* The outbox, its blind updates and its timer implement the queue with    *)
(* leases that may run out.                                                *)
THEOREM Implementation == Spec => ImplementsLeasedQueue
<1>1. Init => AnswerInv
  BY DEF Init, AnswerInv, VerdictMeans, SentWasDelivered
<1>2. Typed /\ Typed' /\ AnswerInv /\ [Next]_vars => AnswerInv'
  BY AnswerStep
<1>3. Typed /\ CopiesInv => Within
  BY CopiesWithin
<1>4. Spec => []Seen
  BY <1>1, <1>2, <1>3, CopiesHold, PTL DEF Spec, Seen
<1>5. Seen /\ Seen' /\ [Next]_vars => [LQ!Next]_(LQ!vars)
  BY StepMaps
<1> QED
  BY <1>4, <1>5, InitMaps, PTL DEF Spec, ImplementsLeasedQueue, LQ!Spec
=============================================================================
