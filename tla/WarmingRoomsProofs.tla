------------------------ MODULE WarmingRoomsProofs --------------------------
(***************************************************************************)
(* Facts about warming rooms for any number of rooms, replicas, lines and  *)
(* calls: no line is skipped, a room that left ACTIVE gets one more line   *)
(* from each replica at most, and one replica alone repeats no line.       *)
(*                                                                         *)
(* They rest on what a worker carries over from before the lock.  A        *)
(* snapshot is old, but what it says was done was done (SnapshotsAreTrue); *)
(* and a room is in a batch only because it was ACTIVE when it was read,   *)
(* which pays for one late line (OneLateLine).                             *)
(***************************************************************************)
EXTENDS WarmingRooms, WellFoundedInduction, TLAPS

(* Every line up to number k of those that were there all along went out. *)
Done(r, k) == \A n \in Original(r) : n <= k => copies[r][n] > 0
Below(r, k) == \A n \in Original(r) : n < k => copies[r][n] > 0

InHand ==
    \A w \in Workers :
        /\ pc[w] \in Executing => room[w] \in batch[w]
        /\ pc[w] \in {"sending", "recording"} => line[w] \in Numbers

SnapshotsAreTrue ==
    \A r \in Rooms \ overtaken :
        /\ Done(r, sequence[r])
        /\ \A w \in Workers :
              /\ r \in batch[w] => Done(r, snapshot[w][r])
              /\ pc[w] \in {"sending", "recording"} /\ room[w] = r => Below(r, line[w])
              /\ pc[w] = "recording" /\ room[w] = r /\ result[w] = "success"
                    => copies[r][line[w]] > 0

(* w may still send a line of r without reading the room again. *)
MaySend(w, r) ==
    /\ r \in batch[w]
    /\ ~ (room[w] = r /\ pc[w] \in {"recording", "finishing", "unlocking"})

OneLateLine ==
    \A w \in Workers, r \in Rooms :
        status[r] # "ACTIVE" =>
            /\ late[w][r] <= 1
            /\ MaySend(w, r) => late[w][r] = 0

IInv == TypeOK /\ InHand /\ SnapshotsAreTrue /\ OneLateLine

(* A set of line numbers that is not empty has a least one. *)
LEMMA LeastLine ==
    ASSUME NEW S \in SUBSET Nat, S # {}
    PROVE  Min(S) \in S /\ \A m \in S : Min(S) <= m
<1>1. PICK n \in S : \A m \in S : ~ (<<m, n>> \in OpToRel(<, Nat))
  BY NatLessThanWellFounded, WFMin
<1>2. ASSUME NEW m \in S, m < n PROVE <<m, n>> \in OpToRel(<, Nat)
  BY <1>1, <1>2 DEF OpToRel
<1>3. \A m \in S : ~ (m < n)
  BY <1>1, <1>2, Zenon
<1>4. \A m \in S : n <= m
  BY <1>3
<1> QED
  BY <1>1, <1>4 DEF Min

LEMMA InvariantInit == Init => IInv
<1> SUFFICES ASSUME Init PROVE IInv
  OBVIOUS
<1> USE WarmingAssumption DEF Init
<1>1. TypeOK
  BY DEF TypeOK, Statuses, Gone, Steps, Requests, None, Numbers
<1>2. InHand
  BY DEF InHand, Executing
<1>3. SnapshotsAreTrue
  BY DEF SnapshotsAreTrue, Done, Below, Original, Numbers
<1>4. OneLateLine
  BY DEF OneLateLine
<1> QED
  BY <1>1, <1>2, <1>3, <1>4 DEF IInv

-----------------------------------------------------------------------------
(* The steps of a worker.                                                  *)

LEMMA QueryKeeps ==
    ASSUME IInv, NEW w \in Workers, Query(w)
    PROVE  IInv'
<1> USE DEF IInv
<1>1. TypeOK'
  <2>1. snapshot' \in [Workers -> [Rooms -> 0..LastLine]]
    BY WarmingAssumption DEF Query, TypeOK
  <2>2. batch' \in [Workers -> SUBSET Rooms]
    BY DEF Query, TypeOK, DueRooms
  <2> QED
    BY <2>1, <2>2 DEF Query, TypeOK, table, api
<1>2. InHand'
  BY DEF Query, TypeOK, InHand, Executing
<1>3. SnapshotsAreTrue'
  BY DEF Query, TypeOK, SnapshotsAreTrue, Done, Below, Original, DueRooms, table
<1>4. OneLateLine'
  BY DEF Query, TypeOK, OneLateLine, MaySend, DueRooms, table
<1> QED
  BY <1>1, <1>2, <1>3, <1>4

LEMMA TryLockKeeps ==
    ASSUME IInv, NEW w \in Workers, NEW r \in Rooms, TryLockRoom(w, r)
    PROVE  IInv'
<1> USE DEF IInv
<1>1. TypeOK'
  BY DEF TryLockRoom, TypeOK, Steps, table, api, history
<1>2. InHand'
  BY DEF TryLockRoom, TypeOK, InHand, Executing
<1>3. SnapshotsAreTrue'
  BY DEF TryLockRoom, TypeOK, SnapshotsAreTrue, Done, Below, Original, table, history
<1>4. OneLateLine'
  BY DEF TryLockRoom, TypeOK, OneLateLine, MaySend, table, history
<1> QED
  BY <1>1, <1>2, <1>3, <1>4

LEMMA SkipRoomKeeps ==
    ASSUME IInv, NEW w \in Workers, NEW r \in Rooms, SkipRoom(w, r)
    PROVE  IInv'
<1> USE DEF IInv
<1>1. TypeOK'
  BY WarmingAssumption DEF SkipRoom, DoneWith, Disturb, TypeOK, table, api, history
<1>2. InHand'
  BY DEF SkipRoom, DoneWith, TypeOK, InHand, Executing
<1>3. SnapshotsAreTrue'
  BY DEF SkipRoom, DoneWith, TypeOK, SnapshotsAreTrue, Done, Below, Original, table, history
<1>4. OneLateLine'
  BY DEF SkipRoom, DoneWith, TypeOK, OneLateLine, MaySend, table, history
<1> QED
  BY <1>1, <1>2, <1>3, <1>4

(* The line taken is the least above the snapshot, so what lies below it   *)
(* is what the snapshot says is done.                                      *)
LEMMA ReadLineKeeps ==
    ASSUME IInv, NEW w \in Workers, ReadLine(w)
    PROVE  IInv'
<1> USE DEF IInv
<1> DEFINE rest == Later(room[w], snapshot[w][room[w]])
<1>1. room[w] \in Rooms /\ room[w] \in batch[w]
  BY DEF ReadLine, InHand, TypeOK, Executing
<1>2. rest \subseteq Numbers /\ rest \in SUBSET Nat
  BY <1>1 DEF Later, TypeOK, Numbers
<1>3. rest # {} => Min(rest) \in rest /\ \A m \in rest : Min(rest) <= m
  BY <1>2, LeastLine
<1>4. TypeOK'
  <2>1. line' \in [Workers -> 0..LastLine]
    <3>1. CASE rest = {}
      BY <3>1 DEF ReadLine, TypeOK
    <3>2. CASE rest # {}
      <4>1. Min(rest) \in 0..LastLine
        BY <1>2, <1>3, <3>2 DEF Numbers
      <4>2. line' = [line EXCEPT ![w] = Min(rest)]
        BY <3>2 DEF ReadLine
      <4> QED
        BY <4>1, <4>2 DEF TypeOK
    <3> QED
      BY <3>1, <3>2
  <2>2. pc' \in [Workers -> Steps]
    BY DEF ReadLine, TypeOK, Steps
  <2> QED
    BY <2>1, <2>2 DEF ReadLine, TypeOK, table, api, history
<1>5. InHand'
  BY <1>1, <1>2, <1>3 DEF ReadLine, TypeOK, InHand, Executing
<1>6. SnapshotsAreTrue'
  <2>1. ASSUME room[w] \notin overtaken, rest # {} PROVE Below(room[w], Min(rest))
    <3> SUFFICES ASSUME NEW n \in Original(room[w]), n < Min(rest)
                 PROVE  copies[room[w]][n] > 0
      BY DEF Below
    <3>1. n \notin rest /\ n \in lines[room[w]] /\ n \in Nat
      BY <1>1, <1>2, <1>3, <2>1 DEF Original, TypeOK, Numbers
    <3>2. n <= snapshot[w][room[w]]
      BY <1>1, <3>1 DEF Later, TypeOK
    <3> QED
      BY <1>1, <2>1, <3>2 DEF SnapshotsAreTrue, Done
  <2> QED
    BY <1>1, <1>3, <2>1 DEF ReadLine, TypeOK, SnapshotsAreTrue, Done, Below, Original, table, history
<1>7. OneLateLine'
  BY DEF ReadLine, TypeOK, OneLateLine, MaySend, table, history
<1> QED
  BY <1>4, <1>5, <1>6, <1>7

LEMMA ReadFailsKeeps ==
    ASSUME IInv, NEW w \in Workers, ReadFails(w)
    PROVE  IInv'
<1> USE DEF IInv
<1>1. TypeOK'
  BY WarmingAssumption DEF ReadFails, Disturb, TypeOK, Steps, table, api, history
<1>2. InHand'
  BY DEF ReadFails, TypeOK, InHand, Executing
<1>3. SnapshotsAreTrue'
  BY DEF ReadFails, TypeOK, SnapshotsAreTrue, Done, Below, Original, table, history
<1>4. OneLateLine'
  BY DEF ReadFails, TypeOK, OneLateLine, MaySend, table, history
<1> QED
  BY <1>1, <1>2, <1>3, <1>4

LEMMA FinishRoomKeeps ==
    ASSUME IInv, NEW w \in Workers, FinishRoom(w)
    PROVE  IInv'
<1> USE DEF IInv
<1>1. room[w] \in Rooms
  BY DEF FinishRoom, InHand, TypeOK, Executing
<1>2. TypeOK'
  <2>1. status' \in [Rooms -> Statuses \cup Gone] /\ nextRun' \in [Rooms -> {"none", "set", "due"}]
    <3>1. CASE status' = [status EXCEPT ![room[w]] = "FINISHED"] /\ nextRun' = [nextRun EXCEPT ![room[w]] = "none"]
      BY <3>1 DEF TypeOK, Statuses
    <3>2. CASE UNCHANGED <<status, nextRun>>
      BY <3>2 DEF TypeOK
    <3> QED
      BY <3>1, <3>2 DEF FinishRoom
  <2>2. late' \in [Workers -> [Rooms -> Nat]]
    BY <1>1 DEF FinishRoom, LeaveActive, TypeOK
  <2>3. pc' \in [Workers -> Steps] /\ faults' \in 0..MaxFaults
    BY WarmingAssumption DEF FinishRoom, Disturb, TypeOK, Steps
  <2> QED
    BY <2>1, <2>2, <2>3 DEF FinishRoom, TypeOK, api
<1>3. InHand'
  BY DEF FinishRoom, TypeOK, InHand, Executing
<1>4. SnapshotsAreTrue'
  BY DEF FinishRoom, TypeOK, SnapshotsAreTrue, Done, Below, Original
<1>5. OneLateLine'
  <2> SUFFICES ASSUME NEW v \in Workers, NEW r \in Rooms, status'[r] # "ACTIVE"
               PROVE  late'[v][r] <= 1 /\ (MaySend(v, r)' => late'[v][r] = 0)
    BY DEF OneLateLine
  <2>1. MaySend(v, r)' => MaySend(v, r)
    BY DEF FinishRoom, MaySend, TypeOK
  <2>2. CASE UNCHANGED <<status, late>>
    BY <2>1, <2>2 DEF OneLateLine
  <2>3. CASE status' = [status EXCEPT ![room[w]] = "FINISHED"] /\ LeaveActive(room[w])
    <3>1. late'[v][r] = 0 \/ (late'[v][r] = late[v][r] /\ status[r] # "ACTIVE")
      BY <1>1, <2>3 DEF LeaveActive, TypeOK
    <3> QED
      BY <2>1, <3>1 DEF OneLateLine
  <2> QED
    BY <2>2, <2>3 DEF FinishRoom
<1> QED
  BY <1>2, <1>3, <1>4, <1>5

(* A copy goes out: lines gain copies only, and a worker that was owed a   *)
(* late line has had none yet.                                             *)
LEMMA GoesOutKeeps ==
    ASSUME IInv, NEW w \in Workers, pc[w] = "sending", GoesOut(w)
    PROVE  /\ copies' \in [Rooms -> [Numbers -> 0..2]] /\ late' \in [Workers -> [Rooms -> Nat]]
           /\ \A r \in Rooms, n \in Numbers : copies[r][n] > 0 => copies'[r][n] > 0
           /\ room[w] \in Rooms /\ line[w] \in Numbers /\ copies'[room[w]][line[w]] > 0
           /\ \A v \in Workers, r \in Rooms :
                 IF v = w /\ r = room[w] /\ status[r] # "ACTIVE"
                   THEN late[v][r] = 0 /\ late'[v][r] = 1 ELSE late'[v][r] = late[v][r]
<1> USE DEF IInv
<1>1. room[w] \in Rooms /\ room[w] \in batch[w] /\ line[w] \in Numbers
  BY DEF InHand, TypeOK, Executing
<1>0. \A k \in 0..2 : OneMore(k) \in 0..2 /\ OneMore(k) > 0
  BY DEF OneMore
<1>2. copies' \in [Rooms -> [Numbers -> 0..2]]
  BY <1>0, <1>1 DEF GoesOut, TypeOK
<1>8. \A r \in Rooms, n \in Numbers :
         copies'[r][n] = IF r = room[w] /\ n = line[w] THEN OneMore(copies[r][n]) ELSE copies[r][n]
  BY <1>1 DEF GoesOut, TypeOK
<1>9. \A r \in Rooms, n \in Numbers : copies[r][n] \in 0..2
  BY DEF TypeOK
<1>3. \A r \in Rooms, n \in Numbers : copies[r][n] > 0 => copies'[r][n] > 0
  BY <1>0, <1>8, <1>9
<1>4. copies'[room[w]][line[w]] > 0
  BY <1>0, <1>1, <1>8, <1>9
<1>5. late' \in [Workers -> [Rooms -> Nat]]
  BY <1>1 DEF GoesOut, TypeOK
<1>6. status[room[w]] # "ACTIVE" => late[w][room[w]] = 0
  BY <1>1 DEF OneLateLine, MaySend
<1>7. \A v \in Workers, r \in Rooms :
         IF v = w /\ r = room[w] /\ status[r] # "ACTIVE"
           THEN late[v][r] = 0 /\ late'[v][r] = 1 ELSE late'[v][r] = late[v][r]
  BY <1>1, <1>6 DEF GoesOut, TypeOK
<1> QED
  BY <1>1, <1>2, <1>3, <1>4, <1>5, <1>7

LEMMA SendSucceedsKeeps ==
    ASSUME IInv, NEW w \in Workers, SendSucceeds(w)
    PROVE  IInv'
<1> USE DEF IInv
<1>0. pc[w] = "sending" /\ GoesOut(w)
  BY DEF SendSucceeds
<1>1. TypeOK'
  BY <1>0, GoesOutKeeps DEF SendSucceeds, TypeOK, Steps, table, api
<1>2. InHand'
  BY DEF SendSucceeds, TypeOK, InHand, Executing
<1>3. SnapshotsAreTrue'
  <2> SUFFICES ASSUME NEW r \in Rooms \ overtaken
               PROVE  /\ Done(r, sequence[r])'
                      /\ \A v \in Workers :
                            /\ (r \in batch[v] => Done(r, snapshot[v][r]))'
                            /\ (pc[v] \in {"sending", "recording"} /\ room[v] = r => Below(r, line[v]))'
                            /\ (pc[v] = "recording" /\ room[v] = r /\ result[v] = "success"
                                  => copies[r][line[v]] > 0)'
    BY DEF SnapshotsAreTrue, SendSucceeds
  <2>1. \A n \in Original(r) : n \in Numbers /\ (copies[r][n] > 0 => copies'[r][n] > 0)
    BY <1>0, GoesOutKeeps DEF Original, TypeOK
  <2>2. UNCHANGED <<sequence, batch, snapshot, room, line, Original(r)>>
    BY DEF SendSucceeds, Original, table
  <2>3. Done(r, sequence[r])'
    BY <2>1, <2>2 DEF SnapshotsAreTrue, Done
  <2>4. ASSUME NEW v \in Workers PROVE (r \in batch[v] => Done(r, snapshot[v][r]))'
    BY <2>1, <2>2 DEF SnapshotsAreTrue, Done
  <2>5. ASSUME NEW v \in Workers, pc'[v] \in {"sending", "recording"}, room[v] = r PROVE Below(r, line[v])'
    <3>1. pc[v] \in {"sending", "recording"}
      BY <1>0, <2>5 DEF SendSucceeds, TypeOK
    <3> QED
      BY <2>1, <2>2, <2>5, <3>1 DEF SnapshotsAreTrue, Below
  <2>6. ASSUME NEW v \in Workers, pc'[v] = "recording", room[v] = r, result'[v] = "success"
        PROVE  copies'[r][line[v]] > 0
    <3>1. CASE v = w
      BY <1>0, <2>6, <3>1, GoesOutKeeps
    <3>2. CASE v # w
      <4>1. pc[v] = "recording" /\ result[v] = "success"
        BY <2>6, <3>2 DEF SendSucceeds, TypeOK
      <4>2. copies[r][line[v]] > 0 /\ line[v] \in Numbers
        BY <2>6, <4>1 DEF SnapshotsAreTrue, InHand
      <4> QED
        BY <1>0, <4>2, GoesOutKeeps
    <3> QED
      BY <3>1, <3>2
  <2> QED
    BY <2>2, <2>3, <2>4, <2>5, <2>6
<1>4. OneLateLine'
  <2> SUFFICES ASSUME NEW v \in Workers, NEW r \in Rooms, status[r] # "ACTIVE"
               PROVE  late'[v][r] <= 1 /\ (MaySend(v, r)' => late'[v][r] = 0)
    BY DEF OneLateLine, SendSucceeds, table
  <2>1. MaySend(v, r)' => MaySend(v, r) /\ ~ (v = w /\ r = room[w])
    BY <1>0 DEF SendSucceeds, MaySend, TypeOK
  <2>2. \/ late'[v][r] = late[v][r]
        \/ v = w /\ r = room[w] /\ late'[v][r] = 1
    BY <1>0, GoesOutKeeps
  <2> QED
    BY <2>1, <2>2 DEF OneLateLine
<1> QED
  BY <1>1, <1>2, <1>3, <1>4

LEMMA SendFailsKeeps ==
    ASSUME IInv, NEW w \in Workers, SendFails(w)
    PROVE  IInv'
<1> USE DEF IInv
<1>0. pc[w] = "sending" /\ (GoesOut(w) \/ StaysHere)
  BY DEF SendFails
<1>1. TypeOK'
  <2>1. room[w] \in Rooms
    BY <1>0 DEF InHand, TypeOK, Executing
  <2>2. copies' \in [Rooms -> [Numbers -> 0..2]] /\ late' \in [Workers -> [Rooms -> Nat]]
    BY <1>0, GoesOutKeeps DEF StaysHere, TypeOK
  <2>3. \/ trouble' = [trouble EXCEPT ![room[w]] = @ + 1]
        \/ trouble' = trouble
    BY DEF SendFails, Troubled
  <2>4. trouble' \in [Rooms -> Nat]
    <3>1. trouble \in [Rooms -> Nat] /\ trouble[room[w]] + 1 \in Nat
      BY <2>1 DEF TypeOK
    <3>2. [trouble EXCEPT ![room[w]] = @ + 1] \in [Rooms -> Nat]
      BY <3>1
    <3> QED
      BY <2>3, <3>1, <3>2
  <2>5. faults' \in 0..MaxFaults
    BY WarmingAssumption DEF SendFails, Disturb, TypeOK
  <2> QED
    BY <2>2, <2>4, <2>5 DEF SendFails, TypeOK, Steps, table, api
<1>2. InHand'
  BY DEF SendFails, TypeOK, InHand, Executing
<1>3. SnapshotsAreTrue'
  <2> SUFFICES ASSUME NEW r \in Rooms \ overtaken
               PROVE  /\ Done(r, sequence[r])'
                      /\ \A v \in Workers :
                            /\ (r \in batch[v] => Done(r, snapshot[v][r]))'
                            /\ (pc[v] \in {"sending", "recording"} /\ room[v] = r => Below(r, line[v]))'
                            /\ (pc[v] = "recording" /\ room[v] = r /\ result[v] = "success"
                                  => copies[r][line[v]] > 0)'
    BY DEF SnapshotsAreTrue, SendFails
  <2>1. \A n \in Original(r) : n \in Numbers /\ (copies[r][n] > 0 => copies'[r][n] > 0)
    BY <1>0, GoesOutKeeps DEF Original, TypeOK, StaysHere
  <2>2. UNCHANGED <<sequence, batch, snapshot, room, line, Original(r)>>
    BY DEF SendFails, Original, table
  <2>3. Done(r, sequence[r])'
    BY <2>1, <2>2 DEF SnapshotsAreTrue, Done
  <2>4. ASSUME NEW v \in Workers PROVE (r \in batch[v] => Done(r, snapshot[v][r]))'
    BY <2>1, <2>2 DEF SnapshotsAreTrue, Done
  <2>5. ASSUME NEW v \in Workers, pc'[v] \in {"sending", "recording"}, room[v] = r PROVE Below(r, line[v])'
    <3>1. pc[v] \in {"sending", "recording"}
      BY <1>0, <2>5 DEF SendFails, TypeOK
    <3> QED
      BY <2>1, <2>2, <2>5, <3>1 DEF SnapshotsAreTrue, Below
  <2>6. ASSUME NEW v \in Workers, pc'[v] = "recording", room[v] = r, result'[v] = "success"
        PROVE  copies'[r][line[v]] > 0
    <3>1. pc[v] = "recording" /\ result[v] = "success"
      BY <2>6 DEF SendFails, TypeOK
    <3>2. copies[r][line[v]] > 0 /\ line[v] \in Numbers
      BY <2>6, <3>1 DEF SnapshotsAreTrue, InHand
    <3> QED
      BY <1>0, <3>2, GoesOutKeeps DEF StaysHere
  <2> QED
    BY <2>2, <2>3, <2>4, <2>5, <2>6
<1>4. OneLateLine'
  <2> SUFFICES ASSUME NEW v \in Workers, NEW r \in Rooms, status[r] # "ACTIVE"
               PROVE  late'[v][r] <= 1 /\ (MaySend(v, r)' => late'[v][r] = 0)
    BY DEF OneLateLine, SendFails, table
  <2>1. MaySend(v, r)' => MaySend(v, r) /\ ~ (v = w /\ r = room[w])
    BY <1>0 DEF SendFails, MaySend, TypeOK
  <2> QED
    BY <1>0, <2>1, GoesOutKeeps DEF OneLateLine, StaysHere
<1> QED
  BY <1>1, <1>2, <1>3, <1>4

(* Success records a line that went out, with all below it; a failure puts *)
(* back a snapshot, which is old and true.                                 *)
LEMMA RecordKeeps ==
    ASSUME IInv, NEW w \in Workers, Record(w)
    PROVE  IInv'
<1> USE DEF IInv
<1>1. room[w] \in Rooms /\ room[w] \in batch[w] /\ line[w] \in Numbers /\ pc[w] = "recording"
  BY DEF Record, InHand, TypeOK, Executing
<1>2. TypeOK'
  <2>1. status' \in [Rooms -> Statuses \cup Gone]
    <3>1. CASE status' = [status EXCEPT ![room[w]] = "PAUSED"]
      BY <3>1 DEF TypeOK, Statuses
    <3>2. CASE UNCHANGED status
      BY <3>2 DEF TypeOK
    <3> QED
      BY <3>1, <3>2 DEF Record
  <2>2. nextRun' \in [Rooms -> {"none", "set", "due"}]
    BY DEF Record, Recorded, TypeOK
  <2>3. sequence' \in [Rooms -> 0..LastLine]
    <3>1. Progress(w) \in 0..LastLine
      BY <1>1 DEF Progress, TypeOK
    <3> QED
      BY <3>1 DEF Record, TypeOK
  <2>4. late' \in [Workers -> [Rooms -> Nat]]
    BY <1>1 DEF Record, LeaveActive, TypeOK
  <2> QED
    BY <2>1, <2>2, <2>3, <2>4 DEF Record, TypeOK, Steps, api
<1>3. InHand'
  BY DEF Record, TypeOK, InHand, Executing
<1>4. SnapshotsAreTrue'
  <2>1. ASSUME NEW r \in Rooms \ overtaken PROVE Done(r, sequence[r])'
    <3>1. Done(r, sequence[r])
      BY DEF SnapshotsAreTrue
    <3>2. r = room[w] => Done(r, Progress(w))
      <4>1. CASE result[w] = "success"
        BY <1>1, <4>1 DEF Progress, SnapshotsAreTrue, Done, Below, Original, TypeOK, Numbers
      <4>2. CASE result[w] # "success"
        BY <1>1, <4>2 DEF Progress, SnapshotsAreTrue
      <4> QED
        BY <4>1, <4>2
    <3>3. sequence'[r] = sequence[r] \/ (r = room[w] /\ sequence'[r] = Progress(w))
      BY <1>1 DEF Record, TypeOK
    <3> QED
      BY <3>1, <3>2, <3>3 DEF Record, Done, Original
  <2>2. ASSUME NEW r \in Rooms \ overtaken, NEW v \in Workers
        PROVE  /\ (r \in batch[v] => Done(r, snapshot[v][r]))'
               /\ (pc[v] \in {"sending", "recording"} /\ room[v] = r => Below(r, line[v]))'
               /\ (pc[v] = "recording" /\ room[v] = r /\ result[v] = "success"
                     => copies[r][line[v]] > 0)'
    BY DEF Record, TypeOK, SnapshotsAreTrue, Done, Below, Original
  <2> QED
    BY <2>1, <2>2 DEF SnapshotsAreTrue, Record
<1>5. OneLateLine'
  <2> SUFFICES ASSUME NEW v \in Workers, NEW r \in Rooms, status'[r] # "ACTIVE"
               PROVE  late'[v][r] <= 1 /\ (MaySend(v, r)' => late'[v][r] = 0)
    BY DEF OneLateLine
  <2>1. MaySend(v, r)' => MaySend(v, r)
    BY DEF Record, MaySend, TypeOK
  <2>2. CASE UNCHANGED <<status, late>>
    BY <2>1, <2>2 DEF OneLateLine
  <2>3. CASE status' = [status EXCEPT ![room[w]] = "PAUSED"] /\ LeaveActive(room[w])
    <3>1. late'[v][r] = 0 \/ (late'[v][r] = late[v][r] /\ status[r] # "ACTIVE")
      BY <1>1, <2>3 DEF LeaveActive, TypeOK
    <3> QED
      BY <2>1, <3>1 DEF OneLateLine
  <2> QED
    BY <2>2, <2>3 DEF Record
<1> QED
  BY <1>2, <1>3, <1>4, <1>5

LEMMA RecordFailsKeeps ==
    ASSUME IInv, NEW w \in Workers, RecordFails(w)
    PROVE  IInv'
<1> USE DEF IInv
<1>1. TypeOK'
  <2>1. room[w] \in Rooms
    BY DEF RecordFails, InHand, TypeOK, Executing
  <2> QED
    BY <2>1, WarmingAssumption DEF RecordFails, Disturb, Troubled, TypeOK, Steps, table, api
<1>2. InHand'
  BY DEF RecordFails, TypeOK, InHand, Executing
<1>3. SnapshotsAreTrue'
  BY DEF RecordFails, TypeOK, SnapshotsAreTrue, Done, Below, Original, table
<1>4. OneLateLine'
  BY DEF RecordFails, TypeOK, OneLateLine, MaySend, table
<1> QED
  BY <1>1, <1>2, <1>3, <1>4

LEMMA UnlockRoomKeeps ==
    ASSUME IInv, NEW w \in Workers, UnlockRoom(w)
    PROVE  IInv'
<1> USE DEF IInv
<1>1. TypeOK'
  BY WarmingAssumption DEF UnlockRoom, DoneWith, Forget, Freed, TypeOK, Steps, table, api, history
<1>2. InHand'
  BY DEF UnlockRoom, DoneWith, Forget, TypeOK, InHand, Executing
<1>3. SnapshotsAreTrue'
  BY DEF UnlockRoom, DoneWith, Forget, TypeOK, SnapshotsAreTrue, Done, Below, Original, table, history
<1>4. OneLateLine'
  BY DEF UnlockRoom, DoneWith, Forget, TypeOK, OneLateLine, MaySend, table, history
<1> QED
  BY <1>1, <1>2, <1>3, <1>4

LEMMA CrashKeeps ==
    ASSUME IInv, NEW w \in Workers, Crash(w)
    PROVE  IInv'
<1> USE DEF IInv
<1>0. (pc[w] = "sending" /\ GoesOut(w)) \/ StaysHere
  BY DEF Crash, StaysHere
<1>1. TypeOK'
  <2>1. copies' \in [Rooms -> [Numbers -> 0..2]] /\ late' \in [Workers -> [Rooms -> Nat]]
    BY <1>0, GoesOutKeeps DEF StaysHere, TypeOK
  <2>2. trouble' \in [Rooms -> Nat]
    <3>1. pc[w] \in {"sending", "recording"} => room[w] \in Rooms
      BY DEF InHand, TypeOK, Executing
    <3> QED
      BY <3>1 DEF Crash, Troubled, TypeOK
  <2>3. faults' \in 0..MaxFaults /\ pc' \in [Workers -> Steps]
    BY WarmingAssumption DEF Crash, Disturb, TypeOK, Steps
  <2>4. /\ batch' \in [Workers -> SUBSET Rooms] /\ snapshot' \in [Workers -> [Rooms -> 0..LastLine]]
        /\ room' \in [Workers -> Rooms \cup {NoRoom}] /\ line' \in [Workers -> 0..LastLine]
        /\ result' \in [Workers -> {"none", "success", "failed", "offline"}]
        /\ lock' \in [Rooms -> Workers \cup {NoWorker}]
    BY WarmingAssumption DEF Crash, Forget, Freed, TypeOK
  <2> QED
    BY <2>1, <2>2, <2>3, <2>4 DEF Crash, TypeOK, table, api
<1>2. InHand'
  BY DEF Crash, Forget, TypeOK, InHand, Executing
<1>3. SnapshotsAreTrue'
  <2>1. \A r \in Rooms, n \in Numbers : copies[r][n] > 0 => copies'[r][n] > 0
    BY <1>0, GoesOutKeeps DEF StaysHere
  <2>2. \A v \in Workers :
           IF v = w THEN batch'[v] = {} /\ pc'[v] = "down"
           ELSE /\ batch'[v] = batch[v] /\ snapshot'[v] = snapshot[v] /\ pc'[v] = pc[v]
                /\ room'[v] = room[v] /\ line'[v] = line[v] /\ result'[v] = result[v]
    BY DEF Crash, Forget, TypeOK
  <2>3. \A r \in Rooms : Original(r)' = Original(r) /\ Original(r) \subseteq Numbers
    BY DEF Crash, Original, TypeOK
  <2>4. UNCHANGED <<sequence, overtaken>>
    BY DEF Crash, table
  <2>5. ASSUME NEW r \in Rooms \ overtaken PROVE Done(r, sequence[r])'
    BY <2>1, <2>3, <2>4 DEF SnapshotsAreTrue, Done
  <2>6. ASSUME NEW r \in Rooms \ overtaken, NEW v \in Workers
        PROVE  /\ (r \in batch[v] => Done(r, snapshot[v][r]))'
               /\ (pc[v] \in {"sending", "recording"} /\ room[v] = r => Below(r, line[v]))'
    BY <2>1, <2>2, <2>3 DEF SnapshotsAreTrue, Done, Below
  <2>7. ASSUME NEW r \in Rooms \ overtaken, NEW v \in Workers
        PROVE  (pc[v] = "recording" /\ room[v] = r /\ result[v] = "success" => copies[r][line[v]] > 0)'
    BY <2>1, <2>2 DEF SnapshotsAreTrue, InHand
  <2> QED
    BY <2>4, <2>5, <2>6, <2>7 DEF SnapshotsAreTrue
<1>4. OneLateLine'
  <2> SUFFICES ASSUME NEW v \in Workers, NEW r \in Rooms, status[r] # "ACTIVE"
               PROVE  late'[v][r] <= 1 /\ (MaySend(v, r)' => late'[v][r] = 0)
    BY DEF OneLateLine, Crash, table
  <2>1. v # w => (MaySend(v, r)' => MaySend(v, r))
    BY DEF Crash, Forget, MaySend, TypeOK
  <2>2. v = w => ~ MaySend(v, r)'
    BY DEF Crash, MaySend, TypeOK
  <2>3. \/ late'[v][r] = late[v][r]
        \/ v = w /\ late'[v][r] = 1
    BY <1>0, GoesOutKeeps DEF StaysHere
  <2> QED
    BY <2>1, <2>2, <2>3 DEF OneLateLine
<1> QED
  BY <1>1, <1>2, <1>3, <1>4

LEMMA RestartKeeps ==
    ASSUME IInv, NEW w \in Workers, Restart(w)
    PROVE  IInv'
<1> USE DEF IInv
<1>1. TypeOK'
  BY DEF Restart, TypeOK, Steps, table, api, history
<1>2. InHand'
  BY DEF Restart, TypeOK, InHand, Executing
<1>3. SnapshotsAreTrue'
  BY DEF Restart, TypeOK, SnapshotsAreTrue, Done, Below, Original, table, history
<1>4. OneLateLine'
  BY DEF Restart, TypeOK, OneLateLine, MaySend, table, history
<1> QED
  BY <1>1, <1>2, <1>3, <1>4

-----------------------------------------------------------------------------
(* The interval and the API.                                               *)

LEMMA ElapseKeeps ==
    ASSUME IInv, NEW r \in Rooms, Elapse(r)
    PROVE  IInv'
<1> USE DEF IInv
<1>1. TypeOK'
  BY DEF Elapse, TypeOK, worker, api, history
<1>2. InHand' /\ SnapshotsAreTrue' /\ OneLateLine'
  BY DEF Elapse, InHand, SnapshotsAreTrue, Done, Below, Original, OneLateLine, MaySend, worker, history
<1> QED
  BY <1>1, <1>2

LEMMA CreateRoomKeeps ==
    ASSUME IInv, NEW r \in Rooms, CreateRoom(r)
    PROVE  IInv'
<1> USE DEF IInv
<1>1. TypeOK'
  BY WarmingAssumption DEF CreateRoom, Call, TypeOK, Statuses, worker, history
<1>2. InHand' /\ SnapshotsAreTrue'
  BY DEF CreateRoom, InHand, SnapshotsAreTrue, Done, Below, Original, worker, history
<1>3. OneLateLine'
  BY DEF CreateRoom, TypeOK, OneLateLine, MaySend, worker, history
<1> QED
  BY <1>1, <1>2, <1>3

LEMMA BeginStatusKeeps ==
    ASSUME IInv, NEW r \in Rooms, NEW to \in Statuses, BeginStatus(r, to)
    PROVE  IInv'
<1> USE DEF IInv
<1>1. TypeOK'
  BY WarmingAssumption DEF BeginStatus, Call, TypeOK, Requests, table, worker, history
<1>2. InHand' /\ SnapshotsAreTrue' /\ OneLateLine'
  BY DEF BeginStatus, InHand, SnapshotsAreTrue, Done, Below, Original, OneLateLine, MaySend,
         table, worker, history
<1> QED
  BY <1>1, <1>2

(* A step that takes a room out of ACTIVE starts its count of late lines   *)
(* at zero; a room that was out before keeps its count.                    *)
LEMMA LeaveActiveKeeps ==
    ASSUME IInv, NEW r \in Rooms, NEW to, LeaveActive(r),
           status' = [status EXCEPT ![r] = to], UNCHANGED <<pc, batch, room>>
    PROVE  OneLateLine' /\ late' \in [Workers -> [Rooms -> Nat]]
<1> USE DEF IInv
<1>1. late' \in [Workers -> [Rooms -> Nat]]
  BY DEF LeaveActive, TypeOK
<1>2. ASSUME NEW v \in Workers, NEW q \in Rooms, status'[q] # "ACTIVE"
      PROVE  late'[v][q] <= 1 /\ (MaySend(v, q)' => late'[v][q] = 0)
  <2>1. late'[v][q] = 0 \/ (late'[v][q] = late[v][q] /\ status[q] # "ACTIVE")
    BY <1>2 DEF LeaveActive, TypeOK
  <2> QED
    BY <2>1 DEF OneLateLine, MaySend
<1> QED
  BY <1>1, <1>2 DEF OneLateLine

LEMMA FinishStatusKeeps ==
    ASSUME IInv, NEW q \in requests, FinishStatus(q)
    PROVE  IInv'
<1> USE DEF IInv
<1>1. q.room \in Rooms /\ q.to \in Statuses
  BY DEF TypeOK, Requests
<1>2. CASE Exists(q.room)
  <2>1. OneLateLine' /\ late' \in [Workers -> [Rooms -> Nat]]
    BY <1>1, <1>2, LeaveActiveKeeps DEF FinishStatus, worker
  <2>2. TypeOK'
    BY <1>1, <1>2, <2>1 DEF FinishStatus, TypeOK, worker
  <2>3. InHand' /\ SnapshotsAreTrue'
    BY <1>2 DEF FinishStatus, InHand, SnapshotsAreTrue, Done, Below, Original, worker
  <2> QED
    BY <2>1, <2>2, <2>3
<1>3. CASE ~ Exists(q.room)
  <2>1. TypeOK'
    BY <1>3 DEF FinishStatus, TypeOK, worker
  <2>2. InHand' /\ SnapshotsAreTrue' /\ OneLateLine'
    BY <1>3 DEF FinishStatus, InHand, SnapshotsAreTrue, Done, Below, Original, OneLateLine, MaySend, worker
  <2> QED
    BY <2>1, <2>2
<1> QED
  BY <1>2, <1>3

(* A new run starts from zero; a room that a worker still carries from the *)
(* old run is overtaken.                                                   *)
LEMMA RestartRoomKeeps ==
    ASSUME IInv, NEW r \in Rooms, RestartRoom(r)
    PROVE  IInv'
<1> USE DEF IInv
<1>1. TypeOK'
  <2>1. copies' \in [Rooms -> [Numbers -> 0..2]]
    BY DEF RestartRoom, None, TypeOK
  <2>2. overtaken' \in SUBSET Rooms
    BY DEF RestartRoom, TypeOK
  <2>3. status' \in [Rooms -> Statuses \cup Gone] /\ sequence' \in [Rooms -> 0..LastLine]
    BY WarmingAssumption DEF RestartRoom, TypeOK, Statuses
  <2>4. added' \in [Rooms -> SUBSET Numbers] /\ trouble' \in [Rooms -> Nat]
    BY DEF RestartRoom, TypeOK
  <2>5. nextRun' \in [Rooms -> {"none", "set", "due"}] /\ calls' \in 0..MaxCalls
    BY WarmingAssumption DEF RestartRoom, Call, TypeOK
  <2> QED
    BY <2>1, <2>2, <2>3, <2>4, <2>5 DEF RestartRoom, TypeOK, worker
<1>2. InHand'
  BY DEF RestartRoom, InHand, worker
<1>3. SnapshotsAreTrue'
  <2> SUFFICES ASSUME NEW q \in Rooms \ overtaken'
               PROVE  /\ Done(q, sequence[q])'
                      /\ \A w \in Workers :
                            /\ (q \in batch[w] => Done(q, snapshot[w][q]))'
                            /\ (pc[w] \in {"sending", "recording"} /\ room[w] = q => Below(q, line[w]))'
                            /\ (pc[w] = "recording" /\ room[w] = q /\ result[w] = "success"
                                  => copies[q][line[w]] > 0)'
    BY DEF SnapshotsAreTrue
  <2>1. CASE q = r
    <3>1. \A w \in Workers : r \notin batch[w]
      BY <2>1 DEF RestartRoom, TypeOK
    <3>2. \A w \in Workers : pc[w] \in {"sending", "recording"} => room[w] # r
      BY <3>1 DEF InHand, Executing
    <3>3. Done(r, sequence[r])'
      BY DEF RestartRoom, Done, Original, TypeOK, Numbers
    <3> QED
      BY <2>1, <3>1, <3>2, <3>3 DEF RestartRoom, worker
  <2>2. CASE q # r
    <3>1. q \notin overtaken
      BY <2>2 DEF RestartRoom
    <3>2. copies'[q] = copies[q] /\ Original(q)' = Original(q) /\ sequence'[q] = sequence[q]
      BY <2>2 DEF RestartRoom, Original, TypeOK
    <3> QED
      BY <3>1, <3>2 DEF RestartRoom, SnapshotsAreTrue, Done, Below, worker
  <2> QED
    BY <2>1, <2>2
<1>4. OneLateLine'
  BY DEF RestartRoom, TypeOK, OneLateLine, MaySend, worker
<1> QED
  BY <1>1, <1>2, <1>3, <1>4

LEMMA DeleteRoomKeeps ==
    ASSUME IInv, NEW r \in Rooms, DeleteRoom(r)
    PROVE  IInv'
<1> USE DEF IInv
<1>1. OneLateLine' /\ late' \in [Workers -> [Rooms -> Nat]]
  BY LeaveActiveKeeps DEF DeleteRoom, worker
<1>2. TypeOK'
  BY <1>1, WarmingAssumption DEF DeleteRoom, Call, TypeOK, Gone, worker
<1>3. InHand' /\ SnapshotsAreTrue'
  BY DEF DeleteRoom, InHand, SnapshotsAreTrue, Done, Below, Original, worker
<1> QED
  BY <1>1, <1>2, <1>3

(* Edits only take lines away from those that were there all along.        *)
LEMMA EditLinesKeeps ==
    ASSUME IInv, NEW r \in Rooms, NEW L \in SUBSET Numbers, NEW M \in SUBSET Numbers, EditLines(r, L, M)
    PROVE  IInv'
<1> USE DEF IInv
<1>1. TypeOK'
  BY WarmingAssumption DEF EditLines, Call, TypeOK, table, worker
<1>2. \A q \in Rooms : Original(q)' \subseteq Original(q)
  BY DEF EditLines, Original, TypeOK
<1>3. InHand' /\ OneLateLine'
  BY DEF EditLines, InHand, OneLateLine, MaySend, table, worker
<1>4. SnapshotsAreTrue'
  BY <1>2 DEF EditLines, SnapshotsAreTrue, Done, Below, table, worker
<1> QED
  BY <1>1, <1>3, <1>4

-----------------------------------------------------------------------------
LEMMA StutterKeeps == IInv /\ UNCHANGED vars => IInv'
BY DEF IInv, TypeOK, InHand, SnapshotsAreTrue, Done, Below, Original, OneLateLine, MaySend,
       vars, table, worker, api, history

LEMMA StepKeeps == IInv /\ [Next]_vars => IInv'
<1> SUFFICES ASSUME IInv, Next PROVE IInv'
  BY StutterKeeps
<1>1. ASSUME NEW w \in Workers, Tick(w) PROVE IInv'
  BY <1>1, QueryKeeps, TryLockKeeps, SkipRoomKeeps, ReadLineKeeps, ReadFailsKeeps, FinishRoomKeeps,
     SendSucceedsKeeps, SendFailsKeeps, RecordKeeps, RecordFailsKeeps, UnlockRoomKeeps DEF Tick
<1>2. ASSUME NEW r \in Rooms, NEW L \in SUBSET Numbers, NEW M \in SUBSET Numbers, EditLines(r, L, M)
      PROVE  IInv'
  BY <1>2, EditLinesKeeps
<1> QED
  BY <1>1, <1>2, CrashKeeps, RestartKeeps, ElapseKeeps, CreateRoomKeeps, RestartRoomKeeps,
     DeleteRoomKeeps, BeginStatusKeeps, FinishStatusKeeps DEF Next

THEOREM Invariant == Spec => []IInv
BY InvariantInit, StepKeeps, PTL DEF Spec

(* The types hold in every behaviour; what a worker executes is in its     *)
(* batch, and what it sends is a line (processActiveRooms, executeRoom).   *)
THEOREM TypesHold == Spec => []TypeOK
BY Invariant, PTL DEF IInv

(* No replica that works from an old copy of a room makes its progress     *)
(* pass a line that did not go out (executeRoom, UpdateRoomProgress).      *)
THEOREM NothingSkipped == Spec => []NoLineSkipped
<1>1. IInv => NoLineSkipped
  BY DEF IInv, SnapshotsAreTrue, Done, NoLineSkipped
<1> QED
  BY <1>1, Invariant, PTL

(* After a room has left ACTIVE each replica sends one more line of it at  *)
(* most (GetActiveRoomsForWorker, UpdateRoomStatus).                       *)
THEOREM LateSendsAreBounded == Spec => []LateSendsBounded
<1>1. IInv => LateSendsBounded
  BY DEF IInv, OneLateLine, LateSendsBounded
<1> QED
  BY <1>1, Invariant, PTL
-----------------------------------------------------------------------------
(* One worker.  What has gone out of a room's script in this run is what   *)
(* the row says, or the line whose outcome the worker is about to record;  *)
(* a copy of the row that it will still work from says no less.            *)
Accounted(r, k) == \A n \in Numbers : copies[r][n] > 0 => n <= k

Sent(w, r) == room[w] = r /\ pc[w] = "recording" /\ result[w] = "success"
Over(w, r) == room[w] = r /\ pc[w] \in {"finishing", "unlocking"}

(* While nothing was lost: once each, on record, and known to the worker.  *)
OnceEach(r) ==
    /\ \A n \in Numbers : copies[r][n] <= 1
    /\ \/ status[r] = "deleted" \/ Accounted(r, sequence[r])
       \/ \E w \in Workers : Sent(w, r)
    /\ \A w \in Workers : r \in batch[w] =>
          \/ Sent(w, r) /\ Accounted(r, line[w])
          \/ ~Sent(w, r) /\ (Over(w, r) \/ Accounted(r, snapshot[w][r]))

Once  == \A r \in Rooms : trouble[r] = 0 => OnceEach(r)
Ahead == \A w \in Workers : pc[w] = "sending" => snapshot[w][room[w]] < line[w]
Known == \A w \in Workers : \A r \in batch[w] : status[r] # "absent"

OnceInv == Once /\ Ahead /\ Known

(* A step that leaves alone all that OnceEach(r) speaks of. *)
Same(r) ==
    /\ copies'[r] = copies[r] /\ sequence'[r] = sequence[r] /\ trouble[r] = 0
    /\ status[r] = "deleted" => status'[r] = "deleted"
    /\ \A w \in Workers :
          /\ Sent(w, r)' <=> Sent(w, r)
          /\ r \in batch'[w] => /\ r \in batch[w] /\ snapshot'[w][r] = snapshot[w][r]
                                /\ Over(w, r) => Over(w, r)'
                                /\ Sent(w, r) => line'[w] = line[w]

LEMMA SameKeeps ==
    ASSUME NEW r \in Rooms, Once, Same(r)
    PROVE  OnceEach(r)'
<1>1. OnceEach(r)
  BY DEF Once, Same
<1>2. /\ \A n \in Numbers : copies'[r][n] <= 1
      /\ \A k : Accounted(r, k) => \A n \in Numbers : copies'[r][n] > 0 => n <= k
  BY <1>1 DEF OnceEach, Same, Accounted
<1>3. \/ status'[r] = "deleted" \/ \A n \in Numbers : copies'[r][n] > 0 => n <= sequence'[r]
      \/ \E w \in Workers : Sent(w, r)'
  BY <1>1, <1>2 DEF OnceEach, Same
<1>4. ASSUME NEW w \in Workers, r \in batch'[w]
      PROVE  \/ Sent(w, r)' /\ \A n \in Numbers : copies'[r][n] > 0 => n <= line'[w]
             \/ /\ ~Sent(w, r)'
                /\ Over(w, r)' \/ \A n \in Numbers : copies'[r][n] > 0 => n <= snapshot'[w][r]
  BY <1>1, <1>2, <1>4 DEF OnceEach, Same
<1> QED
  BY <1>2, <1>3, <1>4 DEF OnceEach, Accounted

LEMMA OnceStep ==
    ASSUME \A v, w \in Workers : v = w, TypeOK, InHand, OnceInv, [Next]_vars
    PROVE  OnceInv'
<1> USE DEF TypeOK, InHand, Executing, OnceInv, Numbers, table, worker, api, history
<1>1. ASSUME NEW w \in Workers, Query(w) PROVE OnceInv'
  <2>1. Once'
    <3> SUFFICES ASSUME NEW r \in Rooms, trouble'[r] = 0 PROVE OnceEach(r)'
      BY DEF Once
    <3>1. CASE r \notin batch'[w]
      <4>1. Same(r)
        BY <1>1, <3>1 DEF Query, Same, Sent, Over
      <4> QED
        BY <4>1, SameKeeps
    <3>2. CASE r \in batch'[w]
      <4>1. OnceEach(r) /\ r \in DueRooms /\ pc[w] = "ready" /\ snapshot'[w][r] = sequence[r]
        BY <1>1, <3>2 DEF Query, Once
      <4>2. \A v \in Workers : v = w /\ ~Sent(v, r) /\ ~Sent(v, r)'
        BY <1>1, <4>1 DEF Query, Sent
      <4>3. Accounted(r, sequence[r]) /\ \A n \in Numbers : copies[r][n] <= 1
        BY <4>1, <4>2 DEF OnceEach, DueRooms
      <4>4. copies'[r] = copies[r] /\ sequence'[r] = sequence[r]
        BY <1>1 DEF Query
      <4>5. \A k : Accounted(r, k) => \A n \in Numbers : copies'[r][n] > 0 => n <= k
        BY <4>4 DEF Accounted
      <4> QED
        BY <4>1, <4>2, <4>3, <4>4, <4>5 DEF OnceEach, Accounted
    <3> QED
      BY <3>1, <3>2
  <2>2. Ahead' /\ Known'
    BY <1>1 DEF Query, DueRooms, Ahead, Known
  <2> QED
    BY <2>1, <2>2
<1>2. ASSUME NEW w \in Workers, NEW r \in Rooms, TryLockRoom(w, r) PROVE OnceInv'
  <2>1. Once'
    <3> SUFFICES ASSUME NEW x \in Rooms, trouble'[x] = 0 PROVE OnceEach(x)'
      BY DEF Once
    <3>1. Same(x)
      BY <1>2 DEF TryLockRoom, Same, Sent, Over
    <3> QED
      BY <3>1, SameKeeps
  <2>2. Ahead' /\ Known'
    BY <1>2 DEF TryLockRoom, Ahead, Known
  <2> QED
    BY <2>1, <2>2
<1>3. ASSUME NEW w \in Workers, NEW r \in Rooms, SkipRoom(w, r) PROVE OnceInv'
  <2>1. Once'
    <3> SUFFICES ASSUME NEW x \in Rooms, trouble'[x] = 0 PROVE OnceEach(x)'
      BY DEF Once
    <3>1. Same(x)
      BY <1>3 DEF SkipRoom, DoneWith, Same, Sent, Over
    <3> QED
      BY <3>1, SameKeeps
  <2>2. Ahead' /\ Known'
    BY <1>3 DEF SkipRoom, DoneWith, Ahead, Known
  <2> QED
    BY <2>1, <2>2
<1>4. ASSUME NEW w \in Workers, ReadLine(w) PROVE OnceInv'
  <2>1. Once'
    <3> SUFFICES ASSUME NEW r \in Rooms, trouble'[r] = 0 PROVE OnceEach(r)'
      BY DEF Once
    <3>1. Same(r)
      BY <1>4 DEF ReadLine, Same, Sent, Over
    <3> QED
      BY <3>1, SameKeeps
  <2>2. Ahead'
    <3>1. ASSUME pc'[w] = "sending" PROVE snapshot'[w][room'[w]] < line'[w]
      <4> DEFINE rest == Later(room[w], snapshot[w][room[w]])
      <4>1. rest # {} /\ rest \in SUBSET Nat /\ line'[w] = Min(rest)
        BY <1>4, <3>1 DEF ReadLine, Later
      <4>2. Min(rest) \in rest
        BY <4>1, LeastLine
      <4> QED
        BY <1>4, <4>1, <4>2 DEF ReadLine, Later
    <3> QED
      BY <1>4, <3>1 DEF ReadLine, Ahead
  <2>3. Known'
    BY <1>4 DEF ReadLine, Known
  <2> QED
    BY <2>1, <2>2, <2>3
<1>5. ASSUME NEW w \in Workers, ReadFails(w) PROVE OnceInv'
  <2>1. Once'
    <3> SUFFICES ASSUME NEW r \in Rooms, trouble'[r] = 0 PROVE OnceEach(r)'
      BY DEF Once
    <3>1. Same(r)
      BY <1>5 DEF ReadFails, Same, Sent, Over
    <3> QED
      BY <3>1, SameKeeps
  <2>2. Ahead' /\ Known'
    BY <1>5 DEF ReadFails, Ahead, Known
  <2> QED
    BY <2>1, <2>2
<1>6. ASSUME NEW w \in Workers, FinishRoom(w) PROVE OnceInv'
  <2>1. Once'
    <3> SUFFICES ASSUME NEW r \in Rooms, trouble'[r] = 0 PROVE OnceEach(r)'
      BY DEF Once
    <3>1. Same(r)
      BY <1>6 DEF FinishRoom, Exists, Gone, Same, Sent, Over
    <3> QED
      BY <3>1, SameKeeps
  <2>2. Ahead' /\ Known'
    BY <1>6 DEF FinishRoom, Exists, Gone, Ahead, Known
  <2> QED
    BY <2>1, <2>2
<1>7. ASSUME NEW w \in Workers, SendSucceeds(w) PROVE OnceInv'
  <2>1. Once'
    <3> SUFFICES ASSUME NEW r \in Rooms, trouble'[r] = 0 PROVE OnceEach(r)'
      BY DEF Once
    <3>1. CASE r # room[w]
      <4>1. Same(r)
        BY <1>7, <3>1 DEF SendSucceeds, GoesOut, Same, Sent, Over
      <4> QED
        BY <4>1, SameKeeps
    <3>2. CASE r = room[w]
      <4>1. /\ OnceEach(r) /\ r \in batch[w] /\ pc[w] = "sending" /\ line[w] \in Numbers
            /\ snapshot[w][r] < line[w] /\ snapshot[w][r] \in Nat
        BY <1>7, <3>2 DEF SendSucceeds, Once, Ahead
      <4>2. Accounted(r, snapshot[w][r]) /\ \A n \in Numbers : copies[r][n] <= 1
        BY <4>1 DEF OnceEach, Sent, Over
      <4>t. Numbers \in SUBSET Nat /\ \A n \in Numbers : copies[r][n] \in 0..2
        <5>1. Numbers \in SUBSET Nat
          BY WarmingAssumption DEF Numbers
        <5>2. copies[r] \in [Numbers -> 0..2]
          BY DEF TypeOK
        <5> QED
          BY <5>1, <5>2
      <4>3. copies[r][line[w]] = 0
        <5>1. copies[r][line[w]] > 0 => line[w] <= snapshot[w][r]
          BY <4>1, <4>2 DEF Accounted
        <5>2. line[w] \in Nat /\ copies[r][line[w]] \in 0..2
          BY <4>1, <4>t
        <5> QED
          BY <4>1, <5>1, <5>2
      <4>4. \A n \in Numbers : copies'[r][n] = IF n = line[w] THEN 1 ELSE copies[r][n]
        BY <1>7, <3>2, <4>3 DEF SendSucceeds, GoesOut, OneMore
      <4>5. \A n \in Numbers : copies'[r][n] <= 1 /\ (copies'[r][n] > 0 => n <= line[w])
        <5> SUFFICES ASSUME NEW n \in Numbers
                     PROVE  copies'[r][n] <= 1 /\ (copies'[r][n] > 0 => n <= line[w])
          OBVIOUS
        <5>1. n \in Nat /\ line[w] \in Nat /\ copies[r][n] <= 1
          BY <4>1, <4>2, <4>t
        <5>2. copies[r][n] > 0 => n <= snapshot[w][r]
          BY <4>2 DEF Accounted
        <5>3. snapshot[w][r] \in Nat /\ snapshot[w][r] < line[w]
          BY <4>1
        <5>4. CASE n = line[w]
          BY <4>4, <5>1, <5>4
        <5>5. CASE n # line[w]
          <6>1. copies'[r][n] = copies[r][n]
            BY <4>4, <5>5
          <6>2. n <= snapshot[w][r] => n <= line[w]
            BY <5>1, <5>3
          <6> QED
            BY <5>1, <5>2, <6>1, <6>2
        <5> QED
          BY <5>4, <5>5
      <4>6. \A v \in Workers : v = w /\ Sent(v, r)' /\ line'[v] = line[w]
        BY <1>7, <3>2 DEF SendSucceeds, Sent
      <4> QED
        BY <4>5, <4>6 DEF OnceEach, Accounted
    <3> QED
      BY <3>1, <3>2
  <2>2. Ahead' /\ Known'
    BY <1>7 DEF SendSucceeds, GoesOut, OneMore, Ahead, Known
  <2> QED
    BY <2>1, <2>2
<1>8. ASSUME NEW w \in Workers, SendFails(w) PROVE OnceInv'
  <2>1. Once'
    <3> SUFFICES ASSUME NEW r \in Rooms, trouble'[r] = 0 PROVE OnceEach(r)'
      BY DEF Once
    <3>1. CASE r # room[w]
      <4>1. Same(r)
        BY <1>8, <3>1 DEF SendFails, GoesOut, StaysHere, Troubled, Same, Sent, Over
      <4> QED
        BY <4>1, SameKeeps
    <3>2. CASE r = room[w]
      <4>1. UNCHANGED <<trouble, copies, sequence, status, batch, snapshot, room, line>>
        BY <1>8, <3>2 DEF SendFails, StaysHere, Troubled
      <4>2. pc[w] = "sending" /\ result'[w] # "success"
        BY <1>8 DEF SendFails
      <4>3. Same(r)
        BY <1>8, <3>2, <4>1, <4>2 DEF SendFails, Same, Sent, Over
      <4> QED
        BY <4>3, SameKeeps
    <3> QED
      BY <3>1, <3>2
  <2>2. Ahead' /\ Known'
    BY <1>8 DEF SendFails, GoesOut, OneMore, StaysHere, Troubled, Ahead, Known
  <2> QED
    BY <2>1, <2>2
<1>9. ASSUME NEW w \in Workers, Record(w) PROVE OnceInv'
  <2>1. Once'
    <3> SUFFICES ASSUME NEW r \in Rooms, trouble'[r] = 0 PROVE OnceEach(r)'
      BY DEF Once
    <3>1. CASE r # room[w]
      <4>1. Same(r)
        BY <1>9, <3>1 DEF Record, Exists, Gone, Same, Sent, Over
      <4> QED
        BY <4>1, SameKeeps
    <3>2. CASE r = room[w]
      <4>1. /\ OnceEach(r) /\ r \in batch[w] /\ pc[w] = "recording" /\ copies'[r] = copies[r]
            /\ status[r] # "absent"
        BY <1>9, <3>2 DEF Record, Once, Known
      <4>2. \A v \in Workers : v = w /\ Over(v, r)' /\ ~Sent(v, r)' /\ ~Over(v, r)
        BY <1>9, <3>2 DEF Record, Over, Sent
      <4>3. \/ status'[r] = "deleted"
            \/ \A n \in Numbers : copies[r][n] > 0 => n <= sequence'[r]
        <5>1. CASE status[r] = "deleted"
          BY <1>9, <3>2, <5>1 DEF Record, Exists, Gone
        <5>2. CASE status[r] # "deleted" /\ Sent(w, r)
          <6>1. Accounted(r, line[w]) /\ sequence'[r] = line[w]
            BY <1>9, <3>2, <4>1, <4>2, <5>2 DEF Record, Exists, Gone, Progress, OnceEach, Sent
          <6> QED
            BY <6>1 DEF Accounted
        <5>3. CASE status[r] # "deleted" /\ ~Sent(w, r)
          <6>1. Accounted(r, snapshot[w][r]) /\ Accounted(r, sequence[r])
            BY <4>1, <4>2, <5>3 DEF OnceEach
          <6>2. sequence'[r] = sequence[r] \/ sequence'[r] = snapshot[w][r]
            BY <1>9, <3>2, <4>1, <5>3 DEF Record, Progress, Sent
          <6> QED
            BY <6>1, <6>2 DEF Accounted
        <5> QED
          BY <5>1, <5>2, <5>3
      <4>4. \A n \in Numbers : copies[r][n] <= 1
        BY <4>1 DEF OnceEach
      <4> QED
        BY <4>1, <4>2, <4>3, <4>4 DEF OnceEach, Accounted
    <3> QED
      BY <3>1, <3>2
  <2>2. Ahead' /\ Known'
    BY <1>9 DEF Record, Recorded, Progress, Exists, Gone, Ahead, Known
  <2> QED
    BY <2>1, <2>2
<1>10. ASSUME NEW w \in Workers, RecordFails(w) PROVE OnceInv'
  <2>1. Once'
    <3> SUFFICES ASSUME NEW r \in Rooms, trouble'[r] = 0 PROVE OnceEach(r)'
      BY DEF Once
    <3>1. Same(r)
      BY <1>10 DEF RecordFails, Troubled, Same, Sent, Over
    <3> QED
      BY <3>1, SameKeeps
  <2>2. Ahead' /\ Known'
    BY <1>10 DEF RecordFails, Troubled, Ahead, Known
  <2> QED
    BY <2>1, <2>2
<1>11. ASSUME NEW w \in Workers, UnlockRoom(w) PROVE OnceInv'
  <2>1. Once'
    <3> SUFFICES ASSUME NEW r \in Rooms, trouble'[r] = 0 PROVE OnceEach(r)'
      BY DEF Once
    <3>1. Same(r)
      BY <1>11 DEF UnlockRoom, DoneWith, Forget, Same, Sent, Over
    <3> QED
      BY <3>1, SameKeeps
  <2>2. Ahead' /\ Known'
    BY <1>11 DEF UnlockRoom, DoneWith, Forget, Ahead, Known
  <2> QED
    BY <2>1, <2>2
<1>12. ASSUME NEW w \in Workers, Crash(w) PROVE OnceInv'
  <2>1. Once'
    <3> SUFFICES ASSUME NEW r \in Rooms, trouble'[r] = 0 PROVE OnceEach(r)'
      BY DEF Once
    <3>1. Same(r)
      BY <1>12 DEF Crash, Forget, GoesOut, OneMore, StaysHere, Troubled, Same, Sent, Over
    <3> QED
      BY <3>1, SameKeeps
  <2>2. Ahead' /\ Known'
    BY <1>12 DEF Crash, Forget, GoesOut, OneMore, StaysHere, Troubled, Ahead, Known
  <2> QED
    BY <2>1, <2>2
<1>13. ASSUME NEW w \in Workers, Restart(w) PROVE OnceInv'
  <2>1. Once'
    <3> SUFFICES ASSUME NEW r \in Rooms, trouble'[r] = 0 PROVE OnceEach(r)'
      BY DEF Once
    <3>1. Same(r)
      BY <1>13 DEF Restart, Same, Sent, Over
    <3> QED
      BY <3>1, SameKeeps
  <2>2. Ahead' /\ Known'
    BY <1>13 DEF Restart, Ahead, Known
  <2> QED
    BY <2>1, <2>2
<1>14. ASSUME NEW r \in Rooms, Elapse(r) PROVE OnceInv'
  <2>1. Once'
    <3> SUFFICES ASSUME NEW x \in Rooms, trouble'[x] = 0 PROVE OnceEach(x)'
      BY DEF Once
    <3>1. Same(x)
      BY <1>14 DEF Elapse, Same, Sent, Over
    <3> QED
      BY <3>1, SameKeeps
  <2>2. Ahead' /\ Known'
    BY <1>14 DEF Elapse, Ahead, Known
  <2> QED
    BY <2>1, <2>2
<1>15. ASSUME NEW r \in Rooms, CreateRoom(r) PROVE OnceInv'
  <2>1. Once'
    <3> SUFFICES ASSUME NEW x \in Rooms, trouble'[x] = 0 PROVE OnceEach(x)'
      BY DEF Once
    <3>1. Same(x)
      BY <1>15 DEF CreateRoom, Same, Sent, Over
    <3> QED
      BY <3>1, SameKeeps
  <2>2. Ahead' /\ Known'
    BY <1>15 DEF CreateRoom, Ahead, Known
  <2> QED
    BY <2>1, <2>2
<1>16. ASSUME NEW r \in Rooms, RestartRoom(r) PROVE OnceInv'
  <2>1. Once'
    <3> SUFFICES ASSUME NEW x \in Rooms, trouble'[x] = 0 PROVE OnceEach(x)'
      BY DEF Once
    <3>1. CASE x # r
      <4>1. Same(x)
        BY <1>16, <3>1 DEF RestartRoom, Exists, Gone, Same, Sent, Over
      <4> QED
        BY <4>1, SameKeeps
    <3>2. CASE x = r
      <4>1. \A n \in Numbers : copies'[x][n] = 0
        BY <1>16, <3>2 DEF RestartRoom, None
      <4>2. \A k : Accounted(x, k)' 
        BY <4>1 DEF Accounted
      <4> QED
        BY <4>1, <4>2 DEF OnceEach, Accounted
    <3> QED
      BY <3>1, <3>2
  <2>2. Ahead' /\ Known'
    BY <1>16 DEF RestartRoom, Exists, Gone, None, Ahead, Known
  <2> QED
    BY <2>1, <2>2
<1>17. ASSUME NEW r \in Rooms, DeleteRoom(r) PROVE OnceInv'
  <2>1. Once'
    <3> SUFFICES ASSUME NEW x \in Rooms, trouble'[x] = 0 PROVE OnceEach(x)'
      BY DEF Once
    <3>1. Same(x)
      BY <1>17 DEF DeleteRoom, Exists, Gone, Same, Sent, Over
    <3> QED
      BY <3>1, SameKeeps
  <2>2. Ahead' /\ Known'
    BY <1>17 DEF DeleteRoom, Exists, Gone, Ahead, Known
  <2> QED
    BY <2>1, <2>2
<1>18. ASSUME NEW r \in Rooms, NEW to \in Statuses, BeginStatus(r, to) PROVE OnceInv'
  <2>1. Once'
    <3> SUFFICES ASSUME NEW x \in Rooms, trouble'[x] = 0 PROVE OnceEach(x)'
      BY DEF Once
    <3>1. Same(x)
      BY <1>18 DEF BeginStatus, Same, Sent, Over
    <3> QED
      BY <3>1, SameKeeps
  <2>2. Ahead' /\ Known'
    BY <1>18 DEF BeginStatus, Ahead, Known
  <2> QED
    BY <2>1, <2>2
<1>19. ASSUME NEW r \in Rooms, NEW L \in SUBSET Numbers, NEW M \in SUBSET Numbers, EditLines(r, L, M) PROVE OnceInv'
  <2>1. Once'
    <3> SUFFICES ASSUME NEW x \in Rooms, trouble'[x] = 0 PROVE OnceEach(x)'
      BY DEF Once
    <3>1. Same(x)
      BY <1>19 DEF EditLines, Same, Sent, Over
    <3> QED
      BY <3>1, SameKeeps
  <2>2. Ahead' /\ Known'
    BY <1>19 DEF EditLines, Ahead, Known
  <2> QED
    BY <2>1, <2>2
<1>20. ASSUME NEW q \in requests, FinishStatus(q) PROVE OnceInv'
  <2>1. Once'
    <3> SUFFICES ASSUME NEW r \in Rooms, trouble'[r] = 0 PROVE OnceEach(r)'
      BY DEF Once
    <3>1. Same(r)
      BY <1>20 DEF FinishStatus, Exists, Gone, Requests, Statuses, Same, Sent, Over
    <3> QED
      BY <3>1, SameKeeps
  <2>2. Ahead' /\ Known'
    BY <1>20 DEF FinishStatus, Exists, Gone, Requests, Statuses, Ahead, Known
  <2> QED
    BY <2>1, <2>2
<1>21. CASE UNCHANGED vars
  BY <1>21 DEF vars, Once, OnceEach, Accounted, Sent, Over, Ahead, Known
<1> QED
  BY <1>1, <1>2, <1>3, <1>4, <1>5, <1>6, <1>7, <1>8, <1>9, <1>10, <1>11, <1>12,
     <1>13, <1>14, <1>15, <1>16, <1>17, <1>18, <1>19, <1>20, <1>21 DEF Next, Tick

(* With one worker no line of a run goes out twice, but for a send whose   *)
(* outcome was lost; with two replicas this is refuted (executeRoom).      *)
THEOREM NothingRepeated ==
    ASSUME \A v, w \in Workers : v = w
    PROVE  Spec => []NoLineRepeated
<1>1. Init => OnceInv
  BY DEF Init, OnceInv, Once, OnceEach, Accounted, Ahead, Known, None
<1>2. IInv /\ OnceInv /\ [Next]_vars => OnceInv'
  BY OnceStep DEF IInv
<1>3. IInv /\ OnceInv => NoLineRepeated
  <2> SUFFICES ASSUME TypeOK, Once, NEW r \in Rooms, NEW n \in Numbers, copies[r][n] > 1
               PROVE  trouble[r] > 0
    BY DEF IInv, OnceInv, NoLineRepeated
  <2>1. ~OnceEach(r)
    <3>1. copies[r][n] \in 0..2 /\ ~(copies[r][n] <= 1)
      BY DEF TypeOK
    <3> QED
      BY <3>1 DEF OnceEach
  <2> QED
    BY <2>1 DEF Once, TypeOK
<1> QED
  BY <1>1, <1>2, <1>3, Invariant, PTL DEF Spec
=============================================================================
