---------------------------- MODULE WarmingRooms ----------------------------
(***************************************************************************)
(* Warming rooms of type BOT_VS_BOT and the workers that play their        *)
(* scripts: internal/worker/warming_worker.go, the statements of           *)
(* internal/model/warming/warming_room.go, and the room and line handlers. *)
(*                                                                         *)
(* A tick reads the due rooms first and locks each one later, so what is   *)
(* executed under the room's advisory lock is the row as it was BEFORE the *)
(* lock.  Every update names the row by id only.                           *)
(***************************************************************************)
EXTENDS Naturals, FiniteSets, FiniteSetsExt

CONSTANTS
    Rooms,      \* rooms that may be created
    Workers,    \* API processes with the warming worker enabled
    NoRoom, NoWorker,
    LastLine,   \* script lines are numbered 1..LastLine (sequence_order)
    Limit,      \* how many rooms a tick takes (10 in the code)
    MaxCalls,   \* bound on API calls that change rooms or lines
    MaxFaults   \* bound on crashes and lost database answers

ASSUME WarmingAssumption ==
    /\ NoRoom \notin Rooms /\ NoWorker \notin Workers
    /\ LastLine \in Nat /\ Limit \in Nat \ {0}
    /\ MaxCalls \in Nat /\ MaxFaults \in Nat

VARIABLES
    \* --- the tables
    status,     \* status[r]; "absent" before its insert, "deleted" after
    sequence,   \* sequence[r]: current_sequence, the last executed line
    nextRun,    \* nextRun[r]: next_run_at NULL ("none"), ahead ("set"), or past
    lines,      \* lines[r]: the numbers of the lines of the room's script
    \* --- the workers
    pc,         \* pc[w]: where w is in processActiveRooms
    batch,      \* batch[w]: rooms of this tick that w has not done with
    snapshot,   \* snapshot[w][r]: current_sequence of r when w read it
    room,       \* room[w]: the room w executes
    line,       \* line[w]: the line it executes
    result,     \* result[w]: what the send came to
    lock,       \* lock[r]: whose connection holds the room's advisory lock
    \* --- the API
    requests,   \* status changes between their read and their write
    calls,      \* calls so far, at most MaxCalls
    \* --- history
    copies,     \* copies[r][n]: how often line n went out in this run, 2 for more
    added,      \* added[r]: lines inserted or moved during this run
    overtaken,  \* rooms whose last restart found them in a worker's batch
    late,       \* late[w][r]: copies w sent since r last left ACTIVE
    trouble,    \* trouble[r]: sends of this run whose outcome was lost
    faults      \* disturbances so far, at most MaxFaults

table   == <<status, sequence, nextRun>>
worker  == <<pc, batch, snapshot, room, line, result, lock>>
api     == <<requests, calls>>
history == <<copies, added, overtaken, late, trouble>>
vars    == <<table, lines, worker, api, history, faults>>

Numbers  == 1..LastLine
Statuses == {"STOPPED", "ACTIVE", "PAUSED", "FINISHED"}
Gone     == {"absent", "deleted"}
Steps    == {"ready", "locked", "sending", "recording", "finishing", "unlocking", "down"}
Executing == {"locked", "sending", "recording", "finishing", "unlocking"}
Requests == [room : Rooms, to : Statuses]

TypeOK ==
    /\ status \in [Rooms -> Statuses \cup Gone]
    /\ sequence \in [Rooms -> 0..LastLine]
    /\ nextRun \in [Rooms -> {"none", "set", "due"}]
    /\ lines \in [Rooms -> SUBSET Numbers]
    /\ pc \in [Workers -> Steps]
    /\ batch \in [Workers -> SUBSET Rooms]
    /\ snapshot \in [Workers -> [Rooms -> 0..LastLine]]
    /\ room \in [Workers -> Rooms \cup {NoRoom}]
    /\ line \in [Workers -> 0..LastLine]
    /\ result \in [Workers -> {"none", "success", "failed", "offline"}]
    /\ lock \in [Rooms -> Workers \cup {NoWorker}]
    /\ requests \in SUBSET Requests
    /\ calls \in 0..MaxCalls
    /\ copies \in [Rooms -> [Numbers -> 0..2]]
    /\ added \in [Rooms -> SUBSET Numbers]
    /\ overtaken \in SUBSET Rooms
    /\ late \in [Workers -> [Rooms -> Nat]]
    /\ trouble \in [Rooms -> Nat]
    /\ faults \in 0..MaxFaults

None == [n \in Numbers |-> 0]

Init ==
    /\ status = [r \in Rooms |-> "absent"]
    /\ sequence = [r \in Rooms |-> 0]
    /\ nextRun = [r \in Rooms |-> "none"]
    /\ lines \in [Rooms -> SUBSET Numbers]
    /\ pc = [w \in Workers |-> "ready"]
    /\ batch = [w \in Workers |-> {}]
    /\ snapshot = [w \in Workers |-> [r \in Rooms |-> 0]]
    /\ room = [w \in Workers |-> NoRoom]
    /\ line = [w \in Workers |-> 0]
    /\ result = [w \in Workers |-> "none"]
    /\ lock = [r \in Rooms |-> NoWorker]
    /\ requests = {} /\ calls = 0
    /\ copies = [r \in Rooms |-> None]
    /\ added = [r \in Rooms |-> {}]
    /\ overtaken = {}
    /\ late = [w \in Workers |-> [r \in Rooms |-> 0]]
    /\ trouble = [r \in Rooms |-> 0]
    /\ faults = 0

(* One more thing goes wrong, one more call is made. *)
Disturb == faults < MaxFaults /\ faults' = faults + 1
Call == calls < MaxCalls /\ calls' = calls + 1

Exists(r) == status[r] \notin Gone

-----------------------------------------------------------------------------
(* The worker's tick.                                                      *)

\* Faulty variant: only the time decides.
FaultyDueRooms == {r \in Rooms : nextRun[r] = "due"}

(* WHERE status = 'ACTIVE' AND next_run_at <= NOW(). *)
DueRooms == {r \in Rooms : status[r] = "ACTIVE" /\ nextRun[r] = "due"}

(* GetActiveRoomsForWorker: the rows are copied, no lock is taken.  The    *)
(* order of next_run_at is left open.                                      *)
Query(w) ==
    /\ pc[w] = "ready" /\ batch[w] = {} /\ DueRooms # {}
    /\ \E B \in SUBSET DueRooms :
          /\ B # {} /\ Cardinality(B) <= Limit
          /\ Cardinality(B) < Limit => B = DueRooms
          /\ batch' = [batch EXCEPT ![w] = B]
          /\ snapshot' = [snapshot EXCEPT ![w] =
                            [r \in Rooms |-> IF r \in B THEN sequence[r] ELSE 0]]
    /\ UNCHANGED <<table, lines, pc, room, line, result, lock, api,
                   copies, added, overtaken, late, trouble, faults>>

(* w is through with room r in this tick. *)
DoneWith(w, r) ==
    /\ batch' = [batch EXCEPT ![w] = @ \ {r}]
    /\ snapshot' = [snapshot EXCEPT ![w] = [q \in Rooms |-> IF q = r THEN 0 ELSE snapshot[w][q]]]

(* TryLockRoom: pg_try_advisory_lock on a connection of its own. *)
TryLockRoom(w, r) ==
    /\ pc[w] = "ready" /\ r \in batch[w]
    /\ lock[r] = NoWorker
    /\ lock' = [lock EXCEPT ![r] = w]
    /\ room' = [room EXCEPT ![w] = r]
    /\ pc' = [pc EXCEPT ![w] = "locked"]
    /\ UNCHANGED <<table, lines, batch, snapshot, line, result, api, history, faults>>

(* Another worker holds the lock, or no connection can be had. *)
SkipRoom(w, r) ==
    /\ pc[w] = "ready" /\ r \in batch[w]
    /\ IF lock[r] # NoWorker THEN UNCHANGED faults ELSE Disturb
    /\ DoneWith(w, r)
    /\ UNCHANGED <<table, lines, pc, room, line, result, lock, api, history>>

\* Faulty variant: the line at the snapshot is sent again.
FaultyLater(r, n) == {m \in lines[r] : m >= n /\ m > 0}

(* WHERE sequence_order > current_sequence. *)
Later(r, n) == {m \in lines[r] : m > n}

(* GetNextAvailableScriptLine with the sequence of the snapshot. *)
ReadLine(w) ==
    /\ pc[w] = "locked"
    /\ LET rest == Later(room[w], snapshot[w][room[w]]) IN
          IF rest = {}
            THEN /\ pc' = [pc EXCEPT ![w] = "finishing"]
                 /\ UNCHANGED line
            ELSE /\ pc' = [pc EXCEPT ![w] = "sending"]
                 /\ line' = [line EXCEPT ![w] = Min(rest)]
    /\ UNCHANGED <<table, lines, batch, snapshot, room, result, lock, api, history, faults>>

ReadFails(w) ==
    /\ pc[w] = "locked"
    /\ Disturb
    /\ pc' = [pc EXCEPT ![w] = "unlocking"]
    /\ UNCHANGED <<table, lines, batch, snapshot, room, line, result, lock, api, history>>

(* Late sends are counted from when the room leaves ACTIVE. *)
LeaveActive(r) ==
    late' = IF status[r] = "ACTIVE" THEN [v \in Workers |-> [late[v] EXCEPT ![r] = 0]] ELSE late

(* FinishRoom, or its failure. *)
FinishRoom(w) ==
    /\ pc[w] = "finishing"
    /\ \/ /\ Exists(room[w])
          /\ status' = [status EXCEPT ![room[w]] = "FINISHED"]
          /\ nextRun' = [nextRun EXCEPT ![room[w]] = "none"]
          /\ LeaveActive(room[w])
          /\ UNCHANGED faults
       \/ ~ Exists(room[w]) /\ UNCHANGED <<status, nextRun, late, faults>>
       \/ Disturb /\ UNCHANGED <<status, nextRun, late>>
    /\ pc' = [pc EXCEPT ![w] = "unlocking"]
    /\ UNCHANGED <<sequence, lines, batch, snapshot, room, line, result, lock, api,
                   copies, added, overtaken, trouble>>

OneMore(k) == IF k < 2 THEN k + 1 ELSE 2

(* A copy of the line leaves for WhatsApp. *)
GoesOut(w) ==
    LET r == room[w] IN
    /\ copies' = [copies EXCEPT ![r] = [n \in Numbers |->
                     IF n = line[w] THEN OneMore(copies[r][n]) ELSE copies[r][n]]]
    /\ late' = [late EXCEPT ![w] = [q \in Rooms |->
                  IF q = r /\ status[q] # "ACTIVE" THEN late[w][q] + 1 ELSE late[w][q]]]

StaysHere == UNCHANGED <<copies, late>>

Troubled(r) == trouble' = [trouble EXCEPT ![r] = @ + 1]

(* sendWhatsAppMessage: success, a failure that may have gone out all the  *)
(* same, or an instance that is not connected.  Then the log is written.   *)
SendSucceeds(w) ==
    /\ pc[w] = "sending"
    /\ GoesOut(w)
    /\ result' = [result EXCEPT ![w] = "success"]
    /\ pc' = [pc EXCEPT ![w] = "recording"]
    /\ UNCHANGED <<table, lines, batch, snapshot, room, line, lock, api,
                   added, overtaken, trouble, faults>>

SendFails(w) ==
    /\ pc[w] = "sending"
    /\ \/ /\ result' = [result EXCEPT ![w] = "failed"]
          /\ \/ GoesOut(w) /\ Troubled(room[w]) /\ Disturb
             \/ StaysHere /\ UNCHANGED <<trouble, faults>>
       \/ /\ result' = [result EXCEPT ![w] = "offline"]
          /\ StaysHere /\ UNCHANGED <<trouble, faults>>
    /\ pc' = [pc EXCEPT ![w] = "recording"]
    /\ UNCHANGED <<table, lines, batch, snapshot, room, line, lock, api,
                   added, overtaken>>

\* Faulty variants: a failed send counts as executed; no next run is
\* set.
FaultyProgress(w) == line[w]
FaultyRecorded(w) == "none"

(* The sequence that UpdateRoomProgress writes: the line, or, for a retry, *)
(* the sequence of the snapshot.                                           *)
Progress(w) == IF result[w] = "success" THEN line[w] ELSE snapshot[w][room[w]]

(* next_run_at after the record: NULL when the room is paused. *)
Recorded(w) == IF result[w] = "offline" THEN "none" ELSE "set"

(* UpdateRoomProgress, or UpdateRoomStatus("PAUSED") when the sender was   *)
(* not connected, whatever the status is by then.                          *)
Record(w) ==
    LET r == room[w] IN
    /\ pc[w] = "recording"
    /\ IF Exists(r)
         THEN /\ nextRun' = [nextRun EXCEPT ![r] = Recorded(w)]
              /\ IF result[w] = "offline"
                   THEN /\ status' = [status EXCEPT ![r] = "PAUSED"]
                        /\ LeaveActive(r)
                        /\ UNCHANGED sequence
                   ELSE /\ sequence' = [sequence EXCEPT ![r] = Progress(w)]
                        /\ UNCHANGED <<status, late>>
         ELSE UNCHANGED <<status, sequence, nextRun, late>>
    /\ pc' = [pc EXCEPT ![w] = "unlocking"]
    /\ UNCHANGED <<lines, batch, snapshot, room, line, result, lock, api,
                   copies, added, overtaken, trouble, faults>>

RecordFails(w) ==
    /\ pc[w] = "recording"
    /\ Disturb
    /\ Troubled(room[w])
    /\ pc' = [pc EXCEPT ![w] = "unlocking"]
    /\ UNCHANGED <<table, lines, batch, snapshot, room, line, result, lock, api,
                   copies, added, overtaken, late>>

(* The locks that w's connections hold are gone. *)
Freed(w) == [r \in Rooms |-> IF lock[r] = w THEN NoWorker ELSE lock[r]]

Forget(w) ==
    /\ room' = [room EXCEPT ![w] = NoRoom]
    /\ line' = [line EXCEPT ![w] = 0]
    /\ result' = [result EXCEPT ![w] = "none"]
    /\ lock' = Freed(w)

(* UnlockRoom: pg_advisory_unlock, and the connection returns to the pool. *)
UnlockRoom(w) ==
    /\ pc[w] = "unlocking"
    /\ DoneWith(w, room[w])
    /\ Forget(w)
    /\ pc' = [pc EXCEPT ![w] = "ready"]
    /\ UNCHANGED <<table, lines, api, history, faults>>

(* The process dies, or ends on SIGTERM: main does not wait for a tick.    *)
(* What was being sent may go out; the advisory lock ends with its session.*)
Crash(w) ==
    /\ pc[w] # "down"
    /\ Disturb
    /\ CASE pc[w] = "sending" -> Troubled(room[w]) /\ (GoesOut(w) \/ StaysHere)
         [] pc[w] = "recording" -> Troubled(room[w]) /\ StaysHere
         [] OTHER -> UNCHANGED <<trouble, copies, late>>
    /\ batch' = [batch EXCEPT ![w] = {}]
    /\ snapshot' = [snapshot EXCEPT ![w] = [r \in Rooms |-> 0]]
    /\ Forget(w)
    /\ pc' = [pc EXCEPT ![w] = "down"]
    /\ UNCHANGED <<table, lines, api, added, overtaken>>

Restart(w) ==
    /\ pc[w] = "down"
    /\ pc' = [pc EXCEPT ![w] = "ready"]
    /\ UNCHANGED <<table, lines, batch, snapshot, room, line, result, lock, api, history, faults>>

(* The interval of the room passes. *)
Elapse(r) ==
    /\ nextRun[r] = "set"
    /\ nextRun' = [nextRun EXCEPT ![r] = "due"]
    /\ UNCHANGED <<status, sequence, lines, worker, api, history, faults>>

-----------------------------------------------------------------------------
(* The API.                                                                *)

CreateRoom(r) ==
    /\ Call /\ status[r] = "absent"
    /\ status' = [status EXCEPT ![r] = "STOPPED"]
    /\ UNCHANGED <<sequence, nextRun, lines, worker, requests, history, faults>>

(* UpdateRoomStatusService reads the room and refuses the status it has... *)
BeginStatus(r, to) ==
    /\ Call /\ Exists(r) /\ status[r] # to
    /\ requests' = requests \cup {[room |-> r, to |-> to]}
    /\ UNCHANGED <<table, lines, worker, history, faults>>

(* ...and UpdateRoomStatus writes it, whatever the room has become. *)
FinishStatus(q) ==
    /\ requests' = requests \ {q}
    /\ IF Exists(q.room)
         THEN /\ status' = [status EXCEPT ![q.room] = q.to]
              /\ nextRun' = [nextRun EXCEPT ![q.room] = IF q.to = "ACTIVE" THEN "set" ELSE "none"]
              /\ LeaveActive(q.room)
         ELSE UNCHANGED <<status, nextRun, late>>
    /\ UNCHANGED <<sequence, lines, worker, calls, copies, added, overtaken, trouble, faults>>

(* RestartRoom: one UPDATE; a new run begins. *)
RestartRoom(r) ==
    /\ Call /\ Exists(r)
    /\ status' = [status EXCEPT ![r] = "ACTIVE"]
    /\ sequence' = [sequence EXCEPT ![r] = 0]
    /\ nextRun' = [nextRun EXCEPT ![r] = "due"]
    /\ copies' = [copies EXCEPT ![r] = None]
    /\ added' = [added EXCEPT ![r] = {}]
    /\ trouble' = [trouble EXCEPT ![r] = 0]
    /\ overtaken' = IF \E w \in Workers : r \in batch[w] THEN overtaken \cup {r} ELSE overtaken \ {r}
    /\ UNCHANGED <<lines, worker, requests, late, faults>>

(* DELETE; the logs go with the room. *)
DeleteRoom(r) ==
    /\ Call /\ Exists(r)
    /\ status' = [status EXCEPT ![r] = "deleted"]
    /\ nextRun' = [nextRun EXCEPT ![r] = "none"]
    /\ LeaveActive(r)
    /\ UNCHANGED <<sequence, lines, worker, requests, copies, added, overtaken, trouble, faults>>

(* The script changes under the room: a line is created, generated, moved, *)
(* reordered or deleted, or the room is given another script.  L are the   *)
(* numbers then in use, M those that hold another line than before.        *)
EditLines(r, L, M) ==
    /\ Call
    /\ M \subseteq L /\ L \ lines[r] \subseteq M
    /\ lines' = [lines EXCEPT ![r] = L]
    /\ added' = [added EXCEPT ![r] = @ \cup M]
    /\ UNCHANGED <<table, worker, requests, copies, overtaken, late, trouble, faults>>

-----------------------------------------------------------------------------
Tick(w) ==
    \/ Query(w) \/ ReadLine(w) \/ ReadFails(w) \/ FinishRoom(w)
    \/ SendSucceeds(w) \/ SendFails(w) \/ Record(w) \/ RecordFails(w) \/ UnlockRoom(w)
    \/ \E r \in Rooms : TryLockRoom(w, r) \/ SkipRoom(w, r)

Next ==
    \/ \E w \in Workers : Tick(w) \/ Crash(w) \/ Restart(w)
    \/ \E r \in Rooms :
          \/ Elapse(r) \/ CreateRoom(r) \/ RestartRoom(r) \/ DeleteRoom(r)
          \/ \E to \in Statuses : BeginStatus(r, to)
          \/ \E L, M \in SUBSET Numbers : EditLines(r, L, M)
    \/ \E q \in requests : FinishStatus(q)

Spec == Init /\ [][Next]_vars

(* The ticker fires, intervals pass, processes are started again, and a    *)
(* message that is tried again and again gets through at last.             *)
Fairness ==
    /\ \A w \in Workers :
          WF_vars(Tick(w)) /\ WF_vars(Restart(w)) /\ SF_vars(SendSucceeds(w))
    /\ \A r \in Rooms : WF_vars(Elapse(r))

FairSpec == Spec /\ Fairness

-----------------------------------------------------------------------------
(* What the warming system guarantees.                                     *)

(* The lines that were in the script all through this run. *)
Original(r) == lines[r] \ added[r]

(* No line is skipped: current_sequence passes a line of the script only   *)
(* after that line went out, with any number of workers that start from    *)
(* old copies of the row.  (Not so when a restart overtook a worker.)      *)
NoLineSkipped ==
    \A r \in Rooms \ overtaken :
        \A n \in Original(r) : n <= sequence[r] => copies[r][n] > 0

(* A room that was stopped, paused, finished or deleted falls silent:      *)
(* each worker sends one more line at most, the one it had under way or    *)
(* still had in its batch.                                                 *)
LateSendsBounded ==
    \A w \in Workers, r \in Rooms : status[r] # "ACTIVE" => late[w][r] <= 1

(* internal/worker/warming_worker.go: the advisory lock keeps a parallel   *)
(* replica from claiming the same row between query and execution, so no   *)
(* line goes out twice in a run but for a send whose outcome was lost.     *)
NoLineRepeated ==
    \A r \in Rooms : \A n \in Numbers : copies[r][n] > 1 => trouble[r] > 0

(* A room that nobody touches does not stay active forever: its script     *)
(* ends, or its sender is offline and it is paused.                        *)
ActiveRoomsEnd == \A r \in Rooms : status[r] = "ACTIVE" ~> status[r] # "ACTIVE"
=============================================================================
