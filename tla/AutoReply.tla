------------------------------ MODULE AutoReply -----------------------------
(***************************************************************************)
(* Replies in rooms of type HUMAN_VS_BOT, all for one whitelisted number:  *)
(* internal/service/warming_auto_reply.go, and what the room handlers do   *)
(* to such a room and the script handlers to the lines of its script.      *)
(*                                                                         *)
(* Each instance handles its messages one after another up to the check of *)
(* the cooldown; the reply follows in a goroutine after a delay, from the  *)
(* copy of the room that was made when the message came.                   *)
(***************************************************************************)
EXTENDS Integers, FiniteSets, FiniteSetsExt

CONSTANTS
    Rooms,
    Instances,    \* instances the human may write to
    Scripts,
    Orders,       \* values a sequence_order is given
    Lines,        \* those of the lines each script has at first
    MaxMessages, MaxCalls, \* bounds: messages, calls of the handlers
    NoRoom

(* A line is created with an order greater than 0, and may be given any     *)
(* other by ReorderScriptLines.                                            *)
ASSUME ReplyAssumption == Lines \subseteq Orders /\ Orders \subseteq Int /\ NoRoom \notin Rooms

VARIABLES
    status, sequence, script, \* columns of the rooms
    lines,      \* lines[s]: the orders of the lines of s
    handler,    \* handler[i]: where HandleIncomingMessage of i is, and its copy
    replies,    \* processAutoReply goroutines: number, copy, and where they are
    cooling,    \* rooms with an entry in lastReplyTime that is not over
    cleanup,    \* rooms whose entry a handler has still to delete
    activating, \* rooms whose activation has passed its check
    messages, calls,
    taken,      \* history: taken[r], lines that replies of this run took
    overtaken,  \* history: rooms whose run a restart, a script or a line overtook
    started     \* history: started[i][r], replies of i since the cooldown began

cooldowns == <<cooling, cleanup>>
texts     == <<script, lines>>
replyVars == <<status, sequence, texts, handler, replies, cooldowns, activating,
               messages, calls, taken, overtaken, started>>

Waiting == [at |-> "waiting", room |-> NoRoom, script |-> NoRoom, seq |-> 0]

ReplyInit ==
    /\ status = [r \in Rooms |-> "STOPPED"] /\ sequence = [r \in Rooms |-> 0]
    /\ script \in [Rooms -> Scripts] /\ lines = [s \in Scripts |-> Lines]
    /\ handler = [i \in Instances |-> Waiting]
    /\ replies = {} /\ cooling = {} /\ cleanup = {} /\ activating = {}
    /\ messages = 0 /\ calls = 0
    /\ taken = [r \in Rooms |-> {}] /\ overtaken = {}
    /\ started = [i \in Instances |-> [r \in Rooms |-> 0]]

(* The cooldown of r begins anew for every instance. *)
Afresh(r) == [i \in Instances |-> [started[i] EXCEPT ![r] = 0]]

-----------------------------------------------------------------------------
(* HandleIncomingMessage.                                                  *)

(* GetActiveHumanRoomBySender copies an active room of the number, if there*)
(* is one; then a pause, and the message is marked read and saved.         *)
Receive(i) ==
    /\ handler[i] = Waiting /\ messages < MaxMessages
    /\ \E r \in Rooms : status[r] = "ACTIVE"
          /\ handler' = [handler EXCEPT ![i] =
                [at |-> "reading", room |-> r, script |-> script[r], seq |-> sequence[r]]]
    /\ messages' = messages + 1
    /\ UNCHANGED <<status, sequence, texts, replies, cooldowns, activating,
                   calls, taken, overtaken, started>>

(* lastReplyTime.Load. *)
CheckCooldown(i) ==
    /\ handler[i].at = "reading"
    /\ handler' = [handler EXCEPT ![i] =
          IF handler[i].room \in cooling THEN Waiting ELSE [@ EXCEPT !.at = "free"]]
    /\ UNCHANGED <<status, sequence, texts, replies, cooldowns, activating,
                   messages, calls, taken, overtaken, started>>

\* Faulty variant: the time of the reply is not noted.
FaultyStored(r) == cooling

Stored(r) == cooling \cup {r}

(* lastReplyTime.Store, and the goroutine of the reply: `messages` tells   *)
(* the replies of one instance apart, which started between two messages.  *)
StartReply(i) ==
    LET r == handler[i].room IN
    /\ handler[i].at = "free"
    /\ cooling' = Stored(r)
    /\ replies' = replies \cup {[id |-> messages, by |-> i, room |-> r, script |-> handler[i].script,
                                 seq |-> handler[i].seq, at |-> "delayed"]}
    /\ handler' = [handler EXCEPT ![i] = Waiting]
    /\ started' = [started EXCEPT ![i][r] = @ + 1]
    /\ UNCHANGED <<status, sequence, texts, cleanup, activating, messages, calls, taken, overtaken>>

(* WARMING_AUTO_REPLY_COOLDOWN seconds pass. *)
CooldownEnds(r) ==
    /\ r \in cooling
    /\ cooling' = cooling \ {r}
    /\ started' = Afresh(r)
    /\ UNCHANGED <<status, sequence, texts, handler, replies, cleanup, activating,
                   messages, calls, taken, overtaken>>

-----------------------------------------------------------------------------
(* processAutoReply, after its delay.  An update of the room may have set  *)
(* ai_enabled and fallback_to_script as it likes before they were copied.  *)

End(p) == replies' = replies \ {p}
Becomes(p, where) == replies' = (replies \ {p}) \cup {[p EXCEPT !.at = where]}

(* An empty reply is not sent. *)
SendUnlessEmpty(p) == Becomes(p, "sending") \/ End(p)

(* The provider answers, or fails and there is no fallback to the script. *)
ReplyFromAI(p) ==
    /\ p.at = "delayed"
    /\ SendUnlessEmpty(p)
    /\ UNCHANGED <<status, sequence, texts, handler, cooldowns, activating,
                   messages, calls, taken, overtaken, started>>

(* The lines after the copy's sequence, of the copy's script as it is now. *)
Following(p) == {n \in lines[p.script] : n > p.seq}

(* getScriptReply, GetNextAvailableScriptLine: the first of them is taken. *)
ReplyFromScript(p) ==
    /\ p.at = "delayed" /\ Following(p) # {}
    /\ Becomes(p, "rendered")
    /\ taken' = [taken EXCEPT ![p.room] = @ \cup {Min(Following(p))}]
    /\ UNCHANGED <<status, sequence, texts, handler, cooldowns, activating,
                   messages, calls, overtaken, started>>

(* The query fails, or finds none, which is sql.ErrNoRows: the goroutine   *)
(* ends.  FinishRoom is called for a nil line only, which the query never  *)
(* returns.                                                                *)
NoReply(p) ==
    /\ p.at = "delayed"
    /\ End(p)
    /\ UNCHANGED <<status, sequence, texts, handler, cooldowns, activating,
                   messages, calls, taken, overtaken, started>>

\* Faulty variant: the row's own sequence is counted up.
FaultyNextSeq(p) == sequence[p.room] + 1

(* room.CurrentSequence + 1, of the copy. *)
NextSeq(p) == p.seq + 1

(* getScriptReply, UpdateRoomProgress: its error is only logged. *)
UpdateRoomProgress(p) ==
    /\ p.at = "rendered"
    /\ sequence' \in {sequence, [sequence EXCEPT ![p.room] = NextSeq(p)]}
    /\ SendUnlessEmpty(p)
    /\ UNCHANGED <<status, texts, handler, cooldowns, activating,
                   messages, calls, taken, overtaken, started>>

(* sendReply: what it came to is only logged. *)
SendReply(p) ==
    /\ p.at = "sending"
    /\ End(p)
    /\ UNCHANGED <<status, sequence, texts, handler, cooldowns, activating,
                   messages, calls, taken, overtaken, started>>

-----------------------------------------------------------------------------
(* The room handlers.                                                      *)

Call == calls < MaxCalls /\ calls' = calls + 1

(* CheckDuplicateWhitelistedNumber: no other room of the number is active  *)
(* or paused... *)
BeginActivation(r) ==
    /\ Call /\ status[r] # "ACTIVE"
    /\ \A q \in Rooms \ {r} : status[q] \notin {"ACTIVE", "PAUSED"}
    /\ activating' = activating \cup {r}
    /\ UNCHANGED <<status, sequence, texts, handler, replies, cooling, cleanup,
                   messages, taken, overtaken, started>>

\* The unique index idx_unique_active_human_room lets r be active.
Unclaimed(r) == \A q \in Rooms \ {r} : status[q] # "ACTIVE"

(* ...and UpdateRoomStatus, which the index refuses when another room has  *)
(* become active since.                                                    *)
Activate(r) ==
    /\ r \in activating
    /\ activating' = activating \ {r}
    /\ status' = IF Unclaimed(r) THEN [status EXCEPT ![r] = "ACTIVE"] ELSE status
    /\ UNCHANGED <<sequence, texts, handler, replies, cooldowns,
                   messages, calls, taken, overtaken, started>>

(* Stopped, paused or finished; the cooldown is dropped afterwards. *)
Deactivate(r, to) ==
    /\ Call /\ status[r] # to
    /\ status' = [status EXCEPT ![r] = to]
    /\ cleanup' = cleanup \cup {r}
    /\ UNCHANGED <<sequence, texts, handler, replies, cooling, activating,
                   messages, taken, overtaken, started>>

UnderWay(r) ==
    \/ \E i \in Instances : handler[i].room = r
    \/ \E p \in replies : p.room = r

(* RestartRoom: no check of the number but the index. *)
RestartRoom(r) ==
    /\ Call /\ Unclaimed(r)
    /\ status' = [status EXCEPT ![r] = "ACTIVE"]
    /\ sequence' = [sequence EXCEPT ![r] = 0]
    /\ cleanup' = cleanup \cup {r}
    /\ taken' = [taken EXCEPT ![r] = {}]
    /\ overtaken' = IF UnderWay(r) THEN overtaken \cup {r} ELSE overtaken \ {r}
    /\ UNCHANGED <<texts, handler, replies, cooling, activating, messages, started>>

CleanupReplyTime(r) ==
    /\ r \in cleanup
    /\ cleanup' = cleanup \ {r}
    /\ cooling' = cooling \ {r}
    /\ started' = Afresh(r)
    /\ UNCHANGED <<status, sequence, texts, handler, replies, activating,
                   messages, calls, taken, overtaken>>

(* UpdateWarmingRoom: the room gets another script and keeps its sequence. *)
(* (Its check of the number came before, and says nothing of now.)         *)
UpdateWarmingRoom(r, s) ==
    /\ Call /\ script[r] # s
    /\ script' = [script EXCEPT ![r] = s]
    /\ taken' = [taken EXCEPT ![r] = {}]
    /\ overtaken' = IF UnderWay(r) \/ sequence[r] > 0 THEN overtaken \cup {r} ELSE overtaken
    /\ UNCHANGED <<status, sequence, lines, handler, replies, cooldowns, activating, messages, started>>

-----------------------------------------------------------------------------
(* The script handlers: no line has the order of another of its script.    *)

(* The run of r, or a reply under way in it, is at n or beyond. *)
Passed(r, n) ==
    \/ n <= sequence[r]
    \/ \E i \in Instances : handler[i].room = r /\ n <= handler[i].seq
    \/ \E p \in replies : p.room = r /\ n <= p.seq + 1

(* The lines `gone` of s are deleted, or moved and among the ones `given`. *)
Edit(s, gone, given) ==
    /\ Call /\ given \cap (lines[s] \ gone) = {}
    /\ lines' = [lines EXCEPT ![s] = (@ \ gone) \cup given]
    /\ taken' = [r \in Rooms |-> IF script[r] = s THEN taken[r] \ given ELSE taken[r]]
    /\ overtaken' = overtaken \cup
          {r \in Rooms : script[r] = s /\ \E n \in given : 0 < n /\ Passed(r, n)}
    /\ UNCHANGED <<status, sequence, script, handler, replies, cooldowns, activating, messages, started>>

CreateWarmingScriptLine(s) == \E n \in Orders : 0 < n /\ Edit(s, {}, {n})

UpdateWarmingScriptLine(s) ==
    \E m \in lines[s], n \in Orders \ lines[s] : 0 < n /\ Edit(s, {m}, {n})

DeleteWarmingScriptLine(s) == \E m \in lines[s] : Edit(s, {m}, {})

(* One transaction, in which the lines first get orders below 0 to make    *)
(* room for each other.                                                    *)
ReorderScriptLines(s) ==
    \E gone \in SUBSET lines[s] \ {{}}, given \in SUBSET Orders :
        Cardinality(given) = Cardinality(gone) /\ Edit(s, gone, given)

ReplyNext ==
    \/ \E i \in Instances : Receive(i) \/ CheckCooldown(i) \/ StartReply(i)
    \/ \E p \in replies :
          \/ ReplyFromAI(p) \/ ReplyFromScript(p) \/ NoReply(p)
          \/ UpdateRoomProgress(p) \/ SendReply(p)
    \/ \E r \in Rooms :
          \/ CooldownEnds(r) \/ BeginActivation(r) \/ Activate(r)
          \/ RestartRoom(r) \/ CleanupReplyTime(r)
          \/ \E to \in {"STOPPED", "PAUSED", "FINISHED"} : Deactivate(r, to)
          \/ \E s \in Scripts : UpdateWarmingRoom(r, s)
    \/ \E s \in Scripts :
          \/ CreateWarmingScriptLine(s) \/ UpdateWarmingScriptLine(s)
          \/ DeleteWarmingScriptLine(s) \/ ReorderScriptLines(s)

ReplySpec == ReplyInit /\ [][ReplyNext]_replyVars

-----------------------------------------------------------------------------
(* The sequence of a room passes a line only after a reply took it, though *)
(* replies start from old copies and run side by side, while lines are     *)
(* deleted and appended.  (Not so when a restart came between a message    *)
(* and its reply, when the room got another script, whose lines its        *)
(* sequence then skips, or when a line was put where the run had passed.   *)
(* A line that was reordered to 0 or below is never a reply: rooms begin   *)
(* after 0.)                                                               *)
NoReplySkipped ==
    \A r \in Rooms \ overtaken : \A n \in lines[script[r]] :
        0 < n /\ n <= sequence[r] => n \in taken[r]

(* internal/service/warming_auto_reply.go: the time is noted at once so    *)
(* that messages do not race for the cooldown.  Each instance starts one   *)
(* reply at most in a cooldown of a room; two instances that load before   *)
(* either stores may each start one.                                       *)
OneReplyPerCooldown == \A i \in Instances, r \in Rooms : started[i][r] <= 1
=============================================================================
