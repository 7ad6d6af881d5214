---------------------------- MODULE LeasedQueue ----------------------------
(***************************************************************************)
(* What the blast outbox promises, stated without the database: a queue in *)
(* which a worker that takes a message holds a lease on it, the only one.  *)
(* A lease may run out under a holder that is still at work.  Such a past  *)
(* holder can no longer be told from a dead one: the message is offered    *)
(* once more, and both will record an outcome in the end.  A message whose *)
(* lease never ran out has one outcome for ever.                           *)
(*                                                                         *)
(* The outbox table has no lease column: rows are updated by id alone, and *)
(* a timer decides that a claim is dead.                                   *)
(***************************************************************************)
EXTENDS Naturals

CONSTANTS
    Msgs,     \* the messages that may ever be submitted
    Workers   \* whoever takes messages from the queue

VARIABLES
    state,    \* state[m]: where message m is in its life
    lease,    \* lease[m]: the workers with a lease on m, at most one of them
    past,     \* past[m]: workers at m whose lease has run out
    expired,  \* messages some lease of which has run out
    copies,   \* copies[m]: how often m was handed to the network
    budget    \* budget[m]: how many copies of m there may be

vars == <<state, lease, past, expired, copies, budget>>

States  == {"absent", "pending", "processing", "sent", "failed"}
Settled == {"sent", "failed"}

TypeOK ==
    /\ state \in [Msgs -> States]
    /\ lease \in [Msgs -> SUBSET Workers]
    /\ past \in [Msgs -> SUBSET Workers]
    /\ expired \in SUBSET Msgs
    /\ copies \in [Msgs -> Nat]
    /\ budget \in [Msgs -> Nat]

Init ==
    /\ state = [m \in Msgs |-> "absent"]
    /\ lease = [m \in Msgs |-> {}]
    /\ past = [m \in Msgs |-> {}]
    /\ expired = {}
    /\ copies = [m \in Msgs |-> 0]
    /\ budget = [m \in Msgs |-> 1]

(* New messages become available. *)
Submit(S) ==
    /\ \A m \in S : state[m] = "absent"
    /\ state' = [m \in Msgs |-> IF m \in S THEN "pending" ELSE state[m]]
    /\ UNCHANGED <<lease, past, expired, copies, budget>>

(* A worker takes a pending message, and may lose it at once (L = {}). *)
Take(m, L) ==
    /\ state[m] = "pending" /\ lease[m] = {}
    /\ \E w \in Workers : L \subseteq {w}
    /\ state' = [state EXCEPT ![m] = "processing"]
    /\ lease' = [lease EXCEPT ![m] = L]
    /\ UNCHANGED <<past, expired, copies, budget>>

(* The message goes out; also later than its lease, when the network was slow. *)
Transmit(m) ==
    /\ copies[m] < budget[m]
    /\ copies' = [copies EXCEPT ![m] = @ + 1]
    /\ UNCHANGED <<state, lease, past, expired, budget>>

(* A worker at m is done with it. *)
Leave(m, w) ==
    /\ w \in lease[m] \cup past[m]
    /\ lease' = [lease EXCEPT ![m] = @ \ {w}]
    /\ past' = [past EXCEPT ![m] = @ \ {w}]

(* It records the outcome.  Only where a lease has run out can the message *)
(* be anything else than in processing then.                               *)
Settle(m, w, outcome) ==
    /\ Leave(m, w)
    /\ state[m] = "processing" \/ m \in expired
    /\ outcome = "sent" => copies[m] > 0
    /\ state' = [state EXCEPT ![m] = outcome]
    /\ UNCHANGED <<expired, copies, budget>>

(* It gives the message up with no outcome recorded; whether it went out   *)
(* is not known, so another holder may send a second copy.                 *)
Lose(m, w) ==
    /\ Leave(m, w)
    /\ budget' = [budget EXCEPT ![m] = IF w \in lease[m] THEN @ + 1 ELSE @]
    /\ UNCHANGED <<state, expired, copies>>

(* The lease on m runs out while its holder is at work. *)
Expire(m) ==
    /\ lease[m] # {}
    /\ state[m] = "processing"
    /\ lease' = [lease EXCEPT ![m] = {}]
    /\ past' = [past EXCEPT ![m] = @ \cup lease[m]]
    /\ expired' = expired \cup {m}
    /\ budget' = [budget EXCEPT ![m] = @ + 1]
    /\ UNCHANGED <<state, copies>>

(* Messages on which nobody has a lease are offered once more. *)
Requeue(S) ==
    /\ \A m \in S : state[m] = "processing" /\ lease[m] = {}
    /\ state' = [m \in Msgs |-> IF m \in S THEN "pending" ELSE state[m]]
    /\ UNCHANGED <<lease, past, expired, copies, budget>>

Next ==
    \/ \E S \in SUBSET Msgs : Submit(S) \/ Requeue(S)
    \/ \E m \in Msgs :
          \/ \E L \in SUBSET Workers : Take(m, L)
          \/ Transmit(m) \/ Expire(m)
          \/ \E w \in Workers :
                Lose(m, w) \/ \E outcome \in Settled : Settle(m, w, outcome)

Spec == Init /\ [][Next]_vars
=============================================================================
