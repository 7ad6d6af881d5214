---------------------------- MODULE MCServices ------------------------------
(***************************************************************************)
(* Five components that share no state, side by side: the daily limit of   *)
(* EnqueueLimit, the hub, the webhooks, the logins and the auto-replies.   *)
(* A behaviour is one of the component that `part` names, from its own     *)
(* initial state; the others keep theirs.                                  *)
(***************************************************************************)
EXTENDS EnqueueLimit, Hub, Webhook, AuthSessions, AutoReply

CONSTANTS
    Parts,
    t1, t2, t3, t4, u1, u2, c1, c2

VARIABLE part

Requester == [t \in Txns |-> IF t = t4 THEN u2 ELSE u1]
Sizes     == [t \in Txns |-> IF t = t1 THEN 2 ELSE 1]

(* c2 follows another instance, whose only event is the third. *)
Followed == [c \in Clients |-> IF c = c2 THEN {3} ELSE 1..MaxEvents]

(* To begin with the rooms have different scripts. *)
Assigned == CHOOSE f \in [Rooms -> Scripts] : \A q, r \in Rooms : f[q] = f[r] => q = r

allvars == <<part, vars, hubVars, webhookVars, authVars, replyVars>>

PartsInit ==
    /\ part \in Parts
    /\ Init /\ HubInit /\ WebhookInit /\ AuthInit /\ ReplyInit
    /\ script = Assigned

PartsNext ==
    /\ UNCHANGED part
    /\ \/ part = "enqueue" /\ Next /\ UNCHANGED <<hubVars, webhookVars, authVars, replyVars>>
       \/ part = "hub" /\ HubNext /\ UNCHANGED <<vars, webhookVars, authVars, replyVars>>
       \/ part = "webhook" /\ WebhookNext /\ UNCHANGED <<vars, hubVars, authVars, replyVars>>
       \/ part = "auth" /\ AuthNext /\ UNCHANGED <<vars, hubVars, webhookVars, replyVars>>
       \/ part = "reply" /\ ReplyNext /\ UNCHANGED <<vars, hubVars, webhookVars, authVars>>

(* Fairness and HubFairness, each in the behaviours of its part. *)
PartsFairness ==
    /\ WF_vars(part = "enqueue" /\ \E t \in Txns : Serve(t))
    /\ WF_hubVars(part = "hub" /\ Work)

PartsSpec == PartsInit /\ [][PartsNext]_allvars /\ PartsFairness
=============================================================================
