------------------------------ MODULE Webhook -------------------------------
(***************************************************************************)
(* Webhooks of one instance: the cached configuration and the retried      *)
(* delivery of internal/service/webhook.go, and SetWebhookConfig of        *)
(* internal/handler/webhook.go.                                            *)
(*                                                                         *)
(* A configuration is a URL and a secret, each named by the update that    *)
(* brought it, 0 for none.  The cache is filled after the row was read and *)
(* emptied after it was written, and nothing keeps a fill and an update    *)
(* apart; an update without a secret writes the one it read before.        *)
(***************************************************************************)
EXTENDS Integers

CONSTANTS
    Sends,      \* incoming messages that are passed on
    Updates,    \* calls of SetWebhookConfig, numbers above 0
    Gives,      \* those that name a secret
    Attempts    \* len(webhookRetryBackoffs) + 1, four in the code

VARIABLES
    row,         \* webhook_url and webhook_secret of the instance, or Missing
    cache,       \* the entry of webhookCache, or Missing
    fresh,       \* the entry has not expired
    behind,      \* history: the row was written between the entry's read and its store
    sending,     \* sending[s]: where SendIncomingMessageWebhook or its goroutine is
    config,      \* config[s]: the configuration it read or works with
    overwritten, \* history: the row was written while s is filling
    tries,       \* tries[s]: attempts made
    updating,    \* updating[u]: where the update is
    secret,      \* secret[u]: its effective secret
    outdated,    \* history: another update wrote after u read the row
    deletion     \* where DeleteInstance is

entry   == <<cache, fresh, behind>>
sends   == <<sending, config, overwritten, tries>>
updates == <<updating, secret, outdated, deletion>>
webhookVars == <<row, entry, sends, updates>>

None    == [url |-> 0, secret |-> 0]
Missing == [url |-> -1, secret |-> -1]

WebhookInit ==
    /\ row = None
    /\ cache = Missing /\ fresh = FALSE /\ behind = FALSE
    /\ sending = [s \in Sends |-> "new"]
    /\ config = [s \in Sends |-> None]
    /\ overwritten = [s \in Sends |-> FALSE]
    /\ tries = [s \in Sends |-> 0]
    /\ updating = [u \in Updates |-> "new"]
    /\ secret = [u \in Updates |-> 0]
    /\ outdated = [u \in Updates |-> FALSE]
    /\ deletion = "no"

Goto(s, where) == sending' = [sending EXCEPT ![s] = where]

-----------------------------------------------------------------------------
(* GetWebhookConfig.                                                       *)

Usable == cache # Missing /\ fresh

(* A configuration without a URL ends the call. *)
Proceed(s, c) ==
    /\ config' = [config EXCEPT ![s] = c]
    /\ Goto(s, IF c.url = 0 THEN "ended" ELSE "trying")

Hit(s) ==
    /\ sending[s] = "new" /\ Usable
    /\ Proceed(s, cache)
    /\ UNCHANGED <<row, entry, overwritten, tries, updates>>

(* A miss reads the row; when the instance is gone, the call ends... *)
Miss(s) ==
    /\ sending[s] = "new" /\ ~ Usable
    /\ IF row = Missing
         THEN Goto(s, "ended") /\ UNCHANGED config
         ELSE Goto(s, "filling") /\ config' = [config EXCEPT ![s] = row]
    /\ UNCHANGED <<row, entry, overwritten, tries, updates>>

(* ...and what was read is stored, whatever the row is by then. *)
Fill(s) ==
    /\ sending[s] = "filling"
    /\ cache' = config[s] /\ fresh' = TRUE /\ behind' = overwritten[s]
    /\ overwritten' = [overwritten EXCEPT ![s] = FALSE]
    /\ Proceed(s, config[s])
    /\ UNCHANGED <<row, tries, updates>>

(* Five minutes pass. *)
Expire ==
    /\ Usable
    /\ fresh' = FALSE
    /\ UNCHANGED <<row, cache, behind, sends, updates>>

Clear == cache' = Missing /\ fresh' = FALSE /\ behind' = FALSE

(* sweepExpiredWebhookCache. *)
Sweep ==
    /\ cache # Missing /\ ~ fresh
    /\ Clear
    /\ UNCHANGED <<row, sends, updates>>

-----------------------------------------------------------------------------
(* The delivery: it ends with a status below 500, or with the last attempt.*)

Try(s) ==
    /\ sending[s] = "trying"
    /\ tries' = [tries EXCEPT ![s] = @ + 1]
    /\ \/ Goto(s, "ended")
       \/ Goto(s, IF tries[s] + 1 < Attempts THEN "waiting" ELSE "ended")
    /\ UNCHANGED <<row, entry, config, overwritten, updates>>

Retry(s) ==
    /\ sending[s] = "waiting"
    /\ Goto(s, "trying")
    /\ UNCHANGED <<row, entry, config, overwritten, tries, updates>>

-----------------------------------------------------------------------------
(* Updates.                                                                *)

\* Faulty variant: a call that names no secret always makes a new one.
FaultyEffective(u) == u

(* The secret of the request, the one of the row, or a new one. *)
Effective(u) == IF u \in Gives \/ row.secret = 0 THEN u ELSE row.secret

(* SetWebhookConfig reads the instance and settles the secret. *)
ReadInstance(u) ==
    /\ updating[u] = "new" /\ row # Missing
    /\ updating' = [updating EXCEPT ![u] = "read"]
    /\ secret' = [secret EXCEPT ![u] = Effective(u)]
    /\ UNCHANGED <<row, entry, sends, outdated, deletion>>

(* The row changes under the fills and the updates that have read it. *)
Overtake ==
    /\ overwritten' = [s \in Sends |-> overwritten[s] \/ sending[s] = "filling"]
    /\ outdated' = [u \in Updates |-> outdated[u] \/ updating[u] = "read"]

(* One UPDATE; no row, no update, and the request fails. *)
UpdateInstanceWebhook(u) ==
    /\ updating[u] = "read"
    /\ IF row = Missing
         THEN /\ updating' = [updating EXCEPT ![u] = "ended"]
              /\ UNCHANGED <<row, overwritten, outdated>>
         ELSE /\ row' = [url |-> u, secret |-> secret[u]]
              /\ updating' = [updating EXCEPT ![u] = "written"]
              /\ Overtake
    /\ UNCHANGED <<entry, sending, config, tries, secret, deletion>>

\* Faulty variant: an update leaves the cache alone.
FaultyInvalidate == UNCHANGED entry

Invalidate == Clear

InvalidateWebhookCache(u) ==
    /\ updating[u] = "written"
    /\ updating' = [updating EXCEPT ![u] = "ended"]
    /\ Invalidate
    /\ UNCHANGED <<row, sends, secret, outdated, deletion>>

(* DeleteInstance deletes the row, and then invalidates the entry. *)
DeleteRow ==
    /\ deletion = "no"
    /\ deletion' = "deleted"
    /\ row' = Missing
    /\ Overtake
    /\ UNCHANGED <<entry, sending, config, tries, updating, secret>>

ForgetInstance ==
    /\ deletion = "deleted"
    /\ deletion' = "ended"
    /\ Invalidate
    /\ UNCHANGED <<row, sends, updating, secret, outdated>>

WebhookNext ==
    \/ \E s \in Sends : Hit(s) \/ Miss(s) \/ Fill(s) \/ Try(s) \/ Retry(s)
    \/ \E u \in Updates : ReadInstance(u) \/ UpdateInstanceWebhook(u) \/ InvalidateWebhookCache(u)
    \/ Expire \/ Sweep \/ DeleteRow \/ ForgetInstance

WebhookSpec == WebhookInit /\ [][WebhookNext]_webhookVars

-----------------------------------------------------------------------------
(* The row was written and the entry is still to be removed. *)
Invalidating == deletion = "deleted" \/ \E u \in Updates : updating[u] = "written"

(* An entry that is used differs from the row only while an update has     *)
(* still to invalidate it, or when its fill had read the row before an     *)
(* update and stored it after: then it is used for the rest of its time.   *)
StaleForCause ==
    Usable /\ cache # row => Invalidating \/ behind

(* An update that names no secret keeps the one that receivers know, but   *)
(* for another update or the deletion between its read and its write.      *)
SecretKept ==
    [][\A u \in Updates \ Gives :
          updating[u] = "read" /\ updating'[u] = "written" =>
            row'.secret = row.secret \/ row.secret = 0 \/ outdated[u]]_webhookVars
=============================================================================
