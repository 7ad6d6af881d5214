----------------------------- MODULE MCRequests -----------------------------
(***************************************************************************)
(* Instance of Requests for TLC: a user, two instances that may carry the  *)
(* same number, and a task that serves every endpoint.  A call writes      *)
(* nothing another call reads but the entry of a search for mutual groups, *)
(* so one call at a time meets every change of the instances that it can   *)
(* meet; and a call of an administrator takes the steps that one of a user *)
(* with access to every instance takes.                                    *)
(***************************************************************************)
EXTENDS Requests

CONSTANTS t1, user, i1, i2, n1, n2, l1, l2

Roles  == [u \in Users |-> "user"]
Serves == [t \in Tasks |-> DOMAIN Handler]
Claims == [t \in Tasks |-> Users]
=============================================================================
