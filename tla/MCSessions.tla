---------------------------- MODULE MCSessions -----------------------------
(***************************************************************************)
(* Instances of InstanceSessions: one instance, whose requests and events  *)
(* share no state with those of another, and the orders of requests and    *)
(* events that lead to its sessions, flags and heartbeats being contested. *)
(***************************************************************************)
EXTENDS InstanceSessions

CONSTANTS i1

Kinds ==
    << {"load", "login"},
       {"connected", "qr"},
       {"disconnected", "loggedOut", "qr", "logout"},
       {"connected"},
       {"logout", "delete"} >>
=============================================================================
