------------------------------ MODULE MCOutbox ------------------------------
(***************************************************************************)
(* Instances of OutboxWorker for TLC.                                      *)
(***************************************************************************)
EXTENDS OutboxWorker

CONSTANTS m1, m2, w1, w2, c1, c2, appA

\* m1 and m2 belong to one client and one application.
OneTenantClient == [m \in Msgs |-> c1]
OneTenantApp    == [m \in Msgs |-> appA]

\* w1 is the client's own wildcard worker, w2 an administrator's worker
\* restricted to appA.
Owners == [w \in Workers |-> IF w = w1 THEN c1 ELSE AnyClient]
Apps   == [w \in Workers |-> IF w = w1 THEN {} ELSE {appA}]

\* m1 was enqueued without the optional application.
UnnamedApp == [m \in Msgs |-> IF m = m1 THEN NullApp ELSE appA]
=============================================================================
