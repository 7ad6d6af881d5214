----------------------------- MODULE MCWorkers ------------------------------
(***************************************************************************)
(* Instances of the two halves of the worker process, which share no state *)
(* of their models: the manager of its goroutines (WorkerManager), and the *)
(* cycles on the outbox (OutboxWorker), one row and more that goes wrong   *)
(* than in MCOutboxCycles.  A behaviour is one of the half that `part`     *)
(* names, from its own initial state; the other half keeps its own.        *)
(***************************************************************************)
EXTENDS WorkerManager, OutboxWorker

CONSTANTS c1, c2, g1, g2, g3, k1, k2, q1, m1, m2, w1, w2, u1, appA

VARIABLE part

OneTenantClient == [m \in Msgs |-> u1]
OneTenantApp    == [m \in Msgs |-> appA]
Owners == [w \in Workers |-> IF w = w1 THEN u1 ELSE AnyClient]
Apps   == [w \in Workers |-> IF w = w1 THEN {} ELSE {appA}]

HalvesInit ==
    /\ part \in {"manager", "cycles"}
    /\ ManagerInit /\ Init

HalvesNext ==
    /\ UNCHANGED part
    /\ \/ part = "manager" /\ ManagerNext /\ UNCHANGED vars
       \/ part = "cycles" /\ Next /\ UNCHANGED managerVars

HalvesSpec ==
    HalvesInit /\ [][HalvesNext]_<<part, managerVars, vars>> /\ ManagerFairness
=============================================================================
