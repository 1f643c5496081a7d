-------------------------- MODULE MCOperatorClients --------------------------
(***************************************************************************)
(* OperatorClients with at most MaxWrites writes of clients.               *)
(***************************************************************************)
EXTENDS OperatorClients, MCBase

CONSTANT MaxWrites

VARIABLE writes

MCNext ==
    \/ /\ \/ ClusterNext /\ UNCHANGED operatorVars
          \/ OperatorNext
          \/ ClientFails
       /\ UNCHANGED writes
    \/ /\ writes < MaxWrites /\ writes' = writes + 1
       /\ ClientWrite

mcVars == <<opVars, writes>>

MCInit == ClientsInit /\ writes = 0
MCSpec == MCInit /\ [][MCNext]_mcVars

\* p1 runs on n1; what its siblings do is still to come.
MCPlacedSpec ==
    /\ OperatorSteadyInit([p \in Pods |-> IF p = p1 THEN n1 ELSE NoNode])
    /\ writes = 0
    /\ [][MCNext]_mcVars
    /\ OperatorFairness
=============================================================================
