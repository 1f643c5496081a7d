---------------------------- MODULE VaclabSystem ----------------------------
(***************************************************************************)
(* The cluster, the bandwidth operator and the scheduler plugin together.  *)
(***************************************************************************)
EXTENDS BandwidthOperator, VaclabScheduling

vars == <<clusterVars, operatorVars, schedulerVars>>

Init == ClusterInit /\ OperatorInit /\ SchedulerInit

Next ==
    \/ ClusterNext /\ UNCHANGED <<operatorVars, schedulerVars>>
    \/ OperatorNext /\ UNCHANGED schedulerVars
    \/ SchedulerNext /\ UNCHANGED operatorVars

Spec == Init /\ [][Next]_vars

SteadyInit == OperatorSteadyInit(NonePlaced) /\ SchedulerInit
SteadySpec == SteadyInit /\ [][Next]_vars

-----------------------------------------------------------------------------
(* The scheduler's goroutines go on, and the scheduling queue moves a pod  *)
(* that was turned back to its end.                                        *)

SchedulerFairness ==
    /\ WF_vars(CycleStep /\ UNCHANGED operatorVars)
    /\ \A p \in Pods : /\ SF_vars(PreFilter(p) /\ UNCHANGED operatorVars)
                       /\ WF_vars(BindingStep(p) /\ UNCHANGED operatorVars)

Fairness == OperatorFairness /\ SchedulerFairness

FairSpec == Spec /\ Fairness
FairSteadySpec == SteadySpec /\ Fairness

-----------------------------------------------------------------------------
(* Properties.                                                             *)

\* EventuallyBound: a pod that fits on a node is bound in the end, or
\* deleted, or every node is gone, whatever conflicts Reserve runs into.
EventuallyBound ==
    \A p \in Pods :
        (pods[p].phase = "Pending")
           ~> (pods[p].node # NoNode \/ pods[p].phase = "Gone" \/ nodes = {})

\* The operator's view of the system, in which the scheduler is one client
\* among many: only the copies the operator holds are tracked.
OC == INSTANCE OperatorClients WITH
        current <- [n \in Nodes |-> current[n] \cap {"cache", "worker", "boot"}]

\* ImplementsClients: whatever the scheduler plugin does to Bandwidth objects
\* and pods is something OperatorClients allows a client to do.
ImplementsClients == OC!ClientsSpec

\* The requests of a node leave nothing of link l below zero.
LinkFits(n, l) ==
    \A d \in Dir : Remaining(setDefaultBandwidthValues(bw[n].capacity),
                             Used(bw[n].requests))[l][d] >= 0

\* NoOversubscription: the requests recorded on a node never exceed what its
\* local link holds.
NoOversubscription == \A n \in Nodes : Exists(n) => LinkFits(n, "local")

=============================================================================
