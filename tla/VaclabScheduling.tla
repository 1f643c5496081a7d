--------------------------- MODULE VaclabScheduling ---------------------------
(***************************************************************************)
(* The VaclabScheduling plugin inside the scheduling framework.  Pods go   *)
(* one at a time through the scheduling cycle (PreFilter, Filter, Score,   *)
(* Reserve); the binding cycles of different pods run beside it and beside *)
(* each other.  The plugin reads the API server directly, once per         *)
(* extension point, and writes with the version it has just read.          *)
(***************************************************************************)
EXTENDS Cluster, VaclabScore

CONSTANT NoPod     \* the pod of the scheduling cycle when there is none

ASSUME NoPodAssumption == NoPod \notin Pods

\* A binding cycle holds copies under its pod's UID, and under no other name.
ASSUME HolderAssumption == Pods \cap {"cache", "worker", "boot", "cycle"} = {}

VARIABLES
    cycle,     \* the scheduling cycle in progress: where it is, its pod, the node it
               \* reserves on once it has chosen one, and those that passed Filter
    binding    \* pod UID -> its binding cycle: where it is, and the node

schedulerVars == <<cycle, binding>>

NoCycle == [pc |-> "idle", pod |-> NoPod, node |-> NoNode, feasible |-> {}]
NoBinding == [pc |-> "none", node |-> NoNode]

SchedulerInit ==
    /\ cycle = NoCycle
    /\ binding = [p \in Pods |-> NoBinding]

-----------------------------------------------------------------------------

Ready(n) == Exists(n) /\ bw[n].status.status = "Created"

\* PreFilter lists all objects, whatever their status says.
FeasibleSomewhere(p) ==
    \/ ~NeedsBandwidth(p)
    \/ \E n \in Nodes : /\ Exists(n)
                        /\ Fits(ExtractPodBandwidthRequirement(p),
                                bw[n].status.remaining)

HasSufficientBandwidth(n, p) ==
    Fits(ExtractPodBandwidthRequirement(p), bw[n].status.remaining)

\* Pods of the workload among the published reservations of the node.
CalculateLocalityScore(p, n) ==
    IF Owner[p] = NoOwner THEN 0
    ELSE Quantify(Entries(bw[n].status.reservations),
                  LAMBDA q : Owner[q] = Owner[p])

Score(p, n) ==
    TotalScore(CalculateLocalityScore(p, n),
               BandwidthScore(bw[n].status.remaining["network"],
                              ExtractPodBandwidthRequirement(p)))

-----------------------------------------------------------------------------
(* The scheduling cycle.                                                   *)

\* A pod is popped from the scheduling queue; one that is feasible nowhere
\* goes back to it.
PreFilter(p) ==
    /\ cycle.pc = "idle"
    /\ pods[p].phase = "Pending" /\ pods[p].node = NoNode
    /\ binding[p].pc = "none"
    /\ FeasibleSomewhere(p)
    /\ cycle' = [NoCycle EXCEPT !.pc = "filter", !.pod = p]
    /\ UNCHANGED <<clusterVars, binding>>

\* An error of Filter on one node ends the cycle; so does an empty result.
Filter ==
    /\ cycle.pc = "filter"
    /\ LET feasible == {n \in nodes : HasSufficientBandwidth(n, cycle.pod)}
       IN  cycle' = IF (\E n \in nodes : ~Ready(n)) \/ feasible = {}
                      THEN NoCycle
                      ELSE [cycle EXCEPT !.pc = "score", !.feasible = feasible]
    /\ UNCHANGED <<clusterVars, binding>>

\* A single feasible node is taken unscored.  An error of Score ends the
\* cycle.
ScoreNodes ==
    /\ cycle.pc = "score"
    /\ LET feasible == cycle.feasible
           scores == [n \in feasible |-> Score(cycle.pod, n)]
           total == NormalizeScore(scores)
           Choose(n) == cycle' = [cycle EXCEPT !.pc = "reserve", !.node = n]
       IN  \/ /\ Cardinality(feasible) = 1
              /\ \E n \in feasible : Choose(n)
           \/ /\ Cardinality(feasible) > 1
              /\ \E n \in feasible : ~Ready(n)
              /\ cycle' = NoCycle
           \/ /\ Cardinality(feasible) > 1
              /\ \A n \in feasible : Ready(n)
              /\ \E n \in feasible : /\ \A m \in feasible : total[n] >= total[m]
                                     /\ Choose(n)
    /\ UNCHANGED <<clusterVars, binding>>

StartBinding(p, n) ==
    /\ binding' = [binding EXCEPT ![p] = [pc |-> "bind", node |-> n]]
    /\ cycle' = NoCycle

\* Reserve, AddBandwidthRequest: the read.  A pod that asks for nothing
\* passes; a failed read makes Reserve fail, and Unreserve follow.
ReserveGet ==
    /\ cycle.pc = "reserve"
    /\ LET n == cycle.node
       IN  \/ /\ ~NeedsBandwidth(cycle.pod)
              /\ StartBinding(cycle.pod, n)
              /\ UNCHANGED <<current, budget>>
           \/ /\ NeedsBandwidth(cycle.pod) /\ Exists(n)
              /\ Hold(n, "cycle")
              /\ cycle' = [cycle EXCEPT !.pc = "reserveUpdate"]
              /\ UNCHANGED <<binding, budget>>
           \/ /\ NeedsBandwidth(cycle.pod)
              /\ IF Exists(n) THEN Spend("fault") ELSE UNCHANGED budget
              /\ cycle' = [cycle EXCEPT !.pc = "unreserve"]
              /\ UNCHANGED <<binding, current>>
    /\ UNCHANGED <<bw, pods, nodes>>

AddRequest(n, p) ==
    StoreSpec(n, AddBandwidthRequest(bw[n].requests, p), bw[n].capacity)

RemoveRequest(n, p) ==
    StoreSpec(n, RemoveBandwidthRequest(bw[n].requests, p), bw[n].capacity)

\* The write.  There is no retry: a conflict fails Reserve.  A request that
\* fails may have been carried out.
ReserveUpdate ==
    /\ cycle.pc = "reserveUpdate"
    /\ LET n == cycle.node
           p == cycle.pod
           accepted == "cycle" \in current[n] /\ Exists(n)
           Fail == cycle' = [cycle EXCEPT !.pc = "unreserve"]
       IN  \/ /\ accepted
              /\ AddRequest(n, p)
              /\ StartBinding(p, n)
              /\ UNCHANGED budget
           \/ /\ accepted
              /\ Spend("fault")
              /\ AddRequest(n, p) \/ (LetGo(n, "cycle") /\ UNCHANGED bw)
              /\ Fail /\ UNCHANGED binding
           \/ /\ ~accepted
              /\ LetGo(n, "cycle") /\ UNCHANGED bw
              /\ Fail /\ UNCHANGED <<binding, budget>>
    /\ UNCHANGED <<pods, nodes>>

-----------------------------------------------------------------------------
(* Unreserve, by the scheduling cycle after a failed Reserve and by the    *)
(* binding cycle after a failed Bind.  Errors are only logged.             *)

Removable(n, p) == Exists(n) /\ p \in Entries(bw[n].requests)

\* The read of RemoveBandwidthRequest finds nothing to remove, or fails.
UnreserveGivesUp(n, p) ==
    /\ IF Removable(n, p) THEN Spend("fault") ELSE UNCHANGED budget
    /\ UNCHANGED current

\* The write of RemoveBandwidthRequest by holder h, accepted or not.
UnreserveUpdate(n, p, h) ==
    \/ /\ h \in current[n] /\ Exists(n)
       /\ RemoveRequest(n, p)
       /\ UNCHANGED budget
    \/ /\ IF h \in current[n] /\ Exists(n) THEN Spend("fault")
                                           ELSE UNCHANGED budget
       /\ LetGo(n, h) /\ UNCHANGED bw

CycleUnreserveGet ==
    /\ cycle.pc = "unreserve"
    /\ \/ /\ Removable(cycle.node, cycle.pod)
          /\ Hold(cycle.node, "cycle")
          /\ cycle' = [cycle EXCEPT !.pc = "unreserveUpdate"]
          /\ UNCHANGED budget
       \/ /\ UnreserveGivesUp(cycle.node, cycle.pod)
          /\ cycle' = NoCycle
    /\ UNCHANGED <<bw, pods, nodes, binding>>

CycleUnreserveUpdate ==
    /\ cycle.pc = "unreserveUpdate"
    /\ UnreserveUpdate(cycle.node, cycle.pod, "cycle")
    /\ cycle' = NoCycle
    /\ UNCHANGED <<pods, nodes, binding>>

-----------------------------------------------------------------------------
(* The binding cycle.  PreBind and PostBind only log.                      *)

SetBinding(p, pc) == binding' = [binding EXCEPT ![p].pc = pc]

EndBinding(p) == binding' = [binding EXCEPT ![p] = NoBinding]

\* A mutant of Bindable: nobody looks whether the pod is still there.
BindableOnce(p) == pods[p].node = NoNode

Bindable(p) == pods[p].phase = "Pending" /\ pods[p].node = NoNode

\* DefaultBinder posts name, UID and node: nothing else of the pod in
\* memory, its annotations in particular, reaches the API server.
Bind(p) ==
    /\ binding[p].pc = "bind" /\ Bindable(p)
    /\ pods' = [pods EXCEPT ![p].node = binding[p].node]
    /\ EndBinding(p)
    /\ UNCHANGED <<bw, current, nodes, budget, cycle>>

\* The pod is gone, or the request fails; then it may have been carried out.
BindFails(p) ==
    /\ binding[p].pc = "bind"
    /\ \/ ~Bindable(p) /\ UNCHANGED <<pods, budget>>
       \/ /\ Bindable(p) /\ Spend("fault")
          /\ \/ pods' = [pods EXCEPT ![p].node = binding[p].node]
             \/ UNCHANGED pods
    /\ IF NeedsBandwidth(p) THEN SetBinding(p, "unreserve") ELSE EndBinding(p)
    /\ UNCHANGED <<bw, current, nodes, cycle>>

BindingUnreserveGet(p) ==
    /\ binding[p].pc = "unreserve"
    /\ \/ /\ Removable(binding[p].node, p)
          /\ Hold(binding[p].node, p)
          /\ SetBinding(p, "unreserveUpdate")
          /\ UNCHANGED budget
       \/ /\ UnreserveGivesUp(binding[p].node, p)
          /\ EndBinding(p)
    /\ UNCHANGED <<bw, pods, nodes, cycle>>

BindingUnreserveUpdate(p) ==
    /\ binding[p].pc = "unreserveUpdate"
    /\ UnreserveUpdate(binding[p].node, p, p)
    /\ EndBinding(p)
    /\ UNCHANGED <<pods, nodes, cycle>>

\* The scheduler stops and starts again: the cycles in progress are lost.
SchedulerRestart ==
    /\ Spend("restart")
    /\ cycle' = NoCycle
    /\ binding' = [p \in Pods |-> NoBinding]
    /\ current' = [n \in Nodes |-> current[n] \ ({"cycle"} \cup Pods)]
    /\ UNCHANGED <<bw, pods, nodes>>

CycleStep ==
    \/ Filter
    \/ ScoreNodes
    \/ ReserveGet
    \/ ReserveUpdate
    \/ CycleUnreserveGet
    \/ CycleUnreserveUpdate

BindingStep(p) ==
    \/ Bind(p)
    \/ BindFails(p)
    \/ BindingUnreserveGet(p)
    \/ BindingUnreserveUpdate(p)

SchedulerNext ==
    \/ \E p \in Pods : PreFilter(p) \/ BindingStep(p)
    \/ CycleStep
    \/ SchedulerRestart
=============================================================================
