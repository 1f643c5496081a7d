------------------------------ MODULE Bandwidth ------------------------------
(***************************************************************************)
(* The Bandwidth custom resource (one object per node) and the arithmetic  *)
(* the operator and the scheduler plugin do on it.  No state: the objects  *)
(* live in Cluster.  An amount of bandwidth is a vector over the two       *)
(* directions, a capacity one such vector per link.                        *)
(***************************************************************************)
EXTENDS Integers, FiniteSetsExt

CONSTANTS
    Nodes,            \* names of the nodes that may ever join the cluster
    Pods,             \* pod UIDs; a UID is used by one pod only
    NoNode,           \* spec.nodeName of a pod that is not bound
    NoRequest,        \* a pod without an entry in a list of requests
    Owners,           \* UIDs of the workloads (StatefulSets, ReplicaSets)
    NoOwner,          \* owner of a pod that was created directly
    Owner,            \* the controller of each pod
    Annotated,        \* pods that carry at least one bandwidth annotation
    Annotation,       \* Mbps the annotations parse to; 0: missing, unparsable
    DefaultMbps,      \* defaultEgressMbps, defaultIngressMbps of the plugin
    DefaultCapacity   \* the operator's default capacity of a node

Link == {"local", "network"}
Dir == {"ul", "dl"}

BandwidthDefinition == [Dir -> Int]
Capacity == [Link -> BandwidthDefinition]

ZeroMbps == [d \in Dir |-> 0]
ZeroCapacity == [l \in Link |-> ZeroMbps]

ASSUME BandwidthAssumption ==
    /\ NoNode \notin Nodes
    /\ NoRequest \notin [linkLocal : BOOLEAN, mbps : BandwidthDefinition]
    /\ NoOwner \notin Owners
    /\ Owner \in [Pods -> Owners \cup {NoOwner}]
    /\ IsFiniteSet(Pods)
    /\ Annotated \subseteq Pods
    /\ Annotation \in [Pods -> [Dir -> Nat]]
    /\ \A p \in Pods \ Annotated : Annotation[p] = ZeroMbps
    /\ DefaultMbps \in [Dir -> Nat]
    /\ DefaultCapacity \in [Link -> [Dir -> Nat]]

-----------------------------------------------------------------------------
(* spec.requests is keyed by pod UID: the scheduler drops an entry with    *)
(* the UID before it adds one, and the operator adds none.  The entries of *)
(* status.reservations hold the same two facts.                            *)

BandwidthRequest == [linkLocal : BOOLEAN, mbps : BandwidthDefinition]
Requests == [Pods -> BandwidthRequest \cup {NoRequest}]
NoRequests == [p \in Pods |-> NoRequest]

\* The pods that have an entry.
Entries(reqs) == {p \in Pods : reqs[p] # NoRequest}

Status == {"None", "Created", "Error"}
\* errorReason: the reason is not the empty string.
BandwidthStatus == [status : Status, errorReason : BOOLEAN,
                    used : Capacity, remaining : Capacity,
                    capacity : Capacity, reservations : Requests]
NewStatus == [status |-> "None", errorReason |-> FALSE, used |-> ZeroCapacity,
              remaining |-> ZeroCapacity, capacity |-> ZeroCapacity,
              reservations |-> NoRequests]

BandwidthObject == [requests : Requests, capacity : Capacity,
                    status : BandwidthStatus]

\* Operator: a capacity field left at 0 takes the configured default.
setDefaultBandwidthValues(cap) ==
    [l \in Link |-> [d \in Dir |->
        IF cap[l][d] = 0 THEN DefaultCapacity[l][d] ELSE cap[l][d]]]

NewBandwidth == [requests |-> NoRequests,
                 capacity |-> setDefaultBandwidthValues(ZeroCapacity),
                 status |-> NewStatus]

\* Operator: the local bridge carries every pod, the NIC only those whose
\* workload is not confined to this node.
RequestMbps(req, l) ==
    IF l = "network" /\ req.linkLocal THEN ZeroMbps ELSE req.mbps

Used(reqs) ==
    [l \in Link |-> [d \in Dir |->
        MapThenSumSet(LAMBDA p : RequestMbps(reqs[p], l)[d], Entries(reqs))]]

Remaining(cap, used) ==
    [l \in Link |-> [d \in Dir |-> cap[l][d] - used[l][d]]]

-----------------------------------------------------------------------------
(* The plugin's reading of a pod's annotations.                            *)

\* A direction without a usable annotation takes the plugin's default.
ExtractPodBandwidthRequirement(p) ==
    [d \in Dir |-> IF Annotation[p][d] = 0 THEN DefaultMbps[d]
                                           ELSE Annotation[p][d]]

NeedsBandwidth(p) == ExtractPodBandwidthRequirement(p) # ZeroMbps

\* Mutants of Fits: off by one, either way.
FitsRoughly(mbps, remaining) ==
    \A l \in Link, d \in Dir : remaining[l][d] + 1 >= mbps[d]

FitsStrictly(mbps, remaining) ==
    \A l \in Link, d \in Dir : remaining[l][d] > mbps[d]

\* A request fits what is left of both links, in both directions.
Fits(mbps, remaining) ==
    \A l \in Link, d \in Dir : remaining[l][d] >= mbps[d]

\* An entry with the pod's UID is replaced; linkLocal is left FALSE.
AddBandwidthRequest(reqs, p) ==
    [reqs EXCEPT ![p] = [linkLocal |-> FALSE,
                         mbps |-> ExtractPodBandwidthRequirement(p)]]

RemoveBandwidthRequest(reqs, p) == [reqs EXCEPT ![p] = NoRequest]
=============================================================================
