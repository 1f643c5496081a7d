------------------------------- MODULE Cluster -------------------------------
(***************************************************************************)
(* The Kubernetes API server as the operator and the scheduler use it, and *)
(* the part of the cluster neither controls: users, kubelets and nodes.    *)
(*                                                                         *)
(* Every client that holds a copy of a Bandwidth object writes it back     *)
(* with the resourceVersion it read.  Versions are modelled by who holds   *)
(* the latest one: current[n] is the set of holders whose copy of node n's *)
(* object is the stored version.  A write succeeds iff the writer is in    *)
(* current[n], and makes every other copy old.                             *)
(***************************************************************************)
EXTENDS Bandwidth

CONSTANTS
    NoBandwidth,   \* bw[n] when node n has no Bandwidth object
    InitNodes,     \* nodes present when the history starts
    Capacities,    \* what an administrator may set spec.capacity to
    Budget         \* how often each kind of event in Rare may happen

Rare == {"fault", "node", "edit", "restart", "finish", "delete"}

ASSUME ClusterAssumption ==
    /\ NoBandwidth \notin BandwidthObject
    /\ InitNodes \subseteq Nodes
    /\ Capacities \subseteq [Link -> [Dir -> Nat]]
    /\ Budget \in [Rare -> Nat]

VARIABLES
    bw,        \* node -> the stored Bandwidth object or NoBandwidth
    current,   \* node -> holders of the stored version of its object
    pods,      \* pod UID -> the stored pod
    nodes,     \* the stored nodes
    budget     \* the events of Rare that may still happen

clusterVars == <<bw, current, pods, nodes, budget>>

\* The operator's informer cache, its worker and its bootstrap, the
\* scheduling cycle, and the binding cycle of each pod.
Holder == {"cache", "worker", "boot", "cycle"} \cup Pods

Phase == {"Unborn", "Pending", "Running", "Done", "Gone"}
Pod == [phase : Phase, node : Nodes \cup {NoNode}, deleting : BOOLEAN]

ClusterTypeOK ==
    /\ bw \in [Nodes -> BandwidthObject \cup {NoBandwidth}]
    /\ current \in [Nodes -> SUBSET Holder]
    /\ pods \in [Pods -> Pod]
    /\ nodes \subseteq Nodes
    /\ budget \in [Rare -> Nat]

ClusterInit ==
    /\ bw = [n \in Nodes |-> NoBandwidth]
    /\ current = [n \in Nodes |-> {"cache"}]
    /\ pods = [p \in Pods |->
                 [phase |-> "Unborn", node |-> NoNode, deleting |-> FALSE]]
    /\ nodes = InitNodes
    /\ budget = Budget

Spend(kind) ==
    /\ budget[kind] > 0
    /\ budget' = [budget EXCEPT ![kind] = @ - 1]

-----------------------------------------------------------------------------
(* The API server's operations on Bandwidth objects.                       *)

Exists(n) == bw[n] # NoBandwidth

\* No client goes on with the object a write returned: the next thing each
\* does is to read again, or to end.  A write leaves no holder.
Store(n, obj) ==
    /\ bw' = [bw EXCEPT ![n] = obj]
    /\ current' = [current EXCEPT ![n] = {}]

\* Update sends the whole object; the server keeps the stored status, and
\* an update that changes nothing does not make a new version.
StoreSpec(n, reqs, cap) ==
    LET obj == [bw[n] EXCEPT !.requests = reqs, !.capacity = cap]
    IN  IF obj = bw[n] THEN UNCHANGED <<bw, current>> ELSE Store(n, obj)

\* Status().Update keeps the stored spec.  Its callers move updatedAt, so
\* it always makes a new version.
StoreStatus(n, status) == Store(n, [bw[n] EXCEPT !.status = status])

\* Delete has no version precondition; deleting what is gone does nothing.
StoreDelete(n) ==
    IF Exists(n) THEN Store(n, NoBandwidth) ELSE UNCHANGED <<bw, current>>

\* A read from the API server hands out the stored version.
Hold(n, holder) == current' = [current EXCEPT ![n] = @ \cup {holder}]

\* A read from the operator's cache hands out the cache's version.
HoldCached(n, holder) ==
    current' = [current EXCEPT ![n] =
                   IF "cache" \in @ THEN @ \cup {holder} ELSE @ \ {holder}]

LetGo(n, holder) == current' = [current EXCEPT ![n] = @ \ {holder}]

-----------------------------------------------------------------------------
(* Users, kubelets and nodes.                                              *)

Present(pod) == pod.phase \notin {"Unborn", "Gone"}
Live(pod) == pod.phase \in {"Pending", "Running"} /\ ~pod.deleting

CreatePod(p) ==
    /\ pods[p].phase = "Unborn"
    /\ pods' = [pods EXCEPT ![p].phase = "Pending"]
    /\ UNCHANGED <<bw, current, nodes, budget>>

RunPod(p) ==
    /\ pods[p].phase = "Pending" /\ ~pods[p].deleting
    /\ pods[p].node \in nodes
    /\ pods' = [pods EXCEPT ![p].phase = "Running"]
    /\ UNCHANGED <<bw, current, nodes, budget>>

\* Succeeded or Failed; a kubelet may also fail a pod it does not admit.
FinishPod(p) ==
    /\ Live(pods[p]) /\ pods[p].node \in nodes
    /\ Spend("finish")
    /\ pods' = [pods EXCEPT ![p].phase = "Done"]
    /\ UNCHANGED <<bw, current, nodes>>

\* A bound pod is deleted gracefully, an unbound one at once.
DeletePod(p) ==
    /\ Present(pods[p]) /\ ~pods[p].deleting
    /\ Spend("delete")
    /\ pods' = [pods EXCEPT ![p] =
                  IF @.node = NoNode THEN [@ EXCEPT !.phase = "Gone"]
                                     ELSE [@ EXCEPT !.deleting = TRUE]]
    /\ UNCHANGED <<bw, current, nodes>>

RemovePod(p) ==
    /\ Present(pods[p]) /\ pods[p].deleting
    /\ pods' = [pods EXCEPT ![p].phase = "Gone"]
    /\ UNCHANGED <<bw, current, nodes, budget>>

JoinNode(n) ==
    /\ n \notin nodes /\ Spend("node")
    /\ nodes' = nodes \cup {n}
    /\ UNCHANGED <<bw, current, pods>>

LeaveNode(n) ==
    /\ n \in nodes /\ Spend("node")
    /\ nodes' = nodes \ {n}
    /\ UNCHANGED <<bw, current, pods>>

\* An administrator edits spec.capacity of the stored object.
EditCapacity(n) ==
    /\ Exists(n) /\ Spend("edit")
    /\ \E c \in Capacities \ {bw[n].capacity} :
          StoreSpec(n, bw[n].requests, c)
    /\ UNCHANGED <<pods, nodes>>

ClusterNext ==
    \/ \E p \in Pods : \/ CreatePod(p)
                       \/ RunPod(p)
                       \/ FinishPod(p)
                       \/ DeletePod(p)
                       \/ RemovePod(p)
    \/ \E n \in Nodes : \/ JoinNode(n)
                        \/ LeaveNode(n)
                        \/ EditCapacity(n)
=============================================================================
