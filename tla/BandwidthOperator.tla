-------------------------- MODULE BandwidthOperator --------------------------
(***************************************************************************)
(* The bandwidth operator: informer caches, work queue, the reconciler's   *)
(* single worker, and the bootstrap that runs once beside it.              *)
(*                                                                         *)
(* The three caches are fed by three watch streams with no order between   *)
(* them.  Every Get and List of the worker reads a cache, every write goes *)
(* to the API server.  Each write, and each read whose result is used with *)
(* an earlier one, is a step of its own.                                   *)
(***************************************************************************)
EXTENDS Cluster

VARIABLES
    bwCache,     \* node -> cached Bandwidth object or NoBandwidth
    podCache,    \* pod UID -> cached pod
    nodeCache,   \* cached nodes
    queue,       \* work queue: a set, a request is queued at most once
    worker,      \* the reconcile in progress
    boot         \* createBandwidthResourcesForAllNodes in progress

operatorVars == <<bwCache, podCache, nodeCache, queue, worker, boot>>

MaxRetries == 3

Idle == [pc |-> "idle", node |-> NoNode, obj |-> NoBandwidth,
         podsWithBw |-> {}, clean |-> NoRequests, cap |-> ZeroCapacity,
         statusCap |-> ZeroCapacity, statusChanged |-> FALSE]

WorkerPc == {"idle", "create", "fetchNew", "statusNew", "delete", "fail",
             "listed", "update", "refetch", "status"}
Reconciling == [pc : WorkerPc \ {"idle"}, node : Nodes,
                obj : BandwidthObject \cup {NoBandwidth},
                podsWithBw : SUBSET Pods, clean : Requests, cap : Capacity,
                statusCap : Capacity, statusChanged : BOOLEAN]
Worker == {Idle} \cup Reconciling

BootPc == {"next", "create", "fetch", "status"}
Booting(todo) == [pc |-> "next", node |-> NoNode, todo |-> todo, attempt |-> 0]
Creating == [pc : BootPc \ {"next"}, node : Nodes, todo : SUBSET Nodes,
             attempt : 0 .. MaxRetries - 1]
Boot == {Booting(todo) : todo \in SUBSET Nodes} \cup Creating

OperatorTypeOK ==
    /\ bwCache \in [Nodes -> BandwidthObject \cup {NoBandwidth}]
    /\ podCache \in [Pods -> Pod]
    /\ nodeCache \subseteq Nodes
    /\ queue \subseteq Nodes
    /\ worker \in Worker
    /\ worker.pc = "listed" => worker.obj # NoBandwidth
    /\ boot \in Boot

\* The manager fills the caches before it starts the worker and the
\* bootstrap; the first list of each kind queues what it holds.
OperatorInit ==
    /\ bwCache = bw
    /\ podCache = pods
    /\ nodeCache = nodes
    /\ queue = nodes
    /\ worker = Idle
    /\ boot = Booting(nodes)

-----------------------------------------------------------------------------
(* Watches.  A cache catches up with the store and the change is mapped to *)
(* the requests to reconcile.                                              *)

\* A mutant of WatchBandwidth: the objects are watched without a request.
WatchBandwidthUnqueued(n) ==
    /\ "cache" \notin current[n]
    /\ bwCache' = [bwCache EXCEPT ![n] = bw[n]]
    /\ Hold(n, "cache")
    /\ UNCHANGED <<bw, pods, nodes, budget, podCache, nodeCache, queue, worker,
                   boot>>

WatchBandwidth(n) ==
    /\ "cache" \notin current[n]
    /\ bwCache' = [bwCache EXCEPT ![n] = bw[n]]
    /\ Hold(n, "cache")
    /\ queue' = queue \cup {n}
    /\ UNCHANGED <<bw, pods, nodes, budget, podCache, nodeCache, worker, boot>>

\* A mutant of WatchPod: a predicate lets only live pods through.
WatchPodLive(p) ==
    /\ podCache[p] # pods[p]
    /\ podCache' = [podCache EXCEPT ![p] = pods[p]]
    /\ queue' = IF Live(pods[p]) THEN queue \cup ({pods[p].node} \ {NoNode})
                                 ELSE queue
    /\ UNCHANGED <<clusterVars, bwCache, nodeCache, worker, boot>>

\* The map function sees the old and the new pod; an unbound one maps to
\* nothing.
WatchPod(p) ==
    /\ podCache[p] # pods[p]
    /\ podCache' = [podCache EXCEPT ![p] = pods[p]]
    /\ queue' = queue \cup ({podCache[p].node, pods[p].node} \ {NoNode})
    /\ UNCHANGED <<clusterVars, bwCache, nodeCache, worker, boot>>

\* A mutant of WatchNode: only a node that joins is mapped to a request.
WatchNodeJoins(n) ==
    /\ (n \in nodeCache) # (n \in nodes)
    /\ nodeCache' = (nodeCache \ {n}) \cup (nodes \cap {n})
    /\ queue' = queue \cup ({n} \cap nodes)
    /\ UNCHANGED <<clusterVars, bwCache, podCache, worker, boot>>

WatchNode(n) ==
    /\ (n \in nodeCache) # (n \in nodes)
    /\ nodeCache' = (nodeCache \ {n}) \cup (nodes \cap {n})
    /\ queue' = queue \cup {n}
    /\ UNCHANGED <<clusterVars, bwCache, podCache, worker, boot>>

\* A mutant of NodeHeartbeat: a predicate drops the reports of status.
NodeHeartbeatDropped(n) ==
    /\ n \in nodes \cap nodeCache /\ n \notin queue
    /\ UNCHANGED <<clusterVars, operatorVars>>

\* The watch on nodes has no predicate: the status a kubelet reports
\* periodically queues its node although nothing else has changed.
NodeHeartbeat(n) ==
    /\ n \in nodes \cap nodeCache /\ n \notin queue
    /\ queue' = queue \cup {n}
    /\ UNCHANGED <<clusterVars, bwCache, podCache, nodeCache, worker, boot>>

Watch ==
    \/ \E n \in Nodes : WatchBandwidth(n) \/ WatchNode(n) \/ NodeHeartbeat(n)
    \/ \E p \in Pods : WatchPod(p)

-----------------------------------------------------------------------------
(* What a reconcile computes.                                              *)

PodsWithBw(n) ==
    {p \in Annotated : podCache[p].node = n /\ Live(podCache[p])}

\* A mutant of allSiblingsOnCurrentNode: unbound siblings do not count.
allBoundSiblingsOnCurrentNode(p, n) ==
    /\ Owner[p] # NoOwner
    /\ \A q \in Pods : /\ Owner[q] = Owner[p]
                       /\ Present(podCache[q]) /\ ~podCache[q].deleting
                       => podCache[q].node \in {n, NoNode}

\* TRUE iff the pod has a workload and every pod of it is on node n.  Pods
\* being deleted do not count, finished and unbound ones do.
allSiblingsOnCurrentNode(p, n) ==
    LET siblings == {q \in Pods : /\ Owner[q] = Owner[p]
                                  /\ Present(podCache[q])
                                  /\ ~podCache[q].deleting}
    IN  /\ Owner[p] # NoOwner
        /\ siblings # {}
        /\ \A q \in siblings : podCache[q].node = n

\* A request stays if its pod was listed on the node, or if the pod is
\* found by name and is still pending, wherever it is.
KeepsRequest(p, podsWithBw) ==
    p \in podsWithBw \/ podCache[p].phase = "Pending"

CleanRequests(reqs, n, podsWithBw) ==
    [p \in Pods |->
        IF p \in Entries(reqs) /\ KeepsRequest(p, podsWithBw)
          THEN [linkLocal |-> allSiblingsOnCurrentNode(p, n),
                mbps |-> IF p \in podsWithBw THEN Annotation[p]
                                             ELSE reqs[p].mbps]
          ELSE NoRequest]

SpecChanged(obj, clean, cap) ==
    clean # obj.requests \/ cap # obj.status.capacity

\* Mutants of StatusChanged: a new capacity, or a new use, goes unnoticed.
StatusChangedByUse(obj, clean, cap) ==
    obj.status.used # Used(clean) \/ obj.status.status # "Created"

StatusChangedByCapacity(obj, clean, cap) ==
    obj.status.capacity # cap \/ obj.status.status # "Created"

\* The reservations are compared by their number only.
StatusChanged(obj, clean, cap) ==
    \/ obj.status.used # Used(clean)
    \/ obj.status.remaining # Remaining(cap, Used(clean))
    \/ obj.status.capacity # cap
    \/ obj.status.status # "Created"
    \/ obj.status.errorReason
    \/ Cardinality(Entries(obj.status.reservations)) # Cardinality(Entries(clean))

-----------------------------------------------------------------------------
(* The worker.  Take(n) removes n from the queue; while n is reconciled a  *)
(* new event for it queues it again.                                       *)

Take(n) == worker.pc = "idle" /\ n \in queue /\ queue' = queue \ {n}

End == worker' = Idle /\ UNCHANGED queue
Requeue == worker' = Idle /\ queue' = queue \cup {worker.node}

\* Neither object nor node, or an object whose status is Error.
ReconcileNothing(n) ==
    /\ Take(n)
    /\ \/ bwCache[n] = NoBandwidth /\ n \notin nodeCache
       \/ bwCache[n] # NoBandwidth /\ bwCache[n].status.status = "Error"
    /\ UNCHANGED <<clusterVars, bwCache, podCache, nodeCache, worker, boot>>

ReconcileMissing(n) ==
    /\ Take(n)
    /\ bwCache[n] = NoBandwidth /\ n \in nodeCache
    /\ worker' = [Idle EXCEPT !.pc = "create", !.node = n]
    /\ UNCHANGED <<clusterVars, bwCache, podCache, nodeCache, boot>>

\* SyncFromSpecAndPods up to and including the List of the node's pods.
\* Reading the node or the list may fail.
SyncStart(n) ==
    /\ Take(n)
    /\ bwCache[n] # NoBandwidth /\ bwCache[n].status.status # "Error"
    /\ HoldCached(n, "worker")
    /\ LET read == [Idle EXCEPT !.node = n, !.obj = bwCache[n]]
       IN  \/ /\ n \notin nodeCache
              /\ worker' = [read EXCEPT !.pc = "delete"]
              /\ UNCHANGED budget
           \/ /\ n \in nodeCache
              /\ worker' = [read EXCEPT !.pc = "listed",
                                        !.podsWithBw = PodsWithBw(n)]
              /\ UNCHANGED budget
           \/ /\ Spend("fault")
              /\ worker' = [read EXCEPT !.pc = "fail"]
    /\ UNCHANGED <<bw, pods, nodes, bwCache, podCache, nodeCache, boot>>

\* The node is gone.  An error of Delete is ignored.
SyncDelete ==
    /\ worker.pc = "delete"
    /\ \/ StoreDelete(worker.node) /\ UNCHANGED budget
       \/ Spend("fault") /\ LetGo(worker.node, "worker") /\ UNCHANGED bw
    /\ End
    /\ UNCHANGED <<pods, nodes, bwCache, podCache, nodeCache, boot>>

\* Record Error in the status, ignoring a failure to, and return the error.
\* A failed Sync gives a reason, a failed Create does not.
SyncFail ==
    /\ worker.pc = "fail"
    /\ IF "worker" \in current[worker.node] /\ Exists(worker.node)
         THEN StoreStatus(worker.node,
                          [bw[worker.node].status EXCEPT
                             !.status = "Error",
                             !.errorReason = @ \/ worker.obj # NoBandwidth])
         ELSE UNCHANGED <<bw, current>>
    /\ Requeue
    /\ UNCHANGED <<pods, nodes, budget, bwCache, podCache, nodeCache, boot>>

\* The loop over the requests: each request whose pod was not listed is
\* looked up by name, now; then the decision what to write.
SyncCompute ==
    /\ worker.pc = "listed"
    /\ LET n == worker.node
           obj == worker.obj
           clean == CleanRequests(obj.requests, n, worker.podsWithBw)
           cap == setDefaultBandwidthValues(obj.capacity)
           changed == StatusChanged(obj, clean, cap)
           done == [worker EXCEPT !.clean = clean, !.cap = cap,
                                  !.statusCap = cap, !.statusChanged = changed]
       IN  \/ /\ SpecChanged(obj, clean, cap)
              /\ worker' = [done EXCEPT !.pc = "update"]
              /\ UNCHANGED current
           \/ /\ ~SpecChanged(obj, clean, cap) /\ changed
              /\ worker' = [done EXCEPT !.pc = "status"]
              /\ UNCHANGED current
           \/ /\ ~SpecChanged(obj, clean, cap) /\ ~changed
              /\ worker' = Idle
              /\ LetGo(n, "worker")
    /\ UNCHANGED <<bw, pods, nodes, budget, bwCache, podCache, nodeCache,
                   queue, boot>>

\* A write of the worker is refused: its copy is old, the object is gone,
\* or the request fails.  The error returned queues the node again.
WriteRefused(pc) ==
    /\ worker.pc = pc
    /\ IF "worker" \in current[worker.node] /\ Exists(worker.node)
         THEN Spend("fault")
         ELSE UNCHANGED budget
    /\ LetGo(worker.node, "worker")
    /\ Requeue
    /\ UNCHANGED <<bw, pods, nodes, bwCache, podCache, nodeCache, boot>>

\* A mutant of WriteAccepted: the version is not checked.
WriteAcceptedBlindly(pc) == worker.pc = pc /\ Exists(worker.node)

WriteAccepted(pc) ==
    /\ worker.pc = pc
    /\ "worker" \in current[worker.node] /\ Exists(worker.node)

SyncUpdate ==
    /\ WriteAccepted("update")
    /\ StoreSpec(worker.node, worker.clean, worker.cap)
    /\ worker' = [worker EXCEPT !.pc = "refetch"]
    /\ UNCHANGED <<pods, nodes, budget, bwCache, podCache, nodeCache, queue,
                   boot>>

\* Get after Update reads the cache, which may not have seen the update.
SyncRefetch ==
    /\ worker.pc = "refetch"
    /\ LET n == worker.node
       IN  \/ /\ bwCache[n] = NoBandwidth
              /\ LetGo(n, "worker")
              /\ Requeue
           \/ /\ bwCache[n] # NoBandwidth /\ ~worker.statusChanged
              /\ LetGo(n, "worker")
              /\ End
           \/ /\ bwCache[n] # NoBandwidth /\ worker.statusChanged
              /\ HoldCached(n, "worker")
              /\ worker' = [worker EXCEPT !.pc = "status",
                                          !.statusCap = bwCache[n].capacity]
              /\ UNCHANGED queue
    /\ UNCHANGED <<bw, pods, nodes, budget, bwCache, podCache, nodeCache, boot>>

\* used, remaining and reservations were computed before the refetch, the
\* capacity is the refetched one.
SyncStatus ==
    /\ WriteAccepted("status")
    /\ StoreStatus(worker.node,
                   [status |-> "Created", errorReason |-> FALSE,
                    used |-> Used(worker.clean),
                    remaining |-> Remaining(worker.cap, Used(worker.clean)),
                    capacity |-> worker.statusCap,
                    reservations |-> worker.clean])
    /\ End
    /\ UNCHANGED <<pods, nodes, budget, bwCache, podCache, nodeCache, boot>>

-----------------------------------------------------------------------------
(* Creation of a missing object by Reconcile.                              *)

\* AlreadyExists queues the node again; after any other error the object
\* is looked up, and marked Error if it is there.
CreateBandwidth ==
    /\ worker.pc = "create"
    /\ LET n == worker.node
       IN  \/ /\ Exists(n)
              /\ Requeue
              /\ UNCHANGED <<bw, current, budget>>
           \/ /\ ~Exists(n)
              /\ Store(n, NewBandwidth)
              /\ worker' = [worker EXCEPT !.pc = "fetchNew"]
              /\ UNCHANGED <<queue, budget>>
           \/ /\ Spend("fault")
              /\ IF bwCache[n] = NoBandwidth
                   THEN Requeue /\ UNCHANGED current
                   ELSE /\ worker' = [worker EXCEPT !.pc = "fail"]
                        /\ HoldCached(n, "worker")
                        /\ UNCHANGED queue
              /\ UNCHANGED bw
    /\ UNCHANGED <<pods, nodes, bwCache, podCache, nodeCache, boot>>

CreateFetch ==
    /\ worker.pc = "fetchNew"
    /\ LET n == worker.node
       IN  IF bwCache[n] = NoBandwidth
             THEN Requeue /\ UNCHANGED current
             ELSE /\ worker' = [worker EXCEPT !.pc = "statusNew"]
                  /\ HoldCached(n, "worker")
                  /\ UNCHANGED queue
    /\ UNCHANGED <<bw, pods, nodes, budget, bwCache, podCache, nodeCache, boot>>

\* Used, Remaining and ErrorReason stay as they were read.
CreatedStatus(n) ==
    [bw[n].status EXCEPT !.status = "Created", !.capacity = bw[n].capacity]

CreateStatus ==
    /\ WriteAccepted("statusNew")
    /\ StoreStatus(worker.node, CreatedStatus(worker.node))
    /\ Requeue
    /\ UNCHANGED <<pods, nodes, budget, bwCache, podCache, nodeCache, boot>>

ReconcileStart(n) == ReconcileNothing(n) \/ ReconcileMissing(n) \/ SyncStart(n)

ReconcileStep ==
    \/ SyncDelete
    \/ SyncFail
    \/ SyncCompute
    \/ SyncUpdate
    \/ SyncRefetch
    \/ SyncStatus
    \/ \E pc \in {"update", "status", "statusNew"} : WriteRefused(pc)
    \/ CreateBandwidth
    \/ CreateFetch
    \/ CreateStatus

WorkerStep == ReconcileStep \/ \E n \in Nodes : ReconcileStart(n)

-----------------------------------------------------------------------------
(* The bootstrap goes through the nodes it listed, beside the worker.      *)

BootNext == boot' = Booting(boot.todo \ {boot.node})

\* A mutant of BootRetry: one attempt too many.
BootRetryOnceMore ==
    IF boot.attempt < MaxRetries
      THEN boot' = [boot EXCEPT !.pc = "fetch", !.attempt = @ + 1]
      ELSE BootNext

BootRetry ==
    IF boot.attempt < MaxRetries - 1
      THEN boot' = [boot EXCEPT !.pc = "fetch", !.attempt = @ + 1]
      ELSE BootNext

BootGet(n) ==
    /\ boot.pc = "next" /\ n \in boot.todo
    /\ boot' = IF bwCache[n] = NoBandwidth
                 THEN [boot EXCEPT !.pc = "create", !.node = n]
                 ELSE [boot EXCEPT !.todo = @ \ {n}]
    /\ UNCHANGED <<clusterVars, bwCache, podCache, nodeCache, queue, worker>>

BootCreate ==
    /\ boot.pc = "create"
    /\ IF Exists(boot.node)
         THEN BootNext /\ UNCHANGED <<bw, current>>
         ELSE /\ Store(boot.node, NewBandwidth)
              /\ boot' = [boot EXCEPT !.pc = "fetch"]
    /\ UNCHANGED <<pods, nodes, budget, bwCache, podCache, nodeCache, queue,
                   worker>>

BootFetch ==
    /\ boot.pc = "fetch"
    /\ IF bwCache[boot.node] = NoBandwidth
         THEN BootRetry /\ UNCHANGED current
         ELSE /\ HoldCached(boot.node, "boot")
              /\ boot' = [boot EXCEPT !.pc = "status"]
    /\ UNCHANGED <<bw, pods, nodes, budget, bwCache, podCache, nodeCache,
                   queue, worker>>

\* A conflict is retried, any other error is left to the reconciler.
BootStatus ==
    /\ boot.pc = "status"
    /\ LET n == boot.node
       IN  \/ /\ "boot" \in current[n] /\ Exists(n)
              /\ StoreStatus(n, CreatedStatus(n))
              /\ BootNext /\ UNCHANGED budget
           \/ /\ "boot" \notin current[n] /\ Exists(n)
              /\ BootRetry /\ UNCHANGED <<bw, current, budget>>
           \/ /\ ~Exists(n)
              /\ BootNext /\ UNCHANGED <<bw, current, budget>>
           \/ /\ Spend("fault")
              /\ BootNext /\ LetGo(n, "boot") /\ UNCHANGED bw
    /\ UNCHANGED <<pods, nodes, bwCache, podCache, nodeCache, queue, worker>>

BootStep ==
    \/ \E n \in Nodes : BootGet(n)
    \/ BootCreate
    \/ BootFetch
    \/ BootStatus

\* The process stops at any point and starts again with caches just listed
\* and a request queued for every object it finds.  An error of Create in
\* the bootstrap ends the process too.
OperatorRestart ==
    /\ Spend("restart")
    /\ bwCache' = bw
    /\ podCache' = pods
    /\ nodeCache' = nodes
    /\ queue' = nodes \cup {n \in Nodes : Exists(n)}
                      \cup ({pods[p].node : p \in {q \in Pods : Present(pods[q])}}
                              \ {NoNode})
    /\ worker' = Idle
    /\ boot' = Booting(nodes)
    /\ current' = [n \in Nodes |->
                     (current[n] \ {"worker", "boot"}) \cup {"cache"}]
    /\ UNCHANGED <<bw, pods, nodes>>

OperatorNext == Watch \/ WorkerStep \/ BootStep \/ OperatorRestart

\* A state a history settles in: one object per node, published and cached,
\* nothing queued, and the annotated pods p with placed[p] # NoNode running
\* on that node.
OperatorSteadyInit(placed) ==
    LET On(n) == {p \in Annotated : placed[p] = n}
        Confined(p) == /\ Owner[p] # NoOwner
                       /\ \A q \in Pods : Owner[q] = Owner[p] =>
                                           placed[q] \in {placed[p], NoNode}
        reqs(n) == [p \in Pods |->
                      IF p \in On(n) THEN [linkLocal |-> Confined(p),
                                          mbps |-> Annotation[p]]
                                     ELSE NoRequest]
        cap == setDefaultBandwidthValues(ZeroCapacity)
        obj(n) == [requests |-> reqs(n), capacity |-> cap,
                   status |-> [status |-> "Created", errorReason |-> FALSE,
                               used |-> Used(reqs(n)),
                               remaining |-> Remaining(cap, Used(reqs(n))),
                               capacity |-> cap, reservations |-> reqs(n)]]
    IN  /\ bw = [n \in Nodes |->
                    IF n \in InitNodes THEN obj(n) ELSE NoBandwidth]
        /\ current = [n \in Nodes |-> {"cache"}]
        /\ pods = [p \in Pods |->
                     [phase |-> IF placed[p] = NoNode THEN "Unborn"
                                                      ELSE "Running",
                      node |-> placed[p], deleting |-> FALSE]]
        /\ nodes = InitNodes
        /\ budget = Budget
        /\ bwCache = bw
        /\ podCache = pods
        /\ nodeCache = nodes
        /\ queue = {}
        /\ worker = Idle
        /\ boot = Booting({})

NonePlaced == [p \in Pods |-> NoNode]

\* Watches deliver, kubelets report, the worker and the bootstrap go on, and
\* the work queue, first in first out, gets to every request in it.  Nothing
\* is assumed of users, of clients or of what Rare counts.
opVars == <<clusterVars, operatorVars>>

OperatorFairness ==
    /\ \A n \in Nodes : /\ WF_opVars(WatchBandwidth(n))
                        /\ WF_opVars(WatchNode(n))
                        /\ WF_opVars(NodeHeartbeat(n))
                        /\ SF_opVars(ReconcileStart(n))
    /\ \A p \in Pods : WF_opVars(WatchPod(p))
    /\ WF_opVars(ReconcileStep)
    /\ WF_opVars(BootStep)

-----------------------------------------------------------------------------
(* Properties of the operator, stated of any specification that has        *)
(* OperatorNext among its steps.                                           *)

\* The operator has nothing more to do for node n: it is not queued, not
\* being reconciled, and the cached object is the stored one.
Settled(n) ==
    /\ n \notin queue /\ worker.node # n
    /\ "cache" \in current[n]

\* Nothing is under way in the pod and node watches either.
CachesFresh == podCache = pods /\ nodeCache = nodes

\* The published status is the account of the stored requests against the
\* stored capacity (where 0 stands for the default).  It lists as many
\* reservations as there are requests, though not always the same ones.
Accounted(n) ==
    LET status == bw[n].status
        cap == setDefaultBandwidthValues(bw[n].capacity)
    IN  /\ status.status = "Created"
        /\ status.used = Used(bw[n].requests)
        /\ status.capacity = cap
        /\ status.remaining = Remaining(cap, status.used)
        /\ Cardinality(Entries(status.reservations)) =
              Cardinality(Entries(bw[n].requests))

\* NoUnreadDrop: the operator's write of spec.requests (SyncFromSpecAndPods,
\* Update) removes the request of a pod only if that request was in the copy
\* the reconcile had read and examined.  A reservation the scheduler adds
\* between the operator's read and its write is never overwritten.
NoUnreadDrop ==
    [][\A n \in Nodes :
          (worker.pc = "update" /\ worker.node = n /\ worker'.pc = "refetch")
             => Entries(bw[n].requests) \subseteq Entries(worker.obj.requests)]_<<bw, worker>>

\* SettledAccounting: when the operator has nothing more to do for a node it
\* knows, the node has an object whose used, capacity and remaining are
\* exactly the account of its requests, whatever the scheduler, the bootstrap
\* and administrators wrote meanwhile and whichever writes conflicted.  (An
\* object in status Error is never touched again.)
SettledAccounting ==
    \A n \in nodeCache :
        Settled(n) => /\ Exists(n)
                      /\ bw[n].status.status # "Error" => Accounted(n)

\* SettledRelease: when the operator has nothing more to do for a node and
\* its pod cache is fresh, no pod that was bound to the node and has
\* finished or gone still holds a request there.
SettledRelease ==
    CachesFresh =>
      \A n \in nodes, p \in Pods :
        /\ Settled(n) /\ Exists(n) /\ bw[n].status.status # "Error"
        /\ pods[p].node = n /\ pods[p].phase \in {"Done", "Gone"}
        => bw[n].requests[p] = NoRequest

\* EventuallyReleased: once a pod has finished or gone, every node in the end
\* forgets its request for good: also a node whose Unreserve was lost to a
\* conflict or a scheduler restart, which no event of the pod reaches and
\* only the node's own status reports queue.
EventuallyReleased ==
    \A p \in Pods, n \in Nodes :
        <>[](pods[p].phase \in {"Done", "Gone"} /\ Exists(n)
               => bw[n].requests[p] = NoRequest)

\* EventuallyAccounted: in the end every node of the cluster has an object
\* whose status is the account of its requests, and keeps it.
EventuallyAccounted ==
    \A n \in Nodes : <>[](n \in nodes => Exists(n) /\ Accounted(n))

\* A pod's traffic stays on the node: it has a workload and all of the
\* workload's pods are there.
ConfinedTo(p, n) ==
    /\ Owner[p] # NoOwner
    /\ \A q \in Pods : /\ Owner[q] = Owner[p]
                       /\ Present(pods[q]) /\ ~pods[q].deleting
                       => pods[q].node = n

\* EventuallyConfined: in the end every request says linkLocal exactly when
\* the pods of the workload are all on its node, although the nodes of the
\* other siblings are not told when one is created, moves or ends.
EventuallyConfined ==
    \A n \in Nodes :
        <>[](Exists(n) =>
               \A p \in Entries(bw[n].requests) :
                  Present(pods[p]) /\ ~pods[p].deleting =>
                     (bw[n].requests[p].linkLocal <=> ConfinedTo(p, n)))

\* GoneNodeForgotten: when the operator has nothing more to do for a node
\* that has left, the node's object has been deleted.
GoneNodeForgotten ==
    \A n \in Nodes : Settled(n) /\ n \notin nodeCache => ~Exists(n)
=============================================================================
