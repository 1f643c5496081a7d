# Verification of the Vaclab Kubernetes plugins

TLA+ specifications of the bandwidth operator, the scheduler plugins, their
controllers and the benchmark command of this repository, the TLC configurations
that check them on small instances, and TLAPS proofs of what matters most for
instances of any size. `PROJECT.json` holds the same information for tools:
components, runs, the definition-to-source map, findings, hazards and theorems.

## The system

Every node has one cluster-scoped `Bandwidth` object. `spec.requests` lists the
pods that hold bandwidth on the node, `spec.capacity` what its two links offer
(the local bridge and the NIC, up and down), `status` the account: used,
remaining, capacity and the reservations.

* The **operator** (`bandwidth-operator/`) creates the objects, drops requests of
  pods that are gone, marks requests of workloads confined to a node
  (`linkLocal`: they do not use the NIC) and publishes the account. It reads
  informer caches and writes to the API server with the version it read.
* The **VaclabScheduling plugin** (`scheduler-plugins/pkg/vaclabscheduling/`) admits
  a pod to a node by `status.remaining` (Filter), ranks nodes (Score), and adds a
  request to `spec.requests` (Reserve), which it removes if binding fails
  (Unreserve). It reads and writes the API server directly.
* The **other scheduler plugins** (`scheduler-plugins/pkg/`) run in the same
  scheduler: gangs (Coscheduling), elastic quotas (CapacityScheduling), NUMA zones
  (NodeResourceTopology), measured load (Trimaran), network costs, preemption
  with toleration, system calls (SySched) and a few plain scores. Some keep a
  cache that pod events, extension points and goroutines of their own change.
* The **controllers** (`scheduler-plugins/pkg/controllers/`) derive the status of
  PodGroups and ElasticQuotas from the pods.
* **kubectl health** (`kubectl-plugins/`) creates benchmark pods, waits for them,
  stores their reports as ConfigMaps and lists the stored results.

Operator and plugin are connected by the objects only: the plugin reads what the
operator alone writes, and writes what the operator only later turns into an
account. The other plugins share no state with each other.

## Modules

| Module | Models | Source |
|---|---|---|
| `Bandwidth` | the custom resource and the arithmetic on it | `api/v1/bandwidth_types.go`, `helpers.go`, `bandwidth_resource.go` |
| `Cluster` | API server, users, kubelets, nodes (external) | how the two programs use them |
| `BandwidthOperator` | caches, work queue, worker, bootstrap | `bandwidth_controller.go`, `setup_bandwidth.go`, `helpers.go` |
| `OperatorClients` | the operator among arbitrary clients: the abstract specification | the writes of `bandwidth_resource.go`, by anybody |
| `VaclabScore`, `VaclabScheduling` | arithmetic of Score; scheduling and binding cycles | `vaclab_scheduling.go`, `bandwidth_resource.go` |
| `VaclabSystem` | operator and plugin together; implements `OperatorClients` | |
| `VaclabAdmission` | `VaclabSystem` with two history variables | |
| `Coscheduling` | extension points, the caches of permitted and backed-off groups, timers, queue | `coscheduling.go`, `core.go` |
| `PodWatch`, `PodGroupController`, `ElasticQuotaController`, `Controllers` | the controllers over a lagging pod cache | `podgroup_controller.go`, `elasticquota_controller.go` |
| `PodLifecycle` | pods, the scheduler's informer and cycles (external) | how the caching plugins use them |
| `ElasticQuotaInfo`, `CapacityScheduling` | the quota accounting and admission | `elasticquota.go`, `capacity_scheduling.go` |
| `NRTCache` | OverReserve, DiscardReserved, Passthrough | `noderesourcetopology/cache/` |
| `SySched`, `Trimaran` | their maps of pods, kept by events; the score of SySched | `sysched.go`, `trimaran/handler.go`, `collector.go` |
| `PluginCaches` | each of the four above in the life of pods | |
| `NUMAAlignment`, `NUMAScore` | Filter and Score of NodeResourceTopology | `filter.go`, `score.go`, `least_numa.go`, `numaresources.go`, ... |
| `NetworkAware` | NetworkOverhead, TopologicalSort | `networkaware/` |
| `Preemption` | victims of CapacityScheduling and PreemptionToleration | `capacity_scheduling.go`, `preemption_toleration.go` |
| `TrimaranScores` | the three load-aware scores | `trimaran/` |
| `ScorePlugins` | NodeResourcesAllocatable, PodState, QOSSort | `noderesources/`, `podstate/`, `qos/` |
| `Benchmark`, `BenchmarkList` | `kubectl health create`, `get` | `create_benchmark.go`, `list_benchmark.go` |
| `..._proofs` | theorems about the module they are named after (`VaclabSystem_proofs` also those about `VaclabAdmission`, `OperatorClients_proofs` those about `Bandwidth`; `PluginCharges_proofs` holds those about what `PluginCaches` charges to quotas and zones) | |
| `Sums` | lemmas on sums over finite sets, which the proofs share | |
| `MC...` | values and bounds for TLC; `MCAlgorithms` also the inputs and the reference definitions of the pure algorithms | |

### State and actions

**Store** (`Cluster`). `bw[n]` is the object of node `n`. A resourceVersion is
modelled by who holds the latest one: `current[n]` is the set of holders whose
copy is the stored version (the operator's cache, its worker, its bootstrap, the
scheduling cycle, a binding cycle). A write succeeds iff the writer is in
`current[n]`, and empties the set. `Update` keeps the stored status and makes no
new version if it changes nothing; `Status().Update` keeps the stored spec and
always makes one, because its callers move `updatedAt`. `Delete` carries no
version. A pod is unborn, pending, running, done (Succeeded or Failed) or gone,
bound or not, and possibly being deleted. A pod UID is used once.

**Operator** (`BandwidthOperator`). Three caches follow the store, each in its own
time (`WatchBandwidth`, `WatchPod`, `WatchNode`), and queue what the map functions
of `SetupWithManager` name. The watch on nodes has no predicate, so a kubelet's
periodic report queues its node too (`NodeHeartbeat`). The one worker takes a node
from the queue; a reconcile is a sequence of steps, split at every write and at
every read that is used together with an earlier one:

```
SyncStart      Get of the object and of the node, defaults, List of the pods
SyncDelete     the node is gone
SyncFail       status Error
SyncCompute    the loop over the requests with a Get per missing pod; the decision
SyncUpdate     Update             (or WriteRefused: error, queued again)
SyncRefetch    Get from the cache
SyncStatus     Status().Update    (or WriteRefused)
CreateBandwidth, CreateFetch, CreateStatus      the object is missing
BootGet, BootCreate, BootFetch, BootStatus      the bootstrap, beside the worker
OperatorRestart                                 at any point
```

**Plugin** (`VaclabScheduling`). One pod at a time goes through `PreFilter`,
`Filter`, `ScoreNodes`, `ReserveGet`, `ReserveUpdate`; binding cycles run beside it
(`Bind`, `BindFails`, `BindingUnreserveGet`, `BindingUnreserveUpdate`), and
`SchedulerRestart` loses all of them. An error of Filter on one node ends the cycle,
a single feasible node is taken unscored, a failed Reserve is followed by Unreserve:
the rules of the scheduling framework. What can go wrong rarely is bounded by
`Budget`, one number for each kind of event in `Rare`: failing requests (which may
have been carried out), nodes that join or leave, capacity edits, restarts, pods
that finish, deletions.

**Coscheduling**. `cycle` is the one scheduling cycle, with the `snapshot` it took
when its pod was popped; `stage[p]` where a pod is: in the active queue, parked,
in the cycle, waiting in Permit, allowed, rejected, bound. The binding goroutines of
waiting pods act beside the cycle (`Timeout`, `Bind`, `BindFails`, `Unreserve`,
`Forget`), so Permit counts members in a snapshot that has moved on. `permittedPG`
and `backedOffPG` are the two expiring caches, which may expire at any time.
PreFilter, PostFilter, Permit and Unreserve each read the group with a Get of their
own, and treat a failing Get like a pod without a group: `GetPodGroup(p, point,
found)` is that read, and may fail wherever the group exists. Two history variables
serve the properties: `missed` holds the reads that failed, by pod and extension
point, and `calm` records that no timer has fired, nothing was deleted and no read
failed but in Permit.

**Controllers**. A reconcile reads caches, computes the status it wants and sends
the difference as a merge patch without a version: `PodGroupReconcile` and
`patchPodGroup` are two steps, and between them pods and group move. The quota
controller has several workers, and the key of a pod event is the pod, so two
workers may handle one quota at once. The PodGroup controller lists the pods of all
namespaces that carry the label, while the event of a pod queues the group of the
pod's own namespace: the pods `elsewhere` are counted and not heard of (`unheard`).

**Plugin caches** (`PluginCaches`). A behaviour deploys one plugin, chosen by a
scenario: they share nothing. `PodLifecycle` gives each of them the same world: the
API server's pods (`store`), the events on their way (`feed`) and what the informer
has delivered (`seen`), the stage of each pod of this scheduler, binds whose answer
is lost, restarts. Quotas come and go (`ChangeQuota`); a pod event of SySched reads
the profiles of the pods it concerns anew, by Gets that may fail (`Answers`), and
`lastRead` remembers what each pod's last read returned. Each handler and extension
point of a plugin is one operator from the cache to the new cache, because the code
runs it under the plugin's lock; OverReserve's resync loop takes its lock twice and
is split at every read (`ResyncStep`: dirty nodes, list of pods, NRT objects,
flush). `dropped` is a history variable: the nodes whose cached object no longer
accounts for a pod that is there or on its way.

**Pure algorithms** (`MCAlgorithms`). A behaviour chooses the input of one
algorithm from a finite set, and the invariants compare the operator that
translates the code with a definition of what it is for: a placement that exists,
the fewest zones by brute force, an order, a sum. A queue order is judged by what it
is for: the pods that `container/heap` serves when it sorts by it.

**Benchmark**. Each run of the command has a program counter with one step per API
call or wait of `CreateNewBenchmark`; every object has a fixed name, and
`pods[p].by` remembers which run made it. A call may fail before or after it was
carried out, and the command may be killed anywhere. The three lists of the stored
results between the benchmarks are steps too; they change nothing but may hang.

### What is left out of the modelled parts

* Names, namespaces, IPs, timestamps, events and logging. `ErrorReason` is kept as
  empty or not. Where time matters (Trimaran, toleration) it is a small number.
* What a bandwidth annotation parses to is a constant, `Annotation`, a natural
  number per direction. The operator and the plugin parse alike.
* Filter and Score of VaclabScheduling read the nodes one after another in the
  code; here each is one step that sees all of them. The framework's other
  plugins, and therefore preemption and backoff, are not composed with it: a pod
  that is turned back is tried again.
* `syncSingleNodeBandwidth`: SyncFromSpecAndPods starts it only for another node
  named by `allSiblingsOnCurrentNode`, which names one only for a pod without a
  workload that is pending on another node. `SetupBandwidthResource`,
  `UpdateBandwidthCapacity` and `NormalizePodBandwidthAnnotations` have no caller.
* The time limit of a PodGroup in its scheduling phase (`podgroup_controller.go:85`)
  needs `status.scheduleStartTime`, which no code of this repository sets.
* Owner references that are no controller: a pod has a controller or no owner.
* `spec.minResources` of a PodGroup is one slot per pod, and a lister of
  Coscheduling does not fail. Quotas count one resource in the cache runs.
* A pod fingerprint is the set of pods it stands for; two sets with the same hash
  are left out.
* Floating point: the load-aware scores are computed in whole percents. The root of
  the deviation is taken for the sensitivities 0, 1/2, 1 and a negative one, and
  the fitted beta distribution is any of a few monotone functions.
* The ElasticQuota handlers of CapacityScheduling are no actions, because they
  cannot run: the cache they are registered with is never started (see
  `quota_max`). Data races on Go maps (SySched's Score, the annotations PreFilter
  writes) are not modelled; nothing defines what a reader would see.
* The shell script that runs in benchmark pods is only which nodes it measures; how
  its report is parsed and printed is left out.

## What the runs check

Two nodes and two or three pods are enough for the interleavings the properties
speak of: a node, another one that must not be affected or must be told; a pod,
its sibling and a stranger; a group and the one it competes with. Pods ask for
2 Mbps each way, links hold 2, 3 or 4, so that one pod fits exactly, or one fits
and two do not, or two fit. Symmetry is used in one run (`admission`), where the
pods have the same owner and size and only an invariant is checked. Deadlock is
checked except where the system may really stop: all nodes leave, all pods have
ended, the command is over, an input has been chosen.

| Run | Instance | Shows |
|---|---|---|
| `operator_faults` | one node from nothing, one pod; one failing request, edit, restart, deletion and client write | `ClientsTypeOK`; `OperatorInv` (which contains `SettledAccounting`); `NoUnreadDrop`: an accepted write drops no request that was not read |
| `operator_progress` | two siblings, two nodes, one client write, one deletion | `EventuallyReleased`, `EventuallyAccounted`, `EventuallyConfined` |
| `system` | operator and plugin, one node, one pod; a failing request, a restart, a deletion | `ImplementsClients`: they implement `OperatorClients`, so what holds (and is proved) there holds of the real clients |
| `admission` | two pods for a node that holds one | `SyncedReservationsFit`: no oversubscription if every Filter saw an account in step with the requests |
| `binding` | one pod that exactly fills either of two nodes, which leave and join | `EventuallyBound`; `SettledAccounting`; `SettledRelease`: an ended pod keeps no request; `GoneNodeForgotten` |
| `coscheduling` | two groups of two pods, or one of three, and a node with three slots; one failed bind, failed read of a group or deletion | `NoStrandedWaiter`, `BackoffHoldsNothing`, `SiblingOnItsWay`, `GangGivesBack`, types |
| `controllers` | two pods, one of them possibly of another namespace, and MinMember 2; a failing patch; two workers for the quota | `FinalPhaseEarned`, `PhaseCatchesUp`, `UsedCatchesUp` |
| `plugin_caches` | two own pods, a foreign one, a daemon, one node with two zones of one unit; quotas that come and go, failing reads, lost answer, restart, new configuration | `QuotaCountsPods`, `NoReservationLeaks`, `HostSyscallsExact`, `RecentPodsCachedOnce`, `FilteredPodFits`, `DirtyNodeResynced` |
| `algorithms` | about 460 000 inputs | see below |
| `benchmark` | two nodes, one excluded; two runs in sequence or the second joining while the first finishes; one failing call or kill | `CleanedUp`, `OwnReport`, `ReleasedInTheEnd` |

`algorithms` compares: the ranking of VaclabScheduling (`RankingSound`); the NUMA
filter with the existence of a placement (`AlignedPodFits`) and the NUMA scores with
the fewest zones and the least zone that fits (`ZonesRanked`: for one or two
containers, zones listed in and out of the order of their identifiers, and with one
missing, where the code panics); network costs written in any order with the order
they should give (`CheaperNodesPreferred`); victims (`VictimsRight`: enough, none in
vain, and from another quota only what it has borrowed; `NoSecondWave`;
`BudgetsRespected`); the load-aware scores (`LoadRanked`); allocatable, pod state
and system call scores (`NodesRanked`); the pods the queue serves (`BestPodServed`:
never a worse one than another that waits, while four pods are queued, two are taken
and come back); the listing of results (`LatestListed`).

Bounds: `Budget` and `MaxWrites` (operator and plugin), `MaxTroubles` (Coscheduling:
deletions, failing binds and failing reads), `MaxFails` (controllers), `MaxBehind`,
`MaxLost`, `MaxRestarts`, `MaxNow` (plugin caches: events on their way per pod, lost
answers, restarts, time), `MaxFaults` and `NumRuns` (benchmark), `MaxCpu`, `MaxPods`
(inputs). Each is 1 to 3: the properties are about what one such event does in any
place of an otherwise complete behaviour, or two of them in either order.

### Fairness

* Operator: watches deliver, kubelets report, the worker and the bootstrap take
  their steps (weak fairness: each is a goroutine or a connection that goes on),
  and the work queue gets to every request in it (strong fairness of
  `ReconcileStart(n)`: the queue is first in, first out, and the worker always
  comes back to it). The reports of kubelets matter: without them
  `EventuallyReleased` and `EventuallyConfined` fail, since no event of a pod
  reaches a node it is not on.
* VaclabScheduling: the scheduling queue pops every pod again and again (strong
  fairness of `PreFilter(p)`: a pod that failed moves to the end).
* Coscheduling: the goroutine of each binding cycle goes on (`BindingStep`). Nothing is
  assumed of the scheduling goroutine, of the timers or of the queue's periodic
  flush: `GangGivesBack` and `SiblingOnItsWay` are about not needing them.
* Controllers: watches, the workers and a patch that is tried again.
* Plugin caches: the resync loop, the informer, the agent's reports, and kubelets that
  start admitted pods. Not the watch of NRT objects: nothing restarts it.
* Benchmark: a command that was started takes its next step, since its waits have
  deadlines; but not a step that lists the stored results, which has none. Nothing is
  assumed of the cluster.

Nothing is assumed of users, clients, failures, edits or restarts.

### Disagreements between code and comments or documentation

Two are runs that TLC ends with a counterexample:

| Run | Property | What happens |
|---|---|---|
| `oversubscription` | `NoOversubscription` | two pods pass Filter on the same published account; Reserve does not check again |
| `quota_max` | `MaxHonoured` | two pods pass PreFilter before the plugin knows their quota: its informer is never started, and only the event of an assigned pod makes addPod look the quota up |

Others were met while modelling. The models behave like the code, and the properties
say only what then still holds.

* Operator. A pod bound and started between the List and the Get of a reconcile loses
  its request for good (`setup_bandwidth.go:487`). Default annotations are not stored
  by binding, contrary to the comment on `ExtractPodBandwidthRequirement`, and the
  operator drops the request. A confined workload that spreads later takes network
  bandwidth others were given. The nodes `allSiblingsOnCurrentNode` collects are
  never returned, so `EventuallyConfined` holds only thanks to the reports of
  kubelets. Reservation lists are compared by length. A Delete that fails is not
  tried again.
* VaclabScheduling. After a restart between Reserve and Bind a pod's own request
  counts against it; `EventuallyBound` is checked without restarts. Unreserve does
  not retry a conflict and leaves the request to the operator. Siblings and Mbps
  are added in different units; `RankingSound` is about the sums.
* Coscheduling. A member that times out between the snapshot and Permit of its
  sibling is counted, and the sibling is bound alone. `NoStrandedWaiter` is the other
  direction. Only the first pod of a group wakes its siblings, and a pod that finds
  a rejected one which is not forgotten yet is not the first: with MinMember 3 or
  more it then waits for its timer, and from MinMember 10 on a pod that does not fit
  rejects nobody as long as at most a tenth is missing. `SiblingOnItsWay` is about
  groups that need two. A read of the group that fails has the same effect as no
  group: in PreFilter the pod of a backed-off group passes, and waits if Permit can
  read it again (`BackoffHoldsNothing` excepts it); in PostFilter or Unreserve the
  siblings that wait are not rejected (`SiblingOnItsWay`, `GangGivesBack`). In a
  pair nobody waits beside a rejected pod, so `GangGivesBack` is about larger groups.
* PodGroup controller. The comment "Final state of pod group"
  (`podgroup_controller.go:126`) is not kept: a reconcile that read the group before it
  ended puts another phase over it. `FinalPhaseEarned` says what holds, that a group
  ends only as its pods did, and `PhaseCatchesUp` that the phase comes right again.
  Reconcile counts pods of every namespace with the label, but a pod's event queues the
  group of its own namespace; `PhaseCatchesUp` excepts changes nobody heard of, and
  says nothing of the numbers of a Pending group, which are not kept up to date.
* CapacityScheduling. A pod that is assigned before its quota exists is never counted
  (addPod returns, and updatePod adds nothing), nor is one for which addPod's List
  fails, nor one whose bind answer is lost; `QuotaCountsPods` excepts the three.
  PodEligibleToPreemptOthers promises that a preemptor waits "as long as there are
  terminating pods on the node"; it does not when those left are of other quotas that
  are back at their min (`capacity_scheduling.go:462`), which `NoSecondWave` excepts.
* NodeResourceTopology score. Zones are addressed by identifier in slices that are
  indexed by place: with identifiers other than the first numbers scoring panics, and
  with a list out of order LeastNUMANodes takes the resources of a container off
  another zone. `ZonesRanked` says when each happens.
* OverReserve. A flush may drop a reservation made after the pods were listed, so
  the cache can show too much, which the comment in `store.go` ("will never cause
  false positives") excludes. So may an Unreserve after a bind whose answer was
  lost, since the pod is bound all the same, and a restart: the new cache starts
  from the NRT objects, assumes nothing and suspects nothing, also where pods
  were bound since the last report. `FilteredPodFits` excepts such nodes (`dropped`),
  and pods that request nothing, which any node with an answer takes. A node without
  running pods is never resynchronised, so `DirtyNodeResynced` is checked with a
  daemon on the node; NRT objects created later are not seen.
* SySched compares pods by name without namespace, and reads one profile annotation
  where the comment promises all; a profile that cannot be read at an event is left out
  or replaced by the default until another event (`HostSyscallsExact` speaks of what was
  last read). Trimaran's cleanup never removes a node's entry.
* Network. A missing AppGroup or NetworkTopology, and a cost list that lacks a host,
  end the cycle with an error or worse; the inputs have both objects.
  TopologicalSort is not transitive across groups; `BestPodServed` speaks of one
  AppGroup. The queue orders hold both ways between equals.
* Benchmark. The service account, role, binding and script ConfigMap are never deleted.
  What is created before the release is deferred, two services and a DaemonSet at
  most, leaks when a later step fails, until the next run; overlapping runs read and
  delete each other's pods (`OwnReport` excepts them), and the intra-node wait takes
  any pod with the label, also one a killed run left; results are named by second.
  `--latest` is documented as the latest result per destination node
  (`args/parser.go:44`); the code keeps the latest per destination, mode, protocol and
  direction, and `LatestListed` says so.

## What is proved

For any finite set of pods, any nodes, groups, capacities, annotations and budgets:

| Module | Theorem | Statement |
|---|---|---|
| `OperatorClients_proofs` | `UsedType` | the sums of `Used` over any requests are integers |
| | `TypeCorrect` | `ClientsSpec => []ClientsTypeOK` |
| | `OperatorCorrect` | `ClientsSpec => []OperatorInv` |
| | `AccountingCorrect` | `ClientsSpec => []SettledAccounting` |
| | `NothingUnreadDropped` | `ClientsSpec => NoUnreadDrop` |
| | `ReleaseCorrect` | `ClientsSpec => []SettledRelease` |
| | `GoneForgotten` | `ClientsSpec => []GoneNodeForgotten`, if no request fails |
| `VaclabSystem_proofs` | `SystemTypeCorrect` | types of operator and plugin together |
| | `SystemRefinement` | they implement `OperatorClients` |
| | `SystemAccountingCorrect`, `SystemReleaseCorrect`, `SystemGoneForgotten` | the three above, beside the plugin |
| | `SyncedAdmission` | `AdmissionSpec => []SyncedReservationsFit`, if nobody edits a capacity |
| `Coscheduling_proofs` | `CoschedulingTypes` | `Spec => []CoschedulingTypeOK` |
| | `NobodyStranded` | `Spec => []NoStrandedWaiter` |
| | `BackedOffGroupsWaitForNothing` | `Spec => []BackoffHoldsNothing` |
| | `SiblingsWoken` | `Spec => []SiblingOnItsWay` |
| `Controllers_proofs` | `FinalPhasesEarned` | `Spec => []FinalPhaseEarned` |
| `PluginCaches_proofs` | `LifecycleInvariant` | `Spec => []LifecycleInv`: versions reach a plugin in order |
| | `ReservationsExact` | `Spec => []NoReservationLeaks` |
| | `SyscallsExact` | `Spec => []HostSyscallsExact` |
| | `RecentPodsCached` | `Spec => []RecentPodsCachedOnce` |
| `PluginCharges_proofs` | `QuotaExact` | `Spec => []QuotaCountsPods` |
| | `FilteredFits` | `Spec => FilteredPodFits` |
| `Benchmark_proofs` | `BenchmarkInvariant` | the inductive invariant of any number of runs |
| | `ReleaseComplete` | `Spec => []CleanedUp` |
| | `ReportsOwn` | `Spec => []OwnReport` |

The assumptions are named in the modules that declare the constants
(`BandwidthAssumption`, `ClusterAssumption`, `HolderAssumption`, `NoPodAssumption`,
`CoschedulingAssumption`, `LifecycleAssumption`, `RequestsAssumption`,
`ClockAssumption`, `PodAssumption`, `PodGroupAssumption`, `BenchmarkAssumption`):
pods are finite in number, the special values are none of the ordinary ones,
capacities, annotations and zone requests are natural numbers, MinMember is
positive, the pods that run from the start are not the scheduler's. Two theorems
assume more. `GoneForgotten` takes a `Budget` without failing requests: a failed Get
of the node marks the object Error and it is then never deleted, and a failed Delete
is not tried again. `SyncedAdmission` takes no `Capacities` to edit to: lowering a
capacity below what is reserved oversubscribes the node without anybody's fault.

**Operator.** `SettledAccounting` says that when a node is not queued, not being
reconciled and its cached object is the stored one, the published status is the
account of the stored requests, with as many reservations as requests. It is not
inductive: a reconcile may end without writing, so what it decided on must be known.
`OperatorInv` adds two things. `CacheInv`: a cache that holds the stored version holds
the stored object. `WorkerInv`: the copy a reconcile works on is the stored object
as long as its version is; when it no longer is, the cache is behind (its event is
to come) or the node is queued; an update carries the right decision about the
status; and after an update that changed nothing, hence raises no event, a status
update follows, because then the capacity differed from the published one. The proof
has one case per action. Writes of others empty `current[n]`, and with it the premise
of everything said of `n`; the case that carries the argument is the end of
`SyncCompute`. `NoUnreadDrop` follows from `WorkerInv` at the one step that writes
requests. `SettledRelease` and `GoneNodeForgotten` need what a reconcile that is under
way has read about pods and nodes (`ReleaseInv`, `GoneInv`): a pod that ended, or a
node that left, after it was read leaves an event that queues the node again. Sums
over finite sets are handled in `Sums`, where a minimal counterexample and the
library's theorems on well-founded relations take the place of an induction.

**Operator and plugin.** `SystemRefinement` maps every step of the plugin to a step
of a client of `OperatorClients`, or to a stutter; what is proved of that
specification then holds of the two programs. For `SyncedReservationsFit` the
invariant (`AdmissionInv`) says how much room the candidates of the running cycle
still have: only the cycle adds a request, it adds its own pod's once, and every
write of anybody else (a sync, an Unreserve, a status, a confinement) leaves as much
room or more.

**Coscheduling.** `NoStrandedWaiter` compares the pods that have a node now with
those that wait, while Permit decides by the snapshot. `SnapshotInv` connects them:
as long as a cycle lasts the other pods only lose nodes, so whoever has one now is
in the snapshot, and a Permit that parks its pod because the snapshot shows too few
parks it rightly. `CycleInv` ties stage, cycle and node together, `WaitingInv` is
the property with the pod in the cycle left out of the count, and `BackoffInv` says
that a pod past PreFilter belongs to no backed-off group unless PreFilter could not
read its group, from which `BackoffHoldsNothing` follows. The counting steps rest on
the cardinality theorems: fewer assigned pods are no more, and adding the pod in the
cycle adds one. `SiblingOnItsWay` adds where the sibling of a waiting pod can be
while nothing is deleted, no timer fires and no read fails but in Permit
(`PlacedInv`, `SiblingInv`).

**Controllers.** The phase is decided on counts in an old cache, sent without a version
and merged with whatever is stored. The history `ended` remembers how each pod ended,
also after it is deleted; `EarnedInv` says that the pods the store and the cache show
as ended did end so, and that the stored status, the cached one and the one about
to be sent all have a final phase only if it is earned. A merge takes each field from
one of two earned statuses, and what has ended stays ended.

**Plugin caches.** All rest on `LifecycleInv`: the versions of a pod that are on
their way to the informer lie in order between the one delivered and the one stored
(`InOrder`). `ReservationInv` and `SySchedInv` are the properties with types; the
calls of a host are compared with the union of what was last read of its pods.
`QuotaInv` is the property, entry by entry; that Unreserve uncounts no pod which is
bound needs that a pod whose bind answer was not lost is placed once (`PlacedOnce`).
`TrimaranInv` says that the entries of a node are in time order, each pod once; the
bisection of cleanupCache is then shown to find the first recent one.
`FilteredPodFits` needs two invariants. `ReportsInv`: the cached NRT object, the one
a resync has read and the stored one were written in this order, each for pods that
had started on the node, so that a later one still has every unfinished pod of an
earlier. `HeldInv`: outside `dropped`, an own pod that is there is in the cached
object or assumed, and one that is coming is assumed. What they use of a zone is
then at most what the object reports plus everything assumed, which is what
`UpdateNRT` has taken off.

**Benchmark.** The invariant says of each run how far its release is and what can
still exist of what it created (`FreedInv`), and of a run that is alone that what it
reads of the host and pod network clients is its own (`OwnInv`). `UnregisteredInv`
bounds what a run can own before it has deferred its release.

Only model-checked: all liveness properties (`Eventually...`, `GangGivesBack`,
`PhaseCatchesUp`, `UsedCatchesUp`, `DirtyNodeResynced`, `ReleasedInTheEnd`), since
liveness under fairness is out of the prover's reach; and the algorithms, most of
which fold over sequences or sets or are compared with a search, for which an
induction over the data would be needed.

## Not modelled

| Part | Why |
|---|---|
| annotation parsing and formatting | strings to numbers; a constant of the models |
| commands, flags, probes, leader election | wiring without state of its own |
| default arguments and their validation | field by field, without state; what they guarantee is assumed |
| generated deep copies, conversions, clients, listers, informers | generated |
| CrossNodePreemption | its code is commented out and not registered |
| metrics clients of Trimaran; printing of results; parsing of reports | input and output |
| GetOffsetAndNumCandidates | a random number |
| `syncSingleNodeBandwidth` | a second writer that starts in one corner case; its write of requests is one `OperatorClients` allows |
