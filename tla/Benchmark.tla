----------------------------- MODULE Benchmark ------------------------------
(***************************************************************************)
(* kubectl health create (kubectl-plugins/health): the command that sets up *)
(* iperf servers, runs client pods against them and stores their reports.  *)
(* Every object has a fixed name, so runs of the command that overlap, or   *)
(* follow one that was killed, meet each other's objects.  Any API call may *)
(* fail, and the command may be killed, MaxFaults times in all.             *)
(***************************************************************************)
EXTENDS Integers, Sequences

CONSTANTS Nodes,          \* the nodes of the cluster, all schedulable
          Excluded,       \* the nodes --exclude names
          NumRuns,        \* how many times the command is started
          JoinAt,         \* where a run may be when the next one is started
          MaxFaults,      \* failed API calls and kills in one behaviour
          None            \* no run, no node

ASSUME BenchmarkAssumption ==
    /\ NumRuns \in Nat
    /\ None \notin 1 .. NumRuns
    /\ "idle" \notin JoinAt

Runs == 1 .. NumRuns

\* What the command finds or creates by name, and deletes at its end or never.
Released == {"svcHost", "svcPod", "dsHost", "dsPod"}
Kept == {"sa", "role", "binding", "script"}
Objects == Released \cup Kept

\* The client pods: one per network mode, and one on each node.
Intra(n) == <<"intra", n>>
IntraPods == {Intra(n) : n \in Nodes}
ClientPods == {<<"host", None>>, <<"pod", None>>} \cup IntraPods
HostPod == <<"host", None>>
PodPod == <<"pod", None>>

VARIABLES pc,           \* [Runs -> the next call of CreateNewBenchmark]
          registered,   \* the runs whose deferred release is registered
          unreleased,   \* the runs a delete of whose release failed
          sourceNode,   \* [Runs -> the node read from the client pod]
          owner,        \* [Objects -> the run that created it, None if absent]
          ready,        \* the DaemonSets all of whose pods are ready
          pods,         \* [ClientPods -> the pod, phase "absent" if none]
          reports,      \* the result ConfigMaps just stored; nothing reads them again
          faults,       \* faults so far
          overlapped    \* were two runs ever active at once?

vars == <<pc, registered, unreleased, sourceNode, owner, ready, pods, reports, faults, overlapped>>

Absent == [phase |-> "absent", by |-> None, node |-> None, deleting |-> FALSE, measured |-> FALSE]

Init ==
    /\ pc = [r \in Runs |-> "idle"]
    /\ registered = {}
    /\ unreleased = {}
    /\ sourceNode = [r \in Runs |-> None]
    /\ owner = [o \in Objects |-> None]
    /\ ready = {}
    /\ pods = [p \in ClientPods |-> Absent]
    /\ reports = {}
    /\ faults = 0
    /\ overlapped = FALSE

Active(r) == pc[r] \notin {"idle", "ended", "killed"}

Goto(r, step) == pc' = [pc EXCEPT ![r] = step]

\* An API call fails.
Fault == faults < MaxFaults /\ faults' = faults + 1
NoFault == UNCHANGED faults

\* A return with an error: the deferred release, if registered.
Return(r) == Goto(r, IF r \in registered THEN "releasePods" ELSE "ended")

-----------------------------------------------------------------------------
(* Setting up                                                               *)

\* The client is built and the namespace found or created, before main.
init(r) ==
    /\ pc[r] = "idle"
    /\ r > 1 => pc[r - 1] \in JoinAt \cup {"ended", "killed"}
    /\ \/ NoFault /\ Goto(r, "services")
       \/ Fault /\ Goto(r, "ended")
    /\ overlapped' = (overlapped \/ \E other \in Runs \ {r} : Active(other))
    /\ UNCHANGED <<registered, unreleased, sourceNode, owner, ready, pods, reports>>

\* Who created an object matters only for those a run releases.
Ensured(own, r, names) ==
    [o \in Objects |-> IF o \in names /\ own[o] = None
                       THEN IF o \in Released THEN r ELSE 0
                       ELSE own[o]]

\* Objects are looked up and, if not found, created, in the order of the
\* sequence; the first error returns, and the answer of a create may be lost.
EnsureAll(r, names, next) ==
    \/ /\ NoFault
       /\ owner' = Ensured(owner, r, {names[i] : i \in DOMAIN names})
       /\ Goto(r, next)
    \/ /\ Fault
       /\ \E k \in 0 .. Len(names) :
              owner' = Ensured(owner, r, {names[i] : i \in 1 .. k})
       /\ Return(r)

CreateIperfHeadlessServices(r) ==
    /\ pc[r] = "services"
    /\ EnsureAll(r, <<"svcHost", "svcPod">>, "dsHost")
    /\ UNCHANGED <<registered, unreleased, sourceNode, ready, pods, reports, overlapped>>

\* The release is deferred once this DaemonSet is there.
CreateIperfHostNetworkDaemonSet(r) ==
    /\ pc[r] = "dsHost"
    /\ EnsureAll(r, <<"dsHost">>, "dsPod")
    /\ registered' = IF pc'[r] = "dsPod" THEN registered \cup {r} ELSE registered
    /\ UNCHANGED <<unreleased, sourceNode, ready, pods, reports, overlapped>>

CreateIperfPodNetworkDaemonSet(r) ==
    /\ pc[r] = "dsPod"
    /\ EnsureAll(r, <<"dsPod">>, "readyHost")
    /\ UNCHANGED <<registered, unreleased, sourceNode, ready, pods, reports, overlapped>>

\* A mutant: servers that are not ready are waited for again.
WaitForDaemonSetReadyAgain(r, ds, step, next) ==
    /\ pc[r] = step
    /\ \/ NoFault /\ Goto(r, IF ds \in ready THEN next ELSE step)
       \/ Fault /\ Return(r)
    /\ UNCHANGED <<registered, unreleased, sourceNode, owner, ready, pods, reports, overlapped>>

\* Polled for two minutes; a failed Get, also by the deadline, is an error.
WaitForDaemonSetReady(r, ds, step, next) ==
    /\ pc[r] = step
    /\ \/ NoFault /\ IF ds \in ready THEN Goto(r, next) ELSE Return(r)
       \/ Fault /\ Return(r)
    /\ UNCHANGED <<registered, unreleased, sourceNode, owner, ready, pods, reports, overlapped>>

CreateIperfRolesAndBindings(r) ==
    /\ pc[r] = "rbac"
    /\ EnsureAll(r, <<"sa", "role", "binding">>, "script")
    /\ UNCHANGED <<registered, unreleased, sourceNode, ready, pods, reports, overlapped>>

CreateIperfBencharkScriptConfigMap(r) ==
    /\ pc[r] = "script"
    /\ EnsureAll(r, <<"script">>, "deleteHost")
    /\ UNCHANGED <<registered, unreleased, sourceNode, ready, pods, reports, overlapped>>

-----------------------------------------------------------------------------
(* One client pod per network mode                                          *)

Delete(ps, which) ==
    [p \in ClientPods |-> IF p \in which /\ ps[p].phase # "absent"
                          THEN [ps[p] EXCEPT !.deleting = TRUE] ELSE ps[p]]

NewPod(r, node) == [Absent EXCEPT !.phase = "Pending", !.by = r, !.node = node]

\* An old pod is deleted (a failure is only a warning), and after two seconds,
\* enough or not for it to be gone, the new one is created.
DeleteOldPod(r, p, step, next) ==
    /\ pc[r] = step
    /\ \/ NoFault /\ pods' = Delete(pods, {p})
       \/ Fault /\ UNCHANGED pods
    /\ Goto(r, next)
    /\ reports' = {}
    /\ UNCHANGED <<registered, unreleased, sourceNode, owner, ready, overlapped>>

\* A mutant: a pod that is there already will do.
CreateOrKeepClientPod(r, p, step, next) ==
    /\ pc[r] = step
    /\ NoFault
    /\ pods' = IF pods[p].phase = "absent" THEN [pods EXCEPT ![p] = NewPod(r, None)] ELSE pods
    /\ Goto(r, next)
    /\ UNCHANGED <<registered, unreleased, sourceNode, owner, ready, reports, overlapped>>

CreateClientPod(r, p, step, next) ==
    /\ pc[r] = step
    /\ \/ /\ NoFault
          /\ pods[p].phase = "absent"
          /\ pods' = [pods EXCEPT ![p] = NewPod(r, None)]
          /\ Goto(r, next)
       \/ /\ NoFault
          /\ pods[p].phase # "absent"
          /\ UNCHANGED pods
          /\ Return(r)
       \/ /\ Fault
          /\ \/ UNCHANGED pods
             \/ pods[p].phase = "absent" /\ pods' = [pods EXCEPT ![p] = NewPod(r, None)]
          /\ Return(r)
    /\ UNCHANGED <<registered, unreleased, sourceNode, owner, ready, reports, overlapped>>

CreateIperfHostNetworkBenchmarkPod(r) ==
    \/ DeleteOldPod(r, HostPod, "deleteHost", "createHost")
    \/ CreateClientPod(r, HostPod, "createHost", "sourceHost")

CreateIperfPodNetworkBenchmarkPod(r) ==
    \/ DeleteOldPod(r, PodPod, "deletePod", "createPod")
    \/ CreateClientPod(r, PodPod, "createPod", "sourcePod")

\* Right after the create: the pod may not have a node yet.
GetSourceNodeFromPod(r, p, step, next) ==
    /\ pc[r] = step
    /\ \/ NoFault /\ pods[p].phase # "absent" /\ sourceNode' = [sourceNode EXCEPT ![r] = pods[p].node]
       \/ NoFault /\ pods[p].phase = "absent" /\ sourceNode' = [sourceNode EXCEPT ![r] = "unknown"]
       \/ Fault /\ sourceNode' = [sourceNode EXCEPT ![r] = "unknown"]
    /\ Goto(r, next)
    /\ UNCHANGED <<registered, unreleased, owner, ready, pods, reports, overlapped>>

\* Succeeded or Failed: the command tells them apart nowhere.
Completed(pod) == pod.phase = "Completed"

\* Whatever the logs hold, a report is made of them.
ParseBenchmarkLogs(r, mode, pod, source) ==
    [run |-> r, mode |-> mode, by |-> pod.by, node |-> pod.node, source |-> source]

\* Stored under a name of its own; a failure is only a warning.
CreateBenchmarkResultConfigMap(new) ==
    \/ NoFault /\ reports' = new
    \/ Fault /\ \E kept \in SUBSET new : kept # new /\ reports' = kept

\* Polled until the pod has completed, for twenty minutes; a Get that fails,
\* an unknown phase, the deadline, or unreadable logs are errors.
WaitForPodCompletion(r, p, mode, step, next) ==
    /\ pc[r] = step
    /\ \/ /\ Completed(pods[p])
          /\ CreateBenchmarkResultConfigMap({ParseBenchmarkLogs(r, mode, pods[p], sourceNode[r])})
          /\ Goto(r, next)
       \/ ~Completed(pods[p]) /\ NoFault /\ UNCHANGED reports /\ Return(r)
       \/ Completed(pods[p]) /\ Fault /\ UNCHANGED reports /\ Return(r)
    /\ sourceNode' = [sourceNode EXCEPT ![r] = None]
    /\ UNCHANGED <<registered, unreleased, owner, ready, pods, overlapped>>

\* The stored results are listed and shown, on a context without a deadline;
\* whatever comes of it is ignored.
ListBenchmarksWithFilter(r, step, next) ==
    /\ pc[r] = step
    /\ Goto(r, next)
    /\ reports' = {}
    /\ UNCHANGED <<registered, unreleased, sourceNode, owner, ready, pods, faults, overlapped>>

-----------------------------------------------------------------------------
(* One client pod per node                                                  *)

\* The old ones are deleted, as above.
DeleteOldIntraPods(r) ==
    /\ pc[r] = "deleteIntra"
    /\ \/ NoFault /\ pods' = Delete(pods, IntraPods) /\ Goto(r, "createIntra")
       \/ Fault /\ UNCHANGED pods /\ (Goto(r, "createIntra") \/ Return(r))
    /\ reports' = {}
    /\ UNCHANGED <<registered, unreleased, sourceNode, owner, ready, overlapped>>

\* Nodes are skipped where the create fails, or its answer is lost; at least
\* one create must succeed.
CreateIntraNodeBenchmarkPods(r) ==
    LET free == {n \in Nodes \ Excluded : pods[Intra(n)].phase = "absent"} IN
    /\ pc[r] = "createIntra"
    /\ \E created \in SUBSET free : \E answered \in SUBSET created :
          /\ IF answered = free THEN NoFault ELSE Fault
          /\ pods' = [p \in ClientPods |-> IF \E n \in created : p = Intra(n)
                                           THEN NewPod(r, p[2]) ELSE pods[p]]
          /\ IF answered = {} THEN Return(r) ELSE Goto(r, "waitIntra")
    /\ UNCHANGED <<registered, unreleased, sourceNode, owner, ready, reports, overlapped>>

\* All pods with the label are waited for, this run's or not; the reports
\* with results are stored.
WaitForIntraNodeBenchmarkCompletion(r) ==
    LET listed == {p \in IntraPods : pods[p].phase # "absent"}
        done == listed # {} /\ \A p \in listed : Completed(pods[p])
    IN
    /\ pc[r] = "waitIntra"
    /\ \/ done /\ CreateBenchmarkResultConfigMap(
                      {ParseBenchmarkLogs(r, "intra", pods[p], pods[p].node) :
                           p \in {q \in listed : pods[q].measured}})
            /\ Goto(r, "listIntra")
       \/ ~done /\ NoFault /\ UNCHANGED reports /\ Return(r)
       \/ done /\ Fault /\ UNCHANGED reports /\ Return(r)
    /\ UNCHANGED <<registered, unreleased, sourceNode, owner, ready, pods, overlapped>>

-----------------------------------------------------------------------------
(* The release                                                              *)

\* One delete; a failure is only a warning.
ReleaseObject(r, o) ==
    \/ /\ NoFault
       /\ owner' = [owner EXCEPT ![o] = None]
       /\ ready' = ready \ {o}
       /\ UNCHANGED unreleased
    \/ /\ Fault
       /\ unreleased' = unreleased \cup {r}
       /\ UNCHANGED <<owner, ready>>

ReleasePods(r, which) ==
    \/ NoFault /\ pods' = Delete(pods, which) /\ UNCHANGED unreleased
    \/ Fault /\ unreleased' = unreleased \cup {r} /\ UNCHANGED pods

\* A mutant: the pods on the nodes are forgotten.
ReleaseForgetsIntra(r) ==
    \/ /\ \/ pc[r] = "releasePods" /\ ReleasePods(r, {HostPod}) /\ Goto(r, "releasePodPod")
          \/ pc[r] = "releasePodPod" /\ ReleasePods(r, {PodPod}) /\ Goto(r, "releaseDsHost")
       /\ UNCHANGED <<owner, ready>>
    \/ /\ \/ pc[r] = "releaseDsHost" /\ ReleaseObject(r, "dsHost") /\ Goto(r, "releaseDsPod")
          \/ pc[r] = "releaseDsPod" /\ ReleaseObject(r, "dsPod") /\ Goto(r, "releaseSvcPod")
          \/ pc[r] = "releaseSvcPod" /\ ReleaseObject(r, "svcPod") /\ Goto(r, "releaseSvcHost")
          \/ pc[r] = "releaseSvcHost" /\ ReleaseObject(r, "svcHost") /\ Goto(r, "ended")
       /\ UNCHANGED pods

ReleaseBenchmarkResources(r) ==
    \/ /\ \/ pc[r] = "releasePods" /\ ReleasePods(r, {HostPod}) /\ Goto(r, "releasePodPod")
          \/ pc[r] = "releasePodPod" /\ ReleasePods(r, {PodPod}) /\ Goto(r, "releaseIntra")
          \/ pc[r] = "releaseIntra" /\ ReleasePods(r, IntraPods) /\ Goto(r, "releaseDsHost")
       /\ UNCHANGED <<owner, ready>>
    \/ /\ \/ pc[r] = "releaseDsHost" /\ ReleaseObject(r, "dsHost") /\ Goto(r, "releaseDsPod")
          \/ pc[r] = "releaseDsPod" /\ ReleaseObject(r, "dsPod") /\ Goto(r, "releaseSvcPod")
          \/ pc[r] = "releaseSvcPod" /\ ReleaseObject(r, "svcPod") /\ Goto(r, "releaseSvcHost")
          \/ pc[r] = "releaseSvcHost" /\ ReleaseObject(r, "svcHost") /\ Goto(r, "ended")
       /\ UNCHANGED pods

Release(r) ==
    /\ ReleaseBenchmarkResources(r)
    /\ reports' = {}
    /\ UNCHANGED <<registered, sourceNode, overlapped>>

\* The calls of one run of the command, in their order.
CreateNewBenchmark(r) ==
    \/ CreateIperfHeadlessServices(r)
    \/ CreateIperfHostNetworkDaemonSet(r)
    \/ CreateIperfPodNetworkDaemonSet(r)
    \/ WaitForDaemonSetReady(r, "dsHost", "readyHost", "readyPod")
    \/ WaitForDaemonSetReady(r, "dsPod", "readyPod", "rbac")
    \/ CreateIperfRolesAndBindings(r)
    \/ CreateIperfBencharkScriptConfigMap(r)
    \/ CreateIperfHostNetworkBenchmarkPod(r)
    \/ GetSourceNodeFromPod(r, HostPod, "sourceHost", "waitHost")
    \/ WaitForPodCompletion(r, HostPod, "host", "waitHost", "listHost")
    \/ ListBenchmarksWithFilter(r, "listHost", "deletePod")
    \/ CreateIperfPodNetworkBenchmarkPod(r)
    \/ GetSourceNodeFromPod(r, PodPod, "sourcePod", "waitPod")
    \/ WaitForPodCompletion(r, PodPod, "pod", "waitPod", "listPod")
    \/ ListBenchmarksWithFilter(r, "listPod", "deleteIntra")
    \/ DeleteOldIntraPods(r)
    \/ CreateIntraNodeBenchmarkPods(r)
    \/ WaitForIntraNodeBenchmarkCompletion(r)
    \/ ListBenchmarksWithFilter(r, "listIntra", "releasePods")
    \/ Release(r)

\* The process is killed (an interrupt runs no deferred call).
Kill(r) ==
    /\ Active(r)
    /\ Fault
    /\ Goto(r, "killed")
    /\ registered' = registered \ {r}
    /\ unreleased' = unreleased \ {r}
    /\ sourceNode' = [sourceNode EXCEPT ![r] = None]
    /\ UNCHANGED <<owner, ready, pods, reports, overlapped>>

-----------------------------------------------------------------------------
(* The cluster                                                              *)

\* The DaemonSet controller.
ServersReady(ds) ==
    /\ owner[ds] # None /\ ds \notin ready
    /\ ready' = ready \cup {ds}
    /\ UNCHANGED <<pc, registered, unreleased, sourceNode, owner, pods, reports, faults, overlapped>>

\* The nodes the client's script measures: the servers its label selects,
\* but for excluded nodes; its own in intra-node mode, the others otherwise.
run_benchmark(p, node, servers) ==
    {n \in servers \ Excluded : IF p \in IntraPods THEN n = node ELSE n # node}

ServerPods(p) ==
    LET ds == IF p = HostPod THEN "dsHost" ELSE "dsPod" IN
    IF ds \in ready THEN {Nodes} ELSE SUBSET Nodes

PodStep(p, new) ==
    /\ pods' = [pods EXCEPT ![p] = new]
    /\ UNCHANGED <<pc, registered, unreleased, sourceNode, owner, ready, reports, faults, overlapped>>

\* The scheduler.
PodScheduled(p) ==
    /\ pods[p].phase = "Pending" /\ pods[p].node = None /\ ~pods[p].deleting
    /\ \E n \in Nodes : PodStep(p, [pods[p] EXCEPT !.node = n])

\* The script ends, having measured its targets or failed on the way (at once
\* without servers).  That there are results matters for intra-node pods only.
PodCompletes(p) ==
    /\ pods[p].phase = "Pending" /\ pods[p].node # None
    /\ \E servers \in ServerPods(p) :
          \E measured \in SUBSET run_benchmark(p, pods[p].node, servers) :
             PodStep(p, [pods[p] EXCEPT !.phase = "Completed",
                                        !.measured = p \in IntraPods /\ measured # {}])

\* A deleted pod is gone when its grace period is over.
PodGone(p) ==
    /\ pods[p].deleting
    /\ PodStep(p, Absent)

Cluster ==
    \/ \E ds \in {"dsHost", "dsPod"} : ServersReady(ds)
    \/ \E p \in ClientPods : PodScheduled(p) \/ PodCompletes(p) \/ PodGone(p)

Next ==
    \/ \E r \in Runs : init(r) \/ CreateNewBenchmark(r) \/ Kill(r)
    \/ Cluster

Spec == Init /\ [][Next]_vars

\* A command that was started goes on, where its calls and its waits have a
\* deadline; a list of the results has none and may never return.  Of the
\* cluster nothing is assumed.
Listing(r) == pc[r] \in {"listHost", "listPod", "listIntra"}

FairSpec == Spec /\ \A r \in Runs : WF_vars(~Listing(r) /\ CreateNewBenchmark(r))

-----------------------------------------------------------------------------
(* Properties                                                               *)

Live(p) == pods[p].phase # "absent" /\ ~pods[p].deleting

\* The release ran to its end and every delete in it succeeded.
EndedClean(r) == pc[r] = "ended" /\ r \in registered \ unreleased

Later(r) == {other \in Runs : other > r /\ pc[other] # "idle"}

\* What is left of a run that has ended.  The service account, the role, its
\* binding and the script always stay: nothing deletes them.  Of the rest, if
\* the release was registered and met no error, nothing this run created is
\* left, however it got there and whatever another run did meanwhile; and if
\* it had the cluster for itself, nothing an earlier run that was killed or
\* failed had left either (defer ReleaseBenchmarkResources).  A run that fails
\* before the release is deferred leaves the two services and the host network
\* DaemonSet at most, and no pod.
CleanedUp ==
    \A r \in Runs :
        /\ EndedClean(r) =>
              LET others == IF overlapped \/ Later(r) # {} THEN {r} ELSE Runs IN
              /\ \A o \in Objects \ Kept : owner[o] \notin others
              /\ \A p \in ClientPods : Live(p) => pods[p].by \notin others
        /\ pc[r] = "ended" /\ r \notin registered =>
              /\ \A o \in Objects \ Kept : owner[o] = r => o \in {"svcHost", "svcPod", "dsHost"}
              /\ \A p \in ClientPods : Live(p) => pods[p].by # r

\* Unless two runs overlap, a stored host or pod network report is made of the
\* logs of the pod this run created, never of one an earlier run left under
\* the same name, and the source node it names, if any, is that pod's.
OwnReport ==
    ~overlapped =>
        \A report \in reports :
            report.mode # "intra" =>
                /\ report.by = report.run
                /\ report.source \in {report.node, None, "unknown"}

\* Once the release is deferred, and again after each of the three lists of
\* the results between the benchmarks, the command comes to its release or to
\* the next list, whether the cluster ever runs its pods or not: its waits
\* have deadlines, and the later ones return through the deferred call.  In
\* the end the objects it releases are gone and its pods deleted.  Only a
\* command that is killed or a delete that fails leaves them, or a list, which
\* has no deadline, that never returns.
Nothing(r) ==
    /\ \A o \in Objects \ Kept : owner[o] # r
    /\ \A p \in ClientPods : Live(p) => pods[p].by # r

ReleasedInTheEnd ==
    \A r \in Runs :
        r \in registered ~> \/ Nothing(r) /\ ~Active(r)
                            \/ Listing(r)
                            \/ pc[r] = "killed" \/ r \in unreleased
=============================================================================
