---------------------------- MODULE PluginCaches ----------------------------
(***************************************************************************)
(* The scheduler plugins that keep state about pods, each in the life of   *)
(* pods that PodLifecycle describes: CapacityScheduling, the NRT caches    *)
(* OverReserve and DiscardReserved, SySched and the Trimaran handler.  A   *)
(* behaviour deploys one of them: they share no state.                     *)
(***************************************************************************)
EXTENDS PodLifecycle, CapacityScheduling, NRTCache, SySched, Trimaran

CONSTANTS Scenarios,         \* what a behaviour is about: [plugin, pods, faults]
          Quotas,            \* the ElasticQuota objects: namespace -> [min, max]
          ZoneOf,            \* pod -> the zone the kubelet gives it
          ZoneSize,          \* units of a zone
          ReportsNRT,        \* the nodes with an NRT object
          Profiles,          \* pod -> its seccomp profiles
          DefaultProfile,    \* the profile of pods without any
          MaxNow             \* bound: ticks of the clock

ASSUME RequestsAssumption ==
    /\ IsFiniteSet(Pods)
    /\ \A p \in Pods, name \in Native : Amount(PodRequest[p], name) \in Int
    /\ \A p \in Pods : PodZoneRequest[p] \in Nat
    /\ ZoneSize \in Int

ASSUME ClockAssumption == ReportingInterval \in Nat

VARIABLES scenario,
          infos, quotas, uncounted,               \* CapacityScheduling
          nrt, ov, resync, dropped, news,  \* OverReserve
          reservationMap,                         \* DiscardReserved
          sysched, lastRead,                      \* SySched
          scheduledPods, now, assignedAt          \* Trimaran

quotaVars == <<infos, quotas, uncounted>>
nrtVars == <<nrt, ov, resync, dropped, news>>
syschedVars == <<sysched, lastRead>>
trimaranVars == <<scheduledPods, now, assignedAt>>
caches == <<quotaVars, nrtVars, reservationMap, syschedVars, trimaranVars>>
vars == <<lifecycle, scenario, caches>>

\* What the kubelet of n holds, and the NRT object its agent writes.
OnNode(n) == {p \in Pods : store[p].node = n /\ store[p].phase \in {"Creating", "Running"}}
ZoneUse(pods, z) == MapThenSumSet(LAMBDA p : PodZoneRequest[p], {p \in pods : ZoneOf[p] = z})
Report(pods, conf) ==
    {[pods |-> pods, free |-> [z \in Zones |-> ZoneSize - ZoneUse(pods, z)],
      conf |-> conf, onlyExclusive |-> FALSE]}

\* What a call of getSyscalls may return for each pod.
Answers == [p \in Pods |-> PossibleSyscalls(Profiles[p], DefaultProfile)]

Idle == [at |-> "idle"]
Fault(f) == f \in scenario.faults
deployed == scenario.plugin

Init ==
    /\ scenario \in Scenarios
    /\ LifecycleInit(scenario.pods)
    /\ infos = NoInfos /\ uncounted = {}
    /\ quotas = IF Fault("quota changes") THEN {} ELSE DOMAIN Quotas
    /\ nrt = [n \in Nodes |-> IF n \in ReportsNRT THEN Report(OnNode(n), SingleNUMA) ELSE {}]
    /\ ov = NewOverReserve(nrt)
    /\ resync = Idle /\ dropped = {} /\ news = {}
    /\ reservationMap = [n \in Nodes |-> {}]
    /\ sysched = NewSySched /\ lastRead = [p \in Pods |-> {}]
    /\ scheduledPods = [n \in Nodes |-> <<>>]
    /\ now = 0 /\ assignedAt = [p \in Pods |-> -1]

-----------------------------------------------------------------------------
\* The cluster's own steps.
Cluster(p) ==
    /\ \/ KubeletStep(p) \/ DeleteStep(p)
       \/ \E n \in Nodes : ForeignBind(p, n)
    /\ UNCHANGED <<scenario, caches>>

\* The ElasticQuota of a namespace is created and deleted at any time.
ChangeQuota(ns) ==
    /\ deployed = "CapacityScheduling" /\ Fault("quota changes")
    /\ quotas' = IF ns \in quotas THEN quotas \ {ns} ELSE quotas \cup {ns}
    /\ UNCHANGED <<lifecycle, scenario, infos, uncounted, nrtVars, reservationMap, syschedVars, trimaranVars>>

-----------------------------------------------------------------------------
\* The informer's handlers, one disjunct per plugin.
\* addPod lists the quotas of a namespace it has no entry for: the call may fail,
\* and there may be no quota yet.  Nothing adds the pod later: uncounted has it.
QuotaEvent(p) ==
    LET event == FilteredEvent(seen[p], Head(feed[p])) IN
    /\ \/ /\ event = "add"
          /\ \E listed \in BOOLEAN :
                /\ Tracked(infos, p) => listed
                /\ infos' = QuotaAddPod(infos, p, [ns \in quotas |-> Quotas[ns]], listed)
                /\ uncounted' = IF Tracked(infos, p) \/ (listed /\ PodNamespace[p] \in quotas)
                                THEN uncounted ELSE uncounted \cup {p}
       \/ /\ event = "update"
          /\ infos' = QuotaUpdatePod(infos, p, seen[p], Head(feed[p])) /\ UNCHANGED uncounted
       \/ event = "delete" /\ infos' = QuotaDeletePod(infos, p) /\ UNCHANGED uncounted
       \/ event = "none" /\ UNCHANGED <<infos, uncounted>>
    /\ UNCHANGED quotas

\* SetupForeignPodsDetector's handler runs for every version, the last included.
ForeignPodsEvent(p) ==
    LET new == Head(feed[p]) IN
    /\ ov' = IF IsForeignPod(p, new.node # NoNode, p \in Own) THEN NodeHasForeignPods(ov, new.node)
             ELSE ov
    /\ UNCHANGED <<nrt, resync, dropped, news>>

\* lastRead is what getSyscalls last returned for each pod: for the pod that is
\* added, for the pods that stay on the host when one is removed.
SySchedEvent(p) ==
    LET new == Head(feed[p])
        concerned == {p} \cup UNION {sysched.pods[n] : n \in DOMAIN sysched.pods}
        readOf(kept) == IF kept = sysched.pods THEN {}
                        ELSE IF new.phase = "Deleted" THEN kept[seen[p].node] ELSE {p} IN
    \E got \in [concerned -> UNION {Answers[q] : q \in concerned}] :
        /\ \A q \in concerned : got[q] \in Answers[q]
        /\ sysched' = IF new.phase = "Deleted" THEN podDeleted(sysched, p, seen[p], got)
                      ELSE IF seen[p] = Unseen THEN podAdded(sysched, p, new, got)
                      ELSE podUpdated(sysched, p, seen[p], got)
        /\ lastRead' = [q \in Pods |-> IF q \in readOf(sysched'.pods) THEN got[q] ELSE lastRead[q]]

TrimaranEvent(p) ==
    LET new == Head(feed[p])
        event == FilteredEvent(seen[p], new) IN
    /\ scheduledPods' = CASE event = "add" -> updateCache(scheduledPods, p, new.node, now)
                          [] event = "update" -> OnUpdate(scheduledPods, p, seen[p], new, now)
                          [] event = "delete" -> OnDelete(scheduledPods, p, new.node)
                          [] OTHER -> scheduledPods
    /\ assignedAt' = IF event = "add" THEN [assignedAt EXCEPT ![p] = now] ELSE assignedAt
    /\ UNCHANGED now

Deliver(p) ==
    /\ DeliverStep(p)
    /\ \/ deployed = "CapacityScheduling" /\ QuotaEvent(p)
             /\ UNCHANGED <<nrtVars, reservationMap, syschedVars, trimaranVars>>
       \/ deployed = "OverReserve" /\ ForeignPodsEvent(p)
             /\ UNCHANGED <<quotaVars, reservationMap, syschedVars, trimaranVars>>
       \/ deployed = "DiscardReserved" /\ UNCHANGED caches
       \/ deployed = "SySched" /\ SySchedEvent(p)
             /\ UNCHANGED <<quotaVars, nrtVars, reservationMap, trimaranVars>>
       \/ deployed = "Trimaran" /\ TrimaranEvent(p)
             /\ UNCHANGED <<quotaVars, nrtVars, reservationMap, syschedVars>>
    /\ UNCHANGED scenario

-----------------------------------------------------------------------------
\* The pods on n, and the own pods whose bind call can still put them there.
There(n) == {q \in Pods : Unfinished(store[q]) /\ store[q].node = n}
Coming(n) == {q \in Own : stage[q] = "binding" /\ target[q] = n /\ store[q].phase = "Unbound"}

\* What dropped records: the nodes whose cached object no longer accounts for an
\* own pod that is there or coming.  A flush drops the reservations of pods that
\* are not in the object it caches, Unreserve that of a pod whose bind answer was
\* lost, a restart every one.
DroppedByFlush(updates) ==
    {n \in DOMAIN updates : \E q \in ov.assumed[n], r \in updates[n] :
        q \notin r.pods /\ q \in There(n) \cup Coming(n)}
DroppedByUnreserve(p) ==
    {n \in {target[p]} : p \in There(n) /\ \E c \in ov.nrts[n] : p \notin c.pods}
DroppedByRestart ==
    {n \in Nodes : \E r \in nrt[n] : ~(There(n) \cap Own \subseteq r.pods)}

-----------------------------------------------------------------------------
\* The extension points of the scheduling and binding cycles.  Another plugin's
\* preemption may have nominated any of the other waiting pods.
Answer(n) ==
    CASE deployed = "OverReserve" -> GetCachedNRTCopy(ov, n)
      [] deployed = "DiscardReserved" -> DiscardGetCachedNRTCopy(reservationMap, nrt, n)
      [] OTHER -> [fresh |-> TRUE, has |-> FALSE, nrt |-> NoNRT]

Waiting(p) == {q \in Own \ {p} : seen[q].phase = "Unbound" /\ stage[q] = "queued"}

Filter(p, n) ==
    /\ StartCycle(p, n)
    /\ deployed = "CapacityScheduling" =>
          \E nominated \in SUBSET Waiting(p) : QuotaPreFilter(infos, p, nominated)
    /\ FilterTopology(p, Answer(n)) = "fits"
    /\ UNCHANGED <<scenario, caches>>

CannotAlign(p, n) ==
    /\ deployed = "OverReserve" /\ Synced /\ InCycle = {}
    /\ stage[p] = "queued" /\ seen[p].phase = "Unbound"
    /\ FilterTopology(p, Answer(n)) = "cannot align"
    /\ ov' = NodeMaybeOverReserved(ov, n)
    /\ UNCHANGED <<lifecycle, scenario, quotaVars, nrt, resync, dropped, news,
                   reservationMap, syschedVars, trimaranVars>>

Reserve(p) ==
    /\ ReserveStep(p)
    /\ infos' = IF deployed = "CapacityScheduling" THEN QuotaReserve(infos, p) ELSE infos
    /\ ov' = IF deployed = "OverReserve" THEN ReserveNodeResources(ov, target[p], p) ELSE ov
    /\ reservationMap' = IF deployed = "DiscardReserved"
                         THEN DiscardReserve(reservationMap, target[p], p) ELSE reservationMap
    /\ UNCHANGED <<scenario, quotas, uncounted, nrt, resync, dropped, news,
                   syschedVars, trimaranVars>>

Binding(p) ==
    /\ Bind(p) \/ BindFails(p)
    /\ UNCHANGED <<scenario, caches>>

BindAnswerLost(p) ==
    /\ Fault("lost answer") /\ BindLost(p)
    /\ uncounted' = IF deployed = "CapacityScheduling" THEN uncounted \cup {p} ELSE uncounted
    /\ UNCHANGED <<scenario, infos, quotas, nrtVars, reservationMap, syschedVars, trimaranVars>>

PostBind(p) ==
    /\ PostBindStep(p)
    /\ reservationMap' = IF deployed = "DiscardReserved"
                         THEN removeReservationForNode(reservationMap, target[p], p) ELSE reservationMap
    /\ UNCHANGED <<scenario, quotaVars, nrtVars, syschedVars, trimaranVars>>

Unreserve(p) ==
    /\ UnreserveStep(p)
    /\ infos' = IF deployed = "CapacityScheduling" THEN QuotaUnreserve(infos, p) ELSE infos
    /\ ov' = IF deployed = "OverReserve" THEN UnreserveNodeResources(ov, target[p], p) ELSE ov
    /\ reservationMap' = IF deployed = "DiscardReserved"
                         THEN removeReservationForNode(reservationMap, target[p], p) ELSE reservationMap
    /\ dropped' = IF deployed = "OverReserve" THEN dropped \cup DroppedByUnreserve(p) ELSE dropped
    /\ UNCHANGED <<scenario, quotas, uncounted, nrt, resync, news, syschedVars, trimaranVars>>

Restart ==
    /\ Fault("restart") /\ RestartStep
    /\ infos' = NoInfos /\ uncounted' = {}
    /\ ov' = NewOverReserve(nrt) /\ resync' = Idle /\ dropped' = DroppedByRestart /\ news' = {}
    /\ reservationMap' = [n \in Nodes |-> {}]
    /\ sysched' = NewSySched /\ lastRead' = [p \in Pods |-> {}]
    /\ scheduledPods' = [n \in Nodes |-> <<>>] /\ assignedAt' = [p \in Pods |-> -1]
    /\ UNCHANGED <<scenario, quotas, nrt, now>>

-----------------------------------------------------------------------------
\* OverReserve: the node's agent, the watch of NRT objects, the resync loop.
AgentReports(n) ==
    /\ deployed \in {"OverReserve", "DiscardReserved"}
    /\ \E r \in nrt[n] : nrt' = [nrt EXCEPT ![n] = Report(OnNode(n), r.conf)]
    /\ nrt' # nrt
    /\ news' = IF deployed = "OverReserve" THEN news \cup {n} ELSE news
    /\ UNCHANGED <<lifecycle, scenario, quotaVars, ov, resync, dropped,
                   reservationMap, syschedVars, trimaranVars>>

ConfChanges(n) ==
    /\ deployed = "OverReserve" /\ Fault("new configuration")
    /\ nrt' = [nrt EXCEPT ![n] = {[r EXCEPT !.conf = "restricted"] : r \in @}]
    /\ nrt' # nrt
    /\ news' = news \cup {n}
    /\ UNCHANGED <<lifecycle, scenario, quotaVars, ov, resync, dropped,
                   reservationMap, syschedVars, trimaranVars>>

WatchStep(n) ==
    /\ deployed = "OverReserve" /\ n \in news
    /\ ov' = ProcessEvent(ov, n, CHOOSE r \in nrt[n] : TRUE)
    /\ news' = news \ {n}
    /\ UNCHANGED <<lifecycle, scenario, quotaVars, nrt, resync, dropped,
                   reservationMap, syschedVars, trimaranVars>>

ResyncStep ==
    /\ deployed = "OverReserve"
    /\ LET d == GetDesyncedNodes(ov) IN
       \/ /\ resync.at = "idle" /\ d.dirty \cup d.changed # {}
          /\ resync' = [at |-> "list", desynced |-> d] /\ UNCHANGED <<ov, dropped>>
       \/ /\ resync.at = "list"
          /\ resync' = [at |-> "get", desynced |-> resync.desynced,
                        listed |-> [n \in Nodes |-> RelevantPods(seen, n)]]
          /\ UNCHANGED <<ov, dropped>>
       \/ /\ resync.at = "get"
          /\ resync' = [at |-> "flush",
                        updates |-> nrtUpdates(resync.desynced, resync.listed, nrt)]
          /\ UNCHANGED <<ov, dropped>>
       \/ /\ resync.at = "flush"
          /\ ov' = FlushNodes(ov, resync.updates)
          /\ dropped' = dropped \cup DroppedByFlush(resync.updates)
          /\ resync' = Idle
    /\ UNCHANGED <<lifecycle, scenario, quotaVars, nrt, news,
                   reservationMap, syschedVars, trimaranVars>>

-----------------------------------------------------------------------------
\* Trimaran: time passes; the cleaner's ticker fires.
Tick ==
    /\ deployed = "Trimaran" /\ now < MaxNow
    /\ now' = now + 1
    /\ UNCHANGED <<lifecycle, scenario, quotaVars, nrtVars, reservationMap, syschedVars,
                   scheduledPods, assignedAt>>

Cleanup ==
    /\ deployed = "Trimaran"
    /\ scheduledPods' = cleanupCache(scheduledPods, now)
    /\ UNCHANGED <<lifecycle, scenario, quotaVars, nrtVars, reservationMap, syschedVars, now, assignedAt>>

Next ==
    \/ \E p \in Pods : Cluster(p) \/ Deliver(p)
    \/ \E p \in Own : \/ \E n \in Nodes : Filter(p, n) \/ CannotAlign(p, n)
                      \/ Reserve(p) \/ Binding(p) \/ BindAnswerLost(p) \/ PostBind(p) \/ Unreserve(p)
    \/ \E n \in Nodes : AgentReports(n) \/ ConfChanges(n) \/ WatchStep(n)
    \/ \E ns \in DOMAIN Quotas : ChangeQuota(ns)
    \/ ResyncStep \/ Tick \/ Cleanup \/ Restart

Spec == Init /\ [][Next]_vars

\* The goroutines OverReserve depends on: its resync loop, the informer, the
\* node's agent and kubelet, which starts the pods it has admitted.  The watch
\* is not among them: nothing is claimed for a watch that stopped.
FairSpec ==
    /\ Spec
    /\ WF_vars(ResyncStep)
    /\ WF_vars(\E p \in Pods : Deliver(p))
    /\ WF_vars(\E p \in Pods : store[p].phase = "Creating" /\ Cluster(p))
    /\ WF_vars(\E n \in Nodes : AgentReports(n))

-----------------------------------------------------------------------------

\* What a quota counts as used is what the pods it lists request: no order of
\* Reserve, Unreserve and informer events adds a pod's request twice or takes
\* off one that was never added (addPodIfNotPresent, deletePodIfPresent).
UsedIsWhatPodsRequest ==
    \A ns \in DOMAIN infos :
        \A name \in Native : infos[ns].used[name] =
            MapThenSumSet(LAMBDA p : Amount(PodRequest[p], name), infos[ns].pods)

\* A pod the informer shows assigned and unfinished is counted against its
\* namespace's quota, whatever happened to the bind call's goroutine.  Excepted
\* are a pod whose quota did not exist, or could not be listed, when the informer
\* showed it assigned: addPod returns, and no later event adds it, also once
\* the quota exists; and one whose bind answer was lost, which Unreserve takes out
\* although the pod is bound.
BoundPodsCounted ==
    deployed = "CapacityScheduling" =>
        \A p \in Pods : Unfinished(seen[p]) /\ p \notin uncounted
            => Tracked(infos, p) /\ p \in InfoOf(infos, p).pods

\* CapacityScheduling counts every pod once, and every pod it had a quota for when
\* the pod came: what PreFilter compares with min and max is the use of the pods
\* the quota lists, and it lists those the informer shows, but for the exceptions
\* of BoundPodsCounted.
QuotaCountsPods == UsedIsWhatPodsRequest /\ BoundPodsCounted

\* No reservation of DiscardReserved outlives the binding cycle: a node is
\* closed exactly while a pod placed on it is between Reserve and PostBind or
\* Unreserve.
NoReservationLeaks ==
    deployed = "DiscardReserved" =>
        \A n \in Nodes : reservationMap[n] =
            {p \in Own : stage[p] \in {"binding", "bound", "failed"} /\ target[p] = n}

\* SySched keeps for a host only pods the informer shows there, none that was
\* deleted, and as its system calls exactly what was last read of these pods:
\* whatever reads failed or fell back to the default profile, nothing is left of
\* a pod that is gone, and of a pod that is there what the latest answer said.
HostSyscallsExact ==
    \A n \in DOMAIN sysched.pods :
        /\ \A p \in sysched.pods[n] : seen[p].node = n /\ seen[p].phase # "Deleted"
        /\ sysched.calls[n] = UNION {lastRead[p] : p \in sysched.pods[n]}

\* A pod assigned within the reporting interval and not deleted is in the
\* Trimaran cache of its node, once: the bisection of cleanupCache never cuts
\* off a recent entry, so no recent pod's load is forgotten or counted twice.
RecentPodsCachedOnce ==
    deployed = "Trimaran" =>
        \A p \in Pods :
            /\ seen[p].node # NoNode /\ seen[p].phase # "Deleted"
            /\ assignedAt[p] + ReportingInterval > now
            => Cardinality({i \in DOMAIN scheduledPods[seen[p].node] :
                                scheduledPods[seen[p].node][i].pod = p}) = 1

\* A node with an NRT object that is set aside for foreign pods, for suspected
\* over-reservation or for a new configuration is flushed sooner or later: the
\* fingerprint of the pods the lister shows running and the agent's meet.  It is
\* checked with a daemon pod on the node: the resync skips nodes without pods.
DirtyNodeResynced ==
    LET dirty(n) == n \in ov.foreign \cup ov.maybe \cup ov.attrs IN
    \A n \in ReportsNRT : dirty(n) ~> ~dirty(n)

\* A pod OverReserve's answer lets through fits in a zone of its node beside the
\* pods that are there or on their way, whatever zone the kubelet gives those:
\* taking an assumed pod off every zone causes no false positive.  It needs that
\* the node lost no reservation of such a pod (to a flush, to an Unreserve after a
\* bind whose answer was lost, to a restart) and that no foreign pod arrived since
\* the cached report; a pod that requests nothing fits anywhere.
FilteredPodFits ==
    [][\A p \in Own : (stage[p] = "queued" /\ stage'[p] = "cycle" /\ deployed = "OverReserve"
                        /\ PodZoneRequest[p] > 0) =>
          \A n \in {target'[p]} \ dropped : \A c \in ov.nrts[n] :
              (c.conf = SingleNUMA /\ There(n) \ Own \subseteq c.pods) =>
                  \E z \in Zones : ZoneUse(There(n) \cup Coming(n), z) + PodZoneRequest[p] <= ZoneSize]_vars

\* PreFilter's first validation, "(pod.request + eq.allocated) is less than
\* eq.max": the unfinished pods of a namespace stay within its quota's max.
MaxHonoured ==
    deployed = "CapacityScheduling" =>
        \A ns \in quotas : \A max \in Quotas[ns].max : \A name \in DOMAIN max :
            MapThenSumSet(LAMBDA p : Amount(PodRequest[p], name),
                          {p \in Pods : Unfinished(store[p]) /\ PodNamespace[p] = ns}) <= max[name]
=============================================================================
