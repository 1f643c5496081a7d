------------------------- MODULE CapacityScheduling -------------------------
(***************************************************************************)
(* capacityscheduling/capacity_scheduling.go: the quota accounting of the  *)
(* plugin and its admission test.  Each operator is one extension point or *)
(* event handler, run under the plugin's lock: it takes the map            *)
(* elasticQuotaInfos (a function from the namespaces that have an entry)   *)
(* and returns the new one.                                                *)
(*                                                                         *)
(* The handlers for ElasticQuota objects are registered on an informer of  *)
(* a controller-runtime cache that New never starts, so they never run: an *)
(* entry appears only when addPod finds the quota in the API server, and   *)
(* keeps the min and max it had then.                                      *)
(***************************************************************************)
EXTENDS ElasticQuotaInfo, Sequences

CONSTANTS PodNamespace,  \* pod -> namespace
          PodRequest,    \* pod -> what computePodResourceRequest returns for it
          PodPriority    \* pod -> priority

\* The plugin's map when the process starts (NewElasticQuotaInfos).
NoInfos == [ns \in {} |-> {}]

InfoOf(infos, p) == infos[PodNamespace[p]]
Tracked(infos, p) == PodNamespace[p] \in DOMAIN infos

CountPod(infos, p) ==
    [infos EXCEPT ![PodNamespace[p]] = addPodIfNotPresent(@, p, PodRequest[p])]

UncountPod(infos, p) ==
    IF ~Tracked(infos, p) THEN infos
    ELSE [infos EXCEPT ![PodNamespace[p]] = deletePodIfPresent(@, p, PodRequest[p])]

-----------------------------------------------------------------------------
\* PreFilter admits p against the snapshot, given the other pods nominated to
\* some node: those of p's namespace at least as important count against max,
\* those and the ones of namespaces within their min against the sum of mins.
NominatedInQuota(p, nominated) ==
    {q \in nominated \ {p} : /\ PodNamespace[q] = PodNamespace[p]
                             /\ PodPriority[q] >= PodPriority[p]}

NominatedElsewhere(infos, p, nominated) ==
    {q \in nominated \ {p} : /\ Tracked(infos, q)
                             /\ PodNamespace[q] # PodNamespace[p]
                             /\ ~usedOverMin(InfoOf(infos, q))}

RequestOfAll(pods) == SumResources(PodRequest, pods)

nominatedPodsReqInEQWithPodReq(p, nominated) ==
    RequestOfAll(NominatedInQuota(p, nominated) \cup {p})

nominatedPodsReqWithPodReq(infos, p, nominated) ==
    RequestOfAll(NominatedInQuota(p, nominated) \cup NominatedElsewhere(infos, p, nominated) \cup {p})

QuotaPreFilter(infos, p, nominated) ==
    Tracked(infos, p) =>
        /\ ~usedOverMaxWith(InfoOf(infos, p), nominatedPodsReqInEQWithPodReq(p, nominated))
        /\ ~aggregatedUsedOverMinWith(infos, nominatedPodsReqWithPodReq(infos, p, nominated))

QuotaReserve(infos, p) == IF Tracked(infos, p) THEN CountPod(infos, p) ELSE infos
QuotaUnreserve(infos, p) == UncountPod(infos, p)

-----------------------------------------------------------------------------
\* The informer's events for assigned pods.  quotas is what the API server
\* holds: namespace -> [min, max] for the namespaces that have a quota; listed
\* is whether the List call of addPod succeeds.
\* Mutant: a new entry starts empty.
QuotaAddPodUncounted(infos, p, quotas, listed) ==
    LET ns == PodNamespace[p] IN
    IF Tracked(infos, p) THEN CountPod(infos, p)
    ELSE IF ~listed \/ ns \notin DOMAIN quotas THEN infos
    ELSE [n \in DOMAIN infos \cup {ns} |->
             IF n = ns THEN newElasticQuotaInfo(quotas[ns].min, quotas[ns].max) ELSE infos[n]]

QuotaAddPod(infos, p, quotas, listed) ==
    LET ns == PodNamespace[p] IN
    IF Tracked(infos, p) THEN CountPod(infos, p)
    ELSE IF ~listed \/ ns \notin DOMAIN quotas THEN infos
    ELSE CountPod([n \in DOMAIN infos \cup {ns} |->
                      IF n = ns THEN newElasticQuotaInfo(quotas[ns].min, quotas[ns].max)
                      ELSE infos[n]], p)

QuotaUpdatePod(infos, p, old, new) ==
    IF old.phase = "Succeeded" \/ new.phase # "Succeeded" THEN infos ELSE UncountPod(infos, p)

QuotaDeletePod(infos, p) == UncountPod(infos, p)
=============================================================================
