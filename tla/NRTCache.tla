------------------------------ MODULE NRTCache ------------------------------
(***************************************************************************)
(* noderesourcetopology/cache: the caches of NodeResourceTopology (NRT)    *)
(* objects.  An NRT object reports, per NUMA zone of a node, what is still *)
(* available, the set of pods it accounts for (through a fingerprint, a    *)
(* hash of the pods' names: modelled as the set) and the kubelet's         *)
(* topology manager configuration.                                         *)
(*                                                                         *)
(* The operators return the cache after the call; each runs under the      *)
(* cache's mutex unless it says otherwise.  A counter is used only for     *)
(* being set, so it is a set of nodes; the generation is only logged.      *)
(***************************************************************************)
EXTENDS Integers, FiniteSets

CONSTANTS Zones, PodZoneRequest,   \* pod -> units it requests
          Exclusive,               \* pods that request exclusive resources
          ResyncMethod,            \* "Autodetect", "All", "OnlyExclusiveResources"
          OnlyExclusiveForeign     \* ForeignPodsDetect = OnlyExclusiveResources

NoNRT == "none"

\* NewOverReserve: the objects listed when the plugin starts.
NewOverReserve(nrts) ==
    [nrts |-> nrts, assumed |-> [n \in DOMAIN nrts |-> {}],
     maybe |-> {}, foreign |-> {}, attrs |-> {}]

\* Mutant: the assumed pods are not deducted.
UpdateNRTNot(nrt, pods) == nrt

\* resourceStore.UpdateNRT: take every assumed pod's request off every zone, as
\* nobody knows the zone the kubelet will pick; never below zero.
UpdateNRT(nrt, pods) ==
    LET taken[s \in SUBSET pods] ==
            IF s = {} THEN 0
            ELSE LET p == CHOOSE q \in s : TRUE IN PodZoneRequest[p] + taken[s \ {p}] IN
    [nrt EXCEPT !.free = [z \in Zones |-> IF @[z] < taken[pods] THEN 0 ELSE @[z] - taken[pods]]]

\* What GetCachedNRTCopy answers: [fresh, has, nrt].
GetCachedNRTCopy(ov, n) ==
    IF n \in ov.foreign THEN [fresh |-> FALSE, has |-> FALSE, nrt |-> NoNRT]
    ELSE IF ov.nrts[n] = {} THEN [fresh |-> TRUE, has |-> FALSE, nrt |-> NoNRT]
    ELSE [fresh |-> TRUE, has |-> TRUE,
          nrt |-> UpdateNRT(CHOOSE r \in ov.nrts[n] : TRUE, ov.assumed[n])]

NodeMaybeOverReserved(ov, n) == [ov EXCEPT !.maybe = @ \cup {n}]

NodeHasForeignPods(ov, n) ==
    IF ov.nrts[n] = {} THEN ov ELSE [ov EXCEPT !.foreign = @ \cup {n}]

ReserveNodeResources(ov, n, p) ==
    [ov EXCEPT !.assumed[n] = @ \cup {p}, !.maybe = @ \ {n}]

UnreserveNodeResources(ov, n, p) == [ov EXCEPT !.assumed[n] = @ \ {p}]

\* IsForeignPod: bound, not of a registered scheduler profile, and of the kind
\* that is tracked.
IsForeignPod(p, bound, registered) ==
    bound /\ ~registered /\ (OnlyExclusiveForeign => p \in Exclusive)

-----------------------------------------------------------------------------
\* Resync: under the lock, the nodes to look at; outside it, the lister's pods
\* and the API server's objects; under the lock again, the flush.
GetDesyncedNodes(ov) == [dirty |-> ov.foreign \cup ov.maybe, changed |-> ov.attrs]

\* makeNodeToPodDataMap with IsPodRelevantShared: the running pods of a node.
RelevantPods(seen, n) == {p \in DOMAIN seen : seen[p].node = n /\ seen[p].phase = "Running"}

\* podFingerprintForNodeTopology: does the fingerprint cover only the pods with
\* exclusive resources?
wantsOnlyExclRes(nrt) ==
    \/ ResyncMethod = "OnlyExclusiveResources"
    \/ ResyncMethod = "Autodetect" /\ nrt.onlyExclusive

checkPodFingerprintForNode(pods, nrt) ==
    nrt.pods = IF wantsOnlyExclRes(nrt) THEN pods \cap Exclusive ELSE pods

\* The objects to flush, among the ones the API server returns for the nodes:
\* a dirty node needs pods in the lister and a matching fingerprint, a node
\* whose configuration changed does not.
nrtUpdates(desynced, listed, api) ==
    LET resynced == {n \in desynced.dirty : /\ api[n] # {} /\ listed[n] # {}
                                            /\ \A r \in api[n] : checkPodFingerprintForNode(listed[n], r)}
        changed == {n \in desynced.changed : api[n] # {}} IN
    [n \in resynced \cup changed |-> api[n]]

\* Mutant: a suspicion of over-reservation outlives the flush.
FlushNodesStillSuspect(ov, updates) ==
    LET flushed == DOMAIN updates IN
    [nrts |-> [n \in DOMAIN ov.nrts |-> IF n \in flushed THEN updates[n] ELSE ov.nrts[n]],
     assumed |-> [n \in DOMAIN ov.nrts |-> IF n \in flushed THEN {} ELSE ov.assumed[n]],
     maybe |-> ov.maybe, foreign |-> ov.foreign \ flushed, attrs |-> ov.attrs \ flushed]

FlushNodes(ov, updates) ==
    LET flushed == DOMAIN updates IN
    [nrts |-> [n \in DOMAIN ov.nrts |-> IF n \in flushed THEN updates[n] ELSE ov.nrts[n]],
     assumed |-> [n \in DOMAIN ov.nrts |-> IF n \in flushed THEN {} ELSE ov.assumed[n]],
     maybe |-> ov.maybe \ flushed, foreign |-> ov.foreign \ flushed,
     attrs |-> ov.attrs \ flushed]

\* Watcher.ProcessEvent, not under the lock: a modified object whose
\* configuration is not the stored one's flags its node.
ProcessEvent(ov, n, new) ==
    IF \E r \in ov.nrts[n] : r.conf # new.conf THEN [ov EXCEPT !.attrs = @ \cup {n}] ELSE ov

-----------------------------------------------------------------------------
\* DiscardReserved: the pods between Reserve and PostBind or Unreserve, per
\* node; such a node has no data.  Otherwise, and always in Passthrough, the
\* answer is the API server's object.
ReadThrough(api, n) == IF api[n] = {} THEN [fresh |-> TRUE, has |-> FALSE, nrt |-> NoNRT]
                       ELSE [fresh |-> TRUE, has |-> TRUE, nrt |-> CHOOSE r \in api[n] : TRUE]

DiscardGetCachedNRTCopy(reservationMap, api, n) ==
    IF reservationMap[n] # {} THEN [fresh |-> FALSE, has |-> FALSE, nrt |-> NoNRT]
    ELSE ReadThrough(api, n)

DiscardReserve(reservationMap, n, p) == [reservationMap EXCEPT ![n] = @ \cup {p}]
\* Mutant: the pod that is done stays.
removeOtherReservations(reservationMap, n, p) == [reservationMap EXCEPT ![n] = @ \cap {p}]
removeReservationForNode(reservationMap, n, p) == [reservationMap EXCEPT ![n] = @ \ {p}]

-----------------------------------------------------------------------------
\* TopologyMatch.Filter with what the cache answered, for a pod that needs its
\* request from one zone (the single-numa-node policy; no other is enforced).
SingleNUMA == "single-numa-node"
FilterTopology(p, answer) ==
    IF ~answer.fresh THEN "invalid"
    ELSE IF ~answer.has \/ answer.nrt.conf # SingleNUMA THEN "fits"
    ELSE IF \E z \in Zones : answer.nrt.free[z] >= PodZoneRequest[p] THEN "fits" ELSE "cannot align"
=============================================================================
