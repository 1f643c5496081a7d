----------------------------- MODULE Preemption -----------------------------
(***************************************************************************)
(* Choosing victims on one node: the PostFilter of CapacityScheduling       *)
(* (capacity_scheduling.go) and of PreemptionToleration.  The quota          *)
(* arithmetic is ElasticQuotaInfo's, applied to the cycle's snapshot.        *)
(*                                                                          *)
(* A pod is [name, ns, prio, start, req, terminating, labels, class,         *)
(* scheduledAt, policy]: req is a resource vector, start its place in the order of   *)
(* start times, labels a set, class the priority class name or "".           *)
(* A node is [alloc, pods]: what it can hold and the sequence of its pods.   *)
(* The filters run on the node are the resource fit of the framework.        *)
(***************************************************************************)
EXTENDS ElasticQuotaInfo, Sequences, SequencesExt

-----------------------------------------------------------------------------
(* What both plugins use                                                    *)

\* k8s.io/kubernetes util.MoreImportantPod: priority, then the earlier start.
MoreImportantPod(p, q) == p.prio > q.prio \/ (p.prio = q.prio /\ p.start < q.start)

\* RunFilterPluginsWithNominatedPods, as far as resources go.
FilterFits(node, pod) ==
    LET pods == ToSet(node.pods)
        held == SumResources([p \in pods |-> p.req], pods) IN
    \A name \in DOMAIN node.alloc :
        Amount(held, name) + Amount(pod.req, name) <= node.alloc[name]

WithoutPod(node, p) == [node EXCEPT !.pods = SelectSeq(@, LAMBDA q : q # p)]
WithPod(node, p) == [node EXCEPT !.pods = Append(@, p)]

\* The budgets a pod's eviction would draw on.
MatchingPDBs(p, pdbs) ==
    {i \in DOMAIN pdbs : /\ p.labels # {}
                         /\ pdbs[i].ns = p.ns
                         /\ pdbs[i].selector # {}
                         /\ pdbs[i].selector \subseteq p.labels
                         /\ p.name \notin pdbs[i].disrupted}

\* A mutant: a budget of n lets n + 1 pods go.
filterPodsWithPDBOffByOne(pods, pdbs) ==
    LET before(i, b) == Cardinality({j \in 1 .. i : b \in MatchingPDBs(pods[j], pdbs)})
        violates(i) == \E b \in MatchingPDBs(pods[i], pdbs) : pdbs[b].allowed - before(i, b) < -1
    IN  [violating |-> SelectSeq(pods, LAMBDA p : \E i \in DOMAIN pods : pods[i] = p /\ violates(i)),
         rest |-> SelectSeq(pods, LAMBDA p : \E i \in DOMAIN pods : pods[i] = p /\ ~violates(i))]

\* Each pod, in order, takes one disruption from each of its budgets, and
\* violates one that is thereby overdrawn.
filterPodsWithPDBViolation(pods, pdbs) ==
    LET before(i, b) == Cardinality({j \in 1 .. i : b \in MatchingPDBs(pods[j], pdbs)})
        violates(i) == \E b \in MatchingPDBs(pods[i], pdbs) : pdbs[b].allowed - before(i, b) < 0
    IN  [violating |-> SelectSeq(pods, LAMBDA p : \E i \in DOMAIN pods : pods[i] = p /\ violates(i)),
         rest |-> SelectSeq(pods, LAMBDA p : \E i \in DOMAIN pods : pods[i] = p /\ ~violates(i))]

NoVictims == [status |-> "UnschedulableAndUnresolvable", victims |-> << >>, violations |-> 0]
NotHere == [status |-> "Unschedulable", victims |-> << >>, violations |-> 0]

-----------------------------------------------------------------------------
(* CapacityScheduling                                                       *)

\* The plugin's own AddPod and RemovePod, on the snapshot of the quotas.
AddPod(infos, p) ==
    IF p.ns \notin DOMAIN infos THEN infos
    ELSE [infos EXCEPT ![p.ns] = addPodIfNotPresent(@, p.name, p.req)]

RemovePod(infos, p) ==
    IF p.ns \notin DOMAIN infos THEN infos
    ELSE [infos EXCEPT ![p.ns] = deletePodIfPresent(@, p.name, p.req)]

\* A mutant: only pods of the preemptor's own quota are waited for.
PodEligibleUnlessOwn(pod, nominated, unresolvable, infos, inEQ) ==
    /\ pod.policy # "Never"
    /\ \A node \in nominated : \A i \in DOMAIN node.pods :
           ~(/\ node.pods[i].terminating
             /\ node.pods[i].ns = pod.ns
             /\ node.pods[i].prio < pod.prio)

\* May this pod preempt (again)?  Not while a pod it may have preempted is
\* still terminating on the node it was nominated to.
PodEligibleToPreemptOthers(pod, nominated, unresolvable, infos, inEQ) ==
    LET withEQ == pod.ns \in DOMAIN infos
        over == usedOverMinWith(infos[pod.ns], inEQ)
        waitsFor(p) ==
            /\ p.terminating
            /\ IF withEQ
               THEN /\ p.ns \in DOMAIN infos
                    /\ \/ p.ns = pod.ns /\ p.prio < pod.prio
                       \/ p.ns # pod.ns /\ ~over /\ usedOverMin(infos[p.ns])
               ELSE p.ns \notin DOMAIN infos /\ p.prio < pod.prio
    IN  /\ pod.policy # "Never"
        /\ \/ nominated = {} \/ unresolvable
           \/ \A node \in nominated : \A i \in DOMAIN node.pods : ~waitsFor(node.pods[i])

\* The pods of the node, least important first, and whether each is taken
\* out: one below its min takes from the quotas that borrow, as long as they
\* still do; one above it only from its own pods of lower priority; a pod
\* without a quota only from lower pods without one.
PotentialVictims(pod, node, infos, inEQ) ==
    LET withEQ == pod.ns \in DOMAIN infos
        over == usedOverMinWith(infos[pod.ns], inEQ)
        victim(p, current) ==
            IF ~withEQ
            THEN p.ns \notin DOMAIN infos /\ p.prio < pod.prio
            ELSE /\ p.ns \in DOMAIN infos
                 /\ IF over
                    THEN p.ns = pod.ns /\ p.prio < pod.prio
                    ELSE p.ns # pod.ns /\ usedOverMin(current[p.ns])
        take(acc, p) ==
            IF victim(p, acc.infos)
            THEN [potential |-> Append(acc.potential, p), node |-> WithoutPod(acc.node, p),
                  infos |-> RemovePod(acc.infos, p)]
            ELSE acc
    IN  FoldLeft(take, [potential |-> << >>, node |-> node, infos |-> infos],
                 SortSeq(node.pods, LAMBDA p, q : MoreImportantPod(q, p)))

\* The quota checks of the preemptor: its own max, and the sum of all mins.
OverQuota(pod, infos, own, all) ==
    /\ pod.ns \in DOMAIN infos
    /\ \/ usedOverMaxWith(infos[pod.ns], own)
       \/ aggregatedUsedOverMinWith(infos, all)

\* A mutant: the filters alone decide whether a pod may stay.
reprievePodIgnoringQuota(acc, p, pod, inEQ, all, violating) ==
    LET back == [node |-> WithPod(acc.node, p), infos |-> AddPod(acc.infos, p)]
    IN  IF FilterFits(back.node, pod)
        THEN [acc EXCEPT !.node = back.node, !.infos = back.infos]
        ELSE [acc EXCEPT !.victims = Append(@, p), !.violations = @ + IF violating THEN 1 ELSE 0]

\* One pod is put back.  If the preemptor then does not fit the node, the pod
\* is taken out again; if the quotas are exceeded (looked at in either case)
\* it is taken out, which fails for one that is out already.
reprievePod(acc, p, pod, inEQ, all, violating) ==
    LET back == [node |-> WithPod(acc.node, p), infos |-> AddPod(acc.infos, p)]
        fits == FilterFits(back.node, pod)
        over == OverQuota(pod, IF fits THEN back.infos ELSE acc.infos, inEQ, all)
    IN  IF acc.failed \/ (~fits /\ over)
        THEN [acc EXCEPT !.failed = TRUE]
        ELSE IF fits /\ ~over
        THEN [acc EXCEPT !.node = back.node, !.infos = back.infos]
        ELSE [acc EXCEPT !.victims = Append(@, p),
                         !.violations = @ + IF violating /\ ~fits THEN 1 ELSE 0]

\* inEQ and all are the requests of the nominated pods and of the preemptor
\* in its quota and in all quotas, as PreFilter computed them.
SelectVictimsOnNode(pod, node, infos, pdbs, inEQ, all) ==
    LET out == PotentialVictims(pod, node, infos, inEQ)
        split == filterPodsWithPDBViolation(SortSeq(out.potential, MoreImportantPod), pdbs)
        start == [node |-> out.node, infos |-> out.infos, victims |-> << >>,
                  violations |-> 0, failed |-> FALSE]
        first == FoldLeft(LAMBDA acc, p : reprievePod(acc, p, pod, inEQ, all, TRUE),
                          start, split.violating)
        last == FoldLeft(LAMBDA acc, p : reprievePod(acc, p, pod, inEQ, all, FALSE),
                         first, split.rest)
    IN  IF out.potential = << >> THEN NoVictims
        ELSE IF \/ ~FilterFits(out.node, pod)
                \/ OverQuota(pod, out.infos, pod.req, pod.req)
        THEN NotHere
        ELSE IF last.failed THEN [NotHere EXCEPT !.status = "Error"]
        ELSE [status |-> "Success", victims |-> last.victims, violations |-> last.violations]

-----------------------------------------------------------------------------
(* PreemptionToleration                                                     *)

\* A priority class is [value, minimum, seconds, malformed]: each annotation is
\* a set of at most one number, malformed says that one is not a number.
parsePreemptionTolerationPolicy(class) ==
    IF class.malformed
    THEN {}
    ELSE {[MinimumPreemptablePriority |->
               IF class.minimum = {} THEN class.value + 1 ELSE CHOOSE m \in class.minimum : TRUE,
           TolerationSeconds |->
               IF class.seconds = {} THEN 0 ELSE CHOOSE s \in class.seconds : TRUE]}

\* A victim whose class is unknown is an error; scheduledAt is -1 for a pod
\* without a PodScheduled condition.
ExemptedFromPreemption(victim, preemptor, classes, now) ==
    LET policy == parsePreemptionTolerationPolicy(classes[victim.class])
        tolerates(p) ==
            /\ preemptor.prio < p.MinimumPreemptablePriority
            /\ \/ p.TolerationSeconds < 0
               \/ victim.scheduledAt = -1
               \/ victim.scheduledAt + p.TolerationSeconds > now
    IN  /\ victim.class # ""
        /\ preemptor.policy = "Never" \/ \E p \in policy : tolerates(p)

TolerationReprieve(acc, p, pod, violating) ==
    LET back == WithPod(acc.node, p)
    IN  IF FilterFits(back, pod)
        THEN [acc EXCEPT !.node = back]
        ELSE [acc EXCEPT !.victims = Append(@, p),
                         !.violations = @ + IF violating THEN 1 ELSE 0]

TolerationSelectVictims(pod, node, pdbs, classes, now) ==
    LET potential == SelectSeq(node.pods, LAMBDA p :
                         p.prio < pod.prio /\ ~ExemptedFromPreemption(p, pod, classes, now))
        bare == FoldLeft(WithoutPod, node, potential)
        split == filterPodsWithPDBViolation(SortSeq(potential, MoreImportantPod), pdbs)
        first == FoldLeft(LAMBDA acc, p : TolerationReprieve(acc, p, pod, TRUE),
                          [node |-> bare, victims |-> << >>, violations |-> 0], split.violating)
        last == FoldLeft(LAMBDA acc, p : TolerationReprieve(acc, p, pod, FALSE), first, split.rest)
    IN  IF \E i \in DOMAIN node.pods :
              /\ node.pods[i].prio < pod.prio
              /\ node.pods[i].class \notin DOMAIN classes \cup {""}
        THEN [NotHere EXCEPT !.status = "Error"]
        ELSE IF potential = << >> THEN NoVictims
        ELSE IF ~FilterFits(bare, pod) THEN NotHere
        ELSE [status |-> "Success", victims |-> last.victims, violations |-> last.violations]

TolerationEligible(pod, nominated, unresolvable) ==
    /\ pod.policy # "Never"
    /\ \/ nominated = {} \/ unresolvable
       \/ \A node \in nominated : \A i \in DOMAIN node.pods :
              ~(node.pods[i].terminating /\ node.pods[i].prio < pod.prio)
=============================================================================
