------------------------------ MODULE NUMAScore ------------------------------
(***************************************************************************)
(* noderesourcetopology: the scores of a node for a guaranteed pod.        *)
(* Only guaranteed pods get this far: each container names cpu and memory, *)
(* so no list is empty and the variance is over two fractions or more.     *)
(* Fractions are exact here; the code computes the balanced score in       *)
(* floating point.                                                         *)
(***************************************************************************)
EXTENDS NUMAAlignment

\* resourceToWeightMap.weight
weight(weights, r) == IF Qty(weights, r) < 1 THEN 1 ELSE weights[r]

mostAllocatedScore(requested, capacity) ==
    IF capacity = 0 \/ requested > capacity THEN 0 ELSE (requested * MaxScore) \div capacity

leastAllocatedScore(requested, capacity) ==
    IF capacity = 0 \/ requested > capacity THEN 0
    ELSE ((capacity - requested) * MaxScore) \div capacity

WeightedMean(scores, weights) ==
    MapThenSumSet(LAMBDA r : scores[r] * weight(weights, r), DOMAIN scores)
        \div MapThenSumSet(LAMBDA r : weight(weights, r), DOMAIN scores)

mostAllocatedScoreStrategy(req, free, weights) ==
    WeightedMean([r \in DOMAIN req |-> mostAllocatedScore(req[r], Qty(free, r))], weights)

leastAllocatedScoreStrategy(req, free, weights) ==
    WeightedMean([r \in DOMAIN req |-> leastAllocatedScore(req[r], Qty(free, r))], weights)

\* A fraction is <<numerator, denominator>>.
fractionOfCapacity(requested, capacity) == IF capacity = 0 THEN <<1, 1>> ELSE <<requested, capacity>>

\* (1 - variance) * 100, rounded down, for the fractions n[r] / d[r] over the
\* common denominator D: the sample variance is (k*S2 - S1^2) / (k*(k-1)*D^2).
balancedAllocationScoreStrategy(req, free, weights) ==
    LET f == [r \in DOMAIN req |-> fractionOfCapacity(req[r], Qty(free, r))]
        k == Cardinality(DOMAIN req)
        D == MapThenFoldSet(LAMBDA x, y : x * y, 1, LAMBDA r : f[r][2], LAMBDA s : CHOOSE x \in s : TRUE, DOMAIN req)
        n(r) == f[r][1] * (D \div f[r][2])
        S1 == MapThenSumSet(n, DOMAIN req)
        S2 == MapThenSumSet(LAMBDA r : n(r) * n(r), DOMAIN req)
        whole == k * (k - 1) * D * D IN
    IF \E r \in DOMAIN req : f[r][1] > f[r][2] THEN 0
    ELSE (MaxScore * (whole - (k * S2 - S1 * S1))) \div whole

getScoringStrategyFunction(strategy, req, free, weights) ==
    CASE strategy = "MostAllocated" -> mostAllocatedScoreStrategy(req, free, weights)
      [] strategy = "LeastAllocated" -> leastAllocatedScoreStrategy(req, free, weights)
      [] strategy = "BalancedAllocation" -> balancedAllocationScoreStrategy(req, free, weights)

Panic == -1   \* an index out of range stops the scheduler

\* The running minimum, restarted as long as it is 0.  Each score is also stored
\* in a slice, at the identifier of its NUMA node.
scoreForEachNUMANode(strategy, req, nodes, weights) ==
    LET step(min, node) ==
            LET s == getScoringStrategyFunction(strategy, req, node.Resources, weights) IN
            IF min = 0 \/ (s # 0 /\ s < min) THEN s ELSE min IN
    IF \E i \in DOMAIN nodes : nodes[i].NUMAID >= Len(nodes) THEN Panic
    ELSE FoldLeft(step, 0, nodes)

podScopeScore(strategy, pod, nodes, weights) ==
    scoreForEachNUMANode(strategy, GetPodEffectiveRequest(pod), nodes, weights)

containerScopeScore(strategy, pod, nodes, weights) ==
    LET all == pod.init \o pod.containers
        scores == [i \in DOMAIN all |-> scoreForEachNUMANode(strategy, all[i], nodes, weights)] IN
    IF \E i \in DOMAIN all : scores[i] = Panic THEN Panic
    ELSE FoldLeft(LAMBDA acc, s : acc + s, 0, scores) \div Len(all)

-----------------------------------------------------------------------------
\* least_numa.go: the fewest NUMA nodes that together hold the request.  A
\* combination is a set of positions in the list; its average distance is
\* compared through the sum, as combinations have the same size.
SumOfDistances(nodes, combination) ==
    MapThenSumSet(LAMBDA p : IF nodes[p[2]].NUMAID \in DOMAIN nodes[p[1]].Costs
                             THEN nodes[p[1]].Costs[nodes[p[2]].NUMAID] ELSE maxDistanceValue,
                  combination \X combination)

nodesAvgDistance(nodes, combination) == SumOfDistances(nodes, combination)

minAvgDistanceInCombinations(nodes, combinations, size) ==
    Min({nodesAvgDistance(nodes, c) : c \in combinations} \cup {maxDistanceValue * size * size})

combineResources(nodes, combination) ==
    [r \in UNION {DOMAIN nodes[i].Resources : i \in combination} |->
        MapThenSumSet(LAMBDA i : Qty(nodes[i].Resources, r), combination)]

isValidCombineResources(nodes, req, combination) ==
    \A i \in combination : DOMAIN req \subseteq DOMAIN nodes[i].Resources

checkResourcesFit(guaranteed, req, combined) ==
    \A r \in {x \in DOMAIN req : req[x] # 0} :
        isResourceSetSuitable(guaranteed, r, req[r], Qty(combined, r))

\* The order combin.Combinations generates them in.
FirstOf(combinations) ==
    CHOOSE c \in combinations : \A d \in combinations \ {c} : Min((c \cup d) \ (c \cap d)) \in c

\* The suitable combination at the smallest distance, with whether no other
\* combination of the size is closer; none as an empty set.
findSuitableCombination(guaranteed, nodes, req, combinations, size) ==
    LET fitting == {c \in combinations : /\ isValidCombineResources(nodes, req, c)
                                         /\ checkResourcesFit(guaranteed, req, combineResources(nodes, c))}
        best == Min({nodesAvgDistance(nodes, c) : c \in fitting})
        closest == FirstOf({c \in fitting : nodesAvgDistance(nodes, c) = best}) IN
    IF fitting = {} THEN {}
    ELSE {[nodes |-> closest, isMin |-> best = minAvgDistanceInCombinations(nodes, combinations, size)]}

\* The identifiers of a combination, as the bits of a mask.
AsMask(nodes, found) == {[f EXCEPT !.nodes = {nodes[i].NUMAID : i \in @}] : f \in found}

\* Mutant: the search starts with pairs.
numaNodesRequiredFromTwo(guaranteed, nodes, req) ==
    LET suitable(size) == findSuitableCombination(guaranteed, nodes, req, kSubset(size, DOMAIN nodes), size) IN
    AsMask(nodes, UNION {suitable(size) : size \in {s \in 2..Len(nodes) : \A t \in 2..(s - 1) : suitable(t) = {}}})

\* The combination of the first size that has one, by its identifiers; none as
\* an empty set.
numaNodesRequired(guaranteed, nodes, req) ==
    LET suitable(size) == findSuitableCombination(guaranteed, nodes, req, kSubset(size, DOMAIN nodes), size) IN
    AsMask(nodes, UNION {suitable(size) : size \in {s \in 1..Len(nodes) : \A t \in 1..(s - 1) : suitable(t) = {}}})

normalizeScore(count, isMin) ==
    LET numaNodeScore == MaxScore \div highestNUMAID IN
    MaxScore - count * numaNodeScore + (IF isMin THEN numaNodeScore \div 2 ELSE 0)

leastNUMAPodScopeScore(pod, nodes) ==
    LET req == GetPodEffectiveRequest(pod)
        score(required) == IF required = {} THEN 0
                           ELSE LET c == CHOOSE x \in required : TRUE IN
                                normalizeScore(Cardinality(c.nodes), c.isMin) IN
    IF onlyNonNUMAResources(nodes, req) THEN MaxScore
    ELSE score(numaNodesRequired(pod.guaranteed, nodes, req))

\* What a container takes from the NUMA nodes chosen for it, in the order of
\* their identifiers.  An identifier is used as an index into the list (from 0):
\* a list in another order gives up what another NUMA node has, and an
\* identifier beyond the list is out of range, unless nothing is left to take.
\* The list as a set of at most one, empty for the panic.
subtractFromNUMAs(req, nodes, ids) ==
    LET chosen == {id + 1 : id \in ids} \cap DOMAIN nodes
        held(r, these) == MapThenSumSet(LAMBDA i : Qty(nodes[i].Resources, r), these)
        taken(i, r) ==  \* what the earlier ones left to take, up to what is here
            LET before == held(r, {j \in chosen : j < i})
                rest == IF before >= Qty(req, r) THEN 0 ELSE Qty(req, r) - before IN
            Min({rest, nodes[i].Resources[r]})
        outOfRange == /\ \E id \in ids : id >= Len(nodes)
                      /\ \E r \in DOMAIN req : held(r, chosen) < req[r] IN
    IF outOfRange THEN {}
    ELSE {[i \in DOMAIN nodes |->
              IF i \notin chosen THEN nodes[i]
              ELSE [nodes[i] EXCEPT !.Resources = [r \in DOMAIN @ |-> @[r] - taken(i, r)]]]}

\* end is empty while no container has ended the loop early.
leastNUMAContainerScopeScore(pod, nodes) ==
    LET place(acc, c, left) ==
            IF left = {} THEN [acc EXCEPT !.end = {Panic}]
            ELSE [nodes |-> CHOOSE l \in left : TRUE, end |-> {},
                  most |-> Max({acc.most, Cardinality(c.nodes)}), allMin |-> acc.allMin /\ c.isMin]
        try(acc, req, required) ==
            IF required = {} THEN [acc EXCEPT !.end = {0}]
            ELSE LET c == CHOOSE x \in required : TRUE IN
                 place(acc, c, subtractFromNUMAs(req, acc.nodes, c.nodes))
        step(acc, req) ==
            IF acc.end # {} \/ onlyNonNUMAResources(acc.nodes, req) THEN acc
            ELSE try(acc, req, numaNodesRequired(pod.guaranteed, acc.nodes, req))
        score(last) == IF last.end # {} THEN Max(last.end)
                       ELSE IF last.most = 0 THEN MaxScore
                       ELSE normalizeScore(last.most, last.allMin) IN
    score(FoldLeft(step, [nodes |-> nodes, end |-> {}, most |-> 0, allMin |-> TRUE],
                   pod.init \o pod.containers))

-----------------------------------------------------------------------------
scoringHandlerFromTopologyManagerConfig(conf, strategy, pod, nodes, weights) ==
    CASE strategy = "LeastNUMANodes" /\ conf.Scope = "pod" -> leastNUMAPodScopeScore(pod, nodes)
      [] strategy = "LeastNUMANodes" /\ conf.Scope = "container" -> leastNUMAContainerScopeScore(pod, nodes)
      [] strategy # "LeastNUMANodes" /\ conf.Policy # "single-numa-node" -> 0
      [] OTHER -> IF conf.Scope = "pod" THEN podScopeScore(strategy, pod, nodes, weights)
                  ELSE containerScopeScore(strategy, pod, nodes, weights)

\* Score, with what the cache answers for the node.
NUMANodeScore(strategy, pod, answer, weights) ==
    IF ~pod.guaranteed THEN MaxScore
    ELSE IF ~answer.fresh \/ ~answer.has THEN 0
    ELSE scoringHandlerFromTopologyManagerConfig(TopologyManagerFromNodeResourceTopology(answer.nrt),
             strategy, pod, createNUMANodeList(answer.nrt.Zones), weights)
=============================================================================
