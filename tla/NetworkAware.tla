---------------------------- MODULE NetworkAware ----------------------------
(***************************************************************************)
(* The NetworkOverhead and TopologicalSort plugins                          *)
(* (pkg/networkaware).  A pod of an AppGroup depends on workloads of the    *)
(* group; a NetworkTopology gives the cost between regions and between      *)
(* zones.  PreFilter counts, for every node, the dependencies the node      *)
(* would satisfy and violate and adds up their costs; Filter, Score and     *)
(* NormalizeScore read those numbers.                                       *)
(*                                                                          *)
(* Names (regions, zones, selectors, groups) are numbers whose order is the *)
(* lexicographic order of the strings, NoName being the empty string.  A    *)
(* cost list is a function from destinations to costs.                      *)
(***************************************************************************)
EXTENDS Integers, Sequences, FiniteSets, FiniteSetsExt, SequencesExt, TLC

NoName == 0
SameHostname == 0
SameZone == 1
MaxCost == 100
MaxNodeScore == 100

\* The order of the label strings topology.kubernetes.io/region and .../zone.
NetworkTopologyRegion == 1
NetworkTopologyZone == 2

\* The name of the weights measured by netperf, which are stored sorted.
NetworkTopologyNetperfCosts == 9

-----------------------------------------------------------------------------
(* Binary searches (util.go)                                                *)

\* The index of wanted in the list of keys, as a set of at most one element:
\* the loop the three Find functions share.
BinarySearch(keys, wanted) ==
    LET n == Len(keys)
        search[low \in 1 .. n + 1, high \in 0 .. n] ==
            IF low > high
            THEN {}
            ELSE LET mid == (low + high) \div 2
                 IN  IF keys[mid] = wanted THEN {mid}
                     ELSE IF keys[mid] < wanted THEN search[mid + 1, high]
                     ELSE search[low, mid - 1]
    IN  search[1, n]

FindPodOrder(topologyOrder, selector) ==
    LET at == BinarySearch([i \in DOMAIN topologyOrder |-> topologyOrder[i].Selector],
                           selector)
    IN  IF at = {} THEN -1 ELSE topologyOrder[CHOOSE i \in at : TRUE].Index

FindOriginCosts(originList, origin) ==
    LET at == BinarySearch([i \in DOMAIN originList |-> originList[i].Origin], origin)
    IN  IF at = {} THEN << >> ELSE originList[CHOOSE i \in at : TRUE].CostList

FindTopologyKey(topologyList, key) ==
    LET at == BinarySearch([i \in DOMAIN topologyList |-> topologyList[i].TopologyKey],
                           key)
    IN  IF at = {} THEN << >> ELSE topologyList[CHOOSE i \in at : TRUE].OriginList

ByTopologyKey(topologyList) ==
    SortSeq(topologyList, LAMBDA a, b : a.TopologyKey < b.TopologyKey)

ByOrigin(originList) == SortSeq(originList, LAMBDA a, b : a.Origin < b.Origin)

-----------------------------------------------------------------------------
(* Costs of one node                                                        *)

\* The weights with their topology keys in order; netperf weights are trusted
\* to be sorted already.
sortNetworkTopologyCosts(weights, weightsName) ==
    IF weightsName = NetworkTopologyNetperfCosts
    THEN weights
    ELSE [i \in DOMAIN weights |->
             [weights[i] EXCEPT !.TopologyList = ByTopologyKey(@)]]

\* A mutant: origins of manual weights are searched unsorted.
KeyCostsUnsorted(w, weightsName, key, origin) ==
    LET costs == FindOriginCosts(FindTopologyKey(w.TopologyList, key), origin)
    IN  [k \in {<<origin, d>> : d \in DOMAIN costs} |-> costs[k[2]]]

\* The entries one topology key adds to the cost map of a node labelled origin.
KeyCosts(w, weightsName, key, origin) ==
    LET found == FindTopologyKey(w.TopologyList, key)
        sorted == IF weightsName = NetworkTopologyNetperfCosts THEN found ELSE ByOrigin(found)
        costs == FindOriginCosts(sorted, origin)
    IN  IF origin = NoName
        THEN << >>
        ELSE [k \in {<<origin, d>> : d \in DOMAIN costs} |-> costs[k[2]]]

\* The zone costs are written after the region costs, into the same map.
populateCostMap(weights, weightsName, region, zone) ==
    FoldLeft(LAMBDA costMap, w :
                 IF w.Name # weightsName
                 THEN costMap
                 ELSE KeyCosts(w, weightsName, NetworkTopologyZone, zone)
                      @@ KeyCosts(w, weightsName, NetworkTopologyRegion, region)
                      @@ costMap,
             << >>, weights)

\* The cost map's entry between two nodes: regions first, zones inside one
\* region.  A set of at most one element.
CostEntry(costMap, here, there) ==
    LET key == IF here.region = there.region
               THEN <<here.zone, there.zone>>
               ELSE <<here.region, there.region>>
    IN  IF key \in DOMAIN costMap THEN {costMap[key]} ELSE {}

SameNodeZone(here, there) == here.region = there.region /\ here.zone = there.zone

Unlabelled(node) == node.region = NoName /\ node.zone = NoName

\* The (scheduled pod, dependency) pairs the loops visit.
Pairs(scheduledList, dependencyList) ==
    {<<i, j>> \in (DOMAIN scheduledList) \X (DOMAIN dependencyList) :
        scheduledList[i].Selector = dependencyList[j].Selector}

\* The pairs a node satisfies and violates.  A pair without a known cost is in
\* neither.
checkMaxNetworkCostRequirements(nodes, name, costMap, scheduledList, dependencyList) ==
    LET pairs == Pairs(scheduledList, dependencyList)
        Host(x) == scheduledList[x[1]].Hostname
        Limit(x) == dependencyList[x[2]].MaxNetworkCost
        Near(x) == Host(x) = name \/ (/\ ~Unlabelled(nodes[Host(x)])
                                      /\ SameNodeZone(nodes[name], nodes[Host(x)]))
        Entry(x) == IF Unlabelled(nodes[Host(x)])
                    THEN {}
                    ELSE CostEntry(costMap, nodes[name], nodes[Host(x)])
    IN  [satisfied |-> Cardinality({x \in pairs :
                           Near(x) \/ \E c \in Entry(x) : c <= Limit(x)}),
         violated |-> Cardinality({x \in pairs :
                           /\ ~Near(x)
                           /\ \/ Unlabelled(nodes[Host(x)])
                              \/ \E c \in Entry(x) : c > Limit(x)})]

getAccumulatedCost(nodes, name, costMap, scheduledList, dependencyList) ==
    LET CostOf(x) ==
            LET host == scheduledList[x[1]].Hostname
                entry == CostEntry(costMap, nodes[name], nodes[host])
            IN  IF host = name THEN SameHostname
                ELSE IF Unlabelled(nodes[host]) THEN MaxCost
                ELSE IF SameNodeZone(nodes[name], nodes[host]) THEN SameZone
                ELSE IF entry = {} THEN MaxCost
                ELSE CHOOSE c \in entry : TRUE
    IN  MapThenSumSet(CostOf, Pairs(scheduledList, dependencyList))

-----------------------------------------------------------------------------
(* The scheduling cycle                                                     *)

\* The first namespace that holds the object, as a set of at most one element.
FirstInNamespaces(namespaces, objects) ==
    LET holding == {i \in DOMAIN namespaces : namespaces[i] \in DOMAIN objects}
    IN  IF holding = {} THEN {} ELSE {objects[namespaces[Min(holding)]]}

GetDependencyList(selector, appGroup) ==
    FoldLeft(LAMBDA list, w : IF w.Selector = selector THEN list \o w.Dependencies ELSE list,
             << >>, appGroup.Workloads)

\* A pod without a node has Hostname NoName.
GetScheduledList(pods) == SelectSeq(pods, LAMBDA p : p.Hostname # NoName)

ScoreEqually == [status |-> "Success", scoreEqually |-> TRUE]

\* The group and the topology are dereferenced without a nil check.
PreFilter(pod, groups, topologies, args, pods, nodes) ==
    LET appGroup == FirstInNamespaces(args.namespaces, groups)
        topology == FirstInNamespaces(args.namespaces, topologies)
        group == CHOOSE g \in appGroup : TRUE
        weights == sortNetworkTopologyCosts(CHOOSE t \in topology : TRUE, args.weightsName)
        dependencyList == GetDependencyList(pod.Selector, group)
        scheduledList == GetScheduledList(pods)
        costMap(n) == populateCostMap(weights, args.weightsName, nodes[n].region, nodes[n].zone)
        count(n) == checkMaxNetworkCostRequirements(nodes, n, costMap(n), scheduledList,
                                                    dependencyList)
    IN  IF pod.AppGroup = NoName THEN ScoreEqually
        ELSE IF appGroup = {} \/ topology = {} THEN [status |-> "Panic"]
        ELSE IF dependencyList = << >> \/ scheduledList = << >> THEN ScoreEqually
        ELSE IF \E x \in Pairs(scheduledList, dependencyList) :
                    scheduledList[x[1]].Hostname \notin DOMAIN nodes
        THEN [status |-> "Error"]
        ELSE [status |-> "Success",
              scoreEqually |-> FALSE,
              count |-> [n \in DOMAIN nodes |-> count(n)],
              finalCostMap |->
                  [n \in DOMAIN nodes |->
                      getAccumulatedCost(nodes, n, costMap(n), scheduledList, dependencyList)]]

FilterNetwork(state, n) ==
    state.scoreEqually \/ state.count[n].violated <= state.count[n].satisfied

ScoreNetwork(state, n) == IF state.scoreEqually THEN 0 ELSE state.finalCostMap[n]

\* Costs become scores: the cheapest node 100, the dearest 0, all equal 100,
\* and all zero when no node costs anything.
NormalizeNetwork(scores) ==
    LET values == {scores[n] : n \in DOMAIN scores}
        minCost == Min(values)
        maxCost == Max(values)
    IN  IF minCost = 0 /\ maxCost = 0
        THEN scores
        ELSE [n \in DOMAIN scores |->
                 MaxNodeScore - IF maxCost = minCost
                                THEN scores[n] - minCost
                                ELSE (MaxNodeScore * (scores[n] - minCost))
                                     \div (maxCost - minCost)]

-----------------------------------------------------------------------------
(* TopologicalSort                                                          *)

\* k8s.io/kubernetes PrioritySort: higher priority first, then older first.
PrioritySortLess(p, q) ==
    p.Priority > q.Priority \/ (p.Priority = q.Priority /\ p.Timestamp < q.Timestamp)

TopologicalLess(p, q, topologyOrder) ==
    IF p.AppGroup # q.AppGroup \/ p.AppGroup = NoName
    THEN PrioritySortLess(p, q)
    ELSE FindPodOrder(topologyOrder, p.Selector) <= FindPodOrder(topologyOrder, q.Selector)
=============================================================================
