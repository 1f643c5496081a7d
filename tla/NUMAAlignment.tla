---------------------------- MODULE NUMAAlignment ----------------------------
(***************************************************************************)
(* noderesourcetopology: does a pod fit the NUMA zones of a node (Filter), *)
(* and how well (Score).  A request and the resources of a zone are        *)
(* partial functions from resource names; a NUMA node list is a sequence   *)
(* of [NUMAID, Resources, Costs].                                          *)
(***************************************************************************)
EXTENDS Integers, Sequences, FiniteSets, FiniteSetsExt, SequencesExt

CONSTANTS NativeResources,   \* cpu, memory, ephemeral-storage, ...
          HugePages,         \* the native resources that are huge pages
          HighestNode        \* bound: bits of a mask, 64 in the code

highestNUMAID == 8
maxDistanceValue == 255
MaxScore == 100

Qty(list, r) == IF r \in DOMAIN list THEN list[r] ELSE 0

-----------------------------------------------------------------------------
\* nodeconfig: the deprecated policies, of which the first counts, then the
\* attributes, of which the last valid one counts.
IsValidScope(s) == s \in {"container", "pod"}
IsValidPolicy(p) == p \in {"none", "best-effort", "restricted", "single-numa-node"}

TopologyManagerDefaults == [Scope |-> "container", Policy |-> "none"]

\* A policy name is [Policy, Scope]; a name the switch does not know is {}.
updateFromPolicies(conf, policies) ==
    IF policies = <<>> \/ Head(policies) = {} THEN conf ELSE CHOOSE c \in Head(policies) : TRUE

updateFromAttributes(conf, attrs) ==
    LET apply(c, a) ==
            IF a.Name = "topologyManagerScope" /\ IsValidScope(a.Value) THEN [c EXCEPT !.Scope = a.Value]
            ELSE IF a.Name = "topologyManagerPolicy" /\ IsValidPolicy(a.Value)
                 THEN [c EXCEPT !.Policy = a.Value]
            ELSE c IN
    FoldLeft(apply, conf, attrs)

TopologyManagerFromNodeResourceTopology(nrt) ==
    updateFromAttributes(updateFromPolicies(TopologyManagerDefaults, nrt.TopologyPolicies), nrt.Attributes)

-----------------------------------------------------------------------------
\* pluginhelpers.go.  A zone is [Type, id, Available, Costs]; id is empty when
\* its name is not that of a NUMA node.
extractResources(zone) == zone.Available
extractCosts(zone) == zone.Costs

createNUMANodeList(zones) ==
    LET nodes == SelectSeq(zones, LAMBDA z : z.Type = "Node" /\ z.id # {}) IN
    [i \in DOMAIN nodes |-> [NUMAID |-> CHOOSE id \in nodes[i].id : TRUE,
                             Resources |-> extractResources(nodes[i]), Costs |-> extractCosts(nodes[i])]]

onlyNonNUMAResources(nodes, req) ==
    \A r \in DOMAIN req, i \in DOMAIN nodes : r \notin DOMAIN nodes[i].Resources

isHostLevelResource(r) == r \in {"ephemeral-storage", "storage"} \/ r \notin NativeResources
isNUMAAffineResource(r) == r \in {"cpu", "memory"} \cup HugePages

isResourceSetSuitable(guaranteed, r, quantity, available) ==
    (~guaranteed /\ isNUMAAffineResource(r)) \/ available >= quantity

\* util.GetPodEffectiveRequest: the highest of the init containers and the sum
\* of the containers, per resource.
GetPodEffectiveRequest(pod) ==
    LET all == pod.init \o pod.containers
        names == UNION {DOMAIN all[i] : i \in DOMAIN all}
        highest(r) == Max({Qty(pod.init[i], r) : i \in DOMAIN pod.init} \cup {0})
        sum(r) == FoldLeft(LAMBDA acc, c : acc + Qty(c, r), 0, pod.containers) IN
    [r \in names |-> Max({highest(r), sum(r)})]

-----------------------------------------------------------------------------
\* filter.go.  The NUMA nodes that hold every requested resource; a resource no
\* NUMA node lists and that lives on the host constrains nothing.
FeasibleNodes(nodes, req, guaranteed) ==
    LET needed == {r \in DOMAIN req : req[r] # 0}
        hasNUMAAffinity(r) == \E i \in DOMAIN nodes : r \in DOMAIN nodes[i].Resources
        resourceBitmask(r) ==
            {nodes[i].NUMAID : i \in {j \in DOMAIN nodes : r \in DOMAIN nodes[j].Resources
                /\ isResourceSetSuitable(guaranteed, r, req[r], nodes[j].Resources[r])}}
        constraining == {r \in needed : hasNUMAAffinity(r) \/ ~isHostLevelResource(r)} IN
    {id \in 0..HighestNode : \A r \in constraining : id \in resourceBitmask(r)}

\* The lowest of them, as a set of at most one; none when the node does not
\* have a requested resource at all.
resourcesAvailableInAnyNUMANodes(nodes, req, guaranteed, allocatable) ==
    LET ids == FeasibleNodes(nodes, req, guaranteed) IN
    IF ids = {} \/ \E r \in DOMAIN req : req[r] # 0 /\ r \notin allocatable THEN {} ELSE {Min(ids)}

\* Mutant: the request of a container is left in the zone.
subtractNothing(nodes, id, guaranteed, req) == nodes

subtractResourcesFromNUMANodeList(nodes, id, guaranteed, req) ==
    LET counted(r) == guaranteed \/ ~isNUMAAffineResource(r)
        left(res) == [r \in DOMAIN res |-> IF counted(r) THEN res[r] - Qty(req, r) ELSE res[r]] IN
    [i \in DOMAIN nodes |-> IF nodes[i].NUMAID # id THEN nodes[i]
                            ELSE [nodes[i] EXCEPT !.Resources = left(@)]]

\* The containers one after the other, each on the lowest NUMA node it fits;
\* the init containers, which run before them, each on the free node.
AlignContainers(nodes, containers, guaranteed, allocatable) ==
    LET align(acc, req) ==
            IF acc = {} THEN {}
            ELSE LET ns == CHOOSE x \in acc : TRUE
                     at == resourcesAvailableInAnyNUMANodes(ns, req, guaranteed, allocatable) IN
                 {subtractResourcesFromNUMANodeList(ns, id, guaranteed, req) : id \in at} IN
    FoldLeft(align, {nodes}, containers)

singleNUMAContainerLevelHandler(pod, nodes, allocatable) ==
    /\ \A i \in DOMAIN pod.init :
           resourcesAvailableInAnyNUMANodes(nodes, pod.init[i], pod.guaranteed, allocatable) # {}
    /\ AlignContainers(nodes, pod.containers, pod.guaranteed, allocatable) # {}

singleNUMAPodLevelHandler(pod, nodes, allocatable) ==
    resourcesAvailableInAnyNUMANodes(nodes, GetPodEffectiveRequest(pod), pod.guaranteed, allocatable) # {}

\* resourcerequests: does some container ask for a device?
IncludeNonNative(pod) ==
    \E i \in DOMAIN (pod.init \o pod.containers) :
        ~(DOMAIN (pod.init \o pod.containers)[i] \subseteq NativeResources)

filterHandlerFromTopologyManager(conf, pod, nodes, allocatable) ==
    \/ conf.Policy # "single-numa-node"
    \/ conf.Scope = "pod" /\ singleNUMAPodLevelHandler(pod, nodes, allocatable)
    \/ conf.Scope = "container" /\ singleNUMAContainerLevelHandler(pod, nodes, allocatable)

FilterPasses(pod, nrt, allocatable) ==
    \/ pod.bestEffort /\ ~IncludeNonNative(pod)
    \/ filterHandlerFromTopologyManager(TopologyManagerFromNodeResourceTopology(nrt), pod,
                                        createNUMANodeList(nrt.Zones), allocatable)
=============================================================================
