---------------------------- MODULE MCAlgorithms ----------------------------
(***************************************************************************)
(* The pure computations of the plugins and of kubectl health get over all  *)
(* small inputs.  From the start one input is chosen for one of them; the   *)
(* properties compare what is computed for it with a definition of what it  *)
(* should be.                                                               *)
(***************************************************************************)
EXTENDS Integers, Sequences, FiniteSets, FiniteSetsExt, SequencesExt

CONSTANTS MaxCpu,       \* cpus of a NUMA zone, and of one request
          MaxPods       \* pods on the node where victims are looked for

VaclabScores == INSTANCE VaclabScore
NUMA == INSTANCE NUMAScore WITH
            NativeResources <- {"cpu", "memory", "storage"}, HugePages <- {}, HighestNode <- 2
Network == INSTANCE NetworkAware
Victims == INSTANCE Preemption WITH Native <- {"cpu"}, Unbounded <- 100
Plain == INSTANCE ScorePlugins WITH NonZeroDefaults <- [cpu |-> 1, memory |-> 2]
Load == INSTANCE TrimaranScores
Collector == INSTANCE Trimaran WITH ReportingInterval <- 60
Calls == INSTANCE SySched
Listing == INSTANCE BenchmarkList

VARIABLE input

Choosing(algorithm) == input.about = "nothing" /\ input.next = algorithm

-----------------------------------------------------------------------------
(* VaclabScheduling: Score                                                  *)

Offer == [siblings : 0 .. 2, remaining : [{"ul", "dl"} -> {-1, 0, 1, 3}]]

ChooseOffers ==
    /\ Choosing("offers")
    /\ \E first, second \in Offer, mbps \in [{"ul", "dl"} -> {0, 1, 3}] :
          input' = [about |-> "offers", offers |-> <<first, second>>, mbps |-> mbps]

\* NormalizeScore of the bandwidth plugin maps the scores of any candidates to
\* 0 .. 100 without inverting two of them, and gives the best node 100, also
\* when the remaining bandwidth is negative or every score is 0.
RankingSound ==
    input.about = "offers" =>
        LET raw == VaclabScores!RawScores(input.offers, input.mbps)
        IN  VaclabScores!SoundRanking(raw, VaclabScores!NormalizeScore(raw))

-----------------------------------------------------------------------------
(* NodeResourceTopology: Filter                                             *)

Attribute(name, value) == [Name |-> name, Value |-> value]
SingleNUMA(scope) == <<Attribute("topologyManagerPolicy", "single-numa-node"),
                       Attribute("topologyManagerScope", scope)>>

\* Zones list cpus and devices, or no devices at all.
ZoneResources == [{"cpu"} -> 0 .. MaxCpu] \cup [{"cpu", "device"} -> 0 .. 1]
Requests == [{"cpu", "device"} -> 0 .. 1] \cup [{"cpu"} -> 1 .. MaxCpu]

Zone(i, resources, costs) == [Type |-> "Node", id |-> {i}, Available |-> resources, Costs |-> costs]

ChooseAligned ==
    /\ Choosing("aligned")
    /\ \E zone0, zone1 \in ZoneResources, first, second \in Requests,
          init \in {<< >>} \cup {<<r>> : r \in Requests},
          scope \in {"container", "pod"}, guaranteed \in BOOLEAN :
          input' = [about |-> "aligned",
                    nrt |-> [TopologyPolicies |-> << >>, Attributes |-> SingleNUMA(scope),
                             Zones |-> <<Zone(0, zone0, << >>), Zone(1, zone1, << >>)>>],
                    scope |-> scope,
                    pod |-> [init |-> init, containers |-> <<first, second>>,
                             guaranteed |-> guaranteed, bestEffort |-> FALSE]]

\* The containers placed on a zone fit what it has.  A pod that is not
\* guaranteed shares the cpus, and a device no zone lists belongs to the host.
FitsZone(pod, zones, zone, requests) ==
    \A r \in UNION {DOMAIN requests[i] : i \in DOMAIN requests} :
        LET total == FoldLeft(LAMBDA sum, req : sum + NUMA!Qty(req, r), 0, requests)
            counted == pod.guaranteed \/ r = "device"
            onHost == r = "device" /\ \A i \in DOMAIN zones : "device" \notin DOMAIN zones[i].Available
        IN  counted /\ ~onHost => total <= NUMA!Qty(zone.Available, r)

\* A pod Filter lets pass under the single-numa-node policy can be aligned:
\* the kubelet can give each container (each pod, in pod scope) a zone so that
\* what shares a zone fits it, although Filter places one container at a time.
AlignedPodFits ==
    input.about = "aligned" =>
        LET pod == input.pod
            zones == input.nrt.Zones
            placed(f, z) == FoldLeft(LAMBDA s, i : IF f[i] = z THEN Append(s, pod.containers[i]) ELSE s,
                                     << >>, [i \in DOMAIN pod.containers |-> i])
        IN  NUMA!FilterPasses(pod, input.nrt, {"cpu", "device"}) =>
                /\ input.scope = "container" =>
                       \E f \in [DOMAIN pod.containers -> DOMAIN zones] :
                           \A z \in DOMAIN zones : FitsZone(pod, zones, zones[z], placed(f, z))
                /\ input.scope = "pod" =>
                       \E z \in DOMAIN zones : FitsZone(pod, zones, zones[z], pod.containers)
                /\ \A i \in DOMAIN pod.init :
                       \E z \in DOMAIN zones : FitsZone(pod, zones, zones[z], <<pod.init[i]>>)

-----------------------------------------------------------------------------
(* NodeResourceTopology: Score                                              *)

\* Three zones, two of which may be closer to each other than the third, listed
\* by their identifiers, in another order, or with one missing in between.
NearPairs == {{}, {1, 2}}
Listings == {<<0, 1, 2>>, <<1, 2, 0>>, <<0, 1, 3>>}
CostsOf(ids, i, near) ==
    [j \in ToSet(ids) |-> IF i = j THEN 10 ELSE IF {i, j} = near THEN 12 ELSE 20]

Topology(scope, ids, cpus, near) ==
    [TopologyPolicies |-> << >>, Attributes |-> SingleNUMA(scope),
     Zones |-> [z \in 1 .. 3 |-> Zone(ids[z], [cpu |-> cpus[z]], CostsOf(ids, ids[z], near))]]

ChooseSpread ==
    /\ Choosing("spread")
    /\ \E here \in [1 .. 3 -> 0 .. MaxCpu], there \in [1 .. 3 -> {0, MaxCpu}], near \in NearPairs, ids \in Listings,
          requests \in {<<[cpu |-> c]>> : c \in 1 .. MaxCpu + 2}
                           \cup {<<[cpu |-> c], [cpu |-> d]>> : c, d \in 1 .. MaxCpu + 1},
          scope \in {"container", "pod"} :
          input' = [about |-> "spread", ids |-> ids, requests |-> requests, scope |-> scope,
                    cpus |-> <<here, there>>,
                    nrts |-> <<Topology(scope, ids, here, near), Topology(scope, <<0, 1, 2>>, there, {})>>]

\* The fewest zones that together have so many cpus, as a set of at most one.
FewestZones(cpus, cpu) ==
    LET enough == {Cardinality(c) : c \in {d \in SUBSET DOMAIN cpus :
                       MapThenSumSet(LAMBDA z : cpus[z], d) >= cpu}}
    IN  IF enough = {} THEN {} ELSE {Min(enough)}

\* Two containers can have their cpus at the same time, each from so many zones.
ShareZones(cpus, first, second, most) ==
    LET held(d) == MapThenSumSet(LAMBDA z : cpus[z], d) IN
    \E c, d \in {e \in SUBSET DOMAIN cpus : Cardinality(e) <= most} :
        held(c) >= first /\ held(d) >= second /\ held(c \cup d) >= first + second

\* The LeastNUMANodes strategy prefers a node where the pod spreads over fewer
\* zones, whatever the distances, gives none to a node where it does not fit,
\* and stays within the range of scores.  In container scope, where one
\* container is placed after the other, the score promises no cpu twice: with
\* the zones listed in the order of their identifiers, all containers fit at
\* the same time, each on the number of zones the score stands for.  The
\* scheduler panics only in container scope, when an identifier is missing.
FewerZonesPreferred ==
    input.about = "spread" =>
        LET pod == [init |-> << >>, containers |-> input.requests, guaranteed |-> TRUE, bestEffort |-> FALSE]
            total == FoldLeft(LAMBDA sum, req : sum + req.cpu, 0, input.requests)
            atOnce == input.scope = "pod" \/ Len(input.requests) = 1
            inOrder(n) == n = 2 \/ input.ids # <<1, 2, 0>>
            zonesOf(score) == (106 - score) \div 12
            ranked(score, need) ==
                /\ \A n \in 1 .. 2 :
                       /\ \/ score[n] \in 0 .. 100
                          \/ score[n] = NUMA!Panic /\ n = 1 /\ input.ids = <<0, 1, 3>> /\ input.scope = "container"
                       /\ atOnce /\ need[n] = {} => score[n] \in {0, NUMA!Panic}
                       /\ ~atOnce /\ inOrder(n) /\ score[n] > 0 =>
                              ShareZones(input.cpus[n], input.requests[1].cpu, input.requests[2].cpu,
                                         zonesOf(score[n]))
                /\ \A m, n \in 1 .. 2 : \A few \in need[m] :
                       (/\ atOnce /\ score[m] # NUMA!Panic
                        /\ \A many \in need[n] : few < many) => score[m] > score[n]
        IN  ranked([n \in 1 .. 2 |->
                       NUMA!NUMANodeScore("LeastNUMANodes", pod,
                           [fresh |-> TRUE, has |-> TRUE, nrt |-> input.nrts[n]], << >>)],
                   [n \in 1 .. 2 |-> FewestZones(input.cpus[n], total)])

Strategies == {"MostAllocated", "LeastAllocated", "BalancedAllocation"}

ChooseZones ==
    /\ Choosing("zones")
    /\ \E strategy \in Strategies, scope \in {"container", "pod"}, weight \in 0 .. 2,
          request \in [{"cpu", "memory"} -> 1 .. 2], other \in [{"cpu", "memory"} -> 1 .. 1],
          zone0, zone1 \in [cpu : {0, 1, 2, 4}, memory : 1 .. 3], second \in 1 .. 2 :
          input' = [about |-> "zones", strategy |-> strategy, scope |-> scope,
                    weights |-> [cpu |-> weight], requests |-> <<request, other>>, second |-> second,
                    zones |-> <<Zone(0, zone0, << >>), Zone(second, zone1, << >>)>>]

\* The least of the scores above 0 that the zones get, 0 if there is none.
LeastFitting(strategy, request, zones, weights) ==
    LET least(scores) == IF scores \subseteq {0} THEN 0 ELSE Min(scores \ {0}) IN
    least({NUMA!getScoringStrategyFunction(strategy, request, zones[i].Available, weights) : i \in DOMAIN zones})

\* The other strategies give a node the least score of the zones that can hold
\* the request: a zone that cannot hold it and scores 0 does not count against
\* the node, wherever it comes in the list.  Identifiers that are not those of
\* the first zones make every call panic.
ZoneThatCannotServeIgnored ==
    input.about = "zones" =>
        LET pod == [init |-> << >>, containers |-> input.requests, guaranteed |-> TRUE, bestEffort |-> FALSE]
            score(zones) ==
                NUMA!NUMANodeScore(input.strategy, pod,
                    [fresh |-> TRUE, has |-> TRUE,
                     nrt |-> [TopologyPolicies |-> << >>, Attributes |-> SingleNUMA(input.scope),
                              Zones |-> zones]], input.weights)
            least(request) == LeastFitting(input.strategy, request, input.zones, input.weights)
            expected == IF input.scope = "pod" THEN least(NUMA!GetPodEffectiveRequest(pod))
                        ELSE (least(input.requests[1]) + least(input.requests[2])) \div 2
            lists == {input.zones, Reverse(input.zones)}
        IN  IF input.second > 1 THEN \A zones \in lists : score(zones) = NUMA!Panic
            ELSE \E s \in 0 .. 100 : expected = s /\ \A zones \in lists : score(zones) = s

\* The scores of NodeResourceTopology rank nodes by what its strategies are for.
ZonesRanked == FewerZonesPreferred /\ ZoneThatCannotServeIgnored

-----------------------------------------------------------------------------
(* NetworkOverhead                                                          *)

\* Nodes 1 and 2 are in region 1, in zones 3 and 4; node 3 is in region 2 and
\* zone 5; node 4 has no labels.
NetworkNodes == <<[region |-> 1, zone |-> 3], [region |-> 1, zone |-> 4],
                  [region |-> 2, zone |-> 5], [region |-> 0, zone |-> 0]>>

Manual == 8   \* the name of weights written by hand

\* The lists of a NetworkTopology as a user may write them, in any order.
TopologyOf(costs, keysInOrder, originsInOrder) ==
    LET from(o, list) == [Origin |-> o, CostList |-> list]
        inOrder(yes, s) == IF yes THEN s ELSE Reverse(s)
        regions == <<from(1, [d \in {2} |-> costs[1]]), from(2, [d \in {1} |-> costs[2]])>>
        zones == <<from(3, [d \in {4} |-> costs[3]]), from(4, [d \in {3} |-> costs[3]]),
                   from(5, << >>)>>
    IN  <<[Name |-> Manual,
           TopologyList |-> inOrder(keysInOrder,
               <<[TopologyKey |-> 1, OriginList |-> inOrder(originsInOrder, regions)],
                 [TopologyKey |-> 2, OriginList |-> inOrder(originsInOrder, zones)]>>)]>>

ChooseNetwork ==
    /\ Choosing("network")
    /\ \E costs \in [1 .. 3 -> {2, 30}], keysInOrder, originsInOrder \in BOOLEAN,
          hosts \in [1 .. 2 -> 0 .. 4], limits \in [1 .. 2 -> {0, 5}] :
          input' = [about |-> "network", costs |-> costs,
                    weights |-> TopologyOf(costs, keysInOrder, originsInOrder),
                    hosts |-> hosts, limits |-> limits]

\* What a dependency on a pod that runs there costs on a node: from the costs
\* as given, not from the plugin's lists.
TrueCost(here, there) ==
    CASE here = there -> 0
      [] 4 \in {here, there} -> 100
      [] {here, there} = {1, 2} -> input.costs[3]
      [] here = 3 -> input.costs[2]
      [] OTHER -> input.costs[1]

\* The workload depends on the workload of pod 1 and on that of pod 2.
NetworkGroup ==
    [Workloads |-> <<[Selector |-> 1, Dependencies |->
        <<[Selector |-> 2, MaxNetworkCost |-> input.limits[1]],
          [Selector |-> 3, MaxNetworkCost |-> input.limits[2]]>>]>>]

\* With a NetworkTopology written in any order, NetworkOverhead lets a node
\* pass if at least as many dependencies are within their limit as above it
\* (no dependency is above it for a node without labels), and ranks nodes by
\* the cost of the dependencies: the cheapest gets 100 (unless nothing costs
\* anything), a dearer one never more than a cheaper.
CheaperNodesPreferred ==
    input.about = "network" =>
        LET state == Network!PreFilter([AppGroup |-> 7, Selector |-> 1], [ns \in {1} |-> NetworkGroup],
                         [ns \in {1} |-> input.weights], [namespaces |-> <<1>>, weightsName |-> Manual],
                         [i \in 1 .. 2 |-> [Selector |-> i + 1, Hostname |-> input.hosts[i]]],
                         NetworkNodes)
            running == {i \in 1 .. 2 : input.hosts[i] # 0}
            cost == [n \in 1 .. 4 |-> MapThenSumSet(LAMBDA i : TrueCost(n, input.hosts[i]), running)]
            least == Min({cost[n] : n \in 1 .. 4})
            score == Network!NormalizeNetwork([n \in 1 .. 4 |-> Network!ScoreNetwork(state, n)])
            \* a pair with an unlabelled candidate has no cost in the map
            above(n) == {i \in running : TrueCost(n, input.hosts[i]) > input.limits[i] /\ (n # 4)}
            within(n) == {i \in running : TrueCost(n, input.hosts[i]) <= input.limits[i]}
        IN  IF running = {} THEN state.scoreEqually
            ELSE /\ state.status = "Success"
                 /\ \A n \in 1 .. 4 :
                       /\ score[n] \in 0 .. 100
                       /\ cost[n] = least => score[n] = 100
                       /\ Network!FilterNetwork(state, n)
                              <=> Cardinality(above(n)) <= Cardinality(within(n))
                 /\ \A m, n \in 1 .. 4 : cost[m] < cost[n] => score[m] >= score[n]

-----------------------------------------------------------------------------
(* CapacityScheduling: preemption                                           *)

\* Namespaces 1 and 2 have quotas, namespace 3 has none.
QuotaNamespaces == {1, 2}

Running(i, kind) ==
    [name |-> i, ns |-> kind.ns, prio |-> kind.prio, start |-> i, req |-> [cpu |-> kind.cpu],
     terminating |-> FALSE, labels |-> IF kind.ns = 2 THEN {"web"} ELSE {}, class |-> "",
     scheduledAt |-> 0, policy |-> ""]

PodKinds == [ns : QuotaNamespaces, prio : 0 .. 1, cpu : 1 .. 2]
                \cup {[ns |-> 3, prio |-> 0, cpu |-> 1]}

Preemptor(ns, cpu) == [Running(0, [ns |-> ns, prio |-> 1, cpu |-> cpu]) EXCEPT !.labels = {}]

\* Quotas with a given use elsewhere in the cluster.
InfosOf(pods, mins, max, elsewhere) ==
    [ns \in QuotaNamespaces |->
        LET here == {pods[i] : i \in {j \in DOMAIN pods : pods[j].ns = ns}}
            fresh == Victims!newElasticQuotaInfo({[cpu |-> mins[ns]]}, {[cpu |-> max]})
        IN  [fresh EXCEPT !.pods = {p.name : p \in here},
                          !.used = [cpu |-> elsewhere[ns] + MapThenSumSet(LAMBDA p : p.req.cpu, here)]]]

ChoosePreemption ==
    /\ Choosing("preemption")
    /\ \E kinds \in [1 .. MaxPods -> PodKinds], ns \in {1, 3}, cpu \in 1 .. 2,
          mins \in [QuotaNamespaces -> {1, 3}], elsewhere \in {<<0, 0>>, <<0, 1>>, <<1, 0>>},
          max \in {3, 9}, nominated \in 0 .. 1 :
          LET pods == [i \in 1 .. MaxPods |-> Running(i, kinds[i])]
              total == MapThenSumSet(LAMBDA i : kinds[i].cpu, 1 .. MaxPods)
          IN  input' = [about |-> "preemption", pod |-> Preemptor(ns, cpu),
                        node |-> [alloc |-> [cpu |-> total], pods |-> pods],
                        infos |-> InfosOf(pods, mins, max, elsewhere),
                        with |-> [cpu |-> cpu + nominated]]

Budget == <<[ns |-> 2, selector |-> {"web"}, allowed |-> 1, disrupted |-> {}]>>

Chosen == Victims!SelectVictimsOnNode(input.pod, input.node, input.infos, Budget, input.with, input.with)

\* When the victims are gone, from the node and from the quotas, the preemptor
\* fits both: the plugin evicts nobody in vain.
VictimsSuffice(chosen, node, infos) ==
    chosen.status = "Success" =>
        /\ Victims!FilterFits(node, input.pod)
        /\ ~Victims!OverQuota(input.pod, infos, input.pod.req, input.pod.req)

\* And no victim could have stayed beside the preemptor and the nominated pods.
VictimsNeeded(chosen, node, infos) ==
    \A i \in DOMAIN chosen.victims :
        \/ ~Victims!FilterFits(Victims!WithPod(node, chosen.victims[i]), input.pod)
        \/ Victims!OverQuota(input.pod, Victims!AddPod(infos, chosen.victims[i]), input.with, input.with)

\* A quota loses pods to another quota only while it borrows: it would be above
\* its min with the most important of its victims still there.
GuaranteeKept(victims, infos) ==
    \A i \in DOMAIN victims :
        (/\ input.pod.ns \in QuotaNamespaces
         /\ victims[i].ns # input.pod.ns
         /\ \A j \in DOMAIN victims :
                victims[j].ns = victims[i].ns => ~Victims!MoreImportantPod(victims[j], victims[i]))
        => Victims!usedOverMin(Victims!AddPod(infos, victims[i])[victims[i].ns])

\* SelectVictimsOnNode of CapacityScheduling evicts enough, nobody in vain, and
\* from another quota only what that quota has borrowed.
VictimsRight ==
    input.about = "preemption" =>
        LET judged(chosen, node, infos) == /\ VictimsSuffice(chosen, node, infos)
                                           /\ VictimsNeeded(chosen, node, infos)
                                           /\ GuaranteeKept(chosen.victims, infos)
            right(chosen) == judged(chosen, FoldLeft(Victims!WithoutPod, input.node, chosen.victims),
                                    FoldLeft(Victims!RemovePod, input.infos, chosen.victims))
        IN  right(Chosen)

\* While victims of its first wave, all or some of them, still terminate on the
\* node it was nominated to, a preemptor is not allowed to look for more:
\* whatever SelectVictimsOnNode may choose, PodEligibleToPreemptOthers knows
\* again.  One case is excepted, because the code does not wait there: when the
\* victims that are left are of other quotas, and those are back at their min
\* now that other victims are gone (capacity_scheduling.go:462).
NoSecondWave ==
    input.about = "preemption" =>
        LET victims == ToSet(Chosen.victims)
            gone(left) == SelectSeq(Chosen.victims, LAMBDA p : p \notin left)
            nominated(left) ==
                [FoldLeft(Victims!WithoutPod, input.node, gone(left)) EXCEPT !.pods = [i \in DOMAIN @ |->
                    IF @[i] \in left THEN [@[i] EXCEPT !.terminating = TRUE] ELSE @[i]]]
            repaid(left, infos) ==
                /\ input.pod.ns \in QuotaNamespaces
                /\ \A p \in left : p.ns # input.pod.ns /\ ~Victims!usedOverMin(infos[p.ns])
            waits(left, infos) ==
                repaid(left, infos)
                    \/ ~Victims!PodEligibleToPreemptOthers(input.pod, {nominated(left)}, FALSE, infos, input.with)
        IN  \A left \in SUBSET victims \ {{}} :
                waits(left, FoldLeft(Victims!RemovePod, input.infos, gone(left)))

-----------------------------------------------------------------------------
(* PreemptionToleration                                                     *)

Now == 8

\* Priority classes: priorities below minimum are tolerated, for so long.
ClassesOf(minimum, seconds) ==
    [c \in {"batch"} |-> [value |-> 0, minimum |-> minimum, seconds |-> seconds, malformed |-> FALSE]]

Tolerant(i, kind) ==
    [name |-> i, ns |-> 2, prio |-> kind.prio, start |-> i, req |-> [cpu |-> kind.cpu],
     terminating |-> FALSE, labels |-> {"web"}, class |-> kind.class, scheduledAt |-> kind.at, policy |-> ""]

\* When a pod was scheduled is of no consequence without a class that tolerates.
TolerantKinds == [prio : 0 .. 1, cpu : 1 .. 2, class : {"batch"}, at : {-1, 0, 5}]
                     \cup [prio : 0 .. 1, cpu : 1 .. 2, class : {""}, at : {0}]

ChooseToleration ==
    /\ Choosing("toleration")
    /\ \E kinds \in [1 .. MaxPods -> TolerantKinds],
          minimum \in {{}, {2}}, seconds \in {{}, {4}, {-1}}, cpu \in 1 .. 2 :
          input' = [about |-> "toleration", pod |-> Preemptor(1, cpu), classes |-> ClassesOf(minimum, seconds),
                    node |-> [alloc |-> [cpu |-> MapThenSumSet(LAMBDA i : kinds[i].cpu, 1 .. MaxPods)],
                              pods |-> [i \in 1 .. MaxPods |-> Tolerant(i, kinds[i])]]]

\* A choice that reports no violation overdraws no disruption budget; whoever
\* is evicted has a lower priority and is not (or no longer) tolerated, the
\* evictions make room, and the preemptor waits for them.
BudgetsRespected ==
    input.about = "toleration" =>
        LET chosen == Victims!TolerationSelectVictims(input.pod, input.node, Budget, input.classes, Now)
            victims == ToSet(chosen.victims)
            \* a class without a minimum tolerates nobody above its own value
            tolerated(v) == /\ v.class = "batch" /\ input.classes["batch"].minimum = {2}
                            /\ \/ v.scheduledAt = -1
                               \/ \E t \in input.classes["batch"].seconds : t < 0 \/ v.scheduledAt + t > Now
            nominated == [input.node EXCEPT !.pods = [i \in DOMAIN @ |->
                              LET p == input.node.pods[i] IN [p EXCEPT !.terminating = p \in victims]]]
        IN  chosen.status = "Success" =>
                /\ chosen.violations = 0 =>
                       Cardinality({v \in victims : "web" \in v.labels}) <= Budget[1].allowed
                /\ Victims!FilterFits(FoldLeft(Victims!WithoutPod, input.node, chosen.victims), input.pod)
                /\ \A v \in victims : v.prio < input.pod.prio /\ ~tolerated(v)
                /\ victims # {} => ~Victims!TolerationEligible(input.pod, {nominated}, FALSE)

-----------------------------------------------------------------------------
(* Trimaran: load-aware scores                                              *)

Metric(type, operator, value) == [Type |-> type, Operator |-> operator, Value |-> value]
LoadPod(request, limit) ==
    [requests |-> <<request>>, limits |-> <<limit>>, initRequests |-> << >>, initLimits |-> << >>,
     overhead |-> << >>]

PackingArgs(target) == [multiplier |-> 15, requestsMilliCores |-> 1, target |-> target]

\* What the collector holds: nothing before the first fetch succeeds, and what
\* the last successful one brought when a later one fails.
Collected(polled, usages) ==
    LET report(values) == [n \in 1 .. 2 |-> <<Metric("CPU", "Latest", values[n])>>]
    IN  CASE polled = "never" -> Collector!updateMetrics({}, {})
          [] polled = "failed" -> Collector!updateMetrics({report(usages)}, {})
          [] polled = "fetched" -> Collector!updateMetrics({report(<<0, 0>>)}, {report(usages)})

\* Utilisations of two nodes of four cpus, one of which was given a pod at a
\* time (in seconds) around the end of the metrics' window.
ChoosePacking ==
    /\ Choosing("packing")
    /\ \E usages \in [1 .. 2 -> {0, 20, 39, 40, 41, 60, 85, 100}], target \in {20, 40, 70},
          request \in {<< >>, [cpu |-> 1], [cpu |-> 2]}, limit \in {<< >>, [cpu |-> 1], [cpu |-> 3]},
          bound \in {30, 60, 100, 200}, polled \in {"never", "failed", "fetched"} :
          input' = [about |-> "packing", polled |-> polled, usages |-> usages, args |-> PackingArgs(target),
                    pod |-> LoadPod(request, limit), bound |-> bound]

WindowEnd == 100

\* TargetLoadPacking fills nodes up to the target and then avoids them: below
\* it a fuller node is preferred, above it an emptier one, and any node below
\* to any node above.  A pod that was just bound counts although the metrics
\* do not show it yet.  Without metrics there is no preference.
PackedUpToTarget ==
    input.about = "packing" =>
        LET scheduled(n) == IF n = 1 THEN <<[Timestamp |-> input.bound, Pod |-> LoadPod([cpu |-> 1], [cpu |-> 1])]>>
                            ELSE << >>
            own == CASE "cpu" \in DOMAIN input.pod.limits[1] -> input.pod.limits[1]["cpu"]
                     [] "cpu" \in DOMAIN input.pod.requests[1] -> (3 * input.pod.requests[1]["cpu"] + 1) \div 2
                     [] OTHER -> 1
            unseen(n) == IF n = 1 /\ input.bound > WindowEnd - 60 THEN 1 ELSE 0
            \* predicted utilisation, in percent
            load == [n \in 1 .. 2 |-> input.usages[n] + 25 * (own + unseen(n))]
            score == [n \in 1 .. 2 |->
                LET found == Collector!GetNodeMetrics(Collected(input.polled, input.usages), n) IN
                Load!TargetLoadPackingScore(IF found = {} THEN << >> ELSE CHOOSE m \in found : TRUE,
                                            4, input.pod, scheduled(n), WindowEnd, input.args)]
            target == input.args.target
        IN  /\ \A n \in 1 .. 2 : score[n] \in 0 .. 100
            /\ input.polled = "never" => score[1] = score[2]
            /\ input.polled # "never" => \A m, n \in 1 .. 2 :
                   /\ load[m] < load[n] /\ load[n] <= target => score[m] <= score[n]
                   /\ load[m] <= target /\ target < load[n] => score[m] >= score[n]
                   /\ target < load[m] /\ load[m] < load[n] => score[m] >= score[n]

Sensitivities == {"zero", "half", "one", "negative"}

ChooseVariation ==
    /\ Choosing("variation")
    /\ \E avg \in [1 .. 2 -> {0, 50, 90}], dev \in [1 .. 2 -> {0, 30, 60}], memory \in {{}, {20}, {80}},
          cpu \in 0 .. 2, margin \in 0 .. 2, sensitivity \in Sensitivities :
          input' = [about |-> "variation", avg |-> avg, dev |-> dev, memory |-> memory,
                    pod |-> LoadPod([cpu |-> cpu, memory |-> cpu], << >>), margin |-> margin,
                    sensitivity |-> sensitivity]

\* LoadVariationRiskBalancing never prefers a node whose load is higher and
\* varies more, and its scores are in range for every margin and sensitivity.
SteadierNodePreferred ==
    input.about = "variation" =>
        LET score(n) ==
                Load!LoadVariationScore(
                    <<Metric("CPU", "AVG", input.avg[n]), Metric("CPU", "STD", input.dev[n])>>
                        \o SetToSeq({Metric("Memory", "Latest", v) : v \in input.memory}),
                    [cpu |-> 4, memory |-> 4], input.pod, input.margin, input.sensitivity)
        IN  /\ \A n \in 1 .. 2 : score(n) \in 0 .. 100
            /\ \A m, n \in 1 .. 2 : input.avg[m] <= input.avg[n] /\ input.dev[m] <= input.dev[n]
                                        => score(m) >= score(n)

\* A few shapes of the fitted distribution, by percent of the capacity.
Shapes == {[t \in 0 .. 100 |-> t], [t \in 0 .. 100 |-> (t * t) \div 100],
           [t \in 0 .. 100 |-> IF t < 50 THEN 0 ELSE 100]}

ChooseOverCommitment ==
    /\ Choosing("overcommitment")
    /\ \E request \in 0 .. 3, limit \in 0 .. 6, held \in [req : 0 .. 3, lim : 0 .. 5],
          avg \in {0, 50, 100}, dev \in {0, 20}, weight \in {0, 50, 100}, cdf \in Shapes :
          input' = [about |-> "overcommitment", request |-> request, limit |-> limit, held |-> held,
                    avg |-> avg, dev |-> dev, weight |-> weight, cdf |-> cdf]

\* LowRiskOverCommitment never scores a node higher for a pod that may use
\* more: raising the limit of the pod raises the risk of overcommitment.
RiskGrowsWithLimit ==
    input.about = "overcommitment" =>
        LET amount(n) == [cpu |-> n, memory |-> 1]
            score(limit) ==
                Load!LowRiskScore(<<Metric("CPU", "AVG", input.avg), Metric("CPU", "STD", input.dev)>>,
                    <<LoadPod(amount(input.held.req), amount(input.held.lim))>>, [cpu |-> 4, memory |-> 4],
                    LoadPod(amount(input.request), amount(limit)), input.weight, input.cdf)
        IN  /\ score(input.limit) \in 0 .. 100
            /\ score(input.limit + 1) <= score(input.limit)

\* The three load-aware plugins rank nodes by the load they expect.
LoadRanked == PackedUpToTarget /\ SteadierNodePreferred /\ RiskGrowsWithLimit

-----------------------------------------------------------------------------
(* SySched: Score                                                           *)

Profile(names) == {[names |-> names, action |-> "allow"], [names |-> {"kill"}, action |-> "errno"]}
CallSets == SUBSET {"read", "write", "bpf"}

\* Two hosts with the pods 1, 2 and 3, the first on host 1; a new pod whose calls come from its own
\* profile, its container's or an annotation, or else from the default one.
ChooseCalls ==
    /\ Choosing("calls")
    /\ \E own, container, annotated \in {{}, {Profile({"read", "write"})}, {Profile({"bpf"})}},
          calls \in [1 .. 3 -> CallSets \ {{}}], hosts \in {1} \X (1 .. 2) \X (1 .. 2) :
          input' = [about |-> "calls", calls |-> calls, hosts |-> hosts,
                    pod |-> [pod |-> own, containers |-> container, annotations |-> annotated]]

\* SySched prefers the host where the pods, the new one included, would see the
\* fewest system calls in all that are allowed to others on the host and not
\* to them: the score is that number, computed from what the pods' events left.
FewestExtraneousCalls ==
    input.about = "calls" =>
        LET sc == FoldLeft(LAMBDA c, p : Calls!addPod(c, p, input.hosts[p], input.calls[p]),
                           Calls!NewSySched, <<1, 2, 3>>)
            held(h) == IF h \in DOMAIN sc.calls THEN sc.calls[h] ELSE {}
            on(h) == {p \in 1 .. 3 : input.hosts[p] = h}
            seen(h, new) == LET every == new \cup UNION {input.calls[p] : p \in on(h)} IN
                            Cardinality(every \ new)
                              + MapThenSumSet(LAMBDA p : Cardinality(every \ input.calls[p]), on(h))
            fetched == input.pod.pod \cup input.pod.containers \cup input.pod.annotations \cup {Profile({"read"})}
        IN  \A new \in Calls!getSyscalls(input.pod, Profile({"read"}), fetched) :
                LET raw == [h \in 1 .. 2 |-> Calls!SySchedScore(new, on(h), held(h), input.calls)]
                    score == Calls!NormalizeExposure(raw)
                IN  \A g, h \in 1 .. 2 :
                        /\ score[h] \in 0 .. 100
                        /\ raw[h] = seen(h, new)
                        /\ seen(g, new) < seen(h, new) => score[g] > score[h]

-----------------------------------------------------------------------------
(* NodeResourcesAllocatable, PodState and the queue orders                  *)

ChooseAllocatable ==
    /\ Choosing("allocatable")
    /\ \E allocatables \in [1 .. 3 -> [cpu : {0, 2, 5}, memory : {1, 4}]],
          mode \in {"", "Least", "Most"}, resources \in {<< >>, [cpu |-> 1], [cpu |-> 1, memory |-> 3]} :
          input' = [about |-> "allocatable", allocatables |-> allocatables,
                    args |-> [mode |-> mode, resources |-> resources]]

\* NodeResourcesAllocatable ranks nodes by their weighted allocatable resources,
\* the smallest first in the Least mode (also by default) and the largest first
\* in the Most mode: the extremes get 0 and 100, though raw scores are negative.
AllocatableRanked ==
    input.about = "allocatable" =>
        LET mode == Plain!ModeOf(input.args)
            pod == [containers |-> <<[cpu |-> 1]>>, init |-> << >>, overhead |-> << >>]
            raw == [n \in 1 .. 3 |->
                       Plain!AllocatableScore([allocatable |-> input.allocatables[n], requested |-> << >>],
                                              pod, Plain!WeightsOf(input.args), mode)]
            score == Plain!NormalizeScore(raw)
            smaller(m, n) == \A r \in {"cpu", "memory"} : input.allocatables[m][r] <= input.allocatables[n][r]
        IN  /\ Plain!NewAllocatable(input.args)
            /\ \A m, n \in 1 .. 3 :
                   /\ score[m] \in 0 .. 100
                   /\ smaller(m, n) => IF mode = "Least" THEN score[m] >= score[n] ELSE score[m] <= score[n]
                   /\ raw[m] < raw[n] => \E best, worst \in 1 .. 3 : score[best] = 100 /\ score[worst] = 0

ChooseStates ==
    /\ Choosing("states")
    /\ \E nodes \in [1 .. 3 -> [terminating : 0 .. 3, nominated : 0 .. 3]] :
          input' = [about |-> "states", nodes |-> nodes]

\* PodState prefers nodes with more terminating and fewer nominated pods, also
\* when there are more nominated than terminating ones everywhere.
FreeingNodePreferred ==
    input.about = "states" =>
        LET score == Plain!PodStateNormalizeScore([n \in 1 .. 3 |-> Plain!PodStateScore(input.nodes[n])])
        IN  \A m, n \in 1 .. 3 :
                /\ score[m] \in 0 .. 100
                /\ (/\ input.nodes[m].terminating >= input.nodes[n].terminating
                    /\ input.nodes[m].nominated <= input.nodes[n].nominated) => score[m] >= score[n]

\* SySched, NodeResourcesAllocatable and PodState give the best score to the
\* node that is best by what each of them looks at.
NodesRanked == FewestExtraneousCalls /\ AllocatableRanked /\ FreeingNodePreferred

QOSClasses == {"Guaranteed", "Burstable", "BestEffort"}

\* Pods 1 .. 4 in the order they are queued; the workloads the AppGroup has an
\* order for, with their places.
ChooseQueue ==
    /\ Choosing("queue")
    /\ \/ \E pods \in [1 .. 4 -> [prio : 0 .. 1, qos : QOSClasses]] :
             input' = [about |-> "queue", pods |-> pods]
       \/ \E known \in SUBSET (1 .. 4), order \in [1 .. 4 -> 1 .. 3] :
             input' = [about |-> "group queue", topologyOrder |-> [i \in 1 .. Cardinality(known) |->
                           LET s == SetToSortSeq(known, <)[i] IN [Selector |-> s, Index |-> order[s]]]]

\* When the four are queued, two are taken, and the first two come back.
Served(less) ==
    LET push(queue, i) == Plain!HeapPush(queue, i, less)
        pop(state, n) == [queue |-> Plain!HeapPop(state.queue, less), out |-> Append(state.out, Head(state.queue))]
        first == FoldLeft(pop, [queue |-> FoldLeft(push, << >>, <<1, 2, 3, 4>>), out |-> << >>], <<1, 2>>)
        again == [first EXCEPT !.queue = FoldLeft(push, @, first.out)]
    IN  FoldLeft(pop, again, <<1, 2, 3, 4>>).out

\* The pod the queue hands out is never a worse one than another that waits: by
\* priority and then by class with QOSSort, by the place of its workload with
\* TopologicalSort in one AppGroup (a workload without a place comes first),
\* although both orders hold both ways between equals, which the heap is not
\* made for.
BestPodServed ==
    LET positions == 1 .. 4
        pairs(before(_, _)) == {<<i, j>> \in positions \X positions : before(i, j)}
        bestFirst(out, worse(_, _)) ==
            /\ ~worse(out[1], out[2])
            /\ \A i, j \in positions : i < j => ~worse(out[2 + i], out[2 + j])
        rank(class) == CASE class = "Guaranteed" -> 1 [] class = "Burstable" -> 2 [] OTHER -> 3
        lower(p, q) == p.prio < q.prio \/ (p.prio = q.prio /\ rank(p.qos) > rank(q.qos))
        inGroup(i) == [AppGroup |-> 7, Selector |-> i]
        place(i) == Max({0} \cup {input.topologyOrder[k].Index :
                                      k \in {m \in DOMAIN input.topologyOrder : input.topologyOrder[m].Selector = i}})
    IN  /\ input.about = "queue" =>
               bestFirst(Served(pairs(LAMBDA i, j : Plain!Less(input.pods[i], input.pods[j]))),
                         LAMBDA i, j : lower(input.pods[i], input.pods[j]))
        /\ input.about = "group queue" =>
               bestFirst(Served(pairs(LAMBDA i, j : Network!TopologicalLess(inGroup(i), inGroup(j),
                                                                            input.topologyOrder))),
                         LAMBDA i, j : place(i) > place(j))

-----------------------------------------------------------------------------
(* kubectl health get                                                       *)

Result(dest, protocol, direction) ==
    [dest |-> dest, mode |-> 0, protocol |-> protocol, direction |-> direction, time |-> -1]

\* A ConfigMap with one result; one without a readable time was created at 3.
Stored(times, dests, protocols, directions) ==
    {[prefixed |-> TRUE, readable |-> TRUE, timestamp |-> t, created |-> 3, mode |-> m,
      results |-> <<Result(d, p, dir)>>] :
        t \in times, m \in {1, 3}, d \in dests, p \in protocols, dir \in directions}

Filters == {[today |-> FALSE, mode |-> 0, limit |-> 0], [today |-> TRUE, mode |-> 0, limit |-> 0],
            [today |-> FALSE, mode |-> 3, limit |-> 0], [today |-> FALSE, mode |-> 0, limit |-> 1]}

ChooseListing ==
    /\ Choosing("listing")
    /\ \E first \in Stored({{1}, {2}, {}}, {1}, {1}, {1}),
          second \in Stored({{1}, {2}, {}}, 1 .. 2, 1 .. 2, 1 .. 2),
          third \in Stored({{2}}, 1 .. 2, 1 .. 2, 1 .. 2), readable \in BOOLEAN, filter \in Filters :
          input' = [about |-> "listing",
                    configMaps |-> <<[first EXCEPT !.readable = readable], second, third>>,
                    filter |-> [latest |-> TRUE, nodes |-> 1 .. 2] @@ filter]

\* With --latest, whatever order the API lists the ConfigMaps in, the newest
\* result of every destination that passes the filter is printed (but for a
\* limit).  It need not be its only line: the code keeps the newest of each
\* destination, mode, protocol and direction, each once, where the help of the
\* flag (args/parser.go:44) has "only the latest result per destination node".
LatestListed ==
    input.about = "listing" =>
        LET all == ToSet(Listing!getAllDestNodeResults(input.configMaps))
            matching == {r \in all : (input.filter.today => r.time >= 2)
                                     /\ (input.filter.mode # 0 => r.mode = input.filter.mode)}
            kind(r) == [r EXCEPT !.time = 0]
        IN  \A lines \in Listing!ListBenchmarksWithFilter(input.configMaps, input.filter, 2) :
                /\ \A i \in DOMAIN lines :
                       /\ lines[i] \in matching
                       /\ \A r \in matching : kind(r) = kind(lines[i]) => r.time <= lines[i].time
                       /\ \A j \in DOMAIN lines : kind(lines[j]) = kind(lines[i]) => i = j
                /\ IF input.filter.limit > 0 THEN Len(lines) <= input.filter.limit
                   ELSE \A r \in matching : \E i \in DOMAIN lines :
                            lines[i].dest = r.dest /\ lines[i].time >= r.time

-----------------------------------------------------------------------------
AlgorithmsInit ==
    input \in [about : {"nothing"},
               next : {"offers", "aligned", "spread", "zones", "network", "preemption",
                       "toleration", "packing", "variation", "overcommitment",
                       "calls", "allocatable", "states", "queue", "listing"}]

AlgorithmsNext ==
    \/ ChooseOffers
    \/ ChooseAligned
    \/ ChooseSpread
    \/ ChooseZones
    \/ ChooseNetwork
    \/ ChoosePreemption
    \/ ChooseToleration
    \/ ChoosePacking
    \/ ChooseVariation
    \/ ChooseOverCommitment
    \/ ChooseCalls
    \/ ChooseAllocatable
    \/ ChooseStates
    \/ ChooseQueue
    \/ ChooseListing

AlgorithmsSpec == AlgorithmsInit /\ [][AlgorithmsNext]_input
=============================================================================
