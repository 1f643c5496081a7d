------------------------ MODULE PluginCharges_proofs ------------------------
(***************************************************************************)
(* Theorems about what the caches of the scheduler plugins charge for the  *)
(* pods: the quota that CapacityScheduling counts as used, and the room    *)
(* that OverReserve takes as gone.  Both are sums over pods, and rest on   *)
(* the invariant of the life of pods.                                      *)
(***************************************************************************)
EXTENDS PluginCaches_proofs

\* The provers of a leaf that names none, and the time they have.
USE ZenonT(5), SMTT(30)

-----------------------------------------------------------------------------
(* CapacityScheduling: what an entry counts.                               *)

Asked(name) == [p \in Pods |-> Amount(PodRequest[p], name)]
TotalOf(pods, name) == MapThenSumSet(LAMBDA p : Amount(PodRequest[p], name), pods)

LEMMA TotalIsSum ==
    ASSUME NEW S \in SUBSET Pods, NEW name
    PROVE  TotalOf(S, name) = SumOver(Asked(name), S)
<1> DEFINE m == Asked(name)
           rhs(h) == [s \in SUBSET S |->
                   IF s = {} THEN 0
                   ELSE Amount(PodRequest[CHOOSE x \in s : TRUE], name)
                          + h[s \ {CHOOSE x \in s : TRUE}]]
           g == CHOOSE h : h = rhs(h)
<1>1. TotalOf(S, name) = g[S]
  BY DEF TotalOf, MapThenSumSet, MapThenFoldSet
<1>2. ASSUME NEW h
      PROVE  IsSum(m, h, S) <=> h = rhs(h)
  <2>1. ASSUME NEW s \in SUBSET S
        PROVE  SumStep(m, h, s) =
                  IF s = {} THEN 0
                  ELSE Amount(PodRequest[CHOOSE x \in s : TRUE], name)
                         + h[s \ {CHOOSE x \in s : TRUE}]
    BY AnyIn DEF SumStep, AnyOf, Asked
  <2> HIDE DEF m
  <2> QED BY <2>1, Zenon DEF IsSum
<1>3. IsFiniteSet(S)
  BY RequestsAssumption, FS_Subset
<1>4. \E h : IsSum(m, h, S)
  BY <1>3, SumExists
<1> HIDE DEF m, rhs
<1>5. \E h : h = rhs(h)
  BY <1>2, <1>4
<1>6. g = rhs(g)
  BY <1>5, Zenon
<1>7. IsSum(m, g, S)
  BY <1>2, <1>6, Zenon
<1> QED BY <1>1, <1>3, <1>7, SumOverIs DEF m

LEMMA TotalChanges ==
    ASSUME NEW S \in SUBSET Pods, NEW name \in Native
    PROVE  /\ TotalOf(S, name) \in Int
           /\ TotalOf({}, name) = 0
           /\ \A p \in Pods \ S : TotalOf(S \cup {p}, name) = TotalOf(S, name) + Amount(PodRequest[p], name)
           /\ \A p \in S : TotalOf(S \ {p}, name) = TotalOf(S, name) - Amount(PodRequest[p], name)
<1>1. \A p \in Pods : Asked(name)[p] \in Int /\ Asked(name)[p] = Amount(PodRequest[p], name)
  BY RequestsAssumption DEF Asked
<1>2. \A T \in SUBSET Pods : IsFiniteSet(T)
  BY RequestsAssumption, FS_Subset
<1>3. \A T \in SUBSET Pods : TotalOf(T, name) \in Int
  BY <1>1, <1>2, TotalIsSum, SumOverInt
<1>4. TotalOf({}, name) = 0
  BY TotalIsSum, SumOverEmpty
<1>5. \A T \in SUBSET Pods : \A p \in T :
          TotalOf(T, name) = Amount(PodRequest[p], name) + TotalOf(T \ {p}, name)
  <2> SUFFICES ASSUME NEW T \in SUBSET Pods, NEW p \in T
               PROVE  TotalOf(T, name) = Amount(PodRequest[p], name) + TotalOf(T \ {p}, name)
    BY ZenonT(30)
  <2>1. SumOver(Asked(name), T) = Asked(name)[p] + SumOver(Asked(name), T \ {p})
    BY <1>1, <1>2, SumOverRemove
  <2> QED BY <1>1, <2>1, TotalIsSum
<1>6. ASSUME NEW p \in Pods \ S
      PROVE  TotalOf(S \cup {p}, name) = TotalOf(S, name) + Amount(PodRequest[p], name)
  <2>1. (S \cup {p}) \ {p} = S
    OBVIOUS
  <2> QED BY <1>1, <1>3, <1>5, <2>1
<1>7. ASSUME NEW p \in S
      PROVE  TotalOf(S \ {p}, name) = TotalOf(S, name) - Amount(PodRequest[p], name)
  BY <1>1, <1>3, <1>5
<1> QED BY <1>3, <1>4, <1>6, <1>7

InfoInv(info) ==
    /\ {"pods", "used"} \subseteq DOMAIN info
    /\ info.pods \in SUBSET Pods
    /\ Native \subseteq DOMAIN info.used
    /\ \A name \in Native : info.used[name] = TotalOf(info.pods, name)

LEMMA InfoAdds ==
    ASSUME NEW info, InfoInv(info), NEW p \in Pods
    PROVE  /\ InfoInv(addPodIfNotPresent(info, p, PodRequest[p]))
           /\ addPodIfNotPresent(info, p, PodRequest[p]).pods = info.pods \cup {p}
<1> DEFINE new == addPodIfNotPresent(info, p, PodRequest[p])
<1>1. CASE p \in info.pods
  BY <1>1 DEF addPodIfNotPresent, InfoInv
<1>2. CASE p \notin info.pods
  <2>1. /\ DOMAIN new = DOMAIN info
        /\ new.pods = info.pods \cup {p}
        /\ new.used = AddResource(info.used, PodRequest[p])
    BY <1>2 DEF addPodIfNotPresent, reserveResource, InfoInv
  <2>2. ASSUME NEW name \in Native
        PROVE  name \in DOMAIN new.used /\ new.used[name] = TotalOf(new.pods, name)
    <3>1. new.used[name] = info.used[name] + Amount(PodRequest[p], name) /\ name \in DOMAIN new.used
      BY <2>1 DEF AddResource, InfoInv, Amount
    <3>2. TotalOf(info.pods \cup {p}, name) = TotalOf(info.pods, name) + Amount(PodRequest[p], name)
      BY <1>2, TotalChanges DEF InfoInv
    <3> QED BY <2>1, <3>1, <3>2 DEF InfoInv
  <2> QED BY <2>1, <2>2 DEF InfoInv
<1> QED BY <1>1, <1>2

LEMMA InfoRemoves ==
    ASSUME NEW info, InfoInv(info), NEW p \in Pods
    PROVE  /\ InfoInv(deletePodIfPresent(info, p, PodRequest[p]))
           /\ deletePodIfPresent(info, p, PodRequest[p]).pods = info.pods \ {p}
<1> DEFINE new == deletePodIfPresent(info, p, PodRequest[p])
<1>1. CASE p \notin info.pods
  BY <1>1 DEF deletePodIfPresent, InfoInv
<1>2. CASE p \in info.pods
  <2>1. /\ DOMAIN new = DOMAIN info
        /\ new.pods = info.pods \ {p}
        /\ new.used = unreserveResource(info.used, PodRequest[p])
    BY <1>2 DEF deletePodIfPresent, InfoInv
  <2>2. ASSUME NEW name \in Native
        PROVE  name \in DOMAIN new.used /\ new.used[name] = TotalOf(new.pods, name)
    <3>1. new.used[name] = info.used[name] - Amount(PodRequest[p], name) /\ name \in DOMAIN new.used
      BY <2>1 DEF unreserveResource, InfoInv, Amount
    <3>2. TotalOf(info.pods \ {p}, name) = TotalOf(info.pods, name) - Amount(PodRequest[p], name)
      BY <1>2, TotalChanges DEF InfoInv
    <3> QED BY <2>1, <3>1, <3>2 DEF InfoInv
  <2> QED BY <2>1, <2>2 DEF InfoInv
<1> QED BY <1>1, <1>2

LEMMA InfoStarts ==
    ASSUME NEW min, NEW max
    PROVE  /\ InfoInv(newElasticQuotaInfo(min, max))
           /\ newElasticQuotaInfo(min, max).pods = {}
<1>1. \A name \in Native : TotalOf({}, name) = 0
  BY TotalChanges
<1> QED BY <1>1 DEF InfoInv, newElasticQuotaInfo, Zero

\* The pods that some entry of the map counts.
InfosInv(I) == \A ns \in DOMAIN I : InfoInv(I[ns])
Counted(I) == {p \in Pods : Tracked(I, p) /\ p \in InfoOf(I, p).pods}

LEMMA CountPodCounts ==
    ASSUME NEW I, InfosInv(I), NEW p \in Pods, Tracked(I, p)
    PROVE  InfosInv(CountPod(I, p)) /\ Counted(CountPod(I, p)) = Counted(I) \cup {p}
<1> DEFINE J == CountPod(I, p)
           ns == PodNamespace[p]
           info == addPodIfNotPresent(I[ns], p, PodRequest[p])
<1>1. InfoInv(info) /\ info.pods = I[ns].pods \cup {p}
  BY InfoAdds DEF InfosInv, Tracked
<1>2. J = [I EXCEPT ![ns] = info]
  BY DEF CountPod
<1>3. DOMAIN J = DOMAIN I /\ \A n \in DOMAIN I : J[n] = IF n = ns THEN info ELSE I[n]
  BY <1>2
<1> HIDE DEF J, info
<1>4. InfosInv(J)
  BY <1>1, <1>3 DEF InfosInv
<1>5. Counted(J) = Counted(I) \cup {p}
  BY <1>1, <1>3 DEF Counted, Tracked, InfoOf
<1> QED BY <1>4, <1>5 DEF J

LEMMA UncountPodUncounts ==
    ASSUME NEW I, InfosInv(I), NEW p \in Pods
    PROVE  InfosInv(UncountPod(I, p)) /\ Counted(UncountPod(I, p)) = Counted(I) \ {p}
<1>1. CASE ~Tracked(I, p)
  BY <1>1 DEF UncountPod, Counted
<1>2. CASE Tracked(I, p)
  <2> DEFINE J == UncountPod(I, p)
             ns == PodNamespace[p]
             info == deletePodIfPresent(I[ns], p, PodRequest[p])
  <2>1. InfoInv(info) /\ info.pods = I[ns].pods \ {p}
    BY <1>2, InfoRemoves DEF InfosInv, Tracked
  <2>2. J = [I EXCEPT ![ns] = info]
    BY <1>2 DEF UncountPod
  <2>3. DOMAIN J = DOMAIN I /\ \A n \in DOMAIN I : J[n] = IF n = ns THEN info ELSE I[n]
    BY <2>2
  <2> HIDE DEF J, info
  <2>4. InfosInv(J)
    BY <2>1, <2>3 DEF InfosInv
  <2>5. Counted(J) = Counted(I) \ {p}
    BY <1>2, <2>1, <2>3 DEF Counted, Tracked, InfoOf
  <2> QED BY <2>4, <2>5 DEF J
<1> QED BY <1>1, <1>2

LEMMA AddPodCounts ==
    ASSUME NEW I, InfosInv(I), NEW p \in Pods, NEW listed \in BOOLEAN, NEW Q
    PROVE  /\ InfosInv(QuotaAddPod(I, p, Q, listed))
           /\ Counted(I) \subseteq Counted(QuotaAddPod(I, p, Q, listed))
           /\ Tracked(I, p) \/ (listed /\ PodNamespace[p] \in DOMAIN Q)
                 => p \in Counted(QuotaAddPod(I, p, Q, listed))
<1>1. CASE Tracked(I, p)
  BY <1>1, CountPodCounts DEF QuotaAddPod
<1>2. CASE ~Tracked(I, p) /\ (~listed \/ PodNamespace[p] \notin DOMAIN Q)
  BY <1>2 DEF QuotaAddPod
<1>3. CASE ~Tracked(I, p) /\ listed /\ PodNamespace[p] \in DOMAIN Q
  <2> DEFINE ns == PodNamespace[p]
             info == newElasticQuotaInfo(Q[ns].min, Q[ns].max)
             J == [n \in DOMAIN I \cup {ns} |-> IF n = ns THEN info ELSE I[n]]
  <2>1. InfoInv(info) /\ info.pods = {}
    BY InfoStarts
  <2>2. QuotaAddPod(I, p, Q, listed) = CountPod(J, p)
    BY <1>3 DEF QuotaAddPod
  <2>3. /\ DOMAIN J = DOMAIN I \cup {ns} /\ ns \notin DOMAIN I
        /\ \A n \in DOMAIN J : J[n] = IF n = ns THEN info ELSE I[n]
    BY <1>3 DEF Tracked
  <2> HIDE DEF info, J
  <2>4. InfosInv(J) /\ Tracked(J, p)
    BY <2>1, <2>3 DEF InfosInv, Tracked
  <2>5. Counted(I) \subseteq Counted(J)
    BY <2>1, <2>3 DEF Counted, Tracked, InfoOf
  <2> QED BY <2>2, <2>4, <2>5, CountPodCounts, ZenonT(30)
<1> QED BY <1>1, <1>2, <1>3

\* A pod the scheduler may still place, or is placing, is on no node: unless
\* its bind answer was lost, Unreserve never takes out a bound pod.
ShownUnbound(p) ==
    seen[p].phase = "Unbound" \/ \E i \in 1 .. Len(feed[p]) : feed[p][i].phase = "Unbound"
MayPlace(p) ==
    stage[p] \in {"cycle", "binding", "failed"} \/ (stage[p] = "queued" /\ ShownUnbound(p))
PlacedOnce ==
    deployed = "CapacityScheduling" =>
        \A p \in Own \ uncounted : MayPlace(p) => store[p].node = NoNode

LEMMA PlacedOnceKept ==
    ASSUME LifecycleInv, PlacedOnce, [Next]_vars PROVE PlacedOnce'
<1> SUFFICES ASSUME deployed' = "CapacityScheduling", NEW q \in Own \ uncounted', MayPlace(q)'
             PROVE  store'[q].node = NoNode
  BY DEF PlacedOnce
<1> USE DEF deployed
<1>0. /\ stage \in [Own -> Stages] /\ q \in Own /\ q \in Pods
      /\ store \in [Pods -> Versions] /\ seen \in [Pods -> Versions]
      /\ feed \in [Pods -> Seq(Versions)] /\ store[q] \in Versions
      /\ feed[q] \in Seq(Versions)
  BY LifecycleAssumption DEF LifecycleInv, LifecycleTypes
<1>1. CASE Restart
  <2>1. /\ stage'[q] = "queued" /\ seen'[q] = Unseen /\ feed'[q] = Listed(store[q])
        /\ store' = store
    BY <1>0, <1>1 DEF Restart, RestartStep
  <2>2. store[q].phase = "Unbound"
    <3>1. PICK i \in 1 .. Len(Listed(store[q])) : Listed(store[q])[i].phase = "Unbound"
      BY <2>1 DEF MayPlace, ShownUnbound, Unseen, Version
    <3> QED BY <1>0, <3>1, ListedType
  <2> QED BY <1>0, <2>1, <2>2 DEF Versions
<1>2. ASSUME scenario' = scenario, uncounted \subseteq uncounted', store'[q].node = store[q].node,
             MayPlace(q)' => MayPlace(q)
      PROVE  store'[q].node = NoNode
  BY <1>2 DEF PlacedOnce
<1>3. ASSUME NEW p \in Pods, Cluster(p) PROVE store'[q].node = NoNode
  <2>1. /\ scenario' = scenario /\ uncounted' = uncounted
        /\ seen' = seen /\ stage' = stage
    BY <1>3 DEF Cluster, caches, quotaVars, KubeletStep, DeleteStep, ForeignBind
  <2>2. CASE q # p
    <3>1. store'[q] = store[q] /\ feed'[q] = feed[q]
      BY <1>0, <1>3, <2>2, ZenonT(30) DEF Cluster, KubeletStep, DeleteStep, ForeignBind, Publish
    <3> QED BY <1>2, <2>1, <3>1 DEF MayPlace, ShownUnbound
  <2>3. CASE q = p
    <3>1. PICK ph \in Phases : ph # "Unbound" /\ Publish(p, [store[p] EXCEPT !.phase = ph])
      BY <1>3, <2>3, ZenonT(30) DEF Cluster, KubeletStep, DeleteStep, ForeignBind, NextPhases, Phases
    <3> DEFINE v == [store[p] EXCEPT !.phase = ph]
    <3>3. v.phase = ph /\ v.node = store[p].node
      BY <1>0, <2>3 DEF Versions
    <3>4. store'[q] = v /\ feed'[q] = Append(feed[q], v)
      BY <1>0, <2>3, <3>1 DEF Publish
    <3> HIDE DEF v
    <3>5. \A i \in 1 .. Len(feed'[q]) : feed'[q][i] = v \/ (i \in 1 .. Len(feed[q]) /\ feed'[q][i] = feed[q][i])
      BY <1>0, <3>4
    <3>6. MayPlace(q)' => MayPlace(q)
      BY <2>1, <3>1, <3>3, <3>5 DEF MayPlace, ShownUnbound
    <3> QED BY <1>2, <2>1, <2>3, <3>3, <3>4, <3>6
  <2> QED BY <2>2, <2>3
<1>4. ASSUME NEW p \in Pods, Deliver(p) PROVE store'[q].node = NoNode
  <2>1. /\ scenario' = scenario /\ store' = store /\ stage' = stage
        /\ seen' = [seen EXCEPT ![p] = Head(feed[p])]
        /\ feed' = [feed EXCEPT ![p] = Tail(feed[p])] /\ feed[p] # << >>
    BY <1>4 DEF Deliver, DeliverStep
  <2>2. uncounted \subseteq uncounted'
    BY <1>4 DEF Deliver, QuotaEvent, caches, quotaVars
  <2>3. CASE q # p
    BY <1>0, <1>2, <2>1, <2>2, <2>3 DEF MayPlace, ShownUnbound
  <2>4. CASE q = p
    <3>1. /\ seen'[q] = Head(feed[q]) /\ feed'[q] = Tail(feed[q])
      BY <1>0, <2>1, <2>4
    <3>2. /\ Head(feed[q]) = feed[q][1] /\ Len(feed[q]) \in Nat /\ Len(feed[q]) >= 1
          /\ Len(Tail(feed[q])) = Len(feed[q]) - 1
          /\ \A i \in 1 .. Len(feed[q]) - 1 : Tail(feed[q])[i] = feed[q][i + 1]
      BY <1>0, <2>1, <2>4
    <3>3. ShownUnbound(q)' => ShownUnbound(q)
      BY <3>1, <3>2 DEF ShownUnbound
    <3> QED BY <1>2, <2>1, <2>2, <3>3, ZenonT(30) DEF MayPlace
  <2> QED BY <2>3, <2>4
<1>5. ASSUME NEW p \in Own, NEW n \in Nodes, Filter(p, n) PROVE store'[q].node = NoNode
  <2>1. /\ stage[p] = "queued" /\ seen[p].phase = "Unbound" /\ stage' = [stage EXCEPT ![p] = "cycle"]
        /\ UNCHANGED <<store, feed, seen, uncounted, scenario>>
    BY <1>5, ZenonT(30) DEF Filter, StartCycle, caches, quotaVars
  <2> QED BY <1>0, <1>2, <2>1 DEF MayPlace, ShownUnbound
<1>6. ASSUME NEW p \in Own, (Bind(p) /\ UNCHANGED <<scenario, caches>>) \/ BindAnswerLost(p)
      PROVE store'[q].node = NoNode
  <2>1. /\ UNCHANGED seen /\ \A r \in Own \ {p} : stage'[r] = stage[r] /\ store'[r] = store[r] /\ feed'[r] = feed[r]
    BY <1>0, <1>6, LifecycleAssumption, ZenonT(30) DEF Bind, BindAnswerLost, BindLost, MoveTo, Publish
  <2>2. CASE q # p
    <3>1. uncounted \subseteq uncounted' /\ scenario' = scenario
      BY <1>6, ZenonT(30) DEF BindAnswerLost, caches, quotaVars
    <3> QED BY <1>2, <1>6, <2>1, <2>2, <3>1, ZenonT(30) DEF MayPlace, ShownUnbound
  <2>3. CASE q = p /\ Bind(p)
    BY <1>0, <2>3 DEF Bind, MoveTo, MayPlace
  <2>4. CASE q = p /\ BindAnswerLost(p)
    BY <2>4, ZenonT(30) DEF BindAnswerLost
  <2> QED BY <1>6, <2>2, <2>3, <2>4
<1>7. ASSUME NEW p \in Own,
             Reserve(p) \/ (BindFails(p) /\ UNCHANGED <<scenario, caches>>) \/ PostBind(p) \/ Unreserve(p)
      PROVE  store'[q].node = NoNode
  <2>1. /\ UNCHANGED <<store, feed, seen, uncounted, scenario>>
        /\ \/ stage[p] \in {"cycle", "binding", "failed"} /\ stage' = [stage EXCEPT ![p] = stage'[p]]
           \/ stage' = [stage EXCEPT ![p] = "done"]
    BY <1>0, <1>7, ZenonT(30) DEF Reserve, ReserveStep, BindFails, PostBind, PostBindStep, Unreserve, UnreserveStep, MoveTo,
                caches, quotaVars
  <2> QED BY <1>0, <1>2, <2>1 DEF MayPlace, ShownUnbound
<1>8. CASE UNCHANGED <<lifecycle, uncounted, scenario>>
  BY <1>2, <1>8, ZenonT(30) DEF lifecycle, MayPlace, ShownUnbound
<1>9. ASSUME NEW n \in Nodes,
             AgentReports(n) \/ ConfChanges(n) \/ WatchStep(n) \/ \E p \in Own : CannotAlign(p, n)
      PROVE  UNCHANGED <<lifecycle, uncounted, scenario>>
  BY <1>9, ZenonT(30) DEF AgentReports, ConfChanges, WatchStep, CannotAlign, quotaVars
<1>10. CASE ResyncStep \/ Tick \/ Cleanup \/ (\E ns \in DOMAIN Quotas : ChangeQuota(ns)) \/ UNCHANGED vars
  BY <1>8, <1>10, ZenonT(30) DEF ResyncStep, Tick, Cleanup, ChangeQuota, vars, caches, quotaVars
<1>11. ASSUME NEW p \in Own, Binding(p) \/ BindAnswerLost(p) PROVE store'[q].node = NoNode
  BY <1>6, <1>7, <1>11 DEF Binding
<1> QED BY <1>1, <1>3, <1>4, <1>5, <1>7, <1>8, <1>9, <1>10, <1>11, ZenonT(30) DEF Next

PodCounted(p) ==
    Unfinished(seen[p]) /\ p \notin uncounted => p \in Counted(infos)
QuotaInv ==
    /\ InfosInv(infos)
    /\ deployed = "CapacityScheduling" => \A p \in Pods : PodCounted(p)

LEMMA QuotaEventKept ==
    ASSUME LifecycleInv, QuotaInv, NEW p \in Pods, DeliverStep(p), QuotaEvent(p),
           deployed = "CapacityScheduling"
    PROVE  InfosInv(infos') /\ \A q \in Pods : PodCounted(q)'
<1> DEFINE new == Head(feed[p])
<1>0. /\ new \in Versions /\ seen[p] \in Versions /\ Later(seen[p], new)
      /\ seen' = [seen EXCEPT ![p] = new] /\ seen \in [Pods -> Versions]
  <2>1. feed[p] \in Seq(Versions) /\ feed[p] # << >> /\ InOrder(p)
    BY DEF LifecycleInv, LifecycleTypes, DeliverStep
  <2>2. new \in Versions /\ new = feed[p][1] /\ 1 \in 1 .. Len(feed[p])
    BY <2>1
  <2> QED BY <2>1, <2>2 DEF LifecycleInv, LifecycleTypes, DeliverStep, InOrder
<1> HIDE DEF new
<1>1. InfosInv(infos) /\ \A q \in Pods : PodCounted(q)
  BY DEF QuotaInv
<1>2. ASSUME uncounted \subseteq uncounted', Counted(infos) \ {p} \subseteq Counted(infos'), InfosInv(infos'),
             Unfinished(new) /\ p \notin uncounted' => p \in Counted(infos')
      PROVE  InfosInv(infos') /\ \A q \in Pods : PodCounted(q)'
  <2>1. ASSUME NEW q \in Pods PROVE PodCounted(q)'
    <3>1. CASE q = p
      <4>1. seen'[q] = new
        BY <1>0, <3>1
      <4> QED BY <1>2, <3>1, <4>1 DEF PodCounted, Unfinished, Counted, Tracked, InfoOf
    <3>2. CASE q # p
      <4>1. seen'[q] = seen[q] /\ PodCounted(q)
        BY <1>0, <1>1, <3>2
      <4> QED BY <1>2, <3>2, <4>1 DEF PodCounted, Unfinished, Counted, Tracked, InfoOf
    <3> QED BY <3>1, <3>2
  <2> QED BY <1>2, <2>1
<1>3. CASE FilteredEvent(seen[p], new) = "add" /\
           \E listed \in BOOLEAN :
             /\ infos' = QuotaAddPod(infos, p, [ns \in quotas |-> Quotas[ns]], listed)
             /\ uncounted' = IF Tracked(infos, p) \/ (listed /\ PodNamespace[p] \in quotas)
                             THEN uncounted ELSE uncounted \cup {p}
  <2>1. PICK listed \in BOOLEAN :
             /\ infos' = QuotaAddPod(infos, p, [ns \in quotas |-> Quotas[ns]], listed)
             /\ uncounted' = IF Tracked(infos, p) \/ (listed /\ PodNamespace[p] \in quotas)
                             THEN uncounted ELSE uncounted \cup {p}
    BY <1>3
  <2>2. PICK Q : Q = [ns \in quotas |-> Quotas[ns]]
    OBVIOUS
  <2>3. DOMAIN Q = quotas /\ infos' = QuotaAddPod(infos, p, Q, listed)
    BY <2>1, <2>2
  <2>4. /\ InfosInv(infos') /\ Counted(infos) \subseteq Counted(infos')
        /\ Tracked(infos, p) \/ (listed /\ PodNamespace[p] \in quotas) => p \in Counted(infos')
    BY <1>1, <2>3, AddPodCounts, ZenonT(30)
  <2> QED BY <1>2, <2>1, <2>4
<1>4. CASE FilteredEvent(seen[p], new) = "update" /\
           infos' = QuotaUpdatePod(infos, p, seen[p], new) /\ UNCHANGED uncounted
  <2>1. CASE infos' = UncountPod(infos, p) /\ new.phase = "Succeeded"
    BY <1>1, <1>2, <1>4, <2>1, UncountPodUncounts, ZenonT(30) DEF Unfinished
  <2>2. CASE infos' = infos
    <3>1. Unfinished(new) => Unfinished(seen[p])
      BY <1>0, <1>4 DEF FilteredEvent, Unfinished, Versions, Phases, Later, Over
    <3> QED BY <1>1, <1>2, <1>4, <2>2, <3>1 DEF PodCounted
  <2> QED BY <1>4, <2>1, <2>2, ZenonT(30) DEF QuotaUpdatePod
<1>5. CASE FilteredEvent(seen[p], new) = "delete" /\ infos' = QuotaDeletePod(infos, p) /\ UNCHANGED uncounted
  <2>1. ~Unfinished(new)
    BY <1>5 DEF FilteredEvent, Unfinished
  <2> QED BY <1>1, <1>2, <1>5, <2>1, UncountPodUncounts, ZenonT(30) DEF QuotaDeletePod
<1>6. CASE FilteredEvent(seen[p], new) = "none" /\ UNCHANGED <<infos, uncounted>>
  <2>1. ~Unfinished(new)
    BY <1>0, <1>6 DEF FilteredEvent, Unfinished, Versions
  <2> QED BY <1>1, <1>2, <1>6, <2>1
<1> QED BY <1>3, <1>4, <1>5, <1>6 DEF QuotaEvent, new

LEMMA QuotaKept ==
    ASSUME LifecycleInv, PlacedOnce, QuotaInv, [Next]_vars PROVE QuotaInv'
<1>1. CASE UNCHANGED <<seen, infos, scenario>> /\ uncounted \subseteq uncounted'
  BY <1>1 DEF QuotaInv, PodCounted, deployed
<1>2. ASSUME NEW p \in Pods, Deliver(p) PROVE QuotaInv'
  <2>0. DeliverStep(p) /\ scenario' = scenario
    BY <1>2 DEF Deliver
  <2>1. CASE deployed = "CapacityScheduling" /\ QuotaEvent(p)
    BY <2>0, <2>1, QuotaEventKept DEF QuotaInv, deployed
  <2>2. CASE deployed # "CapacityScheduling" /\ UNCHANGED infos
    BY <2>0, <2>2 DEF QuotaInv, deployed
  <2> QED BY <1>2, <2>1, <2>2 DEF Deliver, caches, quotaVars
<1>3. ASSUME NEW p \in Own, Reserve(p) PROVE QuotaInv'
  <2>1. UNCHANGED <<seen, uncounted, scenario>> /\ p \in Pods
    BY <1>3, LifecycleAssumption, ZenonT(30) DEF Reserve, ReserveStep, MoveTo
  <2>2. CASE deployed = "CapacityScheduling" /\ Tracked(infos, p)
    <3>1. InfosInv(infos') /\ Counted(infos') = Counted(infos) \cup {p}
      BY <1>3, <2>1, <2>2, CountPodCounts DEF Reserve, QuotaReserve, QuotaInv
    <3> QED BY <2>1, <3>1, ZenonT(30) DEF QuotaInv, PodCounted, deployed, Counted, Tracked, InfoOf
  <2>3. CASE infos' = infos
    BY <1>1, <2>1, <2>3
  <2> QED BY <1>3, <2>2, <2>3 DEF Reserve, QuotaReserve
<1>4. ASSUME NEW p \in Own, Unreserve(p) PROVE QuotaInv'
  <2>1. UNCHANGED <<seen, uncounted, scenario>> /\ p \in Pods /\ stage[p] = "failed"
    BY <1>4, LifecycleAssumption, ZenonT(30) DEF Unreserve, UnreserveStep, MoveTo
  <2>2. CASE deployed = "CapacityScheduling"
    <3>1. InfosInv(infos') /\ Counted(infos') = Counted(infos) \ {p}
      BY <1>4, <2>1, <2>2, UncountPodUncounts, ZenonT(30) DEF Unreserve, QuotaUnreserve, QuotaInv
    <3>2. p \notin uncounted => ~Unfinished(seen[p])
      <4>1. InOrder(p) /\ seen[p] \in Versions
        BY <2>1 DEF LifecycleInv, LifecycleTypes
      <4>2. p \notin uncounted => store[p].node = NoNode
        BY <2>1, <2>2, ZenonT(30) DEF PlacedOnce, MayPlace
      <4> QED BY <4>1, <4>2 DEF InOrder, Later, Unfinished, Versions
    <3> QED BY <2>1, <3>1, <3>2, ZenonT(30) DEF QuotaInv, PodCounted, deployed, Counted, Tracked, InfoOf
  <2>3. CASE deployed # "CapacityScheduling"
    BY <1>1, <1>4, <2>1, <2>3 DEF Unreserve
  <2> QED BY <2>2, <2>3
<1>5. CASE Restart
  <2>1. infos' = NoInfos /\ seen' = [p \in Pods |-> Unseen]
    BY <1>5 DEF Restart, RestartStep
  <2> QED BY <2>1 DEF QuotaInv, InfosInv, NoInfos, PodCounted, Unfinished, Unseen, Version
<1>6. ASSUME NEW p \in Pods, Cluster(p)
      PROVE  UNCHANGED <<seen, infos, scenario, uncounted>>
  BY <1>6 DEF Cluster, KubeletStep, DeleteStep, ForeignBind, caches, quotaVars
<1>7. ASSUME NEW p \in Own,
             (\E n \in Nodes : Filter(p, n)) \/ Binding(p) \/ BindAnswerLost(p) \/ PostBind(p)
      PROVE  UNCHANGED <<seen, infos, scenario>> /\ uncounted \subseteq uncounted'
  BY <1>7, ZenonT(30) DEF Filter, StartCycle, Binding, Bind, BindFails, BindAnswerLost, BindLost, PostBind, PostBindStep,
              MoveTo, caches, quotaVars
<1>8. ASSUME NEW n \in Nodes,
             AgentReports(n) \/ ConfChanges(n) \/ WatchStep(n) \/ \E p \in Own : CannotAlign(p, n)
      PROVE  UNCHANGED <<seen, infos, scenario, uncounted>>
  BY <1>8, ZenonT(30) DEF AgentReports, ConfChanges, WatchStep, CannotAlign, lifecycle, quotaVars
<1>9. CASE ResyncStep \/ Tick \/ Cleanup \/ (\E ns \in DOMAIN Quotas : ChangeQuota(ns)) \/ UNCHANGED vars
  BY <1>1, <1>9, ZenonT(30) DEF ResyncStep, Tick, Cleanup, ChangeQuota, vars, lifecycle, caches, quotaVars
<1> QED BY <1>1, <1>2, <1>3, <1>4, <1>5, <1>6, <1>7, <1>8, <1>9, ZenonT(30) DEF Next

\* CapacityScheduling counts every pod once, and every pod it had a quota for when
\* the pod came: what a quota has as used is the sum of what the pods it lists
\* request, and every assigned, unfinished pod the informer shows is listed, but
\* for one that came before its quota existed or while it could not be listed, and
\* one whose bind answer was lost.
THEOREM QuotaExact == Spec => []QuotaCountsPods
<1> DEFINE Inv == LifecycleInv /\ PlacedOnce /\ QuotaInv
<1>1. ASSUME Init PROVE Inv
  <2>1. LifecycleInv
    BY <1>1, LifecycleStart DEF Init
  <2>2. \A p \in Pods : seen[p] = Unseen /\ feed[p] = Listed(store[p]) /\ store[p] \in Versions
    BY <1>1, <2>1, ZenonT(30) DEF Init, LifecycleInit, LifecycleInv, LifecycleTypes
  <2>3. \A p \in Own : stage[p] = "queued" /\ p \in Pods
    BY <1>1, LifecycleAssumption, ZenonT(30) DEF Init, LifecycleInit
  <2>4. ASSUME NEW p \in Own, MayPlace(p) PROVE store[p].node = NoNode
    <3>1. PICK i \in 1 .. Len(Listed(store[p])) : Listed(store[p])[i].phase = "Unbound"
      BY <2>2, <2>3, <2>4 DEF MayPlace, ShownUnbound, Unseen, Version
    <3>2. store[p].phase = "Unbound"
      BY <2>2, <2>3, <3>1, ListedType
    <3> QED BY <2>2, <2>3, <3>2 DEF Versions
  <2>5. QuotaInv
    <3>1. infos = NoInfos
      BY <1>1, Zenon DEF Init
    <3>2. InfosInv(infos)
      BY <3>1 DEF InfosInv, NoInfos
    <3>3. \A p \in Pods : PodCounted(p)
      BY <2>2 DEF PodCounted, Unfinished, Unseen, Version
    <3> QED BY <3>2, <3>3 DEF QuotaInv
  <2> QED BY <2>1, <2>4, <2>5 DEF PlacedOnce
<1>2. Inv /\ [Next]_vars => Inv'
  BY LifecycleKept, PlacedOnceKept, QuotaKept
<1>3. Inv => QuotaCountsPods
  BY Zenon DEF QuotaInv, PodCounted, Counted, InfosInv, InfoInv, TotalOf,
         QuotaCountsPods, UsedIsWhatPodsRequest, BoundPodsCounted
<1> QED BY <1>1, <1>2, <1>3, PTL DEF Spec

-----------------------------------------------------------------------------
(* OverReserve: the objects it caches, and the pods it answers for.        *)

Reports == [pods : SUBSET Pods, free : [Zones -> Int], conf : {SingleNUMA, "restricted"},
            onlyExclusive : BOOLEAN]
Caches == [nrts : [Nodes -> SUBSET Reports], assumed : [Nodes -> SUBSET Own],
           maybe : SUBSET Nodes, foreign : SUBSET Nodes, attrs : SUBSET Nodes]

\* The version of a pod that a kubelet has started, if only to see it end.
Started(v) == v.phase \in {"Creating", "Running", "Succeeded", "Deleted"}

\* objects holds at most one NRT object of n, and that one is a report on pods
\* that had been started there when it was written.
ReportsOn(objects, n, pods) ==
    /\ objects \in SUBSET Reports
    /\ \A r, s \in objects : r = s
    /\ \A r \in objects :
          /\ r.free = [z \in Zones |-> ZoneSize - ZoneUse(r.pods, z)]
          /\ \A q \in r.pods : pods[q].node = n /\ Started(pods[q])

\* There is a later object only where there was an earlier one, and it still has
\* the pods of that one that are not over.
Newer(old, new, pods) ==
    /\ new # {} => old # {}
    /\ \A c \in old, r \in new : \A q \in c.pods : Unfinished(pods[q]) => q \in r.pods

ReportsInv ==
    /\ nrt \in [Nodes -> SUBSET Reports]
    /\ ov \in Caches
    /\ \A n \in Nodes :
          /\ ReportsOn(nrt[n], n, store)
          /\ ReportsOn(ov.nrts[n], n, store)
          /\ Newer(ov.nrts[n], nrt[n], store)
    /\ resync.at = "flush" => \A n \in Nodes \cap DOMAIN resync.updates :
          /\ ReportsOn(resync.updates[n], n, store)
          /\ Newer(ov.nrts[n], resync.updates[n], store)
          /\ Newer(resync.updates[n], nrt[n], store)

\* An own pod that is there or coming is in the cached object or assumed.
HeldInv ==
    deployed = "OverReserve" =>
        \A n \in Nodes \ dropped : \A c \in ov.nrts[n] :
            /\ Coming(n) \subseteq ov.assumed[n]
            /\ There(n) \cap Own \subseteq c.pods \cup ov.assumed[n]

\* What one step does to the pods: a started pod stays so, on its node, and is
\* not unfinished again; an own pod arrives only by its bind call, and only
\* Reserve makes one coming.
LEMMA PodsMove ==
    ASSUME LifecycleInv, [Next]_vars
    PROVE  /\ \A q \in Pods : Started(store[q]) =>
                 /\ Started(store'[q]) /\ store'[q].node = store[q].node
                 /\ Unfinished(store'[q]) => Unfinished(store[q])
           /\ \A n \in Nodes :
                 /\ There(n)' \cap Own \subseteq There(n) \cup Coming(n)
                 /\ \A q \in Coming(n)' :
                       q \in Coming(n) \/ (Reserve(q) /\ target[q] = n)
<1> USE DEF Started, Unfinished, There, Coming
<1>0. /\ store \in [Pods -> Versions] /\ stage \in [Own -> Stages]
      /\ target \in [Own -> Nodes \cup {NoNode}] /\ Own \subseteq Pods
  BY LifecycleAssumption DEF LifecycleInv, LifecycleTypes
<1>1. CASE UNCHANGED <<store, stage, target>>
  BY <1>1, ZenonT(30)
<1>2. ASSUME NEW p \in Pods, Cluster(p)
      PROVE  /\ \A q \in Pods : Started(store[q]) =>
                   /\ Started(store'[q]) /\ store'[q].node = store[q].node
                   /\ Unfinished(store'[q]) => Unfinished(store[q])
             /\ \A n \in Nodes :
                   /\ There(n)' \cap Own \subseteq There(n)
                   /\ Coming(n)' \subseteq Coming(n)
  <2>1. PICK v : /\ store' = [store EXCEPT ![p] = v] /\ UNCHANGED <<stage, target>>
                 /\ \/ v.node = store[p].node /\ v.phase = "Deleted"
                    \/ v.node = store[p].node /\ v.phase \in NextPhases(store[p].phase)
                    \/ p \notin Own /\ store[p].phase = "Unbound" /\ v.phase = "Assigned"
    <3>0. store[p] \in Versions
      BY <1>0
    <3>1. CASE KubeletStep(p)
      <4>1. PICK ph \in NextPhases(store[p].phase) : store' = [store EXCEPT ![p] = [store[p] EXCEPT !.phase = ph]]
        BY <3>1, Zenon DEF KubeletStep, Publish
      <4>2. /\ [store[p] EXCEPT !.phase = ph].node = store[p].node
            /\ [store[p] EXCEPT !.phase = ph].phase = ph
        BY <3>0 DEF Versions
      <4> QED BY <3>1, <4>1, <4>2, Zenon DEF KubeletStep
    <3>2. CASE DeleteStep(p)
      <4>2. /\ [store[p] EXCEPT !.phase = "Deleted"].node = store[p].node
            /\ [store[p] EXCEPT !.phase = "Deleted"].phase = "Deleted"
        BY <3>0 DEF Versions
      <4> QED BY <3>2, <4>2, ZenonT(30) DEF DeleteStep, Publish
    <3>3. ASSUME NEW n \in Nodes, ForeignBind(p, n)
          PROVE  /\ store' = [store EXCEPT ![p] = Version("Assigned", n)]
                 /\ UNCHANGED <<stage, target>>
                 /\ p \notin Own /\ store[p].phase = "Unbound" /\ Version("Assigned", n).phase = "Assigned"
      BY <3>3 DEF ForeignBind, Publish, Version
    <3> QED BY <1>2, <3>1, <3>2, <3>3, ZenonT(30) DEF Cluster
  <2>2. \A q \in Pods : q # p => store'[q] = store[q]
    BY <1>0, <2>1
  <2>3. store'[p] = v /\ store[p].phase \in Phases
    BY <1>0, <2>1 DEF Versions
  <2>4. /\ Started(store[p]) => /\ Started(v) /\ v.node = store[p].node
                                /\ Unfinished(v) => Unfinished(store[p])
        /\ p \in Own /\ Unfinished(v) => Unfinished(store[p]) /\ v.node = store[p].node
        /\ v.phase # "Unbound"
    BY <2>1, <2>3 DEF NextPhases, Phases
  <2>5. \A q \in Pods : Started(store[q]) =>
                   /\ Started(store'[q]) /\ store'[q].node = store[q].node
                   /\ Unfinished(store'[q]) => Unfinished(store[q])
    BY <2>2, <2>3, <2>4
  <2>6. \A n \in Nodes : There(n)' \cap Own \subseteq There(n)
    BY <2>2, <2>3, <2>4
  <2>7. \A n \in Nodes : Coming(n)' \subseteq Coming(n)
    BY <1>0, <2>1, <2>2, <2>3, <2>4, ZenonT(30)
  <2> QED BY <2>5, <2>6, <2>7, ZenonT(30)
<1>3. ASSUME NEW p \in Own, NEW n \in Nodes, Filter(p, n)
      PROVE  UNCHANGED store /\ \A m \in Nodes : Coming(m)' \subseteq Coming(m)
  BY <1>0, <1>3, ZenonT(30) DEF Filter, StartCycle
<1>4. ASSUME NEW p \in Own, Reserve(p)
      PROVE  /\ UNCHANGED store
             /\ \A n \in Nodes : \A q \in Coming(n)' :
                   q \in Coming(n) \/ (Reserve(q) /\ target[q] = n)
  <2>1. /\ UNCHANGED <<store, target>> /\ stage' = [stage EXCEPT ![p] = "binding"]
    BY <1>4, ZenonT(30) DEF Reserve, ReserveStep, MoveTo
  <2>2. \A q \in Own : q # p => stage'[q] = stage[q]
    BY <1>0, <2>1
  <2> QED BY <1>4, <2>1, <2>2, ZenonT(30)
<1>5. ASSUME NEW p \in Own, Bind(p) \/ BindLost(p)
      PROVE  /\ \A q \in Pods : Started(store[q]) => store'[q] = store[q]
             /\ \A n \in Nodes : /\ There(n)' \cap Own \subseteq There(n) \cup Coming(n)
                                 /\ Coming(n)' \subseteq Coming(n)
  <2>1. /\ store' = [store EXCEPT ![p] = Version("Assigned", target[p])] /\ UNCHANGED target
        /\ \E st \in {"bound", "failed"} : stage' = [stage EXCEPT ![p] = st]
        /\ store[p].phase = "Unbound" /\ stage[p] = "binding"
    BY <1>5, ZenonT(30) DEF Bind, BindLost, MoveTo, Publish
  <2>2. \A q \in Pods : q # p => store'[q] = store[q]
    BY <1>0, <2>1
  <2>3. \A q \in Own : q # p => stage'[q] = stage[q]
    BY <1>0, <2>1
  <2>4. store'[p].node = target[p] /\ stage'[p] # "binding"
    BY <1>0, <2>1 DEF Version
  <2> QED BY <1>0, <2>1, <2>2, <2>3, <2>4, ZenonT(30)
<1>6. ASSUME NEW p \in Own, BindFails(p) \/ PostBind(p) \/ Unreserve(p)
      PROVE  UNCHANGED store /\ \A n \in Nodes : Coming(n)' \subseteq Coming(n)
  <2>1. /\ UNCHANGED store
        /\ \E st \in {"failed", "done", "queued"} : stage' = [stage EXCEPT ![p] = st]
        /\ target' \in {target, [target EXCEPT ![p] = NoNode]}
    BY <1>6 DEF BindFails, PostBind, Unreserve, PostBindStep, UnreserveStep, MoveTo
  <2>2. \A q \in Own : q # p => stage'[q] = stage[q] /\ target'[q] = target[q]
    BY <1>0, <2>1
  <2>3. stage'[p] # "binding"
    BY <1>0, <2>1
  <2> QED BY <2>1, <2>2, <2>3, ZenonT(30)
<1>7. CASE Restart
  BY <1>7, ZenonT(30) DEF Restart, RestartStep
<1>8. ASSUME NEW p \in Pods, Deliver(p) PROVE UNCHANGED <<store, stage, target>>
  BY <1>8 DEF Deliver, DeliverStep
<1>9. ASSUME NEW p \in Own, NEW n \in Nodes, CannotAlign(p, n) PROVE UNCHANGED <<store, stage, target>>
  BY <1>9, ZenonT(30) DEF CannotAlign, lifecycle
<1>10. ASSUME NEW n \in Nodes, AgentReports(n) \/ ConfChanges(n) \/ WatchStep(n)
       PROVE  UNCHANGED <<store, stage, target>>
  BY <1>10, ZenonT(30) DEF AgentReports, ConfChanges, WatchStep, lifecycle
<1>11. ASSUME ResyncStep \/ Tick \/ Cleanup \/ (\E ns \in DOMAIN Quotas : ChangeQuota(ns)) \/ UNCHANGED vars
       PROVE  UNCHANGED <<store, stage, target>>
  BY <1>11, ZenonT(30) DEF ResyncStep, Tick, Cleanup, ChangeQuota, vars, lifecycle
<1>12. CASE \E p \in Pods : Cluster(p)
  BY <1>2, <1>12, ZenonT(30)
<1>13. CASE \E p \in Own : (\E n \in Nodes : Filter(p, n)) \/ Reserve(p) \/ BindFails(p) \/ PostBind(p) \/ Unreserve(p)
  BY <1>3, <1>4, <1>6, <1>13, ZenonT(30)
<1>14. CASE \E p \in Own : Bind(p) \/ BindLost(p)
  BY <1>5, <1>14, ZenonT(30)
<1> QED BY <1>1, <1>7, <1>8, <1>9, <1>10, <1>11, <1>12, <1>13, <1>14, ZenonT(30) DEF Next, Binding, BindAnswerLost

\* An object stays a report, and later than another, while pods move on.
LEMMA ReportsStay ==
    ASSUME LifecycleInv, [Next]_vars, NEW n \in Nodes
    PROVE  /\ \A objects : ReportsOn(objects, n, store) => ReportsOn(objects, n, store')
           /\ \A old, new : ReportsOn(old, n, store) /\ Newer(old, new, store)
                              => Newer(old, new, store')
<1>1. \A q \in Pods : Started(store[q]) =>
         /\ Started(store'[q]) /\ store'[q].node = store[q].node
         /\ Unfinished(store'[q]) => Unfinished(store[q])
  BY PodsMove
<1>2. ASSUME NEW objects, ReportsOn(objects, n, store) PROVE ReportsOn(objects, n, store')
  <2>1. \A r \in objects : \A q \in r.pods : q \in Pods
    BY <1>2 DEF ReportsOn, Reports
  <2> QED BY <1>1, <1>2, <2>1, ZenonT(30) DEF ReportsOn
<1>3. ASSUME NEW old, NEW new, ReportsOn(old, n, store), Newer(old, new, store)
      PROVE  Newer(old, new, store')
  <2>1. \A r \in old : \A q \in r.pods : q \in Pods
    BY <1>3, ZenonT(30) DEF ReportsOn, Reports
  <2> QED BY <1>1, <1>3, <2>1, ZenonT(30) DEF ReportsOn, Newer
<1> QED BY <1>2, <1>3

ZoneRequests == [p \in Pods |-> PodZoneRequest[p]]

LEMMA ZoneUseIsSum ==
    ASSUME NEW S \in SUBSET Pods, NEW z
    PROVE  ZoneUse(S, z) = SumOver(ZoneRequests, {p \in S : ZoneOf[p] = z})
<1> DEFINE m == ZoneRequests
<1>0. PICK T : T = {p \in S : ZoneOf[p] = z}
  BY Zenon
<1> DEFINE rhs(h) == [s \in SUBSET T |->
                   IF s = {} THEN 0
                   ELSE PodZoneRequest[CHOOSE x \in s : TRUE]
                          + h[s \ {CHOOSE x \in s : TRUE}]]
           g == CHOOSE h : h = rhs(h)
<1>1. ZoneUse(S, z) = g[T]
  BY <1>0 DEF ZoneUse, MapThenSumSet, MapThenFoldSet
<1>2. ASSUME NEW h
      PROVE  IsSum(m, h, T) <=> h = rhs(h)
  <2>1. ASSUME NEW s \in SUBSET T
        PROVE  SumStep(m, h, s) =
                  IF s = {} THEN 0
                  ELSE PodZoneRequest[CHOOSE x \in s : TRUE]
                         + h[s \ {CHOOSE x \in s : TRUE}]
    BY <1>0, AnyIn DEF SumStep, AnyOf, ZoneRequests
  <2> HIDE DEF m
  <2> QED BY <2>1, ZenonT(30) DEF IsSum
<1>3. IsFiniteSet(T)
  BY <1>0, RequestsAssumption, FS_Subset
<1>4. \E h : IsSum(m, h, T)
  BY <1>3, SumExists
<1> HIDE DEF m, rhs
<1>5. \E h : h = rhs(h)
  BY <1>2, <1>4
<1>6. g = rhs(g)
  BY <1>5, Zenon
<1>7. IsSum(m, g, T)
  BY <1>2, <1>6, ZenonT(30)
<1>8. ZoneUse(S, z) = SumOver(ZoneRequests, T)
  BY <1>1, <1>3, <1>7, SumOverIs DEF m
<1> QED BY <1>0, <1>8

LEMMA ZoneUseInt ==
    ASSUME NEW S \in SUBSET Pods, NEW z PROVE ZoneUse(S, z) \in Int
<1>1. PICK T : T = {p \in S : ZoneOf[p] = z}
  BY Zenon
<1>2. IsFiniteSet(T) /\ \A p \in T : ZoneRequests[p] \in Int
  BY <1>1, RequestsAssumption, FS_Subset DEF ZoneRequests
<1>3. SumOver(ZoneRequests, T) \in Int
  BY <1>2, SumOverInt
<1> QED BY <1>1, <1>3, ZoneUseIsSum

\* What the node's agent writes is a report on its pods.
LEMMA AgentsReport ==
    ASSUME LifecycleInv, NEW n \in Nodes, NEW conf \in {SingleNUMA, "restricted"}
    PROVE  /\ ReportsOn(Report(OnNode(n), conf), n, store)
           /\ \A old : old # {} /\ ReportsOn(old, n, store) => Newer(old, Report(OnNode(n), conf), store)
<1>0. store \in [Pods -> Versions]
  BY DEF LifecycleInv, LifecycleTypes
<1>1. PICK pods : pods = OnNode(n)
  OBVIOUS
<1>2. /\ pods \in SUBSET Pods
      /\ \A q \in pods : store[q].node = n /\ Started(store[q])
      /\ \A q \in Pods : store[q].node = n /\ Started(store[q]) /\ Unfinished(store[q]) => q \in pods
  BY <1>1 DEF OnNode, Started, Unfinished
<1>3. PICK free : free = [z \in Zones |-> ZoneSize - ZoneUse(pods, z)]
  BY ZenonT(30)
<1>4. free \in [Zones -> Int]
  BY <1>2, <1>3, ZoneUseInt, RequestsAssumption
<1>5. PICK r : r = [pods |-> pods, free |-> free, conf |-> conf, onlyExclusive |-> FALSE]
  BY ZenonT(30)
<1>6. r \in Reports /\ r.pods = pods /\ r.free = free
  BY <1>2, <1>4, <1>5 DEF Reports
<1>7. Report(OnNode(n), conf) = {r}
  BY <1>1, <1>3, <1>5 DEF Report
<1>8. ReportsOn({r}, n, store)
  BY <1>2, <1>3, <1>6, ZenonT(30) DEF ReportsOn
<1>9. ASSUME NEW old, old # {}, ReportsOn(old, n, store) PROVE Newer(old, {r}, store)
  <2>1. \A c \in old : \A q \in c.pods : q \in Pods /\ store[q].node = n /\ Started(store[q])
    BY <1>9, Zenon DEF ReportsOn, Reports
  <2> QED BY <1>2, <1>6, <1>9, <2>1, ZenonT(30) DEF Newer
<1> QED BY <1>7, <1>8, <1>9

\* What the calls do to the cached objects and the assumed pods.
LEMMA CacheCalls ==
    ASSUME NEW c \in Caches, NEW n \in Nodes, NEW p \in Own
    PROVE  /\ \A d \in {NodeMaybeOverReserved(c, n), NodeHasForeignPods(c, n)} :
                 d \in Caches /\ d.nrts = c.nrts /\ d.assumed = c.assumed
           /\ \A new : LET d == ProcessEvent(c, n, new) IN
                 d \in Caches /\ d.nrts = c.nrts /\ d.assumed = c.assumed
           /\ LET d == ReserveNodeResources(c, n, p) IN
                 /\ d \in Caches /\ d.nrts = c.nrts
                 /\ d.assumed = [c.assumed EXCEPT ![n] = @ \cup {p}]
           /\ LET d == UnreserveNodeResources(c, n, p) IN
                 /\ d \in Caches /\ d.nrts = c.nrts
                 /\ d.assumed = [c.assumed EXCEPT ![n] = @ \ {p}]
<1> USE DEF Caches
<1>1. \A d \in {NodeMaybeOverReserved(c, n), NodeHasForeignPods(c, n)} :
         d \in Caches /\ d.nrts = c.nrts /\ d.assumed = c.assumed
  BY DEF NodeMaybeOverReserved, NodeHasForeignPods
<1>2. \A new : LET d == ProcessEvent(c, n, new) IN
         d \in Caches /\ d.nrts = c.nrts /\ d.assumed = c.assumed
  BY DEF ProcessEvent
<1>3. LET d == ReserveNodeResources(c, n, p) IN
         /\ d \in Caches /\ d.nrts = c.nrts
         /\ d.assumed = [c.assumed EXCEPT ![n] = @ \cup {p}]
  <2>1. PICK a : a = [c.assumed EXCEPT ![n] = @ \cup {p}]
    BY ZenonT(30)
  <2>2. a \in [Nodes -> SUBSET Own]
    BY <2>1
  <2>3. ReserveNodeResources(c, n, p) = [c EXCEPT !.assumed = a, !.maybe = @ \ {n}]
    BY <2>1 DEF ReserveNodeResources
  <2> QED BY <2>1, <2>2, <2>3, Zenon
<1>4. LET d == UnreserveNodeResources(c, n, p) IN
         /\ d \in Caches /\ d.nrts = c.nrts
         /\ d.assumed = [c.assumed EXCEPT ![n] = @ \ {p}]
  <2>1. PICK a : a = [c.assumed EXCEPT ![n] = @ \ {p}]
    BY ZenonT(30)
  <2>2. a \in [Nodes -> SUBSET Own]
    BY <2>1
  <2>3. UnreserveNodeResources(c, n, p) = [c EXCEPT !.assumed = a]
    BY <2>1 DEF UnreserveNodeResources
  <2> QED BY <2>1, <2>2, <2>3
<1> QED BY <1>1, <1>2, <1>3, <1>4, ZenonT(30)

\* The steps that touch neither an NRT object nor a cached one nor the resync
\* loop, and what they do to the assumed pods and to dropped.
Calls(p) == Reserve(p) \/ Unreserve(p)
LEMMA QuietSteps ==
    ASSUME LifecycleInv, ReportsInv, [Next]_vars
    PROVE  \/ /\ UNCHANGED <<nrt, resync, dropped>> /\ ov' \in Caches
              /\ ov'.nrts = ov.nrts /\ ov'.assumed = ov.assumed
              /\ ~(deployed = "OverReserve" /\ \E p \in Own : Calls(p))
           \/ \E p \in Own : /\ Calls(p) /\ deployed = "OverReserve"
                             /\ UNCHANGED <<nrt, resync>> /\ ov' \in Caches /\ ov'.nrts = ov.nrts
           \/ \E n \in Nodes : AgentReports(n) \/ ConfChanges(n)
           \/ ResyncStep \/ Restart
<1> DEFINE Quiet == /\ UNCHANGED <<nrt, resync, dropped>> /\ ov' \in Caches
                    /\ ov'.nrts = ov.nrts /\ ov'.assumed = ov.assumed
           Called == \E p \in Own : /\ Calls(p) /\ deployed = "OverReserve"
                             /\ UNCHANGED <<nrt, resync>> /\ ov' \in Caches /\ ov'.nrts = ov.nrts
<1>0. ov \in Caches
  BY ZenonT(30) DEF ReportsInv
<1>1. ASSUME UNCHANGED nrtVars PROVE Quiet
  BY <1>0, <1>1 DEF nrtVars
<1>2. ASSUME NEW p \in Pods, Deliver(p) PROVE Quiet
  <2>1. CASE UNCHANGED nrtVars
    BY <1>1, <2>1
  <2>2. CASE ForeignPodsEvent(p)
    <3>1. UNCHANGED <<nrt, resync, dropped>>
      BY <2>2 DEF ForeignPodsEvent
    <3>2. feed[p] \in Seq(Versions) /\ feed[p] # << >>
      BY <1>2 DEF Deliver, DeliverStep, LifecycleInv, LifecycleTypes
    <3>3. Head(feed[p]) \in Versions
      BY <3>2
    <3>4. PICK v \in Versions : v = Head(feed[p])
      BY <3>3
    <3>5. CASE v.node # NoNode
      <4>1. v.node \in Nodes
        BY <3>5 DEF Versions
      <4>2. ov' \in {ov, NodeHasForeignPods(ov, v.node)}
        BY <2>2, <3>4, ZenonT(30) DEF ForeignPodsEvent
      <4>3. LET d == NodeHasForeignPods(ov, v.node) IN
              d \in Caches /\ d.nrts = ov.nrts /\ d.assumed = ov.assumed
        BY <1>0, <4>1 DEF NodeHasForeignPods, Caches
      <4> QED BY <1>0, <3>1, <4>2, <4>3
    <3>6. CASE v.node = NoNode
      <4>1. ov' = ov
        BY <2>2, <3>4, <3>6 DEF ForeignPodsEvent, IsForeignPod
      <4> QED BY <1>0, <3>1, <4>1
    <3> QED BY <3>5, <3>6, ZenonT(30)
  <2> QED BY <1>2, <2>1, <2>2, ZenonT(30) DEF Deliver, caches, nrtVars
<1>3. ASSUME NEW p \in Own, NEW n \in Nodes, CannotAlign(p, n) PROVE Quiet
  <2>1. UNCHANGED <<nrt, resync, dropped>> /\ ov' = NodeMaybeOverReserved(ov, n)
    BY <1>3, ZenonT(30) DEF CannotAlign
  <2> QED BY <1>0, <2>1, CacheCalls, ZenonT(30)
<1>4. ASSUME NEW n \in Nodes, WatchStep(n) PROVE Quiet
  <2>1. UNCHANGED <<nrt, resync, dropped>> /\ ov' = ProcessEvent(ov, n, CHOOSE r \in nrt[n] : TRUE)
    BY <1>4 DEF WatchStep
  <2>2. LET d == ProcessEvent(ov, n, CHOOSE r \in nrt[n] : TRUE) IN
          d \in Caches /\ d.nrts = ov.nrts /\ d.assumed = ov.assumed
    BY <1>0 DEF ProcessEvent, Caches
  <2> QED BY <1>0, <2>1, <2>2
<1>5. ASSUME NEW p \in Own, Calls(p)
      PROVE  deployed = "OverReserve" => Called
  <2> HAVE deployed = "OverReserve"
  <2>1. target[p] \in Nodes /\ UNCHANGED <<nrt, resync>>
        /\ ov' \in {ReserveNodeResources(ov, target[p], p), UnreserveNodeResources(ov, target[p], p)}
    BY <1>5 DEF Calls, Reserve, Unreserve, ReserveStep, UnreserveStep, MoveTo, LifecycleInv, LifecycleTypes
  <2>2. PICK m \in Nodes : m = target[p]
    BY <2>1
  <2>3. PICK o \in Caches : o = ov
    BY <1>0
  <2>4. /\ ReserveNodeResources(o, m, p) \in Caches /\ ReserveNodeResources(o, m, p).nrts = o.nrts
        /\ UnreserveNodeResources(o, m, p) \in Caches /\ UnreserveNodeResources(o, m, p).nrts = o.nrts
    BY CacheCalls, ZenonT(30)
  <2>5. ov' \in Caches /\ ov'.nrts = ov.nrts
    BY <2>1, <2>2, <2>3, <2>4
  <2> QED BY <1>5, <2>1, <2>5
<1>6. ASSUME NEW p \in Own, Calls(p), deployed # "OverReserve" PROVE Quiet
  BY <1>0, <1>6 DEF Calls, Reserve, Unreserve
<1>7. ASSUME NEW p \in Own, (\E n \in Nodes : Filter(p, n)) \/ Binding(p) \/ BindAnswerLost(p) \/ PostBind(p)
      PROVE  UNCHANGED nrtVars
  BY <1>7, ZenonT(30) DEF Filter, Binding, BindAnswerLost, PostBind, caches, nrtVars
<1>8. ASSUME \/ \E p \in Pods : Cluster(p)
             \/ Tick \/ Cleanup \/ (\E ns \in DOMAIN Quotas : ChangeQuota(ns)) \/ UNCHANGED vars
      PROVE  UNCHANGED nrtVars
  BY <1>8, ZenonT(30) DEF Cluster, Tick, Cleanup, ChangeQuota, vars, caches, nrtVars
<1>9. Quiet \/ (\E p \in Own : Calls(p)) \/ (\E n \in Nodes : AgentReports(n) \/ ConfChanges(n))
        \/ ResyncStep \/ Restart
  <2>1. UNCHANGED nrtVars => Quiet
    BY <1>1
  <2> HIDE DEF Quiet
  <2> QED BY <1>2, <1>3, <1>4, <1>7, <1>8, <2>1, ZenonT(30) DEF Next, Calls
<1> HIDE DEF Quiet, Called
<1>10. (Quiet /\ ~(deployed = "OverReserve" /\ \E p \in Own : Calls(p)))
       \/ Called \/ (\E n \in Nodes : AgentReports(n) \/ ConfChanges(n)) \/ ResyncStep \/ Restart
  BY <1>5, <1>6, <1>9
<1> QED BY <1>10, ZenonT(30) DEF Quiet, Called

\* With the objects as they were, or replaced by later ones, the reports of
\* every node stay reports in the order they were written.
LEMMA ReportsKept ==
    ASSUME LifecycleInv, ReportsInv, [Next]_vars
    PROVE  ReportsInv'
<1>0. /\ nrt \in [Nodes -> SUBSET Reports] /\ ov \in Caches
      /\ ov.nrts \in [Nodes -> SUBSET Reports]
  BY ZenonT(30) DEF ReportsInv, Caches
<1>1. CASE UNCHANGED <<nrt, resync>> /\ ov' \in Caches /\ ov'.nrts = ov.nrts
  BY <1>1, ReportsStay, ZenonT(30) DEF ReportsInv
<1>2. ASSUME NEW n \in Nodes, AgentReports(n) PROVE ReportsInv'
  <2>1. PICK r \in nrt[n] : nrt' = [nrt EXCEPT ![n] = Report(OnNode(n), r.conf)]
    BY <1>2, Zenon DEF AgentReports
  <2>2. UNCHANGED <<ov, resync, store>>
    BY <1>2 DEF AgentReports, lifecycle
  <2>3. r.conf \in {SingleNUMA, "restricted"}
    BY <1>0, <2>1 DEF Reports
  <2>4. PICK new : new = Report(OnNode(n), r.conf)
    OBVIOUS
  <2>5. /\ ReportsOn(new, n, store)
        /\ \A old : ReportsOn(old, n, store) /\ Newer(old, nrt[n], store) => Newer(old, new, store)
    <3>1. /\ ReportsOn(new, n, store)
          /\ \A old : old # {} /\ ReportsOn(old, n, store) => Newer(old, new, store)
      BY <2>3, <2>4, AgentsReport, ZenonT(30)
    <3> QED BY <2>1, <3>1, ZenonT(30) DEF Newer
  <2>6. nrt'[n] = new /\ \A m \in Nodes : m # n => nrt'[m] = nrt[m]
    BY <1>0, <2>1, <2>4
  <2>7. nrt' \in [Nodes -> SUBSET Reports]
    BY <1>0, <2>1, <2>4, <2>5, ZenonT(30) DEF ReportsOn
  <2> QED BY <2>2, <2>5, <2>6, <2>7, ZenonT(30) DEF ReportsInv
<1>3. ASSUME NEW n \in Nodes, ConfChanges(n) PROVE ReportsInv'
  <2>1. PICK new : new = {[r EXCEPT !.conf = "restricted"] : r \in nrt[n]}
    BY ZenonT(30)
  <2>2. nrt' = [nrt EXCEPT ![n] = new]
    BY <1>0, <1>3, <2>1, Zenon DEF ConfChanges
  <2>3. UNCHANGED <<ov, resync, store>>
    BY <1>3, Zenon DEF ConfChanges, lifecycle
  <2>4. \A r \in nrt[n] : LET s == [r EXCEPT !.conf = "restricted"] IN
           s \in Reports /\ s.pods = r.pods /\ s.free = r.free
    BY <1>0 DEF Reports
  <2>5. ReportsOn(nrt[n], n, store)
    BY Zenon DEF ReportsInv
  <2>6. new \in SUBSET Reports
    BY <2>1, <2>4
  <2>7. \A s \in new : \E r \in nrt[n] : s = [r EXCEPT !.conf = "restricted"]
                                         /\ s.pods = r.pods /\ s.free = r.free
    BY <2>1, <2>4, ZenonT(30)
  <2>8. ReportsOn(new, n, store)
    BY <2>5, <2>6, <2>7 DEF ReportsOn
  <2>9. \A old : Newer(old, nrt[n], store) => Newer(old, new, store)
    BY <2>1, <2>7 DEF Newer
  <2>10. nrt'[n] = new /\ \A m \in Nodes : m # n => nrt'[m] = nrt[m]
    BY <1>0, <2>2
  <2>11. nrt' \in [Nodes -> SUBSET Reports]
    BY <1>0, <2>2, <2>6
  <2> QED BY <2>3, <2>8, <2>9, <2>10, <2>11, ZenonT(30) DEF ReportsInv
<1>4. CASE ResyncStep
  <2>1. UNCHANGED <<nrt, store>>
    BY <1>4, ZenonT(30) DEF ResyncStep, lifecycle
  <2>2. CASE UNCHANGED ov /\ resync'.at \in {"list", "get"}
    BY <2>1, <2>2, ZenonT(30) DEF ReportsInv
  <2>3. CASE /\ UNCHANGED ov
             /\ resync' = [at |-> "flush", updates |-> nrtUpdates(resync.desynced, resync.listed, nrt)]
    <3>1. \A n \in DOMAIN resync'.updates : resync'.updates[n] = nrt[n]
      BY <2>3, ZenonT(30) DEF nrtUpdates
    <3>2. \A n \in Nodes : Newer(nrt[n], nrt[n], store)
      BY DEF ReportsInv, ReportsOn, Newer
    <3> QED BY <2>1, <2>3, <3>1, <3>2, ZenonT(30) DEF ReportsInv
  <2>4. CASE resync.at = "flush" /\ ov' = FlushNodes(ov, resync.updates) /\ resync' = Idle
    <3>1. PICK up : up = resync.updates
      OBVIOUS
    <3>2. \A n \in Nodes \cap DOMAIN up : ReportsOn(up[n], n, store) /\ Newer(up[n], nrt[n], store)
      BY <2>4, <3>1, ZenonT(30) DEF ReportsInv
    <3>3. /\ ov'.nrts = [n \in Nodes |-> IF n \in DOMAIN up THEN up[n] ELSE ov.nrts[n]]
          /\ ov'.assumed = [n \in Nodes |-> IF n \in DOMAIN up THEN {} ELSE ov.assumed[n]]
      BY <1>0, <2>4, <3>1, ZenonT(30) DEF FlushNodes
    <3>4. ov'.nrts \in [Nodes -> SUBSET Reports]
      BY <1>0, <3>2, <3>3 DEF ReportsOn
    <3>5. ov'.assumed \in [Nodes -> SUBSET Own]
      BY <1>0, <3>3 DEF Caches
    <3>6. ov' \in Caches
      BY <1>0, <2>4, <3>4, <3>5, ZenonT(30) DEF FlushNodes, Caches
    <3>7. resync'.at # "flush"
      BY <2>4 DEF Idle
    <3>8. \A n \in Nodes : ReportsOn(ov'.nrts[n], n, store) /\ Newer(ov'.nrts[n], nrt[n], store)
      BY <3>2, <3>3, ZenonT(30) DEF ReportsInv
    <3> QED BY <2>1, <3>6, <3>7, <3>8, Zenon DEF ReportsInv
  <2> QED BY <1>4, <2>2, <2>3, <2>4 DEF ResyncStep
<1>5. CASE Restart
  <2>1. UNCHANGED <<nrt, store>> /\ ov' = NewOverReserve(nrt) /\ resync' = Idle
    BY <1>5 DEF Restart, RestartStep
  <2>2. ov' \in Caches /\ ov'.nrts = nrt
    BY <1>0, <2>1, ZenonT(30) DEF NewOverReserve, Caches
  <2>3. resync'.at # "flush"
    BY <2>1 DEF Idle
  <2>4. \A n \in Nodes : Newer(nrt[n], nrt[n], store)
    BY DEF ReportsInv, ReportsOn, Newer
  <2> QED BY <2>1, <2>2, <2>3, <2>4, ZenonT(30) DEF ReportsInv
<1> QED BY <1>1, <1>2, <1>3, <1>4, <1>5, QuietSteps, ZenonT(30)

\* No step leaves an own pod that is there or coming out of account, except
\* those that enter its node in dropped.
LEMMA HeldKept ==
    ASSUME LifecycleInv, ReportsInv, HeldInv, [Next]_vars
    PROVE  HeldInv'
<1>0. /\ ov \in Caches /\ ov.nrts \in [Nodes -> SUBSET Reports]
      /\ ov.assumed \in [Nodes -> SUBSET Own] /\ Own \subseteq Pods
      /\ target \in [Own -> Nodes \cup {NoNode}]
  BY LifecycleAssumption, ZenonT(30) DEF ReportsInv, Caches, LifecycleInv, LifecycleTypes
<1>1. UNCHANGED scenario
  BY ZenonT(30) DEF Next, Cluster, Deliver, Filter, CannotAlign, Reserve, Binding, BindAnswerLost, PostBind,
         Unreserve, Restart, AgentReports, ConfChanges, WatchStep, ResyncStep, Tick, Cleanup,
         ChangeQuota, vars
<1> SUFFICES ASSUME deployed = "OverReserve", NEW n \in Nodes, n \notin dropped', NEW c \in ov'.nrts[n]
             PROVE  /\ Coming(n)' \subseteq ov'.assumed[n]
                    /\ There(n)' \cap Own \subseteq c.pods \cup ov'.assumed[n]
  BY <1>1, ZenonT(30) DEF HeldInv, deployed
<1>2. /\ There(n)' \cap Own \subseteq There(n) \cup Coming(n)
      /\ \A q \in Coming(n)' : q \in Coming(n) \/ (Reserve(q) /\ target[q] = n)
  BY PodsMove, ZenonT(30)
<1>3. Coming(n)' \subseteq Own /\ Coming(n) \subseteq Own
  BY DEF Coming
<1>4. ASSUME n \notin dropped, NEW d \in ov.nrts[n]
      PROVE  /\ Coming(n) \subseteq ov.assumed[n]
             /\ There(n) \cap Own \subseteq d.pods \cup ov.assumed[n]
  BY <1>4 DEF HeldInv
<1>5. CASE /\ UNCHANGED dropped /\ ov'.nrts = ov.nrts /\ ov'.assumed = ov.assumed
           /\ ~ \E p \in Own : Calls(p)
  <2>1. \A q \in Coming(n)' : q \in Coming(n)
    BY <1>2, <1>3, <1>5, ZenonT(30) DEF Calls
  <2> QED BY <1>2, <1>4, <1>5, <2>1, ZenonT(30)
<1>6. ASSUME NEW p \in Own, Reserve(p), ov'.nrts = ov.nrts
      PROVE  /\ Coming(n)' \subseteq ov'.assumed[n]
             /\ There(n)' \cap Own \subseteq c.pods \cup ov'.assumed[n]
  <2>1. PICK m \in Nodes : m = target[p]
    BY <1>6, ZenonT(30) DEF Reserve, ReserveStep, MoveTo, LifecycleInv, LifecycleTypes
  <2>2. UNCHANGED dropped /\ ov' = ReserveNodeResources(ov, m, p)
    BY <1>6, <2>1, ZenonT(30) DEF Reserve
  <2>5. ov'.assumed = [ov.assumed EXCEPT ![m] = @ \cup {p}]
    BY <1>0, <2>2 DEF ReserveNodeResources, Caches
  <2>6. ov.assumed[n] \subseteq ov'.assumed[n] /\ (m = n => p \in ov'.assumed[n])
    BY <1>0, <2>5, ZenonT(30)
  <2>7. \A q \in Own : Reserve(q) => q = p
    <3>1. /\ stage \in [Own -> Stages] /\ stage' = [stage EXCEPT ![p] = "binding"]
      BY <1>6, Zenon DEF Reserve, ReserveStep, MoveTo, LifecycleInv, LifecycleTypes
    <3>2. \A q \in Own : Reserve(q) => stage[q] = "cycle" /\ stage' = [stage EXCEPT ![q] = "binding"]
      BY ZenonT(30) DEF Reserve, ReserveStep, MoveTo
    <3> QED BY <3>1, <3>2, ZenonT(30)
  <2>8. \A q \in Coming(n)' : q \in Coming(n) \/ (q = p /\ m = n)
    BY <1>2, <1>3, <2>1, <2>7, ZenonT(30)
  <2> QED BY <1>2, <1>4, <1>6, <2>2, <2>6, <2>8, ZenonT(30)
<1>7. ASSUME NEW p \in Own, Unreserve(p), ov'.nrts = ov.nrts
      PROVE  /\ Coming(n)' \subseteq ov'.assumed[n]
             /\ There(n)' \cap Own \subseteq c.pods \cup ov'.assumed[n]
  <2>1. PICK m \in Nodes : m = target[p]
    BY <1>7, ZenonT(30) DEF Unreserve, UnreserveStep, MoveTo, LifecycleInv, LifecycleTypes
  <2>2. /\ ov' = UnreserveNodeResources(ov, m, p) /\ dropped' = dropped \cup DroppedByUnreserve(p)
        /\ UNCHANGED store /\ stage' = [stage EXCEPT ![p] = "queued"]
    BY <1>7, <2>1, ZenonT(30) DEF Unreserve, UnreserveStep, MoveTo
  <2>5. ov'.assumed = [ov.assumed EXCEPT ![m] = @ \ {p}]
    BY <1>0, <2>2 DEF UnreserveNodeResources, Caches
  <2>6. /\ \A q \in ov.assumed[n] : q # p => q \in ov'.assumed[n]
        /\ m # n => ov'.assumed[n] = ov.assumed[n]
    BY <1>0, <2>5, ZenonT(30)
  <2>7. stage'[p] = "queued" /\ \A q \in Own : Reserve(q) => q = p
    <3>1. /\ stage \in [Own -> Stages] /\ stage[p] = "failed"
      BY <1>7, ZenonT(30) DEF Unreserve, UnreserveStep, MoveTo, LifecycleInv, LifecycleTypes
    <3>2. \A q \in Own : Reserve(q) => stage[q] = "cycle" /\ stage' = [stage EXCEPT ![q] = "binding"]
      BY ZenonT(30) DEF Reserve, ReserveStep, MoveTo
    <3> QED BY <2>2, <3>1, <3>2, ZenonT(30)
  <2>8. p \notin Coming(n)'
    BY <2>7 DEF Coming
  <2>9. There(n)' = There(n)
    BY <2>2 DEF There
  <2>10. m = n => p \notin There(n) \/ p \in c.pods
    BY <1>7, <2>1, <2>2 DEF DroppedByUnreserve
  <2>11. n \notin dropped
    BY <2>2
  <2>12. Coming(n)' \subseteq ov'.assumed[n]
    BY <1>2, <1>3, <1>4, <1>7, <2>6, <2>7, <2>8, <2>11, ZenonT(30)
  <2>13. There(n)' \cap Own \subseteq c.pods \cup ov'.assumed[n]
    BY <1>4, <1>7, <2>6, <2>9, <2>10, <2>11, ZenonT(30)
  <2> QED BY <2>12, <2>13, ZenonT(30)
<1>8. CASE \E m \in Nodes : AgentReports(m) \/ ConfChanges(m)
  <2>1. UNCHANGED <<ov, dropped, store, stage, target>>
    BY <1>8 DEF AgentReports, ConfChanges, lifecycle
  <2> QED BY <1>4, <2>1 DEF Coming, There
<1>9. CASE ResyncStep
  <2>1. UNCHANGED <<store, stage, target>>
    BY <1>9 DEF ResyncStep, lifecycle
  <2>2. Coming(n)' = Coming(n) /\ There(n)' = There(n)
    BY <2>1 DEF Coming, There
  <2>3. CASE UNCHANGED <<ov, dropped>>
    BY <1>4, <2>2, <2>3
  <2>4. CASE /\ resync.at = "flush" /\ ov' = FlushNodes(ov, resync.updates)
             /\ dropped' = dropped \cup DroppedByFlush(resync.updates)
    <3>1. PICK up : up = resync.updates
      OBVIOUS
    <3>2. /\ ov'.nrts[n] = IF n \in DOMAIN up THEN up[n] ELSE ov.nrts[n]
          /\ ov'.assumed[n] = IF n \in DOMAIN up THEN {} ELSE ov.assumed[n]
      BY <1>0, <2>4, <3>1 DEF FlushNodes
    <3>3. n \notin dropped
      BY <2>4
    <3>4. CASE n \notin DOMAIN up
      BY <1>4, <2>2, <3>2, <3>3, <3>4
    <3>5. CASE n \in DOMAIN up
      <4>1. c \in up[n] /\ ov'.assumed[n] = {}
        BY <3>2, <3>5
      <4>2. \A q \in ov.assumed[n] : q \in There(n) \cup Coming(n) => q \in c.pods
        BY <2>4, <3>1, <3>5, <4>1 DEF DroppedByFlush
      <4>3. /\ ReportsOn(up[n], n, store) /\ Newer(ov.nrts[n], up[n], store)
            /\ ReportsOn(ov.nrts[n], n, store)
        BY <2>4, <3>1, <3>5 DEF ReportsInv
      <4>4. \A q \in c.pods : Started(store[q])
        BY <4>1, <4>3 DEF ReportsOn
      <4>5. Newer(ov.nrts[n], up[n], store)
        BY <4>3
      <4>8. PICK d \in ov.nrts[n] : TRUE
        BY <4>1, <4>5 DEF Newer
      <4>6. Coming(n) = {}
        BY <1>4, <3>3, <4>2, <4>4, <4>8 DEF Coming, Started
      <4>7. There(n) \cap Own \subseteq c.pods
        BY <1>4, <3>3, <4>1, <4>2, <4>5, <4>8, ZenonT(30) DEF There, Newer
      <4> QED BY <2>2, <4>6, <4>7
    <3> QED BY <3>4, <3>5
  <2> QED BY <1>9, <2>3, <2>4 DEF ResyncStep
<1>10. CASE Restart
  <2>1. /\ UNCHANGED store /\ stage' = [p \in Own |-> "queued"] /\ dropped' = DroppedByRestart
        /\ ov' = NewOverReserve(nrt)
    BY <1>10 DEF Restart, RestartStep
  <2>2. Coming(n)' = {} /\ There(n)' = There(n)
    BY <2>1 DEF Coming, There
  <2>3. c \in nrt[n]
    BY <2>1 DEF NewOverReserve
  <2>4. There(n) \cap Own \subseteq c.pods
    BY <2>1, <2>3 DEF DroppedByRestart
  <2> QED BY <2>2, <2>4
<1> QED BY <1>5, <1>6, <1>7, <1>8, <1>9, <1>10, QuietSteps, ZenonT(30) DEF Calls

\* UpdateNRT takes the sum of the assumed pods' requests off every zone.
LEMMA UpdateTakes ==
    ASSUME NEW r \in Reports, NEW S \in SUBSET Pods
    PROVE  /\ SumOver(ZoneRequests, S) \in Int
           /\ UpdateNRT(r, S).conf = r.conf
           /\ \A z \in Zones :
                 /\ UpdateNRT(r, S).free[z] \in Int
                 /\ UpdateNRT(r, S).free[z] > 0 =>
                       UpdateNRT(r, S).free[z] = r.free[z] - SumOver(ZoneRequests, S)
<1> DEFINE m == ZoneRequests
           rhs(h) == [s \in SUBSET S |->
                   IF s = {} THEN 0
                   ELSE LET q == CHOOSE x \in s : TRUE IN PodZoneRequest[q] + h[s \ {q}]]
           g == CHOOSE h : h = rhs(h)
<1>0. IsFiniteSet(S) /\ \A p \in S : m[p] \in Int
  BY RequestsAssumption, FS_Subset DEF ZoneRequests
<1>1. UpdateNRT(r, S) =
         [r EXCEPT !.free = [z \in Zones |-> IF @[z] < g[S] THEN 0 ELSE @[z] - g[S]]]
  BY DEF UpdateNRT
<1>2. ASSUME NEW h PROVE IsSum(m, h, S) <=> h = rhs(h)
  <2>1. ASSUME NEW s \in SUBSET S
        PROVE  SumStep(m, h, s) =
                  IF s = {} THEN 0
                  ELSE LET q == CHOOSE x \in s : TRUE IN PodZoneRequest[q] + h[s \ {q}]
    BY AnyIn DEF SumStep, AnyOf, ZoneRequests
  <2> HIDE DEF m
  <2> QED BY <2>1 DEF IsSum
<1>3. \E h : IsSum(m, h, S)
  BY <1>0, SumExists
<1> HIDE DEF m, rhs
<1>4. \E h : h = rhs(h)
  BY <1>2, <1>3
<1>5. g = rhs(g)
  BY <1>4, Zenon
<1>6. IsSum(m, g, S)
  BY <1>2, <1>5
<1>7. PICK taken : taken = g[S]
  OBVIOUS
<1>8. SumOver(ZoneRequests, S) = taken /\ taken \in Int
  BY <1>0, <1>6, <1>7, SumOverIs, SumOverInt DEF m
<1>9. UpdateNRT(r, S) =
         [r EXCEPT !.free = [z \in Zones |-> IF r.free[z] < taken THEN 0 ELSE r.free[z] - taken]]
  BY <1>1, <1>7 DEF Reports
<1> HIDE DEF g
<1>10. /\ UpdateNRT(r, S).conf = r.conf
       /\ UpdateNRT(r, S).free = [z \in Zones |-> IF r.free[z] < taken THEN 0 ELSE r.free[z] - taken]
  BY <1>9 DEF Reports
<1>11. \A z \in Zones : r.free[z] \in Int
  BY DEF Reports
<1> QED BY <1>8, <1>10, <1>11

\* Pods that a report has or that are assumed use no more of a zone than what is
\* reported and what the assumed ones request together.
LEMMA ZoneUseBound ==
    ASSUME NEW S \in SUBSET Pods, NEW P \in SUBSET Pods, NEW A \in SUBSET Pods,
           S \subseteq P \cup A, NEW z
    PROVE  ZoneUse(S, z) <= ZoneUse(P, z) + SumOver(ZoneRequests, A)
<1> DEFINE In(T) == {p \in T : ZoneOf[p] = z}
<1>1. PICK s, u, v : s = In(S) /\ u = In(P) /\ v = In(P) \cup A
  OBVIOUS
<1>2. /\ s \subseteq v /\ v = u \cup A /\ u \subseteq Pods /\ v \subseteq Pods
      /\ IsFiniteSet(u) /\ IsFiniteSet(v) /\ IsFiniteSet(A) /\ IsFiniteSet(s)
  BY <1>1, RequestsAssumption, FS_Subset
<1>3. \A p \in Pods : ZoneRequests[p] \in Nat
  BY RequestsAssumption DEF ZoneRequests
<1>4. SumOver(ZoneRequests, s) <= SumOver(ZoneRequests, v)
  BY <1>2, <1>3, SumOverLess
<1>5. SumOver(ZoneRequests, v) <= SumOver(ZoneRequests, u) + SumOver(ZoneRequests, A)
  BY <1>2, <1>3, SumOverUnion
<1>6. /\ SumOver(ZoneRequests, s) \in Int /\ SumOver(ZoneRequests, v) \in Int
      /\ SumOver(ZoneRequests, u) \in Int /\ SumOver(ZoneRequests, A) \in Int
  BY <1>2, <1>3, SumOverInt
<1>7. ZoneUse(S, z) = SumOver(ZoneRequests, s) /\ ZoneUse(P, z) = SumOver(ZoneRequests, u)
  BY <1>1, ZoneUseIsSum
<1> QED BY <1>4, <1>5, <1>6, <1>7

\* The answer a pod is filtered with leaves room for it beside the others.
LEMMA FilterLeavesRoom ==
    ASSUME LifecycleInv, ReportsInv, HeldInv, deployed = "OverReserve",
           NEW p \in Own, PodZoneRequest[p] > 0, NEW n \in Nodes \ dropped, Filter(p, n),
           NEW c \in ov.nrts[n], c.conf = SingleNUMA, There(n) \ Own \subseteq c.pods
    PROVE  \E z \in Zones : ZoneUse(There(n) \cup Coming(n), z) + PodZoneRequest[p] <= ZoneSize
<1>0. /\ Own \subseteq Pods /\ PodZoneRequest[p] \in Nat /\ ZoneSize \in Int
      /\ ov.nrts[n] \in SUBSET Reports /\ ov.assumed[n] \in SUBSET Own
  BY LifecycleAssumption, RequestsAssumption DEF ReportsInv, Caches
<1>1. ReportsOn(ov.nrts[n], n, store)
  BY DEF ReportsInv
<1>2. PICK A : A = ov.assumed[n]
  OBVIOUS
<1>3. A \in SUBSET Pods /\ c \in Reports /\ c.pods \in SUBSET Pods
  BY <1>0, <1>2 DEF Reports
<1>4. (CHOOSE r \in ov.nrts[n] : TRUE) = c
  BY <1>1 DEF ReportsOn
<1>5. FilterTopology(p, GetCachedNRTCopy(ov, n)) = "fits"
  BY DEF Filter, Answer
<1>6. n \notin ov.foreign
  BY <1>5 DEF GetCachedNRTCopy, FilterTopology
<1>7. GetCachedNRTCopy(ov, n) = [fresh |-> TRUE, has |-> TRUE, nrt |-> UpdateNRT(c, A)]
  BY <1>2, <1>4, <1>6 DEF GetCachedNRTCopy
<1>8. UpdateNRT(c, A).conf = SingleNUMA
  BY <1>3, UpdateTakes
<1>9. PICK z \in Zones : UpdateNRT(c, A).free[z] >= PodZoneRequest[p]
  BY <1>5, <1>7, <1>8 DEF FilterTopology
<1>10. PICK S : S = There(n) \cup Coming(n)
  OBVIOUS
<1>11. S \subseteq c.pods \cup A /\ S \subseteq Pods
  <2>1. Coming(n) \subseteq A /\ There(n) \cap Own \subseteq c.pods \cup A
    BY <1>2 DEF HeldInv
  <2>2. There(n) \subseteq Pods /\ Coming(n) \subseteq Pods
    BY <1>0 DEF There, Coming
  <2> QED BY <1>10, <2>1, <2>2
<1>12. ZoneUse(S, z) <= ZoneUse(c.pods, z) + SumOver(ZoneRequests, A)
  BY <1>3, <1>11, ZoneUseBound
<1>13. c.free[z] = ZoneSize - ZoneUse(c.pods, z)
  BY <1>1 DEF ReportsOn
<1>14. /\ ZoneUse(S, z) \in Int /\ ZoneUse(c.pods, z) \in Int
       /\ SumOver(ZoneRequests, A) \in Int
  BY <1>3, <1>11, ZoneUseInt, UpdateTakes
<1>15. UpdateNRT(c, A).free[z] > 0 =>
          UpdateNRT(c, A).free[z] = c.free[z] - SumOver(ZoneRequests, A)
  BY <1>3, UpdateTakes
<1>16. UpdateNRT(c, A).free[z] \in Int
  BY <1>3, UpdateTakes
<1>17. ZoneUse(S, z) + PodZoneRequest[p] <= ZoneSize
  BY <1>0, <1>9, <1>12, <1>13, <1>14, <1>15, <1>16
<1> QED BY <1>10, <1>17

\* No pod gets past OverReserve's answer to a node whose zones are all too full
\* for it, whatever zones the kubelet gave the others, on any number of nodes and
\* zones and through restarts and lost answers: the cached report, less what every
\* assumed pod requests, bounds what is left in each zone from below as long as
\* no reservation of a pod that is there or coming was dropped.
THEOREM FilteredFits == Spec => FilteredPodFits
<1> DEFINE Inv == LifecycleInv /\ ReportsInv /\ HeldInv
           Fits(p) == (stage[p] = "queued" /\ stage'[p] = "cycle" /\ deployed = "OverReserve"
                        /\ PodZoneRequest[p] > 0) =>
              \A n \in {target'[p]} \ dropped : \A c \in ov.nrts[n] :
                (c.conf = SingleNUMA /\ There(n) \ Own \subseteq c.pods) =>
                  \E z \in Zones : ZoneUse(There(n) \cup Coming(n), z) + PodZoneRequest[p] <= ZoneSize
<1>1. ASSUME Init PROVE Inv
  <2>1. LifecycleInv
    BY <1>1, LifecycleStart DEF Init
  <2>2. ASSUME NEW n \in Nodes
        PROVE  LET objects == IF n \in ReportsNRT THEN Report(OnNode(n), SingleNUMA) ELSE {} IN
               ReportsOn(objects, n, store) /\ Newer(objects, objects, store)
    <3>1. ReportsOn({}, n, store) /\ Newer({}, {}, store)
      BY DEF ReportsOn, Newer
    <3>2. PICK new : new = Report(OnNode(n), SingleNUMA)
      OBVIOUS
    <3>3. ReportsOn(new, n, store)
      BY <2>1, <3>2, AgentsReport, ZenonT(30)
    <3>4. Newer(new, new, store)
      BY <3>3 DEF ReportsOn, Newer
    <3> QED BY <3>1, <3>2, <3>3, <3>4
  <2>3. /\ nrt = [n \in Nodes |-> IF n \in ReportsNRT THEN Report(OnNode(n), SingleNUMA) ELSE {}]
        /\ ov = NewOverReserve(nrt) /\ resync = Idle
    BY <1>1 DEF Init
  <2>4. \A n \in Nodes : ReportsOn(nrt[n], n, store) /\ Newer(nrt[n], nrt[n], store)
    BY <2>2, <2>3
  <2>5. nrt \in [Nodes -> SUBSET Reports]
    BY <2>3, <2>4 DEF ReportsOn
  <2>6. ov \in Caches /\ ov.nrts = nrt /\ resync.at # "flush"
    BY <2>3, <2>5 DEF NewOverReserve, Caches, Idle
  <2>7. ReportsInv
    BY <2>4, <2>5, <2>6, ZenonT(30) DEF ReportsInv
  <2>8. \A n \in Nodes : Coming(n) = {} /\ There(n) \cap Own = {}
    BY <1>1, LifecycleAssumption DEF Init, LifecycleInit, Coming, There, Version, Unfinished, Daemons
  <2> QED BY <2>1, <2>7, <2>8, ZenonT(30) DEF HeldInv
<1>2. Inv /\ [Next]_vars => Inv'
  BY LifecycleKept, ReportsKept, HeldKept, ZenonT(30)
<1>3. ASSUME Inv, [Next]_vars, NEW p \in Own PROVE Fits(p)
  <2> SUFFICES ASSUME stage[p] = "queued", stage'[p] = "cycle", deployed = "OverReserve",
                      PodZoneRequest[p] > 0, NEW n \in {target'[p]} \ dropped, NEW c \in ov.nrts[n],
                      c.conf = SingleNUMA, There(n) \ Own \subseteq c.pods
               PROVE  \E z \in Zones : ZoneUse(There(n) \cup Coming(n), z) + PodZoneRequest[p] <= ZoneSize
    OBVIOUS
  <2>1. PICK m \in Nodes : Filter(p, m)
    <3>0. stage \in [Own -> Stages]
      BY <1>3 DEF LifecycleInv, LifecycleTypes
    <3>1. ASSUME NEW q \in Own, Reserve(q) \/ Binding(q) \/ BindAnswerLost(q) \/ PostBind(q) \/ Unreserve(q)
          PROVE  FALSE
      <4>1. \E st \in {"binding", "bound", "failed", "done", "queued"} : stage' = [stage EXCEPT ![q] = st]
        BY <3>1 DEF Reserve, Binding, BindAnswerLost, PostBind, Unreserve, ReserveStep, Bind, BindFails,
                    BindLost, PostBindStep, UnreserveStep, MoveTo
      <4> QED BY <3>0, <4>1
    <3>2. ASSUME NEW q \in Own, NEW m \in Nodes, Filter(q, m) PROVE q = p
      BY <3>0, <3>2 DEF Filter, StartCycle
    <3>3. ASSUME NEW q \in Pods, Cluster(q) \/ Deliver(q) PROVE UNCHANGED stage
      BY <3>3 DEF Cluster, Deliver, KubeletStep, DeleteStep, ForeignBind, DeliverStep
    <3>4. ASSUME \/ \E q \in Own, m \in Nodes : CannotAlign(q, m)
                 \/ \E m \in Nodes : AgentReports(m) \/ ConfChanges(m) \/ WatchStep(m)
                 \/ ResyncStep \/ Tick \/ Cleanup \/ (\E ns \in DOMAIN Quotas : ChangeQuota(ns)) \/ UNCHANGED vars
          PROVE  UNCHANGED stage
      BY <3>4, ZenonT(30) DEF CannotAlign, AgentReports, ConfChanges, WatchStep, ResyncStep, Tick, Cleanup,
                              ChangeQuota, vars, lifecycle
    <3>5. ~Restart
      BY DEF Restart, RestartStep
    <3>6. stage' # stage
      OBVIOUS
    <3> QED BY <1>3, <3>1, <3>2, <3>3, <3>4, <3>5, <3>6, ZenonT(30) DEF Next
  <2>2. m = n
    <3>1. target \in [Own -> Nodes \cup {NoNode}] /\ target' = [target EXCEPT ![p] = m]
      BY <1>3, <2>1 DEF LifecycleInv, LifecycleTypes, Filter, StartCycle
    <3> QED BY <3>1
  <2> QED BY <1>3, <2>1, <2>2, FilterLeavesRoom, ZenonT(30)
<1>4. Inv /\ [Next]_vars => [\A p \in Own : Fits(p)]_vars
  BY <1>3
<1>5. FilteredPodFits <=> [][\A p \in Own : Fits(p)]_vars
  BY DEF FilteredPodFits
<1> QED BY <1>1, <1>2, <1>4, <1>5, PTL DEF Spec
=============================================================================
