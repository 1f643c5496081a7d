------------------------- MODULE PluginCaches_proofs -------------------------
(***************************************************************************)
(* Theorems about the caches of the scheduler plugins, for every set of    *)
(* pods and nodes and every bound on what the informer and the scheduler   *)
(* do.  They rest on one invariant of the life of pods: what the informer  *)
(* shows is older than what it will show, and that than what is stored.    *)
(***************************************************************************)
EXTENDS PluginCaches, Sums, SequenceTheorems

\* The provers of a leaf that names none, and the time they have.
USE ZenonT(5), SMTT(30)

-----------------------------------------------------------------------------
(* The life of pods.                                                       *)

Phases == {"Unseen", "Unbound", "Assigned", "Creating", "Running", "Succeeded", "Deleted"}
Stages == {"queued", "cycle", "binding", "bound", "failed", "done"}

Versions ==
    {v \in [phase : Phases, node : Nodes \cup {NoNode}] :
        /\ v.phase \in {"Unseen", "Unbound"} => v.node = NoNode
        /\ v.phase \in {"Assigned", "Creating", "Running", "Succeeded"} => v.node # NoNode}

LifecycleTypes ==
    /\ store \in [Pods -> Versions]
    /\ seen \in [Pods -> Versions]
    /\ feed \in [Pods -> Seq(Versions)]
    /\ stage \in [Own -> Stages]
    /\ target \in [Own -> Nodes \cup {NoNode}]
    /\ \A p \in Own : stage[p] # "queued" => target[p] \in Nodes

\* w may be a later version of a pod than v, or the same: a pod keeps its node,
\* and once it is over, or gone, it stays so.
Over(v) == v.phase \in {"Succeeded", "Deleted"}
Later(v, w) == /\ v.node # NoNode => w.node = v.node
               /\ Over(v) => Over(w)
               /\ v.phase = "Deleted" => w.phase = "Deleted"

\* The versions of a pod, from the one seen to the stored one, are in order.
InOrder(p) ==
    /\ Later(seen[p], store[p])
    /\ \A i \in 1 .. Len(feed[p]) :
          /\ Later(seen[p], feed[p][i])
          /\ Later(feed[p][i], store[p])
          /\ \A j \in 1 .. Len(feed[p]) : i < j => Later(feed[p][i], feed[p][j])

LifecycleInv == LifecycleTypes /\ \A p \in Pods : InOrder(p)

LEMMA UnseenFirst ==
    Unseen \in Versions /\ \A v \in Versions : Later(Unseen, v) /\ Later(v, v)
  BY DEF Unseen, Version, Versions, Phases, Later, Over

LEMMA ListedType ==
    ASSUME NEW v \in Versions
    PROVE  /\ Listed(v) \in Seq(Versions)
           /\ \A i \in 1 .. Len(Listed(v)) : Listed(v)[i] = v
           /\ Len(Listed(v)) <= 1
<1>1. CASE v.phase = "Deleted"
  BY <1>1 DEF Listed
<1>2. CASE v.phase # "Deleted"
  BY <1>2 DEF Listed
<1> QED BY <1>1, <1>2

\* A fresh informer: nothing seen, and what is listed is the stored version.
LEMMA FreshInOrder ==
    ASSUME store' \in [Pods -> Versions], seen' = [p \in Pods |-> Unseen],
           feed' = [p \in Pods |-> Listed(store'[p])]
    PROVE  /\ seen' \in [Pods -> Versions]
           /\ feed' \in [Pods -> Seq(Versions)]
           /\ \A p \in Pods : InOrder(p)'
<1>1. seen' \in [Pods -> Versions]
  BY UnseenFirst
<1>2. feed' \in [Pods -> Seq(Versions)]
  BY ListedType
<1>3. ASSUME NEW p \in Pods PROVE InOrder(p)'
  <2>1. seen'[p] = Unseen /\ feed'[p] = Listed(store'[p]) /\ store'[p] \in Versions
    OBVIOUS
  <2>2. /\ \A i \in 1 .. Len(feed'[p]) : feed'[p][i] = store'[p]
        /\ Len(feed'[p]) <= 1 /\ Len(feed'[p]) \in Nat
    BY <2>1, ListedType
  <2> QED BY <2>1, <2>2, UnseenFirst DEF InOrder
<1> QED BY <1>1, <1>2, <1>3

LEMMA LifecycleStart ==
    ASSUME NEW present, LifecycleInit(present) PROVE LifecycleInv
<1> USE DEF LifecycleInit
<1>1. store \in [Pods -> Versions]
  BY LifecycleAssumption DEF Version, Versions, Phases, Daemons
<1>2. ASSUME NEW p \in Pods PROVE InOrder(p)
  <2>1. seen[p] = Unseen /\ feed[p] = Listed(store[p]) /\ store[p] \in Versions
    BY <1>1
  <2>2. /\ \A i \in 1 .. Len(feed[p]) : feed[p][i] = store[p]
        /\ Len(feed[p]) <= 1 /\ Len(feed[p]) \in Nat
    BY <2>1, ListedType
  <2> QED BY <2>1, <2>2, UnseenFirst DEF InOrder
<1>3. seen \in [Pods -> Versions] /\ feed \in [Pods -> Seq(Versions)]
  BY <1>1, UnseenFirst, ListedType
<1>4. /\ stage \in [Own -> Stages] /\ target \in [Own -> Nodes \cup {NoNode}]
      /\ \A p \in Own : stage[p] = "queued"
  BY DEF Stages
<1> QED BY <1>1, <1>2, <1>3, <1>4 DEF LifecycleInv, LifecycleTypes

\* The API server stores a later version of a pod and feeds it to the informer.
LEMMA PublishInOrder ==
    ASSUME LifecycleInv, NEW p \in Pods, NEW v \in Versions, Later(store[p], v),
           Publish(p, v), UNCHANGED seen
    PROVE  /\ store' \in [Pods -> Versions]
           /\ seen' \in [Pods -> Versions]
           /\ feed' \in [Pods -> Seq(Versions)]
           /\ \A q \in Pods : InOrder(q)'
<1> USE DEF LifecycleInv, LifecycleTypes, Publish
<1>1. store' \in [Pods -> Versions] /\ seen' \in [Pods -> Versions]
  OBVIOUS
<1>2. feed' \in [Pods -> Seq(Versions)]
  OBVIOUS
<1>3. ASSUME NEW q \in Pods PROVE InOrder(q)'
  <2>1. CASE q # p
    BY <2>1, ZenonT(30) DEF InOrder
  <2>2. CASE q = p
    <3>1. feed[p] \in Seq(Versions) /\ feed'[p] = Append(feed[p], v) /\ store'[p] = v
      OBVIOUS
    <3>2. /\ Len(feed'[p]) = Len(feed[p]) + 1 /\ Len(feed[p]) \in Nat
          /\ feed'[p][Len(feed[p]) + 1] = v
          /\ \A i \in 1 .. Len(feed[p]) : feed'[p][i] = feed[p][i]
      BY <3>1
    <3>3. /\ Later(seen[p], v)
          /\ \A i \in 1 .. Len(feed[p]) : Later(feed[p][i], v)
          /\ Later(v, v)
      BY DEF InOrder, Later
    <3>4. InOrder(p)
      OBVIOUS
    <3> QED BY <2>2, <3>1, <3>2, <3>3, <3>4 DEF InOrder
  <2> QED BY <2>1, <2>2
<1> QED BY <1>1, <1>2, <1>3

\* The informer shows the next version.
LEMMA DeliverInOrder ==
    ASSUME LifecycleInv, NEW p \in Pods, DeliverStep(p)
    PROVE  LifecycleInv'
<1> USE DEF LifecycleInv, LifecycleTypes, DeliverStep
<1>1. feed[p] \in Seq(Versions) /\ feed[p] # << >>
  OBVIOUS
<1>2. /\ Head(feed[p]) \in Versions /\ Head(feed[p]) = feed[p][1]
      /\ Tail(feed[p]) \in Seq(Versions)
      /\ Len(Tail(feed[p])) = Len(feed[p]) - 1 /\ Len(feed[p]) \in Nat /\ Len(feed[p]) >= 1
      /\ \A i \in 1 .. Len(feed[p]) - 1 : Tail(feed[p])[i] = feed[p][i + 1]
  BY <1>1
<1>3. seen' \in [Pods -> Versions] /\ feed' \in [Pods -> Seq(Versions)]
  BY <1>2
<1>4. ASSUME NEW q \in Pods PROVE InOrder(q)'
  <2>1. CASE q # p
    BY <2>1, ZenonT(30) DEF InOrder
  <2>2. CASE q = p
    <3>1. seen'[p] = feed[p][1] /\ feed'[p] = Tail(feed[p]) /\ store'[p] = store[p]
      BY <1>2
    <3>2. InOrder(p)
      OBVIOUS
    <3>3. Later(feed[p][1], store[p])
      BY <1>2, <3>2 DEF InOrder
    <3>4. ASSUME NEW i \in 1 .. Len(feed[p]) - 1
          PROVE  /\ Later(feed[p][1], feed[p][i + 1])
                 /\ Later(feed[p][i + 1], store[p])
                 /\ \A j \in 1 .. Len(feed[p]) - 1 : i < j => Later(feed[p][i + 1], feed[p][j + 1])
      BY <1>2, <3>2 DEF InOrder
    <3> QED BY <1>2, <2>2, <3>1, <3>3, <3>4 DEF InOrder
  <2> QED BY <2>1, <2>2
<1> QED BY <1>3, <1>4

\* What happens to pods and to the scheduler's place with them in one step.
PodStep(p) ==
    \/ KubeletStep(p) \/ DeleteStep(p)
    \/ \E n \in Nodes : ForeignBind(p, n)
    \/ DeliverStep(p)

OwnStep(p) ==
    \/ \E n \in Nodes : StartCycle(p, n)
    \/ ReserveStep(p) \/ Bind(p) \/ BindFails(p) \/ BindLost(p)
    \/ PostBindStep(p) \/ UnreserveStep(p)

LifecycleNext ==
    \/ \E p \in Pods : PodStep(p)
    \/ \E p \in Own : OwnStep(p)
    \/ RestartStep
    \/ UNCHANGED lifecycle

LEMMA StepsOfNext == [Next]_vars => LifecycleNext
<1> SUFFICES ASSUME [Next]_vars PROVE LifecycleNext
  OBVIOUS
<1>1. CASE UNCHANGED vars
  BY <1>1 DEF vars, LifecycleNext
<1>2. CASE \E p \in Pods : Cluster(p) \/ Deliver(p)
  BY <1>2 DEF Cluster, Deliver, LifecycleNext, PodStep
<1>3. CASE \E p \in Own, n \in Nodes : Filter(p, n) \/ CannotAlign(p, n)
  BY <1>3, Zenon DEF Filter, CannotAlign, LifecycleNext, OwnStep
<1>4. CASE \E p \in Own : Reserve(p) \/ Binding(p) \/ BindAnswerLost(p) \/ PostBind(p) \/ Unreserve(p)
  BY <1>4, Zenon DEF Reserve, Binding, BindAnswerLost, PostBind, Unreserve, LifecycleNext, OwnStep
<1>5. CASE \E n \in Nodes : AgentReports(n) \/ ConfChanges(n) \/ WatchStep(n)
  BY <1>5, ZenonT(30) DEF AgentReports, ConfChanges, WatchStep, LifecycleNext
<1>6. CASE ResyncStep \/ Tick \/ Cleanup \/ (\E ns \in DOMAIN Quotas : ChangeQuota(ns))
  BY <1>6, Zenon DEF ResyncStep, Tick, Cleanup, ChangeQuota, LifecycleNext
<1>7. CASE Restart
  BY <1>7 DEF Restart, LifecycleNext
<1> QED BY <1>1, <1>2, <1>3, <1>4, <1>5, <1>6, <1>7 DEF Next

LEMMA PodStepInv ==
    ASSUME LifecycleInv, NEW p \in Pods, PodStep(p)
    PROVE  LifecycleInv'
<1>0. store[p] \in Versions
  BY DEF LifecycleInv, LifecycleTypes
<1>1. CASE KubeletStep(p)
  <2>1. PICK ph \in NextPhases(store[p].phase) : Publish(p, [store[p] EXCEPT !.phase = ph])
    BY <1>1 DEF KubeletStep
  <2>2. /\ [store[p] EXCEPT !.phase = ph] \in Versions
        /\ Later(store[p], [store[p] EXCEPT !.phase = ph])
    BY <1>0 DEF NextPhases, Versions, Phases, Later, Over
  <2> QED BY <1>1, <2>1, <2>2, PublishInOrder DEF LifecycleInv, LifecycleTypes, KubeletStep
<1>2. CASE DeleteStep(p)
  <2>1. /\ [store[p] EXCEPT !.phase = "Deleted"] \in Versions
        /\ Later(store[p], [store[p] EXCEPT !.phase = "Deleted"])
    BY <1>0 DEF Versions, Phases, Later, Over
  <2> QED BY <1>2, <2>1, PublishInOrder DEF LifecycleInv, LifecycleTypes, DeleteStep
<1>3. ASSUME NEW n \in Nodes, ForeignBind(p, n) PROVE LifecycleInv'
  <2>1. /\ Version("Assigned", n) \in Versions
        /\ Later(store[p], Version("Assigned", n))
    BY <1>0, <1>3, LifecycleAssumption DEF ForeignBind, Version, Versions, Phases, Later, Over
  <2> QED BY <1>3, <2>1, PublishInOrder DEF LifecycleInv, LifecycleTypes, ForeignBind
<1>4. CASE DeliverStep(p)
  BY <1>4, DeliverInOrder
<1> QED BY <1>1, <1>2, <1>3, <1>4 DEF PodStep

LEMMA OwnStepInv ==
    ASSUME LifecycleInv, NEW p \in Own, OwnStep(p)
    PROVE  LifecycleInv'
<1>0. p \in Pods /\ store[p] \in Versions /\ target[p] \in Nodes \cup {NoNode}
  BY LifecycleAssumption DEF LifecycleInv, LifecycleTypes
<1>1. /\ stage' \in [Own -> Stages]
      /\ target' \in [Own -> Nodes \cup {NoNode}]
      /\ \A q \in Own : stage'[q] # "queued" => target'[q] \in Nodes
  BY ZenonT(30) DEF OwnStep, StartCycle, ReserveStep, Bind, BindFails, BindLost, PostBindStep, UnreserveStep,
         MoveTo, LifecycleInv, LifecycleTypes, Stages
<1>2. CASE UNCHANGED <<store, feed, seen>>
  BY <1>1, <1>2, ZenonT(30) DEF LifecycleInv, LifecycleTypes, InOrder
<1>3. CASE Bind(p) \/ BindLost(p)
  <2>1. store[p].phase = "Unbound" /\ Publish(p, Version("Assigned", target[p])) /\ UNCHANGED seen
    BY <1>3 DEF Bind, BindLost, MoveTo
  <2>2. target[p] \in Nodes
    BY <1>3 DEF Bind, BindLost, MoveTo, LifecycleInv, LifecycleTypes
  <2>3. /\ Version("Assigned", target[p]) \in Versions
        /\ Later(store[p], Version("Assigned", target[p]))
    BY <1>0, <2>1, <2>2, LifecycleAssumption DEF Version, Versions, Phases, Later, Over
  <2> QED BY <1>0, <1>1, <2>1, <2>3, PublishInOrder DEF LifecycleInv, LifecycleTypes
<1> QED BY <1>2, <1>3
        DEF OwnStep, StartCycle, ReserveStep, BindFails, PostBindStep, UnreserveStep, MoveTo

LEMMA RestartInv ==
    ASSUME LifecycleInv, RestartStep PROVE LifecycleInv'
<1>1. /\ store' \in [Pods -> Versions]
      /\ stage' \in [Own -> Stages] /\ target' \in [Own -> Nodes \cup {NoNode}]
      /\ \A p \in Own : stage'[p] = "queued"
  BY DEF LifecycleInv, LifecycleTypes, RestartStep, Stages
<1> QED BY <1>1, FreshInOrder DEF LifecycleInv, LifecycleTypes, RestartStep

LEMMA LifecycleKept ==
    ASSUME LifecycleInv, [Next]_vars PROVE LifecycleInv'
<1>1. CASE UNCHANGED lifecycle
  BY <1>1 DEF lifecycle, LifecycleInv, LifecycleTypes, InOrder
<1> QED BY <1>1, StepsOfNext, PodStepInv, OwnStepInv, RestartInv DEF LifecycleNext

\* What every caching plugin relies on: the versions of a pod the informer has
\* still to deliver lie, in the order of the pod's life, between the one it has
\* delivered and the stored one, and a pod past Reserve has a node, through
\* restarts and lost answers of binds.
THEOREM LifecycleInvariant == Spec => []LifecycleInv
<1>1. Init => LifecycleInv
  BY LifecycleStart DEF Init
<1>2. LifecycleInv /\ [Next]_vars => LifecycleInv'
  BY LifecycleKept
<1> QED BY <1>1, <1>2, PTL DEF Spec

-----------------------------------------------------------------------------
(* DiscardReserved.                                                        *)

ReservationInv ==
    /\ reservationMap \in [Nodes -> SUBSET Own]
    /\ NoReservationLeaks

LEMMA ReservationKept ==
    ASSUME LifecycleInv, ReservationInv, [Next]_vars
    PROVE  ReservationInv'
<1> USE DEF ReservationInv, NoReservationLeaks, deployed
<1>0. stage \in [Own -> Stages] /\ target \in [Own -> Nodes \cup {NoNode}]
  BY DEF LifecycleInv, LifecycleTypes
<1>1. CASE UNCHANGED <<stage, target, reservationMap, scenario>>
  BY <1>1
<1>2. ASSUME NEW p \in Own, NEW n \in Nodes, Filter(p, n) PROVE ReservationInv'
  <2>1. /\ stage[p] = "queued" /\ stage' = [stage EXCEPT ![p] = "cycle"]
        /\ target' = [target EXCEPT ![p] = n]
        /\ UNCHANGED <<reservationMap, scenario>>
    BY <1>2 DEF Filter, StartCycle, caches
  <2> QED BY <1>0, <2>1
<1>3. ASSUME NEW p \in Own, Reserve(p) PROVE ReservationInv'
  <2>1. /\ stage[p] = "cycle" /\ stage' = [stage EXCEPT ![p] = "binding"]
        /\ UNCHANGED <<target, scenario>> /\ target[p] \in Nodes
    BY <1>3 DEF Reserve, ReserveStep, MoveTo, LifecycleInv, LifecycleTypes
  <2>2. CASE scenario.plugin = "DiscardReserved"
    <3>1. reservationMap' = [reservationMap EXCEPT ![target[p]] = @ \cup {p}]
      BY <1>3, <2>2 DEF Reserve, DiscardReserve
    <3> QED BY <1>0, <2>1, <2>2, <3>1
  <2>3. CASE scenario.plugin # "DiscardReserved"
    BY <1>3, <2>1, <2>3 DEF Reserve
  <2> QED BY <2>2, <2>3
<1>4. ASSUME NEW p \in Own, Binding(p) \/ BindAnswerLost(p) PROVE ReservationInv'
  <2>1. /\ stage[p] = "binding"
        /\ \E st \in {"bound", "failed"} : stage' = [stage EXCEPT ![p] = st]
        /\ UNCHANGED <<target, scenario, reservationMap>>
    BY <1>4, ZenonT(30) DEF Binding, BindAnswerLost, Bind, BindFails, BindLost, MoveTo, caches
  <2> QED BY <1>0, <2>1, ZenonT(30)
<1>5. ASSUME NEW p \in Own, PostBind(p) \/ Unreserve(p) PROVE ReservationInv'
  <2>1. /\ stage[p] \in {"bound", "failed"} /\ target[p] \in Nodes
        /\ \E st \in {"done", "queued"} : stage' = [stage EXCEPT ![p] = st]
        /\ UNCHANGED scenario /\ target' \in {target, [target EXCEPT ![p] = NoNode]}
    BY <1>5 DEF PostBind, Unreserve, PostBindStep, UnreserveStep, MoveTo, LifecycleInv, LifecycleTypes
  <2>2. CASE scenario.plugin = "DiscardReserved"
    <3>1. reservationMap' = [reservationMap EXCEPT ![target[p]] = @ \ {p}]
      BY <1>5, <2>2 DEF PostBind, Unreserve, removeReservationForNode
    <3> QED BY <1>0, <2>1, <2>2, <3>1
  <2>3. CASE scenario.plugin # "DiscardReserved"
    BY <1>5, <2>1, <2>3 DEF PostBind, Unreserve
  <2> QED BY <2>2, <2>3
<1>6. CASE Restart
  BY <1>6 DEF Restart, RestartStep
<1>7. ASSUME NEW p \in Pods, Cluster(p) \/ Deliver(p)
      PROVE  UNCHANGED <<stage, target, reservationMap, scenario>>
  BY <1>7 DEF Cluster, Deliver, KubeletStep, DeleteStep, ForeignBind, DeliverStep, caches
<1>8. ASSUME NEW n \in Nodes,
             AgentReports(n) \/ ConfChanges(n) \/ WatchStep(n) \/ \E p \in Own : CannotAlign(p, n)
      PROVE  UNCHANGED <<stage, target, reservationMap, scenario>>
  BY <1>8, ZenonT(30) DEF AgentReports, ConfChanges, WatchStep, CannotAlign, lifecycle
<1>9. CASE ResyncStep \/ Tick \/ Cleanup \/ (\E ns \in DOMAIN Quotas : ChangeQuota(ns)) \/ UNCHANGED vars
  BY <1>1, <1>9, Zenon DEF ResyncStep, Tick, Cleanup, ChangeQuota, vars, lifecycle, caches
<1> QED BY <1>1, <1>2, <1>3, <1>4, <1>5, <1>6, <1>7, <1>8, <1>9, ZenonT(30) DEF Next

\* DiscardReserved closes a node exactly while a pod placed on it is between
\* Reserve and PostBind or Unreserve: however cycles, lost answers and restarts
\* interleave, no reservation leaks and none is lost.
THEOREM ReservationsExact == Spec => []NoReservationLeaks
<1>1. Init => LifecycleInv /\ ReservationInv
  BY LifecycleStart, Zenon DEF Init, LifecycleInit, ReservationInv, NoReservationLeaks
<1>2. (LifecycleInv /\ ReservationInv) /\ [Next]_vars => (LifecycleInv /\ ReservationInv)'
  BY LifecycleKept, ReservationKept
<1>3. ReservationInv => NoReservationLeaks
  BY DEF ReservationInv
<1> QED BY <1>1, <1>2, <1>3, PTL DEF Spec

-----------------------------------------------------------------------------
(* SySched.                                                                *)

\* Hosts are nodes, their pods are pods, and without the plugin there are none.
SySchedInv ==
    /\ sysched = [pods |-> sysched.pods, calls |-> sysched.calls]
    /\ DOMAIN sysched.pods = DOMAIN sysched.calls
    /\ DOMAIN sysched.pods \subseteq Nodes
    /\ \A n \in DOMAIN sysched.pods : sysched.pods[n] \subseteq Pods
    /\ deployed # "SySched" => DOMAIN sysched.pods = {}
    /\ HostSyscallsExact

\* What is to be shown of a host after a step.
HostExact(m) ==
    /\ \A q \in sysched.pods[m] : seen[q].node = m /\ seen[q].phase # "Deleted"
    /\ sysched.calls[m] = UNION {lastRead[q] : q \in sysched.pods[m]}

\* Functions that agree on a set have the same union over it.
UnionOf(f, S) == UNION {f[q] : q \in S}

LEMMA SameUnion ==
    \A S, f, g : (\A q \in S : f[q] = g[q]) => UnionOf(f, S) = UnionOf(g, S)
<1> TAKE S, f, g
<1> HAVE \A q \in S : f[q] = g[q]
<1>1. {f[q] : q \in S} = {g[q] : q \in S}
  OBVIOUS
<1> QED BY <1>1 DEF UnionOf

LEMMA HostsExact ==
    ASSUME SySchedInv, NEW m \in DOMAIN sysched.pods PROVE HostExact(m)
  BY DEF SySchedInv, HostSyscallsExact, HostExact

LEMMA HostsSuffice ==
    ASSUME deployed = "SySched", UNCHANGED scenario,
           sysched' = [pods |-> sysched'.pods, calls |-> sysched'.calls],
           DOMAIN sysched'.pods = DOMAIN sysched'.calls, DOMAIN sysched'.pods \subseteq Nodes,
           \A n \in DOMAIN sysched'.pods : sysched'.pods[n] \subseteq Pods /\ HostExact(n)'
    PROVE  SySchedInv'
<1>1. deployed' = "SySched"
  BY DEF deployed
<1>2. HostSyscallsExact'
  BY DEF HostSyscallsExact, HostExact
<1> QED BY <1>1, <1>2 DEF SySchedInv

\* A pod that is on no other host is added with what was read of it.
LEMMA AddPodExact ==
    ASSUME SySchedInv, NEW p \in Pods, NEW n \in Nodes, NEW got, deployed = "SySched", UNCHANGED scenario,
           seen[p].node \in {NoNode, n}, seen'[p].node = n, seen'[p].phase # "Deleted",
           \A q \in Pods \ {p} : seen'[q] = seen[q],
           sysched' = addPod(sysched, p, n, got[p]),
           lastRead' = [q \in Pods |-> IF q \in (IF sysched'.pods = sysched.pods THEN {} ELSE {p})
                                       THEN got[q] ELSE lastRead[q]]
    PROVE  SySchedInv'
<1>0. \A m \in DOMAIN sysched.pods : m # n => p \notin sysched.pods[m]
  BY LifecycleAssumption DEF SySchedInv, HostSyscallsExact
<1>1. CASE n \notin DOMAIN sysched.pods
  <2>1. /\ sysched'.pods = With(sysched.pods, n, {p})
        /\ sysched'.calls = With(sysched.calls, n, got[p])
        /\ sysched' = [pods |-> sysched'.pods, calls |-> sysched'.calls]
    BY <1>1 DEF addPod
  <2>2. /\ DOMAIN sysched'.pods = DOMAIN sysched.pods \cup {n} /\ sysched'.pods[n] = {p}
        /\ \A m \in DOMAIN sysched.pods : sysched'.pods[m] = sysched.pods[m]
    BY <1>1, <2>1 DEF With
  <2>3. /\ DOMAIN sysched'.calls = DOMAIN sysched.calls \cup {n} /\ sysched'.calls[n] = got[p]
        /\ \A m \in DOMAIN sysched.pods : sysched'.calls[m] = sysched.calls[m]
    BY <1>1, <2>1 DEF With, SySchedInv
  <2>4. /\ lastRead'[p] = got[p]
        /\ \A q \in Pods \ {p} : lastRead'[q] = lastRead[q]
    BY <1>1, <2>2
  <2>5. ASSUME NEW m \in DOMAIN sysched.pods PROVE HostExact(m)' /\ sysched'.pods[m] \subseteq Pods
    <3>1. \A q \in sysched.pods[m] : q \in Pods \ {p} /\ seen'[q] = seen[q] /\ lastRead'[q] = lastRead[q]
      BY <1>0, <1>1, <2>4 DEF SySchedInv
    <3>2. UNION {lastRead'[q] : q \in sysched.pods[m]} = UNION {lastRead[q] : q \in sysched.pods[m]}
      <4>1. \A q \in sysched.pods[m] : lastRead'[q] = lastRead[q]
        BY <3>1
      <4>2. UnionOf(lastRead', sysched.pods[m]) = UnionOf(lastRead, sysched.pods[m])
        BY <4>1, SameUnion, Zenon
      <4> QED BY <4>2 DEF UnionOf
    <3>3. sysched'.pods[m] = sysched.pods[m] /\ sysched'.calls[m] = sysched.calls[m]
      BY <2>2, <2>3
    <3>4. /\ \A q \in sysched.pods[m] : seen[q].node = m /\ seen[q].phase # "Deleted"
          /\ sysched.calls[m] = UNION {lastRead[q] : q \in sysched.pods[m]}
      BY HostsExact DEF HostExact
    <3> QED BY <3>1, <3>2, <3>3, <3>4 DEF HostExact
  <2>6. HostExact(n)' /\ sysched'.pods[n] \subseteq Pods
    <3>1. UNION {lastRead'[q] : q \in {p}} = got[p]
      BY <2>4
    <3> QED BY <2>2, <2>3, <3>1 DEF HostExact
  <2>7. DOMAIN sysched'.pods = DOMAIN sysched'.calls /\ DOMAIN sysched'.pods \subseteq Nodes
    BY <2>2, <2>3 DEF SySchedInv
  <2> QED BY <2>1, <2>2, <2>5, <2>6, <2>7, HostsSuffice
<1>2. CASE n \in DOMAIN sysched.pods /\ p \in sysched.pods[n]
  <2>1. sysched' = sysched /\ \A q \in Pods : lastRead'[q] = lastRead[q]
    BY <1>2 DEF addPod
  <2>2. ASSUME NEW m \in DOMAIN sysched.pods PROVE HostExact(m)' /\ sysched'.pods[m] \subseteq Pods
    <3>1. \A q \in sysched.pods[m] : q \in Pods /\ lastRead'[q] = lastRead[q]
      BY <2>1 DEF SySchedInv
    <3>2. UNION {lastRead'[q] : q \in sysched.pods[m]} = UNION {lastRead[q] : q \in sysched.pods[m]}
      <4>1. \A q \in sysched.pods[m] : lastRead'[q] = lastRead[q]
        BY <3>1
      <4>2. UnionOf(lastRead', sysched.pods[m]) = UnionOf(lastRead, sysched.pods[m])
        BY <4>1, SameUnion, Zenon
      <4> QED BY <4>2 DEF UnionOf
    <3>3. ASSUME NEW q \in sysched.pods[m] PROVE seen'[q].node = m /\ seen'[q].phase # "Deleted"
      <4>1. CASE q = p
        BY <1>0, <3>3, <4>1
      <4>2. CASE q # p
        BY <3>1, <3>3, <4>2, HostsExact DEF HostExact
      <4> QED BY <4>1, <4>2
    <3> QED BY <2>1, <3>1, <3>2, <3>3, HostsExact DEF HostExact
  <2>3. /\ sysched' = [pods |-> sysched'.pods, calls |-> sysched'.calls]
        /\ DOMAIN sysched'.pods = DOMAIN sysched'.calls /\ DOMAIN sysched'.pods \subseteq Nodes
    BY <2>1 DEF SySchedInv
  <2> QED BY <2>1, <2>2, <2>3, HostsSuffice
<1>3. CASE n \in DOMAIN sysched.pods /\ p \notin sysched.pods[n]
  <2>1. /\ sysched'.pods = With(sysched.pods, n, sysched.pods[n] \cup {p})
        /\ sysched'.calls = With(sysched.calls, n, sysched.calls[n] \cup got[p])
        /\ sysched' = [pods |-> sysched'.pods, calls |-> sysched'.calls]
    BY <1>3 DEF addPod
  <2>2. /\ DOMAIN sysched'.pods = DOMAIN sysched.pods /\ sysched'.pods[n] = sysched.pods[n] \cup {p}
        /\ \A m \in DOMAIN sysched.pods : m # n => sysched'.pods[m] = sysched.pods[m]
    BY <1>3, <2>1 DEF With
  <2>3. /\ DOMAIN sysched'.calls = DOMAIN sysched.calls /\ sysched'.calls[n] = sysched.calls[n] \cup got[p]
        /\ \A m \in DOMAIN sysched.pods : m # n => sysched'.calls[m] = sysched.calls[m]
    BY <1>3, <2>1 DEF With, SySchedInv
  <2>4. /\ lastRead'[p] = got[p]
        /\ \A q \in Pods \ {p} : lastRead'[q] = lastRead[q]
    BY <1>3, <2>2
  <2>5. ASSUME NEW m \in DOMAIN sysched.pods PROVE HostExact(m)' /\ sysched'.pods[m] \subseteq Pods
    <3>1. \A q \in sysched.pods[m] : q \in Pods \ {p} /\ seen'[q] = seen[q] /\ lastRead'[q] = lastRead[q]
      BY <1>0, <1>3, <2>4 DEF SySchedInv
    <3>2. UNION {lastRead'[q] : q \in sysched.pods[m]} = UNION {lastRead[q] : q \in sysched.pods[m]}
      <4>1. \A q \in sysched.pods[m] : lastRead'[q] = lastRead[q]
        BY <3>1
      <4>2. UnionOf(lastRead', sysched.pods[m]) = UnionOf(lastRead, sysched.pods[m])
        BY <4>1, SameUnion, Zenon
      <4> QED BY <4>2 DEF UnionOf
    <3>3. /\ \A q \in sysched.pods[m] : seen'[q].node = m /\ seen'[q].phase # "Deleted"
          /\ sysched.calls[m] = UNION {lastRead'[q] : q \in sysched.pods[m]}
      BY <3>1, <3>2, HostsExact DEF HostExact
    <3>4. CASE m = n
      <4>1. sysched'.pods[m] = sysched.pods[m] \cup {p} /\ sysched'.calls[m] = sysched.calls[m] \cup got[p]
        BY <2>2, <2>3, <3>4
      <4>2. UNION {lastRead'[q] : q \in sysched.pods[m] \cup {p}}
              = (UNION {lastRead'[q] : q \in sysched.pods[m]}) \cup got[p]
        BY <2>4
      <4>3. \A q \in sysched'.pods[m] : q \in Pods /\ seen'[q].node = m /\ seen'[q].phase # "Deleted"
        BY <3>1, <3>3, <3>4, <4>1
      <4>4. sysched'.calls[m] = UNION {lastRead'[q] : q \in sysched'.pods[m]}
        BY <3>3, <4>1, <4>2
      <4> QED BY <4>3, <4>4 DEF HostExact
    <3>5. CASE m # n
      <4>1. sysched'.pods[m] = sysched.pods[m] /\ sysched'.calls[m] = sysched.calls[m]
        BY <2>2, <2>3, <3>5
      <4> QED BY <3>1, <3>3, <4>1 DEF HostExact
    <3> QED BY <3>4, <3>5
  <2>6. DOMAIN sysched'.pods = DOMAIN sysched'.calls /\ DOMAIN sysched'.pods \subseteq Nodes
    BY <2>2, <2>3 DEF SySchedInv
  <2> QED BY <2>1, <2>2, <2>5, <2>6, HostsSuffice
<1> QED BY <1>1, <1>2, <1>3

\* A pod that is deleted is taken off the host the informer showed it on, and
\* what the others may call is read again.
LEMMA RemovePodExact ==
    ASSUME SySchedInv, NEW p \in Pods, NEW n, NEW got, deployed = "SySched", UNCHANGED scenario,
           n = seen[p].node, \A q \in Pods \ {p} : seen'[q] = seen[q],
           sysched' = removePod(sysched, p, n, got),
           lastRead' = [q \in Pods |-> IF q \in (IF sysched'.pods = sysched.pods THEN {} ELSE sysched'.pods[n])
                                       THEN got[q] ELSE lastRead[q]]
    PROVE  SySchedInv'
<1>0. \A m \in DOMAIN sysched.pods : m # n => p \notin sysched.pods[m]
  BY DEF SySchedInv, HostSyscallsExact
<1>1. CASE n \notin DOMAIN sysched.pods \/ (n \in DOMAIN sysched.pods /\ p \notin sysched.pods[n])
  <2>1. sysched' = sysched /\ \A q \in Pods : lastRead'[q] = lastRead[q]
    BY <1>1 DEF removePod
  <2>2. ASSUME NEW m \in DOMAIN sysched.pods PROVE HostExact(m)' /\ sysched'.pods[m] \subseteq Pods
    <3>1. \A q \in sysched.pods[m] : q \in Pods \ {p} /\ seen'[q] = seen[q] /\ lastRead'[q] = lastRead[q]
      BY <1>0, <1>1, <2>1 DEF SySchedInv
    <3>2. UNION {lastRead'[q] : q \in sysched.pods[m]} = UNION {lastRead[q] : q \in sysched.pods[m]}
      <4>1. \A q \in sysched.pods[m] : lastRead'[q] = lastRead[q]
        BY <3>1
      <4>2. UnionOf(lastRead', sysched.pods[m]) = UnionOf(lastRead, sysched.pods[m])
        BY <4>1, SameUnion, Zenon
      <4> QED BY <4>2 DEF UnionOf
    <3> QED BY <2>1, <3>1, <3>2, HostsExact DEF HostExact
  <2>3. /\ sysched' = [pods |-> sysched'.pods, calls |-> sysched'.calls]
        /\ DOMAIN sysched'.pods = DOMAIN sysched'.calls /\ DOMAIN sysched'.pods \subseteq Nodes
    BY <2>1 DEF SySchedInv
  <2> QED BY <2>1, <2>2, <2>3, HostsSuffice
<1>2. CASE n \in DOMAIN sysched.pods /\ p \in sysched.pods[n]
  <2>1. /\ sysched'.pods = With(sysched.pods, n, sysched.pods[n] \ {p})
        /\ sysched'.calls = With(sysched.calls, n, UNION {got[q] : q \in sysched.pods[n] \ {p}})
        /\ sysched' = [pods |-> sysched'.pods, calls |-> sysched'.calls]
    BY <1>2, ZenonT(30) DEF removePod, recomputeHostSyscalls
  <2>2. /\ DOMAIN sysched'.pods = DOMAIN sysched.pods /\ sysched'.pods[n] = sysched.pods[n] \ {p}
        /\ \A m \in DOMAIN sysched.pods : m # n => sysched'.pods[m] = sysched.pods[m]
    BY <1>2, <2>1 DEF With
  <2>3. /\ DOMAIN sysched'.calls = DOMAIN sysched.calls
        /\ sysched'.calls[n] = UNION {got[q] : q \in sysched.pods[n] \ {p}}
        /\ \A m \in DOMAIN sysched.pods : m # n => sysched'.calls[m] = sysched.calls[m]
    BY <1>2, <2>1 DEF With, SySchedInv
  <2>4. /\ sysched'.pods # sysched.pods
        /\ \A q \in Pods : lastRead'[q] = IF q \in sysched.pods[n] \ {p} THEN got[q] ELSE lastRead[q]
    BY <1>2, <2>2
  <2>5. ASSUME NEW m \in DOMAIN sysched.pods PROVE HostExact(m)' /\ sysched'.pods[m] \subseteq Pods
    <3>1. \A q \in sysched'.pods[m] : q \in sysched.pods[m] /\ q \in Pods \ {p} /\ seen'[q] = seen[q]
      BY <1>0, <2>2 DEF SySchedInv
    <3>2. \A q \in sysched'.pods[m] : q \in Pods /\ seen'[q].node = m /\ seen'[q].phase # "Deleted"
      BY <3>1, HostsExact DEF HostExact
    <3>3. CASE m = n
      <4>1. \A q \in sysched'.pods[n] : lastRead'[q] = got[q]
        BY <2>2, <2>4, <3>1, <3>3
      <4>2. UNION {lastRead'[q] : q \in sysched'.pods[n]} = UNION {got[q] : q \in sysched'.pods[n]}
        BY <4>1
      <4>3. sysched'.calls[m] = UNION {got[q] : q \in sysched'.pods[n]}
        BY <2>2, <2>3, <3>3
      <4> QED BY <3>2, <3>3, <4>2, <4>3 DEF HostExact
    <3>4. CASE m # n
      <4>1. \A q \in sysched.pods[m] : q \notin sysched.pods[n]
        BY <1>2, <3>4, HostsExact DEF HostExact
      <4>2. \A q \in sysched.pods[m] : lastRead'[q] = lastRead[q]
        BY <2>4, <4>1 DEF SySchedInv
      <4>3. UNION {lastRead'[q] : q \in sysched.pods[m]} = UNION {lastRead[q] : q \in sysched.pods[m]}
        <5>1. UnionOf(lastRead', sysched.pods[m]) = UnionOf(lastRead, sysched.pods[m])
          BY <4>2, SameUnion, Zenon
        <5> QED BY <5>1 DEF UnionOf
      <4>4. sysched'.pods[m] = sysched.pods[m] /\ sysched'.calls[m] = sysched.calls[m]
        BY <2>2, <2>3, <3>4
      <4>5. sysched.calls[m] = UNION {lastRead[q] : q \in sysched.pods[m]}
        BY HostsExact DEF HostExact
      <4> QED BY <3>2, <4>3, <4>4, <4>5 DEF HostExact
    <3> QED BY <3>3, <3>4
  <2>6. DOMAIN sysched'.pods = DOMAIN sysched'.calls /\ DOMAIN sysched'.pods \subseteq Nodes
    BY <2>2, <2>3 DEF SySchedInv
  <2> QED BY <2>1, <2>2, <2>5, <2>6, HostsSuffice
<1> QED BY <1>1, <1>2

LEMMA SySchedEventKept ==
    ASSUME LifecycleInv, SySchedInv, NEW p \in Pods, DeliverStep(p), SySchedEvent(p),
           deployed = "SySched", UNCHANGED scenario
    PROVE  SySchedInv'
<1> DEFINE new == Head(feed[p])
<1>0. /\ new \in Versions /\ seen[p] \in Versions /\ Later(seen[p], new)
      /\ seen' = [seen EXCEPT ![p] = new] /\ seen \in [Pods -> Versions]
  <2>1. feed[p] \in Seq(Versions) /\ feed[p] # << >> /\ InOrder(p)
    BY DEF LifecycleInv, LifecycleTypes, DeliverStep
  <2>2. new \in Versions /\ new = feed[p][1] /\ 1 \in 1 .. Len(feed[p])
    BY <2>1
  <2> QED BY <2>1, <2>2 DEF LifecycleInv, LifecycleTypes, DeliverStep, InOrder
<1>1. PICK got :
         /\ sysched' = IF new.phase = "Deleted" THEN podDeleted(sysched, p, seen[p], got)
                       ELSE IF seen[p] = Unseen THEN podAdded(sysched, p, new, got)
                       ELSE podUpdated(sysched, p, seen[p], got)
         /\ lastRead' = [q \in Pods |->
                IF q \in (IF sysched'.pods = sysched.pods THEN {}
                          ELSE IF new.phase = "Deleted" THEN sysched'.pods[seen[p].node] ELSE {p})
                THEN got[q] ELSE lastRead[q]]
  BY DEF SySchedEvent
<1> HIDE DEF new
<1>2. seen'[p] = new /\ \A q \in Pods \ {p} : seen'[q] = seen[q]
  BY <1>0
<1>3. CASE new.phase = "Deleted"
  <2>1. sysched' = removePod(sysched, p, seen[p].node, got)
    BY <1>1, <1>3 DEF podDeleted
  <2>2. lastRead' = [q \in Pods |-> IF q \in (IF sysched'.pods = sysched.pods THEN {}
                                                ELSE sysched'.pods[seen[p].node]) THEN got[q] ELSE lastRead[q]]
    BY <1>1, <1>3
  <2>3. PICK n : n = seen[p].node
    OBVIOUS
  <2> QED BY <1>2, <2>1, <2>2, <2>3, RemovePodExact
<1>4. CASE new.phase # "Deleted" /\ sysched' = sysched
  <2>1. \A q \in Pods : lastRead'[q] = lastRead[q]
    BY <1>1, <1>4
  <2>2. ASSUME NEW m \in DOMAIN sysched.pods
        PROVE  /\ \A q \in sysched.pods[m] : seen'[q].node = m /\ seen'[q].phase # "Deleted"
               /\ sysched.calls[m] = UNION {lastRead'[q] : q \in sysched.pods[m]}
    <3>1. \A q \in sysched.pods[m] : q \in Pods /\ lastRead'[q] = lastRead[q]
      BY <2>1 DEF SySchedInv
    <3>2. UNION {lastRead'[q] : q \in sysched.pods[m]} = UNION {lastRead[q] : q \in sysched.pods[m]}
      <4>1. \A q \in sysched.pods[m] : lastRead'[q] = lastRead[q]
        BY <3>1
      <4>2. UnionOf(lastRead', sysched.pods[m]) = UnionOf(lastRead, sysched.pods[m])
        BY <4>1, SameUnion, Zenon
      <4> QED BY <4>2 DEF UnionOf
    <3>3. p \in sysched.pods[m] => new.node = m
      BY <1>0, LifecycleAssumption DEF SySchedInv, HostSyscallsExact, Later
    <3>4. \A q \in sysched.pods[m] : seen[q].node = m /\ seen[q].phase # "Deleted"
      BY DEF SySchedInv, HostSyscallsExact
    <3>5. \A q \in sysched.pods[m] : seen'[q].node = m /\ seen'[q].phase # "Deleted"
      BY <1>2, <1>4, <3>1, <3>3, <3>4
    <3> QED BY <3>2, <3>5 DEF SySchedInv, HostSyscallsExact
  <2> QED BY <1>4, <2>2 DEF SySchedInv, HostSyscallsExact, deployed
<1>5. ASSUME NEW n, new.phase # "Deleted", sysched' = addPod(sysched, p, n, got[p]),
             n \in Nodes, seen[p].node \in {NoNode, n}, new.node = n
      PROVE  SySchedInv'
  <2>1. lastRead' = [q \in Pods |-> IF q \in (IF sysched'.pods = sysched.pods THEN {} ELSE {p})
                                    THEN got[q] ELSE lastRead[q]]
    BY <1>1, <1>5
  <2> QED BY <1>2, <1>5, <2>1, AddPodExact
<1>6. CASE new.phase = "Running" /\ seen[p] = Unseen /\ sysched' = addPod(sysched, p, new.node, got[p])
  <2>1. PICK n : n = new.node
    OBVIOUS
  <2>2. n \in Nodes /\ seen[p].node = NoNode
    BY <1>0, <1>6, <2>1 DEF Versions, Unseen, Version
  <2> QED BY <1>5, <1>6, <2>1, <2>2
<1>7. CASE new.phase # "Deleted" /\ seen[p].phase = "Creating"
           /\ sysched' = addPod(sysched, p, seen[p].node, got[p])
  <2>1. PICK n : n = seen[p].node
    OBVIOUS
  <2>2. n \in Nodes /\ new.node = n
    BY <1>0, <1>7, <2>1 DEF Versions, Later
  <2> QED BY <1>5, <1>7, <2>1, <2>2
<1> QED BY <1>1, <1>3, <1>4, <1>6, <1>7 DEF podAdded, podUpdated

LEMMA SySchedKept ==
    ASSUME LifecycleInv, SySchedInv, [Next]_vars PROVE SySchedInv'
<1>1. CASE UNCHANGED <<syschedVars, seen, scenario>>
  BY <1>1 DEF SySchedInv, HostSyscallsExact, syschedVars, deployed
<1>2. ASSUME NEW p \in Pods, Deliver(p) PROVE SySchedInv'
  <2>1. DeliverStep(p) /\ UNCHANGED scenario
    BY <1>2 DEF Deliver
  <2>2. CASE deployed = "SySched" /\ SySchedEvent(p)
    BY <2>1, <2>2, SySchedEventKept
  <2>3. CASE deployed # "SySched" /\ UNCHANGED sysched
    BY <2>1, <2>3 DEF SySchedInv, HostSyscallsExact, deployed
  <2> QED BY <1>2, <2>2, <2>3 DEF Deliver, caches, syschedVars
<1>3. ASSUME NEW p \in Pods, Cluster(p) PROVE UNCHANGED <<syschedVars, seen, scenario>>
  BY <1>3 DEF Cluster, caches, KubeletStep, DeleteStep, ForeignBind
<1>4. ASSUME NEW p \in Own,
             \/ \E n \in Nodes : Filter(p, n) \/ CannotAlign(p, n)
             \/ Reserve(p) \/ PostBind(p) \/ Unreserve(p)
      PROVE  UNCHANGED <<syschedVars, seen, scenario>>
  BY <1>4, ZenonT(30) DEF Filter, CannotAlign, Reserve, PostBind, Unreserve, caches, lifecycle,
                          StartCycle, ReserveStep, PostBindStep, UnreserveStep, MoveTo
<1>5. ASSUME NEW p \in Own, Binding(p) \/ BindAnswerLost(p)
      PROVE  UNCHANGED <<syschedVars, seen, scenario>>
  BY <1>5, ZenonT(30) DEF Binding, BindAnswerLost, Bind, BindFails, BindLost, MoveTo, caches
<1>6. ASSUME NEW n \in Nodes, AgentReports(n) \/ ConfChanges(n) \/ WatchStep(n)
      PROVE  UNCHANGED <<syschedVars, seen, scenario>>
  BY <1>6, ZenonT(30) DEF AgentReports, ConfChanges, WatchStep, lifecycle
<1>7. CASE ResyncStep \/ Tick \/ Cleanup \/ (\E ns \in DOMAIN Quotas : ChangeQuota(ns)) \/ UNCHANGED vars
  BY <1>1, <1>7, ZenonT(30) DEF ResyncStep, Tick, Cleanup, ChangeQuota, vars, caches, lifecycle
<1>8. CASE Restart
  BY <1>8 DEF Restart, NewSySched, SySchedInv, HostSyscallsExact
<1> QED BY <1>1, <1>2, <1>3, <1>4, <1>5, <1>6, <1>7, <1>8, ZenonT(30) DEF Next

\* SySched keeps for a host pods the informer shows there, and as its system
\* calls exactly what was last read of them: for any order in which the informer
\* shows additions, updates and removals, and whatever each read answers.
THEOREM SyscallsExact == Spec => []HostSyscallsExact
<1>1. ASSUME Init PROVE LifecycleInv /\ SySchedInv
  <2>1. LifecycleInv
    BY <1>1, LifecycleStart DEF Init
  <2>2. sysched = NewSySched
    BY <1>1 DEF Init
  <2>3. SySchedInv
    BY <2>2 DEF NewSySched, SySchedInv, HostSyscallsExact
  <2> QED BY <2>1, <2>3
<1>2. (LifecycleInv /\ SySchedInv) /\ [Next]_vars => (LifecycleInv /\ SySchedInv)'
  BY LifecycleKept, SySchedKept
<1>3. SySchedInv => HostSyscallsExact
  BY DEF SySchedInv
<1> QED BY <1>1, <1>2, <1>3, PTL DEF Spec

-----------------------------------------------------------------------------
(* Trimaran: the bisection finds the first recent entry.                   *)

Entries == [pod : Pods, at : Int]
InTimeOrder(s) == \A i, j \in 1 .. Len(s) : i <= j => s[i].at <= s[j].at

\* The entries of s before c are old, the others recent.
Splits(s, t, c) == c \in 0 .. Len(s) /\ \A k \in 1 .. Len(s) : IsRecent(s[k], t) <=> k > c

LEMMA SplitExists ==
    ASSUME NEW s \in Seq(Entries), InTimeOrder(s), NEW t \in Int
    PROVE  \E c : Splits(s, t, c)
<1> DEFINE R == {k \in Nat : k \in 1 .. Len(s) /\ IsRecent(s[k], t)}
<1>0. Len(s) \in Nat /\ \A k \in 1 .. Len(s) : s[k].at \in Int
  <2>1. Len(s) \in Nat /\ \A k \in 1 .. Len(s) : s[k] \in Entries
    OBVIOUS
  <2> QED BY <2>1 DEF Entries
<1>1. CASE R = {}
  <2>1. Splits(s, t, Len(s))
    BY <1>0, <1>1 DEF Splits
  <2> QED BY <2>1
<1>2. CASE R # {}
  <2>1. PICK r \in R : \A k \in R : r <= k
    BY <1>2, LeastNatural, Zenon
  <2>2. Splits(s, t, r - 1)
    BY <1>0, <2>1, ClockAssumption DEF Splits, IsRecent, InTimeOrder
  <2> QED BY <2>2
<1> QED BY <1>1, <1>2

Bisects(s, t, g) ==
    g = [r \in (0 .. Len(s)) \X (0 .. Len(s)) |->
            IF r[1] >= r[2] THEN r[1]
            ELSE LET h == (r[1] + r[2]) \div 2 IN
                 IF ~IsRecent(s[h + 1], t) THEN g[<<h + 1, r[2]>>] ELSE g[<<r[1], h>>]]

\* Where the bisection of i .. j ends.
Found(i, j, c) == IF i >= j \/ c < i THEN i ELSE IF c > j THEN j ELSE c

LEMMA Halves ==
    ASSUME NEW i \in Nat, NEW j \in Nat, i < j, NEW h, h = (i + j) \div 2
    PROVE  h \in Nat /\ i <= h /\ h < j
  OBVIOUS

LEMMA BisectionExists ==
    ASSUME NEW s \in Seq(Entries), NEW t \in Int, NEW c, Splits(s, t, c)
    PROVE  \E g : Bisects(s, t, g)
<1> DEFINE N == Len(s)
           g == [r \in (0 .. N) \X (0 .. N) |-> Found(r[1], r[2], c)]
<1>0. N \in Nat /\ c \in 0 .. N
  BY DEF Splits
<1>1. ASSUME NEW i \in 0 .. N, NEW j \in 0 .. N
      PROVE  Found(i, j, c) =
                IF i >= j THEN i
                ELSE LET h == (i + j) \div 2 IN
                     IF ~IsRecent(s[h + 1], t) THEN g[<<h + 1, j>>] ELSE g[<<i, h>>]
  <2>1. CASE i >= j
    BY <2>1 DEF Found
  <2>2. CASE i < j
    <3> DEFINE h == (i + j) \div 2
    <3>1. h \in Nat /\ i <= h /\ h < j
      BY <2>2, Halves
    <3>2. h + 1 \in 1 .. N /\ h \in 0 .. N /\ h + 1 \in 0 .. N
      BY <1>0, <3>1
    <3>3. IsRecent(s[h + 1], t) <=> h + 1 > c
      BY <3>2 DEF Splits
    <3>4. g[<<h + 1, j>>] = Found(h + 1, j, c) /\ g[<<i, h>>] = Found(i, h, c)
      BY <3>2
    <3> HIDE DEF h, g
    <3>5. CASE ~IsRecent(s[h + 1], t)
      <4>1. Found(i, j, c) = Found(h + 1, j, c)
        BY <1>0, <2>2, <3>1, <3>3, <3>5 DEF Found
      <4> QED BY <1>0, <2>2, <3>4, <3>5, <4>1 DEF h
    <3>6. CASE IsRecent(s[h + 1], t)
      <4>1. Found(i, j, c) = Found(i, h, c)
        BY <1>0, <2>2, <3>1, <3>3, <3>6 DEF Found
      <4> QED BY <1>0, <2>2, <3>4, <3>6, <4>1 DEF h
    <3> QED BY <3>5, <3>6
  <2> QED BY <1>0, <2>1, <2>2
<1>2. Bisects(s, t, g)
  BY <1>1, ZenonT(30) DEF Bisects
<1> QED BY <1>2

LEMMA BisectionFinds ==
    ASSUME NEW s \in Seq(Entries), NEW t \in Int, NEW c, Splits(s, t, c), NEW g, Bisects(s, t, g)
    PROVE  g[<<0, Len(s)>>] = c
<1> DEFINE N == Len(s)
           B == {d \in Nat : \E i, j \in 0 .. N : d = j - i /\ g[<<i, j>>] # Found(i, j, c)}
<1>0. N \in Nat /\ c \in 0 .. N
  BY DEF Splits
<1>1. ASSUME NEW i \in 0 .. N, NEW j \in 0 .. N
      PROVE  g[<<i, j>>] = IF i >= j THEN i
                       ELSE LET h == (i + j) \div 2 IN
                            IF ~IsRecent(s[h + 1], t) THEN g[<<h + 1, j>>] ELSE g[<<i, h>>]
  BY Zenon DEF Bisects
<1>2. ASSUME B # {} PROVE FALSE
  <2>1. PICK d \in B : \A k \in B : d <= k
    BY <1>2, LeastNatural, Zenon
  <2>2. PICK i \in 0 .. N, j \in 0 .. N : d = j - i /\ g[<<i, j>>] # Found(i, j, c)
    BY <2>1, ZenonT(30)
  <2>3. i < j
    <3> SUFFICES ASSUME i >= j PROVE FALSE
      BY <1>0
    <3>1. g[<<i, j>>] = i
      BY <1>1, Zenon
    <3> QED BY <2>2, <3>1 DEF Found
  <2> DEFINE h == (i + j) \div 2
  <2>4. h \in Nat /\ i <= h /\ h < j
    BY <2>3, Halves
  <2>5. h + 1 \in 1 .. N /\ h \in 0 .. N /\ h + 1 \in 0 .. N
    BY <1>0, <2>4
  <2>6. IsRecent(s[h + 1], t) <=> h + 1 > c
    BY <2>5 DEF Splits
  <2>7. g[<<i, j>>] = IF ~IsRecent(s[h + 1], t) THEN g[<<h + 1, j>>] ELSE g[<<i, h>>]
    BY <1>1, <2>3
  <2> HIDE DEF h
  <2>8. g[<<h + 1, j>>] = Found(h + 1, j, c)
    <3> SUFFICES ASSUME g[<<h + 1, j>>] # Found(h + 1, j, c) PROVE FALSE
      OBVIOUS
    <3>1. j - (h + 1) \in Nat /\ ~(d <= j - (h + 1))
      BY <1>0, <2>2, <2>4
    <3>2. j - (h + 1) \in B
      BY <2>5, <3>1, Zenon
    <3> QED BY <2>1, <3>1, <3>2, ZenonT(30)
  <2>9. g[<<i, h>>] = Found(i, h, c)
    <3> SUFFICES ASSUME g[<<i, h>>] # Found(i, h, c) PROVE FALSE
      OBVIOUS
    <3>1. h - i \in Nat /\ ~(d <= h - i)
      BY <1>0, <2>2, <2>4
    <3>2. h - i \in B
      BY <2>5, <3>1, ZenonT(30)
    <3> QED BY <2>1, <3>1, <3>2, ZenonT(30)
  <2> HIDE DEF B
  <2>10. CASE ~IsRecent(s[h + 1], t)
    <3>1. Found(i, j, c) = Found(h + 1, j, c)
      BY <1>0, <2>3, <2>4, <2>6, <2>10 DEF Found
    <3> QED BY <2>2, <2>7, <2>8, <2>10, <3>1
  <2>11. CASE IsRecent(s[h + 1], t)
    <3>1. Found(i, j, c) = Found(i, h, c)
      BY <1>0, <2>3, <2>4, <2>6, <2>11 DEF Found
    <3> QED BY <2>2, <2>7, <2>9, <2>11, <3>1
  <2> QED BY <2>10, <2>11
<1>3. g[<<0, N>>] = Found(0, N, c)
  BY <1>0, <1>2
<1> QED BY <1>0, <1>3 DEF Found

\* sort.Search over entries in time order returns the number of old entries.
LEMMA SearchFinds ==
    ASSUME NEW s \in Seq(Entries), InTimeOrder(s), NEW t \in Int
    PROVE  Splits(s, t, SortSearch(s, t))
<1>1. PICK c : Splits(s, t, c)
  BY SplitExists
<1> DEFINE g == CHOOSE h : Bisects(s, t, h)
<1>2. Bisects(s, t, g)
  BY <1>1, BisectionExists
<1>3. SortSearch(s, t) = g[<<0, Len(s)>>]
  BY DEF SortSearch, Bisects
<1> HIDE DEF g
<1>4. g[<<0, Len(s)>>] = c
  BY <1>1, <1>2, BisectionFinds
<1> QED BY <1>1, <1>3, <1>4

-----------------------------------------------------------------------------
(* Trimaran: the cache.                                                    *)

\* The entries s of node n: in time order, none later than t, each of a pod
\* shown there, made when it was assigned, and no two of the same pod.
Orderly(s, n, shown, at, t) ==
    /\ s \in Seq(Entries)
    /\ \A i \in 1 .. Len(s) :
          /\ shown[s[i].pod].node = n
          /\ s[i].at = at[s[i].pod] /\ s[i].at <= t
          /\ \A j \in 1 .. Len(s) : i < j => s[i].at <= s[j].at /\ s[i].pod # s[j].pod

Holds(s, p) == \E i \in 1 .. Len(s) : s[i].pod = p

LEMMA EntryTypes ==
    ASSUME NEW s \in Seq(Entries), NEW i \in 1 .. Len(s)
    PROVE  s[i] \in Entries /\ s[i].pod \in Pods /\ s[i].at \in Int
<1>1. s[i] \in Entries
  OBVIOUS
<1> QED BY <1>1 DEF Entries

LEMMA OrderlySorted ==
    ASSUME NEW s, NEW n, NEW shown, NEW at, NEW t, Orderly(s, n, shown, at, t)
    PROVE  InTimeOrder(s)
<1> SUFFICES ASSUME NEW i \in 1 .. Len(s), NEW j \in 1 .. Len(s), i <= j
             PROVE  s[i].at <= s[j].at
  BY DEF InTimeOrder
<1>0. s \in Seq(Entries) /\ s[i].at \in Int /\ Len(s) \in Nat
  BY EntryTypes DEF Orderly
<1>1. CASE i = j
  BY <1>0, <1>1
<1>2. CASE i < j
  BY <1>2 DEF Orderly
<1> QED BY <1>0, <1>1, <1>2

\* Entries taken out of an orderly sequence leave one.
LEMMA OrderlyPart ==
    ASSUME NEW s, NEW n, NEW shown, NEW at, NEW t, Orderly(s, n, shown, at, t),
           NEW u \in Seq(Entries), NEW m \in [1 .. Len(u) -> 1 .. Len(s)],
           \A i, j \in 1 .. Len(u) : i < j => m[i] < m[j],
           \A i \in 1 .. Len(u) : u[i] = s[m[i]]
    PROVE  Orderly(u, n, shown, at, t)
<1>1. ASSUME NEW i \in 1 .. Len(u)
      PROVE  /\ shown[u[i].pod].node = n
             /\ u[i].at = at[u[i].pod] /\ u[i].at <= t
             /\ \A j \in 1 .. Len(u) : i < j => u[i].at <= u[j].at /\ u[i].pod # u[j].pod
  <2>1. m[i] \in 1 .. Len(s) /\ u[i] = s[m[i]]
    OBVIOUS
  <2>2. ASSUME NEW j \in 1 .. Len(u), i < j
        PROVE  u[i].at <= u[j].at /\ u[i].pod # u[j].pod
    <3>1. m[j] \in 1 .. Len(s) /\ m[i] < m[j] /\ u[j] = s[m[j]]
      BY <2>2
    <3> QED BY <2>1, <3>1 DEF Orderly
  <2> QED BY <2>1, <2>2, ZenonT(30) DEF Orderly
<1> QED BY <1>1 DEF Orderly

\* cleanupCache keeps every recent entry.
LEMMA CleanKeepsRecent ==
    ASSUME NEW s, NEW n, NEW shown, NEW at, NEW t \in Int, Orderly(s, n, shown, at, t)
    PROVE  /\ Orderly(CleanEntries(s, t), n, shown, at, t)
           /\ \A p \in Pods : Holds(s, p) /\ at[p] + ReportingInterval > t => Holds(CleanEntries(s, t), p)
<1> DEFINE c == SortSearch(s, t)
           N == Len(s)
<1>0. s \in Seq(Entries) /\ N \in Nat
  BY DEF Orderly
<1>1. c \in 0 .. N /\ \A k \in 1 .. N : IsRecent(s[k], t) <=> k > c
  BY <1>0, SearchFinds, OrderlySorted DEF Splits
<1> HIDE DEF c
<1>2. CASE c = N
  BY <1>2 DEF CleanEntries, c
<1>3. CASE c # N
  <2> DEFINE u == SubSeq(s, c + 1, N)
  <2>1. CleanEntries(s, t) = u
    BY <1>3, ZenonT(30) DEF CleanEntries, c
  <2>2. \A i \in (c + 1) .. N : s[i] \in Entries
    BY <1>0, <1>1
  <2>3. /\ u \in Seq(Entries) /\ Len(u) = N - c
        /\ \A i \in 1 .. N - c : u[i] = s[c + i]
    BY <1>0, <1>1, <1>3, <2>2, SubSeqProperties
  <2> HIDE DEF u
  <2> DEFINE m == [i \in 1 .. Len(u) |-> c + i]
  <2>4. /\ m \in [1 .. Len(u) -> 1 .. Len(s)]
        /\ \A i, j \in 1 .. Len(u) : i < j => m[i] < m[j]
        /\ \A i \in 1 .. Len(u) : u[i] = s[m[i]]
    BY <1>0, <1>1, <2>3
  <2> HIDE DEF m
  <2>5. Orderly(u, n, shown, at, t)
    BY <2>3, <2>4, OrderlyPart, ZenonT(30)
  <2>6. ASSUME NEW p \in Pods, Holds(s, p), at[p] + ReportingInterval > t
        PROVE  Holds(u, p)
    <3>1. PICK k \in 1 .. N : s[k].pod = p
      BY <2>6 DEF Holds
    <3>2. s[k].at = at[p]
      BY <3>1 DEF Orderly
    <3>3. k > c
      BY <1>1, <2>6, <3>2 DEF IsRecent
    <3>4. k - c \in 1 .. N - c /\ u[k - c] = s[k]
      BY <1>0, <1>1, <2>3, <3>3
    <3> QED BY <2>3, <3>1, <3>4 DEF Holds
  <2> QED BY <2>1, <2>5, <2>6
<1> QED BY <1>2, <1>3

Live(v) == v.node # NoNode /\ v.phase # "Deleted"
TrimaranInv ==
    deployed = "Trimaran" =>
        /\ scheduledPods \in [Nodes -> Seq(Entries)]
        /\ now \in Int /\ assignedAt \in [Pods -> Int]
        /\ \A n \in Nodes : Orderly(scheduledPods[n], n, seen, assignedAt, now)
        /\ \A p \in Pods : Live(seen[p]) /\ assignedAt[p] + ReportingInterval > now
                            => Holds(scheduledPods[seen[p].node], p)

\* The informer shows p on a node for the first time.
LEMMA AddEventOrderly ==
    ASSUME NEW n \in Nodes, NEW m \in Nodes, NEW s, Orderly(s, m, seen, assignedAt, now),
           NEW p \in Pods, seen \in [Pods -> Versions], seen[p].node = NoNode,
           NEW v \in Versions, v.node = n, seen' = [seen EXCEPT ![p] = v],
           now \in Int, assignedAt \in [Pods -> Int], assignedAt' = [assignedAt EXCEPT ![p] = now]
    PROVE  /\ Orderly(s, m, seen', assignedAt', now)
           /\ m = n => Orderly(Append(s, [pod |-> p, at |-> now]), m, seen', assignedAt', now)
<1>0. s \in Seq(Entries) /\ Len(s) \in Nat
  BY DEF Orderly
<1>1. \A i \in 1 .. Len(s) : s[i].pod \in Pods /\ s[i].at \in Int /\ s[i].pod # p
  <2>1. \A i \in 1 .. Len(s) : s[i].pod \in Pods /\ s[i].at \in Int
    BY <1>0, EntryTypes, ZenonT(30)
  <2> QED BY <2>1, LifecycleAssumption DEF Orderly
<1>2. \A i \in 1 .. Len(s) : seen'[s[i].pod] = seen[s[i].pod] /\ assignedAt'[s[i].pod] = assignedAt[s[i].pod]
  BY <1>1
<1>3. Orderly(s, m, seen', assignedAt', now)
  BY <1>2, ZenonT(30) DEF Orderly
<1>4. ASSUME m = n PROVE Orderly(Append(s, [pod |-> p, at |-> now]), m, seen', assignedAt', now)
  <2> DEFINE e == [pod |-> p, at |-> now]
             u == Append(s, e)
  <2>1. e \in Entries /\ e.pod = p /\ e.at = now
    BY DEF Entries
  <2> HIDE DEF e
  <2>2. /\ u \in Seq(Entries) /\ Len(u) = Len(s) + 1 /\ u[Len(s) + 1] = e
        /\ \A i \in 1 .. Len(s) : u[i] = s[i]
    BY <1>0, <2>1, AppendProperties
  <2>3. \A i \in 1 .. Len(u) : i \in 1 .. Len(s) \/ i = Len(s) + 1
    BY <1>0, <2>2
  <2>4. seen'[p].node = m /\ assignedAt'[p] = now
    BY <1>4
  <2> HIDE DEF u
  <2>5. ASSUME NEW i \in 1 .. Len(u)
        PROVE  /\ seen'[u[i].pod].node = m
               /\ u[i].at = assignedAt'[u[i].pod] /\ u[i].at <= now
               /\ \A j \in 1 .. Len(u) : i < j => u[i].at <= u[j].at /\ u[i].pod # u[j].pod
    <3>1. CASE i = Len(s) + 1
      BY <1>0, <2>1, <2>2, <2>4, <3>1
    <3>2. CASE i \in 1 .. Len(s)
      <4>1. /\ seen'[s[i].pod].node = m
            /\ s[i].at = assignedAt'[s[i].pod] /\ s[i].at <= now
            /\ \A j \in 1 .. Len(s) : i < j => s[i].at <= s[j].at /\ s[i].pod # s[j].pod
        BY <1>3, <3>2, ZenonT(30) DEF Orderly
      <4> QED BY <1>1, <2>1, <2>2, <2>3, <3>2, <4>1, ZenonT(30)
    <3> QED BY <2>3, <3>1, <3>2, ZenonT(30)
  <2> QED BY <2>2, <2>5, ZenonT(30) DEF Orderly, u, e
<1> QED BY <1>3, <1>4

\* A pod that is not in s may change.
LEMMA OtherPodOrderly ==
    ASSUME NEW s, NEW n, Orderly(s, n, seen, assignedAt, now), NEW p \in Pods,
           seen \in [Pods -> Versions], NEW v, seen' = [seen EXCEPT ![p] = v],
           v.node = n \/ ~Holds(s, p)
    PROVE  Orderly(s, n, seen', assignedAt, now)
<1>1. \A i \in 1 .. Len(s) : s[i].pod \in Pods
  BY EntryTypes DEF Orderly
<1>2. \A i \in 1 .. Len(s) : seen'[s[i].pod].node = n
  BY <1>1 DEF Orderly, Holds
<1> QED BY <1>2, ZenonT(30) DEF Orderly

\* OnDelete takes out the entry of p and no other.
LEMMA RemoveOrderly ==
    ASSUME NEW s, NEW n \in Nodes, Orderly(s, n, seen, assignedAt, now), NEW p \in Pods,
           NEW i \in 1 .. Len(s), s[i].pod = p
    PROVE  /\ Orderly(WithoutEntry(s, i), n, seen, assignedAt, now)
           /\ ~Holds(WithoutEntry(s, i), p)
           /\ \A q \in Pods \ {p} : Holds(s, q) => Holds(WithoutEntry(s, i), q)
<1> DEFINE N == Len(s)
           a == SubSeq(s, 1, i - 1)
           b == SubSeq(s, i + 1, N)
           u == WithoutEntry(s, i)
<1>0. s \in Seq(Entries) /\ N \in Nat /\ \A k \in 1 .. N : s[k] \in Entries
  BY DEF Orderly
<1>1. /\ a \in Seq(Entries) /\ Len(a) = i - 1
      /\ \A k \in 1 .. i - 1 : a[k] = s[k]
  <2>1. \A k \in 1 .. i - 1 : s[k] \in Entries
    BY <1>0
  <2> QED BY <1>0, <2>1, SubSeqProperties
<1>2. /\ b \in Seq(Entries) /\ Len(b) = N - i
      /\ \A k \in 1 .. N - i : b[k] = s[i + k]
  <2>1. \A k \in (i + 1) .. N : s[k] \in Entries
    BY <1>0
  <2> QED BY <1>0, <2>1, SubSeqProperties
<1>3. u = a \o b
  BY DEF WithoutEntry
<1> HIDE DEF a, b, u
<1>4. /\ u \in Seq(Entries) /\ Len(u) = N - 1
      /\ \A k \in 1 .. N - 1 : u[k] = IF k < i THEN s[k] ELSE s[k + 1]
  <2>1. /\ u \in Seq(Entries) /\ Len(u) = Len(a) + Len(b)
        /\ \A k \in 1 .. Len(a) + Len(b) : u[k] = IF k <= Len(a) THEN a[k] ELSE b[k - Len(a)]
    BY <1>1, <1>2, <1>3, ConcatProperties, ZenonT(30)
  <2>2. Len(u) = N - 1 /\ Len(a) + Len(b) = N - 1
    BY <1>0, <1>1, <1>2, <2>1
  <2>3. ASSUME NEW k \in 1 .. N - 1 PROVE u[k] = IF k < i THEN s[k] ELSE s[k + 1]
    <3>1. CASE k < i
      <4>1. u[k] = a[k] /\ k \in 1 .. i - 1
        BY <1>0, <1>1, <2>1, <2>2, <3>1
      <4> QED BY <1>1, <3>1, <4>1
    <3>2. CASE ~(k < i)
      <4>1. u[k] = b[k - (i - 1)] /\ k - (i - 1) \in 1 .. N - i
        BY <1>0, <1>1, <2>1, <2>2, <3>2
      <4>2. b[k - (i - 1)] = s[i + (k - (i - 1))]
        BY <1>2, <4>1
      <4>3. i + (k - (i - 1)) = k + 1
        BY <1>0
      <4> QED BY <3>2, <4>1, <4>2, <4>3
    <3> QED BY <3>1, <3>2
  <2> QED BY <2>1, <2>2, <2>3
<1> DEFINE m == [k \in 1 .. Len(u) |-> IF k < i THEN k ELSE k + 1]
<1>5. /\ m \in [1 .. Len(u) -> 1 .. Len(s)]
      /\ \A k, j \in 1 .. Len(u) : k < j => m[k] < m[j]
      /\ \A k \in 1 .. Len(u) : u[k] = s[m[k]] /\ m[k] # i
  BY <1>0, <1>4
<1> HIDE DEF m
<1>6. Orderly(u, n, seen, assignedAt, now)
  <2>1. \A k \in 1 .. Len(u) : u[k] = s[m[k]]
    BY <1>5, ZenonT(30)
  <2>2. m \in [1 .. Len(u) -> 1 .. Len(s)] /\ \A k, j \in 1 .. Len(u) : k < j => m[k] < m[j]
    BY <1>5
  <2>3. u \in Seq(Entries)
    BY <1>4
  <2> QED BY <2>1, <2>2, <2>3, OrderlyPart, Zenon
<1>7. \A k \in 1 .. N : k # i => s[k].pod # p
  BY <1>0 DEF Orderly
<1>8. ~Holds(u, p)
  BY <1>5, <1>7 DEF Holds
<1>9. ASSUME NEW q \in Pods \ {p}, Holds(s, q) PROVE Holds(u, q)
  <2>1. PICK k \in 1 .. N : s[k].pod = q
    BY <1>9 DEF Holds
  <2>2. CASE k < i
    <3>1. k \in 1 .. Len(u) /\ u[k] = s[k]
      BY <1>0, <1>4, <2>2
    <3> QED BY <2>1, <3>1 DEF Holds
  <2>3. CASE k > i
    <3>1. k - 1 \in 1 .. Len(u) /\ u[k - 1] = s[k]
      BY <1>0, <1>4, <2>3
    <3> QED BY <2>1, <3>1 DEF Holds
  <2> QED BY <1>0, <2>1, <2>2, <2>3
<1> QED BY <1>6, <1>8, <1>9 DEF u

LEMMA TrimaranEventKept ==
    ASSUME LifecycleInv, TrimaranInv, deployed = "Trimaran", NEW p \in Pods,
           DeliverStep(p), TrimaranEvent(p), UNCHANGED scenario
    PROVE  TrimaranInv'
<1> DEFINE new == Head(feed[p])
<1>0. /\ new \in Versions /\ seen[p] \in Versions /\ Later(seen[p], new)
      /\ seen' = [seen EXCEPT ![p] = new] /\ seen \in [Pods -> Versions]
  <2>1. feed[p] \in Seq(Versions) /\ feed[p] # << >> /\ InOrder(p)
    BY DEF LifecycleInv, LifecycleTypes, DeliverStep
  <2>2. new \in Versions /\ new = feed[p][1] /\ 1 \in 1 .. Len(feed[p])
    BY <2>1
  <2> QED BY <2>1, <2>2 DEF LifecycleInv, LifecycleTypes, DeliverStep, InOrder
<1> HIDE DEF new
<1>1. /\ scheduledPods \in [Nodes -> Seq(Entries)]
      /\ now \in Int /\ assignedAt \in [Pods -> Int]
      /\ \A n \in Nodes : Orderly(scheduledPods[n], n, seen, assignedAt, now)
      /\ \A q \in Pods : Live(seen[q]) /\ assignedAt[q] + ReportingInterval > now
                          => Holds(scheduledPods[seen[q].node], q)
  BY ZenonT(30) DEF TrimaranInv
<1>2. \A v \in Versions : v.node # NoNode => v.node \in Nodes
  BY DEF Versions
<1>3. \A n \in Nodes, q \in Pods : Holds(scheduledPods[n], q) => seen[q].node = n
  BY <1>1 DEF Orderly, Holds
<1>4. \A q \in Pods \ {p} : seen'[q] = seen[q]
  BY <1>0
<1>5. seen'[p] = new /\ now' = now
  BY <1>0 DEF TrimaranEvent
<1>6. CASE /\ scheduledPods' = scheduledPods /\ assignedAt' = assignedAt
           /\ seen[p].node # NoNode => new.node = seen[p].node
           /\ Live(new) => Live(seen[p])
  <2>1. ASSUME NEW n \in Nodes PROVE Orderly(scheduledPods'[n], n, seen', assignedAt', now')
    <3>1. new.node = n \/ ~Holds(scheduledPods[n], p)
      BY <1>3, <1>6, LifecycleAssumption
    <3>2. Orderly(scheduledPods[n], n, seen, assignedAt, now)
      BY <1>1
    <3>3. Orderly(scheduledPods[n], n, seen', assignedAt, now)
      BY <1>0, <3>1, <3>2, OtherPodOrderly, ZenonT(30)
    <3> QED BY <1>5, <1>6, <3>3, ZenonT(30)
  <2>2. ASSUME NEW q \in Pods, Live(seen'[q]), assignedAt'[q] + ReportingInterval > now'
        PROVE  Holds(scheduledPods'[seen'[q].node], q)
    <3>1. Live(seen[q]) /\ seen'[q].node = seen[q].node
      BY <1>4, <1>5, <1>6, <2>2, ZenonT(30) DEF Live
    <3> QED BY <1>1, <1>5, <1>6, <2>2, <3>1, ZenonT(30)
  <2> QED BY <1>1, <1>5, <1>6, <2>1, <2>2 DEF TrimaranInv
<1>7. CASE FilteredEvent(seen[p], new) = "add"
  <2>1. seen[p].node = NoNode /\ new.node # NoNode
    BY <1>7 DEF FilteredEvent
  <2> DEFINE n == new.node
             e == [pod |-> p, at |-> now]
  <2>2. /\ scheduledPods' = [scheduledPods EXCEPT ![n] = Append(scheduledPods[n], e)]
        /\ assignedAt' = [assignedAt EXCEPT ![p] = now]
    BY <1>7 DEF TrimaranEvent, updateCache, new
  <2>3. n \in Nodes /\ e \in Entries /\ e.pod = p
    BY <1>0, <1>1, <1>2, <2>1 DEF Entries
  <2>4. ASSUME NEW m \in Nodes PROVE Orderly(scheduledPods'[m], m, seen', assignedAt', now')
    <3>1. Orderly(scheduledPods[m], m, seen, assignedAt, now)
      BY <1>1
    <3>2. /\ Orderly(scheduledPods[m], m, seen', assignedAt', now)
          /\ m = n => Orderly(Append(scheduledPods[m], e), m, seen', assignedAt', now)
      BY <1>0, <1>1, <2>1, <2>2, <2>3, <3>1, AddEventOrderly, ZenonT(30)
    <3> QED BY <1>1, <1>5, <2>2, <2>3, <3>2, ZenonT(30)
  <2>5. ASSUME NEW q \in Pods, Live(seen'[q]), assignedAt'[q] + ReportingInterval > now'
        PROVE  Holds(scheduledPods'[seen'[q].node], q)
    <3> HIDE DEF e
    <3>0. \A s \in Seq(Entries) : /\ Append(s, e) \in Seq(Entries)
                                   /\ Holds(Append(s, e), p) /\ (Holds(s, q) => Holds(Append(s, e), q))
      <4> SUFFICES ASSUME NEW s \in Seq(Entries)
                   PROVE  /\ Append(s, e) \in Seq(Entries)
                          /\ Holds(Append(s, e), p) /\ (Holds(s, q) => Holds(Append(s, e), q))
        OBVIOUS
      <4>1. /\ Append(s, e) \in Seq(Entries) /\ Len(s) \in Nat /\ Len(Append(s, e)) = Len(s) + 1
            /\ Append(s, e)[Len(s) + 1] = e /\ \A i \in 1 .. Len(s) : Append(s, e)[i] = s[i]
        BY <2>3, AppendProperties
      <4> QED BY <2>3, <4>1 DEF Holds
    <3>1. CASE q = p
      BY <1>1, <1>5, <2>2, <2>3, <3>0, <3>1, ZenonT(30)
    <3>2. CASE q # p
      <4>1. seen'[q] = seen[q] /\ assignedAt'[q] = assignedAt[q] /\ seen[q].node \in Nodes
        BY <1>0, <1>1, <1>2, <1>4, <2>2, <2>5, <3>2, ZenonT(30) DEF Live
      <4>2. Holds(scheduledPods[seen[q].node], q)
        BY <1>1, <1>5, <2>5, <4>1, ZenonT(30)
      <4>3. scheduledPods'[seen[q].node] \in {scheduledPods[seen[q].node], Append(scheduledPods[seen[q].node], e)}
        BY <1>1, <2>2, <4>1, ZenonT(30)
      <4> QED BY <1>1, <3>0, <4>1, <4>2, <4>3, ZenonT(30)
    <3> QED BY <3>1, <3>2, ZenonT(30)
  <2>6. scheduledPods' \in [Nodes -> Seq(Entries)] /\ assignedAt' \in [Pods -> Int]
    BY <1>1, <2>2, <2>3
  <2> QED BY <1>1, <1>5, <2>4, <2>5, <2>6, ZenonT(30) DEF TrimaranInv
<1>8. CASE FilteredEvent(seen[p], new) = "update"
  <2>1. seen[p].node # NoNode /\ new.node = seen[p].node /\ (Live(new) => Live(seen[p]))
    BY <1>0, <1>8 DEF FilteredEvent, Later, Live
  <2>2. scheduledPods' = scheduledPods /\ assignedAt' = assignedAt
    BY <1>8, <2>1 DEF TrimaranEvent, OnUpdate, new
  <2> QED BY <1>6, <2>1, <2>2
<1>9. CASE FilteredEvent(seen[p], new) = "none"
  <2>1. seen[p].node = NoNode /\ ~Live(new)
    BY <1>0, <1>9 DEF FilteredEvent, Later, Live
  <2>2. scheduledPods' = scheduledPods /\ assignedAt' = assignedAt
    BY <1>9 DEF TrimaranEvent, new
  <2> QED BY <1>6, <2>1, <2>2
<1>10. CASE FilteredEvent(seen[p], new) = "delete"
  <2> DEFINE n == new.node
             s == scheduledPods[n]
  <2>1. n \in Nodes /\ n = seen[p].node /\ ~Live(new)
    BY <1>0, <1>2, <1>10 DEF FilteredEvent, Later, Live
  <2>2. scheduledPods' = OnDelete(scheduledPods, p, n) /\ assignedAt' = assignedAt
    BY <1>10 DEF TrimaranEvent, new
  <2>3. s \in Seq(Entries) /\ Orderly(s, n, seen, assignedAt, now) /\ DOMAIN s = 1 .. Len(s) /\ Len(s) \in Nat
    BY <1>1, <2>1
  <2> HIDE DEF n
  <2>4. CASE ~Holds(s, p)
    <3>1. scheduledPods' = scheduledPods
      BY <2>2, <2>3, <2>4 DEF OnDelete, Holds
    <3> QED BY <1>6, <2>1, <2>2, <3>1 DEF n
  <2>5. CASE Holds(s, p)
    <3> DEFINE First(j) == s[j].pod = p /\ \A k \in 1 .. j - 1 : s[k].pod # p
               i == CHOOSE j \in DOMAIN s : First(j)
    <3>1. PICK j \in 1 .. Len(s) : s[j].pod = p
      BY <2>5 DEF Holds
    <3>2. First(j)
      BY <2>3, <3>1 DEF Orderly
    <3>3. i \in 1 .. Len(s) /\ s[i].pod = p
      BY <2>3, <3>2, Zenon
    <3>4. scheduledPods' = [scheduledPods EXCEPT ![n] = WithoutEntry(s, i)]
      BY <2>2, <2>3, <2>5 DEF OnDelete, Holds
    <3> HIDE DEF i
    <3>5. /\ Orderly(WithoutEntry(s, i), n, seen, assignedAt, now)
          /\ ~Holds(WithoutEntry(s, i), p)
          /\ \A q \in Pods \ {p} : Holds(s, q) => Holds(WithoutEntry(s, i), q)
      BY <2>1, <2>3, <3>3, RemoveOrderly, ZenonT(30)
    <3>6. WithoutEntry(s, i) \in Seq(Entries)
      BY <3>5, ZenonT(30) DEF Orderly
    <3>7. scheduledPods' \in [Nodes -> Seq(Entries)]
      BY <1>1, <2>1, <3>4, <3>6
    <3>8. ASSUME NEW m \in Nodes PROVE Orderly(scheduledPods'[m], m, seen', assignedAt', now')
      <4>1. Orderly(scheduledPods'[m], m, seen, assignedAt, now)
        BY <1>1, <2>1, <3>4, <3>5
      <4>2. ~Holds(scheduledPods'[m], p)
        BY <1>1, <1>3, <2>1, <3>4, <3>5
      <4>3. Orderly(scheduledPods'[m], m, seen', assignedAt, now)
        BY <1>0, <4>1, <4>2, OtherPodOrderly, ZenonT(30)
      <4> QED BY <1>5, <2>2, <4>3
    <3>9. ASSUME NEW q \in Pods, Live(seen'[q]), assignedAt'[q] + ReportingInterval > now'
          PROVE  Holds(scheduledPods'[seen'[q].node], q)
      <4>1. q # p /\ seen'[q] = seen[q] /\ seen[q].node \in Nodes
        BY <1>0, <1>2, <1>4, <1>5, <2>1, <3>9 DEF Live
      <4>2. Holds(scheduledPods[seen[q].node], q)
        BY <1>1, <1>5, <2>2, <3>9, <4>1, ZenonT(30)
      <4> QED BY <1>1, <2>1, <3>4, <3>5, <4>1, <4>2, ZenonT(30)
    <3> QED BY <1>1, <1>5, <2>2, <3>7, <3>8, <3>9 DEF TrimaranInv
  <2> QED BY <2>4, <2>5
<1>11. FilteredEvent(seen[p], new) \in {"add", "update", "delete", "none"}
  BY DEF FilteredEvent
<1> QED BY <1>7, <1>8, <1>9, <1>10, <1>11

LEMMA TrimaranKept ==
    ASSUME LifecycleInv, TrimaranInv, [Next]_vars PROVE TrimaranInv'
<1>1. CASE UNCHANGED <<seen, scenario, trimaranVars>>
  BY <1>1, ZenonT(30) DEF TrimaranInv, trimaranVars, deployed
<1>2. ASSUME NEW p \in Pods, Deliver(p) PROVE TrimaranInv'
  <2>0. DeliverStep(p) /\ scenario' = scenario
    BY <1>2 DEF Deliver
  <2>1. CASE deployed = "Trimaran" /\ TrimaranEvent(p)
    BY <2>0, <2>1, TrimaranEventKept
  <2>2. CASE deployed # "Trimaran"
    BY <2>0, <2>2, ZenonT(30) DEF TrimaranInv, deployed
  <2> QED BY <1>2, <2>1, <2>2 DEF Deliver
<1>3. CASE Tick
  <2>1. /\ UNCHANGED <<seen, scenario, scheduledPods, assignedAt>> /\ now' = now + 1
        /\ deployed = "Trimaran"
    BY <1>3 DEF Tick, lifecycle
  <2>2. now \in Int /\ now' \in Int /\ scheduledPods \in [Nodes -> Seq(Entries)] /\ assignedAt \in [Pods -> Int]
    BY <2>1 DEF TrimaranInv
  <2>3. ASSUME NEW n \in Nodes PROVE Orderly(scheduledPods[n], n, seen, assignedAt, now')
    <3>1. Orderly(scheduledPods[n], n, seen, assignedAt, now)
      BY <2>1, ZenonT(30) DEF TrimaranInv
    <3>2. \A i \in 1 .. Len(scheduledPods[n]) : scheduledPods[n][i].at \in Int
      BY <3>1, EntryTypes DEF Orderly
    <3>3. \A i \in 1 .. Len(scheduledPods[n]) : scheduledPods[n][i].at <= now'
      BY <2>1, <2>2, <3>1, <3>2 DEF Orderly
    <3> QED BY <3>1, <3>3, ZenonT(30) DEF Orderly
  <2>4. \A p \in Pods : assignedAt[p] + ReportingInterval > now' => assignedAt[p] + ReportingInterval > now
    BY <2>1, <2>2, ClockAssumption
  <2> QED BY <2>1, <2>2, <2>3, <2>4 DEF TrimaranInv, deployed
<1>4. CASE Cleanup
  <2>1. /\ UNCHANGED <<seen, scenario, now, assignedAt>> /\ deployed = "Trimaran"
        /\ scheduledPods' = cleanupCache(scheduledPods, now)
    BY <1>4 DEF Cleanup, lifecycle
  <2>2. /\ now \in Int /\ scheduledPods \in [Nodes -> Seq(Entries)]
        /\ \A n \in Nodes : Orderly(scheduledPods[n], n, seen, assignedAt, now)
    BY <2>1, ZenonT(30) DEF TrimaranInv
  <2>3. ASSUME NEW n \in Nodes
        PROVE  /\ Orderly(scheduledPods'[n], n, seen, assignedAt, now)
               /\ scheduledPods'[n] \in Seq(Entries)
               /\ \A p \in Pods : Holds(scheduledPods[n], p) /\ assignedAt[p] + ReportingInterval > now
                                    => Holds(scheduledPods'[n], p)
    <3>1. scheduledPods'[n] = CleanEntries(scheduledPods[n], now)
      BY <2>1, <2>2 DEF cleanupCache
    <3>2. Orderly(scheduledPods[n], n, seen, assignedAt, now)
      BY <2>2
    <3>3. /\ Orderly(scheduledPods'[n], n, seen, assignedAt, now)
          /\ \A p \in Pods : Holds(scheduledPods[n], p) /\ assignedAt[p] + ReportingInterval > now
                               => Holds(scheduledPods'[n], p)
      BY <2>2, <3>1, <3>2, CleanKeepsRecent, ZenonT(30)
    <3> QED BY <3>3, ZenonT(30) DEF Orderly
  <2>4. scheduledPods' \in [Nodes -> Seq(Entries)]
    <3>1. scheduledPods' = [n \in Nodes |-> scheduledPods'[n]]
      BY <2>1, <2>2 DEF cleanupCache
    <3> QED BY <2>3, <3>1
  <2>5. \A p \in Pods : Live(seen[p]) => seen[p].node \in Nodes
    BY DEF LifecycleInv, LifecycleTypes, Versions, Live
  <2> QED BY <2>1, <2>3, <2>4, <2>5, ZenonT(30) DEF TrimaranInv, deployed
<1>5. CASE Restart
  <2>1. /\ seen' = [p \in Pods |-> Unseen] /\ scheduledPods' = [n \in Nodes |-> << >>]
        /\ assignedAt' = [p \in Pods |-> -1] /\ UNCHANGED <<scenario, now>>
    BY <1>5 DEF Restart, RestartStep
  <2>2. \A p \in Pods : ~Live(seen'[p])
    BY <2>1 DEF Live, Unseen, Version
  <2>3. \A n \in Nodes : Orderly(scheduledPods'[n], n, seen', assignedAt', now')
    BY <2>1 DEF Orderly
  <2> QED BY <2>1, <2>2, <2>3 DEF TrimaranInv, deployed
<1>6. ASSUME NEW p \in Pods, Cluster(p)
      PROVE  UNCHANGED <<seen, scenario, trimaranVars>>
  BY <1>6 DEF Cluster, KubeletStep, DeleteStep, ForeignBind, caches
<1>7. ASSUME NEW p \in Own,
             \/ \E n \in Nodes : Filter(p, n)
             \/ Reserve(p) \/ Binding(p) \/ BindAnswerLost(p) \/ PostBind(p) \/ Unreserve(p)
      PROVE  UNCHANGED <<seen, scenario, trimaranVars>>
  BY <1>7, ZenonT(30) DEF Filter, StartCycle, Reserve, ReserveStep, Binding, Bind, BindFails, BindAnswerLost, BindLost,
              PostBind, PostBindStep, Unreserve, UnreserveStep, MoveTo, caches
<1>8. ASSUME NEW n \in Nodes,
             AgentReports(n) \/ ConfChanges(n) \/ WatchStep(n) \/ \E p \in Own : CannotAlign(p, n)
      PROVE  UNCHANGED <<seen, scenario, trimaranVars>>
  BY <1>8, ZenonT(30) DEF AgentReports, ConfChanges, WatchStep, CannotAlign, lifecycle
<1>9. CASE ResyncStep \/ (\E ns \in DOMAIN Quotas : ChangeQuota(ns)) \/ UNCHANGED vars
  BY <1>1, <1>9, ZenonT(30) DEF ResyncStep, ChangeQuota, vars, lifecycle, caches
<1> QED BY <1>1, <1>2, <1>3, <1>4, <1>5, <1>6, <1>7, <1>8, <1>9, ZenonT(30) DEF Next

LEMMA HeldOnce ==
    ASSUME NEW s, NEW n, Orderly(s, n, seen, assignedAt, now), NEW p, Holds(s, p)
    PROVE  Cardinality({i \in DOMAIN s : s[i].pod = p}) = 1
<1>1. s \in Seq(Entries) /\ DOMAIN s = 1 .. Len(s) /\ Len(s) \in Nat
  BY DEF Orderly
<1>2. PICK i \in 1 .. Len(s) : s[i].pod = p
  BY DEF Holds
<1>3. {j \in DOMAIN s : s[j].pod = p} = {i}
  BY <1>1, <1>2 DEF Orderly
<1> QED BY <1>3, FS_Singleton, Zenon

\* A pod assigned within the reporting interval and not deleted is in the
\* Trimaran cache of its node, once: entries stay in time order, so the
\* bisection of cleanupCache finds the first recent one and cuts off none.
THEOREM RecentPodsCached == Spec => []RecentPodsCachedOnce
<1> DEFINE Inv == LifecycleInv /\ TrimaranInv
<1>1. ASSUME Init PROVE Inv
  <2>1. LifecycleInv
    BY <1>1, LifecycleStart DEF Init
  <2>2. /\ seen = [p \in Pods |-> Unseen] /\ scheduledPods = [n \in Nodes |-> << >>]
        /\ assignedAt = [p \in Pods |-> -1] /\ now = 0
    BY <1>1, ZenonT(30) DEF Init, LifecycleInit
  <2>3. \A p \in Pods : ~Live(seen[p])
    BY <2>2 DEF Live, Unseen, Version
  <2>4. \A n \in Nodes : Orderly(scheduledPods[n], n, seen, assignedAt, now)
    BY <2>2 DEF Orderly
  <2> QED BY <2>1, <2>2, <2>3, <2>4 DEF TrimaranInv
<1>2. Inv /\ [Next]_vars => Inv'
  BY LifecycleKept, TrimaranKept
<1>3. ASSUME Inv PROVE RecentPodsCachedOnce
  <2> SUFFICES ASSUME deployed = "Trimaran", NEW p \in Pods, Live(seen[p]),
                      assignedAt[p] + ReportingInterval > now
               PROVE  Cardinality({i \in DOMAIN scheduledPods[seen[p].node] :
                                       scheduledPods[seen[p].node][i].pod = p}) = 1
    BY DEF RecentPodsCachedOnce, Live
  <2>1. seen[p].node \in Nodes
    BY <1>3 DEF LifecycleInv, LifecycleTypes, Versions, Live
  <2>2. /\ Holds(scheduledPods[seen[p].node], p)
        /\ Orderly(scheduledPods[seen[p].node], seen[p].node, seen, assignedAt, now)
    BY <1>3, <2>1, ZenonT(30) DEF TrimaranInv
  <2> QED BY <2>2, HeldOnce, ZenonT(30)
<1> QED BY <1>1, <1>2, <1>3, PTL DEF Spec

=============================================================================
