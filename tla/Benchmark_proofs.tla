-------------------------- MODULE Benchmark_proofs --------------------------
(***************************************************************************)
(* Proofs about kubectl health create, for any number of runs that overlap  *)
(* in any way, any number of faults, and any nodes.                         *)
(***************************************************************************)
EXTENDS Benchmark, TLAPS

\* The provers of a leaf that names none, and the time they have.
USE ZenonT(5), SMTT(30)

Working == {"services", "dsHost", "dsPod", "readyHost", "readyPod", "rbac",
            "script", "deleteHost", "createHost", "sourceHost", "waitHost",
            "deletePod", "createPod", "sourcePod", "waitPod", "deleteIntra",
            "createIntra", "waitIntra", "listHost", "listPod", "listIntra"}
Releasing == {"releasePods", "releasePodPod", "releaseIntra", "releaseDsHost",
              "releaseDsPod", "releaseSvcPod", "releaseSvcHost"}
Steps == {"idle", "ended", "killed"} \cup Working \cup Releasing

Places == Nodes \cup {None}
PodRecord == [phase : {"absent", "Pending", "Completed"}, by : Runs \cup {None},
              node : Places, deleting : BOOLEAN, measured : BOOLEAN]

TypeOK ==
    /\ pc \in [Runs -> Steps]
    /\ registered \subseteq Runs
    /\ unreleased \subseteq Runs
    /\ sourceNode \in [Runs -> Places \cup {"unknown"}]
    /\ owner \in [Objects -> Runs \cup {0, None}]
    /\ pods \in [ClientPods -> PodRecord]
    /\ overlapped \in BOOLEAN

-----------------------------------------------------------------------------
(* The invariant.                                                          *)

\* Runs are started in their order.
Ordered ==
    \A q, r \in Runs : q < r /\ pc[r] # "idle" => pc[q] # "idle"

\* Until two runs overlap, a run that was started found no other active.
Alone ==
    ~overlapped => \A q, r \in Runs : q < r /\ pc[r] # "idle" => ~Active(q)

\* A run that has not come to its deferred release is not registered for it.
RegisteredInv ==
    \A r \in registered : pc[r] \notin {"idle", "services", "dsHost", "killed"}

\* A run that has not come to its release, or never will, has created two
\* services and a DaemonSet at most.
Early == {"svcHost", "svcPod", "dsHost"}

CreatedEarly(r) ==
    /\ \A o \in Released : owner[o] = r => o \in Early
    /\ \A p \in ClientPods : Live(p) => pods[p].by # r

UnregisteredInv ==
    \A r \in Runs \ registered :
        /\ pc[r] \in {"idle", "services", "dsHost", "ended", "killed"}
        /\ pc[r] # "killed" => CreatedEarly(r)

\* What the release has deleted when it is at a step.
FreedObjects(step) ==
    CASE step = "releaseDsPod" -> {"dsHost"}
      [] step = "releaseSvcPod" -> {"dsHost", "dsPod"}
      [] step = "releaseSvcHost" -> {"dsHost", "dsPod", "svcPod"}
      [] step = "ended" -> Released
      [] OTHER -> {}

FreedPods(step) ==
    CASE step = "releasePodPod" -> {HostPod}
      [] step = "releaseIntra" -> {HostPod, PodPod}
      [] step \in {"releaseDsHost", "releaseDsPod", "releaseSvcPod",
                   "releaseSvcHost", "ended"} -> ClientPods
      [] OTHER -> {}

\* The runs nothing of which is left where run r has been.
Others(r) == IF overlapped \/ Later(r) # {} THEN {r} ELSE Runs

\* FreedInv: CleanedUp, for each delete of the release on its own.
FreedInv ==
    \A r \in registered \ unreleased :
        /\ \A o \in FreedObjects(pc[r]) : owner[o] \notin Others(r)
        /\ \A p \in FreedPods(pc[r]) : Live(p) => pods[p].by \notin Others(r)

\* A run alone that is about to read the node or the logs of a client pod
\* finds the pod it created or none, and knows its node or nothing.
OwnPod(r, p, source, wait) ==
    /\ pc[r] \in {source, wait} /\ pods[p].phase # "absent" => pods[p].by = r
    /\ pc[r] = wait /\ pods[p].phase # "absent" =>
          sourceNode[r] \in {pods[p].node, None, "unknown"}

OwnInv ==
    ~overlapped =>
        \A r \in Runs : /\ OwnPod(r, HostPod, "sourceHost", "waitHost")
                        /\ OwnPod(r, PodPod, "sourcePod", "waitPod")

Inv == TypeOK /\ Ordered /\ Alone /\ RegisteredInv /\ UnregisteredInv /\ FreedInv /\
       OwnInv /\ OwnReport

-----------------------------------------------------------------------------
(* What the steps of a run do.                                             *)

LEMMA PodNames ==
    /\ HostPod \in ClientPods /\ PodPod \in ClientPods
    /\ IntraPods \subseteq ClientPods
    /\ HostPod # PodPod /\ HostPod \notin IntraPods /\ PodPod \notin IntraPods
    /\ ClientPods = {HostPod, PodPod} \cup IntraPods
  BY DEF HostPod, PodPod, ClientPods, IntraPods, Intra

LEMMA AbsentType == Absent \in PodRecord
  BY DEF Absent, PodRecord, Places

LEMMA NewPodType ==
    ASSUME NEW r \in Runs, NEW n \in Places
    PROVE  /\ NewPod(r, n) \in PodRecord
           /\ NewPod(r, n).by = r /\ NewPod(r, n).phase # "absent"
  BY DEF NewPod, Absent, PodRecord

\* Objects and pods that were not there are those run q created.
Touches(q) ==
    /\ owner' \in [Objects -> Runs \cup {0, None}]
    /\ \A o \in Released : owner'[o] \in {owner[o], q, None}
    /\ pods' \in [ClientPods -> PodRecord]
    /\ \A p \in ClientPods :
          Live(p)' => \/ Live(p) /\ pods'[p].by = pods[p].by
                      \/ pods'[p].by = q

LEMMA ReturnStep ==
    ASSUME TypeOK, NEW q \in Runs, Return(q)
    PROVE  \E s \in {"releasePods", "ended"} :
              pc' = [pc EXCEPT ![q] = s] /\ (s = "ended" => q \notin registered)
  BY DEF Return, Goto

LEMMA EnsureEffect ==
    ASSUME TypeOK, NEW q \in Runs, NEW names, NEW next \in Working,
           EnsureAll(q, names, next)
    PROVE  /\ owner' \in [Objects -> Runs \cup {0, None}]
           /\ \A o \in Released : owner'[o] \in {owner[o], q, None}
           /\ Goto(q, next) \/ Return(q)
<1>1. \E S : owner' = Ensured(owner, q, S)
  BY DEF EnsureAll
<1>2. PICK S : owner' = Ensured(owner, q, S)
  BY <1>1
<1>3. \A o \in Objects :
         owner'[o] = IF o \in S /\ owner[o] = None
                     THEN IF o \in Released THEN q ELSE 0 ELSE owner[o]
  BY <1>2 DEF Ensured
<1>4. owner' \in [Objects -> Runs \cup {0, None}]
  BY <1>2 DEF Ensured, TypeOK
<1> QED BY <1>3, <1>4 DEF EnsureAll, Objects

\* An idle pod stays as it is, and a delete makes no pod live.
LEMMA DeleteEffect ==
    ASSUME TypeOK, NEW S, pods' = Delete(pods, S)
    PROVE  /\ pods' \in [ClientPods -> PodRecord]
           /\ \A p \in ClientPods :
                 /\ Live(p)' => Live(p) /\ p \notin S
                 /\ pods'[p].by = pods[p].by
                 /\ pods'[p].phase = pods[p].phase
<1>1. ASSUME NEW p \in ClientPods
      PROVE  /\ pods'[p] \in PodRecord
             /\ Live(p)' => Live(p) /\ p \notin S
             /\ pods'[p].by = pods[p].by
             /\ pods'[p].phase = pods[p].phase
  <2>1. pods[p] \in PodRecord
    BY DEF TypeOK
  <2>2. pods'[p] = IF p \in S /\ pods[p].phase # "absent"
                   THEN [pods[p] EXCEPT !.deleting = TRUE] ELSE pods[p]
    BY DEF Delete
  <2> QED BY <2>1, <2>2 DEF PodRecord, Live
<1>2. pods' = [p \in ClientPods |-> pods'[p]]
  BY DEF Delete
<1> QED BY <1>1, <1>2

LEMMA CreateEffect ==
    ASSUME TypeOK, NEW q \in Runs, NEW p \in ClientPods,
           pods' = [pods EXCEPT ![p] = NewPod(q, None)]
    PROVE  /\ pods' \in [ClientPods -> PodRecord]
           /\ pods'[p].by = q
           /\ \A x \in ClientPods \ {p} : pods'[x] = pods[x]
  BY NewPodType DEF TypeOK, Places

\* A step before the release leads to another, or to the release if it is
\* registered.
SetUp(q) ==
    /\ pc[q] \in Working
    /\ \E s \in Working \cup {"releasePods", "ended"} :
          /\ pc' = [pc EXCEPT ![q] = s]
          /\ s = "ended" => q \notin registered'
    /\ registered' = registered \/ (registered' = registered \cup {q} /\ pc'[q] = "dsPod")
    /\ pc'[q] \notin {"services", "dsHost"} \/ q \notin registered'
    /\ UNCHANGED <<unreleased, overlapped>>
    /\ Touches(q)

LEMMA GotoSetUp ==
    ASSUME TypeOK, RegisteredInv, NEW q \in Runs, pc[q] \in Working,
           NEW next \in Working \ {"services"},
           Goto(q, next) \/ Return(q),
           next = "dsHost" => pc[q] = "services",
           UNCHANGED <<registered, unreleased, overlapped>>, Touches(q)
    PROVE  SetUp(q)
<1>1. \E s \in Working \cup {"releasePods", "ended"} :
         /\ pc' = [pc EXCEPT ![q] = s]
         /\ s = "ended" => q \notin registered'
         /\ s # "services" /\ (s = "dsHost" => pc[q] = "services")
  BY ReturnStep DEF Goto, Working
<1>2. pc'[q] \notin {"services", "dsHost"} \/ q \notin registered'
  BY <1>1 DEF RegisteredInv, TypeOK
<1> QED BY <1>1, <1>2 DEF SetUp

LEMMA KeepTouches ==
    ASSUME TypeOK, NEW q \in Runs, UNCHANGED <<owner, pods>>
    PROVE  Touches(q)
  BY DEF Touches, TypeOK, Live, Objects

LEMMA KeepPodsTouches ==
    ASSUME TypeOK, NEW q \in Runs, UNCHANGED pods,
           owner' \in [Objects -> Runs \cup {0, None}],
           \A o \in Released : owner'[o] \in {owner[o], q, None}
    PROVE  Touches(q)
  BY DEF Touches, TypeOK, Live

LEMMA KeepOwnerTouches ==
    ASSUME TypeOK, NEW q \in Runs, UNCHANGED owner,
           pods' \in [ClientPods -> PodRecord],
           \A p \in ClientPods :
              Live(p)' => \/ Live(p) /\ pods'[p].by = pods[p].by
                          \/ pods'[p].by = q
    PROVE  Touches(q)
  BY DEF Touches, TypeOK, Objects

LEMMA EnsureSetUp ==
    ASSUME TypeOK, RegisteredInv, NEW q \in Runs,
           \/ CreateIperfHeadlessServices(q)
           \/ CreateIperfHostNetworkDaemonSet(q)
           \/ CreateIperfPodNetworkDaemonSet(q)
           \/ CreateIperfRolesAndBindings(q)
           \/ CreateIperfBencharkScriptConfigMap(q)
    PROVE  SetUp(q)
<1>1. CASE CreateIperfHeadlessServices(q)
  <2>1. EnsureAll(q, <<"svcHost", "svcPod">>, "dsHost")
    BY <1>1 DEF CreateIperfHeadlessServices
  <2>2. Touches(q) /\ (Goto(q, "dsHost") \/ Return(q))
    BY <1>1, <2>1, EnsureEffect, KeepPodsTouches
       DEF CreateIperfHeadlessServices, Working
  <2> QED BY <1>1, <2>2, GotoSetUp DEF CreateIperfHeadlessServices, Working
<1>2. CASE CreateIperfHostNetworkDaemonSet(q)
  <2>1. EnsureAll(q, <<"dsHost">>, "dsPod")
    BY <1>2 DEF CreateIperfHostNetworkDaemonSet
  <2>2. Touches(q) /\ (Goto(q, "dsPod") \/ Return(q))
    BY <1>2, <2>1, EnsureEffect, KeepPodsTouches
       DEF CreateIperfHostNetworkDaemonSet, Working
  <2>3. q \notin registered /\ pc[q] = "dsHost"
    BY <1>2 DEF CreateIperfHostNetworkDaemonSet, RegisteredInv
  <2>4. CASE Goto(q, "dsPod")
    BY <1>2, <2>2, <2>3, <2>4
       DEF CreateIperfHostNetworkDaemonSet, SetUp, Goto, Working, TypeOK
  <2>5. CASE Return(q)
    <3>1. pc' = [pc EXCEPT ![q] = "ended"]
      BY <2>3, <2>5, ReturnStep DEF Return, Goto
    <3> QED BY <1>2, <2>2, <2>3, <3>1
            DEF CreateIperfHostNetworkDaemonSet, SetUp, Working, TypeOK
  <2> QED BY <2>2, <2>4, <2>5
<1>3. CASE CreateIperfPodNetworkDaemonSet(q)
  <2>1. EnsureAll(q, <<"dsPod">>, "readyHost")
    BY <1>3 DEF CreateIperfPodNetworkDaemonSet
  <2>2. Touches(q) /\ (Goto(q, "readyHost") \/ Return(q))
    BY <1>3, <2>1, EnsureEffect, KeepPodsTouches
       DEF CreateIperfPodNetworkDaemonSet, Working
  <2> QED BY <1>3, <2>2, GotoSetUp DEF CreateIperfPodNetworkDaemonSet, Working
<1>4. CASE CreateIperfRolesAndBindings(q)
  <2>1. EnsureAll(q, <<"sa", "role", "binding">>, "script")
    BY <1>4 DEF CreateIperfRolesAndBindings
  <2>2. Touches(q) /\ (Goto(q, "script") \/ Return(q))
    BY <1>4, <2>1, EnsureEffect, KeepPodsTouches
       DEF CreateIperfRolesAndBindings, Working
  <2> QED BY <1>4, <2>2, GotoSetUp DEF CreateIperfRolesAndBindings, Working
<1>5. CASE CreateIperfBencharkScriptConfigMap(q)
  <2>1. EnsureAll(q, <<"script">>, "deleteHost")
    BY <1>5 DEF CreateIperfBencharkScriptConfigMap
  <2>2. Touches(q) /\ (Goto(q, "deleteHost") \/ Return(q))
    BY <1>5, <2>1, EnsureEffect, KeepPodsTouches
       DEF CreateIperfBencharkScriptConfigMap, Working
  <2> QED BY <1>5, <2>2, GotoSetUp DEF CreateIperfBencharkScriptConfigMap, Working
<1> QED BY <1>1, <1>2, <1>3, <1>4, <1>5

\* The waits, and the reads of a pod.
LEMMA WaitSetUp ==
    ASSUME TypeOK, RegisteredInv, NEW q \in Runs, NEW p, NEW x,
           NEW step \in Working, NEW next \in Working \ {"services", "dsHost"},
           \/ WaitForDaemonSetReady(q, p, step, next)
           \/ GetSourceNodeFromPod(q, p, step, next)
           \/ WaitForPodCompletion(q, p, x, step, next)
           \/ ListBenchmarksWithFilter(q, step, next)
    PROVE  SetUp(q)
<1>1. /\ pc[q] = step
      /\ UNCHANGED <<registered, unreleased, owner, pods, overlapped>>
      /\ Goto(q, next) \/ Return(q)
  BY DEF WaitForDaemonSetReady, GetSourceNodeFromPod, WaitForPodCompletion,
         ListBenchmarksWithFilter
<1> QED BY <1>1, GotoSetUp, KeepTouches

LEMMA LastListSetUp ==
    ASSUME TypeOK, NEW q \in Runs, ListBenchmarksWithFilter(q, "listIntra", "releasePods")
    PROVE  SetUp(q)
<1>1. /\ pc[q] = "listIntra" /\ pc' = [pc EXCEPT ![q] = "releasePods"]
      /\ UNCHANGED <<registered, unreleased, owner, pods, overlapped>>
  BY DEF ListBenchmarksWithFilter, Goto
<1>2. pc'[q] = "releasePods"
  BY <1>1 DEF TypeOK
<1> QED BY <1>1, <1>2, KeepTouches DEF SetUp, Working

LEMMA ClientPodSetUp ==
    ASSUME TypeOK, RegisteredInv, NEW q \in Runs, NEW p \in ClientPods,
           NEW step \in Working, NEW next \in Working \ {"services", "dsHost"},
           DeleteOldPod(q, p, step, next) \/ CreateClientPod(q, p, step, next)
    PROVE  SetUp(q)
<1>1. /\ pc[q] = step
      /\ UNCHANGED <<registered, unreleased, owner, overlapped>>
      /\ Goto(q, next) \/ Return(q)
  BY DEF DeleteOldPod, CreateClientPod
<1>2. \/ UNCHANGED pods \/ pods' = Delete(pods, {p})
      \/ pods' = [pods EXCEPT ![p] = NewPod(q, None)]
  BY DEF DeleteOldPod, CreateClientPod
<1>3. Touches(q)
  <2>1. CASE UNCHANGED pods
    BY <1>1, <2>1, KeepTouches
  <2>2. CASE pods' = Delete(pods, {p})
    BY <1>1, <2>2, DeleteEffect, KeepOwnerTouches
  <2>3. CASE pods' = [pods EXCEPT ![p] = NewPod(q, None)]
    <3>1. \A x \in ClientPods : Live(x)' => \/ Live(x) /\ pods'[x].by = pods[x].by
                                            \/ pods'[x].by = q
      BY <2>3, CreateEffect DEF Live
    <3> QED BY <1>1, <2>3, <3>1, CreateEffect, KeepOwnerTouches
  <2> QED BY <1>2, <2>1, <2>2, <2>3
<1> QED BY <1>1, <1>3, GotoSetUp

LEMMA IntraSetUp ==
    ASSUME TypeOK, RegisteredInv, NEW q \in Runs,
           \/ DeleteOldIntraPods(q)
           \/ CreateIntraNodeBenchmarkPods(q)
           \/ WaitForIntraNodeBenchmarkCompletion(q)
    PROVE  SetUp(q)
<1>1. CASE DeleteOldIntraPods(q)
  <2>1. UNCHANGED pods \/ pods' = Delete(pods, IntraPods)
    BY <1>1 DEF DeleteOldIntraPods
  <2>2. Touches(q)
    BY <1>1, <2>1, DeleteEffect, KeepTouches, KeepOwnerTouches
       DEF DeleteOldIntraPods
  <2> QED BY <1>1, <2>2, GotoSetUp DEF DeleteOldIntraPods, Working
<1>2. CASE CreateIntraNodeBenchmarkPods(q)
  <2>1. PICK created \in SUBSET Nodes :
           pods' = [p \in ClientPods |-> IF \E n \in created : p = Intra(n)
                                         THEN NewPod(q, p[2]) ELSE pods[p]]
    BY <1>2 DEF CreateIntraNodeBenchmarkPods
  <2>2. ASSUME NEW p \in ClientPods
        PROVE  pods'[p] = pods[p] \/ \E n \in Nodes : pods'[p] = NewPod(q, n)
    <3>1. CASE \E n \in created : p = Intra(n)
      <4>1. PICK n \in created : p = Intra(n)
        BY <3>1
      <4>2. p[2] = n
        BY <4>1 DEF Intra
      <4> QED BY <2>1, <3>1, <4>2
    <3>2. CASE ~\E n \in created : p = Intra(n)
      BY <2>1, <3>2
    <3> QED BY <3>1, <3>2
  <2>3. ASSUME NEW p \in ClientPods
        PROVE  /\ pods'[p] \in PodRecord
               /\ pods'[p] = pods[p] \/ pods'[p].by = q
    BY <2>2, NewPodType, ZenonT(30) DEF TypeOK, Places
  <2>4. pods' \in [ClientPods -> PodRecord]
    BY <2>1, <2>3
  <2>5. Touches(q)
    <3>1. UNCHANGED owner
      BY <1>2 DEF CreateIntraNodeBenchmarkPods
    <3>2. \A p \in ClientPods : Live(p)' => \/ Live(p) /\ pods'[p].by = pods[p].by
                                            \/ pods'[p].by = q
      BY <2>3 DEF Live
    <3> QED BY <2>4, <3>1, <3>2, KeepOwnerTouches
  <2>6. /\ pc[q] = "createIntra" /\ (Goto(q, "waitIntra") \/ Return(q))
        /\ UNCHANGED <<registered, unreleased, overlapped>>
    BY <1>2 DEF CreateIntraNodeBenchmarkPods
  <2> QED BY <2>5, <2>6, GotoSetUp DEF Working
<1>3. CASE WaitForIntraNodeBenchmarkCompletion(q)
  <2>1. /\ pc[q] = "waitIntra" /\ (Goto(q, "listIntra") \/ Return(q))
        /\ UNCHANGED <<registered, unreleased, owner, pods, overlapped>>
    BY <1>3 DEF WaitForIntraNodeBenchmarkCompletion
  <2> QED BY <2>1, KeepTouches, GotoSetUp DEF Working
<1> QED BY <1>1, <1>2, <1>3

LEMMA WorkStep ==
    ASSUME TypeOK, RegisteredInv, NEW q \in Runs, CreateNewBenchmark(q)
    PROVE  SetUp(q) \/ Release(q)
<1>1. HostPod \in ClientPods /\ PodPod \in ClientPods
  BY PodNames
<1> QED
  BY <1>1, EnsureSetUp, WaitSetUp, LastListSetUp, ClientPodSetUp, IntraSetUp, ZenonT(30)
     DEF CreateNewBenchmark, CreateIperfHostNetworkBenchmarkPod,
         CreateIperfPodNetworkBenchmarkPod, Working

-----------------------------------------------------------------------------
(* The order of the runs and their registration.                           *)

\* The lists of the results.
ListResults(q) ==
    \/ ListBenchmarksWithFilter(q, "listHost", "deletePod")
    \/ ListBenchmarksWithFilter(q, "listPod", "deleteIntra")
    \/ ListBenchmarksWithFilter(q, "listIntra", "releasePods")

\* Any step of run q leads it away from "idle", and only its start from there.
RunStep(q) == init(q) \/ SetUp(q) \/ Release(q) \/ Kill(q)

LEMMA RunFrame ==
    ASSUME TypeOK, NEW q \in Runs, RunStep(q)
    PROVE  /\ \E s \in Steps \ {"idle"} : pc' = [pc EXCEPT ![q] = s]
           /\ registered' \subseteq Runs /\ unreleased' \subseteq Runs
           /\ registered' \ {q} = registered \ {q}
           /\ unreleased' \ {q} = unreleased \ {q}
           /\ Touches(q)
           /\ pc[q] = "idle" => init(q)
           /\ Active(q) \/ init(q)
           /\ overlapped => overlapped'
           /\ overlapped' \in BOOLEAN
           /\ ~init(q) => UNCHANGED overlapped
<1> USE DEF TypeOK
<1>1. CASE init(q)
  <2>1. UNCHANGED <<registered, unreleased, owner, pods>>
    BY <1>1 DEF init
  <2>2. Touches(q)
    BY <2>1, KeepTouches
  <2>3. \E s \in Steps \ {"idle"} : pc' = [pc EXCEPT ![q] = s]
    BY <1>1 DEF init, Goto, Steps, Working
  <2> QED BY <1>1, <2>1, <2>2, <2>3 DEF init
<1>2. CASE SetUp(q)
  <2>1. \E s \in Steps \ {"idle"} : pc' = [pc EXCEPT ![q] = s]
    BY <1>2 DEF SetUp, Steps, Working, Releasing
  <2>2. Active(q) /\ pc[q] # "idle"
    BY <1>2 DEF SetUp, Working, Active
  <2>3. /\ registered' = registered \/ registered' = registered \cup {q}
        /\ UNCHANGED <<unreleased, overlapped>> /\ Touches(q)
    BY <1>2 DEF SetUp
  <2> QED BY <2>1, <2>2, <2>3
<1>3. CASE Release(q)
  <2>1. /\ \E s \in Steps \ {"idle"} : pc' = [pc EXCEPT ![q] = s]
        /\ pc[q] \in Releasing
        /\ UNCHANGED <<registered, overlapped>>
        /\ UNCHANGED unreleased \/ unreleased' = unreleased \cup {q}
    BY <1>3 DEF Release, ReleaseBenchmarkResources, ReleasePods, ReleaseObject,
                Goto, Steps, Releasing
  <2>2. \/ UNCHANGED <<owner, pods>>
        \/ UNCHANGED pods /\ \E o \in Released : owner' = [owner EXCEPT ![o] = None]
        \/ UNCHANGED owner /\ \E S : pods' = Delete(pods, S)
    BY <1>3 DEF Release, ReleaseBenchmarkResources, ReleasePods, ReleaseObject,
                Released
  <2>3. Touches(q)
    <3>1. CASE UNCHANGED <<owner, pods>>
      BY <3>1, KeepTouches
    <3>2. CASE UNCHANGED pods /\ \E o \in Released : owner' = [owner EXCEPT ![o] = None]
      BY <3>2, KeepPodsTouches DEF Objects
    <3>3. CASE UNCHANGED owner /\ \E S : pods' = Delete(pods, S)
      BY <3>3, DeleteEffect, KeepOwnerTouches
    <3> QED BY <2>2, <3>1, <3>2, <3>3
  <2> QED BY <2>1, <2>3 DEF Active, Releasing
<1>4. CASE Kill(q)
  <2>1. /\ UNCHANGED <<owner, pods, overlapped>>
        /\ pc' = [pc EXCEPT ![q] = "killed"]
        /\ registered' = registered \ {q} /\ unreleased' = unreleased \ {q}
        /\ Active(q)
    BY <1>4 DEF Kill, Goto
  <2> QED BY <2>1, KeepTouches DEF Steps, Active
<1> QED BY <1>1, <1>2, <1>3, <1>4 DEF RunStep

LEMMA OrderedStep ==
    ASSUME TypeOK, Ordered, NEW q \in Runs, RunStep(q)
    PROVE  Ordered'
<1>1. PICK s \in Steps \ {"idle"} : pc' = [pc EXCEPT ![q] = s]
  BY RunFrame
<1>2. CASE init(q)
  <2>1. q > 1 => pc[q - 1] # "idle"
    BY <1>2, BenchmarkAssumption DEF init
  <2>2. \A x \in Runs : x < q => pc[x] # "idle"
    <3> SUFFICES ASSUME NEW x \in Runs, x < q PROVE pc[x] # "idle"
      OBVIOUS
    <3>1. q - 1 \in Runs /\ (x = q - 1 \/ x < q - 1) /\ q > 1
      BY BenchmarkAssumption DEF Runs
    <3> QED BY <2>1, <3>1 DEF Ordered
  <2> QED BY <1>1, <2>2 DEF Ordered, TypeOK
<1>3. CASE ~init(q)
  BY <1>1, <1>3, RunFrame DEF Ordered, TypeOK
<1> QED BY <1>2, <1>3

LEMMA AloneStep ==
    ASSUME TypeOK, Ordered, Alone, NEW q \in Runs, RunStep(q)
    PROVE  Alone'
<1>1. PICK s \in Steps \ {"idle"} : pc' = [pc EXCEPT ![q] = s]
  BY RunFrame
<1> SUFFICES ASSUME ~overlapped', NEW x \in Runs, NEW y \in Runs, x < y,
                    pc'[y] # "idle"
             PROVE  ~Active(x)'
  BY DEF Alone
<1>2. ~overlapped /\ x # y
  BY RunFrame, BenchmarkAssumption DEF Runs
<1>3. CASE init(q)
  <2>1. \A z \in Runs \ {q} : ~Active(z)
    BY <1>3 DEF init
  <2>2. x # q
    BY <1>1, <1>2, <1>3 DEF Ordered, init, TypeOK
  <2> QED BY <1>1, <2>1, <2>2 DEF Active, TypeOK
<1>4. CASE ~init(q)
  <2>1. pc[y] # "idle"
    BY <1>1, <1>4, RunFrame DEF TypeOK
  <2>2. ~Active(x)
    BY <1>2, <2>1 DEF Alone
  <2>3. x # q
    BY <1>4, <2>2, RunFrame
  <2> QED BY <1>1, <2>2, <2>3 DEF Active, TypeOK
<1> QED BY <1>3, <1>4

LEMMA RegisteredStep ==
    ASSUME TypeOK, RegisteredInv, NEW q \in Runs, RunStep(q)
    PROVE  RegisteredInv'
<1>1. PICK s \in Steps \ {"idle"} : pc' = [pc EXCEPT ![q] = s]
  BY RunFrame
<1>2. \A r \in registered' \ {q} : r \in registered /\ pc'[r] = pc[r]
  BY <1>1, RunFrame, ZenonT(30) DEF TypeOK
<1>3. q \in registered' => s \notin {"idle", "services", "dsHost", "killed"}
  <2>1. CASE init(q)
    BY <2>1 DEF init, RegisteredInv
  <2>2. CASE SetUp(q)
    BY <1>1, <2>2 DEF SetUp, TypeOK, Working
  <2>3. CASE Release(q)
    BY <1>1, <2>3 DEF Release, ReleaseBenchmarkResources, Goto, TypeOK
  <2>4. CASE Kill(q)
    BY <2>4 DEF Kill
  <2> QED BY <2>1, <2>2, <2>3, <2>4 DEF RunStep
<1> QED BY <1>1, <1>2, <1>3 DEF RegisteredInv, TypeOK

-----------------------------------------------------------------------------
(* What an unregistered run has created.                                   *)

\* The first steps create no more than their objects.
LEMMA EnsureFrame ==
    ASSUME TypeOK, NEW q \in Runs, NEW names \in Seq(Objects), NEW next, EnsureAll(q, names, next),
           NEW o \in Released, \A i \in 1 .. Len(names) : names[i] # o
    PROVE  owner'[o] = owner[o]
<1>1. PICK S : owner' = Ensured(owner, q, S) /\ o \notin S
  <2>1. CASE owner' = Ensured(owner, q, {names[i] : i \in DOMAIN names})
    <3>1. PICK S : S = {names[i] : i \in DOMAIN names}
      OBVIOUS
    <3>2. DOMAIN names = 1 .. Len(names)
      OBVIOUS
    <3>3. o \notin S
      BY <3>1, <3>2
    <3> QED BY <2>1, <3>1, <3>3, Zenon
  <2>2. ASSUME NEW k \in 0 .. Len(names), owner' = Ensured(owner, q, {names[i] : i \in 1 .. k})
        PROVE  \E S : owner' = Ensured(owner, q, S) /\ o \notin S
    <3>1. PICK S : S = {names[i] : i \in 1 .. k}
      OBVIOUS
    <3>2. Len(names) \in Nat /\ 1 .. k \subseteq 1 .. Len(names)
      OBVIOUS
    <3>3. o \notin S
      BY <3>1, <3>2
    <3> QED BY <2>2, <3>1, <3>3, Zenon
  <2> QED BY <2>1, <2>2 DEF EnsureAll
<1> QED BY <1>1 DEF Ensured, Objects

LEMMA FirstSteps ==
    ASSUME TypeOK, NEW q \in Runs, CreateNewBenchmark(q), pc[q] \in {"services", "dsHost"}
    PROVE  CreateIperfHeadlessServices(q) \/ CreateIperfHostNetworkDaemonSet(q)
  BY DEF CreateNewBenchmark, CreateIperfPodNetworkDaemonSet, WaitForDaemonSetReady,
         CreateIperfRolesAndBindings, CreateIperfBencharkScriptConfigMap,
         CreateIperfHostNetworkBenchmarkPod, CreateIperfPodNetworkBenchmarkPod,
         DeleteOldPod, CreateClientPod, GetSourceNodeFromPod, WaitForPodCompletion,
         ListBenchmarksWithFilter, DeleteOldIntraPods, CreateIntraNodeBenchmarkPods,
         WaitForIntraNodeBenchmarkCompletion, Release, ReleaseBenchmarkResources

LEMMA UnregisteredStep ==
    ASSUME TypeOK, UnregisteredInv, NEW q \in Runs, RunStep(q),
           init(q) \/ CreateNewBenchmark(q) \/ Kill(q), RegisteredInv
    PROVE  UnregisteredInv'
<1>0. pc \in [Runs -> Steps] /\ None \notin Runs
  BY BenchmarkAssumption DEF TypeOK, Runs
<1>1. ASSUME NEW r \in Runs \ registered', r # q
      PROVE  /\ pc'[r] \in {"idle", "services", "dsHost", "ended", "killed"}
             /\ pc'[r] # "killed" => CreatedEarly(r)'
  <2>1. r \in Runs \ registered /\ pc'[r] = pc[r] /\ Touches(q)
    BY <1>0, <1>1, RunFrame
  <2>2. CreatedEarly(r) => CreatedEarly(r)'
    <3>1. \A o \in Released : owner'[o] = r => owner[o] = r
      BY <1>0, <1>1, <2>1 DEF Touches
    <3>2. \A p \in ClientPods : Live(p)' /\ pods'[p].by = r => Live(p) /\ pods[p].by = r
      BY <1>1, <2>1 DEF Touches
    <3> QED BY <3>1, <3>2 DEF CreatedEarly
  <2> QED BY <2>1, <2>2 DEF UnregisteredInv
<1>2. ASSUME q \notin registered'
      PROVE  /\ pc'[q] \in {"idle", "services", "dsHost", "ended", "killed"}
             /\ pc'[q] # "killed" => CreatedEarly(q)'
  <2>1. CASE init(q)
    <3>1. /\ pc[q] = "idle" /\ pc'[q] \in {"services", "ended"}
          /\ UNCHANGED <<registered, owner, pods>>
      BY <1>0, <2>1 DEF init, Goto
    <3> QED BY <1>2, <3>1 DEF UnregisteredInv, CreatedEarly, Live
  <2>2. CASE Kill(q)
    BY <1>0, <2>2 DEF Kill, Goto
  <2>3. CASE CreateNewBenchmark(q)
    <3>1. q \notin registered /\ pc[q] # "ended"
      <4>1. SetUp(q) \/ Release(q)
        BY <2>3, WorkStep
      <4>2. registered \subseteq registered' /\ pc[q] # "ended"
        BY <4>1 DEF SetUp, Working, Release, ReleaseBenchmarkResources
      <4> QED BY <1>2, <4>2
    <3>2. pc[q] \in {"services", "dsHost"} /\ CreatedEarly(q)
      <4>1. pc[q] \notin {"idle", "killed"}
        <5>1. SetUp(q) \/ Release(q)
          BY <2>3, WorkStep
        <5> QED BY <5>1 DEF SetUp, Working, Release, ReleaseBenchmarkResources
      <4> QED BY <3>1, <4>1 DEF UnregisteredInv
    <3>3. CASE CreateIperfHeadlessServices(q)
      <4>1. EnsureAll(q, <<"svcHost", "svcPod">>, "dsHost") /\ UNCHANGED pods
        BY <3>3 DEF CreateIperfHeadlessServices
      <4>2. pc'[q] \in {"dsHost", "ended"}
        BY <1>0, <3>1, <4>1 DEF EnsureAll, Goto, Return
      <4>3. \A o \in Released \ Early : owner'[o] = owner[o]
        <5>0. <<"svcHost", "svcPod">> \in Seq(Objects)
          BY DEF Objects, Released
        <5>1. PICK names \in Seq(Objects) : names = <<"svcHost", "svcPod">>
          BY <5>0, Zenon
        <5>2. \A o \in Released \ Early : \A i \in 1 .. Len(names) : names[i] # o
          BY <5>1 DEF Early
        <5> QED BY <4>1, <5>1, <5>2, EnsureFrame
      <4> QED BY <3>2, <4>1, <4>2, <4>3 DEF CreatedEarly, Live
    <3>4. CASE CreateIperfHostNetworkDaemonSet(q)
      <4>1. /\ EnsureAll(q, <<"dsHost">>, "dsPod") /\ UNCHANGED pods
            /\ pc'[q] = "dsPod" => q \in registered'
        BY <3>4 DEF CreateIperfHostNetworkDaemonSet
      <4>2. pc'[q] = "ended"
        BY <1>0, <1>2, <3>1, <4>1 DEF EnsureAll, Goto, Return
      <4>3. \A o \in Released \ Early : owner'[o] = owner[o]
        <5>0. <<"dsHost">> \in Seq(Objects)
          BY DEF Objects, Released
        <5>1. PICK names \in Seq(Objects) : names = <<"dsHost">>
          BY <5>0, Zenon
        <5>2. \A o \in Released \ Early : \A i \in 1 .. Len(names) : names[i] # o
          BY <5>1 DEF Early
        <5> QED BY <4>1, <5>1, <5>2, EnsureFrame
      <4> QED BY <3>2, <4>1, <4>2, <4>3 DEF CreatedEarly, Live
    <3> QED BY <2>3, <3>2, <3>3, <3>4, FirstSteps
  <2> QED BY <2>1, <2>2, <2>3
<1> QED BY <1>1, <1>2 DEF UnregisteredInv

-----------------------------------------------------------------------------
(* The release.                                                            *)

LEMMA OthersShrink ==
    ASSUME TypeOK, NEW q \in Runs, RunStep(q), NEW r \in Runs
    PROVE  Others(r)' \subseteq Others(r)
<1>1. Later(r) \subseteq Later(r)'
  BY RunFrame DEF Later, TypeOK
<1> QED BY <1>1, RunFrame DEF Others

\* What another run creates is not what the release of r must have deleted.
LEMMA NotOfOther ==
    ASSUME TypeOK, Ordered, Alone, NEW q \in Runs, RunStep(q),
           NEW r \in Runs \ {q}, pc[r] # "idle"
    PROVE  q \notin Others(r)'
<1>1. CASE Others(r)' = {r}
  BY <1>1
<1>2. CASE ~overlapped' /\ Later(r)' = {}
  <2>1. pc'[q] # "idle"
    BY RunFrame DEF TypeOK
  <2>2. ~(q > r)
    BY <1>2, <2>1 DEF Later
  <2>3. q < r
    BY <2>2, BenchmarkAssumption DEF Runs
  <2>4. ~Active(q) /\ pc[q] # "idle"
    BY <1>2, <2>3, RunFrame DEF Alone, Ordered
  <2>5. ~init(q)
    BY <2>4 DEF init
  <2> QED BY <2>4, <2>5, RunFrame
<1> QED BY <1>1, <1>2 DEF Others

LEMMA FreedOther ==
    ASSUME TypeOK, Ordered, Alone, RegisteredInv, FreedInv, NEW q \in Runs,
           RunStep(q), NEW r \in registered' \ unreleased', r # q
    PROVE  /\ \A o \in FreedObjects(pc'[r]) : owner'[o] \notin Others(r)'
           /\ \A p \in FreedPods(pc'[r]) : Live(p)' => pods'[p].by \notin Others(r)'
<1>1. /\ r \in registered \ unreleased /\ pc'[r] = pc[r] /\ r \in Runs
  BY RunFrame DEF TypeOK
<1>2. pc[r] # "idle"
  BY <1>1 DEF RegisteredInv
<1>3. q \notin Others(r)' /\ Others(r)' \subseteq Others(r) /\ None \notin Others(r)'
  <2>1. None \notin Runs
    BY BenchmarkAssumption DEF Runs
  <2> QED BY <1>1, <1>2, <2>1, NotOfOther, OthersShrink DEF Others
<1>4. FreedObjects(pc[r]) \subseteq Released /\ FreedPods(pc[r]) \subseteq ClientPods
  BY PodNames DEF FreedObjects, FreedPods, Released
<1>5. ASSUME NEW o \in FreedObjects(pc'[r])
      PROVE  owner'[o] \notin Others(r)'
  BY <1>1, <1>3, <1>4, <1>5, RunFrame DEF FreedInv, Touches
<1>6. ASSUME NEW p \in FreedPods(pc'[r]), Live(p)'
      PROVE  pods'[p].by \notin Others(r)'
  <2>1. \/ Live(p) /\ pods'[p].by = pods[p].by
        \/ pods'[p].by = q
    BY <1>1, <1>4, <1>6, RunFrame DEF Touches
  <2> QED BY <1>1, <1>3, <1>6, <2>1 DEF FreedInv
<1> QED BY <1>5, <1>6

\* One delete of the release.
LEMMA FreedObject ==
    ASSUME TypeOK, FreedInv, NEW q \in Runs, NEW o \in Released,
           q \in registered \ unreleased', ReleaseObject(q, o), UNCHANGED pods,
           NEW S, S \subseteq FreedObjects(pc[q]), NEW T, T \subseteq FreedPods(pc[q])
    PROVE  /\ \A x \in S \cup {o} : owner'[x] \notin Others(q)
           /\ \A p \in T : Live(p)' => pods'[p].by \notin Others(q)
<1>1. None \notin Others(q)
  BY BenchmarkAssumption DEF Others, Runs
<1>2. q \in registered \ unreleased /\ owner' = [owner EXCEPT ![o] = None]
  BY DEF ReleaseObject
<1>3. \A x \in S \cup {o} : owner'[x] \notin Others(q)
  <2>1. FreedObjects(pc[q]) \subseteq Objects
    BY DEF FreedObjects, Objects, Released
  <2> QED BY <1>1, <1>2, <2>1 DEF FreedInv, TypeOK, Objects
<1> QED BY <1>2, <1>3 DEF FreedInv, Live

LEMMA FreedPod ==
    ASSUME TypeOK, FreedInv, NEW q \in Runs, NEW W \in SUBSET ClientPods,
           q \in registered \ unreleased', ReleasePods(q, W), UNCHANGED owner,
           NEW T, T \subseteq FreedPods(pc[q])
    PROVE  \A p \in T \cup W : Live(p)' => pods'[p].by \notin Others(q)
<1>1. q \in registered \ unreleased /\ pods' = Delete(pods, W)
  BY DEF ReleasePods
<1>2. FreedPods(pc[q]) \subseteq ClientPods
  BY PodNames DEF FreedPods
<1> QED BY <1>1, <1>2, DeleteEffect DEF FreedInv

LEMMA FreedOwn ==
    ASSUME TypeOK, FreedInv, NEW q \in Runs, Release(q),
           q \in registered' \ unreleased'
    PROVE  /\ \A o \in FreedObjects(pc'[q]) : owner'[o] \notin Others(q)
           /\ \A p \in FreedPods(pc'[q]) : Live(p)' => pods'[p].by \notin Others(q)
<1>0. q \in registered \ unreleased' /\ pc \in [Runs -> Steps]
  BY DEF Release, TypeOK
<1>1. CASE pc[q] = "releasePods"
  <2>1. ReleasePods(q, {HostPod}) /\ UNCHANGED owner /\ pc'[q] = "releasePodPod"
    BY <1>0, <1>1 DEF Release, ReleaseBenchmarkResources, Goto
  <2>2. FreedObjects(pc'[q]) = {} /\ FreedPods(pc'[q]) = {} \cup {HostPod}
    BY <2>1 DEF FreedObjects, FreedPods
  <2> QED BY <1>0, <2>1, <2>2, FreedPod, PodNames
<1>2. CASE pc[q] = "releasePodPod"
  <2>1. ReleasePods(q, {PodPod}) /\ UNCHANGED owner /\ pc'[q] = "releaseIntra"
    BY <1>0, <1>2 DEF Release, ReleaseBenchmarkResources, Goto
  <2>2. /\ FreedObjects(pc'[q]) = {} /\ FreedPods(pc[q]) = {HostPod}
        /\ FreedPods(pc'[q]) = {HostPod} \cup {PodPod}
    BY <1>2, <2>1 DEF FreedObjects, FreedPods
  <2> QED BY <1>0, <2>1, <2>2, FreedPod, PodNames
<1>3. CASE pc[q] = "releaseIntra"
  <2>1. ReleasePods(q, IntraPods) /\ UNCHANGED owner /\ pc'[q] = "releaseDsHost"
    BY <1>0, <1>3 DEF Release, ReleaseBenchmarkResources, Goto
  <2>2. /\ FreedObjects(pc'[q]) = {} /\ FreedPods(pc[q]) = {HostPod, PodPod}
        /\ FreedPods(pc'[q]) = {HostPod, PodPod} \cup IntraPods
    BY <1>3, <2>1, PodNames DEF FreedObjects, FreedPods
  <2> QED BY <1>0, <2>1, <2>2, FreedPod, PodNames
<1>4. CASE pc[q] \in {"releaseDsHost", "releaseDsPod", "releaseSvcPod", "releaseSvcHost"}
  <2>1. /\ UNCHANGED pods
        /\ FreedPods(pc'[q]) = ClientPods /\ FreedPods(pc[q]) = ClientPods
        /\ \E o \in Released : /\ ReleaseObject(q, o)
                               /\ FreedObjects(pc'[q]) = FreedObjects(pc[q]) \cup {o}
    <3>1. CASE pc[q] = "releaseDsHost"
      <4>1. ReleaseObject(q, "dsHost") /\ UNCHANGED pods /\ pc'[q] = "releaseDsPod"
        BY <1>0, <3>1 DEF Release, ReleaseBenchmarkResources, Goto
      <4> QED BY <3>1, <4>1 DEF FreedPods, FreedObjects, Released
    <3>2. CASE pc[q] = "releaseDsPod"
      <4>1. ReleaseObject(q, "dsPod") /\ UNCHANGED pods /\ pc'[q] = "releaseSvcPod"
        BY <1>0, <3>2 DEF Release, ReleaseBenchmarkResources, Goto
      <4> QED BY <3>2, <4>1 DEF FreedPods, FreedObjects, Released
    <3>3. CASE pc[q] = "releaseSvcPod"
      <4>1. ReleaseObject(q, "svcPod") /\ UNCHANGED pods /\ pc'[q] = "releaseSvcHost"
        BY <1>0, <3>3 DEF Release, ReleaseBenchmarkResources, Goto
      <4> QED BY <3>3, <4>1 DEF FreedPods, FreedObjects, Released
    <3>4. CASE pc[q] = "releaseSvcHost"
      <4>1. ReleaseObject(q, "svcHost") /\ UNCHANGED pods /\ pc'[q] = "ended"
        BY <1>0, <3>4 DEF Release, ReleaseBenchmarkResources, Goto
      <4> QED BY <3>4, <4>1 DEF FreedPods, FreedObjects, Released
    <3> QED BY <1>4, <3>1, <3>2, <3>3, <3>4
  <2>2. PICK o \in Released : /\ ReleaseObject(q, o)
                              /\ FreedObjects(pc'[q]) = FreedObjects(pc[q]) \cup {o}
    BY <2>1
  <2>3. PICK S, T : S = FreedObjects(pc[q]) /\ T = FreedPods(pc[q])
    OBVIOUS
  <2> QED BY <1>0, <2>1, <2>2, <2>3, FreedObject
<1> QED BY <1>1, <1>2, <1>3, <1>4 DEF Release, ReleaseBenchmarkResources

LEMMA FreedStep ==
    ASSUME TypeOK, Ordered, Alone, RegisteredInv, FreedInv, NEW q \in Runs,
           RunStep(q)
    PROVE  FreedInv'
<1>1. ASSUME q \in registered' \ unreleased'
      PROVE  /\ \A o \in FreedObjects(pc'[q]) : owner'[o] \notin Others(q)'
             /\ \A p \in FreedPods(pc'[q]) : Live(p)' => pods'[p].by \notin Others(q)'
  <2>1. CASE init(q)
    BY <1>1, <2>1 DEF init, RegisteredInv
  <2>2. CASE SetUp(q)
    <3>1. pc'[q] \in Working \cup {"releasePods"}
      BY <1>1, <2>2 DEF SetUp, TypeOK
    <3>2. FreedObjects(pc'[q]) = {} /\ FreedPods(pc'[q]) = {}
      BY <3>1 DEF FreedObjects, FreedPods, Working
    <3> QED BY <3>2
  <2>3. CASE Release(q)
    BY <1>1, <2>3, FreedOwn, OthersShrink
  <2>4. CASE Kill(q)
    BY <1>1, <2>4 DEF Kill
  <2> QED BY <2>1, <2>2, <2>3, <2>4 DEF RunStep
<1> QED BY <1>1, FreedOther DEF FreedInv

-----------------------------------------------------------------------------
(* The reports.                                                            *)

\* Where a run is when it reads client pod p.
Source(p) == IF p = HostPod THEN "sourceHost" ELSE "sourcePod"
Wait(p) == IF p = HostPod THEN "waitHost" ELSE "waitPod"

LEMMA OwnPods ==
    OwnInv <=> (~overlapped => \A r \in Runs, p \in {HostPod, PodPod} :
                                   OwnPod(r, p, Source(p), Wait(p)))
  BY PodNames DEF OwnInv, Source, Wait

\* While a run is alone, so is what the others did to the client pods.
LEMMA OwnOther ==
    ASSUME TypeOK, Ordered, Alone, NEW q \in Runs, RunStep(q), ~overlapped',
           NEW r \in Runs \ {q}
    PROVE  ~Active(r)'
<1>1. pc'[r] = pc[r] /\ ~overlapped
  BY RunFrame DEF TypeOK
<1>2. ~Active(r)
  <2>1. CASE init(q)
    BY <2>1 DEF init
  <2>2. CASE ~init(q)
    <3>1. Active(q) /\ pc[q] # "idle"
      BY <2>2, RunFrame
    <3>2. q < r \/ r < q
      BY BenchmarkAssumption DEF Runs
    <3>3. CASE q < r
      BY <1>1, <3>1, <3>3 DEF Alone, Active
    <3>4. CASE r < q
      BY <1>1, <3>1, <3>4 DEF Alone
    <3> QED BY <3>2, <3>3, <3>4
  <2> QED BY <2>1, <2>2
<1> QED BY <1>1, <1>2 DEF Active

\* The run's own steps that lead to the reading of a pod.
LEMMA OwnStep ==
    ASSUME TypeOK, OwnInv, NEW q \in Runs, CreateNewBenchmark(q), ~overlapped,
           NEW p \in {HostPod, PodPod}
    PROVE  OwnPod(q, p, Source(p), Wait(p))'
<1>0. pc \in [Runs -> Steps] /\ sourceNode \in [Runs -> Places \cup {"unknown"}]
  BY DEF TypeOK
<1>1. \/ pc'[q] \notin {Source(p), Wait(p)}
      \/ CreateClientPod(q, p, pc[q], Source(p)) /\ pc'[q] = Source(p)
      \/ GetSourceNodeFromPod(q, p, Source(p), Wait(p)) /\ pc'[q] = Wait(p)
  <2>1. \A next : Goto(q, next) => pc'[q] = next
    BY <1>0 DEF Goto
  <2>2. Return(q) => pc'[q] \in {"releasePods", "ended"}
    BY <1>0 DEF Return, Goto
  <2>3. \A names, next : EnsureAll(q, names, next) =>
                            pc'[q] \in {next, "releasePods", "ended"}
    BY <2>1, <2>2 DEF EnsureAll
  <2>4. CASE CreateIperfHostNetworkBenchmarkPod(q)
    BY <2>1, <2>2, <2>4, PodNames
       DEF CreateIperfHostNetworkBenchmarkPod, DeleteOldPod, CreateClientPod,
           Source, Wait
  <2>5. CASE CreateIperfPodNetworkBenchmarkPod(q)
    BY <2>1, <2>2, <2>5, PodNames
       DEF CreateIperfPodNetworkBenchmarkPod, DeleteOldPod, CreateClientPod,
           Source, Wait
  <2>6. CASE \/ GetSourceNodeFromPod(q, HostPod, "sourceHost", "waitHost")
             \/ GetSourceNodeFromPod(q, PodPod, "sourcePod", "waitPod")
    BY <2>1, <2>6, PodNames DEF GetSourceNodeFromPod, Source, Wait
  <2>7. CASE \/ CreateIperfHeadlessServices(q)
             \/ CreateIperfHostNetworkDaemonSet(q)
             \/ CreateIperfPodNetworkDaemonSet(q)
             \/ CreateIperfRolesAndBindings(q)
             \/ CreateIperfBencharkScriptConfigMap(q)
    <3>1. pc'[q] \in {"dsHost", "dsPod", "readyHost", "script", "deleteHost",
                      "releasePods", "ended"}
      BY <2>3, <2>7
         DEF CreateIperfHeadlessServices, CreateIperfHostNetworkDaemonSet,
             CreateIperfPodNetworkDaemonSet, CreateIperfRolesAndBindings,
             CreateIperfBencharkScriptConfigMap
    <3> QED BY <3>1 DEF Source, Wait
  <2>8. CASE \/ WaitForDaemonSetReady(q, "dsHost", "readyHost", "readyPod")
             \/ WaitForDaemonSetReady(q, "dsPod", "readyPod", "rbac")
             \/ WaitForPodCompletion(q, HostPod, "host", "waitHost", "listHost")
             \/ WaitForPodCompletion(q, PodPod, "pod", "waitPod", "listPod")
    <3>1. pc'[q] \in {"readyPod", "rbac", "listHost", "listPod", "releasePods", "ended"}
      BY <2>1, <2>2, <2>8 DEF WaitForDaemonSetReady, WaitForPodCompletion
    <3> QED BY <3>1 DEF Source, Wait
  <2>9. CASE \/ DeleteOldIntraPods(q) \/ CreateIntraNodeBenchmarkPods(q)
             \/ WaitForIntraNodeBenchmarkCompletion(q)
    <3>1. pc'[q] \in {"createIntra", "waitIntra", "listIntra", "releasePods", "ended"}
      BY <2>1, <2>2, <2>9
         DEF DeleteOldIntraPods, CreateIntraNodeBenchmarkPods,
             WaitForIntraNodeBenchmarkCompletion
    <3> QED BY <3>1 DEF Source, Wait
  <2>10. CASE Release(q)
    <3>1. pc'[q] \in Releasing \cup {"ended"}
      BY <2>1, <2>10 DEF Release, ReleaseBenchmarkResources, Releasing
    <3> QED BY <3>1 DEF Source, Wait, Releasing
  <2>11. CASE ListResults(q)
    <3>1. pc'[q] \in {"deletePod", "deleteIntra", "releasePods"}
      BY <2>1, <2>11 DEF ListResults, ListBenchmarksWithFilter
    <3> QED BY <3>1 DEF Source, Wait
  <2> QED BY <2>4, <2>5, <2>6, <2>7, <2>8, <2>9, <2>10, <2>11 DEF CreateNewBenchmark, ListResults
<1>2. CASE pc'[q] \notin {Source(p), Wait(p)}
  BY <1>2 DEF OwnPod
<1>3. CASE CreateClientPod(q, p, pc[q], Source(p)) /\ pc'[q] = Source(p)
  <2>1. p \in ClientPods /\ Source(p) # Wait(p)
    BY PodNames DEF Source, Wait
  <2>2. \/ pods' = [pods EXCEPT ![p] = NewPod(q, None)]
        \/ Return(q)
    BY <1>3 DEF CreateClientPod
  <2>3. ~Return(q)
    BY <1>0, <1>3 DEF Return, Goto, Source
  <2>4. pods'[p].by = q
    BY <2>1, <2>2, <2>3, CreateEffect
  <2> QED BY <1>3, <2>1, <2>4 DEF OwnPod
<1>4. CASE GetSourceNodeFromPod(q, p, Source(p), Wait(p)) /\ pc'[q] = Wait(p)
  <2>1. UNCHANGED pods /\ pc[q] = Source(p)
    BY <1>4 DEF GetSourceNodeFromPod
  <2>2. sourceNode'[q] \in {pods[p].node, "unknown"}
    BY <1>0, <1>4 DEF GetSourceNodeFromPod
  <2>3. OwnPod(q, p, Source(p), Wait(p))
    BY OwnPods
  <2> QED BY <1>4, <2>1, <2>2, <2>3 DEF OwnPod
<1> QED BY <1>1, <1>2, <1>3, <1>4

LEMMA OwnRun ==
    ASSUME TypeOK, Ordered, Alone, OwnInv, NEW q \in Runs,
           RunStep(q), init(q) \/ CreateNewBenchmark(q) \/ Kill(q)
    PROVE  OwnInv'
<1> SUFFICES ASSUME ~overlapped', NEW r \in Runs, NEW p \in {HostPod, PodPod}
             PROVE  OwnPod(r, p, Source(p), Wait(p))'
  BY OwnPods, PodNames DEF OwnInv, Source, Wait
<1>1. CASE ~Active(r)'
  BY <1>1 DEF OwnPod, Active, Source, Wait
<1>2. CASE r = q
  <2>1. CASE CreateNewBenchmark(q)
    <3>1. ~overlapped
      BY RunFrame
    <3> QED BY <1>2, <2>1, <3>1, OwnStep
  <2>2. CASE init(q) \/ Kill(q)
    <3>1. pc'[q] \in {"services", "ended", "killed"}
      BY <2>2 DEF init, Kill, Goto, TypeOK
    <3> QED BY <1>2, <3>1 DEF OwnPod, Source, Wait
  <2> QED BY <2>1, <2>2
<1> QED BY <1>1, <1>2, OwnOther

LEMMA ReportStep ==
    ASSUME TypeOK, OwnInv, OwnReport, NEW q \in Runs, RunStep(q),
           init(q) \/ CreateNewBenchmark(q) \/ Kill(q)
    PROVE  OwnReport'
<1> SUFFICES ASSUME ~overlapped', NEW report \in reports', report.mode # "intra"
             PROVE  /\ report.by = report.run
                    /\ report.source \in {report.node, None, "unknown"}
  BY DEF OwnReport
<1>0. ~overlapped
  BY RunFrame
<1>1. \/ report \in reports
      \/ \E p \in {HostPod, PodPod} : \E mode :
            /\ pc[q] = Wait(p) /\ Completed(pods[p])
            /\ report = ParseBenchmarkLogs(q, mode, pods[p], sourceNode[q])
  <2>1. CASE \/ WaitForPodCompletion(q, HostPod, "host", "waitHost", "listHost")
             \/ WaitForPodCompletion(q, PodPod, "pod", "waitPod", "listPod")
    <3>1. \A p, mode, step, next :
             WaitForPodCompletion(q, p, mode, step, next) =>
                \/ UNCHANGED reports
                \/ /\ pc[q] = step /\ Completed(pods[p])
                   /\ reports' \subseteq
                        {ParseBenchmarkLogs(q, mode, pods[p], sourceNode[q])}
      BY DEF WaitForPodCompletion, CreateBenchmarkResultConfigMap
    <3> QED BY <2>1, <3>1, PodNames DEF Wait
  <2>2. CASE WaitForIntraNodeBenchmarkCompletion(q)
    <3> DEFINE new == {ParseBenchmarkLogs(q, "intra", pods[p], pods[p].node) :
                         p \in {x \in IntraPods : pods[x].phase # "absent" /\ pods[x].measured}}
    <3>1. reports' \subseteq new \/ UNCHANGED reports
      BY <2>2 DEF WaitForIntraNodeBenchmarkCompletion, CreateBenchmarkResultConfigMap
    <3>2. \A x \in new : x.mode = "intra"
      BY DEF ParseBenchmarkLogs
    <3> QED BY <3>1, <3>2
  <2>3. CASE \/ CreateIperfHeadlessServices(q)
             \/ CreateIperfHostNetworkDaemonSet(q)
             \/ CreateIperfPodNetworkDaemonSet(q)
             \/ WaitForDaemonSetReady(q, "dsHost", "readyHost", "readyPod")
             \/ WaitForDaemonSetReady(q, "dsPod", "readyPod", "rbac")
             \/ CreateIperfRolesAndBindings(q)
             \/ CreateIperfBencharkScriptConfigMap(q)
             \/ init(q) \/ Kill(q)
    BY <2>3 DEF CreateIperfHeadlessServices, CreateIperfHostNetworkDaemonSet,
         CreateIperfPodNetworkDaemonSet, WaitForDaemonSetReady,
         CreateIperfRolesAndBindings, CreateIperfBencharkScriptConfigMap, init,
         Kill
  <2>4. CASE \/ CreateIperfHostNetworkBenchmarkPod(q)
             \/ GetSourceNodeFromPod(q, HostPod, "sourceHost", "waitHost")
             \/ CreateIperfPodNetworkBenchmarkPod(q)
             \/ GetSourceNodeFromPod(q, PodPod, "sourcePod", "waitPod")
             \/ DeleteOldIntraPods(q)
             \/ CreateIntraNodeBenchmarkPods(q)
             \/ Release(q)
    BY <2>4 DEF CreateIperfHostNetworkBenchmarkPod, GetSourceNodeFromPod,
         CreateIperfPodNetworkBenchmarkPod, DeleteOldIntraPods, DeleteOldPod,
         CreateClientPod, CreateIntraNodeBenchmarkPods, Release
  <2>5. CASE ListResults(q)
    BY <2>5 DEF ListResults, ListBenchmarksWithFilter
  <2> QED BY <2>1, <2>2, <2>3, <2>4, <2>5 DEF CreateNewBenchmark, ListResults
<1>2. CASE report \in reports
  BY <1>0, <1>2 DEF OwnReport
<1>3. ASSUME NEW p \in {HostPod, PodPod}, NEW mode, pc[q] = Wait(p),
             Completed(pods[p]),
             report = ParseBenchmarkLogs(q, mode, pods[p], sourceNode[q])
      PROVE  /\ report.by = report.run
             /\ report.source \in {report.node, None, "unknown"}
  <2>1. OwnPod(q, p, Source(p), Wait(p))
    BY <1>0, OwnPods
  <2>2. /\ pods[p].by = q
        /\ sourceNode[q] \in {pods[p].node, None, "unknown"}
    BY <1>3, <2>1 DEF OwnPod, Completed
  <2> QED BY <1>3, <2>2 DEF ParseBenchmarkLogs
<1> QED BY <1>1, <1>2, <1>3

LEMMA SourceType ==
    ASSUME TypeOK, NEW q \in Runs,
           init(q) \/ CreateNewBenchmark(q) \/ Kill(q)
    PROVE  sourceNode' \in [Runs -> Places \cup {"unknown"}]
<1>1. HostPod \in ClientPods /\ PodPod \in ClientPods
  BY PodNames
<1>2. \/ UNCHANGED sourceNode
      \/ \E s \in Places \cup {"unknown"} : sourceNode' = [sourceNode EXCEPT ![q] = s]
  <2>1. \A p \in ClientPods : pods[p].node \in Places
    BY DEF TypeOK, PodRecord
  <2>2. CASE init(q) \/ Kill(q)
    BY <2>2 DEF init, Kill, Places
  <2>3. CASE \/ GetSourceNodeFromPod(q, HostPod, "sourceHost", "waitHost")
             \/ GetSourceNodeFromPod(q, PodPod, "sourcePod", "waitPod")
    BY <1>1, <2>1, <2>3 DEF GetSourceNodeFromPod
  <2>4. CASE \/ WaitForPodCompletion(q, HostPod, "host", "waitHost", "listHost")
             \/ WaitForPodCompletion(q, PodPod, "pod", "waitPod", "listPod")
    BY <2>4 DEF WaitForPodCompletion, Places
  <2>5. CASE \/ CreateIperfHeadlessServices(q)
             \/ CreateIperfHostNetworkDaemonSet(q)
             \/ CreateIperfPodNetworkDaemonSet(q)
             \/ WaitForDaemonSetReady(q, "dsHost", "readyHost", "readyPod")
             \/ WaitForDaemonSetReady(q, "dsPod", "readyPod", "rbac")
             \/ CreateIperfRolesAndBindings(q)
             \/ CreateIperfBencharkScriptConfigMap(q)
             \/ CreateIperfHostNetworkBenchmarkPod(q)
             \/ CreateIperfPodNetworkBenchmarkPod(q)
             \/ DeleteOldIntraPods(q)
             \/ CreateIntraNodeBenchmarkPods(q)
             \/ WaitForIntraNodeBenchmarkCompletion(q)
             \/ Release(q) \/ ListResults(q)
    BY <2>5 DEF CreateIperfHeadlessServices, CreateIperfHostNetworkDaemonSet,
         CreateIperfPodNetworkDaemonSet, WaitForDaemonSetReady,
         CreateIperfRolesAndBindings, CreateIperfBencharkScriptConfigMap,
         CreateIperfHostNetworkBenchmarkPod, CreateIperfPodNetworkBenchmarkPod,
         DeleteOldIntraPods, DeleteOldPod, CreateClientPod,
         CreateIntraNodeBenchmarkPods, WaitForIntraNodeBenchmarkCompletion, Release,
         ListResults, ListBenchmarksWithFilter
  <2> QED BY <2>2, <2>3, <2>4, <2>5 DEF CreateNewBenchmark, ListResults
<1> QED BY <1>2 DEF TypeOK

-----------------------------------------------------------------------------
(* The cluster, and the theorems.                                          *)

\* A pod is created by nobody but the runs, and loses its node with its name.
LEMMA ClusterEffect ==
    ASSUME TypeOK, Cluster
    PROVE  /\ UNCHANGED <<pc, registered, unreleased, sourceNode, owner, reports,
                          overlapped>>
           /\ pods' \in [ClientPods -> PodRecord]
           /\ \A p \in ClientPods :
                 pods'[p].phase # "absent" =>
                    /\ pods[p].phase # "absent" /\ pods'[p].by = pods[p].by
                    /\ pods'[p].deleting = pods[p].deleting
                    /\ pods[p].node \in {pods'[p].node, None}
<1>1. CASE \E ds \in {"dsHost", "dsPod"} : ServersReady(ds)
  BY <1>1 DEF ServersReady, TypeOK
<1>2. ASSUME NEW p \in ClientPods,
             PodScheduled(p) \/ PodCompletes(p) \/ PodGone(p)
      PROVE  \E new \in PodRecord :
                /\ PodStep(p, new)
                /\ new.phase # "absent" =>
                      /\ pods[p].phase # "absent" /\ new.by = pods[p].by
                      /\ new.deleting = pods[p].deleting
                      /\ pods[p].node \in {new.node, None}
  <2>1. pods[p] \in PodRecord
    BY DEF TypeOK
  <2>2. CASE PodScheduled(p)
    <3>1. PICK n \in Nodes : PodStep(p, [pods[p] EXCEPT !.node = n])
      BY <2>2 DEF PodScheduled
    <3>2. PICK new : new = [pods[p] EXCEPT !.node = n]
      OBVIOUS
    <3>3. /\ new \in PodRecord /\ new.by = pods[p].by
          /\ new.deleting = pods[p].deleting
      BY <2>1, <3>2 DEF PodRecord, Places
    <3>4. PodStep(p, new)
      BY <3>1, <3>2 DEF PodStep
    <3> QED BY <2>2, <3>3, <3>4 DEF PodScheduled
  <2>3. CASE PodCompletes(p)
    <3>1. PICK m \in BOOLEAN :
             PodStep(p, [pods[p] EXCEPT !.phase = "Completed", !.measured = m])
      BY <2>3 DEF PodCompletes
    <3>2. PICK new : new = [pods[p] EXCEPT !.phase = "Completed", !.measured = m]
      OBVIOUS
    <3>3. /\ new \in PodRecord /\ new.by = pods[p].by
          /\ new.deleting = pods[p].deleting /\ new.node = pods[p].node
      BY <2>1, <3>2 DEF PodRecord
    <3>4. PodStep(p, new)
      BY <3>1, <3>2 DEF PodStep
    <3> QED BY <2>3, <3>3, <3>4 DEF PodCompletes
  <2>4. CASE PodGone(p)
    BY <2>4, AbsentType DEF PodGone, Absent
  <2> QED BY <1>2, <2>2, <2>3, <2>4
<1>3. ASSUME NEW p \in ClientPods, NEW new \in PodRecord, PodStep(p, new),
             new.phase # "absent" =>
                      /\ pods[p].phase # "absent" /\ new.by = pods[p].by
                      /\ new.deleting = pods[p].deleting
                      /\ pods[p].node \in {new.node, None}
      PROVE  /\ UNCHANGED <<pc, registered, unreleased, sourceNode, owner, reports,
                            overlapped>>
             /\ pods' \in [ClientPods -> PodRecord]
             /\ \A x \in ClientPods :
                   pods'[x].phase # "absent" =>
                      /\ pods[x].phase # "absent" /\ pods'[x].by = pods[x].by
                      /\ pods'[x].deleting = pods[x].deleting
                      /\ pods[x].node \in {pods'[x].node, None}
  BY <1>3 DEF PodStep, TypeOK
<1> QED BY <1>1, <1>2, <1>3 DEF Cluster

LEMMA ClusterInv ==
    ASSUME Inv, Cluster
    PROVE  Inv'
<1> USE ClusterEffect DEF Inv
<1>1. TypeOK'
  BY DEF TypeOK
<1>2. Ordered' /\ Alone' /\ RegisteredInv' /\ OwnReport'
  BY DEF Ordered, Alone, Active, RegisteredInv, OwnReport
<1>3. FreedInv'
  <2>1. \A r : FreedPods(pc[r]) \subseteq ClientPods
    BY PodNames DEF FreedPods
  <2>2. \A r : Others(r)' = Others(r)
    BY DEF Others, Later
  <2>3. \A p \in ClientPods : Live(p)' => Live(p) /\ pods'[p].by = pods[p].by
    BY DEF Live
  <2> QED BY <2>1, <2>2, <2>3 DEF FreedInv
<1>4. OwnInv'
  <2>1. \A p \in {HostPod, PodPod} : p \in ClientPods
    BY PodNames
  <2> QED BY <2>1 DEF OwnInv, OwnPod
<1>5. UnregisteredInv'
  <2>1. \A p \in ClientPods : Live(p)' => Live(p) /\ pods'[p].by = pods[p].by
    BY DEF Live
  <2> QED BY <2>1 DEF UnregisteredInv, CreatedEarly
<1> QED BY <1>1, <1>2, <1>3, <1>4, <1>5

LEMMA RunInv ==
    ASSUME Inv, NEW q \in Runs, init(q) \/ CreateNewBenchmark(q) \/ Kill(q)
    PROVE  Inv'
<1> USE DEF Inv
<1>1. RunStep(q)
  BY WorkStep DEF RunStep
<1>2. TypeOK'
  BY <1>1, RunFrame, SourceType DEF TypeOK, Touches
<1>3. Ordered' /\ Alone' /\ RegisteredInv' /\ FreedInv'
  BY <1>1, OrderedStep, AloneStep, RegisteredStep, FreedStep
<1>4. OwnInv' /\ OwnReport'
  BY <1>1, OwnRun, ReportStep
<1>5. UnregisteredInv'
  BY <1>1, UnregisteredStep
<1> QED BY <1>2, <1>3, <1>4, <1>5

LEMMA InitInv == Init => Inv
<1> SUFFICES ASSUME Init PROVE Inv
  OBVIOUS
<1>1. TypeOK
  BY AbsentType DEF Init, TypeOK, Steps, Places
<1>2. Ordered /\ Alone /\ RegisteredInv /\ FreedInv /\ OwnReport
  BY DEF Init, Ordered, Alone, RegisteredInv, FreedInv, OwnReport
<1>3. OwnInv
  BY DEF Init, OwnInv, OwnPod
<1>4. UnregisteredInv
  <2>1. None \notin Runs
    BY BenchmarkAssumption DEF Runs
  <2> QED BY <2>1 DEF Init, UnregisteredInv, CreatedEarly, Live, Absent, Objects
<1> QED BY <1>1, <1>2, <1>3, <1>4 DEF Inv

LEMMA NextInv == Inv /\ [Next]_vars => Inv'
<1> SUFFICES ASSUME Inv, [Next]_vars PROVE Inv'
  OBVIOUS
<1>1. CASE UNCHANGED vars
  <2> USE <1>1 DEF Inv, vars
  <2>1. TypeOK' /\ Ordered' /\ Alone' /\ RegisteredInv' /\ OwnReport'
    BY DEF TypeOK, Ordered, Alone, Active, RegisteredInv, OwnReport
  <2>2. \A r : Others(r)' = Others(r)
    BY DEF Others, Later
  <2>3. FreedInv'
    BY <2>2 DEF FreedInv, Live
  <2>4. OwnInv'
    BY DEF OwnInv, OwnPod
  <2>5. UnregisteredInv'
    BY DEF UnregisteredInv, CreatedEarly, Live
  <2> QED BY <2>1, <2>3, <2>4, <2>5
<1> QED BY <1>1, RunInv, ClusterInv DEF Next

\* BenchmarkInvariant: runs are started in order; a registered release gets
\* what it deleted out of the way for good; an unregistered run has created two
\* services and a DaemonSet at most; and a run alone that reads the node or the
\* logs of its host or pod network client reads the pod it created.  (The wait
\* for the intra-node pods lists by label, and takes those of a killed run.)
THEOREM BenchmarkInvariant == Spec => []Inv
  BY InitInv, NextInv, PTL DEF Spec

\* ReleaseComplete: what is left of an ended run, for any number of runs of the
\* command, overlaps, failed calls and kills.  Of what the release deletes (not
\* the service account, the role, its binding and the script, which nothing
\* deletes), nothing the run created if its release met no error, and nothing
\* at all if it had the cluster for itself; of a run that never registered its
\* release, two services and a DaemonSet at most.
THEOREM ReleaseComplete == Spec => []CleanedUp
<1>1. Inv => CleanedUp
  <2> SUFFICES ASSUME Inv, NEW r \in Runs
               PROVE  /\ EndedClean(r) =>
                            /\ \A o \in Released : owner[o] \notin Others(r)
                            /\ \A p \in ClientPods : Live(p) => pods[p].by \notin Others(r)
                      /\ pc[r] = "ended" /\ r \notin registered => CreatedEarly(r)
    <3>1. Objects \ Kept = Released
      BY DEF Objects, Kept, Released
    <3> QED BY <3>1 DEF CleanedUp, Others, CreatedEarly, Early
  <2>1. ASSUME EndedClean(r)
        PROVE  /\ \A o \in Released : owner[o] \notin Others(r)
               /\ \A p \in ClientPods : Live(p) => pods[p].by \notin Others(r)
    <3>1. FreedObjects(pc[r]) = Released /\ FreedPods(pc[r]) = ClientPods
      BY <2>1 DEF EndedClean, FreedObjects, FreedPods
    <3> QED BY <2>1, <3>1 DEF Inv, FreedInv, EndedClean
  <2>2. pc[r] = "ended" /\ r \notin registered => CreatedEarly(r)
    BY DEF Inv, UnregisteredInv
  <2> QED BY <2>1, <2>2
<1> QED BY <1>1, BenchmarkInvariant, PTL

\* ReportsOwn: unless two runs overlap, a host or pod network report comes from
\* the pod its run created and names that pod's node or none.
THEOREM ReportsOwn == Spec => []OwnReport
<1>1. Inv => OwnReport
  BY DEF Inv
<1> QED BY <1>1, BenchmarkInvariant, PTL
=============================================================================
