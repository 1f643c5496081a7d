------------------------ MODULE VaclabSystem_proofs ------------------------
(***************************************************************************)
(* The system of operator and scheduler plugin implements OperatorClients, *)
(* for every set of nodes and every finite set of pods: the scheduler is a *)
(* client among those the operator's theorems allow for.  What Filter saw  *)
(* free on an object in step is still free when the cycle reserves it.     *)
(***************************************************************************)
EXTENDS VaclabAdmission, OperatorClients_proofs

\* The provers of a leaf that names none, and the time they have.
USE ZenonT(5), SMTT(30)

-----------------------------------------------------------------------------
(* What does not depend on current is the same on both sides.              *)

LEMMA SameConstants ==
    /\ OC!Idle = Idle
    /\ OC!NewBandwidth = NewBandwidth
    /\ \A todo : OC!Booting(todo) = Booting(todo)
    /\ \A reqs : OC!Entries(reqs) = Entries(reqs)
    /\ \A reqs : OC!Used(reqs) = Used(reqs)
    /\ \A cap, used : OC!Remaining(cap, used) = Remaining(cap, used)
    /\ \A cap : OC!setDefaultBandwidthValues(cap) = setDefaultBandwidthValues(cap)
    /\ \A reqs, p : OC!AddBandwidthRequest(reqs, p) = AddBandwidthRequest(reqs, p)
    /\ \A reqs, p : OC!RemoveBandwidthRequest(reqs, p) = RemoveBandwidthRequest(reqs, p)
    /\ \A pod : /\ OC!Live(pod) <=> Live(pod)
                /\ OC!Present(pod) <=> Present(pod)
<1>1. OC!Idle = Idle
  BY DEF Idle, OC!Idle, NoRequests, OC!NoRequests, ZeroCapacity, OC!ZeroCapacity,
         ZeroMbps, OC!ZeroMbps, Link, OC!Link, Dir, OC!Dir
<1>2. \A cap : OC!setDefaultBandwidthValues(cap) = setDefaultBandwidthValues(cap)
  BY DEF setDefaultBandwidthValues, OC!setDefaultBandwidthValues, Link, OC!Link,
         Dir, OC!Dir
<1>3. OC!NewBandwidth = NewBandwidth
  BY <1>2
     DEF NewBandwidth, OC!NewBandwidth, NewStatus, OC!NewStatus,
         NoRequests, OC!NoRequests, ZeroCapacity, OC!ZeroCapacity,
         ZeroMbps, OC!ZeroMbps, Link, OC!Link, Dir, OC!Dir
<1>4. \A todo : OC!Booting(todo) = Booting(todo)
  BY DEF Booting, OC!Booting
<1>5. \A reqs : OC!Entries(reqs) = Entries(reqs)
  BY DEF Entries, OC!Entries
<1>6. \A reqs : OC!Used(reqs) = Used(reqs)
  BY DEF Used, OC!Used, MapThenSumSet, OC!MapThenSumSet, MapThenFoldSet,
         OC!MapThenFoldSet, RequestMbps, OC!RequestMbps, Entries, OC!Entries,
         ZeroMbps, OC!ZeroMbps, Link, OC!Link, Dir, OC!Dir
<1>7. \A cap, used : OC!Remaining(cap, used) = Remaining(cap, used)
  BY DEF Remaining, OC!Remaining, Link, OC!Link, Dir, OC!Dir
<1>8. \A reqs, p : /\ OC!AddBandwidthRequest(reqs, p) = AddBandwidthRequest(reqs, p)
                   /\ OC!RemoveBandwidthRequest(reqs, p)
                        = RemoveBandwidthRequest(reqs, p)
  BY DEF AddBandwidthRequest, OC!AddBandwidthRequest, RemoveBandwidthRequest,
         OC!RemoveBandwidthRequest, ExtractPodBandwidthRequirement,
         OC!ExtractPodBandwidthRequirement, Dir, OC!Dir
<1>9. \A pod : /\ OC!Live(pod) <=> Live(pod)
               /\ OC!Present(pod) <=> Present(pod)
  BY DEF Live, OC!Live, Present, OC!Present
<1> QED BY <1>1, <1>2, <1>3, <1>4, <1>5, <1>6, <1>7, <1>8, <1>9

LEMMA SameReads ==
    /\ \A n : OC!Exists(n) <=> Exists(n)
    /\ \A n : OC!PodsWithBw(n) = PodsWithBw(n)
    /\ \A reqs, n, S : OC!CleanRequests(reqs, n, S) = CleanRequests(reqs, n, S)
    /\ \A obj, clean, cap :
          /\ OC!SpecChanged(obj, clean, cap) <=> SpecChanged(obj, clean, cap)
          /\ OC!StatusChanged(obj, clean, cap) = StatusChanged(obj, clean, cap)
    /\ \A n : OC!CreatedStatus(n) = CreatedStatus(n)
<1>1. \A n : OC!Exists(n) <=> Exists(n)
  BY DEF Exists, OC!Exists
<1>2. \A n : OC!PodsWithBw(n) = PodsWithBw(n)
  BY DEF PodsWithBw, OC!PodsWithBw, Live, OC!Live
<1>3. \A reqs, n, S : OC!CleanRequests(reqs, n, S) = CleanRequests(reqs, n, S)
  BY DEF CleanRequests, OC!CleanRequests, Entries, OC!Entries, KeepsRequest,
         OC!KeepsRequest, allSiblingsOnCurrentNode, OC!allSiblingsOnCurrentNode,
         Present, OC!Present
<1>4. \A obj, clean, cap :
         /\ OC!SpecChanged(obj, clean, cap) <=> SpecChanged(obj, clean, cap)
         /\ OC!StatusChanged(obj, clean, cap) = StatusChanged(obj, clean, cap)
  <2> TAKE obj, clean, cap
  <2>1. OC!SpecChanged(obj, clean, cap) <=> SpecChanged(obj, clean, cap)
    BY DEF SpecChanged, OC!SpecChanged
  <2>2. /\ OC!Used(clean) = Used(clean)
        /\ OC!Remaining(cap, Used(clean)) = Remaining(cap, Used(clean))
        /\ OC!Entries(obj.status.reservations) = Entries(obj.status.reservations)
        /\ OC!Entries(clean) = Entries(clean)
    BY SameConstants
  <2>3. \A S : OC!Cardinality(S) = Cardinality(S)
    BY DEF Cardinality, OC!Cardinality, IsFiniteSet, OC!IsFiniteSet
  <2>4. OC!StatusChanged(obj, clean, cap) <=> StatusChanged(obj, clean, cap)
    BY <2>2, <2>3 DEF StatusChanged, OC!StatusChanged
  <2>5. /\ OC!StatusChanged(obj, clean, cap) \in BOOLEAN
        /\ StatusChanged(obj, clean, cap) \in BOOLEAN
    BY DEF StatusChanged, OC!StatusChanged
  <2>6. OC!StatusChanged(obj, clean, cap) = StatusChanged(obj, clean, cap)
    BY <2>4, <2>5
  <2> QED BY <2>1, <2>6
<1>5. \A n : OC!CreatedStatus(n) = CreatedStatus(n)
  BY DEF CreatedStatus, OC!CreatedStatus
<1> QED BY <1>1, <1>2, <1>3, <1>4, <1>5

LEMMA SameParts ==
    /\ \A kind : OC!Spend(kind) <=> Spend(kind)
    /\ \A n : OC!Take(n) <=> Take(n)
    /\ OC!End <=> End
    /\ OC!Requeue <=> Requeue
    /\ OC!BootNext <=> BootNext
    /\ OC!BootRetry <=> BootRetry
<1>1. \A kind : OC!Spend(kind) <=> Spend(kind)
  BY DEF Spend, OC!Spend
<1>2. \A n : OC!Take(n) <=> Take(n)
  BY DEF Take, OC!Take
<1>3. (OC!End <=> End) /\ (OC!Requeue <=> Requeue)
  BY SameConstants DEF End, OC!End, Requeue, OC!Requeue
<1>4. (OC!BootNext <=> BootNext) /\ (OC!BootRetry <=> BootRetry)
  BY SameConstants DEF BootNext, OC!BootNext, BootRetry, OC!BootRetry,
                       MaxRetries, OC!MaxRetries
<1> QED BY <1>1, <1>2, <1>3, <1>4

-----------------------------------------------------------------------------
(* The store's operations, seen through the mapping.                       *)

OpHolders == {"cache", "worker", "boot"}

\* What the mapping makes of current.
held == [n \in Nodes |-> current[n] \cap {"cache", "worker", "boot"}]

LEMMA StoreMaps ==
    ASSUME StoreTypeOK, NEW n \in Nodes, NEW obj, Store(n, obj)
    PROVE  OC!Store(n, obj)
  BY DEF StoreTypeOK, Store, OC!Store

LEMMA StoreSpecMaps ==
    ASSUME StoreTypeOK, NEW n \in Nodes, NEW reqs, NEW cap, StoreSpec(n, reqs, cap)
    PROVE  OC!StoreSpec(n, reqs, cap)
<1> DEFINE obj == [bw[n] EXCEPT !.requests = reqs, !.capacity = cap]
<1>1. CASE obj = bw[n]
  BY <1>1 DEF StoreSpec, OC!StoreSpec
<1>2. CASE obj # bw[n]
  <2>1. Store(n, obj)
    BY <1>2 DEF StoreSpec
  <2>2. OC!Store(n, obj)
    BY <2>1 DEF StoreTypeOK, Store, OC!Store
  <2>3. OC!StoreSpec(n, reqs, cap) <=> OC!Store(n, obj)
    BY <1>2 DEF OC!StoreSpec
  <2> QED BY <2>2, <2>3
<1> QED BY <1>1, <1>2

LEMMA StoreStatusMaps ==
    ASSUME StoreTypeOK, NEW n \in Nodes, NEW st, StoreStatus(n, st)
    PROVE  OC!StoreStatus(n, st)
  BY DEF StoreTypeOK, StoreStatus, OC!StoreStatus, Store, OC!Store

LEMMA StoreDeleteMaps ==
    ASSUME StoreTypeOK, NEW n \in Nodes, StoreDelete(n)
    PROVE  OC!StoreDelete(n)
<1>1. CASE Exists(n)
  BY <1>1, StoreMaps, SameReads DEF StoreDelete, OC!StoreDelete
<1>2. CASE ~Exists(n)
  BY <1>2, SameReads DEF StoreDelete, OC!StoreDelete
<1> QED BY <1>1, <1>2

LEMMA HoldMaps ==
    ASSUME StoreTypeOK, NEW n \in Nodes, NEW h \in OpHolders
    PROVE  /\ Hold(n, h) => OC!Hold(n, h)
           /\ HoldCached(n, h) => OC!HoldCached(n, h)
           /\ LetGo(n, h) => OC!LetGo(n, h)
           /\ h \in held[n] <=> h \in current[n]
<1>1. Hold(n, h) => OC!Hold(n, h)
  BY ZenonT(60) DEF StoreTypeOK, OpHolders, Hold, OC!Hold
<1>2. HoldCached(n, h) => OC!HoldCached(n, h)
  <2> SUFFICES ASSUME HoldCached(n, h) PROVE OC!HoldCached(n, h)
    OBVIOUS
  <2>1. CASE "cache" \in current[n]
    <3>1. current' = [current EXCEPT ![n] = current[n] \cup {h}]
      BY <2>1 DEF HoldCached
    <3>2. held' = [held EXCEPT ![n] = held[n] \cup {h}]
      BY <3>1 DEF StoreTypeOK, OpHolders, held
    <3>3. "cache" \in held[n]
      BY <2>1 DEF held
    <3> QED BY <3>2, <3>3 DEF OC!HoldCached, held
  <2>2. CASE "cache" \notin current[n]
    <3>1. current' = [current EXCEPT ![n] = current[n] \ {h}]
      BY <2>2 DEF HoldCached
    <3>2. held' = [held EXCEPT ![n] = held[n] \ {h}]
      BY <3>1 DEF StoreTypeOK, OpHolders, held
    <3>3. "cache" \notin held[n]
      BY <2>2 DEF held
    <3> QED BY <3>2, <3>3 DEF OC!HoldCached, held
  <2> QED BY <2>1, <2>2
<1>3. LetGo(n, h) => OC!LetGo(n, h)
  BY DEF StoreTypeOK, OpHolders, LetGo, OC!LetGo
<1>4. h \in held[n] <=> h \in current[n]
  BY DEF OpHolders, held
<1> QED BY <1>1, <1>2, <1>3, <1>4

\* What the scheduler's cycles hold is not seen through it.
LEMMA UnseenMaps ==
    ASSUME StoreTypeOK, NEW n \in Nodes, NEW h, h \notin OpHolders,
           Hold(n, h) \/ LetGo(n, h)
    PROVE  UNCHANGED held
  BY DEF StoreTypeOK, OpHolders, Hold, LetGo, held

-----------------------------------------------------------------------------
(* Every step of the cluster and of the operator is the same step of       *)
(* OperatorClients.                                                        *)

LEMMA ClusterStepMaps ==
    ASSUME StoreTypeOK, ClusterNext
    PROVE  OC!ClusterNext
<1>1. UNCHANGED current => UNCHANGED held
  BY DEF held
<1>2. ASSUME NEW p \in Pods, CreatePod(p)
      PROVE  OC!CreatePod(p)
  BY <1>1, <1>2 DEF CreatePod, OC!CreatePod, held
<1>3. ASSUME NEW p \in Pods, RunPod(p)
      PROVE  OC!RunPod(p)
  BY <1>1, <1>3 DEF RunPod, OC!RunPod, held
<1>4. ASSUME NEW p \in Pods, FinishPod(p)
      PROVE  OC!FinishPod(p)
  BY <1>1, <1>4, SameConstants, SameParts DEF FinishPod, OC!FinishPod, held
<1>5. ASSUME NEW p \in Pods, DeletePod(p)
      PROVE  OC!DeletePod(p)
  BY <1>1, <1>5, SameConstants, SameParts DEF DeletePod, OC!DeletePod, held
<1>6. ASSUME NEW p \in Pods, RemovePod(p)
      PROVE  OC!RemovePod(p)
  BY <1>1, <1>6, SameConstants, SameParts DEF RemovePod, OC!RemovePod, held
<1>7. ASSUME NEW n \in Nodes, JoinNode(n)
      PROVE  OC!JoinNode(n)
  BY <1>1, <1>7, SameParts DEF JoinNode, OC!JoinNode, held
<1>8. ASSUME NEW n \in Nodes, LeaveNode(n)
      PROVE  OC!LeaveNode(n)
  BY <1>1, <1>8, SameParts DEF LeaveNode, OC!LeaveNode, held
<1>9. ASSUME NEW n \in Nodes, EditCapacity(n)
      PROVE  OC!EditCapacity(n)
  <2>1. PICK c \in Capacities \ {bw[n].capacity} : StoreSpec(n, bw[n].requests, c)
    BY <1>9 DEF EditCapacity
  <2>2. PICK reqs : reqs = bw[n].requests
    OBVIOUS
  <2>3. OC!StoreSpec(n, reqs, c)
    BY <2>1, <2>2, StoreSpecMaps
  <2>4. OC!Exists(n) /\ OC!Spend("edit") /\ UNCHANGED <<pods, nodes>>
    BY <1>9, SameReads, SameParts DEF EditCapacity
  <2> QED BY <2>1, <2>2, <2>3, <2>4 DEF OC!EditCapacity
<1> QED
  BY <1>2, <1>3, <1>4, <1>5, <1>6, <1>7, <1>8, <1>9 DEF ClusterNext, OC!ClusterNext

LEMMA WatchMaps ==
    ASSUME StoreTypeOK, Watch
    PROVE  OC!Watch
<1>1. ASSUME NEW n \in Nodes, WatchBandwidth(n)
      PROVE  OC!WatchBandwidth(n)
  BY <1>1, HoldMaps DEF WatchBandwidth, OC!WatchBandwidth, OpHolders, held
<1>2. UNCHANGED clusterVars => UNCHANGED OC!clusterVars
  BY DEF clusterVars, OC!clusterVars
<1>3. ASSUME NEW n \in Nodes, WatchNode(n)
      PROVE  OC!WatchNode(n)
  BY <1>2, <1>3 DEF WatchNode, OC!WatchNode
<1>4. ASSUME NEW n \in Nodes, NodeHeartbeat(n)
      PROVE  OC!NodeHeartbeat(n)
  BY <1>2, <1>4 DEF NodeHeartbeat, OC!NodeHeartbeat
<1>5. ASSUME NEW p \in Pods, WatchPod(p)
      PROVE  OC!WatchPod(p)
  BY <1>2, <1>5 DEF WatchPod, OC!WatchPod
<1> QED BY <1>1, <1>3, <1>4, <1>5 DEF Watch, OC!Watch

LEMMA StartMaps ==
    ASSUME StoreTypeOK, NEW n \in Nodes, ReconcileStart(n)
    PROVE  OC!ReconcileStart(n)
<1>1. UNCHANGED clusterVars => UNCHANGED OC!clusterVars
  BY DEF clusterVars, OC!clusterVars
<1>2. CASE ReconcileNothing(n)
  BY <1>1, <1>2, SameParts DEF ReconcileNothing, OC!ReconcileNothing, OC!ReconcileStart
<1>3. CASE ReconcileMissing(n)
  BY <1>1, <1>3, SameParts, SameConstants
     DEF ReconcileMissing, OC!ReconcileMissing, OC!ReconcileStart
<1>4. CASE SyncStart(n)
  <2>1. OC!HoldCached(n, "worker")
    BY <1>4, HoldMaps DEF SyncStart, OpHolders
  <2>2. OC!SyncStart(n)
    BY <1>4, <2>1, SameParts, SameConstants, SameReads DEF SyncStart, OC!SyncStart
  <2> QED BY <2>2 DEF OC!ReconcileStart
<1> QED BY <1>2, <1>3, <1>4 DEF ReconcileStart

LEMMA BootMaps ==
    ASSUME ClientsTypeOK, BootStep
    PROVE  OC!BootStep
<1>0. StoreTypeOK
  BY DEF StoreTypeOK, ClientsTypeOK, ClusterTypeOK
<1>1. UNCHANGED current => UNCHANGED held
  BY DEF held
<1>2. boot.pc # "next" => boot.node \in Nodes
  BY BootType DEF ClientsTypeOK, OperatorTypeOK, Creating
<1>3. PICK m : m = boot.node
  OBVIOUS
<1>4. ASSUME NEW n \in Nodes, BootGet(n)
      PROVE  OC!BootGet(n)
  BY <1>1, <1>4 DEF BootGet, OC!BootGet, clusterVars, OC!clusterVars, held
<1>5. CASE BootCreate
  <2>1. PICK obj : obj = NewBandwidth
    OBVIOUS
  <2>2. Store(m, obj) => OC!Store(m, obj)
    BY <1>0, <1>2, <1>3, <1>5, StoreMaps DEF BootCreate
  <2>3. OC!BootCreate
    BY <1>1, <1>3, <1>5, <2>1, <2>2, SameConstants, SameReads, SameParts, ZenonT(30)
       DEF BootCreate, OC!BootCreate, held
  <2> QED BY <2>3 DEF OC!BootStep
<1>6. CASE BootFetch
  <2>1. HoldCached(m, "boot") => OC!HoldCached(m, "boot")
    BY <1>0, <1>2, <1>3, <1>6, HoldMaps DEF BootFetch, OpHolders
  <2>2. OC!BootFetch
    BY <1>1, <1>3, <1>6, <2>1, SameParts DEF BootFetch, OC!BootFetch, held
  <2> QED BY <2>2 DEF OC!BootStep
<1>7. CASE BootStatus
  <2>1. m \in Nodes
    BY <1>2, <1>3, <1>7 DEF BootStatus
  <2>2. PICK st : st = CreatedStatus(m)
    OBVIOUS
  <2>3. /\ LetGo(m, "boot") => OC!LetGo(m, "boot")
        /\ "boot" \in held[m] <=> "boot" \in current[m]
    BY <1>0, <2>1, HoldMaps DEF OpHolders
  <2>4. StoreStatus(m, st) => OC!StoreStatus(m, st)
    BY <1>0, <2>1, StoreStatusMaps
  <2>5. OC!BootStatus
    <3>1. /\ boot.pc = "status"
          /\ UNCHANGED <<pods, nodes, bwCache, podCache, nodeCache, queue, worker>>
      BY <1>7 DEF BootStatus
    <3>2. CASE /\ "boot" \in current[m] /\ Exists(m)
               /\ StoreStatus(m, CreatedStatus(m))
               /\ BootNext /\ UNCHANGED budget
      <4>1. OC!StoreStatus(m, st)
        BY <2>2, <2>4, <3>2 DEF StoreStatus, Store
      <4>2. OC!StoreStatus(boot.node, OC!CreatedStatus(boot.node))
        BY <1>3, <2>2, <4>1, SameReads DEF OC!StoreStatus, OC!Store
      <4> QED BY <1>3, <2>3, <3>1, <3>2, <4>2, SameParts, SameReads, ZenonT(30)
              DEF OC!BootStatus, held
    <3>3. CASE \/ /\ "boot" \notin current[m] /\ Exists(m)
                  /\ BootRetry /\ UNCHANGED <<bw, current, budget>>
               \/ /\ ~Exists(m)
                  /\ BootNext /\ UNCHANGED <<bw, current, budget>>
      BY <1>1, <1>3, <2>3, <3>1, <3>3, SameParts, SameReads, ZenonT(30)
         DEF OC!BootStatus, held
    <3>4. CASE /\ Spend("fault")
               /\ BootNext /\ LetGo(m, "boot") /\ UNCHANGED bw
      BY <1>3, <2>3, <3>1, <3>4, SameParts DEF OC!BootStatus
    <3> QED BY <1>3, <1>7, <3>2, <3>3, <3>4 DEF BootStatus
  <2> QED BY <2>5 DEF OC!BootStep
<1> QED BY <1>4, <1>5, <1>6, <1>7 DEF BootStep, OC!BootStep

LEMMA RestartMaps ==
    ASSUME StoreTypeOK, OperatorRestart
    PROVE  OC!OperatorRestart
<1>1. held' = [n \in Nodes |-> (held[n] \ {"worker", "boot"}) \cup {"cache"}]
  BY DEF StoreTypeOK, OperatorRestart, held
<1>2. {n \in Nodes : OC!Exists(n)} = {n \in Nodes : Exists(n)}
  BY SameReads
<1>3. {q \in Pods : OC!Present(pods[q])} = {q \in Pods : Present(pods[q])}
  BY SameConstants
<1> QED
  BY <1>1, <1>2, <1>3, SameConstants, SameParts
     DEF OperatorRestart, OC!OperatorRestart, held

LEMMA StepMaps ==
    ASSUME ClientsTypeOK, ReconcileStep
    PROVE  OC!ReconcileStep
<1>0. StoreTypeOK
  BY DEF StoreTypeOK, ClientsTypeOK, ClusterTypeOK
<1>1. UNCHANGED current => UNCHANGED held
  BY DEF held
<1>2. PICK n : n = worker.node
  OBVIOUS
<1>3. n \in Nodes
  BY <1>2, StepFrame
<1>4. /\ HoldCached(n, "worker") => OC!HoldCached(n, "worker")
      /\ LetGo(n, "worker") => OC!LetGo(n, "worker")
      /\ "worker" \in held[n] <=> "worker" \in current[n]
  BY <1>0, <1>3, HoldMaps DEF OpHolders
<1>5. \A st : StoreStatus(n, st) => OC!StoreStatus(n, st)
  BY <1>0, <1>3, StoreStatusMaps
<1>6. \A pc : WriteAccepted(pc) => OC!WriteAccepted(pc)
  BY <1>2, <1>4, SameReads DEF WriteAccepted, OC!WriteAccepted, held
<1>7. CASE SyncDelete
  <2>1. StoreDelete(n) => OC!StoreDelete(n)
    BY <1>0, <1>3, StoreDeleteMaps
  <2>2. StoreDelete(worker.node) => OC!StoreDelete(worker.node)
    BY <1>2, <2>1
       DEF StoreDelete, OC!StoreDelete, Store, OC!Store, Exists, OC!Exists
  <2>3. LetGo(worker.node, "worker") => OC!LetGo(worker.node, "worker")
    BY <1>2, <1>4 DEF LetGo, OC!LetGo
  <2>4. OC!SyncDelete
    BY <1>7, <2>2, <2>3, SameParts DEF SyncDelete, OC!SyncDelete
  <2> QED BY <2>4 DEF OC!ReconcileStep
<1>8. CASE SyncFail
  <2>1. PICK st : st = [bw[n].status EXCEPT
                          !.status = "Error",
                          !.errorReason = @ \/ worker.obj # NoBandwidth]
    OBVIOUS
  <2>2. StoreStatus(n, st) => OC!StoreStatus(n, st)
    BY <1>5
  <2>3. OC!SyncFail
    <3>1. CASE "worker" \in current[n] /\ Exists(n)
      <4>1. StoreStatus(n, st)
        BY <1>2, <1>8, <2>1, <3>1, ZenonT(30) DEF SyncFail, StoreStatus, Store
      <4>2. OC!StoreStatus(worker.node, st)
        BY <1>2, <2>2, <4>1 DEF OC!StoreStatus, OC!Store
      <4>3. "worker" \in held[worker.node] /\ OC!Exists(worker.node)
        BY <1>2, <1>4, <3>1, SameReads
      <4> QED
        BY <1>2, <1>8, <2>1, <4>2, <4>3, SameParts, ZenonT(30)
           DEF SyncFail, OC!SyncFail, OC!StoreStatus, OC!Store, held
    <3>2. CASE ~("worker" \in current[n] /\ Exists(n))
      BY <1>1, <1>2, <1>4, <1>8, <3>2, SameParts, SameReads, ZenonT(30)
         DEF SyncFail, OC!SyncFail, held
    <3> QED BY <3>1, <3>2
  <2> QED BY <2>3 DEF OC!ReconcileStep
<1>9. CASE SyncCompute
  <2>1. OC!SyncCompute
    BY <1>1, <1>2, <1>4, <1>9, SameConstants, SameReads, ZenonT(30)
       DEF SyncCompute, OC!SyncCompute, held
  <2> QED BY <2>1 DEF OC!ReconcileStep
<1>10. CASE SyncUpdate
  <2>1. PICK reqs, cap : reqs = worker.clean /\ cap = worker.cap
    OBVIOUS
  <2>2. StoreSpec(n, reqs, cap) => OC!StoreSpec(n, reqs, cap)
    BY <1>0, <1>3, StoreSpecMaps
  <2>3. StoreSpec(n, reqs, cap)
    BY <1>2, <1>10, <2>1 DEF SyncUpdate, StoreSpec, Store
  <2>4. OC!StoreSpec(worker.node, worker.clean, worker.cap)
    BY <1>2, <2>1, <2>2, <2>3 DEF OC!StoreSpec, OC!Store
  <2>5. OC!SyncUpdate
    BY <1>6, <1>10, <2>4 DEF SyncUpdate, OC!SyncUpdate
  <2> QED BY <2>5 DEF OC!ReconcileStep
<1>11. CASE SyncRefetch
  <2>1. OC!SyncRefetch
    BY <1>2, <1>4, <1>11, SameParts DEF SyncRefetch, OC!SyncRefetch
  <2> QED BY <2>1 DEF OC!ReconcileStep
<1>12. CASE SyncStatus
  <2>1. PICK st : st = [status |-> "Created", errorReason |-> FALSE,
                        used |-> Used(worker.clean),
                        remaining |-> Remaining(worker.cap, Used(worker.clean)),
                        capacity |-> worker.statusCap,
                        reservations |-> worker.clean]
    OBVIOUS
  <2>2. StoreStatus(n, st)
    BY <1>2, <1>12, <2>1 DEF SyncStatus, StoreStatus, Store
  <2>3. st = [status |-> "Created", errorReason |-> FALSE,
                        used |-> OC!Used(worker.clean),
                        remaining |-> OC!Remaining(worker.cap,
                                                   OC!Used(worker.clean)),
                        capacity |-> worker.statusCap,
                        reservations |-> worker.clean]
    BY <1>2, <2>1, SameConstants, SameReads
  <2>4. OC!StoreStatus(n, st)
    BY <1>5, <2>2
  <2>5. OC!SyncStatus
    BY <1>2, <1>6, <1>12, <2>3, <2>4, SameParts
       DEF SyncStatus, OC!SyncStatus, OC!StoreStatus, OC!Store
  <2> QED BY <2>5 DEF OC!ReconcileStep
<1>13. ASSUME NEW pc \in {"update", "status", "statusNew"}, WriteRefused(pc)
       PROVE  OC!ReconcileStep
  <2>1. OC!WriteRefused(pc)
    BY <1>2, <1>4, <1>13, SameReads, SameParts
       DEF WriteRefused, OC!WriteRefused, held
  <2> QED BY <2>1 DEF OC!ReconcileStep
<1>14. CASE CreateBandwidth
  <2>1. PICK obj : obj = NewBandwidth
    OBVIOUS
  <2>2. Store(n, obj) => OC!Store(n, obj)
    BY <1>0, <1>3, StoreMaps
  <2>3. OC!CreateBandwidth
    BY <1>1, <1>2, <1>4, <1>14, <2>1, <2>2, SameConstants, SameReads, SameParts, ZenonT(30)
       DEF CreateBandwidth, OC!CreateBandwidth, held
  <2> QED BY <2>3 DEF OC!ReconcileStep
<1>15. CASE CreateFetch
  <2>1. OC!CreateFetch
    BY <1>1, <1>2, <1>4, <1>15, SameParts DEF CreateFetch, OC!CreateFetch, held
  <2> QED BY <2>1 DEF OC!ReconcileStep
<1>16. CASE CreateStatus
  <2>1. PICK st : st = CreatedStatus(n)
    OBVIOUS
  <2>2. StoreStatus(n, st)
    BY <1>2, <1>16, <2>1 DEF CreateStatus, StoreStatus, Store
  <2>3. st = OC!CreatedStatus(worker.node)
    BY <1>2, <2>1, SameConstants, SameReads, ZenonT(30)
  <2>4. OC!StoreStatus(n, st)
    BY <1>5, <2>2
  <2>5. OC!CreateStatus
    BY <1>2, <1>6, <1>16, <2>3, <2>4, SameParts
       DEF CreateStatus, OC!CreateStatus, OC!StoreStatus, OC!Store
  <2> QED BY <2>5 DEF OC!ReconcileStep
<1> QED
  BY <1>7, <1>8, <1>9, <1>10, <1>11, <1>12, <1>13, <1>14, <1>15, <1>16, ZenonT(30)
     DEF ReconcileStep

-----------------------------------------------------------------------------
(* The scheduler.  Its cycles have a pod that was created, and a node from *)
(* the moment they reserve on one.                                         *)

CyclePc == {"filter", "score", "reserve", "reserveUpdate", "unreserve",
            "unreserveUpdate"}
Cycle == [pc : CyclePc, pod : Pods, node : Nodes \cup {NoNode},
          feasible : SUBSET Nodes]
Binding == [pc : {"bind", "unreserve", "unreserveUpdate"}, node : Nodes]

SchedulerTypeOK ==
    /\ cycle \in {NoCycle} \cup Cycle
    /\ cycle # NoCycle => pods[cycle.pod].phase # "Unborn"
    /\ cycle.pc \in CyclePc \ {"filter", "score"} => cycle.node \in Nodes
    /\ binding \in [Pods -> {NoBinding} \cup Binding]

SystemTypeOK == ClientsTypeOK /\ SchedulerTypeOK

\* A cycle in progress, and one that reserves.
LEMMA CycleType ==
    ASSUME SchedulerTypeOK, cycle.pc \in CyclePc
    PROVE  /\ cycle \in Cycle /\ cycle.pod \in Pods
           /\ pods[cycle.pod].phase # "Unborn"
           /\ cycle.pc \notin {"filter", "score"} => cycle.node \in Nodes
  BY DEF SchedulerTypeOK, NoCycle, Cycle, CyclePc

LEMMA BindingType ==
    ASSUME SchedulerTypeOK, NEW p \in Pods, binding[p].pc # "none"
    PROVE  binding[p] \in Binding /\ binding[p].node \in Nodes
  BY DEF SchedulerTypeOK, NoBinding, Binding

\* What a step of the scheduler leaves alone that OperatorClients can see, or
\* spends of the budget.
Unseen ==
    /\ UNCHANGED <<bw, pods, nodes, held, operatorVars>>
    /\ current' \in [Nodes -> SUBSET Holder]
    /\ UNCHANGED budget \/ Spend("fault") \/ Spend("restart")

LEMMA HoldUnseen ==
    ASSUME ClientsTypeOK, NEW n \in Nodes, NEW h \in {"cycle"} \cup Pods,
           Hold(n, h) \/ LetGo(n, h)
    PROVE  UNCHANGED held /\ current' \in [Nodes -> SUBSET Holder]
<1>1. h \notin OpHolders /\ h \in Holder
  BY HolderAssumption DEF OpHolders, Holder
<1>2. StoreTypeOK
  BY DEF StoreTypeOK, ClientsTypeOK, ClusterTypeOK
<1>3. UNCHANGED held
  BY <1>1, <1>2, UnseenMaps
<1>4. current' \in [Nodes -> SUBSET Holder]
  BY <1>1, <1>2 DEF StoreTypeOK, Hold, LetGo
<1> QED BY <1>3, <1>4

LEMMA KeepUnseen ==
    ASSUME ClientsTypeOK, UNCHANGED current
    PROVE  UNCHANGED held /\ current' \in [Nodes -> SUBSET Holder]
  BY DEF held, ClientsTypeOK, ClusterTypeOK

\* Removing a request that is not there writes the stored object back.
LEMMA RemoveEffect ==
    ASSUME ClientsTypeOK, NEW n \in Nodes, NEW p \in Pods, Exists(n),
           RemoveRequest(n, p), UNCHANGED <<budget, pods, nodes, operatorVars>>
    PROVE  ClientRelease(n, p) \/ Unseen
<1>1. CASE p \in Entries(bw[n].requests)
  BY <1>1 DEF ClientRelease, RemoveRequest
<1>2. CASE p \notin Entries(bw[n].requests)
  <2>1. bw[n] \in BandwidthObject /\ bw[n].requests \in Requests
    BY DEF ClientsTypeOK, ClusterTypeOK, Exists, BandwidthObject
  <2>2. RemoveBandwidthRequest(bw[n].requests, p) = bw[n].requests
    BY <1>2, <2>1 DEF RemoveBandwidthRequest, Entries, Requests
  <2>3. [bw[n] EXCEPT !.requests = bw[n].requests, !.capacity = bw[n].capacity]
           = bw[n]
    BY <2>1 DEF BandwidthObject
  <2>4. UNCHANGED <<bw, current>>
    BY <2>2, <2>3 DEF RemoveRequest, StoreSpec
  <2> QED BY <2>4, KeepUnseen DEF Unseen
<1> QED BY <1>1, <1>2

LEMMA UnreserveEffect ==
    ASSUME ClientsTypeOK, NEW n \in Nodes, NEW p \in Pods,
           NEW h \in {"cycle"} \cup Pods, UnreserveUpdate(n, p, h),
           UNCHANGED <<pods, nodes, operatorVars>>
    PROVE  ClientRelease(n, p) \/ Unseen
<1>1. CASE h \in current[n] /\ Exists(n) /\ RemoveRequest(n, p) /\ UNCHANGED budget
  BY <1>1, RemoveEffect
<1>2. CASE /\ LetGo(n, h) /\ UNCHANGED bw
           /\ UNCHANGED budget \/ Spend("fault")
  BY <1>2, HoldUnseen DEF Unseen
<1> QED BY <1>1, <1>2 DEF UnreserveUpdate

LEMMA ReserveEffect ==
    ASSUME SystemTypeOK, ReserveGet \/ ReserveUpdate, UNCHANGED operatorVars
    PROVE  (\E n \in Nodes, p \in Pods : ClientRequest(n, p)) \/ Unseen
<1>1. PICK n, p : n = cycle.node /\ p = cycle.pod
  OBVIOUS
<1>2. /\ n \in Nodes /\ p \in Pods /\ pods[p].phase # "Unborn"
      /\ UNCHANGED <<pods, nodes>>
  BY <1>1, CycleType DEF SystemTypeOK, ReserveGet, ReserveUpdate, CyclePc
<1>3. CASE ReserveGet
  <2>1. UNCHANGED current \/ Hold(n, "cycle")
    BY <1>1, <1>3 DEF ReserveGet, Hold
  <2>2. UNCHANGED held /\ current' \in [Nodes -> SUBSET Holder]
    BY <1>2, <2>1, HoldUnseen, KeepUnseen DEF SystemTypeOK
  <2> QED BY <1>3, <2>2 DEF ReserveGet, Unseen
<1>4. CASE ReserveUpdate
  <2>1. \/ AddRequest(n, p) /\ Exists(n) /\ MayFail
        \/ LetGo(n, "cycle") /\ UNCHANGED bw /\ MayFail
    BY <1>1, <1>4 DEF ReserveUpdate, AddRequest, StoreSpec, Store, LetGo, MayFail
  <2>2. CASE AddRequest(n, p) /\ Exists(n) /\ MayFail
    <3>1. ClientRequest(n, p)
      BY <1>2, <2>2 DEF ClientRequest, AddRequest
    <3> QED BY <1>2, <3>1
  <2>3. CASE LetGo(n, "cycle") /\ UNCHANGED bw /\ MayFail
    BY <1>2, <2>3, HoldUnseen DEF SystemTypeOK, MayFail, Unseen
  <2> QED BY <2>1, <2>2, <2>3
<1> QED BY <1>3, <1>4

LEMMA CycleUnreserveEffect ==
    ASSUME SystemTypeOK, CycleUnreserveGet \/ CycleUnreserveUpdate,
           UNCHANGED operatorVars
    PROVE  (\E n \in Nodes, p \in Pods : ClientRelease(n, p)) \/ Unseen
<1>1. PICK n, p : n = cycle.node /\ p = cycle.pod
  OBVIOUS
<1>2. n \in Nodes /\ p \in Pods /\ UNCHANGED <<pods, nodes>>
  BY <1>1, CycleType
     DEF SystemTypeOK, CycleUnreserveGet, CycleUnreserveUpdate, CyclePc
<1>3. CASE CycleUnreserveGet
  <2>1. UNCHANGED current \/ Hold(n, "cycle")
    BY <1>1, <1>3 DEF CycleUnreserveGet, UnreserveGivesUp, Hold
  <2>2. UNCHANGED held /\ current' \in [Nodes -> SUBSET Holder]
    BY <1>2, <2>1, HoldUnseen, KeepUnseen DEF SystemTypeOK
  <2> QED BY <1>3, <2>2 DEF CycleUnreserveGet, UnreserveGivesUp, Unseen
<1>4. CASE CycleUnreserveUpdate
  <2>1. UnreserveUpdate(n, p, "cycle")
    BY <1>1, <1>4
       DEF CycleUnreserveUpdate, UnreserveUpdate, RemoveRequest, StoreSpec, Store,
           LetGo, Exists
  <2> QED BY <1>2, <2>1, UnreserveEffect DEF SystemTypeOK
<1> QED BY <1>3, <1>4

LEMMA BindingEffect ==
    ASSUME SystemTypeOK, NEW p \in Pods, BindingStep(p), UNCHANGED operatorVars
    PROVE  (\E n \in Nodes : ClientRelease(n, p) \/ ClientBind(n, p)) \/ Unseen
<1>1. PICK n : n = binding[p].node
  OBVIOUS
<1>2. n \in Nodes /\ UNCHANGED nodes
  BY <1>1, BindingType
     DEF SystemTypeOK, BindingStep, Bind, BindFails, BindingUnreserveGet,
         BindingUnreserveUpdate
<1>3. CASE Bind(p) \/ BindFails(p)
  <2>1. /\ UNCHANGED <<bw, current, nodes>>
        /\ \/ /\ Bindable(p) /\ MayFail
              /\ pods' = [pods EXCEPT ![p].node = n]
           \/ UNCHANGED pods /\ MayFail
    BY <1>1, <1>3 DEF Bind, BindFails, MayFail
  <2>2. CASE Bindable(p) /\ MayFail /\ pods' = [pods EXCEPT ![p].node = n]
    BY <1>2, <2>1, <2>2 DEF Bindable, ClientBind
  <2>3. CASE UNCHANGED pods /\ MayFail
    BY <2>1, <2>3, KeepUnseen DEF SystemTypeOK, MayFail, Unseen
  <2> QED BY <2>1, <2>2, <2>3
<1>4. CASE BindingUnreserveGet(p)
  <2>1. UNCHANGED current \/ Hold(n, p)
    BY <1>1, <1>4 DEF BindingUnreserveGet, UnreserveGivesUp, Hold
  <2>2. UNCHANGED held /\ current' \in [Nodes -> SUBSET Holder]
    BY <1>2, <2>1, HoldUnseen, KeepUnseen DEF SystemTypeOK
  <2> QED BY <1>4, <2>2 DEF BindingUnreserveGet, UnreserveGivesUp, Unseen
<1>5. CASE BindingUnreserveUpdate(p)
  <2>1. UnreserveUpdate(n, p, p) /\ UNCHANGED <<pods, nodes>>
    BY <1>1, <1>5
       DEF BindingUnreserveUpdate, UnreserveUpdate, RemoveRequest, StoreSpec,
           Store, LetGo, Exists
  <2> QED BY <1>2, <2>1, UnreserveEffect DEF SystemTypeOK
<1> QED BY <1>3, <1>4, <1>5 DEF BindingStep

\* SchedulerEffect: whatever the scheduler does, it adds or removes one request,
\* binds one pod, or does nothing the operator can see.
LEMMA SchedulerEffect ==
    ASSUME SystemTypeOK, SchedulerNext, UNCHANGED operatorVars
    PROVE  ClientWrite \/ Unseen
<1>1. ASSUME UNCHANGED clusterVars
      PROVE  Unseen
  BY <1>1, KeepUnseen DEF SystemTypeOK, Unseen, clusterVars
<1>2. CASE (\E p \in Pods : PreFilter(p)) \/ Filter \/ ScoreNodes
  BY <1>1, <1>2 DEF PreFilter, Filter, ScoreNodes
<1>3. CASE SchedulerRestart
  <2>1. UNCHANGED held /\ current' \in [Nodes -> SUBSET Holder]
    BY <1>3, HolderAssumption
       DEF SchedulerRestart, held, SystemTypeOK, ClientsTypeOK, ClusterTypeOK
  <2> QED BY <1>3, <2>1 DEF SchedulerRestart, Unseen
<1> QED
  BY <1>2, <1>3, ReserveEffect, CycleUnreserveEffect, BindingEffect, ZenonT(30)
     DEF SchedulerNext, CycleStep, ClientWrite

-----------------------------------------------------------------------------
(* Types.                                                                  *)

\* A pod that was created is never unborn again.
LEMMA PodsStayBorn ==
    ASSUME ClientsTypeOK, NEW p \in Pods, pods[p].phase # "Unborn",
           \/ ClusterNext
           \/ OperatorNext
           \/ ClientWrite
           \/ UNCHANGED pods
    PROVE  pods'[p].phase # "Unborn"
<1>1. CASE UNCHANGED pods
  BY <1>1
<1>2. CASE ClientWrite
  BY <1>2, ZenonT(30) DEF ClientWrite, ClientRequest, ClientRelease, ClientBind,
              ClientsTypeOK, ClusterTypeOK, Pod
<1>3. CASE OperatorNext
  BY <1>1, <1>3, ZenonT(30)
     DEF OperatorNext, Watch, WatchBandwidth, WatchNode, NodeHeartbeat, WatchPod,
         WorkerStep, ReconcileStart, ReconcileNothing, ReconcileMissing,
         SyncStart, ReconcileStep, SyncDelete, SyncFail, SyncCompute, SyncUpdate,
         SyncRefetch, SyncStatus, WriteRefused, CreateBandwidth, CreateFetch,
         CreateStatus, BootStep, BootGet, BootCreate, BootFetch, BootStatus,
         OperatorRestart, clusterVars
<1>4. CASE ClusterNext
  <2>1. UNCHANGED pods \/ \E q \in Pods :
           \/ \E ph \in Phase \ {"Unborn"} : pods' = [pods EXCEPT ![q].phase = ph]
           \/ pods' = [pods EXCEPT ![q].deleting = TRUE]
    <3>1. ASSUME NEW q \in Pods, DeletePod(q)
          PROVE  \/ pods' = [pods EXCEPT ![q].phase = "Gone"]
                 \/ pods' = [pods EXCEPT ![q].deleting = TRUE]
      BY <3>1 DEF DeletePod
    <3> QED
      BY <1>4, <3>1 DEF ClusterNext, CreatePod, RunPod, FinishPod, RemovePod,
                        JoinNode, LeaveNode, EditCapacity, Phase
  <2> QED BY <2>1 DEF ClientsTypeOK, ClusterTypeOK, Pod
<1> QED BY <1>1, <1>2, <1>3, <1>4, ZenonT(30)

LEMMA SchedulerStepClients ==
    ASSUME SystemTypeOK, SchedulerNext, UNCHANGED operatorVars
    PROVE  /\ ClientsTypeOK'
           /\ \A p \in Pods : pods[p].phase # "Unborn" => pods'[p].phase # "Unborn"
<1> USE DEF SystemTypeOK
<1>1. ClientWrite \/ Unseen
  BY SchedulerEffect
<1>2. ClientsTypeOK'
  <2>1. CASE ClientWrite
    BY <2>1, ClientStepType
  <2>2. CASE Unseen
    <3>1. budget' \in [Rare -> Nat]
      BY <2>2, SpendType DEF Unseen, ClientsTypeOK, ClusterTypeOK, Rare
    <3>2. OperatorTypeOK'
      BY <2>2 DEF Unseen, operatorVars, ClientsTypeOK, OperatorTypeOK
    <3> QED BY <2>2, <3>1, <3>2 DEF Unseen, ClientsTypeOK, ClusterTypeOK
  <2> QED BY <1>1, <2>1, <2>2
<1>3. \A p \in Pods : pods[p].phase # "Unborn" => pods'[p].phase # "Unborn"
  BY <1>1, PodsStayBorn DEF Unseen
<1> QED BY <1>2, <1>3

LEMMA SchedulerStepType ==
    ASSUME SystemTypeOK, SchedulerNext, UNCHANGED operatorVars
    PROVE  SchedulerTypeOK'
<1> USE DEF SystemTypeOK
<1>1. \A p \in Pods : pods[p].phase # "Unborn" => pods'[p].phase # "Unborn"
  BY SchedulerStepClients
<1>4. ASSUME cycle' = NoCycle \/ UNCHANGED cycle,
             binding' \in [Pods -> {NoBinding} \cup Binding]
      PROVE  SchedulerTypeOK'
  <2>1. CASE cycle' = NoCycle
    BY <1>4, <2>1 DEF SchedulerTypeOK, NoCycle, CyclePc
  <2>2. CASE UNCHANGED cycle
    <3>1. cycle # NoCycle => cycle.pod \in Pods
      BY DEF SchedulerTypeOK, Cycle
    <3> QED BY <1>1, <1>4, <2>2, <3>1 DEF SchedulerTypeOK
  <2> QED BY <1>4, <2>1, <2>2
<1>5. ASSUME cycle.pc \in CyclePc, NEW pc \in CyclePc,
             NEW n \in Nodes \cup {NoNode}, NEW S \in SUBSET Nodes,
             cycle' = [cycle EXCEPT !.pc = pc, !.node = n, !.feasible = S],
             pc \in {"filter", "score"} \/ n \in Nodes,
             UNCHANGED binding
      PROVE  SchedulerTypeOK'
  <2>1. cycle' \in Cycle /\ cycle'.pc = pc /\ cycle'.node = n
           /\ cycle'.pod = cycle.pod
    BY <1>5, CycleType DEF Cycle
  <2>2. pods'[cycle'.pod].phase # "Unborn"
    BY <1>1, <1>5, <2>1, CycleType
  <2> QED BY <1>5, <2>1, <2>2 DEF SchedulerTypeOK
<1>6. ASSUME NEW p \in Pods, PreFilter(p)
      PROVE  SchedulerTypeOK'
  <2>1. cycle' \in Cycle /\ cycle'.pc = "filter" /\ cycle'.pod = p
    BY <1>6 DEF PreFilter, NoCycle, Cycle, CyclePc
  <2>2. pods'[p].phase # "Unborn" /\ UNCHANGED binding
    BY <1>1, <1>6 DEF PreFilter
  <2> QED BY <2>1, <2>2 DEF SchedulerTypeOK
<1>7. CASE Filter
  <2>1. PICK S : S = {n \in nodes : HasSufficientBandwidth(n, cycle.pod)}
    OBVIOUS
  <2>2. S \in SUBSET Nodes
    BY <2>1 DEF ClientsTypeOK, ClusterTypeOK
  <2>3. CASE cycle' = NoCycle
    BY <1>4, <1>7, <2>3 DEF Filter, SchedulerTypeOK
  <2>4. CASE cycle' = [cycle EXCEPT !.pc = "score", !.feasible = S]
    <3>1. cycle \in Cycle /\ UNCHANGED binding
      BY <1>7, CycleType DEF Filter, CyclePc
    <3>2. cycle' = [cycle EXCEPT !.pc = "score", !.node = cycle.node,
                                 !.feasible = S]
      BY <2>4, <3>1 DEF Cycle
    <3>3. /\ cycle.pc \in CyclePc /\ "score" \in CyclePc
          /\ cycle.node \in Nodes \cup {NoNode}
      BY <1>7, <3>1 DEF Filter, CyclePc, Cycle
    <3> QED BY <1>5, <2>2, <3>1, <3>2, <3>3, ZenonT(30)
  <2> QED BY <1>7, <2>1, <2>3, <2>4 DEF Filter
<1>8. CASE ScoreNodes
  <2>3. \/ cycle' = NoCycle
        \/ \E n \in cycle.feasible :
              cycle' = [cycle EXCEPT !.pc = "reserve", !.node = n]
    BY <1>8 DEF ScoreNodes
  <2>1. CASE cycle' = NoCycle
    BY <1>4, <1>8, <2>1 DEF ScoreNodes, SchedulerTypeOK
  <2>2. ASSUME NEW n \in cycle.feasible,
               cycle' = [cycle EXCEPT !.pc = "reserve", !.node = n]
        PROVE  SchedulerTypeOK'
    <3>1. cycle \in Cycle /\ UNCHANGED binding /\ cycle.pc \in CyclePc
      BY <1>8, CycleType DEF ScoreNodes, CyclePc
    <3>2. cycle' = [cycle EXCEPT !.pc = "reserve", !.node = n,
                                 !.feasible = cycle.feasible]
      BY <2>2, <3>1 DEF Cycle
    <3> QED BY <1>5, <2>2, <3>1, <3>2, ZenonT(30) DEF CyclePc, Cycle
  <2> QED BY <2>3, <2>1, <2>2
<1>9. ASSUME NEW pc \in CyclePc \ {"filter", "score"},
             cycle.pc \in CyclePc \ {"filter", "score"},
             cycle' = [cycle EXCEPT !.pc = pc], UNCHANGED binding
      PROVE  SchedulerTypeOK'
  <2>1. cycle \in Cycle /\ cycle.node \in Nodes
    BY <1>9, CycleType
  <2>2. cycle' = [cycle EXCEPT !.pc = pc, !.node = cycle.node,
                               !.feasible = cycle.feasible]
    BY <1>9, <2>1 DEF Cycle
  <2> QED BY <1>5, <1>9, <2>1, <2>2, ZenonT(30) DEF Cycle
<1>10. CASE ReserveGet \/ ReserveUpdate
  <2>1. cycle.pc \in CyclePc \ {"filter", "score"}
    BY <1>10 DEF ReserveGet, ReserveUpdate, CyclePc
  <2>2. CASE StartBinding(cycle.pod, cycle.node)
    <3>1. [pc |-> "bind", node |-> cycle.node] \in Binding
      BY <2>1, CycleType DEF Binding
    <3> QED BY <1>4, <2>2, <3>1 DEF StartBinding, SchedulerTypeOK
  <2>3. CASE /\ UNCHANGED binding
             /\ \E pc \in {"reserveUpdate", "unreserve"} :
                   cycle' = [cycle EXCEPT !.pc = pc]
    BY <1>9, <2>1, <2>3 DEF CyclePc
  <2> QED BY <1>10, <2>2, <2>3 DEF ReserveGet, ReserveUpdate
<1>11. CASE CycleUnreserveGet \/ CycleUnreserveUpdate
  <2>1. cycle.pc \in CyclePc \ {"filter", "score"} /\ UNCHANGED binding
    BY <1>11 DEF CycleUnreserveGet, CycleUnreserveUpdate, CyclePc
  <2>2. CASE cycle' = NoCycle
    BY <1>4, <2>1, <2>2 DEF SchedulerTypeOK
  <2>3. CASE cycle' = [cycle EXCEPT !.pc = "unreserveUpdate"]
    BY <1>9, <2>1, <2>3 DEF CyclePc
  <2> QED BY <1>11, <2>2, <2>3 DEF CycleUnreserveGet, CycleUnreserveUpdate
<1>12. ASSUME NEW p \in Pods, BindingStep(p)
       PROVE  SchedulerTypeOK'
  <2>1. binding[p] \in Binding /\ UNCHANGED cycle
    BY <1>12, BindingType
       DEF BindingStep, Bind, BindFails, BindingUnreserveGet,
           BindingUnreserveUpdate
  <2>2. \/ EndBinding(p)
        \/ \E pc \in {"unreserve", "unreserveUpdate"} : SetBinding(p, pc)
    BY <1>12 DEF BindingStep, Bind, BindFails, BindingUnreserveGet,
                 BindingUnreserveUpdate
  <2>3. binding' \in [Pods -> {NoBinding} \cup Binding]
    BY <2>1, <2>2, ZenonT(30) DEF EndBinding, SetBinding, SchedulerTypeOK, Binding
  <2> QED BY <1>4, <2>1, <2>3
<1>13. CASE SchedulerRestart
  BY <1>4, <1>13 DEF SchedulerRestart
<1> QED
  BY <1>6, <1>7, <1>8, <1>10, <1>11, <1>12, <1>13, ZenonT(30) DEF SchedulerNext, CycleStep

LEMMA SystemInit == Init => SystemTypeOK /\ OperatorInv
<1> SUFFICES ASSUME Init PROVE SystemTypeOK /\ OperatorInv
  OBVIOUS
<1>1. ClientsInit /\ SchedulerInit
  BY DEF Init, ClientsInit
<1>2. ClientsTypeOK /\ OperatorInv
  BY <1>1, InitType, InitInv
<1>3. SchedulerTypeOK
  BY <1>1 DEF SchedulerInit, SchedulerTypeOK, NoCycle, CyclePc
<1> QED BY <1>2, <1>3 DEF SystemTypeOK

LEMMA SystemStepType == SystemTypeOK /\ [Next]_vars => SystemTypeOK'
<1> SUFFICES ASSUME SystemTypeOK, [Next]_vars PROVE SystemTypeOK'
  OBVIOUS
<1>1. CASE UNCHANGED vars
  BY <1>1 DEF vars, clusterVars, operatorVars, schedulerVars, SystemTypeOK,
              ClientsTypeOK, ClusterTypeOK, OperatorTypeOK, SchedulerTypeOK
<1>2. CASE \/ ClusterNext /\ UNCHANGED <<operatorVars, schedulerVars>>
           \/ OperatorNext /\ UNCHANGED schedulerVars
  <2>1. ClientsNext /\ UNCHANGED schedulerVars
    BY <1>2 DEF ClientsNext
  <2>2. ClientsTypeOK'
    BY <2>1, NextType DEF SystemTypeOK
  <2>3. cycle # NoCycle => cycle.pod \in Pods
    BY DEF SystemTypeOK, SchedulerTypeOK, Cycle
  <2>4. \A p \in Pods : pods[p].phase # "Unborn" => pods'[p].phase # "Unborn"
    BY <1>2, PodsStayBorn DEF SystemTypeOK
  <2>5. SchedulerTypeOK'
    BY <2>1, <2>3, <2>4 DEF SystemTypeOK, SchedulerTypeOK, schedulerVars
  <2> QED BY <2>2, <2>5 DEF SystemTypeOK
<1> QED
  BY <1>1, <1>2, SchedulerStepClients, SchedulerStepType DEF Next, SystemTypeOK

\* SystemTypeCorrect: every variable of the system keeps its type; a cycle that
\* reserves, binds or unreserves always has a node, and never a pod that was
\* not created.
THEOREM SystemTypeCorrect == Spec => []SystemTypeOK
  BY SystemInit, SystemStepType, PTL DEF Spec

-----------------------------------------------------------------------------
(* The refinement.                                                         *)

LEMMA MayFailMaps == OC!MayFail <=> MayFail
  BY SameParts DEF MayFail, OC!MayFail

LEMMA ClientWriteMaps ==
    ASSUME StoreTypeOK, ClientWrite
    PROVE  OC!ClientWrite
<1>1. UNCHANGED operatorVars => UNCHANGED OC!operatorVars
  BY DEF operatorVars, OC!operatorVars
<1>2. ASSUME NEW n \in Nodes, NEW p \in Pods, ClientRequest(n, p)
      PROVE  OC!ClientRequest(n, p)
  <2>1. PICK reqs, cap : /\ reqs = AddBandwidthRequest(bw[n].requests, p)
                         /\ cap = bw[n].capacity
    OBVIOUS
  <2>2. StoreSpec(n, reqs, cap)
    BY <1>2, <2>1 DEF ClientRequest, StoreSpec, Store
  <2>3. OC!StoreSpec(n, reqs, cap)
    BY <2>2, StoreSpecMaps
  <2>4. OC!StoreSpec(n, OC!AddBandwidthRequest(bw[n].requests, p), bw[n].capacity)
    BY <2>1, <2>3, SameConstants DEF OC!StoreSpec, OC!Store
  <2> QED BY <1>1, <1>2, <2>4, SameReads, MayFailMaps, ZenonT(30)
          DEF ClientRequest, OC!ClientRequest
<1>3. ASSUME NEW n \in Nodes, NEW p \in Pods, ClientRelease(n, p)
      PROVE  OC!ClientRelease(n, p)
  <2>1. PICK reqs, cap : /\ reqs = RemoveBandwidthRequest(bw[n].requests, p)
                         /\ cap = bw[n].capacity
    OBVIOUS
  <2>2. StoreSpec(n, reqs, cap)
    BY <1>3, <2>1 DEF ClientRelease, StoreSpec, Store
  <2>3. OC!StoreSpec(n, reqs, cap)
    BY <2>2, StoreSpecMaps
  <2>4. OC!StoreSpec(n, OC!RemoveBandwidthRequest(bw[n].requests, p),
                     bw[n].capacity)
    BY <2>1, <2>3, SameConstants DEF OC!StoreSpec, OC!Store
  <2> QED BY <1>1, <1>3, <2>4, SameReads, SameConstants, ZenonT(30)
          DEF ClientRelease, OC!ClientRelease
<1>4. ASSUME NEW n \in Nodes, NEW p \in Pods, ClientBind(n, p)
      PROVE  OC!ClientBind(n, p)
  BY <1>1, <1>4, MayFailMaps DEF ClientBind, OC!ClientBind
<1> QED BY <1>2, <1>3, <1>4 DEF ClientWrite, OC!ClientWrite

LEMMA UnseenStepMaps ==
    ASSUME Unseen
    PROVE  [OC!ClientsNext]_(OC!opVars)
<1>1. UNCHANGED OC!operatorVars
  BY DEF Unseen, operatorVars, OC!operatorVars
<1>2. CASE UNCHANGED budget
  BY <1>1, <1>2 DEF Unseen, OC!opVars, OC!clusterVars, held
<1>3. CASE Spend("fault") \/ Spend("restart")
  <2>1. OC!ClientFails
    BY <1>1, <1>3, SameParts DEF Unseen, OC!ClientFails, held
  <2> QED BY <2>1 DEF OC!ClientsNext
<1> QED BY <1>2, <1>3 DEF Unseen

LEMMA InitMaps == Init => OC!ClientsInit
<1> SUFFICES ASSUME Init PROVE OC!ClientsInit
  OBVIOUS
<1> USE DEF Init
<1>1. held = [n \in Nodes |-> {"cache"}]
  BY DEF ClusterInit, held
<1>2. OC!ClusterInit
  BY <1>1 DEF ClusterInit, OC!ClusterInit, held
<1>3. OC!OperatorInit
  BY SameConstants DEF OperatorInit, OC!OperatorInit
<1> QED BY <1>2, <1>3 DEF OC!ClientsInit

LEMMA NextMaps ==
    SystemTypeOK /\ [Next]_vars => [OC!ClientsNext]_(OC!opVars)
<1> SUFFICES ASSUME SystemTypeOK, [Next]_vars
             PROVE  [OC!ClientsNext]_(OC!opVars)
  OBVIOUS
<1>0. StoreTypeOK /\ ClientsTypeOK
  BY DEF StoreTypeOK, SystemTypeOK, ClientsTypeOK, ClusterTypeOK
<1>1. CASE UNCHANGED vars
  BY <1>1 DEF vars, clusterVars, operatorVars, OC!opVars, OC!clusterVars,
              OC!operatorVars
<1>2. CASE ClusterNext /\ UNCHANGED <<operatorVars, schedulerVars>>
  <2>1. UNCHANGED OC!operatorVars
    BY <1>2 DEF operatorVars, OC!operatorVars
  <2> QED BY <1>0, <1>2, <2>1, ClusterStepMaps, ZenonT(30) DEF OC!ClientsNext
<1>3. CASE OperatorNext
  <2>1. OC!OperatorNext
    BY <1>0, <1>3, WatchMaps, StartMaps, StepMaps, BootMaps, RestartMaps, ZenonT(30)
       DEF OperatorNext, OC!OperatorNext, WorkerStep, OC!WorkerStep
  <2> QED BY <2>1 DEF OC!ClientsNext
<1>4. CASE SchedulerNext /\ UNCHANGED operatorVars
  <2>1. ClientWrite \/ Unseen
    BY <1>4, SchedulerEffect
  <2>2. CASE ClientWrite
    BY <1>0, <2>2, ClientWriteMaps DEF OC!ClientsNext
  <2>3. CASE Unseen
    BY <2>3, UnseenStepMaps
  <2> QED BY <2>1, <2>2, <2>3
<1> QED BY <1>1, <1>2, <1>3, <1>4 DEF Next

\* SystemRefinement: the cluster, the operator and the scheduler plugin together
\* implement OperatorClients: every read, write, failure and restart of the
\* plugin is a client's step there or changes nothing the operator can see.
THEOREM SystemRefinement == Spec => ImplementsClients
  BY InitMaps, NextMaps, SystemTypeCorrect, PTL
     DEF Spec, ImplementsClients, OC!ClientsSpec

LEMMA SystemStepInv ==
    SystemTypeOK /\ OperatorInv /\ [Next]_vars => OperatorInv'
<1> SUFFICES ASSUME SystemTypeOK, OperatorInv, [Next]_vars
             PROVE  OperatorInv'
  OBVIOUS
<1>0. ClientsTypeOK
  BY DEF SystemTypeOK
<1>1. CASE \/ UNCHANGED vars
           \/ ClusterNext /\ UNCHANGED <<operatorVars, schedulerVars>>
           \/ OperatorNext
           \/ ClientWrite
  <2>1. [ClientsNext]_opVars
    BY <1>1 DEF ClientsNext, opVars, vars
  <2> QED BY <1>0, <2>1, NextInv
<1>2. CASE Unseen
  <2>1. \A n \in Nodes : \A h \in {"cache", "worker"} :
           h \in current'[n] <=> h \in current[n]
    <3> TAKE n \in Nodes
    <3>1. current'[n] \cap {"cache", "worker", "boot"}
            = current[n] \cap {"cache", "worker", "boot"}
      BY <1>2 DEF Unseen, held
    <3> QED BY <3>1
  <2> QED BY <1>0, <1>2, <2>1, KeepInv DEF Unseen, operatorVars, invVars
<1> QED BY <1>1, <1>2, SchedulerEffect DEF Next

\* A step of the system is one of the operator, or happens outside of it.
LEMMA SystemStepKinds ==
    ASSUME SystemTypeOK, [Next]_vars
    PROVE  \/ OperatorNext
           \/ /\ Outside
              /\ \/ ClusterNext \/ ClientWrite
                 \/ /\ UNCHANGED bw
                    /\ UNCHANGED budget \/ Spend("fault") \/ Spend("restart")
<1>0. ClientsTypeOK
  BY DEF SystemTypeOK
<1>1. CASE UNCHANGED vars
  BY <1>1 DEF vars, clusterVars, operatorVars, Outside
<1>2. CASE \/ ClusterNext /\ UNCHANGED <<operatorVars, schedulerVars>>
           \/ ClientWrite
  BY <1>0, <1>2, OutsideStep
<1>3. CASE Unseen
  <2>1. \A n \in Nodes : "cache" \in current'[n] <=> "cache" \in current[n]
    <3> TAKE n \in Nodes
    <3>1. current'[n] \cap {"cache", "worker", "boot"}
            = current[n] \cap {"cache", "worker", "boot"}
      BY <1>3 DEF Unseen, held
    <3> QED BY <3>1
  <2> QED BY <1>3, <2>1 DEF Unseen, operatorVars, Outside
<1> QED BY <1>1, <1>2, <1>3, SchedulerEffect DEF Next

LEMMA SystemStepRelease ==
    SystemTypeOK /\ OperatorInv /\ ReleaseInv /\ [Next]_vars => ReleaseInv'
  BY SystemStepKinds, OperatorRelease DEF SystemTypeOK

LEMMA SystemStepGone ==
    SystemTypeOK /\ OperatorInv /\ GoneInv /\ [Next]_vars => GoneInv'
<1> SUFFICES ASSUME SystemTypeOK, OperatorInv, GoneInv, [Next]_vars
             PROVE  GoneInv'
  OBVIOUS
<1>0. ClientsTypeOK
  BY DEF SystemTypeOK
<1>1. CASE OperatorNext
  BY <1>0, <1>1, OperatorGone
<1>2. CASE Outside /\ (ClusterNext \/ ClientWrite)
  BY <1>0, <1>2, OutsideBudget, OutsideUnmarked, OutsideGone, ZenonT(30) DEF GoneInv
<1>3. CASE /\ Outside /\ UNCHANGED bw
           /\ UNCHANGED budget \/ Spend("fault") \/ Spend("restart")
  <2>1. budget'["fault"] = 0
    BY <1>0, <1>3, NoFault, SpendOther DEF GoneInv, Rare
  <2> QED BY <1>0, <1>3, <2>1, OutsideGone DEF GoneInv, Exists
<1> QED BY <1>1, <1>2, <1>3, SystemStepKinds, ZenonT(30)

-----------------------------------------------------------------------------
(* The settled cluster some histories start from.                          *)

LEMMA DefaultsSettle ==
    LET cap == setDefaultBandwidthValues(ZeroCapacity)
    IN  setDefaultBandwidthValues(cap) = cap
  BY BandwidthAssumption DEF setDefaultBandwidthValues, ZeroCapacity, ZeroMbps

\* An object without requests whose status says so.
EmptyObject ==
    LET cap == setDefaultBandwidthValues(ZeroCapacity)
    IN  [requests |-> NoRequests, capacity |-> cap,
         status |-> [status |-> "Created", errorReason |-> FALSE,
                     used |-> Used(NoRequests),
                     remaining |-> Remaining(cap, Used(NoRequests)),
                     capacity |-> cap, reservations |-> NoRequests]]

LEMMA EmptyType == EmptyObject \in BandwidthObject
<1>1. /\ NoRequests \in Requests /\ ZeroCapacity \in Capacity
      /\ Used(NoRequests) \in Capacity
      /\ setDefaultBandwidthValues(ZeroCapacity) \in Capacity
  BY ConstantsType, DefaultsType, UsedType
<1>2. Remaining(setDefaultBandwidthValues(ZeroCapacity), Used(NoRequests))
         \in Capacity
  BY <1>1, RemainingType
<1> QED BY <1>1, <1>2 DEF EmptyObject, BandwidthObject, BandwidthStatus, Status

LEMMA SteadyStart ==
    ASSUME SteadyInit
    PROVE  /\ bw = [n \in Nodes |-> IF n \in InitNodes THEN EmptyObject
                                                       ELSE NoBandwidth]
           /\ current = [n \in Nodes |-> {"cache"}]
           /\ pods = [p \in Pods |-> [phase |-> "Unborn", node |-> NoNode,
                                      deleting |-> FALSE]]
           /\ nodes = InitNodes /\ budget = Budget
           /\ bwCache = bw /\ podCache = pods /\ nodeCache = nodes
           /\ queue = {} /\ worker = Idle /\ boot = Booting({})
           /\ SchedulerInit
<1>1. \A n \in Nodes : {p \in Annotated : NonePlaced[p] = n} = {}
  BY BandwidthAssumption DEF NonePlaced
<1>2. bw = [n \in Nodes |-> IF n \in InitNodes THEN EmptyObject ELSE NoBandwidth]
  <2> DEFINE On(n) == {p \in Annotated : NonePlaced[p] = n}
             Confined(p) == /\ Owner[p] # NoOwner
                            /\ \A q \in Pods : Owner[q] = Owner[p] =>
                                  NonePlaced[q] \in {NonePlaced[p], NoNode}
             reqs(n) == [p \in Pods |->
                           IF p \in On(n) THEN [linkLocal |-> Confined(p),
                                               mbps |-> Annotation[p]]
                                          ELSE NoRequest]
             cap == setDefaultBandwidthValues(ZeroCapacity)
             obj(n) == [requests |-> reqs(n), capacity |-> cap,
                        status |-> [status |-> "Created", errorReason |-> FALSE,
                                    used |-> Used(reqs(n)),
                                    remaining |-> Remaining(cap, Used(reqs(n))),
                                    capacity |-> cap,
                                    reservations |-> reqs(n)]]
  <2>1. \A n \in Nodes : reqs(n) = NoRequests
    BY <1>1 DEF NoRequests
  <2>2. bw = [n \in Nodes |-> IF n \in InitNodes THEN obj(n) ELSE NoBandwidth]
    BY DEF SteadyInit, OperatorSteadyInit
  <2> HIDE DEF reqs
  <2>3. \A n \in Nodes : obj(n) = EmptyObject
    BY <2>1 DEF EmptyObject
  <2> HIDE DEF obj
  <2> QED BY <2>2, <2>3
<1>3. pods = [p \in Pods |-> [phase |-> "Unborn", node |-> NoNode,
                              deleting |-> FALSE]]
  BY DEF SteadyInit, OperatorSteadyInit, NonePlaced
<1> QED BY <1>2, <1>3 DEF SteadyInit, OperatorSteadyInit

LEMMA SteadyInv == SteadyInit => SystemTypeOK /\ OperatorInv /\ ReleaseInv
<1> SUFFICES ASSUME SteadyInit PROVE SystemTypeOK /\ OperatorInv /\ ReleaseInv
  OBVIOUS
<1> USE SteadyStart, EmptyType, ClusterAssumption
<1>1. ClusterTypeOK
  <2>1. bw \in [Nodes -> BandwidthObject \cup {NoBandwidth}]
    OBVIOUS
  <2>2. current \in [Nodes -> SUBSET Holder]
    BY Holders
  <2>3. pods \in [Pods -> Pod]
    <3>1. [phase |-> "Unborn", node |-> NoNode, deleting |-> FALSE] \in Pod
      BY ONLY DEF Pod, Phase
    <3> QED BY <3>1
  <2> QED BY <2>1, <2>2, <2>3, ZenonT(30) DEF ClusterTypeOK
<1>2. OperatorTypeOK
  BY <1>1, IdleType, ZenonT(60)
     DEF OperatorTypeOK, ClusterTypeOK, Worker, Boot
<1>3. SchedulerTypeOK
  BY DEF SchedulerInit, SchedulerTypeOK, NoCycle, CyclePc
<1>4. CacheInv /\ WorkerInv
  BY IdleType DEF CacheInv, WorkerInv
<1>5. ASSUME NEW n \in nodeCache
      PROVE  Exists(n) /\ Accounted(n)
  <2>1. bw[n] = EmptyObject
    OBVIOUS
  <2>2. Exists(n)
    BY <2>1 DEF Exists
  <2> DEFINE cap == setDefaultBandwidthValues(ZeroCapacity)
  <2>3. setDefaultBandwidthValues(cap) = cap
    BY DefaultsSettle
  <2>4. /\ bw[n].requests = NoRequests /\ bw[n].capacity = cap
        /\ bw[n].status = [status |-> "Created", errorReason |-> FALSE,
                           used |-> Used(NoRequests),
                           remaining |-> Remaining(cap, Used(NoRequests)),
                           capacity |-> cap, reservations |-> NoRequests]
    BY <2>1 DEF EmptyObject
  <2> HIDE DEF cap
  <2>5. Accounted(n)
    BY ONLY <2>3, <2>4, SMTT(30) DEF Accounted
  <2> QED BY <2>2, <2>5
<1>6. SettledAccounting
  BY <1>5 DEF SettledAccounting
<1>7. ReleaseInv
  <2>1. \A p \in Pods : ~Ended(podCache[p])
    BY DEF Ended
  <2> QED BY <2>1, IdleType DEF ReleaseInv
<1> QED BY <1>1, <1>2, <1>3, <1>4, <1>6, <1>7, ZenonT(30)
        DEF SystemTypeOK, ClientsTypeOK, OperatorInv

LEMMA SteadyGone ==
    ASSUME Budget["fault"] = 0
    PROVE  SteadyInit => GoneInv
<1> SUFFICES ASSUME SteadyInit PROVE GoneInv
  OBVIOUS
<1>1. EmptyObject.status.status # "Error"
  BY DEF EmptyObject
<1> QED BY <1>1, SteadyStart, IdleType, ZenonT(30) DEF GoneInv, GoneNodeForgotten, Exists

LEMMA SystemInitInv == Init => SystemTypeOK /\ OperatorInv /\ ReleaseInv
  BY SystemInit, InitRelease DEF Init, ClientsInit

\* SystemAccountingCorrect: beside the scheduler plugin too, whatever it does and
\* however often it fails or restarts, the published status of a node the
\* operator is done with is the account of the stored requests.  The history
\* may start with an empty cluster or with a settled one.
THEOREM SystemAccountingCorrect == Spec \/ SteadySpec => []SettledAccounting
<1>1. OperatorInv => SettledAccounting
  BY DEF OperatorInv
<1> QED BY <1>1, SystemInitInv, SteadyInv, SystemStepType, SystemStepInv, PTL
        DEF Spec, SteadySpec

\* SystemReleaseCorrect: beside the scheduler plugin, once the operator is done
\* with a node no pod bound there that has finished or gone holds a request.
THEOREM SystemReleaseCorrect == Spec \/ SteadySpec => []SettledRelease
  BY SystemInitInv, SteadyInv, SystemStepType, SystemStepInv, SystemStepRelease,
     ReleaseSettled, PTL
     DEF Spec, SteadySpec

\* SystemGoneForgotten: where no request fails, the object of a node that left is
\* deleted although Reserve, Unreserve or the bootstrap may still write to it.
THEOREM SystemGoneForgotten ==
    ASSUME Budget["fault"] = 0
    PROVE  Spec \/ SteadySpec => []GoneNodeForgotten
<1>1. GoneInv => GoneNodeForgotten
  BY DEF GoneInv
<1>2. Init => GoneInv
  BY InitGone DEF Init, ClientsInit
<1> QED
  BY <1>1, <1>2, SystemInitInv, SteadyInv, SteadyGone, SystemStepType,
     SystemStepInv, SystemStepGone, PTL
     DEF Spec, SteadySpec

-----------------------------------------------------------------------------
(* Admission.  Nobody but the scheduling cycle adds a request, and nothing *)
(* the others do to an object makes less room on its local link; so what   *)
(* Filter saw free of an object in step is still free at Reserve.          *)

\* What the requests of an object leave of the local link.
Room(obj, d) ==
    setDefaultBandwidthValues(obj.capacity)["local"][d]
       - Used(obj.requests)["local"][d]

\* The requests of a are some of those of b, as they are or as annotated.
Milder(a, b) ==
    \A p \in Entries(a) : /\ p \in Entries(b)
                          /\ a[p].mbps \in {Annotation[p], b[p].mbps}

\* No request is for less than its pod's annotations say.
AtLeastAnnotated(reqs) ==
    \A p \in Entries(reqs), d \in Dir : Annotation[p][d] <= reqs[p].mbps[d]

\* The nodes the cycle may still reserve on.
Candidates ==
    CASE cycle.pc = "score" -> cycle.feasible
      [] cycle.pc \in {"reserve", "reserveUpdate"} -> {cycle.node}
      [] OTHER -> {}

\* What an update of the operator is about to write.
CleanInv ==
    worker.pc = "update" =>
        /\ worker.cap = setDefaultBandwidthValues(worker.obj.capacity)
        /\ Milder(worker.clean, worker.obj.requests)

\* AdmissionInv: on a node Filter saw in step with its requests there is
\* still room for the pod of the cycle.
AdmissionInv ==
    /\ synced \subseteq {n \in Nodes : Exists(n)}
    /\ \A n \in Nodes : Exists(n) => AtLeastAnnotated(bw[n].requests)
    /\ CleanInv
    /\ \A n \in Candidates \cap synced, d \in Dir :
          Room(bw[n], d) >= ExtractPodBandwidthRequirement(cycle.pod)[d]
    /\ SyncedReservationsFit

LEMMA ExtractType ==
    ASSUME NEW p \in Pods
    PROVE  /\ ExtractPodBandwidthRequirement(p) \in [Dir -> Nat]
           /\ Annotation[p] \in [Dir -> Nat]
           /\ \A d \in Dir : Annotation[p][d] <= ExtractPodBandwidthRequirement(p)[d]
  BY BandwidthAssumption DEF ExtractPodBandwidthRequirement

LEMMA DefaultsTwice ==
    ASSUME NEW cap
    PROVE  setDefaultBandwidthValues(setDefaultBandwidthValues(cap))
              = setDefaultBandwidthValues(cap)
  BY BandwidthAssumption DEF setDefaultBandwidthValues

LEMMA AnnotatedNonNegative ==
    ASSUME NEW reqs \in Requests, AtLeastAnnotated(reqs)
    PROVE  NonNegative(reqs)
<1> SUFFICES ASSUME NEW p \in Entries(reqs), NEW d \in Dir
             PROVE  reqs[p].mbps[d] >= 0
  BY DEF NonNegative
<1>1. p \in Pods /\ reqs[p].mbps[d] \in Int
  BY LocalLoads DEF Entries
<1>2. Annotation[p][d] \in Nat
  BY <1>1, ExtractType
<1> QED BY <1>1, <1>2 DEF AtLeastAnnotated

\* Milder requests are still at least the annotated ones, and use no more.
LEMMA MilderLess ==
    ASSUME NEW a \in Requests, NEW b \in Requests, Milder(a, b), AtLeastAnnotated(b)
    PROVE  /\ AtLeastAnnotated(a)
           /\ \A d \in Dir : Used(a)["local"][d] <= Used(b)["local"][d]
<1>1. ASSUME NEW p \in Entries(a), NEW d \in Dir
      PROVE  /\ p \in Entries(b) /\ Annotation[p][d] <= a[p].mbps[d]
             /\ a[p].mbps[d] <= b[p].mbps[d]
  <2>1. p \in Entries(b) /\ (a[p].mbps = Annotation[p] \/ a[p].mbps = b[p].mbps)
    BY DEF Milder
  <2>2. Annotation[p][d] <= b[p].mbps[d] /\ b[p].mbps[d] \in Int
    BY <2>1, LocalLoads DEF AtLeastAnnotated
  <2>3. Annotation[p][d] \in Nat
    BY ExtractType DEF Entries
  <2> QED BY <2>1, <2>2, <2>3
<1>2. AtLeastAnnotated(a)
  BY <1>1 DEF AtLeastAnnotated
<1>3. ASSUME NEW d \in Dir PROVE Used(a)["local"][d] <= Used(b)["local"][d]
  BY <1>1, AnnotatedNonNegative, UsedLess, ZenonT(30)
<1> QED BY <1>2, <1>3

LEMMA MilderSelf == ASSUME NEW reqs PROVE Milder(reqs, reqs)
  BY DEF Milder

LEMMA RemoveMilder ==
    ASSUME NEW reqs \in Requests, NEW p \in Pods
    PROVE  Milder(RemoveBandwidthRequest(reqs, p), reqs)
  BY DEF Milder, RemoveBandwidthRequest, Entries, Requests

LEMMA CleanMilder ==
    ASSUME NEW reqs \in Requests, NEW n, NEW S
    PROVE  Milder(CleanRequests(reqs, n, S), reqs)
<1> SUFFICES ASSUME NEW p \in Entries(CleanRequests(reqs, n, S))
             PROVE  /\ p \in Entries(reqs)
                    /\ CleanRequests(reqs, n, S)[p].mbps
                          \in {Annotation[p], reqs[p].mbps}
  BY DEF Milder
<1>1. p \in Pods /\ CleanRequests(reqs, n, S)[p] # NoRequest
  BY DEF Entries
<1>2. /\ p \in Entries(reqs)
      /\ CleanRequests(reqs, n, S)[p] =
            [linkLocal |-> allSiblingsOnCurrentNode(p, n),
             mbps |-> IF p \in S THEN Annotation[p] ELSE reqs[p].mbps]
  BY <1>1 DEF CleanRequests
<1> QED BY <1>2

\* How a step that is not the cycle's own write may change an object.
Eased(n) ==
    \/ bw'[n] = NoBandwidth
    \/ ~Exists(n) /\ bw'[n] = NewBandwidth
    \/ /\ Exists(n) /\ bw'[n] # NoBandwidth
       /\ setDefaultBandwidthValues(bw'[n].capacity)
             = setDefaultBandwidthValues(bw[n].capacity)
       /\ Milder(bw'[n].requests, bw[n].requests)

LEMMA SameEased == ASSUME NEW n, bw'[n] = bw[n] PROVE Eased(n)
  BY MilderSelf DEF Eased, Exists

LEMMA StoreEased ==
    ASSUME ClientsTypeOK, NEW m \in Nodes, NEW obj, Store(m, obj),
           \/ obj = NoBandwidth
           \/ ~Exists(m) /\ obj = NewBandwidth
           \/ /\ Exists(m) /\ obj # NoBandwidth
              /\ setDefaultBandwidthValues(obj.capacity)
                    = setDefaultBandwidthValues(bw[m].capacity)
              /\ Milder(obj.requests, bw[m].requests)
    PROVE  \A n \in Nodes : Eased(n)
<1> TAKE n \in Nodes
<1>1. bw'[n] = IF n = m THEN obj ELSE bw[n]
  BY DEF Store, ClientsTypeOK, ClusterTypeOK
<1>2. CASE n = m
  BY <1>1, <1>2 DEF Eased
<1>3. CASE n # m
  BY <1>1, <1>3, SameEased
<1> QED BY <1>2, <1>3

LEMMA StatusEased ==
    ASSUME ClientsTypeOK, NEW m \in Nodes, Exists(m),
           NEW st \in BandwidthStatus, StoreStatus(m, st)
    PROVE  \A n \in Nodes : Eased(n)
<1>1. PICK obj : obj = [bw[m] EXCEPT !.status = st]
  OBVIOUS
<1>2. bw[m] \in BandwidthObject
  BY DEF ClientsTypeOK, ClusterTypeOK, Exists
<1>3. /\ obj \in BandwidthObject /\ obj.capacity = bw[m].capacity
      /\ obj.requests = bw[m].requests
  BY <1>1, <1>2 DEF BandwidthObject
<1>4. obj # NoBandwidth
  BY <1>3, ClusterAssumption
<1>5. Store(m, obj)
  BY <1>1 DEF StoreStatus
<1> QED BY <1>3, <1>4, <1>5, StoreEased, MilderSelf, ZenonT(30)

LEMMA SpecEased ==
    ASSUME ClientsTypeOK, NEW m \in Nodes, Exists(m), NEW reqs \in Requests,
           NEW cap \in Capacity, StoreSpec(m, reqs, cap),
           setDefaultBandwidthValues(cap) = setDefaultBandwidthValues(bw[m].capacity),
           Milder(reqs, bw[m].requests)
    PROVE  \A n \in Nodes : Eased(n)
<1>1. PICK obj : obj = [bw[m] EXCEPT !.requests = reqs, !.capacity = cap]
  OBVIOUS
<1>2. bw[m] \in BandwidthObject
  BY DEF ClientsTypeOK, ClusterTypeOK, Exists
<1>3. obj \in BandwidthObject /\ obj.capacity = cap /\ obj.requests = reqs
  BY <1>1, <1>2 DEF BandwidthObject
<1>4. obj # NoBandwidth
  BY <1>3, ClusterAssumption, ZenonT(30)
<1>5. CASE obj = bw[m]
  BY <1>1, <1>5, SameEased DEF StoreSpec
<1>6. CASE Store(m, obj)
  BY <1>3, <1>4, <1>6, StoreEased, ZenonT(30)
<1> QED BY <1>1, <1>5, <1>6 DEF StoreSpec

\* A reconcile step eases every object.
LEMMA StepEased ==
    ASSUME ClientsTypeOK, OperatorInv, CleanInv, ReconcileStep
    PROVE  \A n \in Nodes : Eased(n)
<1> USE DEF ClientsTypeOK, OperatorTypeOK
<1>0. PICK m : m = worker.node
  OBVIOUS
<1>1. m \in Nodes /\ worker.pc # "idle"
  <2>1. m \in Nodes
    BY <1>0, StepFrame
  <2> QED BY <1>0, <2>1, IdleType, BandwidthAssumption, ZenonT(30)
          DEF ReconcileStep, SyncDelete, SyncFail, SyncCompute, SyncUpdate,
              SyncRefetch, SyncStatus, WriteRefused, WriteAccepted,
              CreateBandwidth, CreateFetch, CreateStatus
<1>2. worker \in Reconciling
  BY <1>1, WorkerType
<1>3. CASE UNCHANGED bw
  BY <1>3, SameEased
<1>4. CASE SyncDelete
  BY <1>0, <1>1, <1>3, <1>4, StoreEased, ZenonT(30) DEF SyncDelete, StoreDelete
<1>5. CASE SyncFail \/ SyncStatus \/ CreateStatus
  <2>1. \/ UNCHANGED bw
        \/ Exists(m) /\ \E st \in BandwidthStatus : StoreStatus(m, st)
    <3>0. Exists(m) => bw[m].status \in BandwidthStatus /\ bw[m].capacity \in Capacity
      BY <1>1 DEF ClusterTypeOK, Exists, BandwidthObject
    <3>1. CASE SyncFail /\ ~UNCHANGED bw
      <4>1. PICK st : st = [bw[m].status EXCEPT
                              !.status = "Error",
                              !.errorReason = @ \/ worker.obj # NoBandwidth]
        OBVIOUS
      <4>2. Exists(m) /\ StoreStatus(m, st)
        BY <1>0, <3>1, <4>1, ZenonT(30) DEF SyncFail, StoreStatus, Store
      <4>3. st \in BandwidthStatus
        BY <3>0, <4>1, <4>2, ZenonT(30) DEF BandwidthStatus, Status
      <4> QED BY <4>2, <4>3
    <3>2. CASE SyncStatus
      <4>1. PICK st : st = [status |-> "Created", errorReason |-> FALSE,
                            used |-> Used(worker.clean),
                            remaining |-> Remaining(worker.cap, Used(worker.clean)),
                            capacity |-> worker.statusCap,
                            reservations |-> worker.clean]
        OBVIOUS
      <4>2. Exists(m) /\ StoreStatus(m, st)
        BY <1>0, <3>2, <4>1, ZenonT(30) DEF SyncStatus, WriteAccepted, StoreStatus, Store
      <4>3. /\ worker.clean \in Requests /\ worker.cap \in Capacity
            /\ worker.statusCap \in Capacity
        BY <1>2 DEF Reconciling
      <4>4. Used(worker.clean) \in Capacity
        BY <4>3, UsedType, ZenonT(30)
      <4>5. Remaining(worker.cap, Used(worker.clean)) \in Capacity
        BY <4>3, <4>4, RemainingType, ZenonT(30)
      <4>6. st \in BandwidthStatus
        BY <4>1, <4>3, <4>4, <4>5, ZenonT(30) DEF BandwidthStatus, Status
      <4> QED BY <4>2, <4>6
    <3>3. CASE CreateStatus
      <4>1. PICK st : st = CreatedStatus(m)
        OBVIOUS
      <4>2. Exists(m) /\ StoreStatus(m, st)
        BY <1>0, <3>3, <4>1, ZenonT(30) DEF CreateStatus, WriteAccepted, StoreStatus, Store
      <4>3. st \in BandwidthStatus
        BY <3>0, <4>1, <4>2, ZenonT(30) DEF CreatedStatus, BandwidthStatus, Status
      <4> QED BY <4>2, <4>3
    <3> QED BY <1>5, <3>1, <3>2, <3>3, ZenonT(30)
  <2> QED BY <1>1, <1>3, <2>1, StatusEased, ZenonT(30)
<1>6. CASE SyncUpdate
  <2>1. /\ worker.pc = "update" /\ Exists(m) /\ worker.obj = bw[m]
        /\ StoreSpec(m, worker.clean, worker.cap)
    BY <1>0, <1>6, ZenonT(30) DEF SyncUpdate, WriteAccepted, OperatorInv, WorkerInv
  <2>2. worker.clean \in Requests /\ worker.cap \in Capacity
    BY <1>2 DEF Reconciling
  <2>3. /\ Milder(worker.clean, bw[m].requests)
        /\ worker.cap = setDefaultBandwidthValues(bw[m].capacity)
    BY <2>1 DEF CleanInv
  <2>4. PICK reqs, cap : reqs = worker.clean /\ cap = worker.cap
    OBVIOUS
  <2>5. setDefaultBandwidthValues(cap) = setDefaultBandwidthValues(bw[m].capacity)
    <3>1. PICK old : old = bw[m].capacity
      OBVIOUS
    <3> QED BY <2>3, <2>4, <3>1, DefaultsTwice, ZenonT(30)
  <2>6. StoreSpec(m, reqs, cap) /\ Milder(reqs, bw[m].requests)
    BY <2>1, <2>3, <2>4, ZenonT(30) DEF StoreSpec, Store
  <2> QED BY <1>1, <2>1, <2>2, <2>4, <2>5, <2>6, SpecEased, ZenonT(30)
<1>7. CASE CreateBandwidth
  BY <1>0, <1>1, <1>3, <1>7, StoreEased, ZenonT(30) DEF CreateBandwidth
<1>8. CASE \/ SyncCompute \/ SyncRefetch \/ CreateFetch
           \/ \E pc \in {"update", "status", "statusNew"} : WriteRefused(pc)
  BY <1>3, <1>8, ZenonT(30) DEF SyncCompute, SyncRefetch, CreateFetch, WriteRefused
<1> QED BY <1>4, <1>5, <1>6, <1>7, <1>8, ZenonT(30) DEF ReconcileStep

LEMMA BootEased ==
    ASSUME ClientsTypeOK, BootStep
    PROVE  \A n \in Nodes : Eased(n)
<1>0. PICK m : m = boot.node
  OBVIOUS
<1>1. CASE UNCHANGED bw
  BY <1>1, SameEased
<1>2. CASE BootCreate
  <2>1. m \in Nodes
    BY <1>0, <1>2, BootType, ZenonT(30) DEF BootCreate, ClientsTypeOK, OperatorTypeOK, Creating
  <2> QED BY <1>0, <1>1, <1>2, <2>1, StoreEased, ZenonT(30) DEF BootCreate
<1>3. CASE BootStatus
  <2>1. m \in Nodes
    BY <1>0, <1>3, BootType, ZenonT(30) DEF BootStatus, ClientsTypeOK, OperatorTypeOK, Creating
  <2>2. PICK st : st = CreatedStatus(m)
    OBVIOUS
  <2>3. UNCHANGED bw \/ (Exists(m) /\ StoreStatus(m, st))
    BY <1>0, <1>3, <2>2, ZenonT(30) DEF BootStatus, StoreStatus, Store
  <2>4. Exists(m) => st \in BandwidthStatus
    <3> SUFFICES ASSUME Exists(m) PROVE st \in BandwidthStatus
      OBVIOUS
    <3>1. bw[m].status \in BandwidthStatus /\ bw[m].capacity \in Capacity
      BY <2>1 DEF ClientsTypeOK, ClusterTypeOK, Exists, BandwidthObject
    <3> QED BY <2>2, <3>1 DEF CreatedStatus, BandwidthStatus, Status
  <2> QED BY <1>1, <2>1, <2>3, <2>4, StatusEased, ZenonT(30)
<1> QED BY <1>1, <1>2, <1>3, ZenonT(30) DEF BootStep, BootGet, BootFetch, clusterVars

LEMMA OperatorEased ==
    ASSUME ClientsTypeOK, OperatorInv, CleanInv, OperatorNext
    PROVE  \A n \in Nodes : Eased(n)
<1>1. CASE Watch \/ (\E n \in Nodes : ReconcileStart(n)) \/ OperatorRestart
  <2>1. UNCHANGED bw
    BY <1>1 DEF Watch, WatchBandwidth, WatchNode, NodeHeartbeat, WatchPod,
                ReconcileStart, ReconcileNothing, ReconcileMissing, SyncStart,
                OperatorRestart, clusterVars
  <2> QED BY <2>1, SameEased, ZenonT(30)
<1> QED BY <1>1, StepEased, BootEased, ZenonT(30) DEF OperatorNext, WorkerStep

LEMMA ReleaseEased ==
    ASSUME ClientsTypeOK, NEW m \in Nodes, NEW p \in Pods, Exists(m),
           RemoveRequest(m, p)
    PROVE  \A n \in Nodes : Eased(n)
<1>1. bw[m] \in BandwidthObject
  BY DEF ClientsTypeOK, ClusterTypeOK, Exists
<1>2. PICK reqs, cap : /\ reqs = RemoveBandwidthRequest(bw[m].requests, p)
                       /\ cap = bw[m].capacity
  OBVIOUS
<1>3. bw[m].requests \in Requests /\ cap \in Capacity
  BY <1>1, <1>2 DEF BandwidthObject
<1>4. reqs \in Requests /\ Milder(reqs, bw[m].requests)
  BY <1>2, <1>3, RemoveType, RemoveMilder, ZenonT(30)
<1>5. StoreSpec(m, reqs, cap)
  BY <1>2 DEF RemoveRequest, StoreSpec, Store
<1> QED BY <1>2, <1>3, <1>4, <1>5, SpecEased, ZenonT(30)

\* The only write of the scheduler that is no release is the cycle's.
Reserves ==
    /\ ReserveUpdate /\ Exists(cycle.node) /\ cycle.node \in Nodes
    /\ AddRequest(cycle.node, cycle.pod)

LEMMA SchedulerEased ==
    ASSUME SystemTypeOK, SchedulerNext
    PROVE  Reserves \/ \A n \in Nodes : Eased(n)
<1> USE DEF SystemTypeOK
<1>1. CASE UNCHANGED bw
  BY <1>1, SameEased
<1>2. CASE ReserveUpdate
  <2>1. cycle.node \in Nodes
    BY <1>2, CycleType DEF ReserveUpdate, CyclePc
  <2> QED BY <1>1, <1>2, <2>1, ZenonT(30) DEF ReserveUpdate, Reserves
<1>3. CASE CycleUnreserveUpdate
  <2>1. cycle.node \in Nodes /\ cycle.pod \in Pods
    BY <1>3, CycleType DEF CycleUnreserveUpdate, CyclePc
  <2>2. PICK n, p : n = cycle.node /\ p = cycle.pod
    OBVIOUS
  <2>3. UNCHANGED bw \/ (Exists(n) /\ RemoveRequest(n, p))
    BY <1>3, <2>2
       DEF CycleUnreserveUpdate, UnreserveUpdate, RemoveRequest, StoreSpec, Store
  <2> QED BY <1>1, <2>1, <2>2, <2>3, ReleaseEased, ZenonT(30)
<1>4. ASSUME NEW p \in Pods, BindingUnreserveUpdate(p)
      PROVE  \A n \in Nodes : Eased(n)
  <2>1. binding[p].node \in Nodes
    BY <1>4, BindingType DEF BindingUnreserveUpdate
  <2>2. PICK n : n = binding[p].node
    OBVIOUS
  <2>3. UNCHANGED bw \/ (Exists(n) /\ RemoveRequest(n, p))
    BY <1>4, <2>2
       DEF BindingUnreserveUpdate, UnreserveUpdate, RemoveRequest, StoreSpec, Store
  <2> QED BY SameEased, <2>1, <2>2, <2>3, ReleaseEased, ZenonT(30)
<1>5. CASE \/ \E p \in Pods : \/ PreFilter(p) \/ Bind(p) \/ BindFails(p)
                              \/ BindingUnreserveGet(p)
           \/ Filter \/ ScoreNodes \/ ReserveGet \/ CycleUnreserveGet
           \/ SchedulerRestart
  <2>1. UNCHANGED bw
    BY <1>5 DEF PreFilter, Bind, BindFails, BindingUnreserveGet, Filter,
                ScoreNodes, ReserveGet, CycleUnreserveGet, SchedulerRestart,
                clusterVars
  <2> QED BY <1>1, <2>1
<1> QED BY <1>2, <1>3, <1>4, <1>5, ZenonT(30) DEF SchedulerNext, CycleStep, BindingStep

\* An update is prepared by SyncCompute only.
LEMMA CleanStep ==
    ASSUME SystemTypeOK, CleanInv, [Next]_vars
    PROVE  CleanInv'
<1> USE DEF SystemTypeOK, ClientsTypeOK, OperatorTypeOK
<1>1. CASE UNCHANGED worker
  BY <1>1 DEF CleanInv, Milder, Entries
<1>2. CASE worker'.pc # "update"
  BY <1>2 DEF CleanInv
<1>3. CASE SyncCompute
  <2>1. worker \in Reconciling /\ worker.obj # NoBandwidth
    BY <1>3, WorkerType, ZenonT(30) DEF SyncCompute
  <2>2. worker.obj.requests \in Requests
    BY <2>1 DEF Reconciling, BandwidthObject
  <2>3. PICK clean, cap :
           /\ clean = CleanRequests(worker.obj.requests, worker.node,
                                    worker.podsWithBw)
           /\ cap = setDefaultBandwidthValues(worker.obj.capacity)
    OBVIOUS
  <2>4. Milder(clean, worker.obj.requests)
    <3>1. PICK reqs, n, S : /\ reqs = worker.obj.requests /\ n = worker.node
                            /\ S = worker.podsWithBw
      OBVIOUS
    <3>2. reqs \in Requests
      BY <2>2, <3>1
    <3> QED BY <2>3, <3>1, <3>2, CleanMilder, ZenonT(30)
  <2>5. CASE worker'.pc = "update"
    <3>1. PICK b : b = StatusChanged(worker.obj, clean, cap)
      OBVIOUS
    <3>2. \/ worker' = Idle
          \/ \E pc \in {"update", "status"} :
                worker' = [[worker EXCEPT !.clean = clean, !.cap = cap,
                                          !.statusCap = cap, !.statusChanged = b]
                            EXCEPT !.pc = pc]
      BY <1>3, <2>3, <3>1, ZenonT(30) DEF SyncCompute
    <3>3. /\ worker'.clean = clean /\ worker'.cap = cap
          /\ worker'.obj = worker.obj
      BY <2>1, <2>5, <3>2, IdleType, ZenonT(30) DEF Reconciling
    <3> QED BY <2>3, <2>4, <3>3, ZenonT(30) DEF CleanInv, Milder, Entries
  <2> QED BY <1>2, <2>5, ZenonT(30)
<1>4. CASE ReconcileStep
  <2>1. worker.pc # "idle" => worker \in Reconciling
    BY WorkerType
  <2>2. CASE SyncUpdate \/ SyncRefetch \/ CreateBandwidth \/ CreateFetch
    <3>1. worker \in Reconciling
      BY <2>1, <2>2, ZenonT(30)
         DEF SyncUpdate, WriteAccepted, SyncRefetch, CreateBandwidth, CreateFetch
    <3>2. worker'.pc # "update"
      BY <2>2, <3>1, IdleType, ZenonT(30)
         DEF SyncUpdate, SyncRefetch, CreateBandwidth, CreateFetch, End, Requeue,
             Reconciling
    <3> QED BY <1>2, <3>2, ZenonT(30)
  <2>3. CASE \/ SyncDelete \/ SyncFail \/ SyncStatus \/ CreateStatus
             \/ \E pc \in {"update", "status", "statusNew"} : WriteRefused(pc)
    <3>1. worker' = Idle
      BY <2>3 DEF SyncDelete, SyncFail, SyncStatus, CreateStatus, WriteRefused,
                  End, Requeue
    <3> QED BY <1>2, <3>1, IdleType, ZenonT(30)
  <2> QED BY <1>3, <1>4, <2>2, <2>3, ZenonT(30) DEF ReconcileStep
<1>5. ASSUME NEW n \in Nodes, ReconcileStart(n) PROVE CleanInv'
  <2>1. CASE ReconcileNothing(n)
    BY <1>1, <2>1, ZenonT(30) DEF ReconcileNothing
  <2>2. CASE ReconcileMissing(n) \/ SyncStart(n)
    <3>1. worker'.pc # "update"
      BY <2>2 DEF ReconcileMissing, SyncStart, Idle
    <3> QED BY <1>2, <3>1, ZenonT(30)
  <2> QED BY <1>5, <2>1, <2>2, ZenonT(30) DEF ReconcileStart
<1>6. CASE OperatorRestart
  BY <1>2, <1>6, IdleType, ZenonT(30) DEF OperatorRestart
<1>7. CASE Watch \/ BootStep
  BY <1>1, <1>7, ZenonT(30)
     DEF Watch, WatchBandwidth, WatchNode, NodeHeartbeat, WatchPod, BootStep,
         BootGet, BootCreate, BootFetch, BootStatus
<1>8. CASE OperatorNext
  BY <1>4, <1>5, <1>6, <1>7, <1>8, ZenonT(30) DEF OperatorNext, WorkerStep
<1>9. CASE UNCHANGED operatorVars
  BY <1>1, <1>9, ZenonT(30) DEF operatorVars
<1>10. CASE UNCHANGED vars
  BY <1>1, <1>10, ZenonT(30) DEF vars, operatorVars
<1> QED BY <1>8, <1>9, <1>10, ZenonT(30) DEF Next

\* Nobody else writes a spec, when no administrator does.
LEMMA WritesEase ==
    ASSUME Capacities = {}, SystemTypeOK, OperatorInv, CleanInv, Next
    PROVE  Reserves \/ \A n \in Nodes : Eased(n)
<1>1. CASE ClusterNext
  <2>1. UNCHANGED bw
    BY <1>1 DEF ClusterNext, CreatePod, RunPod, FinishPod, DeletePod, RemovePod,
                JoinNode, LeaveNode, EditCapacity
  <2> QED BY <2>1, SameEased
<1> QED BY <1>1, OperatorEased, SchedulerEased, ZenonT(30) DEF Next, SystemTypeOK

LEMMA RoomType ==
    ASSUME NEW obj \in BandwidthObject, NEW d \in Dir
    PROVE  /\ setDefaultBandwidthValues(obj.capacity)["local"][d] \in Int
           /\ Used(obj.requests)["local"][d] \in Int
           /\ Room(obj, d) \in Int
<1>1. PICK cap, reqs : cap = obj.capacity /\ reqs = obj.requests
  OBVIOUS
<1>2. cap \in Capacity /\ reqs \in Requests
  BY <1>1 DEF BandwidthObject
<1>3. setDefaultBandwidthValues(cap) \in Capacity /\ Used(reqs) \in Capacity
  BY <1>2, DefaultsType, UsedType
<1>4. /\ setDefaultBandwidthValues(cap)["local"][d] \in Int
      /\ Used(reqs)["local"][d] \in Int
  BY <1>3 DEF Capacity, BandwidthDefinition, Link
<1> QED BY <1>1, <1>4 DEF Room

LEMMA RoomFits ==
    ASSUME NEW obj
    PROVE  \A d \in Dir : Remaining(setDefaultBandwidthValues(obj.capacity),
                                    Used(obj.requests))["local"][d] = Room(obj, d)
  BY DEF Remaining, Room, Link

LEMMA EasedRoom ==
    ASSUME NEW old \in BandwidthObject, NEW new \in BandwidthObject,
           setDefaultBandwidthValues(new.capacity)
              = setDefaultBandwidthValues(old.capacity),
           Milder(new.requests, old.requests), AtLeastAnnotated(old.requests)
    PROVE  /\ AtLeastAnnotated(new.requests)
           /\ \A d \in Dir : Room(new, d) >= Room(old, d)
<1>1. PICK a, b : a = new.requests /\ b = old.requests
  OBVIOUS
<1>2. a \in Requests /\ b \in Requests
  BY <1>1 DEF BandwidthObject
<1>3. /\ AtLeastAnnotated(a)
      /\ \A d \in Dir : Used(a)["local"][d] <= Used(b)["local"][d]
  BY <1>1, <1>2, MilderLess, ZenonT(30)
<1>4. ASSUME NEW d \in Dir PROVE Room(new, d) >= Room(old, d)
  BY <1>1, <1>3, RoomType DEF Room
<1> QED BY <1>1, <1>3, <1>4

LEMMA EmptyRoom ==
    ASSUME NEW obj \in BandwidthObject, obj.requests = NoRequests,
           obj.capacity = setDefaultBandwidthValues(ZeroCapacity)
    PROVE  /\ AtLeastAnnotated(obj.requests)
           /\ \A d \in Dir : Room(obj, d) >= 0
<1>1. Entries(NoRequests) = {} /\ NoRequests \in Requests
  BY ConstantsType DEF Entries, NoRequests
<1>2. AtLeastAnnotated(obj.requests)
  BY <1>1 DEF AtLeastAnnotated
<1>3. ASSUME NEW d \in Dir PROVE Room(obj, d) >= 0
  <2>1. Used(NoRequests)["local"][d] = 0
    <3>1. "local" \in Link
      BY DEF Link
    <3>2. Used(NoRequests)["local"][d]
            = SumOver(Loads(NoRequests, "local", d), Entries(NoRequests))
      BY <1>1, <3>1, UsedIsSum, ZenonT(30)
    <3> QED BY <1>1, <3>2, SumOverEmpty
  <2>2. setDefaultBandwidthValues(obj.capacity)["local"][d] \in Nat
    BY BandwidthAssumption DEF setDefaultBandwidthValues, ZeroCapacity, ZeroMbps, Link
  <2> QED BY <2>1, <2>2 DEF Room
<1> QED BY <1>2, <1>3

\* Room for the pod is enough for its request.
LEMMA AddRoom ==
    ASSUME NEW old \in BandwidthObject, NEW new \in BandwidthObject, NEW p \in Pods,
           new.requests = AddBandwidthRequest(old.requests, p),
           new.capacity = old.capacity, AtLeastAnnotated(old.requests)
    PROVE  /\ AtLeastAnnotated(new.requests)
           /\ \A d \in Dir :
                 Room(new, d) >= Room(old, d) - ExtractPodBandwidthRequirement(p)[d]
<1>1. PICK a, b : a = new.requests /\ b = old.requests
  OBVIOUS
<1>2. /\ a \in Requests /\ b \in Requests /\ a = AddBandwidthRequest(b, p)
      /\ AtLeastAnnotated(b)
  BY <1>1 DEF BandwidthObject
<1>3. AtLeastAnnotated(a)
  <2> SUFFICES ASSUME NEW q \in Entries(a), NEW d \in Dir
               PROVE  Annotation[q][d] <= a[q].mbps[d]
    BY DEF AtLeastAnnotated
  <2>1. CASE q = p
    <3>1. a[p].mbps = ExtractPodBandwidthRequirement(p)
      BY <1>2 DEF AddBandwidthRequest, Requests
    <3> QED BY <2>1, <3>1, ExtractType
  <2>2. CASE q # p
    <3>1. q \in Pods /\ a[q] = b[q] /\ q \in Entries(b)
      BY <1>2, <2>2 DEF AddBandwidthRequest, Requests, Entries
    <3> QED BY <1>2, <3>1 DEF AtLeastAnnotated
  <2> QED BY <2>1, <2>2
<1>4. ASSUME NEW d \in Dir
      PROVE  Room(new, d) >= Room(old, d) - ExtractPodBandwidthRequirement(p)[d]
  <2>1. Used(a)["local"][d]
           <= Used(b)["local"][d] + ExtractPodBandwidthRequirement(p)[d]
    BY <1>2, AnnotatedNonNegative, UsedAdd
  <2>2. ExtractPodBandwidthRequirement(p)[d] \in Int
    BY ExtractType
  <2> QED BY <1>1, <2>1, <2>2, RoomType DEF Room
<1> QED BY <1>1, <1>3, <1>4

LEMMA FilterAlone ==
    ASSUME SystemTypeOK, Next, cycle.pc = "filter", cycle'.pc = "score"
    PROVE  /\ Filter /\ UNCHANGED bw
           /\ cycle.pod \in Pods /\ cycle'.pod = cycle.pod
           /\ Candidates' = {n \in nodes : HasSufficientBandwidth(n, cycle.pod)}
<1>1. cycle' # cycle /\ SchedulerNext
  BY DEF Next, schedulerVars
<1>2. Filter
  BY <1>1 DEF SchedulerNext, CycleStep, BindingStep, PreFilter, ScoreNodes,
              ReserveGet, ReserveUpdate, CycleUnreserveGet, CycleUnreserveUpdate,
              Bind, BindFails, BindingUnreserveGet, BindingUnreserveUpdate,
              SchedulerRestart, NoCycle
<1>3. cycle \in Cycle /\ cycle.pod \in Pods
  BY CycleType DEF SystemTypeOK, CyclePc
<1>4. PICK feasible : feasible = {n \in nodes : HasSufficientBandwidth(n, cycle.pod)}
  OBVIOUS
<1>5. cycle' = [cycle EXCEPT !.pc = "score", !.feasible = feasible]
  BY <1>2, <1>4, ZenonT(30) DEF Filter, NoCycle
<1>6. cycle'.pod = cycle.pod /\ cycle'.feasible = feasible
  BY <1>3, <1>5, ZenonT(30) DEF Cycle
<1> QED BY <1>2, <1>3, <1>4, <1>6 DEF Candidates, Filter, clusterVars

\* Otherwise the cycle goes on with a node it had, or ends.
LEMMA CandidatesStep ==
    ASSUME SystemTypeOK, Next, ~(cycle.pc = "filter" /\ cycle'.pc = "score")
    PROVE  \/ Candidates' = {}
           \/ Candidates' \subseteq Candidates /\ cycle'.pod = cycle.pod
<1>1. CASE UNCHANGED cycle
  BY <1>1 DEF Candidates
<1>2. CASE cycle'.pc \notin {"score", "reserve", "reserveUpdate"}
  BY <1>2 DEF Candidates
<1>3. CASE cycle' # cycle
  <2>0. SchedulerNext
    BY <1>3 DEF Next, schedulerVars
  <2>1. CASE ScoreNodes
    <3>1. cycle \in Cycle /\ cycle.pc = "score"
      BY <2>1, CycleType, ZenonT(30) DEF SystemTypeOK, CyclePc, ScoreNodes
    <3>2. \/ cycle' = NoCycle
          \/ \E n \in cycle.feasible :
                cycle' = [cycle EXCEPT !.pc = "reserve", !.node = n]
      BY <2>1 DEF ScoreNodes
    <3>3. CASE cycle' = NoCycle
      BY <1>2, <3>3 DEF NoCycle
    <3>4. ASSUME NEW n \in cycle.feasible,
                 cycle' = [cycle EXCEPT !.pc = "reserve", !.node = n]
          PROVE  Candidates' \subseteq Candidates /\ cycle'.pod = cycle.pod
      <4>1. cycle'.pc = "reserve" /\ cycle'.node = n /\ cycle'.pod = cycle.pod
        BY <3>1, <3>4 DEF Cycle
      <4> QED BY <3>1, <4>1 DEF Candidates
    <3> QED BY <3>2, <3>3, <3>4, ZenonT(30)
  <2>2. CASE ReserveGet
    <3>1. cycle \in Cycle /\ cycle.pc = "reserve"
      BY <2>2, CycleType, ZenonT(30) DEF SystemTypeOK, CyclePc, ReserveGet
    <3>2. \/ cycle' = NoCycle
          \/ cycle' = [cycle EXCEPT !.pc = "reserveUpdate"]
          \/ cycle' = [cycle EXCEPT !.pc = "unreserve"]
      BY <2>2 DEF ReserveGet, StartBinding
    <3>3. CASE cycle' = [cycle EXCEPT !.pc = "reserveUpdate"]
      <4>1. /\ cycle'.pc = "reserveUpdate" /\ cycle'.node = cycle.node
            /\ cycle'.pod = cycle.pod
        BY <3>1, <3>3, ZenonT(30) DEF Cycle
      <4> QED BY <3>1, <4>1, ZenonT(30) DEF Candidates
    <3>4. CASE cycle' = NoCycle \/ cycle' = [cycle EXCEPT !.pc = "unreserve"]
      BY <1>2, <3>1, <3>4 DEF NoCycle, Cycle
    <3> QED BY <3>2, <3>3, <3>4, ZenonT(30)
  <2>3. CASE Filter
    BY <1>2, <2>3, CycleType DEF Filter, NoCycle, SystemTypeOK, CyclePc, Cycle
  <2>4. CASE ReserveUpdate \/ CycleUnreserveGet \/ CycleUnreserveUpdate
    <3>1. cycle \in Cycle
      BY <2>4, CycleType DEF SystemTypeOK, CyclePc, ReserveUpdate,
                             CycleUnreserveGet, CycleUnreserveUpdate
    <3>2. \/ cycle' = NoCycle
          \/ cycle' = [cycle EXCEPT !.pc = "unreserve"]
          \/ cycle' = [cycle EXCEPT !.pc = "unreserveUpdate"]
      BY <2>4 DEF ReserveUpdate, StartBinding, CycleUnreserveGet,
                  CycleUnreserveUpdate
    <3> QED BY <1>2, <3>1, <3>2 DEF NoCycle, Cycle
  <2>5. CASE (\E p \in Pods : PreFilter(p)) \/ SchedulerRestart
    <3>1. cycle'.pc \in {"filter", "idle"}
      <4>1. cycle' = NoCycle \/ \E p \in Pods : cycle' = [NoCycle EXCEPT !.pc = "filter", !.pod = p]
        BY <2>5, ZenonT(30) DEF PreFilter, SchedulerRestart
      <4>2. NoCycle \in [pc : {"idle"}, pod : {NoPod}, node : {NoNode}, feasible : {{}}]
        BY DEF NoCycle
      <4>3. \A p : [NoCycle EXCEPT !.pc = "filter", !.pod = p].pc = "filter"
        BY ONLY <4>2, SMTT(30)
      <4> QED BY <4>1, <4>2, <4>3
    <3> QED BY <1>2, <3>1, ZenonT(30)
  <2>6. CASE \E p \in Pods : BindingStep(p)
    BY <1>1, <2>6 DEF BindingStep, Bind, BindFails, BindingUnreserveGet,
                      BindingUnreserveUpdate
  <2> QED BY <2>0, <2>1, <2>2, <2>3, <2>4, <2>5, <2>6, ZenonT(30) DEF SchedulerNext, CycleStep
<1> QED BY <1>1, <1>3

\* What the cycle's write does to the object, and where the cycle goes.
LEMMA ReserveWrite ==
    ASSUME SystemTypeOK, Reserves
    PROVE  /\ cycle.pod \in Pods /\ Candidates = {cycle.node} /\ Candidates' = {}
           /\ cycle.pc = "reserveUpdate" /\ cycle'.pc # "reserveUpdate"
           /\ \A n \in Nodes \ {cycle.node} : bw'[n] = bw[n]
           /\ bw'[cycle.node] \in BandwidthObject
           /\ bw'[cycle.node].capacity = bw[cycle.node].capacity
           /\ bw'[cycle.node].requests =
                 AddBandwidthRequest(bw[cycle.node].requests, cycle.pod)
<1>1. cycle \in Cycle /\ cycle.pod \in Pods /\ cycle.pc = "reserveUpdate"
  BY CycleType DEF SystemTypeOK, CyclePc, Reserves, ReserveUpdate
<1>2. cycle'.pc \in {"idle", "unreserve"}
  <2>1. cycle' = NoCycle \/ cycle' = [cycle EXCEPT !.pc = "unreserve"]
    BY DEF Reserves, ReserveUpdate, StartBinding
  <2> QED BY <1>1, <2>1 DEF NoCycle, Cycle
<1>3. Candidates = {cycle.node} /\ Candidates' = {}
  BY <1>1, <1>2 DEF Candidates
<1>4. PICK m, p : m = cycle.node /\ p = cycle.pod
  OBVIOUS
<1>5. m \in Nodes /\ p \in Pods /\ bw[m] \in BandwidthObject
  BY <1>1, <1>4, ZenonT(30) DEF Reserves, SystemTypeOK, ClientsTypeOK, ClusterTypeOK, Exists
<1>6. PICK reqs : reqs = AddBandwidthRequest(bw[m].requests, p)
  OBVIOUS
<1>7. bw[m].requests \in Requests /\ reqs \in Requests
  BY <1>5, <1>6, AddType, ZenonT(30) DEF BandwidthObject
<1>8. PICK obj : obj = [bw[m] EXCEPT !.requests = reqs, !.capacity = bw[m].capacity]
  OBVIOUS
<1>9. /\ obj \in BandwidthObject /\ obj.requests = reqs
      /\ obj.capacity = bw[m].capacity
  BY <1>5, <1>7, <1>8, ZenonT(30) DEF BandwidthObject
<1>10. (bw' = bw /\ obj = bw[m]) \/ bw' = [bw EXCEPT ![m] = obj]
  BY <1>4, <1>6, <1>8, ZenonT(30) DEF Reserves, AddRequest, StoreSpec, Store
<1>11. \A n \in Nodes : bw'[n] = IF n = m THEN obj ELSE bw[n]
  BY <1>5, <1>10, ZenonT(30) DEF SystemTypeOK, ClientsTypeOK, ClusterTypeOK
<1> QED BY <1>1, <1>2, <1>3, <1>4, <1>5, <1>6, <1>9, <1>11, ZenonT(30)

LEMMA AdmissionStep ==
    ASSUME Capacities = {}
    PROVE  /\ SystemTypeOK /\ OperatorInv /\ AdmissionInv
           /\ [AdmissionNext]_admissionVars
           => AdmissionInv'
<1> SUFFICES ASSUME SystemTypeOK, OperatorInv, AdmissionInv,
                    [AdmissionNext]_admissionVars
             PROVE  AdmissionInv'
  OBVIOUS
<1>0. [Next]_vars
  BY DEF AdmissionNext, admissionVars
<1>1. SystemTypeOK' /\ CleanInv'
  BY <1>0, SystemStepType, CleanStep, ZenonT(30) DEF AdmissionInv
<1>2. \A n \in Nodes : /\ bw[n] # NoBandwidth => bw[n] \in BandwidthObject
                       /\ bw'[n] # NoBandwidth => bw'[n] \in BandwidthObject
  BY <1>1 DEF SystemTypeOK, ClientsTypeOK, ClusterTypeOK
<1>3. CASE UNCHANGED admissionVars
  <2>1. UNCHANGED <<bw, cycle, synced, raced>>
    BY <1>3 DEF admissionVars, vars, clusterVars, schedulerVars
  <2>2. UNCHANGED Candidates
    BY <2>1 DEF Candidates
  <2> QED BY <1>1, <2>1, <2>2, ZenonT(30)
          DEF AdmissionInv, Exists, SyncedReservationsFit, LinkFits
<1>4. CASE AdmissionNext
  <2>0. Next
    BY <1>4 DEF AdmissionNext
  <2>1. CASE Reserves
    <3>1. PICK m, p, old, new : /\ m = cycle.node /\ p = cycle.pod
                                /\ old = bw[m] /\ new = bw'[m]
      OBVIOUS
    <3>2. /\ m \in Nodes /\ p \in Pods /\ Candidates = {m} /\ Candidates' = {}
          /\ cycle.pc = "reserveUpdate" /\ cycle'.pc # "reserveUpdate"
          /\ \A n \in Nodes \ {m} : bw'[n] = bw[n]
          /\ new \in BandwidthObject /\ new.capacity = old.capacity
          /\ new.requests = AddBandwidthRequest(old.requests, p)
      BY <2>1, <3>1, ReserveWrite, ZenonT(30) DEF Reserves
    <3>3. old \in BandwidthObject /\ AtLeastAnnotated(old.requests)
      BY <1>2, <2>1, <3>1, <3>2, ZenonT(30) DEF Reserves, AdmissionInv, Exists
    <3>4. /\ AtLeastAnnotated(new.requests)
          /\ \A d \in Dir : Room(new, d) >= Room(old, d)
                                              - ExtractPodBandwidthRequirement(p)[d]
      BY <3>2, <3>3, AddRoom, ZenonT(30)
    <3>5. /\ synced' = {n \in synced : bw'[n] # NoBandwidth}
          /\ raced \subseteq raced' /\ (m \notin synced => m \in raced')
      BY <1>4, <3>1, <3>2, ZenonT(30) DEF AdmissionNext
    <3>6. \A n \in Nodes : Exists(n)' => AtLeastAnnotated(bw'[n].requests)
      BY <3>1, <3>2, <3>4, ZenonT(30) DEF AdmissionInv, Exists
    <3>7. ASSUME NEW n \in Nodes \ raced', Exists(n)' PROVE LinkFits(n, "local")'
      <4>1. CASE n # m
        BY <3>2, <3>5, <3>7, <4>1, ZenonT(30)
           DEF AdmissionInv, SyncedReservationsFit, Exists, LinkFits
      <4>2. CASE n = m
        <5>1. \A d \in Dir : Room(old, d) >= ExtractPodBandwidthRequirement(p)[d]
          BY <3>1, <3>2, <3>5, <4>2, ZenonT(30) DEF AdmissionInv
        <5>2. ASSUME NEW d \in Dir PROVE Room(new, d) >= 0
          <6>1. /\ Room(old, d) \in Int /\ Room(new, d) \in Int
                /\ ExtractPodBandwidthRequirement(p)[d] \in Int
            BY <3>2, <3>3, RoomType, ExtractType
          <6> QED BY <3>4, <5>1, <6>1
        <5> QED BY <3>1, <4>2, <5>2, RoomFits, ZenonT(30) DEF LinkFits
      <4> QED BY <4>1, <4>2, ZenonT(30)
    <3>8. (synced \subseteq {n \in Nodes : Exists(n)})'
      BY <3>5 DEF AdmissionInv, Exists
    <3> QED BY <1>1, <3>2, <3>6, <3>7, <3>8, ZenonT(30)
            DEF AdmissionInv, SyncedReservationsFit
  <2>2. CASE \A n \in Nodes : Eased(n)
    <3>1. ASSUME NEW n \in Nodes, bw'[n] # NoBandwidth
          PROVE  /\ AtLeastAnnotated(bw'[n].requests)
                 /\ Exists(n) => \A d \in Dir : Room(bw'[n], d) >= Room(bw[n], d)
                 /\ ~Exists(n) => \A d \in Dir : Room(bw'[n], d) >= 0
      <4>1. PICK old, new : old = bw[n] /\ new = bw'[n]
        OBVIOUS
      <4>2. new \in BandwidthObject
        BY <1>2, <3>1, <4>1, ZenonT(30)
      <4>3. CASE ~Exists(n)
        <5>1. new = NewBandwidth
          BY <2>2, <3>1, <4>1, <4>3, ZenonT(30) DEF Eased
        <5>2. /\ new.requests = NoRequests
              /\ new.capacity = setDefaultBandwidthValues(ZeroCapacity)
          BY <5>1 DEF NewBandwidth
        <5> QED BY <4>1, <4>2, <4>3, <5>2, EmptyRoom, ZenonT(30)
      <4>4. CASE Exists(n)
        <5>1. old \in BandwidthObject /\ AtLeastAnnotated(old.requests)
          BY <1>2, <4>1, <4>4, ZenonT(30) DEF AdmissionInv, Exists
        <5>2. /\ setDefaultBandwidthValues(new.capacity)
                    = setDefaultBandwidthValues(old.capacity)
              /\ Milder(new.requests, old.requests)
          BY <2>2, <3>1, <4>1, <4>4, ZenonT(30) DEF Eased
        <5> QED BY <4>1, <4>2, <4>4, <5>1, <5>2, EasedRoom, ZenonT(30)
      <4> QED BY <4>3, <4>4, ZenonT(30)
    <3>2. raced \subseteq raced'
      BY <1>4 DEF AdmissionNext
    <3>3. ASSUME NEW n \in Nodes \ raced', Exists(n)' PROVE LinkFits(n, "local")'
      <4>1. PICK old, new : old = bw[n] /\ new = bw'[n]
        OBVIOUS
      <4>2. ASSUME NEW d \in Dir PROVE Room(new, d) >= 0
        <5>1. CASE ~Exists(n)
          BY <3>1, <3>3, <4>1, <5>1, ZenonT(30) DEF Exists
        <5>2. CASE Exists(n)
          <6>1. Room(old, d) \in Int /\ Room(new, d) \in Int
            BY <1>2, <3>3, <4>1, <5>2, RoomType DEF Exists
          <6>2. Room(old, d) >= 0
            BY <3>2, <4>1, <5>2, RoomFits, ZenonT(30)
               DEF AdmissionInv, SyncedReservationsFit, LinkFits
          <6>3. Room(new, d) >= Room(old, d)
            BY <3>1, <3>3, <4>1, <5>2, ZenonT(30) DEF Exists
          <6> QED BY <6>1, <6>2, <6>3
        <5> QED BY <5>1, <5>2, ZenonT(30)
      <4> QED BY <4>1, <4>2, RoomFits, ZenonT(30) DEF LinkFits
    <3>4. CASE cycle.pc = "filter" /\ cycle'.pc = "score"
      <4>1. synced' = {n \in Nodes : Exists(n) /\ Accounted(n)} /\ UNCHANGED bw
        BY <1>4, <2>0, <3>4, FilterAlone, ZenonT(30) DEF AdmissionNext
      <4>2. ASSUME NEW n \in Candidates' \cap synced', NEW d \in Dir
            PROVE  Room(bw'[n], d) >= ExtractPodBandwidthRequirement(cycle'.pod)[d]
        <5>1. /\ HasSufficientBandwidth(n, cycle.pod) /\ cycle'.pod = cycle.pod
              /\ Accounted(n)
          BY <2>0, <3>4, <4>1, <4>2, FilterAlone, ZenonT(30)
        <5>2. PICK obj : obj = bw[n]
          OBVIOUS
        <5>3. obj.status.remaining =
                 Remaining(setDefaultBandwidthValues(obj.capacity),
                           Used(obj.requests))
          BY <5>1, <5>2 DEF Accounted
        <5>4. obj.status.remaining["local"][d]
                 >= ExtractPodBandwidthRequirement(cycle.pod)[d]
          BY <5>1, <5>2, ZenonT(30) DEF HasSufficientBandwidth, Fits, Link
        <5> QED BY <4>1, <5>1, <5>2, <5>3, <5>4, RoomFits, ZenonT(30)
      <4>3. (synced \subseteq {n \in Nodes : Exists(n)})'
        BY <4>1, ZenonT(30) DEF Exists
      <4> QED BY <1>1, <3>1, <3>3, <4>2, <4>3, ZenonT(30)
              DEF AdmissionInv, SyncedReservationsFit, Exists
    <3>5. CASE ~(cycle.pc = "filter" /\ cycle'.pc = "score")
      <4>1. synced' = {n \in synced : bw'[n] # NoBandwidth}
        BY <1>4, <3>5, ZenonT(30) DEF AdmissionNext
      <4>2. ASSUME NEW n \in Candidates' \cap synced', NEW d \in Dir
            PROVE  Room(bw'[n], d) >= ExtractPodBandwidthRequirement(cycle'.pod)[d]
        <5>1. n \in Candidates /\ cycle'.pod = cycle.pod
          BY <2>0, <3>5, <4>2, CandidatesStep, ZenonT(30)
        <5>2. n \in synced /\ n \in Nodes /\ Exists(n) /\ bw'[n] # NoBandwidth
          BY <4>1, <4>2, ZenonT(30) DEF AdmissionInv
        <5>3. cycle.pod \in Pods
          BY <5>1, CycleType, ZenonT(30) DEF SystemTypeOK, CyclePc, Candidates
        <5>4. PICK p, old, new : p = cycle.pod /\ old = bw[n] /\ new = bw'[n]
          OBVIOUS
        <5>5. /\ Room(old, d) \in Int /\ Room(new, d) \in Int
              /\ ExtractPodBandwidthRequirement(p)[d] \in Int
          BY <1>2, <5>2, <5>3, <5>4, RoomType, ExtractType DEF Exists
        <5>6. /\ Room(new, d) >= Room(old, d)
              /\ Room(old, d) >= ExtractPodBandwidthRequirement(p)[d]
          BY <3>1, <5>1, <5>2, <5>4, ZenonT(30) DEF AdmissionInv
        <5>7. Room(new, d) >= ExtractPodBandwidthRequirement(p)[d]
          BY <5>5, <5>6
        <5> QED BY <5>1, <5>4, <5>7, ZenonT(30)
      <4>3. (synced \subseteq {n \in Nodes : Exists(n)})'
        BY <4>1 DEF AdmissionInv, Exists
      <4> QED BY <1>1, <3>1, <3>3, <4>2, <4>3, ZenonT(30)
              DEF AdmissionInv, SyncedReservationsFit, Exists
    <3> QED BY <3>4, <3>5
  <2>3. CleanInv
    BY DEF AdmissionInv
  <2> QED BY <2>0, <2>1, <2>2, <2>3, WritesEase, ZenonT(30)
<1> QED BY <1>3, <1>4, ZenonT(30)

LEMMA AdmissionStart == AdmissionInit => AdmissionInv
<1> SUFFICES ASSUME AdmissionInit PROVE AdmissionInv
  OBVIOUS
<1>0. synced = {} /\ SteadyInit
  BY DEF AdmissionInit
<1>1. /\ \A n \in Nodes : Exists(n) => bw[n] = EmptyObject
      /\ worker = Idle
  BY <1>0, SteadyStart DEF Exists
<1>2. /\ AtLeastAnnotated(EmptyObject.requests)
      /\ \A d \in Dir : Room(EmptyObject, d) >= 0
  <2>1. PICK obj : obj = EmptyObject
    OBVIOUS
  <2>2. /\ obj \in BandwidthObject /\ obj.requests = NoRequests
        /\ obj.capacity = setDefaultBandwidthValues(ZeroCapacity)
    BY <2>1, EmptyType DEF EmptyObject
  <2> QED BY <2>1, <2>2, EmptyRoom, ZenonT(30)
<1>3. SyncedReservationsFit
  <2>1. PICK obj : obj = EmptyObject
    OBVIOUS
  <2>2. \A d \in Dir : Remaining(setDefaultBandwidthValues(obj.capacity),
                                 Used(obj.requests))["local"][d] >= 0
    BY <1>2, <2>1, RoomFits, ZenonT(30)
  <2> QED BY <1>1, <2>1, <2>2, ZenonT(30) DEF SyncedReservationsFit, LinkFits
<1>4. CleanInv
  BY <1>1, IdleType DEF CleanInv
<1> QED BY <1>0, <1>1, <1>2, <1>3, <1>4, ZenonT(30) DEF AdmissionInv

\* SyncedAdmission: where no administrator edits a capacity, the requests of a
\* node never exceed its local link as long as every reservation there followed
\* a Filter that saw the status in step with the requests.  No lost update,
\* clean-up, failed bind, restart or recreated object between Filter and Reserve
\* takes the room away that Filter saw.
THEOREM SyncedAdmission ==
    ASSUME Capacities = {}
    PROVE  AdmissionSpec => []SyncedReservationsFit
<1>1. AdmissionInit => SystemTypeOK /\ OperatorInv /\ AdmissionInv
  BY SteadyInv, AdmissionStart DEF AdmissionInit
<1>2. [AdmissionNext]_admissionVars => [Next]_vars
  BY DEF AdmissionNext, admissionVars
<1>3. AdmissionInv => SyncedReservationsFit
  BY DEF AdmissionInv
<1> QED
  BY <1>1, <1>2, <1>3, SystemStepType, SystemStepInv, AdmissionStep, PTL
     DEF AdmissionSpec
=============================================================================
