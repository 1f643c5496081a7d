----------------------- MODULE OperatorClients_proofs -----------------------
(***************************************************************************)
(* Theorems about the operator among arbitrary clients, for every set of   *)
(* nodes, every finite set of pods and every budget of rare events.        *)
(***************************************************************************)
EXTENDS OperatorClients, Sums

\* The provers of a leaf that names none, and the time they have.
USE ZenonT(5), SMTT(30)

-----------------------------------------------------------------------------
(* What the account of a list of requests is made of: sums over the pods   *)
(* that have an entry.                                                     *)

\* What each pod with an entry puts on a link.
Loads(reqs, l, d) == [p \in Entries(reqs) |-> RequestMbps(reqs[p], l)[d]]

LEMMA EntriesFinite == ASSUME NEW reqs PROVE IsFiniteSet(Entries(reqs))
  BY BandwidthAssumption, FS_Subset DEF Entries

LEMMA LoadsType ==
    ASSUME NEW reqs \in Requests, NEW l \in Link, NEW d \in Dir
    PROVE  Loads(reqs, l, d) \in [Entries(reqs) -> Int]
  BY DEF Loads, Entries, Requests, BandwidthRequest, BandwidthDefinition,
         RequestMbps, ZeroMbps

\* Used is the sum of the loads.
LEMMA UsedIsSum ==
    ASSUME NEW reqs \in Requests, NEW l \in Link, NEW d \in Dir
    PROVE  Used(reqs)[l][d] = SumOver(Loads(reqs, l, d), Entries(reqs))
<1> DEFINE S == Entries(reqs)
           m == Loads(reqs, l, d)
           rhs(h) == [s \in SUBSET S |->
                   IF s = {} THEN 0
                   ELSE RequestMbps(reqs[CHOOSE x \in s : TRUE], l)[d]
                          + h[s \ {CHOOSE x \in s : TRUE}]]
           g == CHOOSE h : h = rhs(h)
<1>1. Used(reqs)[l][d] = g[S]
  BY DEF Used, MapThenSumSet, MapThenFoldSet
<1>2. ASSUME NEW h
      PROVE  IsSum(m, h, S) <=> h = rhs(h)
  <2>1. ASSUME NEW s \in SUBSET S
        PROVE  SumStep(m, h, s) =
                  IF s = {} THEN 0
                  ELSE RequestMbps(reqs[CHOOSE x \in s : TRUE], l)[d]
                         + h[s \ {CHOOSE x \in s : TRUE}]
    BY AnyIn DEF SumStep, AnyOf, Loads
  <2> HIDE DEF m, S
  <2> QED BY <2>1 DEF IsSum
<1>3. IsFiniteSet(S)
  BY EntriesFinite
<1>4. \E h : IsSum(m, h, S)
  BY <1>3, SumExists
<1> HIDE DEF m, rhs, S
<1>5. \E h : h = rhs(h)
  BY <1>2, <1>4
<1>6. g = rhs(g)
  BY <1>5, Zenon
<1> HIDE DEF g
<1>7. IsSum(m, g, S)
  BY <1>2, <1>6
<1>8. SumOver(m, S) = g[S]
  BY <1>3, <1>7, SumOverIs
<1> QED BY <1>1, <1>8 DEF m, S

\* Used adds up integers: the account of any list of requests is a capacity.
LEMMA UsedType ==
    ASSUME NEW reqs \in Requests
    PROVE  Used(reqs) \in Capacity
<1>1. ASSUME NEW l \in Link, NEW d \in Dir
      PROVE  Used(reqs)[l][d] \in Int
  BY UsedIsSum, EntriesFinite, LoadsType, SumOverInt
<1>2. Used(reqs) = [l \in Link |-> [d \in Dir |-> Used(reqs)[l][d]]]
  BY DEF Used
<1> QED BY <1>1, <1>2 DEF Capacity, BandwidthDefinition

-----------------------------------------------------------------------------
(* The local link carries every request, so what it carries grows and      *)
(* shrinks with the requests.                                              *)

NonNegative(reqs) == \A p \in Entries(reqs), d \in Dir : reqs[p].mbps[d] >= 0

LEMMA LocalLoads ==
    ASSUME NEW reqs \in Requests, NEW d \in Dir
    PROVE  \A p \in Entries(reqs) : /\ Loads(reqs, "local", d)[p] = reqs[p].mbps[d]
                                    /\ reqs[p].mbps[d] \in Int
  BY DEF Loads, RequestMbps, Entries, Requests, BandwidthRequest,
         BandwidthDefinition

\* Fewer and smaller requests use no more of the local link.
LEMMA UsedLess ==
    ASSUME NEW a \in Requests, NEW b \in Requests, NEW d \in Dir, NonNegative(b),
           Entries(a) \subseteq Entries(b),
           \A p \in Entries(a) : a[p].mbps[d] <= b[p].mbps[d]
    PROVE  Used(a)["local"][d] <= Used(b)["local"][d]
<1>1. "local" \in Link
  BY DEF Link
<1>2. /\ Used(a)["local"][d] = SumOver(Loads(a, "local", d), Entries(a))
      /\ Used(b)["local"][d] = SumOver(Loads(b, "local", d), Entries(b))
  BY <1>1, UsedIsSum
<1>3. \A p \in Entries(a) : /\ Loads(a, "local", d)[p] \in Int
                            /\ Loads(a, "local", d)[p] <= Loads(b, "local", d)[p]
  BY LocalLoads
<1>4. \A p \in Entries(b) : /\ Loads(b, "local", d)[p] \in Int
                            /\ Loads(b, "local", d)[p] >= 0
  BY LocalLoads DEF NonNegative
<1> QED BY <1>2, <1>3, <1>4, EntriesFinite, SumOverLess

\* A request that is added, or replaces one of its pod, adds its own amount
\* at most.
LEMMA UsedAdd ==
    ASSUME NEW reqs \in Requests, NEW p \in Pods, NEW d \in Dir, NonNegative(reqs),
           AddBandwidthRequest(reqs, p) \in Requests
    PROVE  Used(AddBandwidthRequest(reqs, p))["local"][d]
              <= Used(reqs)["local"][d] + ExtractPodBandwidthRequirement(p)[d]
<1>1. PICK b : b = AddBandwidthRequest(reqs, p)
  OBVIOUS
<1>2. "local" \in Link
  BY DEF Link
<1>3. PICK S, T, f, h : /\ S = Entries(b) \ {p} /\ T = Entries(reqs)
                        /\ f = Loads(b, "local", d) /\ h = Loads(reqs, "local", d)
  OBVIOUS
<1>4. /\ b \in Requests /\ \A q \in Pods \ {p} : b[q] = reqs[q]
      /\ b[p].mbps[d] = ExtractPodBandwidthRequirement(p)[d]
      /\ b[p] = [linkLocal |-> FALSE, mbps |-> ExtractPodBandwidthRequirement(p)]
  BY <1>1 DEF AddBandwidthRequest, Requests
<1>5. p \in Entries(b)
  <2>1. ExtractPodBandwidthRequirement(p) \in BandwidthDefinition
    BY BandwidthAssumption DEF ExtractPodBandwidthRequirement, BandwidthDefinition
  <2>2. b[p] \in BandwidthRequest
    BY <1>4, <2>1 DEF BandwidthRequest
  <2> QED BY <2>2, BandwidthAssumption DEF Entries, BandwidthRequest
<1>6. S \in SUBSET T
  BY <1>3, <1>4 DEF Entries
<1>7. \A q \in Entries(b) : f[q] = b[q].mbps[d] /\ f[q] \in Int
  BY <1>3, <1>4, LocalLoads
<1>8. \A q \in T : h[q] = reqs[q].mbps[d] /\ h[q] \in Int /\ h[q] >= 0
  BY <1>3, LocalLoads DEF NonNegative
<1>9. \A q \in S : f[q] \in Int /\ f[q] <= h[q]
  <2> TAKE q \in S
  <2>1. q \in Entries(b) /\ q \in T /\ q \in Pods \ {p}
    BY <1>3, <1>6 DEF Entries
  <2>2. b[q] = reqs[q]
    BY <1>4, <2>1
  <2> QED BY <1>7, <1>8, <2>1, <2>2
<1>10. IsFiniteSet(T) /\ IsFiniteSet(Entries(b)) /\ IsFiniteSet(S)
  BY <1>3, <1>6, EntriesFinite, FS_Subset
<1>11. SumOver(f, S) <= SumOver(h, T)
  BY <1>6, <1>8, <1>9, <1>10, SumOverLess
<1>12. SumOver(f, Entries(b)) = f[p] + SumOver(f, S)
  BY <1>3, <1>5, <1>7, <1>10, SumOverRemove
<1>13. /\ Used(b)["local"][d] = SumOver(f, Entries(b))
       /\ Used(reqs)["local"][d] = SumOver(h, T)
  BY <1>2, <1>3, <1>4, UsedIsSum
<1>14. SumOver(f, S) \in Int /\ SumOver(h, T) \in Int
  BY <1>8, <1>9, <1>10, SumOverInt
<1>15. f[p] = ExtractPodBandwidthRequirement(p)[d] /\ f[p] \in Int
  BY <1>4, <1>5, <1>7
<1> QED BY <1>1, <1>11, <1>12, <1>13, <1>14, <1>15

-----------------------------------------------------------------------------
(* Types of what the operations compute.                                   *)

LEMMA DefaultsType ==
    ASSUME NEW cap \in Capacity
    PROVE  setDefaultBandwidthValues(cap) \in Capacity
  BY BandwidthAssumption
     DEF setDefaultBandwidthValues, Capacity, BandwidthDefinition

LEMMA ConstantsType ==
    /\ ZeroCapacity \in Capacity
    /\ NoRequests \in Requests
    /\ NewBandwidth \in BandwidthObject
<1>1. ZeroCapacity \in Capacity
  BY DEF ZeroCapacity, ZeroMbps, Capacity, BandwidthDefinition
<1>2. NoRequests \in Requests
  BY DEF NoRequests, Requests
<1>3. NewStatus \in BandwidthStatus
  BY <1>1, <1>2 DEF NewStatus, BandwidthStatus, Status
<1>4. NewBandwidth \in BandwidthObject
  BY <1>1, <1>2, <1>3, DefaultsType DEF NewBandwidth, BandwidthObject
<1> QED BY <1>1, <1>2, <1>4

LEMMA RemainingType ==
    ASSUME NEW cap \in Capacity, NEW used \in Capacity
    PROVE  Remaining(cap, used) \in Capacity
  BY DEF Remaining, Capacity, BandwidthDefinition

LEMMA AddType ==
    ASSUME NEW reqs \in Requests, NEW p \in Pods
    PROVE  AddBandwidthRequest(reqs, p) \in Requests
<1>1. ExtractPodBandwidthRequirement(p) \in BandwidthDefinition
  BY BandwidthAssumption
     DEF ExtractPodBandwidthRequirement, BandwidthDefinition
<1> QED BY <1>1 DEF AddBandwidthRequest, Requests, BandwidthRequest

LEMMA RemoveType ==
    ASSUME NEW reqs \in Requests, NEW p \in Pods
    PROVE  RemoveBandwidthRequest(reqs, p) \in Requests
  BY DEF RemoveBandwidthRequest, Requests

LEMMA CleanType ==
    ASSUME NEW reqs \in Requests, NEW n, NEW S
    PROVE  CleanRequests(reqs, n, S) \in Requests
<1>1. ASSUME NEW p \in Pods, p \in Entries(reqs)
      PROVE  [linkLocal |-> allSiblingsOnCurrentNode(p, n),
              mbps |-> IF p \in S THEN Annotation[p] ELSE reqs[p].mbps]
                \in BandwidthRequest
  <2>1. allSiblingsOnCurrentNode(p, n) \in BOOLEAN
    BY DEF allSiblingsOnCurrentNode
  <2>2. Annotation[p] \in BandwidthDefinition
    BY BandwidthAssumption DEF BandwidthDefinition
  <2>3. reqs[p].mbps \in BandwidthDefinition
    BY <1>1 DEF Entries, Requests, BandwidthRequest
  <2> HIDE DEF allSiblingsOnCurrentNode
  <2> QED BY <2>1, <2>2, <2>3 DEF BandwidthRequest
<1> QED BY <1>1 DEF CleanRequests, Requests

-----------------------------------------------------------------------------
(* The operations of the API server keep the types of what they change.    *)

StoreTypeOK == /\ bw \in [Nodes -> BandwidthObject \cup {NoBandwidth}]
               /\ current \in [Nodes -> SUBSET Holder]

LEMMA SpendType ==
    ASSUME budget \in [Rare -> Nat], NEW k \in Rare, Spend(k)
    PROVE  budget' \in [Rare -> Nat]
  BY DEF Spend

LEMMA StoreType ==
    ASSUME StoreTypeOK, NEW n \in Nodes,
           NEW obj \in BandwidthObject \cup {NoBandwidth}, Store(n, obj)
    PROVE  StoreTypeOK'
  BY DEF StoreTypeOK, Store

LEMMA StoreSpecType ==
    ASSUME StoreTypeOK, NEW n \in Nodes, Exists(n), NEW reqs \in Requests,
           NEW cap \in Capacity, StoreSpec(n, reqs, cap)
    PROVE  StoreTypeOK'
<1>1. [bw[n] EXCEPT !.requests = reqs, !.capacity = cap] \in BandwidthObject
  BY Zenon DEF StoreTypeOK, Exists, BandwidthObject
<1> QED BY <1>1, StoreType DEF StoreSpec, StoreTypeOK

LEMMA StoreStatusType ==
    ASSUME StoreTypeOK, NEW n \in Nodes, Exists(n),
           NEW st \in BandwidthStatus, StoreStatus(n, st)
    PROVE  StoreTypeOK'
<1>1. [bw[n] EXCEPT !.status = st] \in BandwidthObject
  BY DEF StoreTypeOK, Exists, BandwidthObject
<1> QED BY <1>1, StoreType DEF StoreStatus

LEMMA HoldType ==
    ASSUME StoreTypeOK, NEW n \in Nodes, NEW h \in Holder, UNCHANGED bw,
           Hold(n, h) \/ HoldCached(n, h) \/ LetGo(n, h)
    PROVE  StoreTypeOK'
  BY DEF StoreTypeOK, Hold, HoldCached, LetGo

LEMMA Holders == {"cache", "worker", "boot"} \subseteq Holder
  BY DEF Holder

LEMMA WorkerType ==
    ASSUME worker \in Worker, worker.pc # "idle"
    PROVE  worker \in Reconciling
  BY DEF Worker, Idle

LEMMA IdleType ==
    /\ Idle \in Worker /\ Idle.pc = "idle" /\ Idle.node = NoNode
    /\ \A n \in Nodes, pc \in WorkerPc \ {"idle"} :
          [Idle EXCEPT !.pc = pc, !.node = n] \in Reconciling
  BY ConstantsType, Zenon DEF Idle, Worker, Reconciling

LEMMA BootType ==
    ASSUME boot \in Boot, boot.pc # "next"
    PROVE  boot \in Creating
  BY DEF Boot, Booting

LEMMA BootNextType ==
    ASSUME boot \in Boot, BootNext \/ (boot \in Creating /\ BootRetry)
    PROVE  boot' \in Boot
<1>1. boot.todo \in SUBSET Nodes
  BY DEF Boot, Booting, Creating
<1>2. CASE BootNext
  BY <1>1, <1>2 DEF BootNext, Boot
<1>3. CASE boot \in Creating /\ BootRetry /\ boot.attempt < MaxRetries - 1
  <2>1. boot' = [boot EXCEPT !.pc = "fetch", !.attempt = @ + 1]
    BY <1>3 DEF BootRetry
  <2>3. boot.attempt + 1 \in 0 .. MaxRetries - 1
    BY <1>3 DEF Creating, MaxRetries
  <2>2. boot' \in Creating
    BY <1>3, <2>1, <2>3, Zenon DEF Creating, BootPc
  <2> QED BY <2>2 DEF Boot
<1> QED BY <1>2, <1>3 DEF BootRetry

\* The variables that users, kubelets and nodes change.
LEMMA ClusterStepType ==
    ASSUME ClientsTypeOK, ClusterNext, UNCHANGED operatorVars
    PROVE  ClientsTypeOK'
<1> USE DEF ClientsTypeOK, ClusterTypeOK
<1>1. StoreTypeOK
  BY DEF StoreTypeOK
<1>2. OperatorTypeOK'
  BY DEF OperatorTypeOK, operatorVars
<1>3. ASSUME NEW p \in Pods,
             \/ CreatePod(p) \/ RunPod(p) \/ FinishPod(p)
             \/ DeletePod(p) \/ RemovePod(p)
      PROVE  ClusterTypeOK'
  <2>1. pods' \in [Pods -> Pod]
    <3>1. CASE CreatePod(p) \/ RunPod(p) \/ FinishPod(p) \/ RemovePod(p)
      <4>1. PICK ph \in Phase : pods' = [pods EXCEPT ![p].phase = ph]
        BY <3>1 DEF CreatePod, RunPod, FinishPod, RemovePod, Phase
      <4> QED BY <4>1 DEF Pod
    <3>2. CASE DeletePod(p)
      <4>1. PICK pod \in Pod : pods' = [pods EXCEPT ![p] = pod]
        BY <3>2, Zenon DEF DeletePod, Pod, Phase
      <4> QED BY <4>1
    <3> QED BY <1>3, <3>1, <3>2
  <2>2. budget' \in [Rare -> Nat]
    BY <1>3, SpendType
       DEF CreatePod, RunPod, FinishPod, DeletePod, RemovePod, Rare
  <2> QED
    BY <1>3, <2>1, <2>2
       DEF CreatePod, RunPod, FinishPod, DeletePod, RemovePod
<1>4. ASSUME NEW n \in Nodes, JoinNode(n) \/ LeaveNode(n)
      PROVE  ClusterTypeOK'
  BY <1>4, SpendType DEF JoinNode, LeaveNode, Rare
<1>5. ASSUME NEW n \in Nodes, EditCapacity(n)
      PROVE  ClusterTypeOK'
  <2>1. PICK c \in Capacities : StoreSpec(n, bw[n].requests, c)
    BY <1>5 DEF EditCapacity
  <2>2. c \in Capacity /\ bw[n].requests \in Requests
    BY <1>5, ClusterAssumption
       DEF EditCapacity, Exists, BandwidthObject, Capacity, BandwidthDefinition
  <2>3. StoreTypeOK'
    BY <1>1, <1>5, <2>1, <2>2, StoreSpecType DEF EditCapacity
  <2>4. budget' \in [Rare -> Nat] /\ UNCHANGED <<pods, nodes>>
    BY <1>5, SpendType DEF EditCapacity, Rare
  <2> QED BY <2>3, <2>4 DEF StoreTypeOK
<1> QED BY <1>2, <1>3, <1>4, <1>5 DEF ClusterNext

LEMMA ClientStepType ==
    ASSUME ClientsTypeOK, ClientWrite \/ ClientFails
    PROVE  ClientsTypeOK'
<1> USE DEF ClientsTypeOK, ClusterTypeOK
<1>1. StoreTypeOK
  BY DEF StoreTypeOK
<1>2. OperatorTypeOK'
  BY DEF OperatorTypeOK, operatorVars, ClientWrite, ClientFails, ClientRequest,
         ClientRelease, ClientBind
<1>3. budget' \in [Rare -> Nat]
  BY SpendType DEF ClientWrite, ClientFails, ClientRequest, ClientRelease,
                   ClientBind, MayFail, Rare
<1>4. ASSUME NEW n \in Nodes, NEW p \in Pods,
             ClientRequest(n, p) \/ ClientRelease(n, p)
      PROVE  ClusterTypeOK'
  <2>1. Exists(n) /\ UNCHANGED <<pods, nodes>>
    BY <1>4 DEF ClientRequest, ClientRelease
  <2>2. bw[n].requests \in Requests /\ bw[n].capacity \in Capacity
    BY <2>1 DEF Exists, BandwidthObject
  <2>3. PICK reqs \in Requests : StoreSpec(n, reqs, bw[n].capacity)
    BY <1>4, <2>2, AddType, RemoveType DEF ClientRequest, ClientRelease
  <2>4. StoreTypeOK'
    BY <1>1, <2>1, <2>2, <2>3, StoreSpecType
  <2> QED BY <1>3, <2>1, <2>4 DEF StoreTypeOK
<1>5. ASSUME NEW n \in Nodes, NEW p \in Pods, ClientBind(n, p)
      PROVE  ClusterTypeOK'
  BY <1>3, <1>5 DEF ClientBind, Pod
<1>6. CASE ClientFails
  BY <1>2, <1>3, <1>6 DEF ClientFails
<1> HIDE DEF ClusterTypeOK
<1>7. ClusterTypeOK'
  BY <1>4, <1>5, <1>6 DEF ClientWrite
<1> QED BY <1>2, <1>7

LEMMA WatchType ==
    ASSUME ClientsTypeOK, Watch
    PROVE  ClientsTypeOK'
<1> USE DEF ClientsTypeOK, ClusterTypeOK, OperatorTypeOK
<1>1. ASSUME NEW n \in Nodes, WatchBandwidth(n)
      PROVE  ClientsTypeOK'
  <2>1. StoreTypeOK'
    BY <1>1, HoldType, Holders DEF StoreTypeOK, WatchBandwidth
  <2> QED BY <1>1, <2>1, Zenon DEF WatchBandwidth, StoreTypeOK
<1>2. ASSUME NEW n \in Nodes, WatchNode(n) \/ NodeHeartbeat(n)
      PROVE  ClientsTypeOK'
  BY <1>2 DEF WatchNode, NodeHeartbeat, clusterVars
<1>3. ASSUME NEW p \in Pods, WatchPod(p)
      PROVE  ClientsTypeOK'
  <2>1. {podCache[p].node, pods[p].node} \ {NoNode} \subseteq Nodes
    BY DEF Pod
  <2> QED BY <1>3, <2>1 DEF WatchPod, clusterVars
<1> HIDE DEF ClientsTypeOK
<1> QED BY <1>1, <1>2, <1>3 DEF Watch

LEMMA BootStepType ==
    ASSUME ClientsTypeOK, BootStep
    PROVE  ClientsTypeOK'
<1> USE DEF ClientsTypeOK, ClusterTypeOK, OperatorTypeOK
<1>0. StoreTypeOK
  BY DEF StoreTypeOK
<1>1. ASSUME NEW n \in Nodes, BootGet(n)
      PROVE  ClientsTypeOK'
  <2>1. PICK todo \in SUBSET Nodes : boot = Booting(todo)
    BY <1>1 DEF BootGet, Boot, Creating
  <2>2. boot' = Booting(todo \ {n})
           \/ boot' = [Booting(todo) EXCEPT !.pc = "create", !.node = n]
    BY <1>1, <2>1, Zenon DEF BootGet, Booting
  <2>3. boot' \in Boot
    <3>1. CASE boot' = Booting(todo \ {n})
      BY <3>1 DEF Boot
    <3>2. CASE boot' = [Booting(todo) EXCEPT !.pc = "create", !.node = n]
      <4>2. boot' = [pc |-> "create", node |-> n, todo |-> todo, attempt |-> 0]
        BY <3>2, Zenon DEF Booting
      <4>3. 0 \in 0 .. MaxRetries - 1
        BY DEF MaxRetries
      <4>1. boot' \in Creating
        BY <4>2, <4>3 DEF Creating, BootPc
      <4> QED BY <4>1 DEF Boot
    <3> QED BY <2>2, <3>1, <3>2
  <2> QED BY <1>1, <2>3 DEF BootGet, clusterVars
<1>2. CASE BootCreate
  <2>1. boot \in Creating
    BY <1>2, BootType DEF BootCreate
  <2>2. boot' \in Boot
    BY <1>2, <2>1, BootNextType DEF BootCreate, Boot, Creating, BootPc
  <2>3. StoreTypeOK'
    BY <1>0, <1>2, <2>1, StoreType, ConstantsType
       DEF BootCreate, StoreTypeOK, Creating
  <2> QED BY <1>2, <2>2, <2>3 DEF BootCreate, StoreTypeOK
<1>3. CASE BootFetch
  <2>1. boot \in Creating
    BY <1>3, BootType DEF BootFetch
  <2>2. boot' \in Boot
    BY <1>3, <2>1, BootNextType DEF BootFetch, Boot, Creating, BootPc
  <2>3. StoreTypeOK'
    BY <1>0, <1>3, <2>1, HoldType, Holders
       DEF BootFetch, StoreTypeOK, Creating
  <2> QED BY <1>3, <2>2, <2>3 DEF BootFetch, StoreTypeOK
<1>4. CASE BootStatus
  <2>1. boot \in Creating /\ boot.node \in Nodes
    BY <1>4, BootType DEF BootStatus, Creating
  <2>2. boot' \in Boot
    BY <1>4, <2>1, BootNextType DEF BootStatus
  <2>3. budget' \in [Rare -> Nat]
    BY <1>4, SpendType DEF BootStatus, Rare
  <2>4. StoreTypeOK'
    <3>1. CASE Exists(boot.node) /\ StoreStatus(boot.node, CreatedStatus(boot.node))
      <4>1. CreatedStatus(boot.node) \in BandwidthStatus
        BY <2>1, <3>1, ZenonT(30)
           DEF CreatedStatus, Exists, BandwidthObject, BandwidthStatus, Status
      <4> QED BY <1>0, <2>1, <3>1, <4>1, StoreStatusType
    <3>2. CASE UNCHANGED <<bw, current>>
      BY <1>0, <3>2 DEF StoreTypeOK
    <3>3. CASE LetGo(boot.node, "boot") /\ UNCHANGED bw
      BY <1>0, <2>1, <3>3, HoldType, Holders
    <3> QED BY <1>4, <3>1, <3>2, <3>3 DEF BootStatus
  <2> QED BY <1>4, <2>2, <2>3, <2>4 DEF BootStatus, StoreTypeOK
<1> HIDE DEF ClientsTypeOK
<1> QED BY <1>1, <1>2, <1>3, <1>4 DEF BootStep

LEMMA RestartType ==
    ASSUME ClientsTypeOK, OperatorRestart
    PROVE  ClientsTypeOK'
<1> USE DEF ClientsTypeOK, ClusterTypeOK, OperatorTypeOK
<1>1. budget' \in [Rare -> Nat]
  BY SpendType DEF OperatorRestart, Rare
<1>2. current' \in [Nodes -> SUBSET Holder]
  BY Holders DEF OperatorRestart
<1>3. queue' \subseteq Nodes
  BY ZenonT(30) DEF OperatorRestart, Pod
<1>4. worker' \in Worker /\ boot' \in Boot /\ worker'.pc # "listed"
  BY IdleType, Zenon DEF OperatorRestart, Boot
<1> QED BY <1>1, <1>2, <1>3, <1>4 DEF OperatorRestart

\* A step by which the worker takes up a node.
LEMMA StartType ==
    ASSUME ClientsTypeOK, NEW n \in Nodes, ReconcileStart(n)
    PROVE  ClientsTypeOK'
<1> USE DEF ClientsTypeOK, ClusterTypeOK, OperatorTypeOK
<1>1. queue' \subseteq Nodes
  BY DEF ReconcileStart, ReconcileNothing, ReconcileMissing, SyncStart, Take
<1>2. CASE ReconcileNothing(n)
  BY <1>1, <1>2 DEF ReconcileNothing, clusterVars
<1>3. CASE ReconcileMissing(n)
  <2>1. worker' \in Worker /\ worker'.pc = "create"
    BY <1>3, IdleType, Zenon DEF ReconcileMissing, Worker, WorkerPc, Idle
  <2> QED BY <1>1, <1>3, <2>1 DEF ReconcileMissing, clusterVars
<1>4. CASE SyncStart(n)
  <2>1. StoreTypeOK'
    BY <1>4, HoldType, Holders DEF SyncStart, StoreTypeOK
  <2>2. budget' \in [Rare -> Nat]
    BY <1>4, SpendType DEF SyncStart, Rare
  <2>3. PodsWithBw(n) \in SUBSET Pods
    BY BandwidthAssumption DEF PodsWithBw
  <2>4. worker' \in Reconciling
    BY <1>4, <2>3, ConstantsType, ZenonT(30) DEF SyncStart, Idle, Reconciling, WorkerPc
  <2>5. worker'.obj = bwCache[n] /\ bwCache[n] # NoBandwidth
    BY <1>4, Zenon DEF SyncStart, Idle
  <2> QED
    BY <1>1, <1>4, <2>1, <2>2, <2>4, <2>5 DEF SyncStart, StoreTypeOK, Worker
<1> HIDE DEF ClientsTypeOK
<1> QED BY <1>2, <1>3, <1>4 DEF ReconcileStart

\* A step of a reconcile changes the store, the queue, the worker and the
\* budget.
LEMMA StepType ==
    ASSUME ClientsTypeOK, ReconcileStep
    PROVE  ClientsTypeOK'
<1> USE DEF ClientsTypeOK, ClusterTypeOK, OperatorTypeOK
<1> DEFINE n == worker.node
<1>0. StoreTypeOK
  BY DEF StoreTypeOK
<1>1. worker.pc # "idle"
  BY DEF ReconcileStep, SyncDelete, SyncFail, SyncCompute, SyncUpdate,
         SyncRefetch, SyncStatus, WriteRefused, WriteAccepted,
         CreateBandwidth, CreateFetch, CreateStatus
<1>2. worker \in Reconciling /\ n \in Nodes
  BY <1>1, WorkerType DEF Reconciling
<1>3. queue' \subseteq Nodes
  BY <1>2 DEF ReconcileStep, SyncDelete, SyncFail, SyncCompute, SyncUpdate,
         SyncRefetch, SyncStatus, WriteRefused, CreateBandwidth, CreateFetch,
         CreateStatus, End, Requeue
<1>4. budget' \in [Rare -> Nat]
  BY SpendType DEF ReconcileStep, SyncDelete, SyncFail, SyncCompute, SyncUpdate,
         SyncRefetch, SyncStatus, WriteRefused, CreateBandwidth, CreateFetch,
         CreateStatus, Rare
<1>5. UNCHANGED <<pods, nodes, bwCache, podCache, nodeCache, boot>>
  BY DEF ReconcileStep, SyncDelete, SyncFail, SyncCompute, SyncUpdate,
         SyncRefetch, SyncStatus, WriteRefused, CreateBandwidth, CreateFetch,
         CreateStatus
<1>6. ASSUME NEW pc \in WorkerPc \ {"idle", "listed"},
             worker' = [worker EXCEPT !.pc = pc]
      PROVE  worker' \in Worker /\ worker'.pc # "listed"
  BY <1>2, <1>6 DEF Reconciling, Worker
<1>7. End \/ Requeue => worker' \in Worker /\ worker'.pc # "listed"
  BY IdleType, Zenon DEF End, Requeue
<1>8. ASSUME Hold(n, "worker") \/ HoldCached(n, "worker") \/ LetGo(n, "worker"),
             UNCHANGED bw
      PROVE  StoreTypeOK'
  BY <1>0, <1>2, <1>8, HoldType, Holders
<1>9. UNCHANGED <<bw, current>> => StoreTypeOK'
  BY <1>0 DEF StoreTypeOK
<1>10. Exists(n) => /\ bw[n].status \in BandwidthStatus
                    /\ bw[n].capacity \in Capacity
  BY <1>2 DEF Exists, BandwidthObject
<1>11. CASE SyncDelete
  <2>1. StoreTypeOK'
    BY <1>0, <1>2, <1>8, <1>9, <1>11, StoreType DEF SyncDelete, StoreDelete
  <2> QED BY <1>3, <1>4, <1>5, <1>7, <1>11, <2>1 DEF SyncDelete, StoreTypeOK
<1>12. CASE SyncFail
  <2>1. Exists(n) => [bw[n].status EXCEPT
                        !.status = "Error",
                        !.errorReason = @ \/ worker.obj # NoBandwidth]
                       \in BandwidthStatus
    BY <1>10, Zenon DEF BandwidthStatus, Status
  <2>2. StoreTypeOK'
    BY <1>0, <1>2, <1>9, <1>12, <2>1, StoreStatusType DEF SyncFail
  <2> QED BY <1>3, <1>4, <1>5, <1>7, <1>12, <2>2 DEF SyncFail, StoreTypeOK
<1>13. CASE SyncCompute
  <2> DEFINE clean == CleanRequests(worker.obj.requests, n, worker.podsWithBw)
             cap == setDefaultBandwidthValues(worker.obj.capacity)
             changed == StatusChanged(worker.obj, clean, cap)
             done == [worker EXCEPT !.clean = clean, !.cap = cap,
                                    !.statusCap = cap, !.statusChanged = changed]
  <2>1. StoreTypeOK'
    BY <1>8, <1>9, <1>13 DEF SyncCompute
  <2>2. worker' = Idle \/ \E pc \in {"update", "status"} :
                             worker' = [done EXCEPT !.pc = pc]
    BY <1>13 DEF SyncCompute
  <2>3. worker.obj.requests \in Requests /\ worker.obj.capacity \in Capacity
    BY <1>2, <1>13 DEF SyncCompute, Reconciling, BandwidthObject
  <2>4. clean \in Requests /\ cap \in Capacity
    BY <2>3, CleanType, DefaultsType
  <2>5. changed \in BOOLEAN
    BY DEF StatusChanged
  <2> HIDE DEF clean, cap, changed
  <2>6. \A pc \in {"update", "status"} : [done EXCEPT !.pc = pc] \in Reconciling
    BY <1>2, <2>4, <2>5, Zenon DEF Reconciling, WorkerPc
  <2>7. worker' \in Worker /\ worker'.pc # "listed"
    <3>1. CASE worker' = Idle
      BY <3>1, IdleType, Zenon
    <3>2. ASSUME NEW pc \in {"update", "status"}, worker' = [done EXCEPT !.pc = pc]
          PROVE  worker' \in Worker /\ worker'.pc # "listed"
      BY <1>2, <2>6, <3>2, Zenon DEF Worker, Reconciling
    <3> QED BY <2>2, <3>1, <3>2
  <2> QED BY <1>3, <1>4, <1>5, <2>1, <2>7 DEF StoreTypeOK
<1>14. CASE SyncUpdate
  <2>1. StoreTypeOK'
    BY <1>0, <1>2, <1>14, StoreSpecType DEF SyncUpdate, WriteAccepted, Reconciling
  <2>2. worker' \in Worker /\ worker'.pc # "listed"
    BY <1>6, <1>14 DEF SyncUpdate, WorkerPc
  <2> QED BY <1>3, <1>4, <1>5, <1>14, <2>1, <2>2 DEF StoreTypeOK
<1>15. CASE SyncRefetch
  <2>1. StoreTypeOK'
    BY <1>8, <1>15 DEF SyncRefetch
  <2>2. bwCache[n] # NoBandwidth => bwCache[n].capacity \in Capacity
    BY <1>2 DEF BandwidthObject
  <2>3. worker' \in Worker /\ worker'.pc # "listed"
    BY <1>2, <1>7, <1>15, <2>2, ZenonT(30) DEF SyncRefetch, Reconciling, Worker, WorkerPc
  <2> QED BY <1>3, <1>4, <1>5, <2>1, <2>3 DEF StoreTypeOK
<1>16. CASE SyncStatus
  <2>1. Used(worker.clean) \in Capacity
    BY <1>2, UsedType DEF Reconciling
  <2>2. Remaining(worker.cap, Used(worker.clean)) \in Capacity
    BY <1>2, <2>1, RemainingType DEF Reconciling
  <2>3. [status |-> "Created", errorReason |-> FALSE,
         used |-> Used(worker.clean),
         remaining |-> Remaining(worker.cap, Used(worker.clean)),
         capacity |-> worker.statusCap,
         reservations |-> worker.clean] \in BandwidthStatus
    BY <1>2, <2>1, <2>2 DEF Reconciling, BandwidthStatus, Status
  <2>4. StoreTypeOK'
    BY <1>0, <1>2, <1>16, <2>3, StoreStatusType DEF SyncStatus, WriteAccepted
  <2> QED BY <1>3, <1>4, <1>5, <1>7, <1>16, <2>4 DEF SyncStatus, StoreTypeOK
<1>17. ASSUME NEW pc \in {"update", "status", "statusNew"}, WriteRefused(pc)
       PROVE  ClientsTypeOK'
  <2>1. StoreTypeOK'
    BY <1>8, <1>17 DEF WriteRefused
  <2> QED BY <1>3, <1>4, <1>5, <1>7, <1>17, <2>1 DEF WriteRefused, StoreTypeOK
<1>18. CASE CreateBandwidth
  <2>1. StoreTypeOK'
    BY <1>0, <1>2, <1>8, <1>9, <1>18, StoreType, ConstantsType
       DEF CreateBandwidth
  <2>2. worker' \in Worker /\ worker'.pc # "listed"
    BY <1>6, <1>7, <1>18 DEF CreateBandwidth, WorkerPc
  <2> QED BY <1>3, <1>4, <1>5, <2>1, <2>2 DEF StoreTypeOK
<1>19. CASE CreateFetch
  <2>1. StoreTypeOK'
    BY <1>8, <1>9, <1>19 DEF CreateFetch
  <2>2. worker' \in Worker /\ worker'.pc # "listed"
    BY <1>6, <1>7, <1>19 DEF CreateFetch, WorkerPc
  <2> QED BY <1>3, <1>4, <1>5, <2>1, <2>2 DEF StoreTypeOK
<1>20. CASE CreateStatus
  <2>1. Exists(n) => CreatedStatus(n) \in BandwidthStatus
    BY <1>10, Zenon DEF CreatedStatus, BandwidthStatus, Status
  <2>2. StoreTypeOK'
    BY <1>0, <1>2, <1>20, <2>1, StoreStatusType DEF CreateStatus, WriteAccepted
  <2> QED BY <1>3, <1>4, <1>5, <1>7, <1>20, <2>2 DEF CreateStatus, StoreTypeOK
<1> HIDE DEF ClientsTypeOK
<1> QED
  BY <1>11, <1>12, <1>13, <1>14, <1>15, <1>16, <1>17, <1>18, <1>19, <1>20
     DEF ReconcileStep

LEMMA InitType == ClientsInit => ClientsTypeOK
<1> SUFFICES ASSUME ClientsInit PROVE ClientsTypeOK
  OBVIOUS
<1> USE DEF ClientsInit, ClusterInit, OperatorInit
<1>1. ClusterTypeOK
  BY ClusterAssumption, Holders DEF ClusterTypeOK, Pod, Phase
<1>2. worker \in Worker /\ boot \in Boot /\ worker.pc # "listed"
  BY ClusterAssumption, IdleType, Zenon DEF Boot
<1>3. OperatorTypeOK
  BY <1>1, <1>2, Zenon DEF OperatorTypeOK, ClusterTypeOK
<1> QED BY <1>1, <1>3 DEF ClientsTypeOK

LEMMA NextType == ClientsTypeOK /\ [ClientsNext]_opVars => ClientsTypeOK'
<1> SUFFICES ASSUME ClientsTypeOK, [ClientsNext]_opVars PROVE ClientsTypeOK'
  OBVIOUS
<1>1. CASE UNCHANGED opVars
  BY <1>1 DEF opVars, clusterVars, operatorVars, ClientsTypeOK, ClusterTypeOK,
              OperatorTypeOK
<1>2. CASE ClientsNext
  BY <1>2, ClusterStepType, ClientStepType, WatchType, StartType, StepType,
     BootStepType, RestartType
     DEF ClientsNext, OperatorNext, WorkerStep
<1> QED BY <1>1, <1>2

\* TypeCorrect: every variable keeps its type; in particular the reconciler
\* never computes on an object it has not found, never goes on without a
\* node, and the bootstrap never makes more than MaxRetries attempts.
THEOREM TypeCorrect == ClientsSpec => []ClientsTypeOK
  BY InitType, NextType, PTL DEF ClientsSpec

-----------------------------------------------------------------------------
(* OperatorInv is inductive.                                               *)

\* What it depends on.
invVars == <<bw, bwCache, nodeCache, queue, worker>>

\* A step that only moves copies the invariant does not speak of.
LEMMA KeepInv ==
    ASSUME ClientsTypeOK, OperatorInv, UNCHANGED invVars,
           \A n \in Nodes : \A h \in {"cache", "worker"} :
              h \in current'[n] <=> h \in current[n]
    PROVE  OperatorInv'
<1> USE DEF OperatorInv, invVars, ClientsTypeOK, OperatorTypeOK
<1>1. CacheInv'
  BY DEF CacheInv
<1>2. WorkerInv'
  <2>1. worker.pc # "idle" => worker.node \in Nodes
    BY WorkerType DEF Reconciling
  <2> QED BY <2>1 DEF WorkerInv
<1>3. SettledAccounting'
  BY DEF SettledAccounting, Settled, Exists, Accounted
<1> QED BY <1>1, <1>2, <1>3

\* A write by anyone but the worker: every copy becomes old.
LEMMA WriteInv ==
    ASSUME ClientsTypeOK, OperatorInv, NEW n \in Nodes, NEW obj, Store(n, obj),
           UNCHANGED <<bwCache, nodeCache, queue, worker>>
    PROVE  OperatorInv'
<1> USE DEF OperatorInv, ClientsTypeOK, ClusterTypeOK, OperatorTypeOK
<1>1. /\ current'[n] = {}
      /\ \A m \in Nodes \ {n} : current'[m] = current[m] /\ bw'[m] = bw[m]
  BY DEF Store
<1>2. CacheInv'
  BY <1>1 DEF CacheInv
<1>3. WorkerInv'
  <2>1. worker.pc # "idle" => worker.node \in Nodes
    BY WorkerType DEF Reconciling
  <2> QED BY <1>1, <2>1 DEF WorkerInv
<1>4. SettledAccounting'
  BY <1>1, ZenonT(30) DEF SettledAccounting, Settled, Exists, Accounted
<1> QED BY <1>2, <1>3, <1>4

LEMMA WriteSpecInv ==
    ASSUME ClientsTypeOK, OperatorInv, NEW n \in Nodes, NEW reqs, NEW cap,
           StoreSpec(n, reqs, cap),
           UNCHANGED <<bwCache, nodeCache, queue, worker>>
    PROVE  OperatorInv'
  BY WriteInv, KeepInv DEF StoreSpec, invVars

LEMMA EnvironmentInv ==
    ASSUME ClientsTypeOK, OperatorInv,
           \/ ClusterNext /\ UNCHANGED operatorVars
           \/ ClientWrite
           \/ ClientFails
    PROVE  OperatorInv'
<1>1. UNCHANGED <<bwCache, nodeCache, queue, worker>>
  BY DEF operatorVars, ClientWrite, ClientRequest, ClientRelease, ClientBind,
         ClientFails
<1>2. \/ UNCHANGED <<bw, current>>
      \/ \E n \in Nodes : \E reqs, cap : StoreSpec(n, reqs, cap)
  BY DEF ClusterNext, CreatePod, RunPod, FinishPod, DeletePod, RemovePod,
         JoinNode, LeaveNode, EditCapacity, ClientWrite, ClientRequest,
         ClientRelease, ClientBind, ClientFails
<1> QED BY <1>1, <1>2, KeepInv, WriteSpecInv DEF invVars

LEMMA BootInv ==
    ASSUME ClientsTypeOK, OperatorInv, BootStep
    PROVE  OperatorInv'
<1>1. UNCHANGED <<bwCache, nodeCache, queue, worker>>
  BY Zenon DEF BootStep, BootGet, BootCreate, BootFetch, BootStatus
<1>2. boot.pc # "next" => boot.node \in Nodes
  BY BootType DEF ClientsTypeOK, OperatorTypeOK, Creating
<1>3. \/ UNCHANGED <<bw, current>>
      \/ \E obj : boot.node \in Nodes /\ Store(boot.node, obj)
      \/ /\ HoldCached(boot.node, "boot") \/ LetGo(boot.node, "boot")
         /\ UNCHANGED bw
  BY <1>2, Zenon DEF BootStep, BootGet, BootCreate, BootFetch, BootStatus, clusterVars,
              StoreStatus
<1>4. ASSUME HoldCached(boot.node, "boot") \/ LetGo(boot.node, "boot"),
             UNCHANGED bw
      PROVE  OperatorInv'
  <2>1. \A n \in Nodes : \A h \in {"cache", "worker"} :
            h \in current'[n] <=> h \in current[n]
    BY <1>4, ZenonT(30) DEF HoldCached, LetGo, ClientsTypeOK, ClusterTypeOK
  <2> QED BY <1>1, <1>4, <2>1, KeepInv DEF invVars
<1> QED BY <1>1, <1>3, <1>4, KeepInv, WriteInv DEF invVars

LEMMA WatchInv ==
    ASSUME ClientsTypeOK, OperatorInv, Watch
    PROVE  OperatorInv'
<1> USE DEF OperatorInv, ClientsTypeOK, ClusterTypeOK, OperatorTypeOK
<1>0. worker.pc # "idle" => worker.node \in Nodes
  BY WorkerType DEF Reconciling
<1>1. ASSUME NEW n \in Nodes, WatchBandwidth(n)
      PROVE  OperatorInv'
  <2>1. /\ current'[n] = current[n] \cup {"cache"} /\ bwCache'[n] = bw[n]
        /\ n \in queue' /\ queue \subseteq queue'
        /\ \A m \in Nodes \ {n} : /\ current'[m] = current[m]
                                  /\ bwCache'[m] = bwCache[m]
                                  /\ m \in queue' <=> m \in queue
        /\ UNCHANGED <<bw, worker, nodeCache>>
    BY <1>1 DEF WatchBandwidth, Hold
  <2>2. CacheInv'
    BY <2>1 DEF CacheInv
  <2>3. WorkerInv'
    BY <1>0, <2>1 DEF WorkerInv
  <2>4. SettledAccounting'
    BY <2>1 DEF SettledAccounting, Settled, Exists, Accounted
  <2> QED BY <2>2, <2>3, <2>4
<1>2. ASSUME NEW n \in Nodes, WatchNode(n)
      PROVE  OperatorInv'
  <2>1. /\ n \in queue' /\ queue \subseteq queue'
        /\ nodeCache' \ {n} = nodeCache \ {n}
        /\ UNCHANGED <<bw, current, worker, bwCache>>
    BY <1>2 DEF WatchNode, clusterVars
  <2>2. CacheInv'
    BY <2>1 DEF CacheInv
  <2>3. WorkerInv'
    BY <1>0, <2>1 DEF WorkerInv
  <2>4. SettledAccounting'
    BY <2>1 DEF SettledAccounting, Settled, Exists, Accounted
  <2> QED BY <2>2, <2>3, <2>4
<1>3. ASSUME queue \subseteq queue',
             UNCHANGED <<bw, current, worker, bwCache, nodeCache>>
      PROVE  OperatorInv'
  <2>1. CacheInv'
    BY <1>3 DEF CacheInv
  <2>2. WorkerInv'
    BY <1>0, <1>3 DEF WorkerInv
  <2>3. SettledAccounting'
    BY <1>3 DEF SettledAccounting, Settled, Exists, Accounted
  <2> QED BY <2>1, <2>2, <2>3
<1> HIDE DEF OperatorInv
<1> QED
  BY <1>1, <1>2, <1>3 DEF Watch, NodeHeartbeat, WatchPod, clusterVars

LEMMA RestartInv ==
    ASSUME ClientsTypeOK, OperatorInv, OperatorRestart
    PROVE  OperatorInv'
<1> USE DEF OperatorRestart, ClientsTypeOK, ClusterTypeOK
<1>1. CacheInv'
  BY DEF CacheInv
<1>2. WorkerInv'
  BY IdleType, Zenon DEF WorkerInv
<1>3. SettledAccounting'
  BY DEF SettledAccounting, Settled
<1> QED BY <1>1, <1>2, <1>3 DEF OperatorInv

LEMMA StartInv ==
    ASSUME ClientsTypeOK, OperatorInv, NEW n \in Nodes, ReconcileStart(n)
    PROVE  OperatorInv'
<1> USE DEF OperatorInv, ClientsTypeOK, ClusterTypeOK, OperatorTypeOK
<1>0. /\ worker = Idle /\ n \in queue /\ queue' = queue \ {n}
      /\ UNCHANGED <<bw, bwCache, nodeCache>>
  BY DEF ReconcileStart, ReconcileNothing, ReconcileMissing, SyncStart, Take,
         Worker, Reconciling, clusterVars
<1>1. CASE ReconcileNothing(n)
  <2>1. UNCHANGED <<current, worker>>
    BY <1>1 DEF ReconcileNothing, clusterVars
  <2>2. CacheInv' /\ WorkerInv'
    BY <1>0, <2>1, IdleType, Zenon DEF CacheInv, WorkerInv
  <2>3. n \in nodeCache /\ "cache" \in current[n] =>
            Exists(n) /\ bw[n].status.status = "Error"
    BY <1>1 DEF ReconcileNothing, CacheInv, Exists
  <2>4. SettledAccounting'
    BY <1>0, <2>1, <2>3, IdleType, Zenon
       DEF SettledAccounting, Settled, Exists, Accounted
  <2> QED BY <2>2, <2>4
<1>2. CASE ReconcileMissing(n)
  <2>1. UNCHANGED current /\ worker'.pc = "create" /\ worker'.node = n
    BY <1>2 DEF ReconcileMissing, clusterVars, Idle
  <2>2. CacheInv' /\ WorkerInv'
    BY <1>0, <2>1 DEF CacheInv, WorkerInv
  <2>3. SettledAccounting'
    BY <1>0, <2>1, IdleType, BandwidthAssumption, Zenon
       DEF SettledAccounting, Settled, Exists, Accounted
  <2> QED BY <2>2, <2>3
<1>3. CASE SyncStart(n)
  <2>1. /\ worker'.node = n /\ worker'.obj = bwCache[n]
        /\ bwCache[n] # NoBandwidth
        /\ worker'.pc \in {"delete", "listed", "fail"}
        /\ worker'.pc = "delete" => n \notin nodeCache
    BY <1>3, ZenonT(30) DEF SyncStart, Idle
  <2>2. /\ "cache" \in current'[n] <=> "cache" \in current[n]
        /\ "worker" \in current'[n] <=> "cache" \in current[n]
        /\ \A m \in Nodes \ {n} : current'[m] = current[m]
    BY <1>3 DEF SyncStart, HoldCached
  <2>3. CacheInv'
    BY <1>0, <2>2 DEF CacheInv
  <2>4. WorkerInv'
    BY <1>0, <2>1, <2>2 DEF WorkerInv, CacheInv
  <2>5. SettledAccounting'
    <3>1. ASSUME NEW m \in nodeCache, Settled(m)' PROVE m \in Nodes \ {n} /\ Settled(m)
      <4>1. m \in Nodes \ {n}
        BY <2>1, <3>1 DEF Settled
      <4>2. m \notin queue /\ "cache" \in current[m]
        BY <1>0, <2>2, <3>1, <4>1 DEF Settled
      <4>3. worker.node # m
        BY <1>0, <4>1, IdleType, BandwidthAssumption, ZenonT(30)
      <4> QED BY <4>1, <4>2, <4>3 DEF Settled
    <3>2. \A m \in Nodes : (Exists(m)' <=> Exists(m)) /\ (Accounted(m)' <=> Accounted(m))
      BY <1>0 DEF Exists, Accounted
    <3>3. bw' = bw /\ nodeCache' = nodeCache
      BY <1>0
    <3> QED BY <3>1, <3>2, <3>3 DEF SettledAccounting
  <2> QED BY <2>3, <2>4, <2>5
<1> QED BY <1>1, <1>2, <1>3 DEF ReconcileStart

\* A step of a reconcile touches the object, the holders and the queue entry
\* of its own node only, and leaves the cache current only if it leaves the
\* object as it is.
LEMMA StepFrame ==
    ASSUME ClientsTypeOK, ReconcileStep, NEW n, n = worker.node
    PROVE  /\ n \in Nodes /\ n # NoNode
           /\ UNCHANGED <<bwCache, nodeCache>>
           /\ \A m \in Nodes \ {n} : /\ current'[m] = current[m]
                                     /\ bw'[m] = bw[m]
                                     /\ m \in queue' <=> m \in queue
           /\ "cache" \in current'[n] => /\ "cache" \in current[n]
                                         /\ bw'[n] = bw[n]
           /\ worker' = Idle \/ worker'.node = n
<1> USE DEF ClientsTypeOK, ClusterTypeOK, OperatorTypeOK
<1>1. worker.pc # "idle"
  BY DEF ReconcileStep, SyncDelete, SyncFail, SyncCompute, SyncUpdate,
         SyncRefetch, SyncStatus, WriteRefused, WriteAccepted,
         CreateBandwidth, CreateFetch, CreateStatus
<1>2. worker \in Reconciling /\ n \in Nodes /\ n # NoNode
  BY <1>1, WorkerType, BandwidthAssumption DEF Reconciling
<1>3. \/ UNCHANGED <<bw, current>>
      \/ \E obj : Store(n, obj)
      \/ (HoldCached(n, "worker") \/ LetGo(n, "worker")) /\ UNCHANGED bw
  BY DEF ReconcileStep, SyncDelete, StoreDelete, SyncFail, StoreStatus,
         SyncCompute, SyncUpdate, StoreSpec, SyncRefetch, SyncStatus,
         WriteRefused, CreateBandwidth, CreateFetch, CreateStatus
<1>4. UNCHANGED queue \/ queue' = queue \cup {n}
  BY DEF ReconcileStep, SyncDelete, SyncFail, SyncCompute, SyncUpdate,
         SyncRefetch, SyncStatus, WriteRefused, CreateBandwidth, CreateFetch,
         CreateStatus, End, Requeue
<1>5. UNCHANGED <<bwCache, nodeCache>>
  BY DEF ReconcileStep, SyncDelete, SyncFail, SyncCompute, SyncUpdate,
         SyncRefetch, SyncStatus, WriteRefused, CreateBandwidth, CreateFetch,
         CreateStatus
<1>6. worker' = Idle \/ worker'.node = n
  BY <1>2, Zenon DEF ReconcileStep, SyncDelete, SyncFail, SyncCompute, SyncUpdate,
         SyncRefetch, SyncStatus, WriteRefused, CreateBandwidth, CreateFetch,
         CreateStatus, End, Requeue, Reconciling
<1>7. \A m \in Nodes \ {n} : current'[m] = current[m] /\ bw'[m] = bw[m]
  BY <1>3 DEF Store, HoldCached, LetGo
<1>8. "cache" \in current'[n] => "cache" \in current[n] /\ bw'[n] = bw[n]
  BY <1>2, <1>3 DEF Store, HoldCached, LetGo
<1> QED BY <1>2, <1>4, <1>5, <1>6, <1>7, <1>8

\* Such a step keeps the invariant if it is not the last of its reconcile, or
\* leaves the node queued, or leaves it accounted for.
LEMMA StepKeepsInv ==
    ASSUME ClientsTypeOK, OperatorInv, ReconcileStep, NEW n, n = worker.node,
           WorkerInv',
           \/ worker'.node = n
           \/ n \in queue'
           \/ n \in nodeCache /\ "cache" \in current'[n] =>
                 (Exists(n) /\ (bw[n].status.status # "Error" => Accounted(n)))'
    PROVE  OperatorInv'
<1>1. CacheInv'
  BY StepFrame DEF CacheInv, OperatorInv
<1>2. ASSUME NEW m \in nodeCache', Settled(m)'
      PROVE  (Exists(m) /\ (bw[m].status.status # "Error" => Accounted(m)))'
  <2>1. CASE m = n
    BY <1>2, <2>1, StepFrame DEF Settled
  <2>2. CASE m # n
    <3>1. m \in nodeCache /\ m \in Nodes
      BY <1>2, StepFrame, Zenon DEF ClientsTypeOK, OperatorTypeOK
    <3>2. Settled(m)
      BY <1>2, <2>2, <3>1, StepFrame DEF Settled
    <3>3. bw'[m] = bw[m]
      BY <2>2, <3>1, StepFrame
    <3>4. Exists(m) /\ (bw[m].status.status # "Error" => Accounted(m))
      BY <3>1, <3>2 DEF OperatorInv, SettledAccounting
    <3> QED BY <3>3, <3>4 DEF Exists, Accounted
  <2> QED BY <2>1, <2>2
<1>3. SettledAccounting'
  BY <1>2 DEF SettledAccounting
<1> QED BY <1>1, <1>3 DEF OperatorInv

LEMMA StepInv ==
    ASSUME ClientsTypeOK, OperatorInv, ReconcileStep
    PROVE  OperatorInv'
<1> PICK n : n = worker.node
  OBVIOUS
<1>0. WorkerInv /\ CacheInv /\ n \in Nodes
  BY StepFrame DEF OperatorInv
<1>1. Idle.pc = "idle"
  BY IdleType, Zenon
<1>2. worker' = Idle => WorkerInv'
  BY <1>1 DEF WorkerInv
<1>3. ASSUME worker'.pc \in {"fetchNew", "statusNew", "fail", "status"}
      PROVE  WorkerInv'
  BY <1>3 DEF WorkerInv
<1>4. ASSUME Requeue PROVE OperatorInv'
  <2>1. worker' = Idle /\ n \in queue'
    BY <1>4 DEF Requeue
  <2> QED BY <1>2, <2>1, StepKeepsInv
<1>5. CASE SyncDelete
  <2>1. worker' = Idle /\ queue' = queue /\ (n \notin nodeCache \/ n \in queue)
    BY <1>0, <1>5 DEF SyncDelete, End, WorkerInv
  <2> QED BY <1>2, <2>1, StepKeepsInv
<1>6. CASE SyncCompute
  <2> DEFINE obj == worker.obj
             clean == CleanRequests(obj.requests, n, worker.podsWithBw)
             cap == setDefaultBandwidthValues(obj.capacity)
  <2>0. worker \in Reconciling /\ worker.pc = "listed"
    BY <1>6, WorkerType DEF SyncCompute, ClientsTypeOK, OperatorTypeOK
  <2>1. CASE /\ SpecChanged(obj, clean, cap)
             /\ worker' = [[worker EXCEPT
                              !.clean = clean, !.cap = cap, !.statusCap = cap,
                              !.statusChanged = StatusChanged(obj, clean, cap)]
                            EXCEPT !.pc = "update"]
             /\ UNCHANGED current
    <3>1. UNCHANGED <<bw, queue>>
      BY <1>6 DEF SyncCompute
    <3> HIDE DEF clean, cap
    <3>2. /\ worker'.pc = "update" /\ worker'.node = n /\ worker'.obj = obj
          /\ worker'.clean = clean /\ worker'.cap = cap
          /\ worker'.statusChanged = StatusChanged(obj, clean, cap)
      BY <2>0, <2>1 DEF Reconciling
    <3>3. WorkerInv'
      BY <1>0, <2>0, <2>1, <3>1, <3>2 DEF WorkerInv
    <3> QED BY <3>2, <3>3, StepKeepsInv
  <2>2. CASE worker'.pc = "status" /\ worker'.node = n
    BY <1>3, <2>2, StepKeepsInv
  <2>3. CASE /\ ~SpecChanged(obj, clean, cap) /\ ~StatusChanged(obj, clean, cap)
             /\ worker' = Idle /\ UNCHANGED <<bw, queue>>
    <3>1. ASSUME "cache" \in current'[n], n \notin queue
          PROVE  (Exists(n) /\ (bw[n].status.status # "Error" => Accounted(n)))'
      <4>1. obj = bw[n] /\ obj # NoBandwidth
        BY <1>0, <2>0, <3>1, StepFrame DEF WorkerInv
      <4> HIDE DEF clean, cap, obj
      <4>2. /\ clean = obj.requests /\ cap = obj.status.capacity
            /\ obj.status.used = Used(clean)
            /\ obj.status.remaining = Remaining(cap, Used(clean))
            /\ obj.status.status = "Created"
            /\ Cardinality(Entries(obj.status.reservations)) =
                 Cardinality(Entries(clean))
        BY <2>3 DEF SpecChanged, StatusChanged
      <4>3. cap = setDefaultBandwidthValues(obj.capacity)
        BY DEF cap
      <4> QED BY <2>3, <4>1, <4>2, <4>3 DEF Exists, Accounted
    <3> QED BY <1>2, <2>3, <3>1, StepKeepsInv
  <2> QED BY <1>6, <2>0, <2>1, <2>2, <2>3, Zenon DEF SyncCompute, Reconciling
<1>7. CASE SyncUpdate
  <2>0. worker \in Reconciling
    BY <1>7, WorkerType
       DEF SyncUpdate, WriteAccepted, ClientsTypeOK, OperatorTypeOK
  <2>1. worker'.pc = "refetch" /\ worker'.node = n
        /\ worker'.statusChanged = worker.statusChanged
    BY <1>7, <2>0 DEF SyncUpdate, Reconciling
  <2>2. worker.obj = bw[n] /\ bw[n] \in BandwidthObject
    BY <1>0, <1>7
       DEF SyncUpdate, WriteAccepted, WorkerInv, Exists, ClientsTypeOK,
           ClusterTypeOK
  <2>3. CASE bw[n] = [bw[n] EXCEPT !.requests = worker.clean,
                                   !.capacity = worker.cap]
    <3>1. worker.clean = bw[n].requests
      BY <2>2, <2>3, Zenon DEF BandwidthObject
    <3>2. worker.cap # worker.obj.status.capacity
      BY <1>0, <1>7, <2>2, <3>1
         DEF SyncUpdate, WriteAccepted, WorkerInv, SpecChanged
    <3>3. worker.statusChanged
      BY <1>0, <1>7, <3>2, Zenon
         DEF SyncUpdate, WriteAccepted, WorkerInv, StatusChanged
    <3> QED BY <2>1, <3>3, StepKeepsInv DEF WorkerInv
  <2>4. CASE current'[n] = {}
    BY <2>1, <2>4, StepKeepsInv DEF WorkerInv
  <2>5. bw[n] = [bw[n] EXCEPT !.requests = worker.clean,
                              !.capacity = worker.cap]
        \/ current'[n] = {}
    BY <1>0, <1>7
       DEF SyncUpdate, StoreSpec, Store, ClientsTypeOK, ClusterTypeOK
  <2> QED BY <2>3, <2>4, <2>5
<1>8. CASE SyncRefetch
  <2>0. worker \in Reconciling
    BY <1>8, WorkerType DEF SyncRefetch, ClientsTypeOK, OperatorTypeOK
  <2>1. CASE End /\ ~worker.statusChanged
    <3>1. "cache" \notin current[n] \/ n \in queue
      BY <1>0, <1>8, <2>1 DEF SyncRefetch, WorkerInv
    <3> QED BY <1>2, <2>1, <3>1, StepFrame, StepKeepsInv DEF End
  <2>2. CASE worker' = [worker EXCEPT !.pc = "status",
                                      !.statusCap = bwCache[n].capacity]
    <3>1. worker'.pc = "status" /\ worker'.node = n
      BY <2>0, <2>2 DEF Reconciling
    <3> QED BY <1>3, <3>1, StepKeepsInv
  <2> QED BY <1>4, <1>8, <2>1, <2>2 DEF SyncRefetch
<1>9. CASE SyncStatus
  <2>1. worker' = Idle /\ current'[n] = {}
    BY <1>0, <1>9
       DEF SyncStatus, StoreStatus, Store, End, ClientsTypeOK, ClusterTypeOK
  <2> QED BY <1>2, <2>1, StepKeepsInv
<1>10. CASE CreateBandwidth
  <2>0. worker \in Reconciling
    BY <1>10, WorkerType DEF CreateBandwidth, ClientsTypeOK, OperatorTypeOK
  <2>1. ASSUME NEW pc \in {"fetchNew", "fail"},
               worker' = [worker EXCEPT !.pc = pc]
        PROVE  OperatorInv'
    <3>1. worker'.pc = pc /\ worker'.node = n
      BY <2>0, <2>1 DEF Reconciling
    <3> QED BY <1>3, <3>1, StepKeepsInv
  <2> QED BY <1>4, <1>10, <2>1 DEF CreateBandwidth
<1>11. CASE CreateFetch
  <2>0. worker \in Reconciling
    BY <1>11, WorkerType DEF CreateFetch, ClientsTypeOK, OperatorTypeOK
  <2>1. CASE worker' = [worker EXCEPT !.pc = "statusNew"]
    <3>1. worker'.pc = "statusNew" /\ worker'.node = n
      BY <2>0, <2>1 DEF Reconciling
    <3> QED BY <1>3, <3>1, StepKeepsInv
  <2> QED BY <1>4, <1>11, <2>1 DEF CreateFetch
<1> QED
  BY <1>4, <1>5, <1>6, <1>7, <1>8, <1>9, <1>10, <1>11
     DEF ReconcileStep, SyncFail, WriteRefused, CreateStatus

LEMMA InitInv == ClientsInit => OperatorInv
<1> SUFFICES ASSUME ClientsInit PROVE OperatorInv
  OBVIOUS
<1> USE DEF ClientsInit, ClusterInit, OperatorInit
<1>1. CacheInv
  BY DEF CacheInv
<1>2. WorkerInv
  BY IdleType, Zenon DEF WorkerInv
<1>3. SettledAccounting
  BY DEF SettledAccounting, Settled
<1> QED BY <1>1, <1>2, <1>3 DEF OperatorInv

LEMMA NextInv ==
    ClientsTypeOK /\ OperatorInv /\ [ClientsNext]_opVars => OperatorInv'
<1> SUFFICES ASSUME ClientsTypeOK, OperatorInv, [ClientsNext]_opVars
             PROVE  OperatorInv'
  OBVIOUS
<1>1. CASE UNCHANGED opVars
  BY <1>1, KeepInv DEF opVars, clusterVars, operatorVars, invVars
<1>2. CASE ClientsNext
  BY <1>2, EnvironmentInv, WatchInv, StartInv, StepInv, BootInv, RestartInv
     DEF ClientsNext, OperatorNext, WorkerStep
<1> QED BY <1>1, <1>2

\* OperatorCorrect: OperatorInv holds in every state the operator can reach
\* among clients that reserve, release and bind as they like, with failing
\* requests, edits, restarts, and nodes that come and go.
THEOREM OperatorCorrect == ClientsSpec => []OperatorInv
  BY InitType, NextType, InitInv, NextInv, PTL DEF ClientsSpec

\* AccountingCorrect: whenever SyncFromSpecAndPods has nothing more to do for a
\* known node, the status it published is the account of the stored requests
\* and capacity: for any number of nodes, pods, clients, failures and restarts.
THEOREM AccountingCorrect == ClientsSpec => []SettledAccounting
<1>1. OperatorInv => SettledAccounting
  BY DEF OperatorInv
<1> QED BY <1>1, OperatorCorrect, PTL

\* NothingUnreadDropped: an Update of SyncFromSpecAndPods that is accepted drops
\* no request the reconcile had not read.  The version it sends is checked, and
\* by WorkerInv a copy of the stored version is the stored object.
THEOREM NothingUnreadDropped == ClientsSpec => NoUnreadDrop
<1>1. ASSUME ClientsTypeOK, OperatorInv, [ClientsNext]_opVars,
             NEW n \in Nodes, worker.pc = "update", worker.node = n,
             worker'.pc = "refetch"
      PROVE  Entries(bw[n].requests) \subseteq Entries(worker.obj.requests)
  <2>1. SyncUpdate
    <3>1. worker' # worker
      BY <1>1
    <3>2. WorkerStep
      BY <1>1, <3>1, IdleType, Zenon
         DEF opVars, clusterVars, operatorVars, ClientsNext, ClusterNext,
             OperatorNext, Watch, WatchBandwidth, WatchNode, NodeHeartbeat,
             WatchPod, BootStep, BootGet, BootCreate, BootFetch, BootStatus,
             OperatorRestart, ClientWrite, ClientRequest, ClientRelease,
             ClientBind, ClientFails
    <3>3. ReconcileStep
      BY <1>1, <3>2
         DEF WorkerStep, ReconcileStart, ReconcileNothing, ReconcileMissing,
             SyncStart, Take
    <3>4. ~Requeue
      BY <1>1, IdleType, Zenon DEF Requeue
    <3> QED
      BY <1>1, <3>3, <3>4
         DEF ReconcileStep, SyncDelete, SyncFail, SyncCompute, SyncRefetch,
             SyncStatus, WriteAccepted, WriteRefused, CreateBandwidth,
             CreateFetch, CreateStatus
  <2>2. worker.obj = bw[n]
    BY <1>1, <2>1 DEF SyncUpdate, WriteAccepted, OperatorInv, WorkerInv
  <2> QED BY <2>2
<1>2. ClientsTypeOK /\ OperatorInv /\ [ClientsNext]_opVars
        => [\A n \in Nodes :
              (worker.pc = "update" /\ worker.node = n /\ worker'.pc = "refetch")
                => Entries(bw[n].requests)
                     \subseteq Entries(worker.obj.requests)]_<<bw, worker>>
  BY <1>1
<1> QED BY <1>2, TypeCorrect, OperatorCorrect, PTL DEF ClientsSpec, NoUnreadDrop

-----------------------------------------------------------------------------
(* How a reconcile ends.                                                   *)

\* A step of a reconcile that is its last leaves the node queued or its cache
\* behind, found nothing to change in the object it read, or was a delete.
LEMMA StepEnd ==
    ASSUME ClientsTypeOK, OperatorInv, ReconcileStep, NEW n, n = worker.node
    PROVE  \/ worker'.node = n
           \/ n \in queue'
           \/ "cache" \notin current'[n]
           \/ /\ worker.pc = "listed" /\ UNCHANGED <<bw, queue>>
              /\ CleanRequests(bw[n].requests, n, worker.podsWithBw)
                   = bw[n].requests
           \/ /\ worker.pc = "delete" /\ n \notin nodeCache
              /\ bw'[n] = NoBandwidth \/ Spend("fault")
<1>0. WorkerInv /\ CacheInv /\ n \in Nodes
  BY StepFrame DEF OperatorInv
<1>1. worker \in Worker /\ current \in [Nodes -> SUBSET Holder]
         /\ bw \in [Nodes -> BandwidthObject \cup {NoBandwidth}]
  BY DEF ClientsTypeOK, OperatorTypeOK, ClusterTypeOK
<1>2. Requeue => n \in queue'
  BY DEF Requeue
<1>3. worker.pc # "idle" => worker \in Reconciling
  BY <1>1, WorkerType
<1>4. CASE SyncDelete
  <2>1. n \notin nodeCache \/ n \in queue
    BY <1>0, <1>4 DEF SyncDelete, WorkerInv
  <2>2. bw'[n] = NoBandwidth \/ Spend("fault")
    BY <1>0, <1>1, <1>4 DEF SyncDelete, StoreDelete, Store, Exists
  <2>3. UNCHANGED queue /\ worker.pc = "delete"
    BY <1>4 DEF SyncDelete, End
  <2> QED BY <2>1, <2>2, <2>3
<1>5. CASE SyncCompute
  <2> DEFINE obj == worker.obj
             clean == CleanRequests(obj.requests, n, worker.podsWithBw)
             cap == setDefaultBandwidthValues(obj.capacity)
  <2>1. worker \in Reconciling /\ worker.pc = "listed" /\ UNCHANGED <<bw, queue>>
    BY <1>3, <1>5 DEF SyncCompute
  <2>2. worker'.node = n \/ ~SpecChanged(obj, clean, cap)
    <3> HIDE DEF clean, cap
    <3>1. ~SpecChanged(obj, clean, cap) \/
          worker' = [[worker EXCEPT
                        !.clean = clean, !.cap = cap, !.statusCap = cap,
                        !.statusChanged = StatusChanged(obj, clean, cap)]
                      EXCEPT !.pc = "update"]
      BY <1>5 DEF SyncCompute, clean, cap
    <3> QED BY <2>1, <3>1, Zenon DEF Reconciling
  <2>3. CASE /\ ~SpecChanged(obj, clean, cap)
             /\ n \notin queue' /\ "cache" \in current'[n]
    <3>1. obj = bw[n]
      BY <1>0, <2>1, <2>3, StepFrame DEF WorkerInv
    <3>2. clean = obj.requests
      BY <2>3 DEF SpecChanged
    <3> QED BY <2>1, <3>1, <3>2
  <2> QED BY <2>2, <2>3
<1>6. CASE SyncUpdate
  BY <1>3, <1>6 DEF SyncUpdate, WriteAccepted, Reconciling
<1>7. CASE SyncRefetch
  <2>1. worker \in Reconciling
    BY <1>3, <1>7 DEF SyncRefetch
  <2>2. CASE End /\ ~worker.statusChanged
    BY <1>0, <1>7, <2>2, StepFrame DEF SyncRefetch, WorkerInv, End
  <2>3. CASE worker' = [worker EXCEPT !.pc = "status",
                                      !.statusCap = bwCache[n].capacity]
    BY <2>1, <2>3 DEF Reconciling
  <2> QED BY <1>2, <1>7, <2>2, <2>3 DEF SyncRefetch
<1>8. CASE SyncStatus
  BY <1>0, <1>1, <1>8 DEF SyncStatus, StoreStatus, Store
<1>9. CASE SyncFail \/ CreateStatus \/ \E pc \in {"update", "status", "statusNew"} :
                                          WriteRefused(pc)
  BY <1>2, <1>9 DEF SyncFail, CreateStatus, WriteRefused
<1>10. CASE CreateBandwidth \/ CreateFetch
  <2>1. worker \in Reconciling
    BY <1>3, <1>10 DEF CreateBandwidth, CreateFetch
  <2> QED BY <1>2, <1>10, <2>1 DEF CreateBandwidth, CreateFetch, Reconciling
<1> QED
  BY <1>4, <1>5, <1>6, <1>7, <1>8, <1>9, <1>10, ZenonT(30) DEF ReconcileStep

\* Only the start of a reconcile leads to its list of pods.
LEMMA StepUnlists ==
    ASSUME ClientsTypeOK, ReconcileStep
    PROVE  worker'.pc # "listed" /\ UNCHANGED <<podCache, nodeCache>>
<1>1. worker.pc # "idle" => worker \in Reconciling
  BY WorkerType DEF ClientsTypeOK, OperatorTypeOK
<1>2. Idle.pc # "listed"
  BY IdleType, Zenon
<1>3. CASE SyncCompute
  <2> DEFINE clean == CleanRequests(worker.obj.requests, worker.node,
                                    worker.podsWithBw)
             cap == setDefaultBandwidthValues(worker.obj.capacity)
             changed == StatusChanged(worker.obj, clean, cap)
             done == [worker EXCEPT !.clean = clean, !.cap = cap,
                                    !.statusCap = cap, !.statusChanged = changed]
  <2>1. worker' = Idle \/ \E pc \in {"update", "status"} :
                             worker' = [done EXCEPT !.pc = pc]
    BY <1>3 DEF SyncCompute
  <2> HIDE DEF clean, cap, changed
  <2>2. worker \in Reconciling
    BY <1>1, <1>3 DEF SyncCompute
  <2>3. worker'.pc # "listed"
    BY <1>2, <2>1, <2>2, Zenon DEF Reconciling
  <2> QED BY <1>3, <2>3 DEF SyncCompute
<1>4. CASE SyncUpdate \/ SyncRefetch \/ CreateBandwidth \/ CreateFetch
  <2>1. worker \in Reconciling
    BY <1>1, <1>4
       DEF SyncUpdate, WriteAccepted, SyncRefetch, CreateBandwidth, CreateFetch
  <2> QED
    BY <1>2, <1>4, <2>1, Zenon
       DEF SyncUpdate, SyncRefetch, CreateBandwidth, CreateFetch, End, Requeue,
           Reconciling
<1>5. CASE \/ SyncDelete \/ SyncFail \/ SyncStatus \/ CreateStatus
           \/ \E pc \in {"update", "status", "statusNew"} : WriteRefused(pc)
  BY <1>2, <1>5
     DEF SyncDelete, SyncFail, SyncStatus, CreateStatus, WriteRefused, End, Requeue
<1> QED BY <1>3, <1>4, <1>5 DEF ReconcileStep

-----------------------------------------------------------------------------
(* Released requests.                                                      *)

Ended(pod) == pod.phase \in {"Done", "Gone"}

\* ReleaseInv: SettledRelease without its premise that the caches are fresh,
\* and why it is kept: a pod that was listed as live and is seen to end before
\* its request is examined has queued the node again.
ReleaseInv ==
    /\ \A n \in nodeCache, p \in Pods :
          /\ Settled(n) /\ Exists(n) /\ bw[n].status.status # "Error"
          /\ podCache[p].node = n /\ Ended(podCache[p])
          => bw[n].requests[p] = NoRequest
    /\ worker.pc = "listed" =>
          \A p \in worker.podsWithBw :
             podCache[p].node = worker.node /\ Ended(podCache[p])
                => worker.node \in queue

\* What anyone but the worker and the watches does to the store: a cache that
\* is still current after it was before, and the object is the same.
Outside ==
    /\ UNCHANGED <<bwCache, podCache, nodeCache, queue, worker>>
    /\ \A n \in Nodes : "cache" \in current'[n] => /\ "cache" \in current[n]
                                                   /\ bw'[n] = bw[n]

LEMMA OutsideStep ==
    ASSUME ClientsTypeOK,
           \/ ClusterNext /\ UNCHANGED operatorVars
           \/ ClientWrite
           \/ ClientFails
           \/ BootStep
    PROVE  Outside
<1>1. UNCHANGED <<bwCache, podCache, nodeCache, queue, worker>>
  BY Zenon DEF operatorVars, ClientWrite, ClientRequest, ClientRelease, ClientBind,
         ClientFails, BootStep, BootGet, BootCreate, BootFetch, BootStatus
<1>2. boot.pc # "next" => boot.node \in Nodes
  BY BootType DEF ClientsTypeOK, OperatorTypeOK, Creating
<1>3. \/ UNCHANGED <<bw, current>>
      \/ \E n \in Nodes : \E obj : Store(n, obj)
      \/ /\ HoldCached(boot.node, "boot") \/ LetGo(boot.node, "boot")
         /\ UNCHANGED bw
  <2>1. CASE BootStep
    BY <1>2, <2>1, ZenonT(30) DEF BootStep, BootGet, BootCreate, BootFetch, BootStatus,
                      clusterVars, StoreStatus
  <2>2. CASE \/ ClusterNext /\ UNCHANGED operatorVars
             \/ ClientWrite
             \/ ClientFails
    <3>1. \/ UNCHANGED <<bw, current>>
          \/ \E n \in Nodes : \E reqs, cap : StoreSpec(n, reqs, cap)
      BY <2>2 DEF ClusterNext, CreatePod, RunPod, FinishPod, DeletePod, RemovePod,
         JoinNode, LeaveNode, EditCapacity, ClientWrite, ClientRequest,
         ClientRelease, ClientBind, ClientFails
    <3> QED BY <3>1, ZenonT(30) DEF StoreSpec
  <2> QED BY <2>1, <2>2
<1>4. \A n \in Nodes : "cache" \in current'[n] => /\ "cache" \in current[n]
                                                  /\ bw'[n] = bw[n]
  BY <1>3 DEF Store, HoldCached, LetGo, ClientsTypeOK, ClusterTypeOK
<1> QED BY <1>1, <1>4 DEF Outside

LEMMA OutsideRelease ==
    ASSUME ClientsTypeOK, ReleaseInv, Outside
    PROVE  ReleaseInv'
<1>1. \A n \in nodeCache : Settled(n)' => Settled(n) /\ bw'[n] = bw[n]
  BY DEF Outside, Settled, ClientsTypeOK, OperatorTypeOK
<1> QED BY <1>1 DEF ReleaseInv, Outside, Exists, Ended

LEMMA WatchRelease ==
    ASSUME ClientsTypeOK, ReleaseInv, Watch
    PROVE  ReleaseInv'
<1>0. worker.pc = "listed" => worker.podsWithBw \in SUBSET Pods
  BY WorkerType DEF ClientsTypeOK, OperatorTypeOK, Reconciling
<1>1. ASSUME NEW n \in Nodes, WatchBandwidth(n)
      PROVE  ReleaseInv'
  <2>1. /\ queue' = queue \cup {n}
        /\ \A m \in Nodes \ {n} : current'[m] = current[m]
        /\ UNCHANGED <<bw, podCache, nodeCache, worker>>
    BY <1>1 DEF WatchBandwidth, Hold, ClientsTypeOK, ClusterTypeOK
  <2>2. \A m \in nodeCache : Settled(m)' => Settled(m)
    BY <2>1 DEF Settled, ClientsTypeOK, OperatorTypeOK
  <2> QED BY <2>1, <2>2 DEF ReleaseInv, Exists, Ended
<1>2. ASSUME NEW n \in Nodes, WatchNode(n) \/ NodeHeartbeat(n)
      PROVE  ReleaseInv'
  <2>1. /\ queue' = queue \cup {n} /\ nodeCache' \ {n} = nodeCache \ {n}
        /\ UNCHANGED <<bw, current, podCache, worker>>
    BY <1>2 DEF WatchNode, NodeHeartbeat, clusterVars
  <2>2. \A m \in nodeCache' : Settled(m)' => Settled(m) /\ m \in nodeCache
    BY <2>1 DEF Settled
  <2> QED BY <2>1, <2>2 DEF ReleaseInv, Exists, Ended
<1>3. ASSUME NEW p \in Pods, WatchPod(p)
      PROVE  ReleaseInv'
  <2>1. /\ queue' = queue \cup ({podCache[p].node, pods[p].node} \ {NoNode})
        /\ podCache'[p] = pods[p]
        /\ \A q \in Pods \ {p} : podCache'[q] = podCache[q]
        /\ UNCHANGED <<bw, current, nodeCache, worker>>
    BY <1>3 DEF WatchPod, clusterVars, ClientsTypeOK, OperatorTypeOK
  <2>2. \A m \in nodeCache : Settled(m)' => Settled(m) /\ podCache'[p].node # m
    BY <2>1, BandwidthAssumption DEF Settled, ClientsTypeOK, OperatorTypeOK
  <2>3. ASSUME NEW m \in nodeCache', NEW q \in Pods,
               (/\ Settled(m) /\ Exists(m) /\ bw[m].status.status # "Error"
                /\ podCache[q].node = m /\ Ended(podCache[q]))'
        PROVE  bw'[m].requests[q] = NoRequest
    <3>1. q # p
      BY <2>1, <2>2, <2>3
    <3> QED BY <2>1, <2>2, <2>3, <3>1 DEF ReleaseInv, Exists, Ended
  <2>4. ASSUME worker'.pc = "listed", NEW q \in worker'.podsWithBw,
               (podCache[q].node = worker.node /\ Ended(podCache[q]))'
        PROVE  worker'.node \in queue'
    <3>1. q \in Pods /\ worker.node \in Nodes /\ worker.node # NoNode
      BY <1>0, <2>1, <2>4, WorkerType, BandwidthAssumption, ZenonT(30)
         DEF ClientsTypeOK, OperatorTypeOK, Reconciling
    <3>2. CASE q = p
      BY <2>1, <2>4, <3>1, <3>2, ZenonT(30)
    <3>3. CASE q # p
      BY <2>1, <2>4, <3>1, <3>3, ZenonT(30) DEF ReleaseInv, Ended
    <3> QED BY <3>2, <3>3
  <2> QED BY <2>3, <2>4, Zenon DEF ReleaseInv
<1> QED BY <1>1, <1>2, <1>3 DEF Watch

LEMMA StartRelease ==
    ASSUME ClientsTypeOK, OperatorInv, ReleaseInv, NEW n \in Nodes,
           ReconcileStart(n)
    PROVE  ReleaseInv'
<1>0. /\ worker = Idle /\ n \in queue /\ queue' = queue \ {n}
      /\ UNCHANGED <<bw, bwCache, podCache, nodeCache>>
  BY DEF ReconcileStart, ReconcileNothing, ReconcileMissing, SyncStart, Take,
         Worker, Reconciling, clusterVars, ClientsTypeOK, OperatorTypeOK
<1>1. \A m \in nodeCache \ {n} : Settled(m)' => Settled(m)
  <2>1. \A m \in Nodes \ {n} : current'[m] = current[m]
    BY DEF ReconcileStart, ReconcileNothing, ReconcileMissing, SyncStart,
           HoldCached, clusterVars, ClientsTypeOK, ClusterTypeOK
  <2> QED BY <1>0, <2>1, IdleType, BandwidthAssumption, Zenon
          DEF Settled, ClientsTypeOK, OperatorTypeOK
<1>2. n \in nodeCache /\ Settled(n)' => bw[n] # NoBandwidth /\ bw[n].status.status = "Error"
  <2>1. CASE ReconcileNothing(n)
    BY <1>0, <2>1 DEF ReconcileNothing, Settled, OperatorInv, CacheInv, clusterVars
  <2>2. CASE ReconcileMissing(n) \/ SyncStart(n)
    BY <2>2, Zenon DEF ReconcileMissing, SyncStart, Settled, Idle
  <2> QED BY <2>1, <2>2 DEF ReconcileStart
<1>3. worker'.pc = "listed" =>
         \A p \in worker'.podsWithBw : ~Ended(podCache[p])
  <2>1. CASE ReconcileNothing(n) \/ ReconcileMissing(n)
    BY <1>0, <2>1, IdleType, Zenon DEF ReconcileNothing, ReconcileMissing, Idle
  <2>2. CASE SyncStart(n)
    <3>1. worker'.pc = "listed" => worker'.podsWithBw = PodsWithBw(n)
      BY <2>2, Zenon DEF SyncStart, Idle
    <3> QED BY <3>1 DEF PodsWithBw, Live, Ended
  <2> QED BY <2>1, <2>2 DEF ReconcileStart
<1> QED BY <1>0, <1>1, <1>2, <1>3 DEF ReleaseInv, Exists, Ended

LEMMA StepRelease ==
    ASSUME ClientsTypeOK, OperatorInv, ReleaseInv, ReconcileStep
    PROVE  ReleaseInv'
<1>1. PICK n : n = worker.node
  OBVIOUS
<1>2. worker'.pc # "listed" /\ UNCHANGED <<podCache, nodeCache>>
  BY StepUnlists
<1>3. ASSUME NEW m \in nodeCache, NEW p \in Pods,
             (/\ Settled(m) /\ Exists(m) /\ bw[m].status.status # "Error"
              /\ podCache[p].node = m /\ Ended(podCache[p]))'
      PROVE  bw'[m].requests[p] = NoRequest
  <2>0. m \in Nodes
    BY DEF ClientsTypeOK, OperatorTypeOK
  <2>1. CASE m # n
    <3>1. Settled(m) /\ bw'[m] = bw[m]
      BY <1>1, <1>3, <2>0, <2>1, StepFrame DEF Settled
    <3> QED BY <1>2, <1>3, <3>1 DEF ReleaseInv, Exists, Ended
  <2>2. CASE m = n
    <3>1. worker'.node # n /\ n \notin queue' /\ "cache" \in current'[n]
      BY <1>3, <2>2 DEF Settled
    <3>2. /\ worker.pc = "listed" /\ UNCHANGED <<bw, queue>>
          /\ CleanRequests(bw[n].requests, n, worker.podsWithBw) = bw[n].requests
      BY <1>1, <2>2, <3>1, StepEnd
    <3>3. p \notin worker.podsWithBw
      BY <1>1, <1>2, <1>3, <2>2, <3>1, <3>2 DEF ReleaseInv, Ended
    <3>4. ~KeepsRequest(p, worker.podsWithBw)
      BY <1>2, <1>3, <3>3 DEF KeepsRequest, Ended
    <3>5. CleanRequests(bw[n].requests, n, worker.podsWithBw)[p] = NoRequest
      BY <3>4 DEF CleanRequests
    <3> QED BY <2>2, <3>2, <3>5
  <2> QED BY <2>1, <2>2
<1> QED BY <1>2, <1>3 DEF ReleaseInv

LEMMA RestartRelease ==
    ASSUME OperatorRestart
    PROVE  ReleaseInv'
<1>1. nodeCache' \subseteq queue' /\ worker'.pc # "listed"
  BY IdleType, ZenonT(30) DEF OperatorRestart
<1> QED BY <1>1 DEF ReleaseInv, Settled

LEMMA InitRelease == ClientsInit => ReleaseInv
  BY IdleType, Zenon DEF ClientsInit, OperatorInit, ReleaseInv, Settled

\* Every step of the operator, and every step outside of it.
LEMMA OperatorRelease ==
    ASSUME ClientsTypeOK, OperatorInv, ReleaseInv, OperatorNext \/ Outside
    PROVE  ReleaseInv'
  BY OutsideStep, OutsideRelease, WatchRelease, StartRelease, StepRelease,
     RestartRelease
     DEF OperatorNext, WorkerStep

LEMMA NextRelease ==
    ClientsTypeOK /\ OperatorInv /\ ReleaseInv /\ [ClientsNext]_opVars => ReleaseInv'
<1> SUFFICES ASSUME ClientsTypeOK, OperatorInv, ReleaseInv, [ClientsNext]_opVars
             PROVE  ReleaseInv'
  OBVIOUS
<1>1. UNCHANGED opVars => Outside
  BY DEF opVars, clusterVars, operatorVars, Outside
<1> QED BY <1>1, OutsideStep, OperatorRelease DEF ClientsNext

LEMMA ReleaseSettled == ReleaseInv => SettledRelease
  BY DEF ReleaseInv, SettledRelease, CachesFresh, Ended

\* ReleaseCorrect: once the operator has caught up with a node, no pod that was
\* bound there and has finished or gone holds a request on it, whatever clients
\* added or removed meanwhile and whichever writes conflicted or failed.
THEOREM ReleaseCorrect == ClientsSpec => []SettledRelease
  BY InitType, NextType, InitInv, NextInv, InitRelease, NextRelease,
     ReleaseSettled, PTL DEF ClientsSpec

-----------------------------------------------------------------------------
(* Nodes that left.  A failed Get of the node marks its object Error, and  *)
(* an object so marked is never deleted; a failed Delete is not retried.   *)
(* Both are faults: without them the object of a node that left goes.      *)

\* GoneInv: no fault is left to happen and none has left its mark; a node
\* that was listed as present and has left since is queued again.
GoneInv ==
    /\ budget["fault"] = 0
    /\ \A n \in Nodes :
          /\ Exists(n) => bw[n].status.status # "Error"
          /\ bwCache[n] # NoBandwidth => bwCache[n].status.status # "Error"
    /\ worker.pc # "fail"
    /\ worker.pc = "listed" => worker.node \in nodeCache \cup queue
    /\ GoneNodeForgotten

LEMMA NoFault == budget["fault"] = 0 => ~Spend("fault")
  BY DEF Spend

LEMMA SpendOther ==
    ASSUME ClientsTypeOK, NEW kind \in Rare \ {"fault"}, Spend(kind)
    PROVE  budget'["fault"] = budget["fault"]
  BY DEF Spend, ClientsTypeOK, ClusterTypeOK, Rare

\* Which steps keep the budget of faults, and which objects they store.
LEMMA NewUnmarked == NewBandwidth.status.status # "Error"
  BY DEF NewBandwidth, NewStatus

LEMMA OutsideBudget ==
    ASSUME ClientsTypeOK, budget["fault"] = 0,
           \/ ClusterNext \/ ClientWrite \/ ClientFails \/ BootStep
    PROVE  budget'["fault"] = 0
<1>1. UNCHANGED budget \/ \E kind \in Rare \ {"fault"} : Spend(kind)
  BY NoFault, Zenon
     DEF ClusterNext, CreatePod, RunPod, FinishPod, DeletePod, RemovePod,
         JoinNode, LeaveNode, EditCapacity, ClientWrite, ClientRequest,
         ClientRelease, ClientBind, MayFail, ClientFails, BootStep, BootGet,
         BootCreate, BootFetch, BootStatus, clusterVars, Rare
<1> QED BY <1>1, SpendOther

LEMMA OutsideUnmarked ==
    ASSUME ClientsTypeOK,
           \/ ClusterNext \/ ClientWrite \/ ClientFails \/ BootStep,
           NEW n \in Nodes, Exists(n) => bw[n].status.status # "Error"
    PROVE  Exists(n)' => bw'[n].status.status # "Error"
<1>1. boot.pc # "next" => boot.node \in Nodes
  BY BootType DEF ClientsTypeOK, OperatorTypeOK, Creating
<1>2. bw \in [Nodes -> BandwidthObject \cup {NoBandwidth}]
  BY DEF ClientsTypeOK, ClusterTypeOK
<1>3. CASE BootStep
  <2>1. \/ UNCHANGED bw
        \/ \E m \in Nodes : Store(m, NewBandwidth)
        \/ \E m \in Nodes : Exists(m) /\ StoreStatus(m, CreatedStatus(m))
    BY <1>1, <1>3, Zenon
       DEF BootStep, BootGet, BootCreate, BootFetch, BootStatus, clusterVars
  <2>2. CASE UNCHANGED bw \/ \E m \in Nodes : Store(m, NewBandwidth)
    BY <1>2, <2>2, NewUnmarked DEF Store, Exists
  <2>3. ASSUME NEW m \in Nodes, Exists(m), StoreStatus(m, CreatedStatus(m))
        PROVE  Exists(n)' => bw'[n].status.status # "Error"
    <3>1. bw[m] \in BandwidthObject
      BY <1>2, <2>3 DEF Exists
    <3>2. CreatedStatus(m).status = "Created"
      BY <3>1 DEF CreatedStatus, BandwidthObject, BandwidthStatus
    <3>3. [bw[m] EXCEPT !.status = CreatedStatus(m)].status = CreatedStatus(m)
      BY <3>1 DEF BandwidthObject
    <3> QED BY <1>2, <2>3, <3>2, <3>3 DEF StoreStatus, Store, Exists
  <2> QED BY <2>1, <2>2, <2>3
<1>4. CASE ClusterNext \/ ClientWrite \/ ClientFails
  <2>1. \/ UNCHANGED bw
        \/ \E m \in Nodes : \E reqs, cap : Exists(m) /\ StoreSpec(m, reqs, cap)
    BY <1>4
       DEF ClusterNext, CreatePod, RunPod, FinishPod, DeletePod, RemovePod,
           JoinNode, LeaveNode, EditCapacity, ClientWrite, ClientRequest,
           ClientRelease, ClientBind, ClientFails
  <2>2. CASE UNCHANGED bw
    BY <2>2 DEF Exists
  <2>3. ASSUME NEW m \in Nodes, NEW reqs, NEW cap, Exists(m),
               StoreSpec(m, reqs, cap)
        PROVE  Exists(n)' => bw'[n].status.status # "Error"
    <3>1. bw[m] \in BandwidthObject
      BY <1>2, <2>3 DEF Exists
    <3>2. [bw[m] EXCEPT !.requests = reqs, !.capacity = cap].status = bw[m].status
      BY <3>1 DEF BandwidthObject
    <3> QED BY <1>2, <2>3, <3>2, Zenon DEF StoreSpec, Store, Exists
  <2> QED BY <2>1, <2>2, <2>3
<1> QED BY <1>3, <1>4

LEMMA OutsideGone ==
    ASSUME ClientsTypeOK, GoneInv, Outside, budget'["fault"] = 0,
           \A n \in Nodes : Exists(n)' => bw'[n].status.status # "Error"
    PROVE  GoneInv'
<1>1. GoneNodeForgotten'
  <2>1. \A n \in Nodes : Settled(n)' => Settled(n) /\ bw'[n] = bw[n]
    BY DEF Outside, Settled
  <2> QED BY <2>1 DEF GoneInv, GoneNodeForgotten, Outside, Exists
<1> QED BY <1>1 DEF GoneInv, Outside

LEMMA WatchGone ==
    ASSUME ClientsTypeOK, GoneInv, Watch
    PROVE  GoneInv'
<1>1. ASSUME NEW n \in Nodes, WatchBandwidth(n)
      PROVE  GoneInv'
  <2>1. /\ queue' = queue \cup {n}
        /\ \A m \in Nodes \ {n} : current'[m] = current[m]
        /\ bwCache' = [bwCache EXCEPT ![n] = bw[n]]
        /\ UNCHANGED <<bw, nodeCache, worker, budget>>
    BY <1>1 DEF WatchBandwidth, Hold, ClientsTypeOK, ClusterTypeOK
  <2>2. \A m \in Nodes : Settled(m)' => Settled(m)
    BY <2>1 DEF Settled
  <2>3. GoneNodeForgotten'
    BY <2>1, <2>2 DEF GoneInv, GoneNodeForgotten, Exists
  <2>4. \A m \in Nodes : bwCache'[m] # NoBandwidth =>
                            bwCache'[m].status.status # "Error"
    BY <2>1 DEF GoneInv, Exists, ClientsTypeOK, OperatorTypeOK
  <2> QED BY <2>1, <2>3, <2>4 DEF GoneInv, Exists
<1>2. ASSUME NEW n \in Nodes, WatchNode(n) \/ NodeHeartbeat(n)
      PROVE  GoneInv'
  <2>1. /\ queue' = queue \cup {n} /\ nodeCache' \ {n} = nodeCache \ {n}
        /\ UNCHANGED <<bw, bwCache, current, worker, budget>>
    BY <1>2 DEF WatchNode, NodeHeartbeat, clusterVars
  <2>2. GoneNodeForgotten'
    BY <2>1 DEF GoneInv, GoneNodeForgotten, Settled, Exists
  <2> QED BY <2>1, <2>2 DEF GoneInv, Exists
<1>3. ASSUME NEW p \in Pods, WatchPod(p)
      PROVE  GoneInv'
  <2>1. /\ queue \subseteq queue'
        /\ UNCHANGED <<bw, bwCache, current, nodeCache, worker, budget>>
    BY <1>3 DEF WatchPod, clusterVars
  <2>2. GoneNodeForgotten'
    BY <2>1 DEF GoneInv, GoneNodeForgotten, Settled, Exists
  <2> QED BY <2>1, <2>2 DEF GoneInv, Exists
<1> QED BY <1>1, <1>2, <1>3 DEF Watch

LEMMA StartGone ==
    ASSUME ClientsTypeOK, OperatorInv, GoneInv, NEW n \in Nodes,
           ReconcileStart(n)
    PROVE  GoneInv'
<1>0. /\ worker = Idle /\ queue' = queue \ {n}
      /\ UNCHANGED <<bw, bwCache, nodeCache, budget>>
  BY NoFault
     DEF ReconcileStart, ReconcileNothing, ReconcileMissing, SyncStart, Take,
         Worker, Reconciling, clusterVars, ClientsTypeOK, OperatorTypeOK, GoneInv
<1>1. \/ worker' = Idle
      \/ /\ worker'.node = n /\ worker'.pc \in {"create", "delete", "listed"}
         /\ worker'.pc = "listed" => n \in nodeCache
  BY <1>0, NoFault, ZenonT(30)
     DEF ReconcileStart, ReconcileNothing, ReconcileMissing, SyncStart, Idle, GoneInv
<1>2. worker'.pc # "fail" /\ (worker'.pc = "listed" => worker'.node = n /\ n \in nodeCache)
  BY <1>1, IdleType, Zenon
<1>3. \A m \in Nodes \ {n} : Settled(m)' => Settled(m)
  <2>1. \A m \in Nodes \ {n} : current'[m] = current[m]
    BY DEF ReconcileStart, ReconcileNothing, ReconcileMissing, SyncStart,
           HoldCached, clusterVars, ClientsTypeOK, ClusterTypeOK
  <2> QED BY <1>0, <2>1, IdleType, BandwidthAssumption, Zenon DEF Settled
<1>4. Settled(n)' /\ n \notin nodeCache => ~Exists(n)
  <2>1. CASE ReconcileNothing(n)
    BY <2>1 DEF ReconcileNothing, Settled, OperatorInv, CacheInv, clusterVars,
                GoneInv, Exists
  <2>2. CASE ReconcileMissing(n) \/ SyncStart(n)
    BY <2>2, ZenonT(30) DEF ReconcileMissing, SyncStart, Settled, Idle
  <2> QED BY <2>1, <2>2 DEF ReconcileStart
<1>5. GoneNodeForgotten'
  BY <1>0, <1>3, <1>4 DEF GoneInv, GoneNodeForgotten, Exists
<1> QED BY <1>0, <1>2, <1>5 DEF GoneInv, Exists

LEMMA StepGone ==
    ASSUME ClientsTypeOK, OperatorInv, GoneInv, ReconcileStep
    PROVE  GoneInv'
<1>0. PICK n : n = worker.node
  OBVIOUS
<1>1. worker'.pc # "listed" /\ UNCHANGED <<bwCache, nodeCache>> /\ n \in Nodes
  BY <1>0, StepUnlists, StepFrame
<1>2. ~Spend("fault") /\ UNCHANGED budget
  <2>1. ~Spend("fault")
    BY NoFault DEF GoneInv
  <2> QED
    BY <2>1
       DEF ReconcileStep, SyncDelete, SyncFail, SyncCompute, SyncUpdate,
           SyncRefetch, SyncStatus, WriteRefused, CreateBandwidth, CreateFetch,
           CreateStatus
<1>3. ~SyncFail
  BY DEF SyncFail, GoneInv
<1>4. worker \in Reconciling
  BY WorkerType DEF ReconcileStep, SyncDelete, SyncFail, SyncCompute, SyncUpdate,
         SyncRefetch, SyncStatus, WriteRefused, WriteAccepted,
         CreateBandwidth, CreateFetch, CreateStatus, ClientsTypeOK, OperatorTypeOK
<1>5. worker'.pc # "fail"
  <2>1. CASE SyncCompute
    <3> DEFINE clean == CleanRequests(worker.obj.requests, worker.node,
                                      worker.podsWithBw)
               cap == setDefaultBandwidthValues(worker.obj.capacity)
               changed == StatusChanged(worker.obj, clean, cap)
               done == [worker EXCEPT !.clean = clean, !.cap = cap,
                                      !.statusCap = cap, !.statusChanged = changed]
    <3>1. worker' = Idle \/ \E pc \in {"update", "status"} :
                               worker' = [done EXCEPT !.pc = pc]
      BY <2>1 DEF SyncCompute
    <3> HIDE DEF clean, cap, changed
    <3> QED BY <1>4, <3>1, IdleType, Zenon DEF Reconciling
  <2>2. CASE ~SyncCompute
    BY <1>2, <1>3, <1>4, <2>2, IdleType, ZenonT(30)
       DEF ReconcileStep, SyncDelete, SyncUpdate, SyncRefetch, SyncStatus,
           WriteRefused, CreateBandwidth, CreateFetch, CreateStatus, End,
           Requeue, Reconciling
  <2> QED BY <2>1, <2>2
<1>6. ASSUME NEW m \in Nodes, Exists(m)'
      PROVE  bw'[m].status.status # "Error"
  <2>1. bw \in [Nodes -> BandwidthObject \cup {NoBandwidth}]
    BY DEF ClientsTypeOK, ClusterTypeOK
  <2>2. \/ UNCHANGED bw
        \/ StoreDelete(n) \/ Store(n, NewBandwidth)
        \/ Exists(n) /\ \E reqs, cap : StoreSpec(n, reqs, cap)
        \/ Exists(n) /\ \E s : s.status = "Created" /\ StoreStatus(n, s)
    <3>1. CASE SyncStatus
      BY <1>0, <3>1, Zenon DEF SyncStatus, WriteAccepted
    <3>2. CASE CreateStatus
      <4>1. Exists(n) /\ StoreStatus(n, CreatedStatus(n))
        BY <1>0, <3>2 DEF CreateStatus, WriteAccepted
      <4>2. CreatedStatus(n).status = "Created"
        BY <1>1, <2>1, <4>1 DEF CreatedStatus, Exists, BandwidthObject,
                                BandwidthStatus
      <4> QED BY <4>1, <4>2
    <3>3. CASE ~SyncStatus /\ ~CreateStatus
      BY <1>0, <1>3, <3>3
         DEF ReconcileStep, SyncDelete, SyncCompute, SyncUpdate, SyncRefetch,
             WriteAccepted, WriteRefused, CreateBandwidth, CreateFetch
    <3> QED BY <3>1, <3>2, <3>3
  <2> QED
    BY <1>1, <1>6, <2>1, <2>2, NewUnmarked, ZenonT(30)
       DEF GoneInv, Store, StoreDelete, StoreSpec, StoreStatus, Exists,
           BandwidthObject
<1>7. ASSUME NEW m \in Nodes, Settled(m)', m \notin nodeCache
      PROVE  bw'[m] = NoBandwidth
  <2>1. CASE m # n
    BY <1>0, <1>7, <2>1, StepFrame DEF Settled, GoneInv, GoneNodeForgotten, Exists
  <2>2. CASE m = n
    BY <1>0, <1>2, <1>7, <2>2, StepEnd DEF Settled, GoneInv
  <2> QED BY <2>1, <2>2
<1>8. GoneNodeForgotten'
  BY <1>1, <1>7 DEF GoneNodeForgotten, Exists
<1> QED BY <1>1, <1>2, <1>5, <1>6, <1>8 DEF GoneInv

LEMMA RestartGone ==
    ASSUME ClientsTypeOK, GoneInv, OperatorRestart
    PROVE  GoneInv'
<1>1. /\ \A n \in Nodes : Exists(n) => n \in queue'
      /\ worker' = Idle /\ bwCache' = bw /\ UNCHANGED bw
  BY DEF OperatorRestart
<1>2. budget'["fault"] = 0
  BY SpendOther DEF OperatorRestart, Rare, GoneInv
<1>3. GoneNodeForgotten'
  BY <1>1 DEF GoneNodeForgotten, Settled, Exists
<1> QED BY <1>1, <1>2, <1>3, IdleType, ZenonT(30) DEF GoneInv, Exists

LEMMA InitGone ==
    ASSUME Budget["fault"] = 0
    PROVE  ClientsInit => GoneInv
  BY IdleType, ZenonT(30)
     DEF ClientsInit, ClusterInit, OperatorInit, GoneInv, GoneNodeForgotten, Exists

LEMMA OperatorGone ==
    ASSUME ClientsTypeOK, OperatorInv, GoneInv, OperatorNext
    PROVE  GoneInv'
<1>1. CASE BootStep
  BY <1>1, OutsideStep, OutsideBudget, OutsideUnmarked, OutsideGone DEF GoneInv
<1> QED
  BY <1>1, WatchGone, StartGone, StepGone, RestartGone DEF OperatorNext, WorkerStep

LEMMA NextGone ==
    ClientsTypeOK /\ OperatorInv /\ GoneInv /\ [ClientsNext]_opVars => GoneInv'
<1> SUFFICES ASSUME ClientsTypeOK, OperatorInv, GoneInv, [ClientsNext]_opVars
             PROVE  GoneInv'
  OBVIOUS
<1>1. CASE OperatorNext
  BY <1>1, OperatorGone
<1>2. CASE (ClusterNext /\ UNCHANGED operatorVars) \/ ClientWrite \/ ClientFails
  BY <1>2, OutsideStep, OutsideBudget, OutsideUnmarked, OutsideGone DEF GoneInv
<1>3. CASE UNCHANGED opVars
  BY <1>3 DEF opVars, clusterVars, operatorVars, GoneInv, GoneNodeForgotten,
              Settled, Exists
<1> QED BY <1>1, <1>2, <1>3 DEF ClientsNext

\* GoneForgotten: where no request fails, the object of a node that left is
\* deleted by the time the operator has nothing more to do for the node, also
\* when a client, the bootstrap or a reconcile stored it after the node left.
THEOREM GoneForgotten ==
    ASSUME Budget["fault"] = 0
    PROVE  ClientsSpec => []GoneNodeForgotten
<1>1. GoneInv => GoneNodeForgotten
  BY DEF GoneInv
<1> QED
  BY <1>1, InitType, NextType, InitInv, NextInv, InitGone, NextGone, PTL
     DEF ClientsSpec
=============================================================================
