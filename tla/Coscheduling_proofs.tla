------------------------ MODULE Coscheduling_proofs -------------------------
(***************************************************************************)
(* Theorems about Coscheduling, for every finite set of pods, any groups,  *)
(* nodes and queue order, and any number of troubles.                      *)
(***************************************************************************)
EXTENDS Coscheduling, FiniteSetTheorems, TLAPS

\* The provers of a leaf that names none, and the time they have.
USE ZenonT(5), SMTT(30)

-----------------------------------------------------------------------------
(* The inductive invariant.                                                *)

Unplaced == {"absent", "active", "parked", "gone"}

(* The pod in the scheduling cycle is the one whose stage says so; a pod   *)
(* has a node only from Filter until it is forgotten or deleted.           *)
CycleInv ==
    /\ cycle = Idle \/ (cycle.pod \in Pods /\ cycle.at # "idle")
    /\ \A p \in Pods : stage[p] = "cycle" <=> cycle.pod = p
    /\ \A p \in Pods : stage[p] \in Unplaced => node[p] = NoNode
    /\ \A p \in Pods : cycle.pod = p /\ cycle.at \in {"PreFilter", "Filter", "PostFilter"}
                          => node[p] = NoNode

(* While a cycle lasts, the other pods only lose nodes: the snapshot shows *)
(* every one that has a node now.                                          *)
SnapshotInv ==
    /\ \A p, q \in Pods : cycle.pod = p /\ q # p /\ node[q] # NoNode => snapshot[q] # NoNode
    /\ \A p \in Pods : cycle.pod = p => snapshot[p] = NoNode

(* Not counting the pod in the cycle, a group of which enough pods have a  *)
(* node has none that waits; and a pod about to be parked is one too few.  *)
WaitingInv ==
    /\ \A g \in groups :
          Cardinality(Assigned(node, g) \ {cycle.pod}) >= MinMember[g] => Waiting(g) = {}
    /\ \A g \in groups, p \in Pods :
          cycle = [pod |-> p, at |-> "Park"] /\ GroupOf[p] = g
             => Cardinality(Assigned(node, g)) < MinMember[g]

(* A pod past PreFilter belongs to no group that is backed off, unless     *)
(* PreFilter could not read the group.                                     *)
BackoffInv ==
    /\ BackoffHoldsNothing
    /\ \A p \in Pods : (/\ cycle.pod = p /\ GroupOf[p] \in backedOffPG
                        /\ \/ cycle.at \in {"Filter", "Permit"} /\ GroupOf[p] \in groups
                           \/ cycle.at = "Park")
                          => <<p, "PreFilter">> \in missed

Inv == CoschedulingTypeOK /\ CycleInv /\ SnapshotInv /\ WaitingInv /\ BackoffInv

-----------------------------------------------------------------------------
(* Types.                                                                  *)

LEMMA RejectType ==
    ASSUME NEW st \in [Pods -> Stages], NEW g
    PROVE  /\ Reject(st, g) \in [Pods -> Stages]
           /\ Allow(st, g) \in [Pods -> Stages]
  BY DEF Reject, Allow, Stages

(* What a read of the group can do.                                        *)
ReadAt(p, point, found) ==
    /\ found => GroupOf[p] \in groups
    /\ troubles' \in 0..MaxTroubles /\ calm' \in BOOLEAN
    /\ missed' \subseteq Pods \X Points /\ missed \subseteq missed'
    /\ calm' => calm /\ (point # "Permit" => found = (GroupOf[p] \in groups))
    /\ GroupOf[p] \in groups /\ ~found => <<p, point>> \in missed'

LEMMA Reading ==
    CoschedulingTypeOK =>
        \A p \in Pods, point \in Points, found \in BOOLEAN :
            GetPodGroup(p, point, found) => ReadAt(p, point, found)
<1> SUFFICES ASSUME CoschedulingTypeOK, NEW p \in Pods, NEW point \in Points, NEW found \in BOOLEAN,
                    GetPodGroup(p, point, found)
             PROVE  ReadAt(p, point, found)
  BY Zenon
<1> USE CoschedulingAssumption DEF CoschedulingTypeOK, GetPodGroup, Exists
<1>1. found => GroupOf[p] \in groups
  OBVIOUS
<1>2. troubles' \in 0..MaxTroubles
  OBVIOUS
<1>3. missed' \subseteq Pods \X Points /\ missed \subseteq missed'
  OBVIOUS
<1>4. /\ calm' \in BOOLEAN
      /\ calm' => calm /\ (point # "Permit" => found = (GroupOf[p] \in groups))
  OBVIOUS
<1>5. GroupOf[p] \in groups /\ ~found => <<p, point>> \in missed'
  OBVIOUS
<1> QED BY <1>1, <1>2, <1>3, <1>4, <1>5 DEF ReadAt

LEMMA ThePoints ==
    "PreFilter" \in Points /\ "PostFilter" \in Points /\ "Permit" \in Points /\ "Unreserve" \in Points
  BY DEF Points

LEMMA InitInv == Init => Inv
<1> SUFFICES ASSUME Init PROVE Inv
  OBVIOUS
<1> USE CoschedulingAssumption DEF Init, Idle, Nowhere
<1>1. CoschedulingTypeOK
  BY DEF CoschedulingTypeOK, Stages
<1>2. CycleInv
  BY DEF CycleInv, Unplaced
<1>3. SnapshotInv
  BY DEF SnapshotInv
<1>4. WaitingInv
  <2>1. \A p \in Pods : stage[p] # "waiting"
    OBVIOUS
  <2>2. \A g : Waiting(g) = {}
    BY <2>1 DEF Waiting, Members
  <2>3. cycle.at = "idle"
    OBVIOUS
  <2> QED BY <2>2, <2>3 DEF WaitingInv
<1>5. BackoffInv
  BY DEF BackoffInv, BackoffHoldsNothing
<1> QED BY <1>1, <1>2, <1>3, <1>4, <1>5 DEF Inv

LEMMA TypeStep == CoschedulingTypeOK /\ Next => CoschedulingTypeOK'
<1> SUFFICES ASSUME CoschedulingTypeOK, Next PROVE CoschedulingTypeOK'
  OBVIOUS
<1>r. \A r \in Pods, point \in Points, found \in BOOLEAN :
          GetPodGroup(r, point, found) => ReadAt(r, point, found)
  BY Reading, Zenon
<1> USE CoschedulingAssumption DEF CoschedulingTypeOK, Idle, Nowhere
<1>1. ASSUME NEW p \in Pods, PodStep(p) PROVE CoschedulingTypeOK'
  <2>1. CASE Pop(p)
    <3>1. troubles' \in 0..MaxTroubles
      BY <2>1 DEF Pop
    <3>2. stage' \in [Pods -> Stages] /\ missed' \subseteq Pods \X Points
      BY <2>1 DEF Pop, Stages
    <3> QED BY <2>1, <3>1, <3>2 DEF Pop
  <2>2. CASE PreFilter(p)
    <3>1. PICK found \in BOOLEAN : GetPodGroup(p, "PreFilter", found)
      BY <2>2 DEF PreFilter
    <3>2. troubles' \in 0..MaxTroubles /\ calm' \in BOOLEAN /\ missed' \subseteq Pods \X Points
      <4> HIDE DEF CoschedulingTypeOK, Idle, Nowhere
      <4>1. ReadAt(p, "PreFilter", found)
        BY <3>1, <1>r, ThePoints, Zenon
      <4> QED BY <3>1, <4>1 DEF ReadAt
    <3> QED BY <2>2, <3>2 DEF PreFilter
  <2>3. CASE Filter(p)
    BY <2>3 DEF Filter
  <2>4. CASE PostFilter(p)
    <3>1. [stage EXCEPT ![p] = "parked"] \in [Pods -> Stages]
      BY DEF Stages
    <3>3. PICK found \in BOOLEAN :
             /\ GetPodGroup(p, "PostFilter", found)
             /\ stage' = IF GivesUp(p, found) THEN Reject([stage EXCEPT ![p] = "parked"], GroupOf[p])
                         ELSE [stage EXCEPT ![p] = "parked"]
      BY <2>4, Zenon DEF PostFilter
    <3>2. stage' \in [Pods -> Stages]
      BY <3>1, <3>3, RejectType
    <3>4. troubles' \in 0..MaxTroubles /\ calm' \in BOOLEAN /\ missed' \subseteq Pods \X Points
      <4> HIDE DEF CoschedulingTypeOK, Idle, Nowhere
      <4>1. ReadAt(p, "PostFilter", found)
        BY <3>3, <1>r, ThePoints, Zenon
      <4> QED BY <3>3, <4>1 DEF ReadAt
    <3> QED BY <2>4, <3>2, <3>4 DEF PostFilter, EndCycle
  <2>5. CASE Permit(p)
    <3>0. PICK found \in BOOLEAN : GetPodGroup(p, "Permit", found)
      BY <2>5 DEF Permit
    <3>1. [stage EXCEPT ![p] = "allowed"] \in [Pods -> Stages]
      BY DEF Stages
    <3>2. Allow([stage EXCEPT ![p] = "allowed"], GroupOf[p]) \in [Pods -> Stages]
      BY <3>1, RejectType
    <3>3. stage' \in [Pods -> Stages]
      <4>1. CASE stage' = stage
        BY <4>1
      <4>2. CASE stage' = Allow([stage EXCEPT ![p] = "allowed"], GroupOf[p])
        BY <3>2, <4>2
      <4>3. CASE stage' = [q \in Pods |-> IF /\ CalculateAssignedPods(GroupOf[p]) = 0
                                             /\ q \in Siblings(p)
                                          THEN "active" ELSE stage[q]]
        BY <4>3 DEF Stages
      <4> QED BY <2>5, <4>1, <4>2, <4>3 DEF Permit
    <3>4. troubles' \in 0..MaxTroubles /\ calm' \in BOOLEAN /\ missed' \subseteq Pods \X Points
      <4> HIDE DEF CoschedulingTypeOK, Idle, Nowhere
      <4>1. ReadAt(p, "Permit", found)
        BY <3>0, <1>r, ThePoints, Zenon
      <4> QED BY <3>0, <4>1 DEF ReadAt
    <3> QED BY <2>5, <3>3, <3>4 DEF Permit, EndCycle
  <2>6. CASE Park(p)
    BY <2>6 DEF Park, EndCycle, Stages
  <2>10. CASE TurnBack(p)
    <3>1. [stage EXCEPT ![p] = "parked"] \in [Pods -> Stages]
      BY DEF Stages
    <3>2. PICK found \in BOOLEAN : Unreserved(p, [stage EXCEPT ![p] = "parked"], found)
      BY <2>10 DEF TurnBack
    <3>3. stage' \in [Pods -> Stages] /\ permittedPG' \subseteq Groups
      BY <3>1, <3>2, RejectType DEF Unreserved
    <3>4. troubles' \in 0..MaxTroubles /\ calm' \in BOOLEAN /\ missed' \subseteq Pods \X Points
      <4> HIDE DEF CoschedulingTypeOK, Idle, Nowhere
      <4>1. ReadAt(p, "Unreserve", found)
        BY <3>2, <1>r, ThePoints, Zenon DEF Unreserved
      <4> QED BY <3>2, <4>1 DEF ReadAt, Unreserved
    <3> QED BY <2>10, <3>3, <3>4 DEF TurnBack, EndCycle
  <2>7. CASE Timeout(p) \/ Bind(p) \/ Forget(p) \/ Requeue(p) \/ CreatePod(p)
    <3>1. calm' \in BOOLEAN
      BY <2>7 DEF Timeout, Bind, Forget, Requeue, CreatePod
    <3> QED BY <2>7, <3>1 DEF Timeout, Bind, Forget, Requeue, CreatePod, Stages
  <2>8. CASE Unreserve(p)
    <3>1. [stage EXCEPT ![p] = "unreserved"] \in [Pods -> Stages]
      BY DEF Stages
    <3>2. PICK found \in BOOLEAN : Unreserved(p, [stage EXCEPT ![p] = "unreserved"], found)
      BY <2>8 DEF Unreserve
    <3>3. stage' \in [Pods -> Stages] /\ permittedPG' \subseteq Groups
      BY <3>1, <3>2, RejectType DEF Unreserved
    <3>4. troubles' \in 0..MaxTroubles /\ calm' \in BOOLEAN /\ missed' \subseteq Pods \X Points
      <4> HIDE DEF CoschedulingTypeOK, Idle, Nowhere
      <4>1. ReadAt(p, "Unreserve", found)
        BY <3>2, <1>r, ThePoints, Zenon DEF Unreserved
      <4> QED BY <3>2, <4>1 DEF ReadAt, Unreserved
    <3> QED BY <2>8, <3>3, <3>4 DEF Unreserve
  <2>9. CASE BindFails(p) \/ DeletePod(p)
    <3>1. troubles' \in 0..MaxTroubles
      BY <2>9 DEF BindFails, DeletePod
    <3>2. stage' \in [Pods -> Stages] /\ node' \in [Pods -> Nodes \cup {NoNode}]
      BY <2>9 DEF BindFails, DeletePod, Stages
    <3>3. calm' \in BOOLEAN
      BY <2>9 DEF BindFails, DeletePod
    <3> QED BY <2>9, <3>1, <3>2, <3>3 DEF BindFails, DeletePod
  <2> QED BY <1>1, <2>1, <2>2, <2>3, <2>4, <2>5, <2>6, <2>7, <2>8, <2>9, <2>10
          DEF PodStep, CycleStep, BindingStep
<1>2. ASSUME NEW g \in Groups, GroupStep(g) PROVE CoschedulingTypeOK'
  <2>1. troubles' \in 0..MaxTroubles
    BY <1>2 DEF GroupStep, ExpirePermitted, ExpireBackoff, DeleteGroup
  <2>2. calm' \in BOOLEAN
    BY <1>2 DEF GroupStep, ExpirePermitted, ExpireBackoff, DeleteGroup
  <2> QED BY <1>2, <2>1, <2>2 DEF GroupStep, ExpirePermitted, ExpireBackoff, DeleteGroup
<1> QED BY <1>1, <1>2 DEF Next

-----------------------------------------------------------------------------
(* Steps.                                                                  *)

LEMMA WaitingMeans ==
    \A g, p : p \in Waiting(g) <=> p \in Pods /\ GroupOf[p] = g /\ stage[p] = "waiting"
  BY DEF Waiting, Members

(* Permit, with what its read found.                                       *)
PermitStep(p, found) ==
    /\ cycle = [pod |-> p, at |-> "Permit"]
    /\ GetPodGroup(p, "Permit", found)
    /\ UNCHANGED <<node, groups, permittedPG, backedOffPG>>
    /\ \/ /\ PermitStatus(p, found) = "PodGroupNotFound"
          /\ cycle' = [cycle EXCEPT !.at = "Unreserve"] /\ UNCHANGED <<stage, snapshot>>
       \/ /\ PermitStatus(p, found) \in {"PodGroupNotSpecified", "Success"}
          /\ stage' = Allow([stage EXCEPT ![p] = "allowed"], GroupOf[p]) /\ EndCycle
       \/ /\ PermitStatus(p, found) = "Wait"
          /\ stage' = [q \in Pods |-> IF CalculateAssignedPods(GroupOf[p]) = 0 /\ q \in Siblings(p)
                                      THEN "active" ELSE stage[q]]
          /\ cycle' = [cycle EXCEPT !.at = "Park"] /\ UNCHANGED snapshot

LEMMA PermitSteps ==
    ASSUME NEW p \in Pods, Permit(p) PROVE \E found \in BOOLEAN : PermitStep(p, found)
  BY Zenon DEF Permit, PermitStep

LEMMA CycleStepInv == CoschedulingTypeOK /\ CycleInv /\ Next => CycleInv'
<1> SUFFICES ASSUME CoschedulingTypeOK, CycleInv, Next PROVE CycleInv'
  OBVIOUS
<1> USE CoschedulingAssumption DEF CoschedulingTypeOK, CycleInv, Unplaced, Idle
<1>1. ASSUME NEW p \in Pods, PodStep(p) PROVE CycleInv'
  <2>1. CASE Pop(p)
    BY <2>1 DEF Pop
  <2>2. CASE PreFilter(p)
    BY <2>2 DEF PreFilter
  <2>3. CASE Filter(p)
    BY <2>3 DEF Filter
  <2>4. CASE PostFilter(p)
    BY <2>4, WaitingMeans DEF PostFilter, EndCycle, Reject
  <2>5. CASE Permit(p)
    <3>0. PICK found \in BOOLEAN : PermitStep(p, found)
      BY <2>5, PermitSteps
    <3>1. CASE PermitStatus(p, found) = "PodGroupNotFound"
      BY <3>0, <3>1 DEF PermitStep
    <3>2. CASE PermitStatus(p, found) \in {"PodGroupNotSpecified", "Success"}
      BY <3>0, <3>2, WaitingMeans DEF PermitStep, EndCycle, Allow
    <3>3. CASE PermitStatus(p, found) = "Wait"
      BY <3>0, <3>3 DEF PermitStep, Siblings
    <3> QED BY <3>0, <3>1, <3>2, <3>3 DEF PermitStep
  <2>6. CASE Park(p)
    BY <2>6, ZenonT(30) DEF Park, EndCycle
  <2>7. CASE Timeout(p) \/ Bind(p) \/ BindFails(p)
    BY <2>7 DEF Timeout, Bind, BindFails
  <2>8. CASE Unreserve(p)
    BY <2>8, WaitingMeans DEF Unreserve, Unreserved, Reject
  <2>10. CASE TurnBack(p)
    BY <2>10, WaitingMeans DEF TurnBack, Unreserved, EndCycle, Reject
  <2>9. CASE Forget(p) \/ Requeue(p) \/ CreatePod(p) \/ DeletePod(p)
    BY <2>9 DEF Forget, Requeue, CreatePod, DeletePod
  <2> QED BY <1>1, <2>1, <2>2, <2>3, <2>4, <2>5, <2>6, <2>7, <2>8, <2>9, <2>10
          DEF PodStep, CycleStep, BindingStep
<1>2. ASSUME NEW g \in Groups, GroupStep(g) PROVE CycleInv'
  BY <1>2 DEF GroupStep, ExpirePermitted, ExpireBackoff, DeleteGroup
<1> QED BY <1>1, <1>2 DEF Next

LEMMA SnapshotStepInv ==
    CoschedulingTypeOK /\ CycleInv /\ SnapshotInv /\ Next => SnapshotInv'
<1> SUFFICES ASSUME CoschedulingTypeOK, CycleInv, SnapshotInv, Next PROVE SnapshotInv'
  OBVIOUS
<1> USE CoschedulingAssumption DEF CoschedulingTypeOK, SnapshotInv, Idle
<1>1. ASSUME NEW p \in Pods, PodStep(p) PROVE SnapshotInv'
  <2>1. CASE Pop(p)
    BY <2>1 DEF Pop, CycleInv, Unplaced
  <2>2. CASE PreFilter(p)
    BY <2>2 DEF PreFilter
  <2>3. CASE Filter(p)
    BY <2>3 DEF Filter
  <2>4. CASE PostFilter(p) \/ Park(p)
    BY <2>4 DEF PostFilter, Park, EndCycle
  <2>5. CASE Permit(p)
    BY <2>5 DEF Permit, EndCycle
  <2>6. CASE Timeout(p) \/ Bind(p) \/ BindFails(p) \/ Unreserve(p) \/ Requeue(p) \/ CreatePod(p)
    BY <2>6 DEF Timeout, Bind, BindFails, Unreserve, Requeue, CreatePod
  <2>7. CASE Forget(p) \/ DeletePod(p)
    BY <2>7 DEF Forget, DeletePod
  <2>8. CASE TurnBack(p)
    BY <2>8 DEF TurnBack, EndCycle
  <2> QED BY <1>1, <2>1, <2>2, <2>3, <2>4, <2>5, <2>6, <2>7, <2>8
          DEF PodStep, CycleStep, BindingStep
<1>2. ASSUME NEW g \in Groups, GroupStep(g) PROVE SnapshotInv'
  BY <1>2 DEF GroupStep, ExpirePermitted, ExpireBackoff, DeleteGroup
<1> QED BY <1>1, <1>2 DEF Next

(* What has at most the assigned pods it had, the pod in the cycle not     *)
(* counted, and at most the waiting ones, has no new pod left behind.      *)
Kept(g) ==
    /\ Assigned(node, g)' \ {cycle'.pod} \subseteq Assigned(node, g) \ {cycle.pod}
    /\ Waiting(g)' \subseteq Waiting(g)

LEMMA Assignable ==
    ASSUME NEW where, NEW g
    PROVE  /\ IsFiniteSet(Assigned(where, g)) /\ Assigned(where, g) \subseteq Pods
           /\ Cardinality(Assigned(where, g)) \in Nat
<1>1. Assigned(where, g) \subseteq Pods
  BY DEF Assigned, Members
<1> QED BY <1>1, FS_Subset, FS_CardinalityType, CoschedulingAssumption

LEMMA FewerAssigned ==
    ASSUME NEW S, NEW T, IsFiniteSet(S), T \subseteq S
    PROVE  /\ Cardinality(T) \in Nat /\ Cardinality(S) \in Nat
           /\ Cardinality(T) <= Cardinality(S)
  BY FS_Subset, FS_CardinalityType

LEMMA KeptSuffices ==
    ASSUME CoschedulingTypeOK, WaitingInv, NEW g \in groups, Kept(g)
    PROVE  Cardinality(Assigned(node, g)' \ {cycle'.pod}) >= MinMember[g] => Waiting(g)' = {}
<1> DEFINE before == Assigned(node, g) \ {cycle.pod}
           after == Assigned(node, g)' \ {cycle'.pod}
<1>1. IsFiniteSet(before) /\ after \subseteq before
  BY Assignable, FS_Subset DEF Kept
<1>2. Cardinality(after) \in Nat /\ Cardinality(before) \in Nat
      /\ Cardinality(after) <= Cardinality(before)
  BY <1>1, FewerAssigned
<1>3. MinMember[g] \in Nat
  BY CoschedulingAssumption DEF CoschedulingTypeOK
<1>4. Cardinality(before) >= MinMember[g] => Waiting(g) = {}
  BY DEF WaitingInv
<1> QED BY <1>2, <1>3, <1>4 DEF Kept

LEMMA OneMore ==
    ASSUME NEW S, IsFiniteSet(S), NEW x
    PROVE  IsFiniteSet(S \cup {x}) /\ Cardinality(S \cup {x}) <= Cardinality(S) + 1
<1>1. /\ IsFiniteSet(S \cup {x})
      /\ Cardinality(S \cup {x}) = IF x \in S THEN Cardinality(S) ELSE Cardinality(S) + 1
  BY FS_AddElement
<1>2. Cardinality(S) \in Nat
  BY FS_CardinalityType
<1> QED BY <1>1, <1>2

(* After Permit has told a pod to wait, its group is too small: the        *)
(* snapshot, which has at least the pods of now, and the pod itself.       *)
LEMMA WaitIsTooFew ==
    ASSUME Inv, NEW p \in Pods, cycle.pod = p, NEW found \in BOOLEAN,
           GetPodGroup(p, "Permit", found), PermitStatus(p, found) = "Wait"
    PROVE  Cardinality(Assigned(node, GroupOf[p])) < MinMember[GroupOf[p]]
<1> DEFINE g == GroupOf[p]
           shown == Assigned(snapshot, g)
           now == Assigned(node, g)
<1>1. g \in groups /\ ~(Cardinality(shown) + 1 >= MinMember[g])
  <2>1. found
    BY CoschedulingAssumption DEF PermitStatus
  <2>2. g \in groups
    BY <2>1, Reading, ThePoints DEF ReadAt, Inv
  <2> QED BY <2>1, <2>2 DEF PermitStatus, CalculateAssignedPods
<1>2. now \subseteq shown \cup {p}
  BY DEF Assigned, Members, Inv, SnapshotInv
<1>3. IsFiniteSet(shown) /\ Cardinality(shown) \in Nat
  BY Assignable
<1>4. IsFiniteSet(shown \cup {p}) /\ Cardinality(shown \cup {p}) <= Cardinality(shown) + 1
  BY <1>3, OneMore
<1>5. Cardinality(now) \in Nat /\ Cardinality(shown \cup {p}) \in Nat
      /\ Cardinality(now) <= Cardinality(shown \cup {p})
  BY <1>2, <1>4, FewerAssigned
<1>6. MinMember[g] \in Nat
  BY <1>1, CoschedulingAssumption DEF Inv, CoschedulingTypeOK
<1> QED BY <1>1, <1>3, <1>4, <1>5, <1>6

(* All steps but those that end a cycle with a pod on a node keep every    *)
(* group as it was, or smaller.                                            *)
Shrinks == groups' \subseteq groups /\ \A g \in groups' : Kept(g)

LEMMA KeptMeans ==
    ASSUME NEW g,
           \A q \in Pods : /\ node'[q] # NoNode /\ q # cycle'.pod
                              => node[q] # NoNode /\ q # cycle.pod
                           /\ stage'[q] = "waiting" => stage[q] = "waiting"
    PROVE  Kept(g)
  BY DEF Kept, Assigned, Waiting, Members

LEMMA ShrinkingStep ==
    ASSUME Inv, NEW p \in Pods, PodStep(p),
           ~Park(p), ~(Permit(p) /\ cycle' = Idle)
    PROVE  Shrinks
<1> USE CoschedulingAssumption DEF Inv, CoschedulingTypeOK, CycleInv, Unplaced, Idle
<1> SUFFICES /\ groups' = groups
             /\ \A q \in Pods : /\ node'[q] # NoNode /\ q # cycle'.pod
                                   => node[q] # NoNode /\ q # cycle.pod
                                /\ stage'[q] = "waiting" => stage[q] = "waiting"
  BY KeptMeans DEF Shrinks
<1>1. CASE Pop(p)
  BY <1>1 DEF Pop
<1>2. CASE PreFilter(p)
  BY <1>2 DEF PreFilter
<1>3. CASE Filter(p)
  BY <1>3, ZenonT(30) DEF Filter
<1>4. CASE PostFilter(p)
  BY <1>4 DEF PostFilter, EndCycle, Reject
<1>5. CASE Permit(p)
  <2>0. PICK found \in BOOLEAN : PermitStep(p, found)
    BY <1>5, PermitSteps
  <2>1. CASE PermitStatus(p, found) = "PodGroupNotFound"
    BY <2>0, <2>1 DEF PermitStep
  <2>2. CASE PermitStatus(p, found) = "Wait"
    BY <2>0, <2>2 DEF PermitStep
  <2> QED BY <1>5, <2>0, <2>1, <2>2 DEF PermitStep, EndCycle
<1>6. CASE Timeout(p) \/ Bind(p) \/ BindFails(p)
  BY <1>6 DEF Timeout, Bind, BindFails
<1>7. CASE Unreserve(p)
  BY <1>7 DEF Unreserve, Unreserved, Reject
<1>9. CASE TurnBack(p)
  BY <1>9, ZenonT(30) DEF TurnBack, Unreserved, Reject, EndCycle
<1>8. CASE Forget(p) \/ Requeue(p) \/ CreatePod(p) \/ DeletePod(p)
  BY <1>8, ZenonT(30) DEF Forget, Requeue, CreatePod, DeletePod
<1> QED BY <1>1, <1>2, <1>3, <1>4, <1>5, <1>6, <1>7, <1>8, <1>9
        DEF PodStep, CycleStep, BindingStep

(* No pod left behind, after any step.                                     *)
LEMMA NoneLeftBehind ==
    ASSUME Inv, Next, NEW g \in groups'
    PROVE  Cardinality(Assigned(node, g)' \ {cycle'.pod}) >= MinMember[g] => Waiting(g)' = {}
<1> USE CoschedulingAssumption DEF Inv, CoschedulingTypeOK, CycleInv, Idle
<1>1. ASSUME Shrinks
      PROVE  Cardinality(Assigned(node, g)' \ {cycle'.pod}) >= MinMember[g] => Waiting(g)' = {}
  BY <1>1, KeptSuffices DEF Shrinks
<1>2. ASSUME NEW p \in Pods, Park(p)
      PROVE  Cardinality(Assigned(node, g)' \ {cycle'.pod}) >= MinMember[g] => Waiting(g)' = {}
  <2>1. g \in groups
    BY <1>2 DEF Park
  <2>2. CASE GroupOf[p] = g
    <3>1. Cardinality(Assigned(node, g)) < MinMember[g]
      BY <1>2, <2>1, <2>2 DEF Park, WaitingInv
    <3>2. Assigned(node, g)' \ {cycle'.pod} \subseteq Assigned(node, g)
      BY <1>2 DEF Park, Assigned, Members
    <3>3. /\ Cardinality(Assigned(node, g)' \ {cycle'.pod}) \in Nat
          /\ Cardinality(Assigned(node, g)' \ {cycle'.pod}) <= Cardinality(Assigned(node, g))
          /\ Cardinality(Assigned(node, g)) \in Nat
      BY <3>2, Assignable, FewerAssigned
    <3>4. MinMember[g] \in Nat
      BY <2>1
    <3> QED BY <3>1, <3>3, <3>4
  <2>3. CASE GroupOf[p] # g
    <3>1. Kept(g)
      BY <1>2, <2>3, ZenonT(30) DEF Park, EndCycle, Kept, Assigned, Waiting, Members
    <3> QED BY <2>1, <3>1, KeptSuffices
  <2> QED BY <2>2, <2>3
<1>3. ASSUME NEW p \in Pods, Permit(p), cycle' = Idle
      PROVE  Cardinality(Assigned(node, g)' \ {cycle'.pod}) >= MinMember[g] => Waiting(g)' = {}
  <2>1. /\ g \in groups /\ node' = node /\ cycle' = Idle /\ cycle.pod = p
        /\ stage' = Allow([stage EXCEPT ![p] = "allowed"], GroupOf[p])
    <3>1. PICK found \in BOOLEAN : PermitStep(p, found)
      BY <1>3, PermitSteps
    <3> QED BY <1>3, <3>1 DEF PermitStep, EndCycle
  <2>2. CASE GroupOf[p] = g
    BY <2>1, <2>2 DEF Allow, Waiting, Members
  <2>3. CASE GroupOf[p] # g
    <3>1. Kept(g)
      BY <2>1, <2>3 DEF Allow, Kept, Assigned, Waiting, Members
    <3> QED BY <2>1, <3>1, KeptSuffices
  <2> QED BY <2>2, <2>3
<1>4. ASSUME NEW h \in Groups, GroupStep(h) PROVE Shrinks
  <2>1. groups' \subseteq groups /\ UNCHANGED <<stage, node, cycle>>
    BY <1>4 DEF GroupStep, ExpirePermitted, ExpireBackoff, DeleteGroup
  <2> QED BY <2>1, KeptMeans DEF Shrinks
<1> QED BY <1>1, <1>2, <1>3, <1>4, ShrinkingStep DEF Next

(* A pod about to be parked stays one too few.                             *)
LEMMA StaysTooFew ==
    ASSUME Inv, Next, NEW g \in groups', NEW p \in Pods,
           cycle' = [pod |-> p, at |-> "Park"], GroupOf[p] = g
    PROVE  Cardinality(Assigned(node, g)') < MinMember[g]
<1> USE CoschedulingAssumption DEF Inv, CoschedulingTypeOK, CycleInv, Idle
<1>1. CASE Permit(p)
  <2>0. PICK found \in BOOLEAN : PermitStep(p, found)
    BY <1>1, PermitSteps
  <2>1. /\ PermitStatus(p, found) = "Wait" /\ node' = node /\ cycle.pod = p
        /\ GetPodGroup(p, "Permit", found)
    BY <2>0 DEF PermitStep, EndCycle
  <2>2. Assigned(node, g)' = Assigned(node, g)
    BY <2>1 DEF Assigned, Members
  <2> QED BY <2>1, <2>2, WaitIsTooFew
<1>2. CASE cycle' = cycle /\ groups' \subseteq groups
           /\ \A q \in Pods : node'[q] # NoNode => node[q] # NoNode
  <2>1. Cardinality(Assigned(node, g)) < MinMember[g]
    BY <1>2 DEF WaitingInv
  <2>2. Assigned(node, g)' \subseteq Assigned(node, g)
    BY <1>2 DEF Assigned, Members
  <2>3. /\ Cardinality(Assigned(node, g)') \in Nat /\ Cardinality(Assigned(node, g)) \in Nat
        /\ Cardinality(Assigned(node, g)') <= Cardinality(Assigned(node, g))
    BY <2>2, Assignable, FewerAssigned
  <2>4. MinMember[g] \in Nat
    BY <1>2
  <2> QED BY <2>1, <2>3, <2>4
<1>3. ASSUME NEW q \in Pods, PodStep(q), ~Permit(p)
      PROVE  cycle' = cycle /\ groups' \subseteq groups
             /\ \A r \in Pods : node'[r] # NoNode => node[r] # NoNode
  <2>1. /\ ~Pop(q) /\ ~PreFilter(q) /\ ~Filter(q) /\ ~PostFilter(q) /\ ~Permit(q) /\ ~Park(q)
        /\ ~TurnBack(q)
    <3>1. cycle' # Idle /\ cycle'.at = "Park"
      BY <1>3
    <3>2. ~Pop(q)
      BY <3>1 DEF Pop
    <3>3. ~PreFilter(q)
      BY <3>1 DEF PreFilter
    <3>4. ~Filter(q)
      BY <3>1 DEF Filter
    <3>5. ~PostFilter(q) /\ ~Park(q) /\ ~TurnBack(q)
      BY <3>1 DEF PostFilter, Park, TurnBack, EndCycle
    <3>6. ~Permit(q)
      BY <1>3, <3>1 DEF Permit, EndCycle
    <3> QED BY <3>2, <3>3, <3>4, <3>5, <3>6
  <2>2. CASE Timeout(q) \/ Bind(q) \/ BindFails(q) \/ Unreserve(q) \/ Requeue(q) \/ CreatePod(q)
    BY <2>2 DEF Timeout, Bind, BindFails, Unreserve, Requeue, CreatePod
  <2>3. CASE Forget(q) \/ DeletePod(q)
    BY <2>3 DEF Forget, DeletePod
  <2> QED BY <1>3, <2>1, <2>2, <2>3 DEF PodStep, CycleStep, BindingStep
<1>4. ASSUME NEW h \in Groups, GroupStep(h)
      PROVE  cycle' = cycle /\ groups' \subseteq groups
             /\ \A r \in Pods : node'[r] # NoNode => node[r] # NoNode
  BY <1>4 DEF GroupStep, ExpirePermitted, ExpireBackoff, DeleteGroup
<1> QED BY <1>1, <1>2, <1>3, <1>4 DEF Next

(* Steps that neither back a group off nor make a pod wait.                *)
LEMMA BackoffCalm ==
    ASSUME Inv, backedOffPG' \subseteq backedOffPG, missed \subseteq missed', groups' \subseteq groups,
           \A q \in Pods : stage'[q] = "waiting" => stage[q] = "waiting",
           \/ cycle' = cycle \/ cycle'.at \in {"idle", "PreFilter", "PostFilter", "Unreserve"}
           \/ cycle'.pod = cycle.pod /\ cycle.at = "Filter" /\ cycle'.at = "Permit"
    PROVE  BackoffInv'
<1>1. BackoffHoldsNothing'
  BY DEF Inv, BackoffInv, BackoffHoldsNothing, Waiting, Members
<1>2. ASSUME NEW p \in Pods, cycle'.pod = p, GroupOf[p] \in backedOffPG',
             \/ cycle'.at \in {"Filter", "Permit"} /\ GroupOf[p] \in groups'
             \/ cycle'.at = "Park"
      PROVE  <<p, "PreFilter">> \in missed'
  BY <1>2 DEF Inv, BackoffInv
<1> QED BY <1>1, <1>2 DEF BackoffInv

LEMMA BackoffStepInv == Inv /\ Next => BackoffInv'
<1> SUFFICES ASSUME Inv, Next PROVE BackoffInv'
  OBVIOUS
<1>r. \A r \in Pods, point \in Points, found \in BOOLEAN :
          GetPodGroup(r, point, found) => ReadAt(r, point, found)
  BY Reading, Zenon DEF Inv
<1> USE CoschedulingAssumption DEF Inv, CoschedulingTypeOK, CycleInv, Idle
<1>1. ASSUME NEW p \in Pods, PodStep(p) PROVE BackoffInv'
  <2>1. CASE Pop(p)
    <3>1. /\ stage[p] = "active" /\ stage' = [stage EXCEPT ![p] = "cycle"]
          /\ missed' = missed \ ({p} \X Points) /\ UNCHANGED <<groups, backedOffPG>>
          /\ cycle' = [pod |-> p, at |-> "PreFilter"]
      BY <2>1 DEF Pop
    <3>2. BackoffHoldsNothing'
      <4> SUFFICES ASSUME NEW g \in backedOffPG, NEW q \in Waiting(g)'
                   PROVE  <<q, "PreFilter">> \in missed'
        BY <3>1 DEF BackoffHoldsNothing
      <4>1. q \in Pods /\ q # p /\ q \in Waiting(g)
        BY <3>1 DEF Waiting, Members
      <4>2. <<q, "PreFilter">> \in missed
        BY <4>1 DEF BackoffInv, BackoffHoldsNothing
      <4> QED BY <3>1, <4>1, <4>2
    <3> QED BY <3>1, <3>2 DEF BackoffInv
  <2>2. CASE PreFilter(p)
    <3>1. PICK found \in BOOLEAN :
             /\ GetPodGroup(p, "PreFilter", found)
             /\ cycle' = [cycle EXCEPT !.at = IF PreFilterPasses(p, found) THEN "Filter" ELSE "PostFilter"]
      BY <2>2 DEF PreFilter
    <3>2. missed \subseteq missed' /\ (GroupOf[p] \in groups /\ ~found => <<p, "PreFilter">> \in missed')
      <4> HIDE DEF Inv, CoschedulingTypeOK, CycleInv, Idle
      <4>1. ReadAt(p, "PreFilter", found)
        BY <3>1, <1>r, ThePoints, Zenon
      <4> QED BY <3>1, <4>1 DEF ReadAt
    <3>3. UNCHANGED <<stage, groups, backedOffPG>> /\ cycle = [pod |-> p, at |-> "PreFilter"]
      BY <2>2 DEF PreFilter
    <3>4. BackoffHoldsNothing'
      BY <3>2, <3>3 DEF BackoffInv, BackoffHoldsNothing, Waiting, Members
    <3>5. found /\ GroupOf[p] \in backedOffPG => ~PreFilterPasses(p, found)
      BY DEF PreFilterPasses
    <3>6. cycle'.pod = p /\ cycle'.at \in {"Filter", "PostFilter"}
          /\ (cycle'.at = "Filter" => PreFilterPasses(p, found))
      BY <3>1, <3>3
    <3> QED BY <3>2, <3>3, <3>4, <3>5, <3>6 DEF BackoffInv
  <2>3. CASE Filter(p)
    BY <2>3, BackoffCalm DEF Filter
  <2>4. CASE PostFilter(p)
    <3>1. PICK found \in BOOLEAN :
             /\ GetPodGroup(p, "PostFilter", found)
             /\ stage' = IF GivesUp(p, found) THEN Reject([stage EXCEPT ![p] = "parked"], GroupOf[p])
                         ELSE [stage EXCEPT ![p] = "parked"]
             /\ backedOffPG' = backedOffPG \cup
                    {h \in Groups \cap {GroupOf[p]} : /\ GivesUp(p, found) /\ BackoffSet
                                                     /\ Cardinality(Listed(h)) >= MinMember[h]}
      BY <2>4 DEF PostFilter
    <3>2. missed \subseteq missed' /\ cycle' = Idle
      <4> HIDE DEF Inv, CoschedulingTypeOK, CycleInv, Idle
      <4>1. ReadAt(p, "PostFilter", found)
        BY <2>4, <3>1, <1>r, ThePoints, Zenon DEF PostFilter, EndCycle
      <4> QED BY <2>4, <3>1, <4>1 DEF ReadAt, PostFilter, EndCycle
    <3>3. CASE GivesUp(p, found)
      <4>1. \A q \in Pods : stage'[q] = "waiting" => stage[q] = "waiting" /\ GroupOf[q] # GroupOf[p]
        BY <3>1, <3>3 DEF Reject, Waiting, Members
      <4>2. backedOffPG' \subseteq backedOffPG \cup {GroupOf[p]}
        BY <3>1
      <4>3. BackoffHoldsNothing'
        BY <3>2, <4>1, <4>2 DEF BackoffInv, BackoffHoldsNothing, Waiting, Members
      <4> QED BY <3>2, <4>3 DEF BackoffInv
    <3>4. CASE ~GivesUp(p, found)
      <4>1. backedOffPG' = backedOffPG /\ stage' = [stage EXCEPT ![p] = "parked"]
        BY <3>1, <3>4
      <4>2. BackoffHoldsNothing'
        BY <3>2, <4>1 DEF BackoffInv, BackoffHoldsNothing, Waiting, Members
      <4> QED BY <3>2, <4>2 DEF BackoffInv
    <3> QED BY <3>3, <3>4
  <2>5. CASE Permit(p)
    <3>0. PICK found \in BOOLEAN : PermitStep(p, found)
      BY <2>5, PermitSteps
    <3>1. /\ missed \subseteq missed' /\ (found => GroupOf[p] \in groups)
          /\ cycle = [pod |-> p, at |-> "Permit"] /\ UNCHANGED <<groups, backedOffPG>>
      <4> HIDE DEF Inv, CoschedulingTypeOK, CycleInv, Idle
      <4>0. GetPodGroup(p, "Permit", found)
        BY <3>0 DEF PermitStep
      <4>1. ReadAt(p, "Permit", found)
        BY <4>0, <1>r, ThePoints, Zenon
      <4> QED BY <3>0, <4>1 DEF ReadAt, PermitStep
    <3>2. \A q \in Pods : stage'[q] = "waiting" => stage[q] = "waiting"
      BY <3>0 DEF PermitStep, Allow
    <3>3. CASE PermitStatus(p, found) # "Wait"
      BY <3>0, <3>1, <3>2, <3>3, BackoffCalm DEF PermitStep, EndCycle
    <3>4. CASE PermitStatus(p, found) = "Wait"
      <4>1. cycle'.pod = p /\ cycle'.at = "Park"
        BY <3>0, <3>4 DEF PermitStep, EndCycle
      <4>2. found
        BY <3>4 DEF PermitStatus
      <4>3. BackoffHoldsNothing'
        BY <3>1, <3>2 DEF BackoffInv, BackoffHoldsNothing, Waiting, Members
      <4> QED BY <3>1, <4>1, <4>2, <4>3 DEF BackoffInv
    <3> QED BY <3>3, <3>4
  <2>6. CASE Park(p)
    <3>1. /\ cycle = [pod |-> p, at |-> "Park"] /\ cycle' = Idle
          /\ stage' = [stage EXCEPT ![p] = "waiting"] /\ UNCHANGED <<backedOffPG, missed>>
      BY <2>6 DEF Park, EndCycle
    <3>2. GroupOf[p] \in backedOffPG => <<p, "PreFilter">> \in missed
      BY <3>1 DEF BackoffInv
    <3>3. BackoffHoldsNothing'
      BY <3>1, <3>2 DEF BackoffInv, BackoffHoldsNothing, Waiting, Members
    <3> QED BY <3>1, <3>3 DEF BackoffInv
  <2>7. CASE Timeout(p) \/ Bind(p) \/ BindFails(p)
    BY <2>7, BackoffCalm DEF Timeout, Bind, BindFails
  <2>8. CASE Unreserve(p)
    <3>1. PICK found \in BOOLEAN : Unreserved(p, [stage EXCEPT ![p] = "unreserved"], found)
      BY <2>8 DEF Unreserve
    <3>3. missed \subseteq missed'
      <4> HIDE DEF Inv, CoschedulingTypeOK, CycleInv, Idle
      <4>1. ReadAt(p, "Unreserve", found)
        BY <3>1, <1>r, ThePoints, Zenon DEF Unreserved
      <4> QED BY <3>1, <4>1 DEF ReadAt, Unreserved
    <3>4. \A q \in Pods : stage'[q] = "waiting" => stage[q] = "waiting"
      BY <3>1 DEF Unreserved, Reject
    <3>2. missed \subseteq missed' /\ \A q \in Pods : stage'[q] = "waiting" => stage[q] = "waiting"
      BY <3>3, <3>4
    <3> QED BY <2>8, <3>2, BackoffCalm DEF Unreserve
  <2>9. CASE Forget(p) \/ Requeue(p) \/ CreatePod(p) \/ DeletePod(p)
    BY <2>9, BackoffCalm DEF Forget, Requeue, CreatePod, DeletePod
  <2>10. CASE TurnBack(p)
    <3>1. PICK found \in BOOLEAN : Unreserved(p, [stage EXCEPT ![p] = "parked"], found)
      BY <2>10 DEF TurnBack
    <3>3. missed \subseteq missed'
      <4> HIDE DEF Inv, CoschedulingTypeOK, CycleInv, Idle
      <4>1. ReadAt(p, "Unreserve", found)
        BY <3>1, <1>r, ThePoints, Zenon DEF Unreserved
      <4> QED BY <3>1, <4>1 DEF ReadAt, Unreserved
    <3>4. \A q \in Pods : stage'[q] = "waiting" => stage[q] = "waiting"
      BY <3>1 DEF Unreserved, Reject
    <3>2. missed \subseteq missed' /\ \A q \in Pods : stage'[q] = "waiting" => stage[q] = "waiting"
      BY <3>3, <3>4
    <3> QED BY <2>10, <3>2, BackoffCalm DEF TurnBack, EndCycle
  <2> QED BY <1>1, <2>1, <2>2, <2>3, <2>4, <2>5, <2>6, <2>7, <2>8, <2>9, <2>10
          DEF PodStep, CycleStep, BindingStep
<1>2. ASSUME NEW g \in Groups, GroupStep(g) PROVE BackoffInv'
  BY <1>2, BackoffCalm DEF GroupStep, ExpirePermitted, ExpireBackoff, DeleteGroup
<1> QED BY <1>1, <1>2 DEF Next

-----------------------------------------------------------------------------
(* Theorems.                                                               *)

LEMMA InvStep == Inv /\ [Next]_vars => Inv'
<1> SUFFICES ASSUME Inv, [Next]_vars PROVE Inv'
  OBVIOUS
<1>1. CASE Next
  <2>1. WaitingInv'
    BY <1>1, NoneLeftBehind, StaysTooFew DEF WaitingInv
  <2> QED BY <1>1, <2>1, TypeStep, CycleStepInv, SnapshotStepInv, BackoffStepInv DEF Inv
<1>2. CASE UNCHANGED vars
  BY <1>2 DEF vars, Inv, CoschedulingTypeOK, CycleInv, SnapshotInv, WaitingInv, BackoffInv,
              BackoffHoldsNothing, Waiting, Members, Assigned
<1> QED BY <1>1, <1>2

(* The invariant of Coscheduling's cycle, snapshot, waiting pods and       *)
(* backed off groups holds in every reachable state.                       *)
THEOREM CoschedulingInvariant == Spec => []Inv
  BY InitInv, InvStep, PTL DEF Spec

(* The stages, nodes, cycle and caches of Coscheduling keep their types.   *)
THEOREM CoschedulingTypes == Spec => []CoschedulingTypeOK
<1>1. Inv => CoschedulingTypeOK
  BY DEF Inv
<1> QED BY <1>1, CoschedulingInvariant, PTL

(* Permit's count in a snapshot leaves nobody behind: between cycles no    *)
(* pod waits in a group of which MinMember pods have a node.               *)
THEOREM NobodyStranded == Spec => []NoStrandedWaiter
<1>1. Inv => NoStrandedWaiter
  <2> SUFFICES ASSUME Inv, cycle = Idle, NEW g \in groups,
                      Cardinality(Assigned(node, g)) >= MinMember[g]
               PROVE  Waiting(g) = {}
    BY DEF NoStrandedWaiter
  <2>1. Assigned(node, g) \ {cycle.pod} = Assigned(node, g)
    BY Assignable, CoschedulingAssumption DEF Idle
  <2> QED BY <2>1 DEF Inv, WaitingInv
<1> QED BY <1>1, CoschedulingInvariant, PTL

(* PostFilter's backoff and PreFilter's test of it: no pod of a group that *)
(* is backed off holds a node in Permit, unless PreFilter could not read   *)
(* the group for it, however many reads fail at whatever extension points. *)
THEOREM BackedOffGroupsWaitForNothing == Spec => []BackoffHoldsNothing
<1>1. Inv => BackoffHoldsNothing
  BY DEF Inv, BackoffInv
<1> QED BY <1>1, CoschedulingInvariant, PTL

-----------------------------------------------------------------------------
(* Groups of two.                                                          *)

Placed == {"waiting", "allowed", "rejected", "unreserved", "bound"}

(* A pod past the scheduling cycle keeps its node until it is forgotten.   *)
PlacedInv ==
    /\ \A p \in Pods : stage[p] \in Placed => node[p] # NoNode
    /\ \A p \in Pods : cycle.pod = p /\ cycle.at \in {"Permit", "Park"} => node[p] # NoNode

SomeActive(g) == \E q \in Members(g) : stage[q] = "active"

(* Somebody is on the way to the waiting pods of a group: an active pod,   *)
(* or the one in the cycle, which will let them go or turn them back.      *)
OnTheWay(g) ==
    /\ cycle.pod \notin Members(g) /\ Waiting(g) # {} => SomeActive(g)
    /\ cycle.pod \in Members(g) =>
          /\ Waiting(g) # {} => Cardinality(Assigned(snapshot, g)) < MinMember[g]
          /\ cycle.at \in {"Filter", "Permit"} /\ MinMember[g] = 2 =>
                \E q \in Members(g) \ {cycle.pod} : stage[q] \notin {"absent", "gone"}
          /\ cycle.at = "Park" => SomeActive(g)

SiblingInv ==
    calm => /\ groups = Groups
            /\ \A g \in Groups : MinMember[g] <= 2 => OnTheWay(g)

LEMMA PlacedStep == Inv /\ PlacedInv /\ Next => PlacedInv'
<1> SUFFICES ASSUME Inv, PlacedInv, Next PROVE PlacedInv'
  OBVIOUS
<1> USE CoschedulingAssumption DEF Inv, CoschedulingTypeOK, CycleInv, PlacedInv, Placed, Idle
<1>1. ASSUME NEW p \in Pods, PodStep(p) PROVE PlacedInv'
  <2>1. CASE Pop(p)
    BY <2>1 DEF Pop
  <2>2. CASE PreFilter(p)
    BY <2>2 DEF PreFilter
  <2>3. CASE Filter(p)
    BY <2>3 DEF Filter
  <2>4. CASE PostFilter(p)
    BY <2>4, WaitingMeans DEF PostFilter, EndCycle, Reject
  <2>5. CASE Permit(p)
    <3>0. PICK found \in BOOLEAN : PermitStep(p, found)
      BY <2>5, PermitSteps
    <3>1. CASE PermitStatus(p, found) = "PodGroupNotFound"
      BY <3>0, <3>1 DEF PermitStep
    <3>2. CASE PermitStatus(p, found) \in {"PodGroupNotSpecified", "Success"}
      BY <3>0, <3>2, WaitingMeans DEF PermitStep, EndCycle, Allow
    <3>3. CASE PermitStatus(p, found) = "Wait"
      BY <3>0, <3>3 DEF PermitStep, Siblings
    <3> QED BY <3>0, <3>1, <3>2, <3>3 DEF PermitStep
  <2>6. CASE Park(p)
    BY <2>6, ZenonT(30) DEF Park, EndCycle
  <2>7. CASE Timeout(p) \/ Bind(p) \/ BindFails(p)
    BY <2>7, ZenonT(30) DEF Timeout, Bind, BindFails
  <2>8. CASE Unreserve(p)
    BY <2>8, WaitingMeans DEF Unreserve, Unreserved, Reject
  <2>10. CASE TurnBack(p)
    BY <2>10, WaitingMeans DEF TurnBack, Unreserved, EndCycle, Reject
  <2>9. CASE Forget(p) \/ Requeue(p) \/ CreatePod(p) \/ DeletePod(p)
    BY <2>9 DEF Forget, Requeue, CreatePod, DeletePod
  <2> QED BY <1>1, <2>1, <2>2, <2>3, <2>4, <2>5, <2>6, <2>7, <2>8, <2>9, <2>10
          DEF PodStep, CycleStep, BindingStep
<1>2. ASSUME NEW g \in Groups, GroupStep(g) PROVE PlacedInv'
  BY <1>2 DEF GroupStep, ExpirePermitted, ExpireBackoff, DeleteGroup
<1> QED BY <1>1, <1>2 DEF Next

(* The snapshot shows every placed pod but the one in the cycle.           *)
LEMMA Shown ==
    ASSUME Inv, PlacedInv, NEW p \in Pods, cycle.pod = p, NEW g,
           NEW q \in Members(g), stage[q] \in Placed
    PROVE  q \in Assigned(snapshot, g)
<1>1. q \in Pods /\ q # p
  BY DEF Members, Inv, CycleInv, Placed
<1> QED BY <1>1 DEF Inv, SnapshotInv, PlacedInv, Assigned, Members

LEMMA SomeAssigned ==
    ASSUME NEW where, NEW g
    PROVE  /\ Cardinality(Assigned(where, g)) \in Nat
           /\ Cardinality(Assigned(where, g)) = 0 <=> Assigned(where, g) = {}
  BY Assignable, FS_EmptySet

(* A group that needs two has another pod than the one in the cycle.       *)
LEMMA AnotherListed ==
    ASSUME NEW p \in Pods, NEW g, Cardinality(Listed(g)) >= 2
    PROVE  \E q \in Members(g) \ {p} : stage[q] \notin {"absent", "gone"}
<1>1. CASE Listed(g) \subseteq {p}
  <2>1. IsFiniteSet({p}) /\ Cardinality({p}) = 1
    BY FS_Singleton
  <2>2. Cardinality(Listed(g)) <= 1 /\ Cardinality(Listed(g)) \in Nat
    BY <1>1, <2>1, FewerAssigned
  <2> QED BY <2>2
<1>2. CASE ~(Listed(g) \subseteq {p})
  BY <1>2 DEF Listed
<1> QED BY <1>1, <1>2

(* Steps beside the scheduling cycle.                                      *)
LEMMA BesideOnTheWay ==
    ASSUME NEW g, OnTheWay(g), UNCHANGED <<cycle, snapshot>>,
           \A q \in Pods :
              /\ stage'[q] = "waiting" => stage[q] = "waiting"
              /\ stage[q] = "active" => stage'[q] = "active"
              /\ stage[q] \notin {"absent", "gone"} => stage'[q] \notin {"absent", "gone"}
    PROVE  OnTheWay(g)'
<1>1. Waiting(g)' # {} => Waiting(g) # {}
  BY DEF Waiting, Members
<1>2. SomeActive(g) => SomeActive(g)'
  BY DEF SomeActive, Members
<1>3. Assigned(snapshot, g)' = Assigned(snapshot, g)
  BY DEF Assigned, Members
<1> QED BY <1>1, <1>2, <1>3 DEF OnTheWay, Members

LEMMA PopOnTheWay ==
    ASSUME Inv, NEW p \in Pods, Pop(p), NEW g \in groups, OnTheWay(g)
    PROVE  OnTheWay(g)'
<1>0. /\ cycle.pod = NoPod /\ cycle'.pod = p /\ cycle'.at = "PreFilter"
      /\ snapshot' = node /\ UNCHANGED node
  BY DEF Pop, Idle
<1>1. Waiting(g)' # {} => Waiting(g) # {}
  BY DEF Pop, Waiting, Members, Inv, CoschedulingTypeOK
<1>2. CASE p \notin Members(g)
  <2>1. NoPod \notin Members(g)
    BY CoschedulingAssumption DEF Members
  <2>2. SomeActive(g) => SomeActive(g)'
    BY <1>2 DEF Pop, SomeActive, Members, Inv, CoschedulingTypeOK
  <2> QED BY <1>0, <1>1, <1>2, <2>1, <2>2 DEF OnTheWay, Members
<1>3. CASE p \in Members(g)
  <2>1. Waiting(g) # {} => Cardinality(Assigned(node, g)) < MinMember[g]
    <3>1. Assigned(node, g) \ {cycle.pod} = Assigned(node, g)
      BY <1>0, Assignable, CoschedulingAssumption
    <3>2. Cardinality(Assigned(node, g)) \in Nat /\ MinMember[g] \in Nat
      BY Assignable, CoschedulingAssumption DEF Inv, CoschedulingTypeOK
    <3> QED BY <3>1, <3>2 DEF Inv, WaitingInv
  <2>2. Assigned(snapshot, g)' = Assigned(node, g)
    BY <1>0 DEF Assigned, Members
  <2> QED BY <1>0, <1>1, <1>3, <2>1, <2>2 DEF OnTheWay, Members
<1> QED BY <1>2, <1>3

LEMMA FilterOnTheWay ==
    ASSUME Inv, NEW p \in Pods, PreFilter(p) \/ Filter(p), NEW g \in groups,
           OnTheWay(g), calm'
    PROVE  OnTheWay(g)'
<1>0. /\ UNCHANGED <<stage, snapshot>> /\ cycle.pod = p /\ cycle'.pod = p
      /\ cycle'.at # "Park"
  <2>1. CASE PreFilter(p)
    BY <2>1 DEF PreFilter
  <2>2. CASE Filter(p)
    BY <2>2 DEF Filter
  <2> QED BY <2>1, <2>2
<1>1. /\ Waiting(g)' = Waiting(g) /\ SomeActive(g)' = SomeActive(g)
      /\ Assigned(snapshot, g)' = Assigned(snapshot, g)
  BY <1>0 DEF Waiting, SomeActive, Assigned, Members
<1>2. ASSUME p \in Members(g), MinMember[g] = 2, cycle'.at \in {"Filter", "Permit"}
      PROVE  \E q \in Members(g) \ {p} : stage[q] \notin {"absent", "gone"}
  <2>1. CASE PreFilter(p)
    <3>0. PICK found \in BOOLEAN :
             /\ GetPodGroup(p, "PreFilter", found)
             /\ cycle' = [cycle EXCEPT !.at = IF PreFilterPasses(p, found) THEN "Filter" ELSE "PostFilter"]
      BY <2>1 DEF PreFilter
    <3>1. PreFilterPasses(p, found) /\ GroupOf[p] = g /\ found
      <4>1. GroupOf[p] = g
        BY <1>2 DEF Members
      <4>2. cycle'.at = IF PreFilterPasses(p, found) THEN "Filter" ELSE "PostFilter"
        BY <2>1, <3>0 DEF PreFilter, Inv, CoschedulingTypeOK
      <4>3. found = (GroupOf[p] \in groups)
        BY <3>0, Reading, ThePoints DEF ReadAt, Inv
      <4> QED BY <1>2, <4>1, <4>2, <4>3
    <3>2. Cardinality(Listed(g)) >= 2
      BY <1>2, <3>1 DEF PreFilterPasses
    <3> QED BY <3>2, AnotherListed
  <2>2. CASE Filter(p)
    BY <1>0, <1>2, <2>2 DEF Filter, OnTheWay
  <2> QED BY <2>1, <2>2
<1> QED BY <1>0, <1>1, <1>2 DEF OnTheWay, Members

LEMMA PostFilterOnTheWay ==
    ASSUME Inv, PlacedInv, NEW p \in Pods, PostFilter(p), NEW g \in groups,
           MinMember[g] <= 2, OnTheWay(g), calm'
    PROVE  OnTheWay(g)'
<1>0. /\ cycle.pod = p /\ cycle' = Idle /\ cycle'.pod \notin Members(g)
      /\ stage[p] = "cycle"
  BY CoschedulingAssumption DEF PostFilter, EndCycle, Idle, Members, Inv, CycleInv
<1>1. Waiting(g)' \subseteq Waiting(g)
  BY DEF PostFilter, Reject, Waiting, Members, Inv, CoschedulingTypeOK
<1>2. CASE p \notin Members(g)
  <2>1. SomeActive(g) => SomeActive(g)'
    BY <1>0, <1>2, WaitingMeans
       DEF PostFilter, Reject, SomeActive, Members, Inv, CoschedulingTypeOK
  <2> QED BY <1>0, <1>1, <1>2, <2>1 DEF OnTheWay, Members
<1>3. CASE p \in Members(g) /\ Waiting(g) # {}
  <2>1. PICK q \in Waiting(g) : TRUE
    BY <1>3
  <2>2. q \in Assigned(snapshot, g)
    BY <1>0, <2>1, Shown DEF Waiting, Placed
  <2> DEFINE assigned == Cardinality(Assigned(snapshot, g))
  <2>3. assigned \in Nat /\ assigned # 0
    BY <2>2, SomeAssigned
  <2>4. assigned < MinMember[g]
    BY <1>0, <1>3 DEF OnTheWay
  <2>5. MinMember[g] \in Nat
    BY CoschedulingAssumption DEF Inv, CoschedulingTypeOK
  <2>6. ~(assigned >= MinMember[g]) /\ ~(10 * (MinMember[g] - assigned) <= MinMember[g])
    <3> HIDE DEF assigned
    <3>1. assigned = 1 /\ MinMember[g] = 2
      BY <2>3, <2>4, <2>5
    <3> QED BY <3>1
  <2>7. GroupOf[p] = g
    BY <1>3 DEF Members
  <2> PICK found \in BOOLEAN :
         /\ GetPodGroup(p, "PostFilter", found)
         /\ stage' = IF GivesUp(p, found) THEN Reject([stage EXCEPT ![p] = "parked"], GroupOf[p])
                     ELSE [stage EXCEPT ![p] = "parked"]
    BY DEF PostFilter
  <2>8. GivesUp(p, found)
    <3>1. found
      <4>1. ReadAt(p, "PostFilter", found)
        BY Reading, ThePoints, Zenon DEF Inv
      <4> QED BY <2>7, <4>1 DEF ReadAt
    <3> QED BY <2>6, <2>7, <3>1 DEF GivesUp, WorthWaiting, CalculateAssignedPods
  <2>9. Waiting(g)' = {}
    BY <2>7, <2>8, <1>0 DEF PostFilter, Reject, Waiting, Members, Inv, CoschedulingTypeOK
  <2> QED BY <1>0, <2>9 DEF OnTheWay, Members
<1>4. CASE Waiting(g) = {}
  BY <1>0, <1>1, <1>4 DEF OnTheWay, Members
<1> QED BY <1>2, <1>3, <1>4

LEMMA PermitOnTheWay ==
    ASSUME Inv, PlacedInv, groups = Groups, NEW p \in Pods, Permit(p),
           NEW g \in groups, MinMember[g] <= 2, OnTheWay(g)
    PROVE  OnTheWay(g)'
<1>0. cycle.pod = p /\ stage[p] = "cycle" /\ cycle.at = "Permit"
  BY DEF Permit, Inv, CycleInv
<1> PICK found \in BOOLEAN : PermitStep(p, found)
  BY PermitSteps
<1>1. CASE PermitStatus(p, found) = "PodGroupNotFound"
  <2>1. /\ cycle'.pod = p /\ cycle'.at = "Unreserve" /\ UNCHANGED <<stage, snapshot>>
    BY <1>1 DEF PermitStep
  <2>2. /\ Waiting(g)' = Waiting(g) /\ SomeActive(g)' = SomeActive(g)
        /\ Assigned(snapshot, g)' = Assigned(snapshot, g)
    BY <2>1 DEF Waiting, SomeActive, Assigned, Members
  <2> QED BY <1>0, <2>1, <2>2 DEF OnTheWay, Members
<1>2. CASE PermitStatus(p, found) \in {"PodGroupNotSpecified", "Success"}
  <2>1. /\ stage' = Allow([stage EXCEPT ![p] = "allowed"], GroupOf[p])
        /\ cycle' = Idle /\ cycle'.pod \notin Members(g)
    BY <1>2, CoschedulingAssumption DEF PermitStep, EndCycle, Idle, Members
  <2>2. CASE p \in Members(g)
    <3>1. Waiting(g)' = {}
      BY <2>1, <2>2 DEF Allow, Waiting, Members
    <3> QED BY <2>1, <3>1 DEF OnTheWay, Members
  <2>3. CASE p \notin Members(g)
    <3>1. Waiting(g)' \subseteq Waiting(g)
      BY <2>1, <2>3 DEF Allow, Waiting, Members
    <3>2. SomeActive(g) => SomeActive(g)'
      BY <1>0, <2>1, <2>3 DEF Allow, Waiting, SomeActive, Members
    <3> QED BY <1>0, <2>1, <2>3, <3>1, <3>2 DEF OnTheWay, Members
  <2> QED BY <2>2, <2>3
<1>3. CASE PermitStatus(p, found) = "Wait"
  <2>1. /\ cycle'.pod = p /\ cycle'.at = "Park" /\ UNCHANGED snapshot
        /\ stage' = [q \in Pods |-> IF /\ CalculateAssignedPods(GroupOf[p]) = 0
                                       /\ q \in Siblings(p)
                                    THEN "active" ELSE stage[q]]
    BY <1>3 DEF PermitStep
  <2>2. CASE p \notin Members(g)
    <3>1. Waiting(g)' \subseteq Waiting(g) /\ (SomeActive(g) => SomeActive(g)')
      BY <2>1 DEF Waiting, SomeActive, Members
    <3> QED BY <1>0, <2>1, <2>2, <3>1 DEF OnTheWay, Members
  <2>3. CASE p \in Members(g)
    <3>1. GroupOf[p] = g
      BY <2>3 DEF Members
    <3>2. ~(CalculateAssignedPods(g) + 1 >= MinMember[g])
      BY <1>3, <3>1, CoschedulingAssumption DEF PermitStatus
    <3>3. CalculateAssignedPods(g) \in Nat /\ MinMember[g] \in Nat
      BY Assignable, CoschedulingAssumption
         DEF CalculateAssignedPods, Inv, CoschedulingTypeOK
    <3>4. CalculateAssignedPods(g) = 0 /\ MinMember[g] = 2
      BY <3>2, <3>3
    <3>5. Assigned(snapshot, g) = {}
      BY <3>4, SomeAssigned DEF CalculateAssignedPods
    <3>6. PICK q \in Members(g) \ {p} : stage[q] \notin {"absent", "gone"}
      BY <1>0, <2>3, <3>4 DEF OnTheWay
    <3>7. q \in Pods /\ stage[q] \in Stages /\ stage[q] \notin Placed /\ stage[q] # "cycle"
      BY <1>0, <3>5, <3>6, Shown DEF Members, Inv, CoschedulingTypeOK, CycleInv
    <3>8. stage[q] \in {"active", "parked"}
      BY <3>6, <3>7 DEF Stages, Placed
    <3>9. stage'[q] = "active"
      BY <2>1, <3>1, <3>4, <3>6, <3>7, <3>8 DEF Siblings
    <3>10. SomeActive(g)'
      BY <3>6, <3>9 DEF SomeActive, Members
    <3>11. Waiting(g)' = {}
      <4>1. Waiting(g)' \subseteq Waiting(g)
        BY <2>1 DEF Waiting, Members
      <4>2. Waiting(g) = {}
        BY <1>0, <3>5, Shown DEF Waiting, Placed
      <4> QED BY <4>1, <4>2
    <3> QED BY <2>1, <2>3, <3>10, <3>11 DEF OnTheWay, Members
  <2> QED BY <2>2, <2>3
<1> QED BY <1>1, <1>2, <1>3 DEF PermitStep

LEMMA TurnBackOnTheWay ==
    ASSUME Inv, NEW p \in Pods, TurnBack(p), NEW g \in groups, OnTheWay(g), calm'
    PROVE  OnTheWay(g)'
<1>0. /\ cycle.pod = p /\ cycle' = Idle /\ cycle'.pod \notin Members(g) /\ stage[p] = "cycle"
  BY CoschedulingAssumption DEF TurnBack, EndCycle, Idle, Members, Inv, CycleInv
<1>1. PICK found \in BOOLEAN : Unreserved(p, [stage EXCEPT ![p] = "parked"], found)
  BY DEF TurnBack
<1>2. Waiting(g)' \subseteq Waiting(g)
  BY <1>1 DEF Unreserved, Reject, Waiting, Members, Inv, CoschedulingTypeOK
<1>3. CASE p \notin Members(g)
  <2>1. SomeActive(g) => SomeActive(g)'
    BY <1>0, <1>1, <1>3, WaitingMeans
       DEF Unreserved, Reject, SomeActive, Members, Inv, CoschedulingTypeOK
  <2> QED BY <1>0, <1>2, <1>3, <2>1 DEF OnTheWay, Members
<1>4. CASE p \in Members(g)
  <2>1. GroupOf[p] = g /\ found
    <3>1. ReadAt(p, "Unreserve", found)
      BY <1>1, Reading, ThePoints, Zenon DEF Unreserved, Inv
    <3> QED BY <1>4, <3>1 DEF ReadAt, Members
  <2>2. Waiting(g)' = {}
    BY <1>1, <2>1 DEF Unreserved, Reject, Waiting, Members, Inv, CoschedulingTypeOK
  <2> QED BY <1>0, <2>2 DEF OnTheWay, Members
<1> QED BY <1>3, <1>4

LEMMA ParkOnTheWay ==
    ASSUME Inv, NEW p \in Pods, Park(p), NEW g \in groups, OnTheWay(g)
    PROVE  OnTheWay(g)'
<1>0. /\ cycle.pod = p /\ cycle.at = "Park" /\ stage[p] = "cycle"
      /\ cycle' = Idle /\ cycle'.pod \notin Members(g)
      /\ stage' = [stage EXCEPT ![p] = "waiting"]
  BY CoschedulingAssumption DEF Park, EndCycle, Idle, Members, Inv, CycleInv
<1>1. SomeActive(g) => SomeActive(g)'
  BY <1>0 DEF SomeActive, Members, Inv, CoschedulingTypeOK
<1>2. p \notin Members(g) => Waiting(g)' \subseteq Waiting(g)
  BY <1>0 DEF Waiting, Members, Inv, CoschedulingTypeOK
<1> QED BY <1>0, <1>1, <1>2 DEF OnTheWay, Members

LEMMA SiblingStep == Inv /\ PlacedInv /\ SiblingInv /\ [Next]_vars => SiblingInv'
<1> SUFFICES ASSUME Inv, PlacedInv, SiblingInv, [Next]_vars, calm'
             PROVE  SiblingInv'
  BY DEF SiblingInv
<1> DEFINE Beside ==
        /\ UNCHANGED <<cycle, snapshot>>
        /\ \A q \in Pods :
              /\ stage'[q] = "waiting" => stage[q] = "waiting"
              /\ stage[q] = "active" => stage'[q] = "active"
              /\ stage[q] \notin {"absent", "gone"} => stage'[q] \notin {"absent", "gone"}
<1>1. \/ Beside
      \/ \E p \in Pods : \/ Pop(p) \/ PreFilter(p) \/ Filter(p) \/ PostFilter(p)
                         \/ Permit(p) \/ Park(p) \/ TurnBack(p)
  <2>1. CASE UNCHANGED vars
    BY <2>1 DEF vars
  <2>2. ASSUME NEW g \in Groups, GroupStep(g) PROVE Beside
    BY <2>2 DEF GroupStep, ExpirePermitted, ExpireBackoff, DeleteGroup
  <2>3. ASSUME NEW p \in Pods, \/ Timeout(p) \/ Bind(p) \/ BindFails(p) \/ Forget(p)
                               \/ Requeue(p) \/ CreatePod(p) \/ DeletePod(p)
        PROVE  Beside
    BY <2>3 DEF Timeout, Bind, BindFails, Forget, Requeue, CreatePod, DeletePod,
                Inv, CoschedulingTypeOK
  <2>4. ASSUME NEW p \in Pods, Unreserve(p) PROVE Beside
    <3>1. PICK found \in BOOLEAN : Unreserved(p, [stage EXCEPT ![p] = "unreserved"], found)
      BY <2>4 DEF Unreserve
    <3>2. stage' = [stage EXCEPT ![p] = "unreserved"]
          \/ stage' = Reject([stage EXCEPT ![p] = "unreserved"], GroupOf[p])
      BY <3>1 DEF Unreserved
    <3>3. ASSUME NEW q \in Pods
          PROVE  /\ stage'[q] = "waiting" => stage[q] = "waiting"
                 /\ stage[q] = "active" => stage'[q] = "active"
                 /\ stage[q] \notin {"absent", "gone"} => stage'[q] \notin {"absent", "gone"}
      <4>1. CASE q \in Waiting(GroupOf[p]) /\ stage'[q] = "rejected"
        BY <4>1, WaitingMeans
      <4>2. CASE stage'[q] = [stage EXCEPT ![p] = "unreserved"][q]
        BY <2>4, <4>2 DEF Unreserve, Inv, CoschedulingTypeOK
      <4> QED BY <3>2, <4>1, <4>2 DEF Reject
    <3> QED BY <2>4, <3>3 DEF Unreserve
  <2> QED BY <2>1, <2>2, <2>3, <2>4 DEF Next, PodStep, CycleStep, BindingStep
<1>2. calm /\ UNCHANGED groups
  <2>1. ASSUME NEW p \in Pods, NEW point \in Points, NEW found \in BOOLEAN, GetPodGroup(p, point, found)
        PROVE  calm
    BY <2>1, Reading, Zenon DEF Inv, ReadAt
  <2>2. ASSUME NEW p \in Pods, PreFilter(p) \/ PostFilter(p) \/ Permit(p) \/ TurnBack(p) \/ Unreserve(p)
        PROVE  calm /\ UNCHANGED groups
    <3>1. \E point \in Points, found \in BOOLEAN : GetPodGroup(p, point, found)
      BY <2>2, Zenon DEF PreFilter, PostFilter, Permit, TurnBack, Unreserve, Unreserved, Points
    <3> QED BY <2>1, <2>2, <3>1 DEF PreFilter, PostFilter, Permit, TurnBack, Unreserve
  <2>3. ASSUME NEW p \in Pods, \/ Pop(p) \/ Filter(p) \/ Park(p) \/ Timeout(p) \/ Bind(p) \/ BindFails(p)
                               \/ Forget(p) \/ Requeue(p) \/ CreatePod(p) \/ DeletePod(p)
        PROVE  calm /\ UNCHANGED groups
    BY <2>3 DEF Pop, Filter, Park, Timeout, Bind, BindFails, Forget, Requeue, CreatePod, DeletePod
  <2>4. ASSUME NEW g \in Groups, GroupStep(g) PROVE calm /\ UNCHANGED groups
    BY <2>4 DEF GroupStep, ExpirePermitted, ExpireBackoff, DeleteGroup
  <2>5. CASE UNCHANGED vars
    BY <2>5 DEF vars
  <2> QED BY <2>2, <2>3, <2>4, <2>5 DEF Next, PodStep, CycleStep, BindingStep
<1> HIDE DEF Beside
<1>3. ASSUME NEW g \in Groups, MinMember[g] <= 2
      PROVE  OnTheWay(g)'
  <2>1. OnTheWay(g) /\ g \in groups /\ groups = Groups
    BY <1>2, <1>3 DEF SiblingInv
  <2>2. CASE Beside
    BY <2>1, <2>2, BesideOnTheWay DEF Beside
  <2> QED BY <1>1, <1>3, <2>1, <2>2, PopOnTheWay, FilterOnTheWay, PostFilterOnTheWay,
             PermitOnTheWay, ParkOnTheWay, TurnBackOnTheWay
<1> QED BY <1>2, <1>3 DEF SiblingInv

LEMMA SiblingInit == Init => PlacedInv /\ SiblingInv
<1> SUFFICES ASSUME Init PROVE PlacedInv /\ SiblingInv
  OBVIOUS
<1>1. \A p \in Pods : stage[p] \in {"active", "absent", "gone"}
  BY DEF Init
<1>2. cycle.pod = NoPod /\ cycle.at = "idle" /\ NoPod \notin Pods
  BY CoschedulingAssumption DEF Init, Idle
<1>3. PlacedInv
  BY <1>1, <1>2 DEF PlacedInv, Placed
<1>4. \A g : Waiting(g) = {} /\ NoPod \notin Members(g)
  BY <1>1, <1>2 DEF Waiting, Members
<1>5. SiblingInv
  BY <1>2, <1>4 DEF SiblingInv, OnTheWay, Init
<1> QED BY <1>3, <1>5

(* Permit's activation of siblings: a pod that waits for one other has an  *)
(* active sibling between cycles, whatever pods were turned back, rejected *)
(* or failed to bind meanwhile, and whatever Permit could not read: as     *)
(* long as no other read failed, no timer fired and nothing was deleted.   *)
THEOREM SiblingsWoken == Spec => []SiblingOnItsWay
<1>1. PlacedInv /\ UNCHANGED vars => PlacedInv'
  BY DEF PlacedInv, vars
<1>2. Inv /\ PlacedInv /\ [Next]_vars => PlacedInv'
  BY <1>1, PlacedStep
<1>3. Inv /\ SiblingInv => SiblingOnItsWay
  <2> SUFFICES ASSUME Inv, SiblingInv, calm, cycle = Idle, NEW g \in groups,
                      MinMember[g] <= 2, Waiting(g) # {}
               PROVE  SomeActive(g)
    BY DEF SiblingOnItsWay, SomeActive
  <2>1. cycle.pod \notin Members(g) /\ g \in Groups
    BY CoschedulingAssumption DEF Idle, Members, Inv, CoschedulingTypeOK
  <2> QED BY <2>1 DEF SiblingInv, OnTheWay
<1> QED BY <1>2, <1>3, InitInv, InvStep, SiblingInit, SiblingStep, PTL DEF Spec
=============================================================================
