---------------------------- MODULE Coscheduling ----------------------------
(***************************************************************************)
(* Gang scheduling (scheduler-plugins/pkg/coscheduling): the pods of a     *)
(* PodGroup wait in Permit until MinMember of them have a node.            *)
(*                                                                         *)
(* One scheduling cycle at a time; the binding cycles, the timers of the   *)
(* waiting pods and the users run beside it.  The plugin counts the pods   *)
(* that have a node in the snapshot taken when the cycle began, and acts   *)
(* on the waiting pods as they are when it runs.  The first verdict a      *)
(* waiting pod gets is the one that counts: its channel holds one.  The    *)
(* PodGroup is read from the API server at every extension point, and a    *)
(* read that fails is taken for a group that does not exist.               *)
(***************************************************************************)
EXTENDS Integers, FiniteSets, FiniteSetsExt

CONSTANTS
    Pods,
    Groups,           \* PodGroups that exist at first
    Nodes,
    GroupOf,          \* [Pods -> Groups \cup {NoGroup}], the pod-group label
    MinMember,        \* [Groups -> Nat \ {0}]
    WithMinResources, \* the groups with spec.minResources
    BackoffSet,       \* PodGroupBackoffSeconds is not zero
    Slots,            \* [Nodes -> Nat], pods a node has room for
    Rank,             \* [Pods \cup Groups -> Nat], creation times
    Name,             \* [Pods -> Nat], names in their order
    Priority,         \* [Pods -> Nat]
    Starts,           \* [queued, later : SUBSET Pods]: which pods are there at first, and come later
    MaxTroubles,      \* bound: deletions, failing binds and failing reads of a group
    NoGroup, NoNode, NoPod

ASSUME CoschedulingAssumption ==
    /\ IsFiniteSet(Pods) /\ NoPod \notin Pods
    /\ NoNode \notin Nodes /\ NoGroup \notin Groups
    /\ GroupOf \in [Pods -> Groups \cup {NoGroup}]
    /\ MinMember \in [Groups -> Nat \ {0}]
    /\ MaxTroubles \in Nat

VARIABLES
    stage,        \* where each pod is
    node,         \* the node each pod is assumed on or bound to: the scheduler cache
    cycle,        \* the scheduling cycle in progress: a pod and the step to come
    snapshot,     \* node, as it was when the cycle began
    groups,       \* the PodGroups that exist
    permittedPG,  \* groups that passed the resource check a short time ago
    backedOffPG,  \* groups that failed a short time ago
    troubles,     \* deletions, failed binds and failed reads so far
    missed,       \* history: the failed reads of each pod since it left the queue
    calm          \* history: no timer fired, nothing was deleted, only Permit misread

vars == <<stage, node, cycle, snapshot, groups, permittedPG, backedOffPG, troubles, missed, calm>>

Idle == [pod |-> NoPod, at |-> "idle"]

Nowhere == [p \in Pods |-> NoNode]

(* Nobody reads the snapshot until the next cycle has taken its own. *)
EndCycle == cycle' = Idle /\ snapshot' = Nowhere

Stages == {"absent", "active", "parked", "cycle", "waiting", "allowed",
           "rejected", "unreserved", "bound", "gone"}

Points == {"PreFilter", "PostFilter", "Permit", "Unreserve"}

CoschedulingTypeOK ==
    /\ stage \in [Pods -> Stages]
    /\ node \in [Pods -> Nodes \cup {NoNode}]
    /\ cycle \in [pod : Pods \cup {NoPod},
                  at : {"idle", "PreFilter", "Filter", "PostFilter", "Permit", "Park", "Unreserve"}]
    /\ snapshot \in [Pods -> Nodes \cup {NoNode}]
    /\ groups \subseteq Groups /\ permittedPG \subseteq Groups /\ backedOffPG \subseteq Groups
    /\ troubles \in 0..MaxTroubles /\ missed \subseteq Pods \X Points /\ calm \in BOOLEAN

(* Pods that are neither queued nor to come were deleted before. *)
Init ==
    /\ \E start \in Starts :
          stage = [p \in Pods |-> IF p \in start.queued THEN "active"
                                  ELSE IF p \in start.later THEN "absent" ELSE "gone"]
    /\ node = Nowhere
    /\ cycle = Idle /\ snapshot = Nowhere
    /\ groups = Groups
    /\ permittedPG = {} /\ backedOffPG = {}
    /\ troubles = 0 /\ missed = {} /\ calm = TRUE

-----------------------------------------------------------------------------
(* Reading *)

Exists(p) == GroupOf[p] \in groups

(* A call of GetPodGroup for p at an extension point: whatever the error,  *)
(* it finds no group.                                                      *)
GetPodGroup(p, point, found) ==
    /\ found => Exists(p)
    /\ \/ /\ found = Exists(p)
          /\ UNCHANGED <<troubles, missed, calm>>
       \/ /\ found # Exists(p) /\ troubles < MaxTroubles
          /\ troubles' = troubles + 1
          /\ missed' = missed \cup {<<p, point>>}
          /\ calm' = (calm /\ point = "Permit")

Members(g) == {p \in Pods : GroupOf[p] = g}

Listed(g) == {p \in Members(g) : stage[p] \notin {"absent", "gone"}}

Waiting(g) == {p \in Members(g) : stage[p] = "waiting"}

Assigned(where, g) == {p \in Members(g) : where[p] # NoNode}

CalculateAssignedPods(g) == Cardinality(Assigned(snapshot, g))

getNodeResource(n, g) ==
    Slots[n] - Cardinality({p \in Pods : snapshot[p] = n /\ GroupOf[p] # g})

CheckClusterResource(g) ==
    MapThenSumSet(LAMBDA n : getNodeResource(n, g), Nodes) >= MinMember[g]

GetCreationTimestamp(p) == IF Exists(p) THEN Rank[GroupOf[p]] ELSE Rank[p]

Less(p, q) ==
    \/ Priority[p] > Priority[q]
    \/ /\ Priority[p] = Priority[q]
       /\ \/ GetCreationTimestamp(p) < GetCreationTimestamp(q)
          \/ /\ GetCreationTimestamp(p) = GetCreationTimestamp(q)
             /\ Name[p] < Name[q]

-----------------------------------------------------------------------------
(* The scheduling cycle *)

(* The queue hands out the first of the pods that are not parked.  When a  *)
(* comparison cannot read a group it takes the pod's own time, differently *)
(* each time it compares: any pod of the highest priority may come out.    *)
Pop(p) ==
    LET others == {q \in Pods \ {p} : stage[q] = "active"}
    IN  /\ cycle = Idle
        /\ stage[p] = "active"
        /\ \/ /\ \A q \in others : ~Less(q, p)
              /\ UNCHANGED troubles
           \/ /\ \E q \in others : Less(q, p)
              /\ \A q \in others : Priority[q] <= Priority[p]
              /\ troubles < MaxTroubles /\ troubles' = troubles + 1
        /\ cycle' = [pod |-> p, at |-> "PreFilter"]
        /\ stage' = [stage EXCEPT ![p] = "cycle"]
        /\ snapshot' = node
        /\ missed' = missed \ ({p} \X Points)
        /\ UNCHANGED <<node, groups, permittedPG, backedOffPG, calm>>

NeedsResourceCheck(g) == g \in WithMinResources /\ g \notin permittedPG

(* Mutant: a group that failed a short time ago is let through. *)
PreFilterPassesBackedOff(p, found) ==
    LET g == GroupOf[p]
    IN  found => /\ Cardinality(Listed(g)) >= MinMember[g]
                 /\ NeedsResourceCheck(g) => CheckClusterResource(g)

PreFilterPasses(p, found) ==
    LET g == GroupOf[p]
    IN  found => /\ g \notin backedOffPG
                 /\ Cardinality(Listed(g)) >= MinMember[g]
                 /\ NeedsResourceCheck(g) => CheckClusterResource(g)

PreFilter(p) ==
    /\ cycle = [pod |-> p, at |-> "PreFilter"]
    /\ \E found \in BOOLEAN :
          /\ GetPodGroup(p, "PreFilter", found)
          /\ cycle' = [cycle EXCEPT !.at = IF PreFilterPasses(p, found) THEN "Filter" ELSE "PostFilter"]
          /\ permittedPG' = permittedPG \cup
                 {g \in Groups \cap {GroupOf[p]} : found /\ PreFilterPasses(p, found) /\ NeedsResourceCheck(g)}
    /\ UNCHANGED <<stage, node, snapshot, groups, backedOffPG>>

Room(n) == Cardinality({q \in Pods : snapshot[q] = n}) < Slots[n]

(* The framework's own filters, Reserve and the assumed pod. *)
Filter(p) ==
    /\ cycle = [pod |-> p, at |-> "Filter"]
    /\ \/ \E n \in Nodes : /\ Room(n)
                           /\ node' = [node EXCEPT ![p] = n]
                           /\ cycle' = [cycle EXCEPT !.at = "Permit"]
       \/ /\ \A n \in Nodes : ~Room(n)
          /\ cycle' = [cycle EXCEPT !.at = "PostFilter"]
          /\ UNCHANGED node
    /\ UNCHANGED <<stage, snapshot, groups, permittedPG, backedOffPG, troubles, missed, calm>>

(* Reject and Allow of a waiting pod, for every waiting pod of the group *)
Reject(st, g) == [q \in Pods |-> IF q \in Waiting(g) THEN "rejected" ELSE st[q]]

(* Mutant: only the pod that completes the group goes on. *)
AllowNobodyElse(st, g) == st

Allow(st, g) == [q \in Pods |-> IF q \in Waiting(g) THEN "allowed" ELSE st[q]]

(* Enough pods of the group have a node, or at most a tenth is missing. *)
WorthWaiting(g) ==
    LET assigned == CalculateAssignedPods(g)
    IN  assigned >= MinMember[g] \/ 10 * (MinMember[g] - assigned) <= MinMember[g]

GivesUp(p, found) == found /\ ~WorthWaiting(GroupOf[p])

PostFilter(p) ==
    LET g == GroupOf[p]
        left == [stage EXCEPT ![p] = "parked"]
    IN  /\ cycle = [pod |-> p, at |-> "PostFilter"]
        /\ EndCycle
        /\ \E found \in BOOLEAN :
              /\ GetPodGroup(p, "PostFilter", found)
              /\ stage' = IF GivesUp(p, found) THEN Reject(left, g) ELSE left
              /\ backedOffPG' = backedOffPG \cup
                                {h \in Groups \cap {g} : /\ GivesUp(p, found) /\ BackoffSet
                                                         /\ Cardinality(Listed(h)) >= MinMember[h]}
              /\ permittedPG' = IF GivesUp(p, found) THEN permittedPG \ {g} ELSE permittedPG
        /\ UNCHANGED <<node, groups>>

(* Mutant: the siblings are looked for among the pods that are active already. *)
SiblingsActive(p) == {q \in Members(GroupOf[p]) \ {p} : stage[q] = "active"}

(* The pods that ActivateSiblings moves back to the queue *)
Siblings(p) == {q \in Members(GroupOf[p]) \ {p} : stage[q] = "parked"}

PermitStatus(p, found) ==
    LET g == GroupOf[p]
    IN  CASE g = NoGroup -> "PodGroupNotSpecified"
          [] g # NoGroup /\ ~found -> "PodGroupNotFound"
          [] found /\ CalculateAssignedPods(g) + 1 >= MinMember[g] -> "Success"
          [] OTHER -> "Wait"

(* A pod whose group is not found is turned back.  Nobody waits for a pod  *)
(* that has no group.  The first pod of a group to get a node wakes its    *)
(* siblings.  The group is read again for how long to wait, no more.       *)
Permit(p) ==
    LET g == GroupOf[p]
    IN  /\ cycle = [pod |-> p, at |-> "Permit"]
        /\ \E found \in BOOLEAN :
              /\ GetPodGroup(p, "Permit", found)
              /\ \/ /\ PermitStatus(p, found) = "PodGroupNotFound"
                    /\ cycle' = [cycle EXCEPT !.at = "Unreserve"] /\ UNCHANGED <<stage, snapshot>>
                 \/ /\ PermitStatus(p, found) \in {"PodGroupNotSpecified", "Success"}
                    /\ stage' = Allow([stage EXCEPT ![p] = "allowed"], g)
                    /\ EndCycle
                 \/ /\ PermitStatus(p, found) = "Wait"
                    /\ stage' = [q \in Pods |-> IF CalculateAssignedPods(g) = 0 /\ q \in Siblings(p)
                                                THEN "active" ELSE stage[q]]
                    /\ cycle' = [cycle EXCEPT !.at = "Park"] /\ UNCHANGED snapshot
        /\ UNCHANGED <<node, groups, permittedPG, backedOffPG>>

(* The framework adds the pod to the waiting pods after Permit has returned. *)
Park(p) ==
    /\ cycle = [pod |-> p, at |-> "Park"]
    /\ stage' = [stage EXCEPT ![p] = "waiting"]
    /\ EndCycle
    /\ UNCHANGED <<node, groups, permittedPG, backedOffPG, troubles, missed, calm>>

(* Mutant: a pod that fails in its binding cycle leaves the others alone. *)
UnreservedAlone(p, st, found) ==
    /\ GetPodGroup(p, "Unreserve", found)
    /\ stage' = IF found /\ cycle.pod = p THEN Reject(st, GroupOf[p]) ELSE st
    /\ permittedPG' = IF found THEN permittedPG \ {GroupOf[p]} ELSE permittedPG

(* What the plugin's Unreserve does for p: it takes the waiting pods of    *)
(* the group with it.                                                      *)
Unreserved(p, st, found) ==
    /\ GetPodGroup(p, "Unreserve", found)
    /\ stage' = IF found THEN Reject(st, GroupOf[p]) ELSE st
    /\ permittedPG' = IF found THEN permittedPG \ {GroupOf[p]} ELSE permittedPG

(* The scheduling cycle of a pod that Permit denied ends with Unreserve,   *)
(* which reads the group once more, and ForgetPod.                         *)
TurnBack(p) ==
    /\ cycle = [pod |-> p, at |-> "Unreserve"]
    /\ \E found \in BOOLEAN : Unreserved(p, [stage EXCEPT ![p] = "parked"], found)
    /\ node' = [node EXCEPT ![p] = NoNode]
    /\ EndCycle
    /\ UNCHANGED <<groups, backedOffPG>>

-----------------------------------------------------------------------------
(* Beside the scheduling cycle *)

(* The timer of a waiting pod rejects it. *)
Timeout(p) ==
    /\ stage[p] = "waiting"
    /\ stage' = [stage EXCEPT ![p] = "rejected"]
    /\ calm' = FALSE
    /\ UNCHANGED <<node, cycle, snapshot, groups, permittedPG, backedOffPG, troubles, missed>>

Bind(p) ==
    /\ stage[p] = "allowed"
    /\ stage' = [stage EXCEPT ![p] = "bound"]
    /\ UNCHANGED <<node, cycle, snapshot, groups, permittedPG, backedOffPG, troubles, missed, calm>>

BindFails(p) ==
    /\ stage[p] = "allowed" /\ troubles < MaxTroubles
    /\ stage' = [stage EXCEPT ![p] = "rejected"]
    /\ troubles' = troubles + 1
    /\ UNCHANGED <<node, cycle, snapshot, groups, permittedPG, backedOffPG, missed, calm>>

(* The binding cycle of a rejected pod *)
Unreserve(p) ==
    /\ stage[p] = "rejected"
    /\ \E found \in BOOLEAN : Unreserved(p, [stage EXCEPT ![p] = "unreserved"], found)
    /\ UNCHANGED <<node, cycle, snapshot, groups, backedOffPG>>

(* Mutant: the pod is lost to the queue. *)
ForgetForGood(p) ==
    /\ stage[p] = "unreserved"
    /\ stage' = [stage EXCEPT ![p] = "lost"]
    /\ node' = [node EXCEPT ![p] = NoNode]
    /\ UNCHANGED <<cycle, snapshot, groups, permittedPG, backedOffPG, troubles, missed, calm>>

(* ForgetPod, and back to the queue's unschedulable pods *)
Forget(p) ==
    /\ stage[p] = "unreserved"
    /\ stage' = [stage EXCEPT ![p] = "parked"]
    /\ node' = [node EXCEPT ![p] = NoNode]
    /\ UNCHANGED <<cycle, snapshot, groups, permittedPG, backedOffPG, troubles, missed, calm>>

(* A cluster event, the backoff timer or the periodic flush of the queue *)
Requeue(p) ==
    /\ stage[p] = "parked"
    /\ stage' = [stage EXCEPT ![p] = "active"]
    /\ UNCHANGED <<node, cycle, snapshot, groups, permittedPG, backedOffPG, troubles, missed, calm>>

(* The entries of the two caches have a lifetime. *)
ExpirePermitted(g) ==
    /\ g \in permittedPG /\ permittedPG' = permittedPG \ {g}
    /\ UNCHANGED <<stage, node, cycle, snapshot, groups, backedOffPG, troubles, missed, calm>>

ExpireBackoff(g) ==
    /\ g \in backedOffPG /\ backedOffPG' = backedOffPG \ {g}
    /\ UNCHANGED <<stage, node, cycle, snapshot, groups, permittedPG, troubles, missed, calm>>

CreatePod(p) ==
    /\ stage[p] = "absent"
    /\ stage' = [stage EXCEPT ![p] = "active"]
    /\ UNCHANGED <<node, cycle, snapshot, groups, permittedPG, backedOffPG, troubles, missed, calm>>

(* A pod that is deleted while it waits is rejected first, and one that is *)
(* deleted while it is being bound shows as a bind that fails.             *)
DeletePod(p) ==
    /\ troubles < MaxTroubles
    /\ stage[p] \in {"active", "parked", "bound"}
    /\ stage' = [stage EXCEPT ![p] = "gone"]
    /\ node' = [node EXCEPT ![p] = NoNode]
    /\ troubles' = troubles + 1 /\ calm' = FALSE
    /\ UNCHANGED <<cycle, snapshot, groups, permittedPG, backedOffPG, missed>>

DeleteGroup(g) ==
    /\ g \in groups /\ troubles < MaxTroubles
    /\ groups' = groups \ {g}
    /\ troubles' = troubles + 1 /\ calm' = FALSE
    /\ UNCHANGED <<stage, node, cycle, snapshot, permittedPG, backedOffPG, missed>>

CycleStep(p) == PreFilter(p) \/ Filter(p) \/ PostFilter(p) \/ Permit(p) \/ Park(p) \/ TurnBack(p)

BindingStep(p) == Bind(p) \/ Unreserve(p) \/ Forget(p)

PodStep(p) ==
    \/ Pop(p) \/ CycleStep(p) \/ BindingStep(p) \/ Timeout(p)
    \/ BindFails(p) \/ Requeue(p) \/ CreatePod(p) \/ DeletePod(p)

GroupStep(g) == ExpirePermitted(g) \/ ExpireBackoff(g) \/ DeleteGroup(g)

Next == (\E p \in Pods : PodStep(p)) \/ (\E g \in Groups : GroupStep(g))

Spec == Init /\ [][Next]_vars

(* The goroutine of each binding cycle goes on.  The timers are not part of it. *)
Fairness == \A p \in Pods : WF_vars(BindingStep(p))

FairSpec == Spec /\ Fairness

-----------------------------------------------------------------------------
(* Properties *)

(* Nobody is left behind by a group that made it: between two scheduling     *)
(* cycles, no pod waits in a group of which MinMember pods have a node,      *)
(* although Permit counts in a snapshot while pods are rejected and          *)
(* forgotten beside it.                                                      *)
NoStrandedWaiter ==
    cycle = Idle =>
        \A g \in groups : Cardinality(Assigned(node, g)) >= MinMember[g] => Waiting(g) = {}

(* While a group is backed off, none of its pods holds a node in Permit:     *)
(* PostFilter rejects the waiting pods before it backs the group off, and    *)
(* PreFilter lets no pod of the group through as long as it lasts.  The      *)
(* exception is a pod whose group PreFilter could not read: it was not       *)
(* checked, and waits all the same when Permit can.                          *)
BackoffHoldsNothing ==
    \A g \in backedOffPG : \A p \in Waiting(g) : <<p, "PreFilter">> \in missed

(* A pod that waits in Permit for one other is waiting for somebody: as long *)
(* as no timer fired, nothing was deleted and no read of a group failed but  *)
(* in Permit, another pod of its group is in the active queue, without the   *)
(* help of the queue's periodic flush.  This is what the activation of       *)
(* siblings by the first pod is for (core.go, "we should and only should use *)
(* this 0-th pod").  Where three or more are needed it is not so: a pod that *)
(* finds a sibling which was rejected and is not forgotten yet does not      *)
(* count as the first, and wakes nobody.  Nor is it when PostFilter or       *)
(* Unreserve cannot read the group: the waiting sibling is not rejected, and *)
(* nobody wakes the other.                                                   *)
SiblingOnItsWay ==
    calm /\ cycle = Idle =>
        \A g \in groups : MinMember[g] <= 2 /\ Waiting(g) # {} =>
                           \E q \in Members(g) : stage[q] = "active"

(* A gang gives its nodes back together: once one of its pods has lost its   *)
(* place, by its timer or a bind that failed, every pod that waits with it   *)
(* is bound or gives up its node, and needs no timer of its own (Unreserve   *)
(* rejects the waiting pods of the group).  It is about groups that need     *)
(* three or more: of two, the second lets the first go when it gets a node.  *)
(* The exceptions are a group that is deleted and a pod for which Unreserve  *)
(* could not read the group.                                                 *)
GangGivesBack ==
    \A g \in {h \in Groups : MinMember[h] > 2} : \A q \in Members(g) :
        (stage[q] = "waiting" /\ \E p \in Members(g) : stage[p] = "rejected")
            ~> \/ stage[q] = "bound" \/ node[q] = NoNode
               \/ g \notin groups
               \/ \E p \in Members(g) : <<p, "Unreserve">> \in missed

=============================================================================
