------------------------- MODULE PodGroupController -------------------------
(***************************************************************************)
(* The controller that derives the phase of a PodGroup from its pods       *)
(* (scheduler-plugins/pkg/controllers/podgroup_controller.go).             *)
(*                                                                         *)
(* It reads the group and the pods from caches and sends the difference    *)
(* between the group it read and the group it wants as a merge patch,      *)
(* which carries no version: a patch computed from an old copy is applied  *)
(* to whatever is stored.                                                  *)
(***************************************************************************)
EXTENDS PodWatch

CONSTANTS
    MinMember,     \* spec.minMember
    OwnerOf,       \* [Pods -> names of workloads], "" for a pod without owner
    MaxFails       \* bound: patches that fail

ASSUME PodGroupAssumption == MinMember \in Nat \ {0} /\ MaxFails \in Nat

VARIABLES
    pg,            \* the status in the store
    pgCache,       \* the status in the cache
    pgNews,        \* the cache has not seen the latest version of the group
    pgQueued,      \* the group is in the work queue
    pgWorker,      \* the reconcile in progress: its copy and what it wants to store
    pgFails,
    ended,         \* history: how each pod ended, "" if it did not
    unheard        \* history: a pod that queues nothing changed since the last reconcile

pgVars == <<pg, pgCache, pgNews, pgQueued, pgWorker, pgFails, ended, unheard>>

NewGroup == [phase |-> "", occupiedBy |-> "", running |-> 0, succeeded |-> 0, failed |-> 0]

Final == {"Finished", "Failed"}

NoReconcile == [old |-> NewGroup, new |-> NewGroup, active |-> FALSE]

PodGroupInit ==
    /\ pg = NewGroup /\ pgCache = NewGroup
    /\ pgNews = FALSE /\ pgQueued = TRUE /\ pgWorker = NoReconcile /\ pgFails = 0
    /\ ended = [p \in Pods |-> ""] /\ unheard = FALSE

-----------------------------------------------------------------------------

(* getCurrentPodStats: the pods that count, by phase *)
withCurrentPodStats(s, pods) ==
    [s EXCEPT !.running = Cardinality(InPhase(pods, "Running")),
              !.succeeded = Cardinality(InPhase(pods, "Succeeded")),
              !.failed = Cardinality(InPhase(pods, "Failed"))]

(* The owner of the first pod of the list, whose order is any; kept if it has none. *)
fillOccupiedObj(s, pods) ==
    {[s EXCEPT !.occupiedBy = IF OwnerOf[p] = "" THEN @ ELSE OwnerOf[p]] : p \in Existing(pods)}

(* Mutant: the pods that run are counted among the ones that are done. *)
PhaseOfEager(s, count) ==
    CASE count < MinMember -> "Pending"
      [] count >= MinMember /\ s.succeeded + s.running >= MinMember -> "Finished"
      [] OTHER -> IF s.failed # 0 /\ s.failed + s.running + s.succeeded >= MinMember
                  THEN "Failed" ELSE "Scheduling"

(* The phase of a group whose pods have been counted; the later tests win. *)
PhaseOf(s, count) ==
    CASE count < MinMember -> "Pending"
      [] count >= MinMember /\ s.succeeded >= MinMember -> "Finished"
      [] /\ count >= MinMember /\ s.succeeded < MinMember
         /\ s.failed # 0 /\ s.failed + s.running + s.succeeded >= MinMember -> "Failed"
      [] OTHER -> IF s.succeeded + s.running >= MinMember THEN "Running" ELSE "Scheduling"

(* What Reconcile makes of the status it read, any of several for its      *)
(* owner.  The list of the pods names a label and no namespace.            *)
Reconciled(s, pods) ==
    LET count == Cardinality(Existing(pods))
        counted == withCurrentPodStats(s, pods)
    IN  CASE s.phase = "" -> {[s EXCEPT !.phase = "Pending"]}
          [] s.phase = "Pending" ->
                IF count >= MinMember
                THEN fillOccupiedObj([s EXCEPT !.phase = "Scheduling"], pods)
                ELSE {s}
          [] OTHER -> {[counted EXCEPT !.phase = PhaseOf(counted, count)]}

PodGroupReconcile ==
    /\ pgQueued /\ ~pgWorker.active
    /\ pgQueued' = FALSE /\ unheard' = FALSE
    /\ IF pgCache.phase \in Final
       THEN UNCHANGED pgWorker
       ELSE \E new \in Reconciled(pgCache, podCache) :
                pgWorker' = [old |-> pgCache, new |-> new, active |-> TRUE]
    /\ UNCHANGED <<podVars, pg, pgCache, pgNews, pgFails, ended>>

(* The fields in which old and new differ are sent; the others stay as stored. *)
MergePatch(stored, old, new) ==
    [f \in DOMAIN stored |-> IF new[f] = old[f] THEN stored[f] ELSE new[f]]

(* The patch of the object that follows the one of its status changes nothing. *)
patchPodGroup ==
    /\ pgWorker.active
    /\ pg' = MergePatch(pg, pgWorker.old, pgWorker.new)
    /\ pgNews' = (pgNews \/ pg' # pg)
    /\ pgWorker' = NoReconcile
    /\ UNCHANGED <<podVars, pgCache, pgQueued, pgFails, ended, unheard>>

(* The request fails: the group is queued again, after a while. *)
patchPodGroupFails ==
    /\ pgWorker.active /\ pgFails < MaxFails
    /\ pgWorker' = NoReconcile
    /\ pgQueued' = TRUE
    /\ pgFails' = pgFails + 1
    /\ UNCHANGED <<podVars, pg, pgCache, pgNews, ended, unheard>>

GroupSeen ==
    /\ pgNews /\ pgNews' = FALSE
    /\ pgCache' = pg
    /\ pgQueued' = TRUE
    /\ UNCHANGED <<podVars, pg, pgWorker, pgFails, ended, unheard>>

PodGroupStep == PodGroupReconcile \/ patchPodGroup \/ patchPodGroupFails \/ GroupSeen

(* Mutant: the label of the pod is not read. *)
podToPodGroupUnlabelled(p) == UNCHANGED pgVars

(* podToPodGroup: the event of a pod queues the group of its name in the   *)
(* namespace of the pod, so not the group of another one.                  *)
podToPodGroup(p) ==
    /\ pgQueued' = (pgQueued \/ p \notin elsewhere)
    /\ unheard' = (unheard \/ ~pgQueued')
    /\ UNCHANGED <<pg, pgCache, pgNews, pgWorker, pgFails, ended>>

(* The history of the pods, when p moves *)
RecordEnd(p) ==
    /\ ended' = IF pod'[p] \in {"Succeeded", "Failed"} THEN [ended EXCEPT ![p] = pod'[p]] ELSE ended
    /\ UNCHANGED <<pg, pgCache, pgNews, pgQueued, pgWorker, pgFails, unheard>>
=============================================================================
