---------------------------- MODULE Controllers -----------------------------
(***************************************************************************)
(* The controller manager (scheduler-plugins/cmd/controller): its two      *)
(* controllers beside the pods.  They share the pod cache, which neither   *)
(* writes, and nothing else, so what one does never depends on the other   *)
(* and a behaviour runs one of them: deployed says which.                  *)
(***************************************************************************)
EXTENDS PodGroupController, ElasticQuotaController

VARIABLE deployed

vars == <<podVars, pgVars, eqVars, deployed>>

Init ==
    /\ PodInit /\ PodGroupInit /\ ElasticQuotaInit
    /\ deployed \in {"podgroup", "elasticquota"}

UserStep ==
    /\ \E p \in Pods :
          /\ PodMoves(p)
          /\ \/ deployed = "podgroup" /\ RecordEnd(p)
             \/ deployed = "elasticquota" /\ UNCHANGED pgVars
    /\ UNCHANGED <<eqVars, deployed>>

PodEvent(p) ==
    /\ PodSeen(p)
    /\ \/ deployed = "podgroup" /\ podToPodGroup(p) /\ UNCHANGED eqVars
       \/ deployed = "elasticquota" /\ EnqueuePod(p) /\ UNCHANGED pgVars
    /\ UNCHANGED deployed

GroupController(A) == deployed = "podgroup" /\ A /\ UNCHANGED <<eqVars, deployed>>

QuotaController(A) == deployed = "elasticquota" /\ A /\ UNCHANGED <<pgVars, deployed>>

Next ==
    \/ UserStep
    \/ \E p \in Pods : PodEvent(p)
    \/ GroupController(PodGroupStep)
    \/ QuotaController(ElasticQuotaStep)

Spec == Init /\ [][Next]_vars

(* Watches deliver, the worker of the groups and the workers of the quotas *)
(* take their steps, and a patch that failed is tried again.               *)
Fairness ==
    /\ \A p \in Pods : WF_vars(PodEvent(p))
    /\ WF_vars(GroupController(PodGroupReconcile \/ patchPodGroup))
    /\ WF_vars(GroupController(GroupSeen))
    /\ WF_vars(QuotaController(QuotaSeen))
    /\ \A w \in Workers :
          WF_vars(QuotaController(ElasticQuotaReconcile(w) \/ patchElasticQuota(w)))

FairSpec == Spec /\ Fairness

-----------------------------------------------------------------------------
(* Properties *)

(* In the end the published phase is the phase of the pods there are, past  *)
(* Pending with their numbers, or a final one: a patch computed from an old *)
(* copy of the group, or from pods that have moved since, is put right by   *)
(* the event it causes.  The exception is a change of a pod of another      *)
(* namespace: Reconcile counts every pod with the label, but the event of   *)
(* that pod queues a group of its own namespace (podToPodGroup), and this   *)
(* one keeps the phase it has until something else queues it.               *)
PhaseCatchesUp ==
    LET counted == withCurrentPodStats(pg, pod)
    IN  <>[](\/ deployed # "podgroup"
             \/ unheard
             \/ pg.phase \in Final
             \/ pg.phase = "Pending" /\ Cardinality(Existing(pod)) < MinMember
             \/ /\ pg.phase = PhaseOf(counted, Cardinality(Existing(pod)))
                /\ pg = counted)

(* In the end status.used is what the running pods use, although workers    *)
(* that reconcile the same quota for different pods overwrite each other.   *)
UsedCatchesUp == <>[](deployed = "elasticquota" => used = computeElasticQuotaUsed(pod))

(* A final phase is earned: when a group is stored as Finished, MinMember   *)
(* pods with its label have succeeded, and when it is stored as Failed one  *)
(* of them has failed, whichever of them are gone since, however old the    *)
(* caches were, and whatever patch from an older copy of the group was      *)
(* merged with the status in between.  (That a final phase stays is not so: *)
(* a reconcile that read the group before it ended may put another phase    *)
(* over it.)                                                                *)
Done(how) == {p \in Pods : ended[p] = how}

FinalPhaseEarned ==
    /\ pg.phase = "Finished" => Cardinality(Done("Succeeded")) >= MinMember
    /\ pg.phase = "Failed" => Done("Failed") # {}
=============================================================================
