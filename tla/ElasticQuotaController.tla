----------------------- MODULE ElasticQuotaController -----------------------
(***************************************************************************)
(* The controller that publishes what the running pods of a namespace use  *)
(* of its ElasticQuota (scheduler-plugins/pkg/controllers/                 *)
(* elasticquota_controller.go).                                            *)
(*                                                                         *)
(* The events of pods queue the name of the pod, not of the quota, so with *)
(* several workers the same quota is reconciled by several at once.        *)
(***************************************************************************)
EXTENDS PodWatch

CONSTANTS
    Workers,        \* MaxConcurrentReconciles of them
    Containers,     \* [Pods -> set of records [name, request]]
    InitContainers, \* the same, for the containers that run one by one before
    Quota           \* the key of the quota itself in the queue

ASSUME ElasticQuotaAssumption == Quota \notin Pods

VARIABLES
    used,           \* status.used in the store
    usedCache,      \* the same in the cache
    quotaNews,      \* the cache has not seen the latest version of the quota
    eqQueue,        \* the keys in the work queue
    eqWorker        \* for each worker the key it has and what it will store

eqVars == <<used, usedCache, quotaNews, eqQueue, eqWorker>>

(* The controller has no status at first, and publishes zeroes then. *)
Unpublished == -1

Free == [key |-> Quota, busy |-> FALSE, used |-> Unpublished]

ElasticQuotaInit ==
    /\ used = Unpublished /\ usedCache = Unpublished
    /\ quotaNews = FALSE /\ eqQueue = {Quota}
    /\ eqWorker = [w \in Workers |-> Free]

-----------------------------------------------------------------------------

(* Containers run together, init containers one after the other.  The sum   *)
(* with the overhead is computed and dropped.                               *)
computePodResourceRequest(p) ==
    LET result == MapThenSumSet(LAMBDA c : c.request, Containers[p])
    IN  Max({result} \cup {c.request : c \in InitContainers[p]})

computeElasticQuotaUsed(pods) ==
    MapThenSumSet(computePodResourceRequest, InPhase(pods, "Running") \ elsewhere)

(* The queue never hands a key to two workers. *)
NobodyHas(k) == \A w \in Workers : ~(eqWorker[w].busy /\ eqWorker[w].key = k)

ElasticQuotaReconcile(w) ==
    /\ ~eqWorker[w].busy
    /\ \E k \in eqQueue :
        /\ NobodyHas(k)
        /\ eqQueue' = eqQueue \ {k}
        /\ LET new == computeElasticQuotaUsed(podCache)
           IN  eqWorker' = [eqWorker EXCEPT
                   ![w] = IF new = usedCache THEN Free
                          ELSE [key |-> k, busy |-> TRUE, used |-> new]]
    /\ UNCHANGED <<podVars, used, usedCache, quotaNews>>

patchElasticQuota(w) ==
    /\ eqWorker[w].busy
    /\ used' = eqWorker[w].used
    /\ quotaNews' = (quotaNews \/ used' # used)
    /\ eqWorker' = [eqWorker EXCEPT ![w] = Free]
    /\ UNCHANGED <<podVars, usedCache, eqQueue>>

(* Mutant: only pods are watched. *)
QuotaSeenUnqueued ==
    /\ quotaNews
    /\ quotaNews' = FALSE
    /\ usedCache' = used
    /\ UNCHANGED <<podVars, used, eqQueue, eqWorker>>

QuotaSeen ==
    /\ quotaNews
    /\ quotaNews' = FALSE
    /\ usedCache' = used
    /\ eqQueue' = eqQueue \cup {Quota}
    /\ UNCHANGED <<podVars, used, eqWorker>>

ElasticQuotaStep ==
    \/ \E w \in Workers : ElasticQuotaReconcile(w) \/ patchElasticQuota(w)
    \/ QuotaSeen

(* EnqueueRequestForObject: the event of a pod queues the pod's own name,  *)
(* and its reconcile is of the quota of the pod's namespace.               *)
EnqueuePod(p) ==
    /\ eqQueue' = eqQueue \cup ({p} \ elsewhere)
    /\ UNCHANGED <<used, usedCache, quotaNews, eqWorker>>
=============================================================================
