------------------------- MODULE Controllers_proofs -------------------------
(***************************************************************************)
(* That a PodGroup is Finished or Failed for a reason, for every set of    *)
(* pods, of one namespace or several, and every MinMember.  The stored     *)
(* phase comes from a reconcile whose pods are those of the cache, and the *)
(* cache may be far behind the pods; what connects them is the history:    *)
(* a pod that ends keeps the way it ended, so what the cache shows of an   *)
(* end, however late, is what happened.                                    *)
(***************************************************************************)
EXTENDS Controllers, FiniteSetTheorems, TLAPS

Phases == {"absent", "Pending", "Running", "Succeeded", "Failed", "deleted"}

Ends == {"Succeeded", "Failed"}

HistoryTypes ==
    /\ pod \in [Pods -> Phases] /\ podCache \in [Pods -> Phases]
    /\ ended \in [Pods -> Ends \cup {""}]

(* What the pods and the cache show of an end is what the history says. *)
TrueEnds ==
    \A p \in Pods : /\ pod[p] \in {"absent", "Pending", "Running"} => ended[p] = ""
                    /\ pod[p] \in Ends => ended[p] = pod[p]
                    /\ podCache[p] \in Ends => ended[p] = podCache[p]

Earned(s) ==
    /\ {"phase", "running", "succeeded", "failed", "occupiedBy"} \subseteq DOMAIN s
    /\ s.phase = "Finished" => Cardinality(Done("Succeeded")) >= MinMember
    /\ s.phase = "Failed" => Done("Failed") # {}

(* The stored status, the copy in the cache and the one about to be stored *)
EarnedInv ==
    /\ HistoryTypes
    /\ deployed = "podgroup" => TrueEnds
    /\ Earned(pg) /\ Earned(pgCache)
    /\ pgWorker.active => Earned(pgWorker.new)

LEMMA Counts ==
    ASSUME NEW S, NEW T \in SUBSET Pods, S \subseteq T
    PROVE  /\ IsFiniteSet(S) /\ Cardinality(S) \in Nat /\ Cardinality(T) \in Nat
           /\ Cardinality(S) <= Cardinality(T)
<1>1. IsFiniteSet(T)
  BY PodAssumption, FS_Subset
<1> QED BY <1>1, FS_Subset, FS_CardinalityType

(* Nothing is taken from the history, so what was earned stays earned. *)
LEMMA StillEarned ==
    ASSUME Done("Succeeded") \subseteq Done("Succeeded")', Done("Failed") \subseteq Done("Failed")'
    PROVE  \A s : (Earned(s) => /\ {"phase", "running", "succeeded", "failed", "occupiedBy"} \subseteq DOMAIN s
                                /\ s.phase = "Finished" => Cardinality(Done("Succeeded")') >= MinMember
                                /\ s.phase = "Failed" => Done("Failed")' # {})
<1>1. Done("Succeeded")' \in SUBSET Pods
  BY DEF Done
<1>2. /\ Cardinality(Done("Succeeded")) \in Nat /\ Cardinality(Done("Succeeded")') \in Nat
      /\ Cardinality(Done("Succeeded")) <= Cardinality(Done("Succeeded")')
  BY <1>1, Counts
<1>3. Cardinality(Done("Succeeded")) >= MinMember => Cardinality(Done("Succeeded")') >= MinMember
  BY <1>2, PodGroupAssumption
<1> QED BY <1>3 DEF Earned

LEMMA EarnedInit == Init => EarnedInv
<1> SUFFICES ASSUME Init PROVE EarnedInv
  OBVIOUS
<1>1. HistoryTypes /\ TrueEnds
  BY DEF Init, PodInit, PodGroupInit, HistoryTypes, TrueEnds, Phases, Ends
<1>2. Earned(NewGroup)
  BY DEF Earned, NewGroup
<1> QED BY <1>1, <1>2 DEF Init, PodGroupInit, NoReconcile, EarnedInv

(* The phase a reconcile computes is earned by the pods of the cache. *)
LEMMA ReconciledEarned ==
    ASSUME EarnedInv, deployed = "podgroup", pgCache.phase \notin Final,
           NEW new \in Reconciled(pgCache, podCache)
    PROVE  Earned(new)
<1> DEFINE fields == {"phase", "running", "succeeded", "failed", "occupiedBy"}
           counted == withCurrentPodStats(pgCache, podCache)
           count == Cardinality(Existing(podCache))
<1>1. fields \subseteq DOMAIN pgCache
  BY DEF EarnedInv, Earned
<1>2. CASE pgCache.phase = ""
  <2>1. new = [pgCache EXCEPT !.phase = "Pending"]
    BY <1>2 DEF Reconciled
  <2> QED BY <1>1, <2>1 DEF Earned
<1>3. CASE pgCache.phase = "Pending"
  <2>1. CASE new = pgCache
    BY <2>1 DEF EarnedInv
  <2>2. CASE new \in fillOccupiedObj([pgCache EXCEPT !.phase = "Scheduling"], podCache)
    <3>1. PICK w : new = [[pgCache EXCEPT !.phase = "Scheduling"] EXCEPT !.occupiedBy = w]
      BY <2>2 DEF fillOccupiedObj
    <3> QED BY <1>1, <3>1 DEF Earned
  <2> QED BY <1>3, <2>1, <2>2 DEF Reconciled
<1>4. CASE pgCache.phase \notin {"", "Pending"}
  <2>1. new = [counted EXCEPT !.phase = PhaseOf(counted, count)]
    BY <1>4 DEF Reconciled
  <2>2. /\ fields \subseteq DOMAIN counted
        /\ counted.succeeded = Cardinality(InPhase(podCache, "Succeeded"))
        /\ counted.failed = Cardinality(InPhase(podCache, "Failed"))
    BY <1>1 DEF withCurrentPodStats
  <2>3. fields \subseteq DOMAIN new /\ new.phase = PhaseOf(counted, count)
    BY <2>1, <2>2
  <2>4. \A how \in Ends : InPhase(podCache, how) \subseteq Done(how)
    BY DEF InPhase, Done, EarnedInv, TrueEnds
  <2>5. ASSUME new.phase = "Finished" PROVE Cardinality(Done("Succeeded")) >= MinMember
    <3>1. counted.succeeded >= MinMember
      BY <2>3, <2>5 DEF PhaseOf
    <3>2. Done("Succeeded") \in SUBSET Pods /\ InPhase(podCache, "Succeeded") \subseteq Done("Succeeded")
      BY <2>4 DEF Done, Ends
    <3> QED BY <2>2, <3>1, <3>2, Counts, PodGroupAssumption
  <2>6. ASSUME new.phase = "Failed" PROVE Done("Failed") # {}
    <3>1. counted.failed # 0
      BY <2>3, <2>6 DEF PhaseOf
    <3>2. InPhase(podCache, "Failed") # {}
      BY <2>2, <3>1, FS_EmptySet
    <3> QED BY <2>4, <3>2 DEF Ends
  <2> QED BY <2>3, <2>5, <2>6 DEF Earned
<1> QED BY <1>2, <1>3, <1>4

(* A pod ends once, so the history of one that moves is only added to. *)
LEMMA MovedPodsEarned ==
    ASSUME EarnedInv, UserStep PROVE EarnedInv'
<1>1. PICK p \in Pods : /\ PodMoves(p)
                        /\ \/ deployed = "podgroup" /\ RecordEnd(p)
                           \/ deployed = "elasticquota" /\ UNCHANGED pgVars
  BY DEF UserStep
<1>2. /\ UNCHANGED <<pg, pgCache, pgWorker, deployed, podCache>>
  BY <1>1 DEF UserStep, RecordEnd, pgVars, PodMoves
<1>3. PICK s \in NextPhases(pod[p]) : pod' = [pod EXCEPT ![p] = s]
  BY <1>1 DEF PodMoves
<1>4. /\ s \in Phases /\ pod[p] \in Phases
      /\ s \in Ends => pod[p] \in {"Pending", "Running"}
      /\ s \in {"Pending", "Running"} => pod[p] \in {"absent", "Pending"}
      /\ s # "absent"
  BY <1>3 DEF NextPhases, Phases, Ends, EarnedInv, HistoryTypes
<1>5. CASE deployed = "elasticquota"
  <2>1. UNCHANGED ended
    BY <1>1, <1>5 DEF pgVars
  <2>2. HistoryTypes'
    BY <1>2, <1>3, <1>4, <2>1 DEF EarnedInv, HistoryTypes
  <2>3. \A how : Done(how)' = Done(how)
    BY <2>1 DEF Done
  <2> QED BY <1>2, <1>5, <2>2, <2>3 DEF EarnedInv, Earned
<1>6. CASE deployed = "podgroup"
  <2>1. ended' = IF s \in Ends THEN [ended EXCEPT ![p] = s] ELSE ended
    BY <1>1, <1>3, <1>6 DEF RecordEnd, Ends, EarnedInv, HistoryTypes
  <2>2. HistoryTypes'
    BY <1>2, <1>3, <1>4, <2>1 DEF EarnedInv, HistoryTypes
  <2>3. TrueEnds
    BY <1>6 DEF EarnedInv
  <2>4. s \in Ends => ended[p] = "" /\ podCache[p] \notin Ends
    BY <1>4, <2>3 DEF TrueEnds, Ends
  <2>5. TrueEnds'
    <3> SUFFICES ASSUME NEW r \in Pods
                 PROVE  /\ pod'[r] \in {"absent", "Pending", "Running"} => ended'[r] = ""
                        /\ pod'[r] \in Ends => ended'[r] = pod'[r]
                        /\ podCache'[r] \in Ends => ended'[r] = podCache'[r]
      BY DEF TrueEnds
    <3>1. CASE r # p
      BY <1>2, <1>3, <2>1, <2>3, <3>1 DEF TrueEnds, EarnedInv, HistoryTypes
    <3>2. CASE r = p
      <4>1. pod'[r] = s /\ podCache'[r] = podCache[p] /\ ended'[r] = IF s \in Ends THEN s ELSE ended[p]
        BY <1>2, <1>3, <2>1, <3>2 DEF EarnedInv, HistoryTypes
      <4> QED BY <1>4, <2>3, <2>4, <4>1 DEF TrueEnds, Ends
    <3> QED BY <3>1, <3>2
  <2>6. Done("Succeeded") \subseteq Done("Succeeded")' /\ Done("Failed") \subseteq Done("Failed")'
    BY <2>1, <2>4 DEF Done, EarnedInv, HistoryTypes
  <2> QED BY <1>2, <2>2, <2>5, <2>6, StillEarned DEF EarnedInv, Earned
<1> QED BY <1>1, <1>5, <1>6

LEMMA EarnedStep == EarnedInv /\ [Next]_vars => EarnedInv'
<1> SUFFICES ASSUME EarnedInv, [Next]_vars PROVE EarnedInv'
  OBVIOUS
<1>1. CASE UserStep
  BY <1>1, MovedPodsEarned
<1>2. ASSUME NEW p \in Pods, PodEvent(p) PROVE EarnedInv'
  <2>1. UNCHANGED <<pg, pgCache, pgWorker, ended, deployed, pod>>
    BY <1>2 DEF PodEvent, PodSeen, podToPodGroup, pgVars
  <2>2. podCache' = [podCache EXCEPT ![p] = pod[p]]
    BY <1>2 DEF PodEvent, PodSeen
  <2>3. HistoryTypes'
    BY <2>1, <2>2 DEF EarnedInv, HistoryTypes
  <2>4. TrueEnds => TrueEnds'
    BY <2>1, <2>2 DEF TrueEnds, EarnedInv, HistoryTypes
  <2> QED BY <2>1, <2>3, <2>4 DEF EarnedInv, Earned, Done
<1>3. CASE GroupController(PodGroupStep)
  <2>0. deployed = "podgroup" /\ UNCHANGED <<pod, podCache, ended, deployed>>
    BY <1>3 DEF GroupController, PodGroupStep, PodGroupReconcile, patchPodGroup,
                patchPodGroupFails, GroupSeen, podVars
  <2>1. HistoryTypes' /\ TrueEnds'
    BY <2>0 DEF EarnedInv, HistoryTypes, TrueEnds
  <2>2. Earned(pg)' /\ Earned(pgCache)' /\ (pgWorker.active => Earned(pgWorker.new))'
    <3>0. Done("Succeeded")' = Done("Succeeded") /\ Done("Failed")' = Done("Failed")
      BY <2>0 DEF Done
    <3>1. CASE PodGroupReconcile
      <4>1. UNCHANGED <<pg, pgCache>>
        BY <3>1 DEF PodGroupReconcile
      <4>2. CASE pgCache.phase \in Final
        BY <3>0, <3>1, <4>1, <4>2 DEF PodGroupReconcile, EarnedInv, Earned
      <4>3. CASE pgCache.phase \notin Final
        <5>1. PICK new \in Reconciled(pgCache, podCache) :
                 pgWorker' = [old |-> pgCache, new |-> new, active |-> TRUE]
          BY <3>1, <4>3 DEF PodGroupReconcile
        <5>2. Earned(new)
          BY <2>0, <4>3, ReconciledEarned
        <5>3. Earned(pg) /\ Earned(pgCache) /\ pgWorker'.new = new
          BY <5>1 DEF EarnedInv
        <5> QED BY <3>0, <4>1, <5>2, <5>3 DEF Earned
      <4> QED BY <4>2, <4>3
    <3>2. CASE patchPodGroup
      <4>1. UNCHANGED pgCache /\ ~pgWorker'.active /\ pg' = MergePatch(pg, pgWorker.old, pgWorker.new)
        BY <3>2 DEF patchPodGroup, NoReconcile
      <4>2. Earned(pg) /\ Earned(pgWorker.new) /\ Earned(pgCache)
        BY <3>2 DEF patchPodGroup, EarnedInv
      <4>3. DOMAIN pg' = DOMAIN pg /\ pg'.phase \in {pg.phase, pgWorker.new.phase}
        BY <4>1, <4>2 DEF MergePatch, Earned
      <4>4. Earned(pg)'
        BY <3>0, <4>2, <4>3 DEF Earned
      <4> QED BY <3>0, <4>1, <4>2, <4>4 DEF Earned
    <3>3. CASE patchPodGroupFails
      BY <3>0, <3>3 DEF patchPodGroupFails, NoReconcile, EarnedInv, Earned
    <3>4. CASE GroupSeen
      BY <3>0, <3>4 DEF GroupSeen, EarnedInv, Earned
    <3> QED BY <1>3, <3>1, <3>2, <3>3, <3>4 DEF GroupController, PodGroupStep
  <2> QED BY <2>1, <2>2 DEF EarnedInv
<1>4. CASE QuotaController(ElasticQuotaStep)
  <2>1. UNCHANGED <<pg, pgCache, pgWorker, ended, deployed>>
    BY <1>4 DEF QuotaController, pgVars
  <2>2. UNCHANGED <<pod, podCache>>
    BY <1>4 DEF QuotaController, ElasticQuotaStep, ElasticQuotaReconcile, patchElasticQuota,
                QuotaSeen, podVars
  <2> QED BY <2>1, <2>2 DEF EarnedInv, HistoryTypes, TrueEnds, Earned, Done
<1>5. CASE UNCHANGED vars
  BY <1>5 DEF vars, pgVars, podVars, EarnedInv, HistoryTypes, TrueEnds, Earned, Done
<1> QED BY <1>1, <1>2, <1>3, <1>4, <1>5 DEF Next

(* A group that is stored as Finished has had MinMember pods that succeeded, *)
(* and one that is stored as Failed a pod that failed (Reconcile's final     *)
(* phases), however far the caches of the pods and of the group lag and      *)
(* whatever older patch is merged with the status.                           *)
THEOREM FinalPhasesEarned == Spec => []FinalPhaseEarned
<1>1. EarnedInv => FinalPhaseEarned
  BY DEF EarnedInv, Earned, FinalPhaseEarned
<1> QED BY <1>1, EarnedInit, EarnedStep, PTL DEF Spec
=============================================================================
