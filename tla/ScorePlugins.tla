---------------------------- MODULE ScorePlugins ----------------------------
(***************************************************************************)
(* The score and queue-sort plugins without state of their own:            *)
(* NodeResourcesAllocatable, PodState and QOSSort.  Resources are maps from *)
(* names to amounts; a pod is [containers, init, overhead] for the request. *)
(***************************************************************************)
EXTENDS Integers, Sequences, FiniteSets, FiniteSetsExt, Functions

CONSTANT NonZeroDefaults   \* what schedutil assumes of a container that asks for no cpu or memory

MinNodeScore == 0
MaxNodeScore == 100

\* Go's division truncates towards zero.
TruncatedDiv(a, b) == IF a >= 0 THEN a \div b ELSE -((-a) \div b)

AmountOf(list, name) == IF name \in DOMAIN list THEN list[name] ELSE 0

-----------------------------------------------------------------------------
(* NodeResourcesAllocatable                                                 *)

\* Weights no configuration gives: memory by the byte, a millicore as 1 MiB.
defaultResourcesToWeightMap == [memory |-> 1, cpu |-> 2^20]

\* schedutil.GetRequestForResource, with the non-zero defaults.
GetRequestForResource(list, name) ==
    IF name \in DOMAIN list THEN list[name] ELSE AmountOf(NonZeroDefaults, name)

calculatePodResourceRequest(pod, name) ==
    LET request(c) == GetRequestForResource(c, name) IN
    Max({MapThenSumSet(LAMBDA i : request(pod.containers[i]), DOMAIN pod.containers)}
            \cup {request(pod.init[i]) : i \in DOMAIN pod.init})
        + AmountOf(pod.overhead, name)

calculateResourceAllocatableRequest(node, pod, name) ==
    [allocatable |-> AmountOf(node.allocatable, name),
     requested |-> AmountOf(node.requested, name) + calculatePodResourceRequest(pod, name)]

score(capacity, mode) == IF mode = "Least" THEN -capacity ELSE capacity

resourceScorer(weights, mode, allocatable) ==
    TruncatedDiv(MapThenSumSet(LAMBDA r : score(allocatable[r], mode) * weights[r], DOMAIN weights),
                 MapThenSumSet(LAMBDA r : weights[r], DOMAIN weights))

\* The scorer's score; what is requested is computed and not used by it.
AllocatableScore(node, pod, weights, mode) ==
    resourceScorer(weights, mode,
        [r \in DOMAIN weights |-> calculateResourceAllocatableRequest(node, pod, r).allocatable])

\* validateResources and NewAllocatable: absent arguments take the defaults.
ModeOf(args) == IF args.mode = "" THEN "Least" ELSE args.mode
WeightsOf(args) == IF args.resources = << >> THEN defaultResourcesToWeightMap ELSE args.resources
NewAllocatable(args) ==
    /\ args.mode \in {"", "Least", "Most"}
    /\ \A r \in DOMAIN args.resources : args.resources[r] > 0

\* The lowest score becomes 0 and the highest 100; all are 0 if all are equal.
NormalizeScore(scores) ==
    LET highest == Max(Range(scores))
        lowest == Min(Range(scores))
        oldRange == highest - lowest
        newRange == MaxNodeScore - MinNodeScore
    IN  [n \in DOMAIN scores |->
            IF oldRange = 0 THEN MinNodeScore
            ELSE TruncatedDiv((scores[n] - lowest) * newRange, oldRange) + MinNodeScore]

-----------------------------------------------------------------------------
(* PodState                                                                 *)

PodStateScore(node) == node.terminating - node.nominated

\* The same transformation, in a copy of its own.
PodStateNormalizeScore(scores) == NormalizeScore(scores)

-----------------------------------------------------------------------------
(* QOSSort                                                                  *)

\* A mutant: a burstable pod goes before every other.
compQOSBurstableFirst(q1, q2) ==
    CASE q1 = "Guaranteed" -> TRUE
      [] q1 = "Burstable" -> TRUE
      [] OTHER -> q2 = "BestEffort"

compQOS(q1, q2) ==
    CASE q1 = "Guaranteed" -> TRUE
      [] q1 = "Burstable" -> q2 # "Guaranteed"
      [] OTHER -> q2 = "BestEffort"

Less(p1, p2) == p1.prio > p2.prio \/ (p1.prio = p2.prio /\ compQOS(p1.qos, p2.qos))

-----------------------------------------------------------------------------
(* container/heap, which keeps the active queue sorted by the Less of the    *)
(* queue sort plugin; less holds the pairs whose first entry is the lesser.  *)

Swapped(heap, i, j) == [heap EXCEPT ![i] = heap[j], ![j] = heap[i]]

RECURSIVE Up(_, _, _)
Up(heap, j, less) ==
    IF j = 1 \/ <<heap[j], heap[j \div 2]>> \notin less THEN heap
    ELSE Up(Swapped(heap, j, j \div 2), j \div 2, less)

RECURSIVE Down(_, _, _)
Down(heap, i, less) ==
    LET left == 2 * i
        child == IF left < Len(heap) /\ <<heap[left + 1], heap[left]>> \in less THEN left + 1 ELSE left
    IN  IF left > Len(heap) THEN heap
        ELSE IF <<heap[child], heap[i]>> \notin less THEN heap
        ELSE Down(Swapped(heap, i, child), child, less)

HeapPush(heap, x, less) == Up(Append(heap, x), Len(heap) + 1, less)

\* What is left when the first is taken.
HeapPop(heap, less) == Down(SubSeq(Swapped(heap, 1, Len(heap)), 1, Len(heap) - 1), 1, less)
=============================================================================
