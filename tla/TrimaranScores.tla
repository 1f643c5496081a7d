--------------------------- MODULE TrimaranScores ---------------------------
(***************************************************************************)
(* The scores of the load-aware plugins: TargetLoadPacking,                 *)
(* LoadVariationRiskBalancing and LowRiskOverCommitment, over the metrics   *)
(* the collector holds and, for the first, the pods its handler remembers   *)
(* (module Trimaran).  Fractions are percentages, rounded where the code    *)
(* rounds; the beta distribution LowRiskOverCommitment fits is external.    *)
(*                                                                          *)
(* A metric is [Type, Operator, Value]; a container's lists map "cpu" and   *)
(* "memory" to amounts.                                                     *)
(***************************************************************************)
EXTENDS Integers, Sequences, SequencesExt, FiniteSets, FiniteSetsExt

MinNodeScore == 0
MaxNodeScore == 100
metricsAgentReportingIntervalSeconds == 60

Of(list, name) == IF name \in DOMAIN list THEN list[name] ELSE 0
Clamp(x) == Max({Min({x, 100}), 0})

\* math.Round(a / b) for b > 0, halves away from zero.
Round(a, b) == IF a >= 0 THEN (2 * a + b) \div (2 * b) ELSE -((2 * (-a) + b) \div (2 * b))

-----------------------------------------------------------------------------
(* resourcestats.go                                                         *)

\* The last average wins over any latest value, whatever the order.
GetResourceData(metrics, resourceType) ==
    LET step(acc, m) ==
            CASE m.Type # resourceType -> acc
              [] m.Operator = "AVG" -> [acc EXCEPT !.avg = m.Value, !.avgFound = TRUE, !.isValid = TRUE]
              [] m.Operator = "STD" -> [acc EXCEPT !.stDev = m.Value, !.isValid = TRUE]
              [] m.Operator \in {"", "Latest"} /\ ~acc.avgFound ->
                     [acc EXCEPT !.avg = m.Value, !.isValid = TRUE]
              [] OTHER -> [acc EXCEPT !.isValid = TRUE]
    IN  FoldLeft(step, [avg |-> 0, stDev |-> 0, avgFound |-> FALSE, isValid |-> FALSE], metrics)

\* Usage in hundredths of the resource's unit.
CreateResourceStats(metrics, capacity, request, resourceType) ==
    LET data == GetResourceData(metrics, resourceType) IN
    [isValid |-> data.isValid, Capacity |-> capacity, Req |-> 100 * request,
     UsedAvg |-> data.avg * capacity, UsedStdev |-> data.stDev * capacity]

\* mu and sigma in percent of the capacity.
GetMuSigma(rs) ==
    IF rs.Capacity <= 0 THEN [mu |-> 0, sigma |-> 0]
    ELSE [mu |-> Clamp((rs.UsedAvg + rs.Req) \div rs.Capacity),
          sigma |-> Clamp(rs.UsedStdev \div rs.Capacity)]

\* Of the init containers only cpu and memory are looked at.
GetEffectiveResource(pod, lists, initLists) ==
    [r \in {"cpu", "memory"} |->
        Max({MapThenSumSet(LAMBDA i : Of(lists[i], r), DOMAIN lists)}
                \cup {Of(initLists[i], r) : i \in DOMAIN initLists})
            + Of(pod.overhead, r)]

GetResourceRequested(pod) == GetEffectiveResource(pod, pod.requests, pod.initRequests)
GetResourceLimits(pod) == GetEffectiveResource(pod, pod.limits, pod.initLimits)

SetMaxLimits(requests, limits) == [r \in DOMAIN limits |-> Max({requests[r], limits[r]})]

setMin(x, y) == Min({x, y})

CreatePodResourcesStateData(pod) ==
    [podRequests |-> GetResourceRequested(pod),
     podLimits |-> SetMaxLimits(GetResourceRequested(pod), GetResourceLimits(pod))]

\* Sums over the pods of the node, without and with the pending one.
GetNodeRequestsAndLimits(podsOnNode, capacity, pod) ==
    LET of(p) == CreatePodResourcesStateData(p)
        sum(field, r) == MapThenSumSet(LAMBDA i : of(podsOnNode[i])[field][r], DOMAIN podsOnNode)
    IN  [r \in DOMAIN capacity |->
            [requestMinusPod |-> setMin(sum("podRequests", r), capacity[r]),
             limitMinusPod |-> sum("podLimits", r),
             request |-> setMin(sum("podRequests", r) + of(pod).podRequests[r], capacity[r]),
             limit |-> sum("podLimits", r) + of(pod).podLimits[r],
             capacity |-> capacity[r]]]

-----------------------------------------------------------------------------
(* TargetLoadPacking                                                        *)

\* multiplier is args.DefaultRequestsMultiplier in tenths.
PredictUtilisation(request, limit, args) ==
    IF "cpu" \in DOMAIN limit THEN limit["cpu"]
    ELSE IF "cpu" \in DOMAIN request THEN Round(request["cpu"] * args.multiplier, 10)
    ELSE args.requestsMilliCores

PredictedUsage(pod, args) ==
    MapThenSumSet(LAMBDA i : PredictUtilisation(pod.requests[i], pod.limits[i], args),
                  DOMAIN pod.requests)
        + Of(pod.overhead, "cpu")

\* Pods the metrics cannot have seen yet: newer than the window, or so close
\* to its end that their agent may not have reported.
Missing(scheduled, windowEnd) ==
    {i \in DOMAIN scheduled :
        \/ scheduled[i].Timestamp > windowEnd
        \/ windowEnd - scheduled[i].Timestamp < metricsAgentReportingIntervalSeconds}

missingCPUUtilMillis(scheduled, windowEnd, args) ==
    MapThenSumSet(LAMBDA i : PredictedUsage(scheduled[i].Pod, args), Missing(scheduled, windowEnd))

\* usage / cap is the predicted utilisation in percent: the score rises from
\* target to 100 as it approaches the target, and falls from target to 0 above.
PackingScore(usage, cap, target) ==
    IF usage > target * cap
    THEN IF usage > 100 * cap THEN MinNodeScore
         ELSE Round(target * (100 * cap - usage), (100 - target) * cap)
    ELSE Round((100 - target) * usage + target * target * cap, target * cap)

\* The last CPU average or latest value is taken; no metric is the minimum.
TargetLoadPackingScore(metrics, cap, pod, scheduled, windowEnd, args) ==
    LET cpu == SelectSeq(metrics, LAMBDA m : m.Type = "CPU" /\ m.Operator \in {"AVG", "Latest"})
        usage == cpu[Len(cpu)].Value * cap
                     + 100 * (PredictedUsage(pod, args) + missingCPUUtilMillis(scheduled, windowEnd, args))
    IN  IF cpu = << >> THEN MinNodeScore
        ELSE IF cap = 0 THEN PackingScore(0, 1, args.target)
        ELSE PackingScore(usage, cap, args.target)

-----------------------------------------------------------------------------
(* LoadVariationRiskBalancing                                               *)

\* sigma ^ (1 / sensitivity) for the sensitivities whose root is rational;
\* half is a sensitivity of one half, a negative one takes no root.
Root(sigma, sensitivity) ==
    CASE sensitivity = "zero" -> IF sigma = 100 THEN 100 ELSE 0
      [] sensitivity = "half" -> (sigma * sigma) \div 100
      [] OTHER -> sigma

\* In halves of a point: (1 - (mu + sigma) / 2) * 100.
computeScore(rs, margin, sensitivity) ==
    IF rs.Capacity <= 0 THEN 0
    ELSE LET bounded(x) == Max({Min({x, 100 * rs.Capacity}), 0})
             m == GetMuSigma([rs EXCEPT !.Req = Max({@, 0}), !.UsedAvg = bounded(@),
                                        !.UsedStdev = bounded(@)])
         IN  200 - (m.mu + Clamp(Root(m.sigma, sensitivity) * margin))

\* The worse of the two resources if both have data, else the one that has.
LoadVariationScore(metrics, capacity, pod, margin, sensitivity) ==
    LET request == GetResourceRequested(pod)
        cpuStats == CreateResourceStats(metrics, capacity.cpu, request.cpu, "CPU")
        memoryStats == CreateResourceStats(metrics, capacity.memory, request.memory, "Memory")
        scoreOf(rs) == IF rs.isValid THEN computeScore(rs, margin, sensitivity) ELSE 0
        both == {scoreOf(cpuStats), scoreOf(memoryStats)}
    IN  Round(IF cpuStats.isValid /\ memoryStats.isValid THEN Min(both) ELSE Max(both), 2)

-----------------------------------------------------------------------------
(* LowRiskOverCommitment                                                    *)

\* The probability, in percent, that the load stays below a threshold: cdf is
\* the fitted beta distribution (external), fitted only to a varying load.
ComputeProbability(mu, sigma, threshold, cdf) ==
    CASE mu = 0 \/ (sigma = 0 /\ mu <= threshold) -> [prob |-> 100, fitted |-> FALSE]
      [] sigma = 0 -> [prob |-> 0, fitted |-> FALSE]
      [] mu >= 100 -> [prob |-> 0, fitted |-> FALSE]
      [] OTHER -> [prob |-> cdf[threshold], fitted |-> TRUE]

\* A mutant: the share of the limit within the capacity, not beyond it.
riskLimitWithin(n) ==
    IF n.limit > n.capacity THEN ((n.capacity - n.request) * 100) \div (n.limit - n.request) ELSE 0

riskLimit(n) ==
    IF n.limit > n.capacity THEN ((n.limit - n.capacity) * 100) \div (n.limit - n.request) ELSE 0

\* Conditioned on the load not exceeding what the pods may use at most.
riskLoad(stats, n, cdf) ==
    LET m == GetMuSigma(stats)
        sigma == IF m.mu \in {0, 100} THEN 0 ELSE m.sigma
        alloc == ComputeProbability(m.mu, sigma, Clamp((n.requestMinusPod * 100) \div n.capacity), cdf)
        limitThreshold == (n.limitMinusPod * 100) \div n.capacity
        conditioned == n.limitMinusPod < n.capacity /\ n.requestMinusPod <= n.limitMinusPod
    IN  CASE ~stats.isValid -> 0
          [] conditioned /\ limitThreshold = 0 -> 0
          [] conditioned /\ alloc.fitted /\ cdf[limitThreshold] > 0 ->
                 100 - Clamp((alloc.prob * 100) \div cdf[limitThreshold])
          [] OTHER -> 100 - alloc.prob

\* w is the weight of the limit's part, in percent.
computeRisk(metrics, n, resourceType, w, cdf) ==
    LET stats == CreateResourceStats(metrics, n.capacity, 0, resourceType)
    IN  Clamp((w * riskLimit(n) + (100 - w) * riskLoad(stats, n, cdf)) \div 100)

computeRank(metrics, podsOnNode, capacity, pod, w, cdf) ==
    LET all == GetNodeRequestsAndLimits(podsOnNode, capacity, pod) IN
    100 - Max({computeRisk(metrics, all["cpu"], "CPU", w, cdf),
               computeRisk(metrics, all["memory"], "Memory", w, cdf)})

\* A best-effort pod, and a node without metrics, score the minimum.
LowRiskScore(metrics, podsOnNode, capacity, pod, w, cdf) ==
    LET own == CreatePodResourcesStateData(pod) IN
    IF \/ metrics = << >>
       \/ \A r \in {"cpu", "memory"} : own.podRequests[r] = 0 /\ own.podLimits[r] = 0
    THEN MinNodeScore
    ELSE computeRank(metrics, podsOnNode, capacity, pod, w, cdf)
=============================================================================
