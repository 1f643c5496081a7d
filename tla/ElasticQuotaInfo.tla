-------------------------- MODULE ElasticQuotaInfo --------------------------
(***************************************************************************)
(* capacityscheduling/elasticquota.go: the usage the scheduler counts per  *)
(* namespace.  A resource vector (framework.Resource) is a function from   *)
(* resource names; the native resources are fields of the Go struct and so *)
(* always there, an extended resource only if it was listed.               *)
(***************************************************************************)
EXTENDS Integers, FiniteSets, FiniteSetsExt

CONSTANTS Native,     \* cpu, memory, ephemeral-storage
          Unbounded   \* UpperBoundOfMax, above every sum of requests

LowerBoundOfMin == 0
UpperBoundOfMax == Unbounded

Amount(r, name) == IF name \in DOMAIN r THEN r[name] ELSE 0
Zero == [name \in Native |-> 0]
AddResource(r, s) == [name \in DOMAIN r \cup DOMAIN s |-> Amount(r, name) + Amount(s, name)]
SumResources(amounts, over) ==
    MapThenFoldSet(AddResource, Zero, LAMBDA x : amounts[x], LAMBDA s : CHOOSE x \in s : TRUE, over)

\* framework.NewResource: a native resource the list does not name is 0.
NewResource(list) == [name \in Native \cup DOMAIN list |-> Amount(list, name)]

makeResourceListForBound(bound) == [name \in Native |-> bound]

\* A quota's min and max: a set of at most one list, empty for a nil one.
ListOrBound(list, bound) ==
    NewResource(IF list = {} THEN makeResourceListForBound(bound) ELSE CHOOSE l \in list : TRUE)

newElasticQuotaInfo(min, max) ==
    [pods |-> {}, used |-> Zero,
     min |-> ListOrBound(min, LowerBoundOfMin), max |-> ListOrBound(max, UpperBoundOfMax)]

reserveResource(used, request) == AddResource(used, request)

unreserveResource(used, request) ==
    [name \in DOMAIN used \cup DOMAIN request |-> Amount(used, name) - Amount(request, name)]

\* x1 + x2 exceeds y in some resource; an extended resource is looked at only
\* if x1 names it, and is compared with bound where y does not.
cmp2(x1, x2, y, bound) ==
    \E name \in Native \cup DOMAIN x1 :
        Amount(x1, name) + Amount(x2, name)
            > IF name \in Native \cup DOMAIN y THEN Amount(y, name) ELSE bound

cmp(x, y, bound) == cmp2(x, Zero, y, bound)

usedOverMinWith(info, request) == cmp2(request, info.used, info.min, LowerBoundOfMin)
usedOverMaxWith(info, request) == cmp2(request, info.used, info.max, UpperBoundOfMax)
usedOverMin(info) == cmp(info.used, info.min, LowerBoundOfMin)

aggregatedUsedOverMinWith(infos, request) ==
    LET used == SumResources([ns \in DOMAIN infos |-> infos[ns].used], DOMAIN infos)
        min == SumResources([ns \in DOMAIN infos |-> infos[ns].min], DOMAIN infos)
    IN cmp(AddResource(used, request), min, LowerBoundOfMin)

addPodIfNotPresent(info, p, request) ==
    IF p \in info.pods THEN info
    ELSE [info EXCEPT !.pods = @ \cup {p}, !.used = reserveResource(@, request)]

deletePodIfPresent(info, p, request) ==
    IF p \notin info.pods THEN info
    ELSE [info EXCEPT !.pods = @ \ {p}, !.used = unreserveResource(@, request)]
=============================================================================
