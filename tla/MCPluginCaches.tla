--------------------------- MODULE MCPluginCaches ---------------------------
(* Values for TLC: two own pods, one of another scheduler, a daemon pod. *)
EXTENDS PluginCaches, TLC

CONSTANTS p1, p2, f1, d1, n1, n2, teamA

Daemon == d1 :> n1 @@ [n \in {} |-> n1]
Namespaces == [p \in Pods |-> teamA]
OneCpu == [p \in Pods |-> IF p = d1 THEN [cpu |-> 0] ELSE [cpu |-> 1]]
EqualPriority == [p \in Pods |-> 0]
About(plugin, pods, faults) == [plugin |-> plugin, pods |-> pods, faults |-> faults]
EveryPlugin ==
    {About(plugin, {p1, p2}, {"restart", "lost answer"}) :
        plugin \in {"CapacityScheduling", "DiscardReserved"}}
    \cup {About("Trimaran", {p1, p2}, {}), About("SySched", {p1, p2}, {"restart"}),
          About("CapacityScheduling", {p1, p2}, {"quota changes"}),
          About("OverReserve", {p1, p2, d1}, {}),
          About("OverReserve", {f1, d1}, {"new configuration"}),
          About("OverReserve", {p1, d1}, {"restart", "lost answer", "new configuration"})}
QuotaOnly == {About("CapacityScheduling", {p1, p2}, {})}
Cpu == {"cpu"}
TeamQuota == [ns \in {teamA} |-> [min |-> {[cpu |-> 2]}, max |-> {[cpu |-> 2]}]]
SmallQuota == [ns \in {teamA} |-> [min |-> {[cpu |-> 1]}, max |-> {[cpu |-> 1]}]]
OneUnit == [p \in Pods |-> 1]
DaemonsApart == [p \in Pods |-> IF p = d1 THEN 2 ELSE 1]
Allowing(names) == {[names |-> names, action |-> "allow"]}
Unconfined == Allowing({"read", "write", "open"})
PodProfiles == [p \in Pods |->
    IF p = p1 THEN [pod |-> {Allowing({"read"})}, containers |-> {}, annotations |-> {}]
    ELSE [pod |-> {}, containers |-> {}, annotations |-> {Allowing({"read", "write"}), Allowing({"open"})}]]
=============================================================================
