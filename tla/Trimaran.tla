------------------------------ MODULE Trimaran ------------------------------
(***************************************************************************)
(* trimaran/handler.go: the pods bound lately, which the load-aware plugins *)
(* add to metrics that do not show them yet.  ScheduledPodsCache is a      *)
(* function from every node to the sequence of [pod, at] entries.          *)
(***************************************************************************)
EXTENDS Integers, Sequences

CONSTANT ReportingInterval   \* metricsAgentReportingIntervalSeconds, in ticks

updateCache(cache, p, n, now) ==
    [cache EXCEPT ![n] = Append(@, [pod |-> p, at |-> now])]

\* OnUpdate appends only when the node changed, which it never does.
OnUpdate(cache, p, old, new, now) ==
    IF old.node # new.node THEN updateCache(cache, p, new.node, now) ELSE cache

\* The entries after i copied one place down, and the last place cut off.
WithoutEntry(s, i) == SubSeq(s, 1, i - 1) \o SubSeq(s, i + 1, Len(s))

OnDelete(cache, p, n) ==
    IF \A i \in DOMAIN cache[n] : cache[n][i].pod # p THEN cache
    ELSE LET i == CHOOSE j \in DOMAIN cache[n] : /\ cache[n][j].pod = p
                                                 /\ \A k \in 1..j - 1 : cache[n][k].pod # p IN
         [cache EXCEPT ![n] = WithoutEntry(@, i)]

\* cleanupCache: sort.Search bisects for the first entry that is not old; a
\* node whose entries are all old is left alone.  The bisection is modelled as
\* it runs, since it is only a search if the entries are in time order.
IsRecent(entry, now) == entry.at + ReportingInterval > now

SortSearch(s, now) ==
    LET search[r \in (0..Len(s)) \X (0..Len(s))] ==
            IF r[1] >= r[2] THEN r[1]
            ELSE LET h == (r[1] + r[2]) \div 2 IN
                 IF ~IsRecent(s[h + 1], now) THEN search[<<h + 1, r[2]>>] ELSE search[<<r[1], h>>] IN
    search[<<0, Len(s)>>]

\* Mutant: the first recent entry goes with the old ones.
CleanOneTooMany(s, now) ==
    LET idx == SortSearch(s, now) IN
    IF idx = Len(s) THEN s ELSE SubSeq(s, idx + 2, Len(s))

CleanEntries(s, now) ==
    LET idx == SortSearch(s, now) IN
    IF idx = Len(s) THEN s ELSE SubSeq(s, idx + 1, Len(s))

cleanupCache(cache, now) == [n \in DOMAIN cache |-> CleanEntries(cache[n], now)]

-----------------------------------------------------------------------------
\* trimaran/collector.go: the metrics of the last successful fetch; none
\* before the first.  GetNodeMetrics answers nothing for an unknown node.
updateMetrics(metrics, fetched) == IF fetched = {} THEN metrics ELSE fetched

GetNodeMetrics(metrics, n) ==
    IF metrics = {} THEN {} ELSE LET m == CHOOSE x \in metrics : TRUE IN
    IF n \in DOMAIN m THEN {m[n]} ELSE {}
=============================================================================
