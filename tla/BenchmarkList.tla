--------------------------- MODULE BenchmarkList ----------------------------
(***************************************************************************)
(* kubectl health get (k3sutils/list_benchmark.go): the stored results that *)
(* a filter lets through, the newest of each kind with --latest, in the     *)
(* order they are printed.                                                  *)
(*                                                                          *)
(* Names are numbers in their alphabetical order, so modes are 1 (host),    *)
(* 2 (intra) and 3 (pod).  sort.Slice is not stable: equal elements may     *)
(* come in any order, and a listing is a set of possible sequences.         *)
(***************************************************************************)
EXTENDS Integers, Sequences, SequencesExt

\* The results of every ConfigMap with our prefix and a readable report; a
\* timestamp that cannot be parsed is replaced by the creation time.
getAllDestNodeResults(configMaps) ==
    LET resultsOf(cm) ==
            [i \in DOMAIN cm.results |->
                [cm.results[i] EXCEPT !.time = IF cm.timestamp = {} THEN cm.created
                                               ELSE CHOOSE t \in cm.timestamp : TRUE,
                                      !.mode = cm.mode]]
    IN FlattenSeq([i \in DOMAIN configMaps |->
                       IF configMaps[i].prefixed /\ configMaps[i].readable
                       THEN resultsOf(configMaps[i]) ELSE << >>])

\* A mode that is none of the three filters nothing; nodes is the set of nodes
\* whose name contains the text given, all of them for the empty text.
Matches(r, filter, startOfDay) ==
    /\ filter.today => r.time >= startOfDay
    /\ filter.mode \in 1 .. 3 => r.mode = filter.mode
    /\ r.dest \in filter.nodes

\* The outcomes sort.Slice can have: less holds the pairs of positions whose
\* first entry is the lesser.
Orderings(s, less) ==
    LET inOrder == {p \in SetToSeqs(DOMAIN s) :
                       \A i, j \in DOMAIN p : i < j => <<p[j], p[i]>> \notin less}
    IN {[i \in DOMAIN s |-> s[p[i]]] : p \in inOrder}

\* A mutant: the oldest come first.
OlderFirst(s) == {<<i, j>> \in (DOMAIN s) \X (DOMAIN s) : s[i].time < s[j].time}

Newer(s) == {<<i, j>> \in (DOMAIN s) \X (DOMAIN s) : s[i].time > s[j].time}

Key(r) == <<r.dest, r.mode, r.protocol, r.direction>>

\* The first result of every key.
LatestOnly(s) ==
    LET first(i) == \A j \in 1 .. i - 1 : Key(s[j]) # Key(s[i])
    IN FoldLeft(LAMBDA kept, i : IF first(i) THEN Append(kept, s[i]) ELSE kept,
                << >>, [i \in DOMAIN s |-> i])

\* By destination, mode, protocol and direction.
Grouped(s) ==
    LET fields(r) == <<r.dest, r.mode, r.protocol, r.direction>>
        before(a, b) == \E k \in 1 .. 4 : a[k] < b[k] /\ \A j \in 1 .. k - 1 : a[j] = b[j]
    IN {<<i, j>> \in (DOMAIN s) \X (DOMAIN s) : before(fields(s[i]), fields(s[j]))}

Limited(s, limit) == IF limit > 0 /\ Len(s) > limit THEN SubSeq(s, 1, limit) ELSE s

\* The lines that may be printed.
ListBenchmarksWithFilter(configMaps, filter, startOfDay) ==
    LET found == SelectSeq(getAllDestNodeResults(configMaps), LAMBDA r : Matches(r, filter, startOfDay))
        kept(s) == IF filter.latest THEN LatestOnly(s) ELSE s
    IN UNION {{Limited(listing, filter.limit) : listing \in Orderings(kept(s), Grouped(kept(s)))} :
                  s \in Orderings(found, Newer(found))}
=============================================================================
