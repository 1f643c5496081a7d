---------------------------- MODULE MCBenchmark -----------------------------
(***************************************************************************)
(* Two runs of kubectl health create, one after the other or overlapping,  *)
(* on a cluster of two nodes one of which is excluded.                      *)
(***************************************************************************)
EXTENDS Benchmark

CONSTANTS n1, n2
MCNodes == {n1, n2}
MCExcluded == {n2}

\* The second run is started after the first, or while it waits for its last
\* pods or releases what it made.
Finishing == {"waitIntra", "listIntra", "releasePods", "releasePodPod", "releaseIntra",
              "releaseDsHost", "releaseDsPod", "releaseSvcPod", "releaseSvcHost"}
=============================================================================
