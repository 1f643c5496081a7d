--------------------------- MODULE VaclabAdmission ---------------------------
(***************************************************************************)
(* VaclabSystem with the history its admission argument needs: which nodes *)
(* the Filter of the cycle in progress saw in step with their requests,    *)
(* and on which nodes a reservation was ever made on any other view.       *)
(***************************************************************************)
EXTENDS VaclabSystem

VARIABLES
    synced,    \* nodes whose status was the account of their requests at Filter
    raced      \* nodes that took a reservation while not in synced

admissionVars == <<vars, synced, raced>>

AdmissionInit == SteadyInit /\ synced = {} /\ raced = {}

AdmissionNext ==
    /\ Next
    /\ synced' = IF cycle.pc = "filter" /\ cycle'.pc = "score"
                   THEN {n \in Nodes : Exists(n) /\ Accounted(n)}
                   ELSE {n \in synced : bw'[n] # NoBandwidth}
    /\ raced' = IF /\ cycle.pc = "reserveUpdate" /\ cycle'.pc # "reserveUpdate"
                   /\ cycle.node \notin synced
                  THEN raced \cup {cycle.node}
                  ELSE raced

AdmissionSpec == AdmissionInit /\ [][AdmissionNext]_admissionVars

\* SyncedReservationsFit: on a node where every reservation was made after a
\* Filter that saw a status in step with the requests, the requests never
\* exceed the local link, whatever the operator, failed binds and restarts
\* did between Filter and Reserve.
SyncedReservationsFit ==
    \A n \in Nodes \ raced : Exists(n) => LinkFits(n, "local")

=============================================================================
