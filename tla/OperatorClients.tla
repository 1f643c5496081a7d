--------------------------- MODULE OperatorClients ---------------------------
(***************************************************************************)
(* The bandwidth operator among clients that may do to the Bandwidth       *)
(* objects whatever a scheduler's Reserve and Unreserve can, in any order, *)
(* for any pod and node, and may bind any pod anywhere.  VaclabSystem      *)
(* implements this specification; what holds of the operator here does not *)
(* depend on the scheduler being the only client, or being there at all.   *)
(***************************************************************************)
EXTENDS BandwidthOperator

\* A request of a client may be carried out and still be reported to fail.
MayFail == UNCHANGED budget \/ Spend("fault")

ClientRequest(n, p) ==
    /\ Exists(n) /\ pods[p].phase # "Unborn"
    /\ StoreSpec(n, AddBandwidthRequest(bw[n].requests, p), bw[n].capacity)
    /\ MayFail
    /\ UNCHANGED <<pods, nodes, operatorVars>>

ClientRelease(n, p) ==
    /\ Exists(n) /\ p \in Entries(bw[n].requests)
    /\ StoreSpec(n, RemoveBandwidthRequest(bw[n].requests, p), bw[n].capacity)
    /\ UNCHANGED <<pods, nodes, budget, operatorVars>>

ClientBind(n, p) ==
    /\ pods[p].phase = "Pending" /\ pods[p].node = NoNode
    /\ pods' = [pods EXCEPT ![p].node = n]
    /\ MayFail
    /\ UNCHANGED <<bw, current, nodes, operatorVars>>

\* A client fails or restarts without any effect on the store.
ClientFails ==
    /\ Spend("fault") \/ Spend("restart")
    /\ UNCHANGED <<bw, current, pods, nodes, operatorVars>>

ClientWrite ==
    \E n \in Nodes, p \in Pods : \/ ClientRequest(n, p)
                                 \/ ClientRelease(n, p)
                                 \/ ClientBind(n, p)

ClientsInit == ClusterInit /\ OperatorInit

ClientsNext ==
    \/ ClusterNext /\ UNCHANGED operatorVars
    \/ OperatorNext
    \/ ClientWrite
    \/ ClientFails

ClientsSpec == ClientsInit /\ [][ClientsNext]_opVars

ClientsTypeOK == ClusterTypeOK /\ OperatorTypeOK

-----------------------------------------------------------------------------
(* What makes SettledAccounting inductive: how the copy a reconcile works  *)
(* on relates to the stored object, and why a reconcile that leaves the    *)
(* object as it is may leave it.                                           *)

\* A cache that holds the stored version holds the stored object.
CacheInv == \A n \in Nodes : "cache" \in current[n] => bwCache[n] = bw[n]

WorkerInv ==
    LET n == worker.node
    IN  \* the copy is the stored object as long as its version is
        /\ worker.pc \in {"listed", "update"} =>
              /\ worker.obj # NoBandwidth
              /\ "worker" \in current[n] => worker.obj = bw[n]
        \* if it no longer is, the cache is behind or the node is queued
        /\ worker.pc = "listed" =>
              \/ "cache" \notin current[n]
              \/ "worker" \in current[n]
              \/ n \in queue
        \* an update comes with the right decision about the status
        /\ worker.pc = "update" =>
              /\ SpecChanged(worker.obj, worker.clean, worker.cap)
              /\ worker.statusChanged =
                   StatusChanged(worker.obj, worker.clean, worker.cap)
        \* an update that changed nothing is followed by a status update
        /\ worker.pc = "refetch" =>
              \/ "cache" \notin current[n]
              \/ worker.statusChanged
              \/ n \in queue
        \* a node that came back after it was seen gone is queued
        /\ worker.pc = "delete" => n \notin nodeCache \/ n \in queue

\* OperatorInv: the accounts are right wherever the operator has nothing more
\* to do, and for the reconcile in progress there is always a reason why
\* they will be: a fresh copy, a queued node or a cache about to move.
OperatorInv == CacheInv /\ WorkerInv /\ SettledAccounting
=============================================================================
