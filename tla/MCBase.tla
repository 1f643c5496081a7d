------------------------------- MODULE MCBase -------------------------------
(***************************************************************************)
(* Values for the constants, shared by the MC modules.                     *)
(***************************************************************************)
EXTENDS BandwidthOperator, TLC

CONSTANTS n1, n2, p1, p2, p3, w1

\* Both directions alike.
Mbps(x) == [d \in Dir |-> x]
Cap(local, network) ==
    [l \in Link |-> Mbps(IF l = "local" THEN local ELSE network)]

\* p1 and p2 belong to one workload, p3 to none.
Siblings == [p \in Pods |-> IF p \in {p1, p2} THEN w1 ELSE NoOwner]

\* Every annotated pod asks for 2 Mbps, the others get the default of 1.
TwoMbps == [p \in Pods |-> IF p \in Annotated THEN Mbps(2) ELSE Mbps(0)]
OneMbps == Mbps(1)

\* Each link holds two such pods, or one with something to spare, or one
\* exactly.
Narrow == Cap(4, 3)
Tight == Cap(3, 4)
Exact == Cap(2, 2)
\* An administrator raises the local capacity, or resets it to the default.
Edits == {Cap(5, 3), Cap(0, 3)}

Rarely(fault, node, edit, restart, finish, delete) ==
    [k \in Rare |-> CASE k = "fault" -> fault
                      [] k = "node" -> node
                      [] k = "edit" -> edit
                      [] k = "restart" -> restart
                      [] k = "finish" -> finish
                      [] k = "delete" -> delete]
Never == Rarely(0, 0, 0, 0, 0, 0)
OneDelete == Rarely(0, 0, 0, 0, 0, 1)
FaultRestartDelete == Rarely(1, 0, 0, 1, 0, 1)
FaultEditRestart == Rarely(1, 0, 1, 1, 0, 1)
LeaveJoin == Rarely(0, 2, 0, 0, 1, 0)

PodSymmetry == Permutations(Pods)
=============================================================================
