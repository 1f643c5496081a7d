--------------------------- MODULE MCCoscheduling ---------------------------
(* Values for TLC: two groups of two pods that compete, or one of three.  All *)
(* pods of a group are needed.                                               *)
EXTENDS Coscheduling

CONSTANTS a1, a2, b1, b2, c1, c2, c3, ga, gb, gc, n1

LabelOf == [p \in Pods |-> IF p \in {a1, a2} THEN ga ELSE IF p \in {b1, b2} THEN gb ELSE gc]
Quorum == [g \in Groups |-> IF g = gc THEN 3 ELSE 2]
Three == [n \in Nodes |-> 3]
Created == [x \in Pods \cup Groups |-> IF x \in {ga, a1} THEN 1 ELSE 2]
Named == [p \in Pods |-> CHOOSE i \in 1..7 : <<a1, a2, b1, b2, c1, c2, c3>>[i] = p]
Equal == [p \in Pods |-> 0]
TwoPairsOrThree == {[queued |-> {a1, b1, b2}, later |-> {a2}], [queued |-> {c1, c2, c3}, later |-> {}]}
=============================================================================
