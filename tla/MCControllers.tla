---------------------------- MODULE MCControllers ---------------------------
(* Values for TLC: two pods, one of them with an init container, of
   one namespace or of two. *)
EXTENDS Controllers

CONSTANTS p1, p2, w1, w2, q

SameOrApart == {{}, {p2}}
Owned == [p \in Pods |-> IF p = p1 THEN "job" ELSE ""]
Regular == [p \in Pods |-> {[name |-> 1, request |-> 1], [name |-> 2, request |-> 1]}]
Before == [p \in Pods |-> IF p = p1 THEN {[name |-> 3, request |-> 3]} ELSE {}]
=============================================================================
