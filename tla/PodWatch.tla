------------------------------ MODULE PodWatch ------------------------------
(***************************************************************************)
(* The pods, as kubelets and users change them, and the pod cache of the   *)
(* controller manager, which follows in its own time and is read by both   *)
(* controllers (external).  The group and the quota are of one namespace;  *)
(* other namespaces have pods with the same label.                         *)
(***************************************************************************)
EXTENDS Integers, FiniteSets, FiniteSetsExt

CONSTANTS
    Pods,        \* all of them carry the label of the group
    Placements,  \* which pods may be of other namespaces: a set of sets of pods
    InitPods     \* the pods that exist, Pending, at first

ASSUME PodAssumption == IsFiniteSet(Pods)

VARIABLES
    pod,         \* phase of each pod in the store, "absent" before and after
    podCache,    \* the same, in the cache
    elsewhere    \* the pods of other namespaces, which never changes

podVars == <<pod, podCache, elsewhere>>

PodInit ==
    /\ pod = [p \in Pods |-> IF p \in InitPods THEN "Pending" ELSE "absent"]
    /\ podCache = [p \in Pods |-> "absent"]
    /\ elsewhere \in Placements

(* A pod is created, runs, ends one way or the other, and is deleted at any time. *)
NextPhases(s) ==
    CASE s = "absent"  -> {"Pending"}
      [] s = "Pending" -> {"Running", "Failed", "deleted"}
      [] s = "Running" -> {"Succeeded", "Failed", "deleted"}
      [] s \in {"Succeeded", "Failed"} -> {"deleted"}
      [] OTHER -> {}

PodMoves(p) ==
    /\ \E s \in NextPhases(pod[p]) : pod' = [pod EXCEPT ![p] = s]
    /\ UNCHANGED <<podCache, elsewhere>>

(* The informer sees the pod as it is now. *)
PodSeen(p) ==
    /\ podCache[p] # pod[p]
    /\ podCache' = [podCache EXCEPT ![p] = pod[p]]
    /\ UNCHANGED <<pod, elsewhere>>

InPhase(pods, s) == {p \in Pods : pods[p] = s}

Existing(pods) == {p \in Pods : pods[p] \notin {"absent", "deleted"}}
=============================================================================
