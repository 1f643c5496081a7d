---------------------------- MODULE PodLifecycle ----------------------------
(***************************************************************************)
(* What the scheduler plugins that keep a cache of pods run in: the API    *)
(* server's pods, the scheduler's pod informer, the serial scheduling      *)
(* cycle, the binding goroutines and the kubelet.  None of this is code of *)
(* the repository; the plugins see it through the framework's extension    *)
(* points and the informer's events.                                       *)
(*                                                                         *)
(* A pod's version is its phase and node.  "Assigned" and "Creating" are   *)
(* both the phase Pending of a bound pod: before and after the kubelet     *)
(* wrote the host IP.                                                      *)
(***************************************************************************)
EXTENDS Integers, Sequences, FiniteSets

CONSTANTS Pods,         \* pods, of every scheduler
          Own,          \* the pods this scheduler places
          Nodes, NoNode,
          InitBound,    \* the running pods of the initial state: pod -> node
          MaxBehind,    \* bound: versions of a pod not yet delivered
          MaxLost,      \* bound: binds whose answer the scheduler loses
          MaxRestarts   \* bound: restarts of the scheduler

ASSUME LifecycleAssumption ==
    /\ Own \subseteq Pods /\ NoNode \notin Nodes
    /\ DOMAIN InitBound \subseteq Pods \ Own
    /\ \A p \in DOMAIN InitBound : InitBound[p] \in Nodes

VARIABLES store,    \* the API server's version of each pod
          feed,     \* the versions the informer has still to deliver
          seen,     \* the version in the informer's store (and the lister)
          stage,    \* where the scheduler is with each own pod
          target,   \* the node an own pod is being placed on
          lost, restarts

lifecycle == <<store, feed, seen, stage, target, lost, restarts>>

Version(phase, n) == [phase |-> phase, node |-> n]
Unseen == Version("Unseen", NoNode)

Daemons == DOMAIN InitBound

\* What a starting informer lists of a pod.
Listed(v) == IF v.phase = "Deleted" THEN <<>> ELSE <<v>>

\* The pods of present exist; the others never do.
LifecycleInit(present) ==
    /\ store = [p \in Pods |-> IF p \notin present THEN Version("Deleted", NoNode)
                              ELSE IF p \in Daemons THEN Version("Running", InitBound[p])
                              ELSE Version("Unbound", NoNode)]
    /\ seen = [p \in Pods |-> Unseen]
    /\ feed = [p \in Pods |-> Listed(store[p])]
    /\ stage = [p \in Own |-> "queued"]
    /\ target = [p \in Own |-> NoNode]
    /\ lost = 0 /\ restarts = 0

Publish(p, v) ==
    /\ Len(feed[p]) < MaxBehind
    /\ store' = [store EXCEPT ![p] = v]
    /\ feed' = [feed EXCEPT ![p] = Append(@, v)]

Unfinished(v) == v.phase \in {"Assigned", "Creating", "Running"}
InCycle == {p \in Own : stage[p] = "cycle"}

\* The informer's initial list has been delivered: the scheduler starts
\* scheduling only then.
Synced == \A p \in Pods : seen[p] = Unseen => feed[p] = <<>>

-----------------------------------------------------------------------------
\* The kubelet runs an assigned pod; a pod is deleted; another scheduler
\* binds a pod that is not ours.
NextPhases(ph) == CASE ph = "Assigned" -> {"Creating", "Running"}
                    [] ph = "Creating" -> {"Running"}
                    [] ph = "Running" -> {"Succeeded"}
                    [] OTHER -> {}

KubeletStep(p) ==
    /\ p \notin Daemons
    /\ \E ph \in NextPhases(store[p].phase) : Publish(p, [store[p] EXCEPT !.phase = ph])
    /\ UNCHANGED <<seen, stage, target, lost, restarts>>

DeleteStep(p) ==
    /\ p \notin Daemons /\ store[p].phase # "Deleted"
    /\ Publish(p, [store[p] EXCEPT !.phase = "Deleted"])
    /\ UNCHANGED <<seen, stage, target, lost, restarts>>

ForeignBind(p, n) ==
    /\ p \notin Own /\ store[p].phase = "Unbound"
    /\ Publish(p, Version("Assigned", n))
    /\ UNCHANGED <<seen, stage, target, lost, restarts>>

-----------------------------------------------------------------------------
\* The informer delivers the next version of p; handlers run with the old
\* and the new one.
DeliverStep(p) ==
    /\ feed[p] # <<>>
    /\ seen' = [seen EXCEPT ![p] = Head(feed[p])]
    /\ feed' = [feed EXCEPT ![p] = Tail(@)]
    /\ UNCHANGED <<store, stage, target, lost, restarts>>

\* The handler a cache.FilteringResourceEventHandler that passes assigned pods
\* calls for the change from old to new.
FilteredEvent(old, new) ==
    LET was == old.node # NoNode
        is == new.node # NoNode IN
    CASE new.phase = "Deleted" -> IF was THEN "delete" ELSE "none"
      [] ~was /\ is -> "add"
      [] was /\ is -> "update"
      [] OTHER -> "none"

-----------------------------------------------------------------------------
\* One scheduling cycle at a time: the filters chose n for p; Reserve; then
\* the binding goroutine.
StartCycle(p, n) ==
    /\ Synced /\ InCycle = {}
    /\ stage[p] = "queued" /\ seen[p].phase = "Unbound"
    /\ stage' = [stage EXCEPT ![p] = "cycle"]
    /\ target' = [target EXCEPT ![p] = n]
    /\ UNCHANGED <<store, feed, seen, lost, restarts>>

MoveTo(p, from, to) ==
    /\ stage[p] = from
    /\ stage' = [stage EXCEPT ![p] = to]
    /\ UNCHANGED <<seen, lost, restarts>>

ReserveStep(p) == MoveTo(p, "cycle", "binding") /\ UNCHANGED <<store, feed, target>>

Bind(p) ==
    /\ MoveTo(p, "binding", "bound")
    /\ store[p].phase = "Unbound"
    /\ Publish(p, Version("Assigned", target[p])) /\ UNCHANGED target

\* The call fails (the pod is gone or already bound, or the server is away).
BindFails(p) == MoveTo(p, "binding", "failed") /\ UNCHANGED <<store, feed, target>>

\* The pod is bound but the scheduler gets an error instead of the answer.
BindLost(p) ==
    /\ lost < MaxLost /\ stage[p] = "binding" /\ store[p].phase = "Unbound"
    /\ Publish(p, Version("Assigned", target[p]))
    /\ stage' = [stage EXCEPT ![p] = "failed"]
    /\ lost' = lost + 1
    /\ UNCHANGED <<seen, target, restarts>>

PostBindStep(p) == MoveTo(p, "bound", "done") /\ UNCHANGED <<store, feed, target>>

UnreserveStep(p) ==
    /\ MoveTo(p, "failed", "queued")
    /\ target' = [target EXCEPT ![p] = NoNode]
    /\ UNCHANGED <<store, feed>>

\* A new scheduler process lists every pod that still exists.
RestartStep ==
    /\ restarts < MaxRestarts /\ restarts' = restarts + 1
    /\ seen' = [p \in Pods |-> Unseen]
    /\ feed' = [p \in Pods |-> Listed(store[p])]
    /\ stage' = [p \in Own |-> "queued"]
    /\ target' = [p \in Own |-> NoNode]
    /\ UNCHANGED <<store, lost>>

=============================================================================
