------------------------------- MODULE SySched -------------------------------
(***************************************************************************)
(* sysched/sysched.go: which system calls the pods of each node may make,  *)
(* and the score of a node for a pod.  HostToPods and HostSyscalls are     *)
(* functions from the hosts that have an entry.  A pod is its name: the    *)
(* plugin compares pods of a host by name alone.                           *)
(***************************************************************************)
EXTENDS Integers, FiniteSets, FiniteSetsExt

\* readSPOProfileCR: the allow and log sections of a profile; a path that
\* parseNameNS does not understand is the empty profile.
readSPOProfileCR(profile) == UNION {s.names : s \in {t \in profile : t.action \in {"allow", "log"}}}

\* getSyscalls: the profiles of the pod, of its containers and of one of its
\* annotations (the loop stops at the first one of a map that can be read, in no
\* fixed order); without any, the default profile.  Each profile is an object
\* that is fetched: readable are those whose Get succeeds this time, and one that
\* fails is left out.  The set of the possible results.
getSyscalls(pod, default, readable) ==
    LET read(profiles) == {readSPOProfileCR(s) : s \in profiles \cap readable}
        own == UNION read(pod.pod \cup pod.containers)
        annotated == IF pod.annotations \cap readable = {} THEN {{}} ELSE read(pod.annotations) IN
    {IF own \cup a = {} THEN UNION read({default}) ELSE own \cup a : a \in annotated}

\* What one call may return for a pod, whichever of its reads fail.
PossibleSyscalls(pod, default) ==
    UNION {getSyscalls(pod, default, readable) :
              readable \in SUBSET (pod.pod \cup pod.containers \cup pod.annotations \cup {default})}

calcScore(syscalls) == Cardinality(syscalls)

\* A mutant: what the pods of the host would see is not counted.
SySchedScoreOfPod(podSyscalls, hostPods, hostSyscalls, syscallsOf) ==
    IF podSyscalls = {} THEN "top" ELSE calcScore(hostSyscalls \ podSyscalls)

\* Score: what p would see of the host, and what every pod of the host would
\* see more with p there.  "top" is math.MaxInt64.
SySchedScore(podSyscalls, hostPods, hostSyscalls, syscallsOf) ==
    IF podSyscalls = {} THEN "top"
    ELSE LET newHostSyscalls == hostSyscalls \cup podSyscalls IN
         calcScore(hostSyscalls \ podSyscalls)
           + MapThenSumSet(LAMBDA q : calcScore(newHostSyscalls \ syscallsOf[q]), hostPods)

\* helper.DefaultNormalizeScore, in reverse.
NormalizeExposure(scores) ==
    LET most == Max({scores[n] : n \in DOMAIN scores}) IN
    [n \in DOMAIN scores |-> IF most = 0 THEN 100 ELSE 100 - (100 * scores[n]) \div most]

-----------------------------------------------------------------------------
\* The event handlers.  sc = [pods, calls]: both partial functions of hosts.
\* syscallsOf is what getSyscalls returns for each pod during this event: it is
\* called anew for the pods concerned, and nothing is kept of earlier answers.
NewSySched == [pods |-> [n \in {} |-> {}], calls |-> [n \in {} |-> {}]]

With(f, n, v) == [m \in DOMAIN f \cup {n} |-> IF m = n THEN v ELSE f[m]]

addPod(sc, p, n, syscalls) ==
    IF n \notin DOMAIN sc.pods
    THEN [pods |-> With(sc.pods, n, {p}), calls |-> With(sc.calls, n, syscalls)]
    ELSE IF p \in sc.pods[n] THEN sc
    ELSE [pods |-> With(sc.pods, n, sc.pods[n] \cup {p}),
          calls |-> With(sc.calls, n, sc.calls[n] \cup syscalls)]

recomputeHostSyscalls(pods, syscallsOf) == UNION {syscallsOf[q] : q \in pods}

\* Mutant: the host keeps the system calls of the pod that left.
removePodStale(sc, p, n, syscallsOf) ==
    IF n \notin DOMAIN sc.pods THEN sc ELSE [sc EXCEPT !.pods[n] = @ \ {p}]

removePod(sc, p, n, syscallsOf) ==
    IF n \notin DOMAIN sc.pods \/ (n \in DOMAIN sc.pods /\ p \notin sc.pods[n]) THEN sc
    ELSE [pods |-> With(sc.pods, n, sc.pods[n] \ {p}),
          calls |-> With(sc.calls, n, recomputeHostSyscalls(sc.pods[n] \ {p}, syscallsOf))]

podAdded(sc, p, new, syscallsOf) ==
    IF new.phase = "Running" THEN addPod(sc, p, new.node, syscallsOf[p]) ELSE sc

\* The handler looks at the old version: Pending with a host IP.
podUpdated(sc, p, old, syscallsOf) ==
    IF old.phase = "Creating" THEN addPod(sc, p, old.node, syscallsOf[p]) ELSE sc

podDeleted(sc, p, old, syscallsOf) == removePod(sc, p, old.node, syscallsOf)
=============================================================================
