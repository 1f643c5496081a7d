----------------------------- MODULE VaclabScore -----------------------------
(***************************************************************************)
(* The arithmetic of the plugin's Score and NormalizeScore.                *)
(***************************************************************************)
EXTENDS Integers, FiniteSetsExt

MaxNodeScore == 100

LowerOf(a, b) == IF a < b THEN a ELSE b

\* A mutant of BandwidthScore: what is left may be negative.
BandwidthLeft(remaining, mbps) ==
    LowerOf(remaining.ul - mbps.ul, remaining.dl - mbps.dl)

\* What the NIC has left after the pod, in its worse direction.
BandwidthScore(remaining, mbps) ==
    LET left == LowerOf(remaining.ul - mbps.ul, remaining.dl - mbps.dl)
    IN  IF left < 0 THEN 0 ELSE left

\* localityScore is the number of the workload's pods on the node.
TotalScore(localityScore, bandwidthScore) ==
    localityScore * 7 + bandwidthScore * 3

\* The search for the highest score starts at 0.
HighestScore(scores) ==
    Max({scores[n] : n \in DOMAIN scores} \cup {0})

NormalizeScore(scores) ==
    LET highest == HighestScore(scores)
    IN  [n \in DOMAIN scores |->
            IF highest = 0 THEN 0 ELSE (scores[n] * MaxNodeScore) \div highest]

-----------------------------------------------------------------------------
(* A candidate offers its siblings and what its NIC has left.              *)

CandidateScore(c, mbps) ==
    TotalScore(c.siblings, BandwidthScore(c.remaining, mbps))

RawScores(offers, mbps) ==
    [n \in DOMAIN offers |-> CandidateScore(offers[n], mbps)]

\* Scores the framework accepts, in the order of the raw ones, with the best
\* node at the top unless all are worth nothing.
SoundRanking(raw, normal) ==
    /\ \A n \in DOMAIN raw : normal[n] \in 0 .. MaxNodeScore
    /\ \A m, n \in DOMAIN raw : raw[m] <= raw[n] => normal[m] <= normal[n]
    /\ HighestScore(raw) > 0 =>
          \A n \in DOMAIN raw :
              raw[n] = HighestScore(raw) => normal[n] = MaxNodeScore
=============================================================================
