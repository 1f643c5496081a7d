SPECIFICATION AlgorithmsSpec
CONSTANTS
  MaxCpu = 2
  MaxPods = 3
INVARIANTS
  RankingSound
  AlignedPodFits
  ZonesRanked
  CheaperNodesPreferred
  VictimsRight
  NoSecondWave
  BudgetsRespected
  LoadRanked
  NodesRanked
  BestPodServed
  LatestListed
CHECK_DEADLOCK FALSE
