SPECIFICATION Spec
CONSTANTS
  p1 = p1
  p2 = p2
  f1 = f1
  d1 = d1
  n1 = n1
  n2 = n2
  teamA = teamA
  NoNode = NoNode
  Pods = {p1, p2, f1, d1}
  Own = {p1, p2}
  Nodes = {n1}
  InitBound <- Daemon
  MaxBehind = 2
  MaxLost = 1
  MaxRestarts = 1
  Native <- Cpu
  Unbounded = 100
  PodNamespace <- Namespaces
  PodRequest <- OneCpu
  PodPriority <- EqualPriority
  Zones = {1, 2}
  PodZoneRequest <- OneUnit
  Exclusive = {p1, p2, f1}
  ResyncMethod = "Autodetect"
  OnlyExclusiveForeign = FALSE
  ReportingInterval = 2
  Scenarios <- QuotaOnly
  Quotas <- SmallQuota
  ZoneOf <- DaemonsApart
  ZoneSize = 1
  ReportsNRT = {n1}
  Profiles <- PodProfiles
  DefaultProfile <- Unconfined
  MaxNow = 3
INVARIANT
  MaxHonoured
CHECK_DEADLOCK FALSE
