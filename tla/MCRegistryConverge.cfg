\* Liveness of the reconciliation: two gateways, one service with versions.
CONSTANTS
  gw1 = gw1
  gw2 = gw2
  svcA = svcA
  svcB = svcB
  url1 = url1
  url2 = url2
  None = None
  Instances = {gw1, gw2}
  Services = {svcA}
  Urls = {url1}
  Majors = {1, 2}
  Env = {"cron", "timeout", "disconnect", "flush", "redis"}
  MaxPipe = 2
  MaxCalls = 2
  MaxFaults = 1
SPECIFICATION FairSpec
PROPERTIES
  Converges
  FollowsReplicas
