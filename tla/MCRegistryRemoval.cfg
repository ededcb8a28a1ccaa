\* Two gateways, no fault, the reconciliation runs for ever.
CONSTANTS
  gw1 = gw1
  gw2 = gw2
  svcA = svcA
  svcB = svcB
  url1 = url1
  url2 = url2
  None = None
  Instances = {gw1, gw2}
  Services = {svcA}
  Urls = {url1}
  Majors = {}
  Env = {"cron"}
  MaxPipe = 2
  MaxCalls = 2
  MaxFaults = 0
SPECIFICATION FairSpec
PROPERTY RemovalConverges
