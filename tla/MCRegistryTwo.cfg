\* Two gateways, one service, every fault of gateways and connections.
CONSTANTS
  gw1 = gw1
  gw2 = gw2
  svcA = svcA
  svcB = svcB
  url1 = url1
  url2 = url2
  None = None
  Instances = {gw1, gw2}
  Services = {svcA}
  Urls = {url1}
  Majors = {}
  Env = {"cron", "health", "timeout", "disconnect", "flush", "crash", "alone"}
  MaxPipe = 2
  MaxCalls = 3
  MaxFaults = 2
SPECIFICATION Spec
SYMMETRY GatewaySymmetry
INVARIANTS
  TypeOK
  WriteThrough
PROPERTIES
  RetiredUnlessRedis
  RetirementHolds
