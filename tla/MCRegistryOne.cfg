\* One gateway with its proxy, two services, two URLs, every fault.
CONSTANTS
  gw1 = gw1
  gw2 = gw2
  svcA = svcA
  svcB = svcB
  url1 = url1
  url2 = url2
  None = None
  Instances = {gw1}
  Services = {svcA, svcB}
  Urls = {url1, url2}
  Majors = {}
  Env = {"requests", "cron", "health", "timeout", "disconnect", "flush", "crash", "alone", "redis"}
  MaxPipe = 2
  MaxCalls = 3
  MaxFaults = 1
SPECIFICATION Spec
SYMMETRY ServiceSymmetry
INVARIANT ProxyTargetCurrent
PROPERTY GaugeKept
