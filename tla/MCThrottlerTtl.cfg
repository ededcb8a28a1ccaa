\* A counter that has lost its owner between INCR and EXPIRE.
SPECIFICATION Spec
CONSTANTS
  g1 = g1
  r1 = r1
  r2 = r2
  Gateways <- OneGateway
  Requests <- TwoRequests
  Limit = 1
  Window = 3
  BlockTime = 3
  Redis = Redis
  MaxFaults = 1
INVARIANT CounterHasTtl
