\* Two concurrent requests of one tribe, every fault once.  The window
\* of three quarters of a second is rounded up by EXPIRE, what is left of the
\* block of one second up or down by the reply of TTL.
SPECIFICATION FairSpec
CONSTANTS
  g1 = g1
  r1 = r1
  r2 = r2
  Gateways <- OneGateway
  Requests <- TwoRequests
  Limit = 2
  Window = 3
  BlockTime = 4
  Redis = Redis
  MaxFaults = 1
INVARIANTS
  TypeOK
  BurstBounded
  CounterHasOwner
PROPERTIES
  BlockHolds
  WindowNotProlonged
  LetInAgain
