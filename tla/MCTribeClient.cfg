\* Two concurrent calls, one retry, both providers, every fault.
CONSTANTS
  c1 = c1
  c2 = c2
  Calls <- TwoCalls
  AccessLife = 2
  RefreshLife = 3
  KeycloakRefresh = TRUE
  Margin = 1
  Timeout = 1
  MaxRetries = 1
SPECIFICATION FairSpec
INVARIANTS
  TypeOK
  RightsExpire
PROPERTIES
  FirstAttemptLive
  CallEnds
  ClientRecovers
