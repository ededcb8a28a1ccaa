\* A tribe and a service, each with any entry; own is a scope that the tribe's
\* permissions cover.
SPECIFICATION Spec
CONSTANTS
  tribeA = tribeA
  svcB = svcB
  read = read
  own = own
  Services <- TwoServices
  Scopes <- TwoScopes
  Permissions <- OwnPermissions
  Tribe = tribeA
  None = None
INVARIANTS
  TypeOK
  DenialMeansChange
  NoExcessScope
  ListKeepsPromise
PROPERTIES
  ReachGrowsByRegistry
