\* Three calls in flight, the production successThreshold of 2.
CONSTANTS
  c1 = c1
  c2 = c2
  c3 = c3
  Calls <- ThreeCalls
  FailureThreshold = 3
  SuccessThreshold = 2
  ResetTimeout = 2
SPECIFICATION FairSpec
INVARIANTS
  TypeOK
  ClosedCountsStreak
  TrialCountsThisTrial
  GaugeFollowsState
  CooldownNotShortened
PROPERTIES
  OpenRestsForCooldown
  FailsFast
  OpenIsLeft
  Recovers
