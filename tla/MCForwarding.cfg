\* Three requests at once; a threshold that results of two of them reach.
CONSTANTS
  r1 = r1
  r2 = r2
  r3 = r3
  Requests <- ThreeRequests
  FailureThreshold = 2
  SuccessThreshold = 2
  ResetTimeout = 2
SPECIFICATION Spec
INVARIANTS
  TypeOK
  AdmissionsMatch
  OutageIsCutOff
PROPERTIES
  OnlyTrialsReopen
  OpensForUpstream
