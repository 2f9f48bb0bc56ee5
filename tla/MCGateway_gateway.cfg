SPECIFICATION FairSpec
CONSTANTS
  x = x  y = y  plan1 = plan1  hour = hour  day = day  None = None
  Requests = {1, 2}
  Snapshots = {1, 2}
  Paths = {x, y}
  Scopes = {plan1, hour, day}
  MaxApis = 2
  MaxPaths = 2
  MaxScore = 2
  MaxLimits = 3
  MaxTokens = 1
  MaxBodies = 1
  BatchSize = 2
  Apis <- MCApis
  Inputs <- MCInputs
  Deployments <- MCDeployments
INVARIANTS
  TypeOK
  SnapshotsHeld
  MatchesBest
  LimitsKept
  DataAsPublished
  EventsAccounted
PROPERTIES
  EventsUploaded
  RequestsEnd
CHECK_DEADLOCK FALSE
