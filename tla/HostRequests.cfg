SPECIFICATION MCSpec
CONSTANTS
  Requests = {r1, r2}
  Keys = {k1}
  Settings <- MCSettings
  Ttl = 2
  Timeout = 1
  MaxTime = 4
  BillingCalls = {b1, b2}
  CacheTtl = 1
  RequestTimeout = 1
  Horizon = 3
  McpRequests = {m1, m2}
  Registered <- MCRegistered
  Gated = {"report"}
INVARIANTS
  ServedRequestsRelease
  AnswersReachTheirSkill
PROPERTIES
  AdmittedMeansVerified
  EveryRequestIsAnswered
  DecisionsAreRight
CHECK_DEADLOCK FALSE
