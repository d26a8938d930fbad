SPECIFICATION Spec
CONSTANT McpRequests = {m1, m2}
INVARIANT ClosedMeansReleased
CHECK_DEADLOCK FALSE
