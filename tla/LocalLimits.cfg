SPECIFICATION Spec
CONSTANTS
    Minute = 3
    TTL = 6
    Lag = 1
    Policies <- MCPolicies
    MaxTime = 7
    MaxAllowed = 4
INVARIANTS TypeOK BucketRate WindowBound RetryHonest OutageBounded
CHECK_DEADLOCK FALSE
