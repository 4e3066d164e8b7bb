CONSTANTS
    Rows = {w1, w2}
    BatchSize = 1
    MaxAttempts = 3
    MaxFaults = 2
SPECIFICATION WebhookFairSpec
INVARIANTS
    OutcomeIsEarned
    PostsBounded
PROPERTIES
    EveryEventConcluded
CHECK_DEADLOCK FALSE
