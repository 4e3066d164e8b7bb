CONSTANTS
    Settlements = {r1, r2}
    MaxCallbacks = 2
    MaxFaults = 1
    NoRow = NoRow
    Window = 2
    MaxStreak = 2
SPECIFICATION WorkerFairSpec
INVARIANTS
    CallbackTellsTheChain
    CallbacksBounded
PROPERTIES
    SuspendedOnlyAfterWindow
    EverySettlementConcluded
CHECK_DEADLOCK FALSE
