CONSTANTS
    Settlements = {r1}
    MaxCallbacks = 2
    MaxFaults = 1
    NoRow = NoRow
    Window = 2
    MaxStreak = 3
SPECIFICATION WorkerSpec
INVARIANTS
    ProtectionHolds
CHECK_DEADLOCK FALSE
