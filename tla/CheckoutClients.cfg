CONSTANTS
    Calls = {c1, c2}
    Cart = cart
    NoCall = NoCall
    MaxOpen = 2
    MaxFaults = 2
SPECIFICATION ClientsSpec
INVARIANTS
    SuccessIsPaid
    ChargedOnlyBy
    GreenMeansExpected
    CardsShowTheMoney
PROPERTIES
    NoChargeAfterSettled
    ImplementsLifecycle
CHECK_DEADLOCK FALSE
