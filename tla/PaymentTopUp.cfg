CONSTANTS
    Txs = {a1, a2, b1}
    a1 = a1
    a2 = a2
    b1 = b1
    b2 = b2
    topUp = topUp
    checkout = checkout
    Orders = {topUp}
    TopUps = {topUp}
    PaysFor <- MCPaysFor
    Calls = {h1, h2}
    Confirmers = {c1, c2}
    Wordy = {a2}
    BatchSize = 1
    WebhookOn = TRUE
    CanCrash = TRUE
    ConfirmedCanRevert = TRUE
    MaxPolls = 1
    NoTx = NoTx
    NoOrder = NoOrder
SPECIFICATION PaymentSpec
SYMMETRY MCSymmetry
INVARIANTS
    SuccessMeansLanded
    ConfirmedIsPaid
    CreditedOnce
    TopUpBroadcastOnce
    EventsTellTheOutcome
PROPERTIES
    ImplementsLifecycle
CHECK_DEADLOCK FALSE
