CONSTANTS
    Txs = {a1, b1}
    a1 = a1
    a2 = a2
    b1 = b1
    b2 = b2
    topUp = topUp
    checkout = second
    Orders = {topUp, second}
    TopUps = {topUp, second}
    PaysFor <- MCPaysFor
    Calls = {h1}
    Confirmers = {c1}
    Wordy = {b1}
    BatchSize = 1
    WebhookOn = FALSE
    CanCrash = FALSE
    ConfirmedCanRevert = TRUE
    MaxPolls = 1
    NoTx = NoTx
    NoOrder = NoOrder
SPECIFICATION PaymentFairSpec
PROPERTIES
    AcceptedOrderDecided
    EveryCallAnswered
CHECK_DEADLOCK FALSE
