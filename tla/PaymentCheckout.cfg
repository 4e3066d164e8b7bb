CONSTANTS
    Txs = {a1, b1}
    a1 = a1
    a2 = a2
    b1 = b1
    b2 = b2
    topUp = topUp
    checkout = checkout
    Orders = {checkout}
    TopUps = {}
    PaysFor <- MCPaysFor
    Calls = {h1, h2, h3}
    Confirmers = {c1}
    Wordy = {}
    BatchSize = 1
    WebhookOn = TRUE
    CanCrash = TRUE
    ConfirmedCanRevert = TRUE
    MaxPolls = 1
    NoTx = NoTx
    NoOrder = NoOrder
SPECIFICATION PaymentSpec
SYMMETRY MCSymmetry
INVARIANTS
    NoConcurrentReplay
CHECK_DEADLOCK FALSE
