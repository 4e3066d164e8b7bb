CONSTANTS
    o1 = o1
    o2 = o2
    t1 = t1
    t2 = t2
    Orders = {o1, o2}
    TopUps = {o1, o2}
    Txs = {t1, t2}
    PaysFor <- MCPaysFor
    NoTx = NoTx
    Tabs = {p}
    NoBalance = NoBalance
    NoOrder = NoOrder
    TokenLimit = 10
    TopupTokens = 1
    Opening = 3
    AgentCost = 1
    Ticks = {"k1"}
    MaxRuns = 1
    MaxFaults = 1
SPECIFICATION TopupSpec
PROPERTIES
    FiresOnlyWhenLow
CHECK_DEADLOCK FALSE
