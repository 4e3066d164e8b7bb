CONSTANTS
    m = m
    topUp = topUp
    Merchants = {m}
    Amounts = {2, 3}
    Refs = {topUp}
    Calls = {call, advice}
    Habas = {advice}
    MaxTries = 3
    MerchantOf <- MCMerchantOf
    Estimate = 2
    MaxEntries = 1
SPECIFICATION MeteringSpec
INVARIANTS
    AuditMatchesLedger
    AnswerIsPaid
    UnbilledOnlyByRace
    ChargedAgainOnlyIfLost
CHECK_DEADLOCK FALSE
