CONSTANTS
    Merchants = {m1, m2}
    Amounts = {1}
    Refs = {r1}
    Sessions = {s1, s2, s3}
    MaxEntries = 3
    MaxOverlap = 2
    NoRef = NoRef
    NoMerchant = NoMerchant
    NoSession = NoSession
SPECIFICATION LedgerSpec
SYMMETRY MCSymmetry
INVARIANTS
    BookIsChained
    CreditedByOverlapOnly
PROPERTIES
    ImplementsAtomicLedger
CHECK_DEADLOCK FALSE
