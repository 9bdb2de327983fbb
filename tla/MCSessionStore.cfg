SPECIFICATION StoreSpec
CONSTANTS
    Requests = {r1, r2}
    Txns = {t1, t2}
    NoTxn = NoTxn
    NoSession = NoSession
    MaxSegments = 2
    MaxDocuments = 2
    Sessions = {s1, s2}
    Workers = {w1, w2}
    NoWorker = NoWorker
    Null = Null
SYMMETRY Symmetry
INVARIANTS
    StoreTypeOK
    OneSessionPerTransaction
    SurvivesRestart
PROPERTIES
    NeverTakenUpAgain
    CommitmentsStand
    OnlyLeaseHolderWrites
