SPECIFICATION Spec
CONSTANTS
    Requests = {r1}
    t1 = t1
    Txns = {t1, t2, t3, t4}
    NoTxn = NoTxn
    NoSession = NoSession
    MaxSegments = 3
    MaxDocuments = 1
    Sessions = {}
    Workers = {}
    NoWorker = NoWorker
    Calls = {c1}
    Descriptors = {d1, d2}
    BankTotal <- MCBankTotal
    MaxListed = 2
    NoParams = NoParams
SYMMETRY Symmetry
INVARIANTS
    DiscoveryTypeOK
    PositiveOnlyIfWhole
    ReturnedOnlyIfRecorded
    ResultCoherent
