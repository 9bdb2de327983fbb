SPECIFICATION Spec
CONSTANTS
    Requests = {r1}
    t1 = t1
    Txns = {t1, t2}
    NoTxn = NoTxn
    NoSession = NoSession
    MaxSegments = 1
    MaxDocuments = 1
    Sessions = {s1}
    Workers = {w1}
    NoWorker = NoWorker
    Calls = {c1, c2}
    Descriptors = {}
    BankTotal <- MCBankTotal
    MaxListed = 2
    NoParams = NoParams
SYMMETRY Symmetry
INVARIANTS
    TransactionNotShared
    AcknowledgedAtMostOnce
