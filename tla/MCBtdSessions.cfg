SPECIFICATION Spec
CONSTANTS
    Requests = {r1, r2}
    Txns = {t1, t2}
    NoTxn = NoTxn
    NoSession = NoSession
    MaxSegments = 1
    MaxDocuments = 1
    Sessions = {s1, s2}
    Workers = {w1}
    NoWorker = NoWorker
    Total <- MCTotal
    Documents <- MCDocuments
SYMMETRY Symmetry
INVARIANTS
    AtMostOneReceipt
