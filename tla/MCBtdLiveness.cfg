SPECIFICATION FairSpec
CONSTANTS
    Requests = {r1}
    t1 = t1
    t2 = t2
    Txns = {t1, t2}
    NoTxn = NoTxn
    NoSession = NoSession
    MaxSegments = 2
    MaxDocuments = 2
    Sessions = {s1}
    Workers = {w1}
    NoWorker = NoWorker
    Total <- MCTotal
    Documents <- MCDocuments
PROPERTIES
    EverySessionSettles
    AcceptedEventuallyDelivered
    NothingLeftBehind
