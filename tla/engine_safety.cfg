SPECIFICATION MCSpec
CONSTANTS
    c1 = c1
    c2 = c2
    c3 = c3
    c4 = c4
    d1 = d1
    d2 = d2
    d3 = d3
    p = p
    q = q
    t = t
    u = u
    past = past
    Past = past
    Commands = {c1, c2, c3, c4}
    Dispatches = {d1, d2}
    Aggregates = {p, q, t, u}
    Decision <- ForkAndWrite
    History <- OneThread
    ReadLimit = 100
    MaxFaults = 2
    MaxCrashes = 1
    MaxRepairs = 1
INVARIANTS
    TypeOK
    ReceiptsMatchLog
    
    
    PublishedOnce
    SummariesNotSkipped
    FlagHasCatchUp
    AnswerIsOwed
PROPERTIES
    NothingRunsAfterItsAnswer
    DispatchIsDeduplicated
SYMMETRY Symmetric
