SPECIFICATION PartsSpec
CONSTANTS
    k1 = k1
    k2 = k2
    c1 = c1
    c2 = c2
    Keys = {k1, k2}
    Callers = {c1, c2}
    MaxEntries = 1
    MaxFlights = 2
    MaxInvalidations = 1
    Enqueuers = {c1, c2}
    Drainers = {c1}
    MaxItems = 3
    Capacity = 1
    Budgets <- SmallBudgets
    Turns = {1, 2, 3}
    Plans <- SmallPlans
INVARIANT CachedIsFresh
INVARIANT AnswersAreFresh
INVARIANT NotCutShort
INVARIANT SingleFlight
INVARIANT DrainCoversEarlier
 
INVARIANT NothingSkipped
INVARIANT ShowsAllPublished
 
INVARIANT DiffsAreOwn
PROPERTY CapturedStays
PROPERTY DrainEnds
PROPERTY ViewCatchesUp
CHECK_DEADLOCK FALSE
