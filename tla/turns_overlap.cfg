SPECIFICATION Spec
CONSTANTS
    m1 = m1
    m2 = m2
    m3 = m3
    x1 = x1
    Messages = {m1, m2, m3}
    Urgent = {}
    Possible = {}
    MaxTroubles = 0
    Recurring = {}
PROPERTIES
    PromotedWhenSettled
\* Once every message has its fate nothing more need happen.
CHECK_DEADLOCK FALSE
