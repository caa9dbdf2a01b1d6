SPECIFICATION PrunedSpec
CONSTANTS
    b1 = b1
    b2 = b2
    Titles = {t1}
    Bodies = {b1, b2}
    Links = {u1}
    Keys = {k1, k2}
    Requests = {r1, r2}
    Operator = op
    Askers = {chat}
    Sections <- MCSections
    MaxHits = 2
    MaxStarts = 4
INVARIANT KeptHashLeadsToSave
CHECK_DEADLOCK FALSE
