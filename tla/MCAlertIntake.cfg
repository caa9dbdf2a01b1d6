SPECIFICATION Spec
CONSTANTS
    ops = ops
    payments = payments
    e1 = e1
    e2 = e2
    Teams = {ops, payments}
    Default = ops
    Episodes = {e1, e2}
    Manual = Manual
    Label <- MCLabel
    Requests = {r1, r2}
    Sees = {ops, payments}
    PageSize = 1
    MaxListed = 3
    MaxStarts = 3
    MaxTime = 1
SYMMETRY MCSymmetry
CHECK_DEADLOCK FALSE
INVARIANTS
    TypeOK
    AnsweredIsStored
    EveryAlertIsOnRecord
    WalkIsComplete
    OneOrderNeverCollides
