SPECIFICATION Spec
CONSTANTS
    Users = {u1, u2}
    Teams = {t1, t2}
    Browsers = {b1}
    States = {s1, s2}
    Callbacks = {c0, c1, c2}
    First = c0
    Nothing = Nothing
    MaxChanges = 1
SYMMETRY Symmetry
CHECK_DEADLOCK FALSE
INVARIANTS
    TypeOK
    AccessIsOneSignIns
    StateIsUsedOnce
    OldSessionIsEnded
    EverySlugHasATeam
    OneUsersSignInsDoNotCollide
PROPERTIES
    OnlyAFinishedSignInEndsSessions
