SPECIFICATION Spec
CONSTANTS
    Teams = {t1, t2}
    Users = {u1, u2}
    Requests = {r1, r2}
    Servers = {s1, s2}
    Nobody = nobody
INVARIANTS
    TypeOK
    LayersAgree
    ServiceOnlyAddsAlerts
    NoContextNoRows
SYMMETRY MCSymmetry
