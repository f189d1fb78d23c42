SPECIFICATION Spec
CONSTANTS
    Absent = Absent
    UserIds = {u1}
    Passwords = {p1, p2}
    Flags <- ActiveOnly
    RefreshIds = {t1, t2}
    ResetIds = {x1}
    Requests = {r1, r2}
SYMMETRY Symmetry
CONSTRAINT OneKind
INVARIANTS
    TypeOK
    OneLivePerLogin
    ResetOnce
    LastWord
PROPERTIES
    OverIsOver
