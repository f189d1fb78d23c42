SPECIFICATION Spec
CONSTANTS
    Absent = Absent
    Users = {u1, u2, u3}
    RowIds = {f1, f2}
    Requests = {r1}
    MaxCalls = 12
SYMMETRY Symmetry
INVARIANTS
    TypeOK
    OneRowPerPair
    Consent
PROPERTIES
    ImplementsFriendGraph
