SPECIFICATION Spec
CONSTANTS
    Absent = Absent
    Users = {u1, u2, u3}
    RowIds = {f1, f2}
    Requests = {r1, r2}
    MaxCalls = 4
SYMMETRY Symmetry
CONSTRAINT FewCalls
INVARIANTS
    Involved
PROPERTIES
    MembersOnly
