SPECIFICATION BlocksSpec
CONSTANTS
    Absent = Absent
    Users = {u1, u2}
    RowIds = {f1, f2}
    Requests = {r1}
INVARIANTS
    BlockStands
