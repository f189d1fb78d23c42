SPECIFICATION Spec
CONSTANTS
    Books = {B1, B2}
    Users = {u1}
    RowIds = {i1}
    Kinds = {"release", "message"}
    Requests = {r1}
INVARIANT
    EverythingReassigned
