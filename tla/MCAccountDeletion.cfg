SPECIFICATION FairSpec
CONSTANTS
    Absent = Absent
    None = None
    Users = {u1, u2}
    Tables <- OneOfEachKind
    RowIds = {i1}
    Runs = {p1, p2}
    MaxUpsets = 2
INVARIANTS
    TypeOK
PROPERTIES
    OnlyDue
    SparesOthers
    DueIsPurged
