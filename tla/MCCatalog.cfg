SPECIFICATION AllSpec
CONSTANTS
    Books = {B1, B2}
    Users = {u1}
    RowIds = {i1, i2}
    Kinds = {"release", "credit", "review", "status", "item", "message"}
    Requests = {r1, r2}
    Entities = {e1}
    Editors = {r1, r2}
    Columns = {publisher}
    Values = {v1, v2}
    MaxVersions = 2
    Details <- Editions
    Files <- OneFile
    MaxCount = 2
SYMMETRY Symmetry
CHECK_DEADLOCK FALSE
INVARIANTS
    MergeGoesThrough
    
    ImportedOnce
    RowsOnce
PROPERTIES
    MergeKeepsAll
    RefreshKeepsData
