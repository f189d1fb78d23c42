SPECIFICATION Spec
CONSTANTS
    Absent = Absent
    ItemIds = {i1, i2, i3}
    Details = {d1}
    Requests = {r1, r2}
    MaxPosition = 3
SYMMETRY Symmetry
INVARIANTS
    TypeOK
    DistinctPositions
PROPERTIES
    ReorderedAsAsked
    KeepsOrder
