SPECIFICATION Spec
CONSTANTS
    Absent = Absent
    None = None
    Users = {u1, u2}
    Admins = {a1, a2}
    Payloads = {p1, p2}
    Notes = {n1}
    Ids = {c1}
    Requests = {r1, r2}
PROPERTIES
    SubmittedIsFrozen
