SPECIFICATION AllSpec
CONSTANTS
    None = None
    Absent = Absent
    Users = {1, 2}
    ThreadIds = {t1, t2}
    Requests = {r1, r2}
    MaxMessages = 3
    StatusIds = {s1}
    OtherKinds = {"wishlist"}
    Names = {n1}
    SessionIds = {d1, d2}
    Releases = {e1, e2}
    Tables <- TwoTables
    Keys <- Both
    Unique <- Reviews
    Referring <- Reviews
    Backup <- OneOfEach
    ReplaceEnabled = TRUE
    MaxRows = 4
    MaxGrants = 3
    MaxFiles = 1
SYMMETRY Symmetry
CHECK_DEADLOCK FALSE
INVARIANTS
    TypesOK
    OneThread
    LastIsNewest
    
    OneOpen
    StaysStopped
    MergedForGood
    ConsentKept
PROPERTIES
    OnlyFriendsWrite
    ReadsAll
    ReplaceIsWhole
