\* A list page and a dashboard of two people: changes of members,
\* deletes and undos, broken streams, restarts.
CONSTANTS
    u1 = u1
    u2 = u2
    p1 = p1
    p2 = p2
    Nobody = Nobody
    NoPage = NoPage
    Users = {u1, u2}
    Pages = {p1, p2}
    ViewerOf <- PageEach
    ListPages = {p1}
    Writers = {w1, w2}
    MaxVersion = 3
    MaxStreams = 2
    Doings <- SharedDoings
    MaxFaults = 1
SPECIFICATION Spec
SYMMETRY Symmetry
CHECK_DEADLOCK FALSE
INVARIANTS
    TypeOK
    
PROPERTIES
    NeverGoesBack
