\* Two people, two browsers they share, two servers, one of them in use.
CONSTANTS
    p1 = p1
    p2 = p2
    b1 = b1
    b2 = b2
    s1 = s1
    s2 = s2
    None = None
    People = {p1, p2}
    Browsers = {b1, b2}
    Servers = {s1, s2}
    Serving = {s1}
    MaxDevices = 1
    QueueCap = 1
    MaxSaves = 2
    MaxMessages = 2
    MaxTime = 1
SPECIFICATION Spec
CHECK_DEADLOCK FALSE
INVARIANTS
    TypeOK
    KeysMatch
    BelongsToTheLast
PROPERTIES
    JustTurnedOnStays
    QueueDrains
