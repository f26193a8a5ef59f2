\* One task, a comment, every handler and mishap; only the buttons run alone.
CONSTANTS
    w1 = w1
    w2 = w2
    Tasks = {t1}
    People = {p1}
    Comments = {c1}
    Messages = {m1, m2, m3}
    Workers = {w1, w2}
    Roles <- LookerAndAnswerer
    Overlapping <- LockedFirst
    Mishaps <- AllMishaps
    MaxMishaps = 1
    Nobody = Nobody
    None = None
SPECIFICATION LiveSpec
INVARIANTS
    TypeOK
    RenderIsShown
    OneCardEach
    CopiedOnce
PROPERTIES
    BoardCatchesUp
    CommentsArrive
