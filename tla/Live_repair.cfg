\* One page on which nearly everything may happen, repaired by the five-minute timer.
CONSTANTS
    u1 = u1
    u2 = u2
    p1 = p1
    p2 = p2
    Nobody = Nobody
    NoPage = NoPage
    Users = {u1}
    Pages = {p1}
    ViewerOf <- OnePage
    ListPages = {}
    Writers = {w1}
    MaxVersion = 3
    MaxStreams = 1
    Doings <- RepairDoings
    MaxFaults = 1
SPECIFICATION LiveSpec
PROPERTIES
    CatchesUp
