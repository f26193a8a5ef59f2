\* Somebody in the web app and somebody who uses the API.
CONSTANTS
    p1 = p1
    p2 = p2
    People = {p1, p2}
    Owner = p2
    Browsers = {p1}
    Tasks = {t1}
    Earlier = {1}
    MaxComments = 3
    MaxTime = 1
    Slots = {s1, s2}
    None = None
SPECIFICATION Spec
SYMMETRY Symmetry
INVARIANTS
    TypeOK
    
    NothingFromBefore
