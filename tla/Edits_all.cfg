\* Two requests at once, three in all, a clock that is set back, a restart.
CONSTANTS
    t1 = t1
    t2 = t2
    title = title
    due = due
    Tasks = {t1, t2}
    Columns = {title, due}
    Asks <- MCAsks
    Slots = {s1, s2}
    MaxRequests = 3
    MaxTime = 2
    MaxRestarts = 1
    None = None
SPECIFICATION Spec
SYMMETRY Symmetry
CHECK_DEADLOCK FALSE
INVARIANTS
    TypeOK
    FinishTimesDiffer
    
PROPERTIES
    FinishedInOrder
    TrashKeepsTheTask
    NilFieldsLeftAlone
