\* The sweep of a demo, with a second between its statements.
CONSTANTS
    a1 = a1
    a2 = a2
    q1 = q1
    q2 = q2
    None = None
    Addresses = {a1, a2}
    Burst = 1
    Refill = 2
    SweepAt = 2
    Lifetime = 1
    MaxUsers = 2
    MaxTime = 4
    MaxWait = 1
    Slots = {q1, q2}
SPECIFICATION Spec
SYMMETRY Symmetry
CHECK_DEADLOCK FALSE
INVARIANT
    NoListIsLeftPublic
