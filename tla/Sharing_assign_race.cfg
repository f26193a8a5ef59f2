\* As Sharing_overlap, one code: a removal lands between AssignTask's check and its write.
CONSTANTS
    Users = {u1, u2}
    Lists = {l1}
    Tasks = {t1}
    Codes = {c1}
    Nobody = Nobody
    NoCode = NoCode
    NoId = NoId
    Requests = {r1, r2}
    Handlers <- AssignHandlers
SYMMETRY Symmetry
SPECIFICATION Spec
INVARIANTS
    AssigneeIsMember
