\* One request at a time, every handler, two lists.
CONSTANTS
    Users = {u1, u2}
    Lists = {l1, l2}
    Tasks = {t1}
    Codes = {c1, c2, c3}
    Nobody = Nobody
    NoCode = NoCode
    NoId = NoId
    Requests = {r1}
    Handlers <- AllHandlers
SYMMETRY Symmetry
SPECIFICATION Spec
INVARIANTS
    AssigneeIsMember
PROPERTIES
    OnlyOwnerManages
    JoinNeedsCurrentInvite
