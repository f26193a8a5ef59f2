\* Two requests at a time, every handler: two people, a list and a task.
CONSTANTS
    Users = {u1, u2}
    Lists = {l1}
    Tasks = {t1}
    Codes = {c1, c2}
    Nobody = Nobody
    NoCode = NoCode
    NoId = NoId
    Requests = {r1, r2}
    Handlers <- AllHandlers
SYMMETRY Symmetry
SPECIFICATION Spec
INVARIANTS
    TypeOK
    OwnerBelongs
    PublicListsAreNobodys
    AuthorityIsOwnersOrPublic
    NoOrphans
    IInv
PROPERTIES
    ClaimsAreFinal
    KeptForADay
    KeepsThePromise
