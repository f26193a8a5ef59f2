\* Two buttons at once: the card is read before the lock.
CONSTANTS
    w1 = w1
    w2 = w2
    Tasks = {t1}
    People = {p1}
    Comments = {c1}
    Messages = {m1, m2}
    Workers = {w1, w2}
    Roles <- TwoPressers
    Overlapping <- AllHandlers
    Mishaps = {}
    MaxMishaps = 0
    Nobody = Nobody
    None = None
SPECIFICATION Spec
INVARIANTS
    RenderIsShown
