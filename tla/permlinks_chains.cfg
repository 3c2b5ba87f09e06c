SPECIFICATION Spec
CONSTANTS
    Hosts = {a, b, d}
    Conns = {c1}
    NrPermlinks = 3
    MaxRtt = 1
    AcceptSquit = FALSE
    NamesAgree = FALSE
    OldLinksFirst = FALSE
    Null = Null
PROPERTY
    OnlyExpiryBreaksAChain
CONSTRAINT
    NeighboursOnly
CHECK_DEADLOCK FALSE
SYMMETRY Symmetric
