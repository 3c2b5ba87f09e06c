SPECIFICATION Spec
CONSTANTS
    Hosts = {a, b}
    Conns = {c1, c2}
    NrPermlinks = 2
    MaxRtt = 1
    AcceptSquit = TRUE
    NamesAgree = FALSE
    OldLinksFirst = FALSE
    Null = Null
INVARIANTS
    TypeOK
    RoutesAreLive
    HostsAreFoundByName
    OneWayToAHost
PROPERTIES
    DeadRoutesAreWithdrawn
    OneOfAChain
CONSTRAINT
    NothingDangles
CHECK_DEADLOCK FALSE
SYMMETRY Symmetric
