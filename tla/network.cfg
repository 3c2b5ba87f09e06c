SPECIFICATION Spec
CONSTANTS
    a = a
    b = b
    c = c
    alice = alice
    bob = bob
    Nodes = {a, b, c}
    Neighbours <- Line
    Users = {alice, bob}
    Home <- AtTheEnds
    Anchors = {alice}
    OneSetPerSecond = TRUE
    MaxCommands = 3
    MaxBreaks = 1
INVARIANTS
    QuietNetworkAgrees
PROPERTIES
    NetworkSettles
CHECK_DEADLOCK FALSE
