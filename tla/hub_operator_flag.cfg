SPECIFICATION HubSpec
CONSTANTS
    Families = {"operators"}
    Session = {s1, s2}
    Callsign = {a, b}
    RemoteHost = {}
    HostName = me
    Channel = {0, 1}
    Text = {e}
    NoText = e
    Toggles <- SwitchOnOff
    Grants = {TRUE}
    TicksPerSecond = 1
    MaxTime = 0
    OneSessionPerCall = TRUE
    None = None
INVARIANT OperatorsAreFlagged
CHECK_DEADLOCK FALSE
