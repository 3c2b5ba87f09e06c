SPECIFICATION HubSpec
CONSTANTS
    Families = {"presence"}
    Session = {s1, s2}
    Callsign = {a, b}
    RemoteHost = {h}
    HostName = me
    Channel = {0, 1}
    Text = {e}
    NoText = e
    Toggles = {}
    Grants = {}
    TicksPerSecond = 1
    MaxTime = 0
    OneSessionPerCall = FALSE
    None = None
INVARIANT AttachedUsersHaveARow
CHECK_DEADLOCK FALSE
