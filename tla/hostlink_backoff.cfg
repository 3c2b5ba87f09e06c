SPECIFICATION Spec
CONSTANTS
    HandshakeTimeout = 1
    PingInterval = 1
    SilenceTimeout = 2
    Callsign = {a}
    Channel = {1, 2}
    RemoteUser = {r}
    InitialBackoff = 1
    MaxBackoff = 2
    MaxWork = 1
    MaxLines = 2
    None = None
PROPERTY BackoffStartsFresh
