SPECIFICATION Spec
CONSTANTS
    K = K
    KP = KP
    G = G
    Bad = Bad
    c1 = c1
    c2 = c2
    c3 = c3
    c4 = c4
    NamesOf <- MCNames
    MaxHeld = 3
    Calls = {"k", "g"}
    Remote = {"g"}
    Chans = {"ch"}
    FloodLimit = 1
    RateLimitMAX = 0
    FLOODSIZE = 2
    MaxSaid = 4
    NoSul = NoSul
    Conns = {c1, c2, c3, c4}
    Names = {K, KP, G, Bad}
    get_tidy_name <- CallOf
    Invalid = {Bad}
    Unwelcome = {}
    OwnNames = {}
    Passwords = {"p"}
    aprs_pass <- Aprs
    Protected = {"k"}
    AuthFiles = {"k"}
    Sysops = {c3}
    Sockets <- MCSockets
    Answers <- MCAnswers
    IrcConns = {c1}
    AcceptAPRSpass = TRUE
    ForceAuthWhenOn = 2
    Casts <- NameCasts
    NoName = NoName
    NoAnswer = NoAnswer
PROPERTIES
    LoginProvesTheCall
CHECK_DEADLOCK FALSE
