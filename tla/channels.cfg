SPECIFICATION Spec
CONSTANTS
    Users = {u}
    Remote = {r}
    h = h
    HostOf <- OneHost
    Links = {l1, l2}
    Featured = {l1}
    Chans = {0, 1}
    Flags = {"p"}
    Observers = {}
    Sysops = {u}
    BanZero = FALSE
    RemoteAdmin = TRUE
    Null = Null
INVARIANTS
    TypeOK
    OperatorFlagsBacked
    RecordsFollowMembers
    NeighboursKnowOurUsers
    AnnouncedUsersAreReached
PROPERTIES
    NoTakeoverInANetsplit
    PrivateByInvitation
    ChannelsGetOperators
CHECK_DEADLOCK FALSE
