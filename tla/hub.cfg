SPECIFICATION HubSpec
CONSTANTS
    Families = {"presence", "operators", "invitations", "texts"}
    Session = {s1, s2}
    Callsign = {a, b}
    RemoteHost = {h}
    HostName = me
    Channel = {0, 1}
    Text = {e, t}
    NoText = e
    Toggles <- SwitchOnOff
    Grants = {TRUE, FALSE}
    TicksPerSecond = 2
    MaxTime = 3
    OneSessionPerCall = TRUE
    None = None
SYMMETRY Symmetry
INVARIANTS
    TypeOK
    UpstreamMatchesTable
    NoLocalGhosts
    LocalUsersAreListed
    InvitesOnSessionsAreCurrent
    OperatorFlagIsBacked
    StoredTopicIsAsNew
    PersonalTextsAreWrittenThrough
PROPERTIES
    MembershipChangesAreAnnounced
    ImplementsLocalPresence
    InviteOnlyEntryIsEarned
    ModesAreEnforced
    TopicsNeverFallBack
CHECK_DEADLOCK FALSE
