----------------------------- MODULE ConversHub -----------------------------
(***************************************************************************)
(* The presence model of a convers leaf (Convers.Core/ConversHub.cs): the  *)
(* local sessions, the network user table, channel topics and modes, the   *)
(* operator rosters and standing invitations, with the write-through of    *)
(* topics and personal texts to the store (ConversStore.cs).               *)
(*                                                                         *)
(* ConversHub.Advance is called from one owning loop, one event at a time, *)
(* so each event handler is one action.  An event on which the handler     *)
(* returns without an effect and without a fan-out is a stuttering step.   *)
(*                                                                         *)
(* out is the fan-out that the last event returned: out.up is the command  *)
(* for the uplink (a handler emits at most one), out.local the deliveries  *)
(* to local sessions.  upstream is a history variable: the channel that a  *)
(* parent which has applied every uplink command holds for each callsign   *)
(* of ours.                                                                *)
(***************************************************************************)
EXTENDS Integers, ChannelModes

CONSTANTS
    Session,            \* session ids the host shells assign
    Callsign,           \* canonical user names, local and remote
    RemoteHost,         \* canonical names of the other hosts
    HostName,           \* this leaf's own host name
    Channel,            \* valid channel numbers that occur
    Text,               \* topic and personal texts; NoText is the empty one
    NoText,
    Toggles,            \* the /..MODE toggles that occur
    Grants,             \* operator changes that occur: TRUE grant, FALSE revoke
    TicksPerSecond,     \* resolution of the clock below the wire's seconds
    MaxTime,            \* bound on the clock, in ticks
    OneSessionPerCall,  \* TRUE: no callsign attaches twice at the same time
    None                \* absent dictionary entry

Host == RemoteHost \cup {HostName}

\* "No channel": the -1 of /..USER, and the channel of a global /..OPER.
NoChannel == -1

LocalSession ==
    [call : Callsign, channel : Channel, personal : Text, away : BOOLEAN,
     oper : BOOLEAN, invited : SUBSET Channel]

NetworkUser ==
    [channel : Channel, personal : Text, away : BOOLEAN, oper : BOOLEAN]

\* A topic in memory carries a time in ticks, a stored one in seconds.
Topic == [text : Text, by : Callsign, at : Nat]

Delivery ==
    [kind : {"message", "private", "away", "invite", "join", "leave", "topic",
             "mode", "refused"},
     to : Session]

UplinkCommand ==
    [verb : {"USER"}, user : Callsign,
     from : Channel \cup {NoChannel}, to : Channel \cup {NoChannel}]
      \cup [verb : {"CMSG", "TOPI"}, user : Callsign, channel : Channel]
      \cup [verb : {"UMSG", "UDAT", "AWAY"}, user : Callsign]
      \cup [verb : {"INVI"}, user : Callsign, channel : Channel]
      \cup [verb : {"MODE"}, channel : Channel, options : Toggle]
      \cup [verb : {"PONG", "DROP"}]

ASSUME ConstantsAssumption ==
    /\ Channel \subseteq Nat
    /\ NoText \in Text
    /\ HostName \notin RemoteHost
    /\ Toggles \subseteq Toggle
    /\ Grants \subseteq BOOLEAN
    /\ TicksPerSecond \in Nat \ {0}
    /\ MaxTime \in Nat
    /\ OneSessionPerCall \in BOOLEAN
    /\ None \notin LocalSession \cup NetworkUser \cup Topic \cup UplinkCommand
    /\ None \notin Channel

VARIABLES
    sessions,    \* _sessions
    users,       \* _users, keyed by (name, host)
    topics,      \* topic part of _channels
    modes,       \* mode part of _channels
    globalOps,   \* _globalOps
    channelOps,  \* _channelOps
    invites,     \* _invites
    storedTopics,    \* the store's topics table
    profiles,        \* the store's profiles table: personal text per callsign
    now,         \* the injected TimeProvider
    out,         \* fan-out of the last event
    upstream     \* history: what the uplink commands told the parent

store == <<storedTopics, profiles>>
vars == <<sessions, users, topics, modes, globalOps, channelOps, invites,
          storedTopics, profiles, now, out, upstream>>

TypeOK ==
    /\ sessions \in [Session -> LocalSession \cup {None}]
    /\ users \in [Callsign \X Host -> NetworkUser \cup {None}]
    /\ topics \in [Channel -> Topic \cup {None}]
    /\ modes \in [Channel -> SUBSET Mode]
    /\ globalOps \in SUBSET Callsign
    /\ channelOps \in [Channel -> SUBSET Callsign]
    /\ invites \in [Callsign -> SUBSET Channel]
    /\ storedTopics \in [Channel -> Topic \cup {None}]
    /\ profiles \in [Callsign -> Text]
    /\ now \in Nat
    /\ out \in [up : UplinkCommand \cup {None}, local : SUBSET Delivery]
    /\ upstream \in [Callsign -> Channel \cup {None}]

-----------------------------------------------------------------------------
(* Lookups and helpers of the hub.                                         *)

Live(s) == sessions[s] # None

On(ch) == {s \in Session : Live(s) /\ sessions[s].channel = ch}

SessionsOf(call) == {s \in Session : Live(s) /\ sessions[s].call = call}

IsGlobalOperator(call) == call \in globalOps

IsChannelOperator(call, ch) == call \in channelOps[ch]

IsInvitedTo(call, ch) == ch \in invites[call]

Deliver(kind, targets) == {[kind |-> kind, to |-> s] : s \in targets}

\* The topic shown to a user who enters a channel that has one.
TopicNoticeFor(s, ch) ==
    Deliver("topic", {x \in {s} : topics[ch] # None /\ topics[ch].text # NoText})

\* The row of the network table that a local session is shown as.
UserRow(session) ==
    [channel |-> session.channel, personal |-> session.personal,
     away |-> session.away, oper |-> session.oper]

\* Mutant: the row is only created, never rewritten.
TryAddLocalUser(session) ==
    users' = [users EXCEPT ![<<session.call, HostName>>] =
                IF @ = None THEN UserRow(session) ELSE @]

UpsertLocalUser(session) ==
    users' = [users EXCEPT ![<<session.call, HostName>>] = UserRow(session)]

\* ConversStore.ToUnix / HostBridge.ToUnix and FromUnix: whole seconds.
ToUnix(ticks) == ticks \div TicksPerSecond

FromUnix(seconds) == seconds * TicksPerSecond

\* Mutant: the age test the wrong way round.
UpsertTopicBackwards(ch, topic) ==
    storedTopics' =
        IF storedTopics[ch] # None /\ storedTopics[ch].at <= ToUnix(topic.at)
        THEN storedTopics
        ELSE [storedTopics EXCEPT ![ch] = [topic EXCEPT !.at = ToUnix(topic.at)]]

\* ConversStore.UpsertTopic: an equal or newer stored topic is kept.
UpsertTopic(ch, topic) ==
    storedTopics' =
        IF storedTopics[ch] # None /\ storedTopics[ch].at >= ToUnix(topic.at)
        THEN storedTopics
        ELSE [storedTopics EXCEPT ![ch] = [topic EXCEPT !.at = ToUnix(topic.at)]]

ApplyTopic(ch, topic) ==
    /\ topics' = [topics EXCEPT ![ch] = topic]
    /\ UpsertTopic(ch, topic)

ApplyOperator(call, ch, grant) ==
    IF ch = NoChannel
    THEN /\ globalOps' = IF grant THEN globalOps \cup {call} ELSE globalOps \ {call}
         /\ UNCHANGED channelOps
    ELSE /\ channelOps' = [channelOps EXCEPT
                             ![ch] = IF grant THEN @ \cup {call} ELSE @ \ {call}]
         /\ UNCHANGED globalOps

\* Mutant: a revocation does not reach the live sessions.
RefreshOnGrantOnly(call) ==
    LET IsOp(s) == call \in globalOps' \/ call \in channelOps'[sessions[s].channel]
        changed == {s \in SessionsOf(call) : ~sessions[s].oper /\ IsOp(s)}
    IN  /\ sessions' = [s \in Session |->
                          IF s \in changed THEN [sessions[s] EXCEPT !.oper = TRUE]
                          ELSE sessions[s]]
        /\ UNCHANGED users

\* Recompute the flag of every live session of call against the new rosters
\* and show each changed session in the user table; when the callsign has
\* several sessions the one enumerated last stays in the row.
RefreshSessionOpFlags(call) ==
    LET IsOp(s) == call \in globalOps' \/ call \in channelOps'[sessions[s].channel]
        changed == {s \in SessionsOf(call) : sessions[s].oper # IsOp(s)}
    IN  /\ sessions' = [s \in Session |->
                          IF s \in changed
                          THEN [sessions[s] EXCEPT !.oper = IsOp(s)]
                          ELSE sessions[s]]
        /\ IF changed = {}
           THEN UNCHANGED users
           ELSE \E s \in changed :
                  UpsertLocalUser([sessions[s] EXCEPT !.oper = IsOp(s)])

\* Mutant: the live sessions keep their old copy.
RecordInviteOnly(call, ch) ==
    /\ invites' = [invites EXCEPT ![call] = @ \cup {ch}]
    /\ UNCHANGED sessions

\* Record the invitation and refresh the copy every live session holds.
RecordInvite(call, ch) ==
    /\ invites' = [invites EXCEPT ![call] = @ \cup {ch}]
    /\ sessions' = [s \in Session |->
                      IF s \in SessionsOf(call)
                      THEN [sessions[s] EXCEPT !.invited = invites'[call]]
                      ELSE sessions[s]]

Emit(up, local) == out' = [up |-> up, local |-> local]

-----------------------------------------------------------------------------
Init ==
    /\ sessions = [s \in Session |-> None]
    /\ users = [k \in Callsign \X Host |-> None]
    /\ topics = [c \in Channel |-> None]
    /\ modes = [c \in Channel |-> {}]
    /\ globalOps = {}
    /\ channelOps = [c \in Channel |-> {}]
    /\ invites = [c \in Callsign |-> {}]
    /\ storedTopics = [c \in Channel |-> None]
    /\ profiles = [c \in Callsign |-> NoText]
    /\ now = 0
    /\ out = [up |-> None, local |-> {}]
    /\ upstream = [c \in Callsign |-> None]

\* The constructor: a new process on the same store.  Live presence, modes,
\* rosters and invitations are gone, topics come back with whole seconds,
\* and the parent has seen the old link die.
Restart ==
    /\ sessions' = [s \in Session |-> None]
    /\ users' = [k \in Callsign \X Host |-> None]
    /\ topics' = [c \in Channel |->
                    IF storedTopics[c] = None THEN None
                    ELSE [storedTopics[c] EXCEPT !.at = FromUnix(@)]]
    /\ modes' = [c \in Channel |-> {}]
    /\ globalOps' = {}
    /\ channelOps' = [c \in Channel |-> {}]
    /\ invites' = [c \in Callsign |-> {}]
    /\ out' = [up |-> None, local |-> {}]
    /\ upstream' = [c \in Callsign |-> None]
    /\ UNCHANGED <<store, now>>

Tick ==
    /\ now < MaxTime
    /\ now' = now + 1
    /\ UNCHANGED <<sessions, users, topics, modes, globalOps, channelOps,
                   invites, store, out, upstream>>

-----------------------------------------------------------------------------
(* Events of local sessions.                                               *)

\* A fresh id per attach is the caller's contract (LocalSession.Id).
LocalJoin(s, call, ch) ==
    /\ ~Live(s)
    /\ OneSessionPerCall => SessionsOf(call) = {}
    /\ ~RequiresInvite(modes[ch]) \/ IsInvitedTo(call, ch) \/ IsGlobalOperator(call)
    /\ LET session == [call |-> call, channel |-> ch, personal |-> profiles[call],
                       away |-> FALSE, oper |-> IsGlobalOperator(call),
                       invited |-> invites[call]]
       IN  /\ sessions' = [sessions EXCEPT ![s] = session]
           /\ UpsertLocalUser(session)
    /\ Emit([verb |-> "USER", user |-> call, from |-> NoChannel, to |-> ch],
            Deliver("join", On(ch) \ {s}) \cup TopicNoticeFor(s, ch))
    /\ upstream' = [upstream EXCEPT ![call] = ch]
    /\ UNCHANGED <<topics, modes, globalOps, channelOps, invites, store, now>>

LocalJoinRefused(s, call, ch) ==
    /\ ~Live(s)
    /\ RequiresInvite(modes[ch]) /\ ~IsInvitedTo(call, ch) /\ ~IsGlobalOperator(call)
    /\ Emit(None, Deliver("refused", {s}))
    /\ UNCHANGED <<sessions, users, topics, modes, globalOps, channelOps,
                   invites, store, now, upstream>>

\* Mutant: the gate looks at the modes of the channel being left.
MaySwitchFrom(session, ch) ==
    ~RequiresInvite(modes[session.channel]) \/ session.oper \/ ch \in session.invited

\* The gate reads the copies on the session, not the rosters.
MaySwitch(session, ch) ==
    ~RequiresInvite(modes[ch]) \/ session.oper \/ ch \in session.invited

\* Mutant: channel-operator rights follow the user to the new channel.
MovedWithRights(session, ch) == [session EXCEPT !.channel = ch]

\* Operator rights are recomputed against the destination's roster.
MovedTo(session, ch) ==
    [session EXCEPT !.channel = ch,
                    !.oper = \/ IsGlobalOperator(session.call)
                             \/ IsChannelOperator(session.call, ch)]

LocalSwitchChannel(s, ch) ==
    /\ Live(s)
    /\ sessions[s].channel # ch
    /\ MaySwitch(sessions[s], ch)
    /\ LET call == sessions[s].call
           moved == MovedTo(sessions[s], ch)
       IN  /\ sessions' = [sessions EXCEPT ![s] = moved]
           /\ UpsertLocalUser(moved)
           /\ Emit([verb |-> "USER", user |-> call,
                    from |-> sessions[s].channel, to |-> ch],
                   Deliver("leave", On(sessions[s].channel) \ {s})
                     \cup Deliver("join", On(ch) \ {s}) \cup TopicNoticeFor(s, ch))
           /\ upstream' = [upstream EXCEPT ![call] = ch]
    /\ UNCHANGED <<topics, modes, globalOps, channelOps, invites, store, now>>

LocalSwitchRefused(s, ch) ==
    /\ Live(s)
    /\ sessions[s].channel # ch
    /\ ~MaySwitch(sessions[s], ch)
    /\ Emit(None, Deliver("refused", {s}))
    /\ UNCHANGED <<sessions, users, topics, modes, globalOps, channelOps,
                   invites, store, now, upstream>>

\* +m lets only operators write; +l keeps the text off the links.
LocalSay(s) ==
    /\ Live(s)
    /\ LET ch == sessions[s].channel IN
         IF "m" \in modes[ch] /\ ~sessions[s].oper
         THEN Emit(None, Deliver("refused", {s}))
         ELSE Emit(IF "l" \in modes[ch] THEN None
                   ELSE [verb |-> "CMSG", user |-> sessions[s].call, channel |-> ch],
                   Deliver("message", On(ch) \ {s}))
    /\ UNCHANGED <<sessions, users, topics, modes, globalOps, channelOps,
                   invites, store, now, upstream>>

\* Every local session of the addressee gets the text; the sender is told
\* about each that is away.  Only when there is none is the first remote row
\* of that name asked for its away state.
LocalPrivateMessage(s, to) ==
    /\ Live(s)
    /\ LET targets == SessionsOf(to)
           remote == {h \in RemoteHost : users[<<to, h>>] # None}
           away == {t \in targets : sessions[t].away}
       IN  \E told \in IF targets # {} THEN {away # {}}
                       ELSE IF remote # {} THEN {users[<<to, h>>].away : h \in remote}
                       ELSE {FALSE} :
             Emit([verb |-> "UMSG", user |-> sessions[s].call],
                  Deliver("private", targets)
                    \cup Deliver("away", {x \in {s} : told}))
    /\ UNCHANGED <<sessions, users, topics, modes, globalOps, channelOps,
                   invites, store, now, upstream>>

\* Mutant: the profile is not written.
LocalSetPersonalInMemory(s, personal) ==
    /\ Live(s)
    /\ LET session == [sessions[s] EXCEPT !.personal = personal]
       IN  /\ sessions' = [sessions EXCEPT ![s] = session]
           /\ UpsertLocalUser(session)
           /\ Emit([verb |-> "UDAT", user |-> session.call], {})
    /\ UNCHANGED <<topics, modes, globalOps, channelOps, invites, store, now,
                   upstream>>

LocalSetPersonal(s, personal) ==
    /\ Live(s)
    /\ LET session == [sessions[s] EXCEPT !.personal = personal]
       IN  /\ sessions' = [sessions EXCEPT ![s] = session]
           /\ UpsertLocalUser(session)
           /\ profiles' = [profiles EXCEPT ![session.call] = personal]
           /\ Emit([verb |-> "UDAT", user |-> session.call], {})
    /\ UNCHANGED <<topics, modes, globalOps, channelOps, invites, storedTopics,
                   now, upstream>>

LocalSetAway(s, away) ==
    /\ Live(s)
    /\ LET session == [sessions[s] EXCEPT !.away = away]
       IN  /\ sessions' = [sessions EXCEPT ![s] = session]
           /\ UpsertLocalUser(session)
           /\ Emit([verb |-> "AWAY", user |-> session.call], {})
    /\ UNCHANGED <<topics, modes, globalOps, channelOps, invites, store, now,
                   upstream>>

\* Mutant: the wrong mode letter is tested.
MaySetTopicUnmoderated(session) == "m" \notin modes[session.channel] \/ session.oper

\* +t lets only operators set the topic.
MaySetTopic(session) == "t" \notin modes[session.channel] \/ session.oper

LocalSetTopic(s, text) ==
    /\ Live(s)
    /\ LET ch == sessions[s].channel
           call == sessions[s].call
       IN  IF ~MaySetTopic(sessions[s])
           THEN /\ Emit(None, Deliver("refused", {s}))
                /\ UNCHANGED <<topics, storedTopics>>
           ELSE /\ ApplyTopic(ch, [text |-> text, by |-> call, at |-> now])
                /\ Emit([verb |-> "TOPI", user |-> call, channel |-> ch],
                        Deliver("topic", On(ch)))
    /\ UNCHANGED <<sessions, users, modes, globalOps, channelOps, invites,
                   profiles, now, upstream>>

LocalInvite(s, to, ch) ==
    /\ Live(s)
    /\ RecordInvite(to, ch)
    /\ Emit([verb |-> "INVI", user |-> to, channel |-> ch],
            Deliver("invite", SessionsOf(to)))
    /\ UNCHANGED <<users, topics, modes, globalOps, channelOps, store, now,
                   upstream>>

\* The permission is read from the rosters of the target channel.
LocalSetMode(s, ch, options) ==
    /\ Live(s)
    /\ LET call == sessions[s].call
           after == Apply(modes[ch], options, ch = 0)
       IN  IF ~IsGlobalOperator(call) /\ ~IsChannelOperator(call, ch)
           THEN /\ Emit(None, Deliver("refused", {s}))
                /\ UNCHANGED modes
           ELSE /\ after # modes[ch]
                /\ modes' = [modes EXCEPT ![ch] = after]
                /\ Emit([verb |-> "MODE", channel |-> ch, options |-> ToWire(after)],
                        Deliver("mode", On(ch)))
    /\ UNCHANGED <<sessions, users, topics, globalOps, channelOps, invites,
                   store, now, upstream>>

LocalSetOperator(s, ch, grant) ==
    /\ Live(s)
    /\ ApplyOperator(sessions[s].call, ch, grant)
    /\ RefreshSessionOpFlags(sessions[s].call)
    /\ Emit(None, {})
    /\ UNCHANGED <<topics, modes, invites, store, now, upstream>>

LocalLeave(s) ==
    /\ Live(s)
    /\ LET call == sessions[s].call
           ch == sessions[s].channel
       IN  /\ sessions' = [sessions EXCEPT ![s] = None]
           /\ users' = [users EXCEPT ![<<call, HostName>>] = None]
           /\ Emit([verb |-> "USER", user |-> call, from |-> ch, to |-> NoChannel],
                   Deliver("leave", On(ch) \ {s}))
           /\ upstream' = [upstream EXCEPT ![call] = None]
    /\ UNCHANGED <<topics, modes, globalOps, channelOps, invites, store, now>>

-----------------------------------------------------------------------------
(* Events of the host link: commands of the parent or of a peer.           *)

\* The row of the announced user, its personal text and away state kept when
\* the announcement brings none, and notices on the channels left and entered.
PutUser(user, host, ch, personal) ==
    /\ LET old == users[<<user, host>>]
           row == [channel |-> ch,
                   personal |-> IF personal = NoText /\ old # None
                                THEN old.personal ELSE personal,
                   away |-> old # None /\ old.away,
                   oper |-> FALSE]
       IN  /\ users' = [users EXCEPT ![<<user, host>>] = row]
           /\ Emit(None, (IF old # None /\ old.channel # ch
                          THEN Deliver("leave", On(old.channel)) ELSE {})
                           \cup Deliver("join", On(ch)))
    /\ UNCHANGED <<sessions, topics, modes, globalOps, channelOps, invites,
                   store, now, upstream>>

\* Mutant: the channel left is not told.
HostUserJoinOnly(user, host, ch, personal) ==
    /\ host # HostName
    /\ users' = [users EXCEPT ![<<user, host>>] =
                   [channel |-> ch, personal |-> personal, away |-> FALSE, oper |-> FALSE]]
    /\ Emit(None, Deliver("join", On(ch)))
    /\ UNCHANGED <<sessions, topics, modes, globalOps, channelOps, invites,
                   store, now, upstream>>

\* A presence claiming our own host name is not believed.  Mutant: PutUser.
HostUser(user, host, ch, personal) ==
    /\ host # HostName
    /\ PutUser(user, host, ch, personal)

\* Mutant: the row stays, on channel -1.
MoveUserOff(user, host) ==
    /\ host # HostName
    /\ users[<<user, host>>] # None
    /\ users' = [users EXCEPT ![<<user, host>>].channel = NoChannel]
    /\ Emit(None, Deliver("leave", On(users[<<user, host>>].channel)))
    /\ UNCHANGED <<sessions, topics, modes, globalOps, channelOps, invites,
                   store, now, upstream>>

RemoveUser(user, host) ==
    /\ users[<<user, host>>] # None
    /\ users' = [users EXCEPT ![<<user, host>>] = None]
    /\ Emit(None, Deliver("leave", On(users[<<user, host>>].channel)))
    /\ UNCHANGED <<sessions, topics, modes, globalOps, channelOps, invites,
                   store, now, upstream>>

\* The sign-off of a remote user.  Mutant: RemoveUser.
HostUserSignOff(user, host) ==
    /\ host # HostName
    /\ RemoveUser(user, host)

HostChannelMessage(ch) ==
    /\ Emit(None, Deliver("message", On(ch)))
    /\ UNCHANGED <<sessions, users, topics, modes, globalOps, channelOps,
                   invites, store, now, upstream>>

HostPrivateMessage(to) ==
    /\ Emit(None, Deliver("private", SessionsOf(to)))
    /\ UNCHANGED <<sessions, users, topics, modes, globalOps, channelOps,
                   invites, store, now, upstream>>

\* Unlike HostUser, these two believe a claim about our own host.
HostPersonal(user, host, personal) ==
    /\ users[<<user, host>>] # None
    /\ users' = [users EXCEPT ![<<user, host>>].personal = personal]
    /\ Emit(None, {})
    /\ UNCHANGED <<sessions, topics, modes, globalOps, channelOps, invites,
                   store, now, upstream>>

HostAway(user, host, away) ==
    /\ users[<<user, host>>] # None
    /\ users' = [users EXCEPT ![<<user, host>>].away = away]
    /\ Emit(None, {})
    /\ UNCHANGED <<sessions, topics, modes, globalOps, channelOps, invites,
                   store, now, upstream>>

\* A topic stamped with a whole second.
PutTopic(user, seconds, ch, text) ==
    /\ ApplyTopic(ch, [text |-> text, by |-> user, at |-> FromUnix(seconds)])
    /\ Emit(None, Deliver("topic", On(ch)))
    /\ UNCHANGED <<sessions, users, modes, globalOps, channelOps, invites,
                   profiles, now, upstream>>

\* A strictly newer topic of ours stays.  Mutant: PutTopic.
HostTopic(user, seconds, ch, text) ==
    /\ topics[ch] # None => topics[ch].at <= FromUnix(seconds)
    /\ PutTopic(user, seconds, ch, text)

HostInvite(user, ch) ==
    /\ RecordInvite(user, ch)
    /\ Emit(None, Deliver("invite", SessionsOf(user)))
    /\ UNCHANGED <<users, topics, modes, globalOps, channelOps, store, now,
                   upstream>>

HostMode(ch, options) ==
    /\ Apply(modes[ch], options, ch = 0) # modes[ch]
    /\ modes' = [modes EXCEPT ![ch] = Apply(modes[ch], options, ch = 0)]
    /\ Emit(None, Deliver("mode", On(ch)))
    /\ UNCHANGED <<sessions, users, topics, globalOps, channelOps, invites,
                   store, now, upstream>>

\* HostBridge gives the event a blank host, which no row of the table has,
\* so the row update at the end of the handler never finds one.
HostOper(user, ch, grant) ==
    /\ ApplyOperator(user, ch, grant)
    /\ RefreshSessionOpFlags(user)
    /\ Emit(None, {})
    /\ UNCHANGED <<topics, modes, invites, store, now, upstream>>

\* /..PING is answered, /..LOOP asks the link to drop the uplink.
HostPingOrLoop ==
    /\ \E verb \in {"PONG", "DROP"} : Emit([verb |-> verb], {})
    /\ UNCHANGED <<sessions, users, topics, modes, globalOps, channelOps,
                   invites, store, now, upstream>>

-----------------------------------------------------------------------------
LocalEventOf(s) ==
    \/ \E call \in Callsign, ch \in Channel : LocalJoin(s, call, ch)
    \/ \E call \in Callsign, ch \in Channel : LocalJoinRefused(s, call, ch)
    \/ \E ch \in Channel : LocalSwitchChannel(s, ch)
    \/ \E ch \in Channel : LocalSwitchRefused(s, ch)
    \/ LocalSay(s)
    \/ \E to \in Callsign : LocalPrivateMessage(s, to)
    \/ \E personal \in Text : LocalSetPersonal(s, personal)
    \/ \E away \in BOOLEAN : LocalSetAway(s, away)
    \/ \E text \in Text : LocalSetTopic(s, text)
    \/ \E to \in Callsign, ch \in Channel : LocalInvite(s, to, ch)
    \/ \E ch \in Channel, options \in Toggles : LocalSetMode(s, ch, options)
    \/ \E ch \in Channel \cup {NoChannel}, grant \in Grants :
         LocalSetOperator(s, ch, grant)
    \/ LocalLeave(s)

LocalEvent == \E s \in Session : LocalEventOf(s)

HostEvent ==
    \/ \E user \in Callsign, host \in Host :
         \/ \E ch \in Channel, personal \in Text : HostUser(user, host, ch, personal)
         \/ HostUserSignOff(user, host)
         \/ \E personal \in Text : HostPersonal(user, host, personal)
         \/ \E away \in BOOLEAN : HostAway(user, host, away)
    \/ \E ch \in Channel : HostChannelMessage(ch)
    \/ \E to \in Callsign : HostPrivateMessage(to)
    \/ \E user \in Callsign, seconds \in 0..ToUnix(MaxTime), ch \in Channel,
          text \in Text : HostTopic(user, seconds, ch, text)
    \/ \E user \in Callsign, ch \in Channel : HostInvite(user, ch)
    \/ \E ch \in Channel, options \in Toggles : HostMode(ch, options)
    \/ \E user \in Callsign, ch \in Channel \cup {NoChannel}, grant \in Grants :
         HostOper(user, ch, grant)
    \/ HostPingOrLoop

Next == LocalEvent \/ HostEvent \/ Restart \/ Tick

Spec == Init /\ [][Next]_vars

-----------------------------------------------------------------------------
(* Safety.                                                                 *)

\* The invitations a session carries are exactly the standing invitations of
\* its callsign.  LocalSwitchChannel admits by the copy on the session while
\* LocalJoin asks _invites, so a stale copy would make the two gates disagree
\* (RecordInvite and InvitesFor keep it fresh).
InvitesOnSessionsAreCurrent ==
    \A s \in Session : Live(s) => sessions[s].invited = invites[sessions[s].call]

\* No session keeps operator rights that no roster gives it: the cached flag
\* that +m, +t and the invite gate read implies a global grant or a grant for
\* the channel the session is on now, across switches, revocations and
\* grants made from either side.
OperatorFlagIsBacked ==
    \A s \in Session : Live(s) /\ sessions[s].oper =>
        \/ IsGlobalOperator(sessions[s].call)
        \/ IsChannelOperator(sessions[s].call, sessions[s].channel)

\* What the uplink has been told about our users is what our own table says:
\* the channel of each /..USER stream we emitted is the channel of the row,
\* and a row is gone exactly when the sign-off was emitted.
UpstreamMatchesTable ==
    \A c \in Callsign :
        upstream[c] = IF users[<<c, HostName>>] = None THEN None
                      ELSE users[<<c, HostName>>].channel

\* A row under our own host name belongs to somebody who is attached and on
\* that channel: local users leave no ghost behind in /who.
NoLocalGhosts ==
    \A c \in Callsign : users[<<c, HostName>>] # None =>
        \E s \in SessionsOf(c) : sessions[s].channel = users[<<c, HostName>>].channel

\* Every attached local user is in the network table ("Includes our own local
\* users"), on the channel and with the operator flag of the session.
LocalUsersAreListed ==
    \A s \in Session : Live(s) =>
        /\ users[<<sessions[s].call, HostName>>] # None
        /\ users[<<sessions[s].call, HostName>>].channel = sessions[s].channel
        /\ users[<<sessions[s].call, HostName>>].oper = sessions[s].oper

\* The network table "Includes our own local users" (the comment on _users):
\* whoever is attached has a row.
AttachedUsersHaveARow ==
    \A s \in Session : Live(s) => users[<<sessions[s].call, HostName>>] # None

\* The personal text of an attached user is the one a rejoin or a restart will
\* bring back: LocalJoin hydrates it and LocalSetPersonal writes it through.
PersonalTextsAreWrittenThrough ==
    \A s \in Session : Live(s) => sessions[s].personal = profiles[sessions[s].call]

\* What the store would bring back after a crash is never older than what
\* users see now, to the second: UpsertTopic either took the last change of
\* the topic or held one at least as new.
StoredTopicIsAsNew ==
    \A ch \in Channel : topics[ch] # None =>
        /\ storedTopics[ch] # None
        /\ storedTopics[ch].at >= ToUnix(topics[ch].at)

\* LocalSession.IsOperator: "True when this user is a channel-operator on
\* their current channel (or a global operator)".
OperatorsAreFlagged ==
    \A s \in Session : Live(s) =>
        (sessions[s].oper <=> \/ IsGlobalOperator(sessions[s].call)
                              \/ IsChannelOperator(sessions[s].call, sessions[s].channel))

-----------------------------------------------------------------------------
(* The abstract view: our rows, and the /..USER commands of the fan-out.   *)

OwnChannel(c) ==
    IF users[<<c, HostName>>] = None THEN None ELSE users[<<c, HostName>>].channel

Announced == IF out.up # None /\ out.up.verb = "USER" THEN out.up ELSE None

Presence == INSTANCE LocalPresence
    WITH own <- [c \in Callsign |-> OwnChannel(c)], sent <- Announced

\* The hub keeps the promise of LocalPresence: every handler that changes the
\* channel of one of our rows emits the one /..USER that says so, from where
\* the network saw the user last, and no other handler emits one.
ImplementsLocalPresence == Presence!Spec

-----------------------------------------------------------------------------
(* Action properties.                                                      *)

Delivered(kind, s) == [kind |-> kind, to |-> s] \in out'.local

NamesOn(ch) == {c \in Callsign : \E h \in Host :
                  users[<<c, h>>] # None /\ users[<<c, h>>].channel = ch}

\* A local user who stays on a channel is told of every name that appears on
\* it and of every name that disappears from it, whichever handler moved the
\* user (join, switch and leave of a local user, /..USER from the network).
AnnouncesMembership ==
    \A s \in Session :
      Live(s) /\ Live(s)' /\ sessions'[s].channel = sessions[s].channel =>
        LET ch == sessions[s].channel IN
          /\ NamesOn(ch)' \ NamesOn(ch) # {} => Delivered("join", s)
          /\ NamesOn(ch) \ NamesOn(ch)' # {} => Delivered("leave", s)

MembershipChangesAreAnnounced == [][AnnouncesMembership]_vars

\* Entering an invite-only channel, by join or by switch, takes a standing
\* invitation, the global operator role or, for a switch, operator rights on
\* the channel being left.
EntryIsEarned ==
    \A s \in Session :
      (Live(s)' /\ (Live(s) => sessions'[s].channel # sessions[s].channel)) =>
        LET call == sessions'[s].call
            ch == sessions'[s].channel
        IN  \/ ~RequiresInvite(modes[ch])
            \/ IsInvitedTo(call, ch)
            \/ IsGlobalOperator(call)
            \/ Live(s) /\ IsChannelOperator(call, sessions[s].channel)

InviteOnlyEntryIsEarned == [][EntryIsEarned]_vars

\* A restart forgets no channel's topic and dates it no earlier than the
\* second it was set in, and the network can only replace a topic by one that
\* is at least as new: the time of a topic goes back only when a local user
\* on that channel sets it by a clock that is behind.
TopicAgesForward ==
    \A ch \in Channel : topics[ch] # None =>
      /\ topics'[ch] # None
      /\ \/ ToUnix(topics'[ch].at) >= ToUnix(topics[ch].at)
         \/ /\ topics'[ch].at = now
            /\ \E s \in On(ch) : sessions[s].call = topics'[ch].by

TopicsNeverFallBack == [][TopicAgesForward]_vars

\* Text is accepted from a session on a moderated channel, and a topic on a
\* topic-locked one, only while a roster makes its user an operator.
ObeysModes ==
    out' # out /\ out'.up # None /\ out'.up.verb \in {"CMSG", "TOPI"} =>
      LET ch == out'.up.channel
          lock == IF out'.up.verb = "CMSG" THEN "m" ELSE "t"
      IN  \/ lock \notin modes[ch]
          \/ IsGlobalOperator(out'.up.user)
          \/ IsChannelOperator(out'.up.user, ch)

ModesAreEnforced == [][ObeysModes]_vars

=============================================================================
