---------------------- MODULE ConversHubPresenceProofs ----------------------
(***************************************************************************)
(* Presence of local users, when no callsign is attached twice: sessions,  *)
(* the rows under our own host name and what the uplink was told agree.    *)
(* From it the refinement of LocalPresence, the personal texts and the     *)
(* notices of membership.                                                  *)
(***************************************************************************)
EXTENDS ConversHubProofs

\* No two sessions share a callsign: what OneSessionPerCall provides, and the
\* strengthening that makes the rest inductive.  Without it the row of a
\* callsign has two owners.
CallsAreUnique ==
    \A s, t \in Session : Live(s) /\ Live(t) /\ sessions[s].call = sessions[t].call => s = t

Own(c) == users[<<c, HostName>>]

\* The part of LocalUsersAreListed, NoLocalGhosts and UpstreamMatchesTable
\* that is inductive: session, row and upstream view of each other.
PresenceInv ==
    /\ CallsAreUnique
    /\ LocalUsersAreListed
    /\ NoLocalGhosts
    /\ UpstreamMatchesTable

\* A step that changes nothing PresenceInv looks at.
KeepsPresence ==
    /\ UNCHANGED upstream
    /\ \A s \in Session :
         /\ Live(s)' <=> Live(s)
         /\ Live(s) => /\ sessions'[s].call = sessions[s].call
                       /\ sessions'[s].channel = sessions[s].channel
                       /\ sessions'[s].oper = sessions[s].oper
    /\ \A c \in Callsign :
         /\ Own(c)' = None <=> Own(c) = None
         /\ Own(c) # None => /\ Own(c)'.channel = Own(c).channel
                             /\ Own(c)'.oper = Own(c).oper

-----------------------------------------------------------------------------
\* Such a step keeps the invariant.
LEMMA KeepsPresenceInv ==
    ASSUME TypeOK, PresenceInv, KeepsPresence
    PROVE  PresenceInv'
  <1>1. ASSUME NEW s \in Session, Live(s)
        PROVE  sessions[s].call \in Callsign
    BY <1>1, LiveSession
  <1>2. CallsAreUnique'
    BY DEF PresenceInv, KeepsPresence, CallsAreUnique
  <1>3. LocalUsersAreListed'
    BY <1>1 DEF PresenceInv, KeepsPresence, LocalUsersAreListed, Own
  <1>4. NoLocalGhosts'
    BY DEF PresenceInv, KeepsPresence, NoLocalGhosts, SessionsOf, Own
  <1>5. UpstreamMatchesTable'
    BY DEF PresenceInv, KeepsPresence, UpstreamMatchesTable, Own
  <1> QED BY <1>2, <1>3, <1>4, <1>5 DEF PresenceInv

\* Showing a session in its row changes that row and no other row of ours.
LEMMA UpsertOwn ==
    ASSUME TypeOK, NEW x \in LocalSession, UpsertLocalUser(x)
    PROVE  /\ Own(x.call)' = UserRow(x)
           /\ Own(x.call)' # None
           /\ Own(x.call)'.channel = x.channel
           /\ Own(x.call)'.oper = x.oper
           /\ \A c \in Callsign \ {x.call} : Own(c)' = Own(c)
  <1>1. x.call \in Callsign /\ HostName \in Host
    BY DEF LocalSession, Host
  <1>2. users' = [users EXCEPT ![<<x.call, HostName>>] = UserRow(x)]
    BY DEF UpsertLocalUser
  <1>3. Own(x.call)' = UserRow(x)
    BY <1>1, <1>2 DEF TypeOK, Own
  <1>4. \A c \in Callsign \ {x.call} : Own(c)' = Own(c)
    BY <1>1, <1>2 DEF TypeOK, Own
  <1>5. UserRow(x) \in NetworkUser
    BY DEF UserRow, NetworkUser, LocalSession
  <1> QED BY <1>3, <1>4, <1>5, NoneIsFresh DEF UserRow

\* Changing the personal text or the away flag of a session, then showing it.
LEMMA RewriteKeepsPresence ==
    ASSUME TypeOK, PresenceInv, NEW s \in Session, Live(s), NEW x \in LocalSession,
           x.call = sessions[s].call, x.channel = sessions[s].channel,
           x.oper = sessions[s].oper,
           sessions' = [sessions EXCEPT ![s] = x], UpsertLocalUser(x), UNCHANGED upstream
    PROVE  KeepsPresence
  <1>1. x # None /\ x.call \in Callsign
    BY NoneIsFresh DEF LocalSession
  <1>2. sessions'[s] = x /\ \A t \in Session \ {s} : sessions'[t] = sessions[t]
    BY DEF TypeOK
  <1>3. /\ Own(x.call) # None
        /\ Own(x.call).channel = x.channel
        /\ Own(x.call).oper = x.oper
    BY DEF PresenceInv, LocalUsersAreListed, Own
  <1> QED BY <1>1, <1>2, <1>3, UpsertOwn DEF KeepsPresence, Live

\* An invitation changes no session beyond its invitations.
LEMMA InviteKeepsSessions ==
    ASSUME TypeOK, NEW user \in Callsign, NEW ch \in Channel, RecordInvite(user, ch),
           NEW s \in Session
    PROVE  /\ Live(s)' <=> Live(s)
           /\ Live(s) => /\ sessions'[s].call = sessions[s].call
                         /\ sessions'[s].channel = sessions[s].channel
                         /\ sessions'[s].oper = sessions[s].oper
  <1>1. Live(s) => sessions[s] \in LocalSession
    BY LiveSession
  <1>2. [sessions[s] EXCEPT !.invited = invites'[user]] \in LocalSession
          \/ s \notin SessionsOf(user)
    BY <1>1, RecordInviteType DEF SessionsOf, LocalSession
  <1> QED BY <1>1, <1>2, NoneIsFresh DEF RecordInvite, SessionsOf, Live, LocalSession

\* An event of the network changes no row of ours beyond personal and away.
LEMMA HostKeepsPresence ==
    ASSUME TypeOK, PresenceInv, HostEvent
    PROVE  \/ KeepsPresence
           \/ \E user \in Callsign, ch \in Channel \cup {NoChannel}, grant \in Grants :
                HostOper(user, ch, grant)
  <1>0. HostName \in Host
    BY DEF Host
  <1>1. ASSUME UNCHANGED <<sessions, upstream>>, \A c \in Callsign : Own(c)' = Own(c)
        PROVE  KeepsPresence
    BY <1>1 DEF KeepsPresence, Live
  <1>2. ASSUME NEW user \in Callsign, NEW host \in Host, NEW ch \in Channel,
               NEW personal \in Text, HostUser(user, host, ch, personal)
        PROVE  KeepsPresence
    <2>1. \A c \in Callsign : Own(c)' = Own(c)
      BY <1>0, <1>2 DEF HostUser, PutUser, TypeOK, Own
    <2> QED BY <1>1, <1>2, <2>1 DEF HostUser, PutUser
  <1>3. ASSUME NEW user \in Callsign, NEW host \in Host, HostUserSignOff(user, host)
        PROVE  KeepsPresence
    <2>1. \A c \in Callsign : Own(c)' = Own(c)
      BY <1>0, <1>3 DEF HostUserSignOff, RemoveUser, TypeOK, Own
    <2> QED BY <1>1, <1>3, <2>1 DEF HostUserSignOff, RemoveUser
  <1>4. ASSUME NEW user \in Callsign, NEW host \in Host, NEW row,
               users[<<user, host>>] # None,
               users' = [users EXCEPT ![<<user, host>>] = row],
               row \in NetworkUser,
               row.channel = users[<<user, host>>].channel,
               row.oper = users[<<user, host>>].oper,
               UNCHANGED <<sessions, upstream>>
        PROVE  KeepsPresence
    <2>1. ASSUME NEW c \in Callsign
          PROVE  /\ Own(c)' = None <=> Own(c) = None
                 /\ Own(c) # None => /\ Own(c)'.channel = Own(c).channel
                                     /\ Own(c)'.oper = Own(c).oper
      <3>1. CASE <<c, HostName>> = <<user, host>>
        BY <1>0, <1>4, <3>1, NoneIsFresh DEF TypeOK, Own
      <3>2. CASE <<c, HostName>> # <<user, host>>
        BY <1>0, <1>4, <3>2 DEF TypeOK, Own
      <3> QED BY <3>1, <3>2
    <2> QED BY <1>4, <2>1 DEF KeepsPresence, Live
  <1>5. ASSUME NEW user \in Callsign, NEW host \in Host, NEW personal \in Text,
               HostPersonal(user, host, personal)
        PROVE  KeepsPresence
    <2> DEFINE row == [users[<<user, host>>] EXCEPT !.personal = personal]
    <2>1. users[<<user, host>>] \in NetworkUser
      BY <1>5 DEF HostPersonal, TypeOK
    <2>2. /\ row \in NetworkUser
          /\ row.channel = users[<<user, host>>].channel
          /\ row.oper = users[<<user, host>>].oper
      BY <2>1 DEF NetworkUser
    <2>3. /\ users[<<user, host>>] # None
          /\ users' = [users EXCEPT ![<<user, host>>] = row]
          /\ UNCHANGED <<sessions, upstream>>
      BY <1>5 DEF HostPersonal
    <2> HIDE DEF row
    <2> QED BY <1>4, <2>2, <2>3
  <1>6. ASSUME NEW user \in Callsign, NEW host \in Host, NEW away \in BOOLEAN,
               HostAway(user, host, away)
        PROVE  KeepsPresence
    <2> DEFINE row == [users[<<user, host>>] EXCEPT !.away = away]
    <2>1. users[<<user, host>>] \in NetworkUser
      BY <1>6 DEF HostAway, TypeOK
    <2>2. /\ row \in NetworkUser
          /\ row.channel = users[<<user, host>>].channel
          /\ row.oper = users[<<user, host>>].oper
      BY <2>1 DEF NetworkUser
    <2>3. /\ users[<<user, host>>] # None
          /\ users' = [users EXCEPT ![<<user, host>>] = row]
          /\ UNCHANGED <<sessions, upstream>>
      BY <1>6 DEF HostAway
    <2> HIDE DEF row
    <2> QED BY <1>4, <2>2, <2>3
  <1>7. ASSUME NEW ch \in Channel, HostChannelMessage(ch)
        PROVE  KeepsPresence
    BY <1>1, <1>7 DEF HostChannelMessage, Own
  <1>8. ASSUME NEW to \in Callsign, HostPrivateMessage(to)
        PROVE  KeepsPresence
    BY <1>1, <1>8 DEF HostPrivateMessage, Own
  <1>9. ASSUME NEW user \in Callsign, NEW seconds \in 0..ToUnix(MaxTime),
               NEW ch \in Channel, NEW text \in Text, HostTopic(user, seconds, ch, text)
        PROVE  KeepsPresence
    BY <1>1, <1>9 DEF HostTopic, PutTopic, Own
  <1>10. ASSUME NEW ch \in Channel, NEW options \in Toggles, HostMode(ch, options)
         PROVE  KeepsPresence
    BY <1>1, <1>10 DEF HostMode, Own
  <1>11. ASSUME HostPingOrLoop
         PROVE  KeepsPresence
    BY <1>1, <1>11 DEF HostPingOrLoop, Own
  <1>12. ASSUME NEW user \in Callsign, NEW ch \in Channel, HostInvite(user, ch)
         PROVE  KeepsPresence
    BY <1>12, InviteKeepsSessions DEF KeepsPresence, HostInvite, Own
  <1> QED BY <1>2, <1>3, <1>5, <1>6, <1>7, <1>8, <1>9, <1>10, <1>11, <1>12 DEF HostEvent

\* The one pattern by which a handler moves a local user: write the session,
\* show it in its row, tell the uplink its channel.  When no other session has
\* the callsign, session, row and upstream view agree afterwards.
LEMMA ShownSessionKeepsPresence ==
    ASSUME TypeOK, PresenceInv, NEW s \in Session, NEW x \in LocalSession,
           \A t \in Session : Live(t) /\ sessions[t].call = x.call => t = s,
           Live(s) => sessions[s].call = x.call,
           sessions' = [sessions EXCEPT ![s] = x], UpsertLocalUser(x),
           \A c \in Callsign : upstream'[c] = IF c = x.call THEN x.channel ELSE upstream[c]
    PROVE  PresenceInv'
  <1>1. x # None /\ x.call \in Callsign
    BY NoneIsFresh DEF LocalSession
  <1>2. sessions'[s] = x /\ \A t \in Session \ {s} : sessions'[t] = sessions[t]
    BY DEF TypeOK
  <1>3. ASSUME NEW t \in Session \ {s}, Live(t)
        PROVE  sessions[t].call \in Callsign \ {x.call}
    BY <1>3, LiveSession
  <1>4. CallsAreUnique'
    BY <1>1, <1>2, <1>3 DEF PresenceInv, CallsAreUnique, Live
  <1>5. LocalUsersAreListed'
    <2> SUFFICES ASSUME NEW t \in Session, Live(t)'
                 PROVE  /\ users'[<<sessions'[t].call, HostName>>] # None
                        /\ users'[<<sessions'[t].call, HostName>>].channel = sessions'[t].channel
                        /\ users'[<<sessions'[t].call, HostName>>].oper = sessions'[t].oper
      BY DEF LocalUsersAreListed, Own
    <2>1. CASE t = s
      BY <1>2, <2>1, UpsertOwn DEF Own
    <2>2. CASE t # s
      <3>1. Live(t) /\ sessions'[t] = sessions[t]
        BY <1>2, <2>2 DEF Live
      <3>2. users'[<<sessions[t].call, HostName>>] = users[<<sessions[t].call, HostName>>]
        BY <1>3, <2>2, <3>1, UpsertOwn DEF Own
      <3> QED BY <3>1, <3>2 DEF PresenceInv, LocalUsersAreListed, Own
    <2> QED BY <2>1, <2>2
  <1>6. NoLocalGhosts'
    <2> SUFFICES ASSUME NEW c \in Callsign, Own(c)' # None
                 PROVE  \E t \in Session : /\ Live(t)'
                                           /\ sessions'[t].call = c
                                           /\ sessions'[t].channel = Own(c)'.channel
      BY DEF NoLocalGhosts, SessionsOf, Own
    <2>1. CASE c = x.call
      BY <1>1, <1>2, <2>1, UpsertOwn DEF Live
    <2>2. CASE c # x.call
      <3>1. Own(c)' = Own(c)
        BY <2>2, UpsertOwn
      <3>2. PICK t \in Session : Live(t) /\ sessions[t].call = c /\ sessions[t].channel = Own(c).channel
        BY <3>1 DEF PresenceInv, NoLocalGhosts, SessionsOf, Own
      <3>3. t # s
        BY <2>2, <3>2
      <3> QED BY <1>2, <3>1, <3>2, <3>3 DEF Live
    <2> QED BY <2>1, <2>2
  <1>7. UpstreamMatchesTable'
    <2> SUFFICES ASSUME NEW c \in Callsign
                 PROVE  upstream'[c] = IF Own(c)' = None THEN None ELSE Own(c)'.channel
      BY DEF UpstreamMatchesTable, Own
    <2>1. CASE c = x.call
      BY <2>1, UpsertOwn
    <2>2. CASE c # x.call
      <3>1. Own(c)' = Own(c)
        BY <2>2, UpsertOwn
      <3> QED BY <2>2, <3>1 DEF PresenceInv, UpstreamMatchesTable, Own
    <2> QED BY <2>1, <2>2
  <1> QED BY <1>4, <1>5, <1>6, <1>7 DEF PresenceInv

\* Refreshing the operator flags of a callsign rewrites at most one session.
LEMMA RefreshKeepsPresence ==
    ASSUME TypeOK, PresenceInv, NEW call \in Callsign, RefreshSessionOpFlags(call),
           UNCHANGED upstream
    PROVE  PresenceInv'
  <1> DEFINE IsOp(s) == call \in globalOps' \/ call \in channelOps'[sessions[s].channel]
             changed == {s \in SessionsOf(call) : sessions[s].oper # IsOp(s)}
             new(s) == [sessions[s] EXCEPT !.oper = IsOp(s)]
  <1>1. sessions' = [s \in Session |-> IF s \in changed THEN new(s) ELSE sessions[s]]
    BY DEF RefreshSessionOpFlags
  <1>2. CASE changed = {}
    <2>1. UNCHANGED users
      BY <1>2 DEF RefreshSessionOpFlags
    <2>2. sessions' = sessions
      BY <1>1, <1>2 DEF TypeOK
    <2> QED BY <2>1, <2>2, KeepsPresenceInv DEF KeepsPresence, Live, Own
  <1>3. CASE changed # {}
    <2>1. PICK s \in changed : UpsertLocalUser(new(s))
      BY <1>3 DEF RefreshSessionOpFlags
    <2>2. s \in Session /\ Live(s) /\ sessions[s] \in LocalSession /\ sessions[s].call = call
      BY <2>1, LiveSession DEF SessionsOf
    <2>3. \A t \in Session : Live(t) /\ sessions[t].call = call => t = s
      BY <2>2 DEF PresenceInv, CallsAreUnique
    <2>4. changed = {s}
      BY <2>1, <2>3 DEF SessionsOf
    <2>5. /\ new(s) \in LocalSession
          /\ new(s).call = call
          /\ new(s).channel = sessions[s].channel
      <3>1. IsOp(s) \in BOOLEAN
        OBVIOUS
      <3> HIDE DEF IsOp
      <3> QED BY <2>2, <3>1 DEF LocalSession
    <2>6. sessions' = [sessions EXCEPT ![s] = new(s)]
      <3>1. sessions' = [t \in Session |-> IF t \in {s} THEN new(t) ELSE sessions[t]]
        BY <1>1, <2>4
      <3> HIDE DEF new
      <3> QED BY <2>2, <3>1 DEF TypeOK
    <2>7. \A c \in Callsign : upstream'[c] = IF c = call THEN sessions[s].channel ELSE upstream[c]
      BY <2>2 DEF PresenceInv, UpstreamMatchesTable, LocalUsersAreListed
    <2>8. PICK x \in LocalSession : x = new(s)
      BY <2>5
    <2>9. /\ \A t \in Session : Live(t) /\ sessions[t].call = x.call => t = s
          /\ sessions[s].call = x.call
          /\ sessions' = [sessions EXCEPT ![s] = x]
          /\ UpsertLocalUser(x)
          /\ \A c \in Callsign : upstream'[c] = IF c = x.call THEN x.channel ELSE upstream[c]
      <3> HIDE DEF new, changed
      <3> QED BY <2>1, <2>2, <2>3, <2>5, <2>6, <2>7, <2>8
    <2> QED BY <2>2, <2>9, ShownSessionKeepsPresence
  <1> QED BY <1>2, <1>3

\* A sign-off removes the session, its row and the uplink's view together.
LEMMA LeaveKeepsPresence ==
    ASSUME TypeOK, PresenceInv, NEW s \in Session, LocalLeave(s)
    PROVE  PresenceInv'
  <1>0. Live(s) /\ sessions[s].call \in Callsign /\ HostName \in Host
    BY LiveSession DEF LocalLeave, Host
  <1>1. PICK call \in Callsign : call = sessions[s].call
    BY <1>0
  <1>2. sessions'[s] = None /\ \A t \in Session \ {s} : sessions'[t] = sessions[t]
    BY DEF LocalLeave, TypeOK
  <1>3. /\ Own(call)' = None
        /\ \A c \in Callsign \ {call} : Own(c)' = Own(c)
    BY <1>0, <1>1 DEF LocalLeave, TypeOK, Own
  <1>4. /\ upstream'[call] = None
        /\ \A c \in Callsign \ {call} : upstream'[c] = upstream[c]
    BY <1>0, <1>1 DEF LocalLeave, TypeOK
  <1>5. ASSUME NEW t \in Session, Live(t)'
        PROVE  /\ t # s /\ Live(t) /\ sessions'[t] = sessions[t]
               /\ sessions[t].call \in Callsign \ {call}
    <2>1. t # s /\ Live(t) /\ sessions'[t] = sessions[t]
      BY <1>2, <1>5 DEF Live
    <2> QED BY <1>0, <1>1, <2>1, LiveSession DEF PresenceInv, CallsAreUnique
  <1>6. CallsAreUnique'
    BY <1>5 DEF PresenceInv, CallsAreUnique
  <1>7. LocalUsersAreListed'
    BY <1>3, <1>5 DEF PresenceInv, LocalUsersAreListed, Own
  <1>8. NoLocalGhosts'
    <2> SUFFICES ASSUME NEW c \in Callsign, Own(c)' # None
                 PROVE  \E t \in Session : /\ Live(t)'
                                           /\ sessions'[t].call = c
                                           /\ sessions'[t].channel = Own(c)'.channel
      BY DEF NoLocalGhosts, SessionsOf, Own
    <2>1. c # call /\ Own(c)' = Own(c)
      BY <1>3
    <2>2. PICK t \in Session : Live(t) /\ sessions[t].call = c /\ sessions[t].channel = Own(c).channel
      BY <2>1 DEF PresenceInv, NoLocalGhosts, SessionsOf, Own
    <2>3. t # s
      BY <1>1, <2>1, <2>2
    <2> QED BY <1>2, <2>1, <2>2, <2>3 DEF Live
  <1>9. UpstreamMatchesTable'
    <2> SUFFICES ASSUME NEW c \in Callsign
                 PROVE  upstream'[c] = IF Own(c)' = None THEN None ELSE Own(c)'.channel
      BY DEF UpstreamMatchesTable, Own
    <2>1. CASE c = call
      BY <1>3, <1>4, <2>1
    <2>2. CASE c # call
      BY <1>3, <1>4, <2>2 DEF PresenceInv, UpstreamMatchesTable, Own
    <2> QED BY <2>1, <2>2
  <1> QED BY <1>6, <1>7, <1>8, <1>9 DEF PresenceInv

\* An event of a local session keeps the invariant.
LEMMA LocalKeepsPresence ==
    ASSUME TypeOK, PresenceInv, OneSessionPerCall, LocalEvent
    PROVE  PresenceInv'
  <1> SUFFICES ASSUME NEW s \in Session, LocalEventOf(s)
               PROVE  PresenceInv'
    BY DEF LocalEvent
  <1>0. ASSUME UNCHANGED <<sessions, users, upstream>>
        PROVE  PresenceInv'
    BY <1>0, KeepsPresenceInv DEF KeepsPresence, Live, Own
  <1>1. ASSUME NEW call \in Callsign, NEW ch \in Channel, LocalJoin(s, call, ch)
        PROVE  PresenceInv'
    <2> DEFINE new == [call |-> call, channel |-> ch, personal |-> profiles[call],
                       away |-> FALSE, oper |-> IsGlobalOperator(call),
                       invited |-> invites[call]]
    <2>1. new \in LocalSession /\ new.call = call /\ new.channel = ch
      BY DEF TypeOK, LocalSession, IsGlobalOperator
    <2>2. sessions' = [sessions EXCEPT ![s] = new] /\ UpsertLocalUser(new)
      BY <1>1 DEF LocalJoin
    <2>3. \A t \in Session : Live(t) /\ sessions[t].call = call => t = s
      BY <1>1 DEF LocalJoin, SessionsOf
    <2>4. ~Live(s)
      BY <1>1 DEF LocalJoin
    <2>5. \A c \in Callsign : upstream'[c] = IF c = call THEN ch ELSE upstream[c]
      BY <1>1 DEF LocalJoin, TypeOK
    <2> HIDE DEF new
    <2> QED BY <2>1, <2>2, <2>3, <2>4, <2>5, ShownSessionKeepsPresence
  <1>2. ASSUME NEW ch \in Channel, LocalSwitchChannel(s, ch)
        PROVE  PresenceInv'
    <2> DEFINE call == sessions[s].call
               new == MovedTo(sessions[s], ch)
    <2>0. Live(s) /\ sessions[s] \in LocalSession /\ call \in Callsign
      BY <1>2, LiveSession DEF LocalSwitchChannel, MovedTo
    <2>1. new \in LocalSession /\ new.call = call /\ new.channel = ch
      BY <2>0 DEF MovedTo, LocalSession, IsGlobalOperator, IsChannelOperator
    <2>2. sessions' = [sessions EXCEPT ![s] = new] /\ UpsertLocalUser(new)
      BY <1>2 DEF LocalSwitchChannel
    <2>3. \A t \in Session : Live(t) /\ sessions[t].call = call => t = s
      BY <2>0 DEF PresenceInv, CallsAreUnique
    <2>5. \A c \in Callsign : upstream'[c] = IF c = call THEN ch ELSE upstream[c]
      BY <1>2, <2>0 DEF LocalSwitchChannel, MovedTo, TypeOK
    <2>6. PICK x \in LocalSession : x = new
      BY <2>1
    <2>7. /\ \A t \in Session : Live(t) /\ sessions[t].call = x.call => t = s
          /\ sessions[s].call = x.call
          /\ sessions' = [sessions EXCEPT ![s] = x]
          /\ UpsertLocalUser(x)
          /\ \A c \in Callsign : upstream'[c] = IF c = x.call THEN x.channel ELSE upstream[c]
      <3> HIDE DEF new
      <3> QED BY <2>0, <2>1, <2>2, <2>3, <2>5, <2>6
    <2> QED BY <2>0, <2>7, ShownSessionKeepsPresence
  <1>3. ASSUME NEW personal \in Text, LocalSetPersonal(s, personal)
        PROVE  PresenceInv'
    <2> DEFINE new == [sessions[s] EXCEPT !.personal = personal]
    <2>1. Live(s) /\ sessions[s] \in LocalSession
      BY <1>3, LiveSession DEF LocalSetPersonal
    <2>2. /\ new \in LocalSession
          /\ new.call = sessions[s].call
          /\ new.channel = sessions[s].channel
          /\ new.oper = sessions[s].oper
      BY <2>1 DEF LocalSession
    <2>3. sessions' = [sessions EXCEPT ![s] = new] /\ UpsertLocalUser(new) /\ UNCHANGED upstream
      BY <1>3 DEF LocalSetPersonal
    <2> HIDE DEF new
    <2> QED BY <2>1, <2>2, <2>3, RewriteKeepsPresence, KeepsPresenceInv
  <1>4. ASSUME NEW away \in BOOLEAN, LocalSetAway(s, away)
        PROVE  PresenceInv'
    <2> DEFINE new == [sessions[s] EXCEPT !.away = away]
    <2>1. Live(s) /\ sessions[s] \in LocalSession
      BY <1>4, LiveSession DEF LocalSetAway
    <2>2. /\ new \in LocalSession
          /\ new.call = sessions[s].call
          /\ new.channel = sessions[s].channel
          /\ new.oper = sessions[s].oper
      BY <2>1 DEF LocalSession
    <2>3. sessions' = [sessions EXCEPT ![s] = new] /\ UpsertLocalUser(new) /\ UNCHANGED upstream
      BY <1>4 DEF LocalSetAway
    <2> HIDE DEF new
    <2> QED BY <2>1, <2>2, <2>3, RewriteKeepsPresence, KeepsPresenceInv
  <1>5. ASSUME NEW to \in Callsign, NEW ch \in Channel, LocalInvite(s, to, ch)
        PROVE  PresenceInv'
    <2>1. RecordInvite(to, ch) /\ UNCHANGED <<users, upstream>>
      BY <1>5 DEF LocalInvite
    <2> QED BY <2>1, InviteKeepsSessions, KeepsPresenceInv DEF KeepsPresence, Own
  <1>6. ASSUME NEW ch \in Channel \cup {NoChannel}, NEW grant \in Grants,
               LocalSetOperator(s, ch, grant)
        PROVE  PresenceInv'
    <2>1. /\ sessions[s].call \in Callsign
          /\ RefreshSessionOpFlags(sessions[s].call)
          /\ UNCHANGED upstream
      BY <1>6, LiveSession DEF LocalSetOperator
    <2> QED BY <2>1, RefreshKeepsPresence
  <1>7. ASSUME LocalLeave(s)
        PROVE  PresenceInv'
    BY <1>7, LeaveKeepsPresence
  <1>8. ASSUME NEW call \in Callsign, NEW ch \in Channel, LocalJoinRefused(s, call, ch)
        PROVE  PresenceInv'
    BY <1>0, <1>8 DEF LocalJoinRefused
  <1>9. ASSUME NEW ch \in Channel, LocalSwitchRefused(s, ch)
        PROVE  PresenceInv'
    BY <1>0, <1>9 DEF LocalSwitchRefused
  <1>10. ASSUME LocalSay(s)
         PROVE  PresenceInv'
    BY <1>0, <1>10 DEF LocalSay
  <1>11. ASSUME NEW to \in Callsign, LocalPrivateMessage(s, to)
         PROVE  PresenceInv'
    BY <1>0, <1>11 DEF LocalPrivateMessage
  <1>12. ASSUME NEW text \in Text, LocalSetTopic(s, text)
         PROVE  PresenceInv'
    BY <1>0, <1>12 DEF LocalSetTopic, MaySetTopic
  <1>13. ASSUME NEW ch \in Channel, NEW options \in Toggles, LocalSetMode(s, ch, options)
         PROVE  PresenceInv'
    BY <1>0, <1>13 DEF LocalSetMode
  <1> QED BY <1>1, <1>2, <1>3, <1>4, <1>5, <1>6, <1>7, <1>8, <1>9, <1>10, <1>11,
             <1>12, <1>13 DEF LocalEventOf

-----------------------------------------------------------------------------
\* When no callsign attaches twice, sessions, rows and the uplink's view of
\* our users agree throughout.
THEOREM PresenceInvariant ==
    ASSUME OneSessionPerCall
    PROVE  Spec => []PresenceInv
  <1>1. Init => PresenceInv
    BY DEF Init, PresenceInv, CallsAreUnique, LocalUsersAreListed, NoLocalGhosts,
           UpstreamMatchesTable, Live, Host
  <1>2. TypeOK /\ PresenceInv /\ [Next]_vars => PresenceInv'
    <2> SUFFICES ASSUME TypeOK, PresenceInv, [Next]_vars
                 PROVE  PresenceInv'
      OBVIOUS
    <2>1. CASE LocalEvent
      BY <2>1, LocalKeepsPresence
    <2>2. CASE HostEvent
      <3>1. ASSUME NEW user \in Callsign, NEW ch \in Channel \cup {NoChannel},
                   NEW grant \in Grants, HostOper(user, ch, grant)
            PROVE  PresenceInv'
        BY <3>1, RefreshKeepsPresence DEF HostOper
      <3> QED BY <2>2, <3>1, HostKeepsPresence, KeepsPresenceInv
    <2>3. CASE Restart
      BY <2>3 DEF Restart, PresenceInv, CallsAreUnique, LocalUsersAreListed,
                  NoLocalGhosts, UpstreamMatchesTable, Live, Host
    <2>4. CASE Tick \/ UNCHANGED vars
      <3>1. UNCHANGED <<sessions, users, upstream>>
        BY <2>4 DEF Tick, vars
      <3> QED BY <3>1, KeepsPresenceInv DEF KeepsPresence, Live, Own
    <2> QED BY <2>1, <2>2, <2>3, <2>4 DEF Next
  <1> QED BY <1>1, <1>2, TypeCorrect, PTL DEF Spec

\* Every attached user is in the table, on the channel and with the flag of
\* the session.
THEOREM LocalUsersListed ==
    ASSUME OneSessionPerCall
    PROVE  Spec => []LocalUsersAreListed
  <1>1. PresenceInv => LocalUsersAreListed
    BY DEF PresenceInv
  <1> QED BY <1>1, PresenceInvariant, PTL

\* No row under our own host name outlives its session.
THEOREM GhostFree ==
    ASSUME OneSessionPerCall
    PROVE  Spec => []NoLocalGhosts
  <1>1. PresenceInv => NoLocalGhosts
    BY DEF PresenceInv
  <1> QED BY <1>1, PresenceInvariant, PTL

\* The stream of /..USER commands tells the parent exactly what our own table
\* says.
THEOREM UpstreamMatches ==
    ASSUME OneSessionPerCall
    PROVE  Spec => []UpstreamMatchesTable
  <1>1. PresenceInv => UpstreamMatchesTable
    BY DEF PresenceInv
  <1> QED BY <1>1, PresenceInvariant, PTL

-----------------------------------------------------------------------------
(* ConversHub implements LocalPresence.                                    *)

\* The rows under our own host name say what the uplink was told.
LEMMA OwnIsUpstream ==
    ASSUME TypeOK, PresenceInv
    PROVE  [c \in Callsign |-> OwnChannel(c)] = upstream
  BY DEF TypeOK, PresenceInv, UpstreamMatchesTable, OwnChannel

\* A fan-out whose uplink command is not a /..USER announces nothing.
LEMMA NothingAnnounced ==
    ASSUME NEW up, NEW local, Emit(up, local), up = None \/ up.verb # "USER"
    PROVE  Announced' = None
  BY DEF Emit, Announced

\* A fan-out with a /..USER announces it.
LEMMA UserAnnounced ==
    ASSUME NEW local, NEW c \in Callsign, NEW f \in Channel \cup {NoChannel},
           NEW t \in Channel \cup {NoChannel},
           Emit([verb |-> "USER", user |-> c, from |-> f, to |-> t], local)
    PROVE  Announced' = [verb |-> "USER", user |-> c, from |-> f, to |-> t]
  <1> DEFINE up == [verb |-> "USER", user |-> c, from |-> f, to |-> t]
  <1>1. up \in UplinkCommand
    BY DEF UplinkCommand
  <1>2. up # None /\ up.verb = "USER"
    BY <1>1, NoneIsFresh
  <1>3. out'.up = up
    BY DEF Emit
  <1> HIDE DEF up
  <1>4. Announced' = up
    BY <1>2, <1>3 DEF Announced
  <1> QED BY <1>4 DEF up

\* An event of the network announces none of our users.
LEMMA HostAnnouncesNothing ==
    ASSUME HostEvent
    PROVE  UNCHANGED upstream /\ Announced' = None
  <1> USE NothingAnnounced
  <1>1. ASSUME NEW user \in Callsign, NEW host \in Host, NEW ch \in Channel,
               NEW personal \in Text, HostUser(user, host, ch, personal)
        PROVE  UNCHANGED upstream /\ Announced' = None
    BY <1>1 DEF HostUser, PutUser
  <1>2. ASSUME NEW user \in Callsign, NEW host \in Host, HostUserSignOff(user, host)
        PROVE  UNCHANGED upstream /\ Announced' = None
    BY <1>2 DEF HostUserSignOff, RemoveUser
  <1>3. ASSUME NEW user \in Callsign, NEW host \in Host, NEW personal \in Text,
               HostPersonal(user, host, personal)
        PROVE  UNCHANGED upstream /\ Announced' = None
    BY <1>3 DEF HostPersonal
  <1>4. ASSUME NEW user \in Callsign, NEW host \in Host, NEW away \in BOOLEAN,
               HostAway(user, host, away)
        PROVE  UNCHANGED upstream /\ Announced' = None
    BY <1>4 DEF HostAway
  <1>5. ASSUME NEW ch \in Channel, HostChannelMessage(ch)
        PROVE  UNCHANGED upstream /\ Announced' = None
    BY <1>5 DEF HostChannelMessage
  <1>6. ASSUME NEW to \in Callsign, HostPrivateMessage(to)
        PROVE  UNCHANGED upstream /\ Announced' = None
    BY <1>6 DEF HostPrivateMessage
  <1>7. ASSUME NEW user \in Callsign, NEW seconds \in 0..ToUnix(MaxTime),
               NEW ch \in Channel, NEW text \in Text, HostTopic(user, seconds, ch, text)
        PROVE  UNCHANGED upstream /\ Announced' = None
    BY <1>7 DEF HostTopic, PutTopic
  <1>8. ASSUME NEW user \in Callsign, NEW ch \in Channel, HostInvite(user, ch)
        PROVE  UNCHANGED upstream /\ Announced' = None
    BY <1>8 DEF HostInvite
  <1>9. ASSUME NEW ch \in Channel, NEW options \in Toggles, HostMode(ch, options)
        PROVE  UNCHANGED upstream /\ Announced' = None
    BY <1>9 DEF HostMode
  <1>10. ASSUME NEW user \in Callsign, NEW ch \in Channel \cup {NoChannel},
                NEW grant \in Grants, HostOper(user, ch, grant)
         PROVE  UNCHANGED upstream /\ Announced' = None
    BY <1>10 DEF HostOper
  <1>11. ASSUME HostPingOrLoop
         PROVE  UNCHANGED upstream /\ Announced' = None
    <2>1. PICK verb \in {"PONG", "DROP"} : Emit([verb |-> verb], {})
      BY <1>11 DEF HostPingOrLoop
    <2> QED BY <1>11, <2>1 DEF HostPingOrLoop
  <1> QED BY <1>1, <1>2, <1>3, <1>4, <1>5, <1>6, <1>7, <1>8, <1>9, <1>10, <1>11 DEF HostEvent

\* An event of a local session announces exactly the channel change it makes.
LEMMA LocalAnnounces ==
    ASSUME TypeOK, PresenceInv, OneSessionPerCall, LocalEvent
    PROVE  \/ UNCHANGED upstream /\ Announced' = None
           \/ \E c \in Callsign, to \in Channel \cup {None} :
                /\ upstream[c] # to
                /\ upstream' = [upstream EXCEPT ![c] = to]
                /\ Announced' = [verb |-> "USER", user |-> c,
                                 from |-> IF upstream[c] = None THEN NoChannel ELSE upstream[c],
                                 to |-> IF to = None THEN NoChannel ELSE to]
  <1> DEFINE Moved(c, to) ==
                /\ upstream[c] # to
                /\ upstream' = [upstream EXCEPT ![c] = to]
                /\ Announced' = [verb |-> "USER", user |-> c,
                                 from |-> IF upstream[c] = None THEN NoChannel ELSE upstream[c],
                                 to |-> IF to = None THEN NoChannel ELSE to]
             Silent == UNCHANGED upstream /\ Announced' = None
  <1> SUFFICES ASSUME NEW s \in Session, LocalEventOf(s)
               PROVE  Silent \/ \E c \in Callsign, to \in Channel \cup {None} : Moved(c, to)
    BY DEF LocalEvent
  <1>0. ASSUME NEW c \in Callsign
        PROVE  upstream[c] = IF Own(c) = None THEN None ELSE Own(c).channel
    BY DEF PresenceInv, UpstreamMatchesTable, Own
  <1>1. ASSUME NEW call \in Callsign, NEW ch \in Channel, LocalJoin(s, call, ch)
        PROVE  Moved(call, ch)
    <2>1. upstream[call] = None
      <3>1. SessionsOf(call) = {}
        BY <1>1 DEF LocalJoin
      <3> QED BY <1>0, <3>1 DEF PresenceInv, NoLocalGhosts, Own
    <2>2. Announced' = [verb |-> "USER", user |-> call, from |-> NoChannel, to |-> ch]
      BY <1>1, UserAnnounced DEF LocalJoin
    <2>3. upstream' = [upstream EXCEPT ![call] = ch]
      BY <1>1 DEF LocalJoin
    <2> QED BY <2>1, <2>2, <2>3, NoneIsFresh
  <1>2. ASSUME Live(s)
        PROVE  /\ sessions[s].call \in Callsign
               /\ sessions[s].channel \in Channel
               /\ upstream[sessions[s].call] = sessions[s].channel
    <2>1. sessions[s].call \in Callsign /\ sessions[s].channel \in Channel
      BY <1>2, LiveSession
    <2> QED BY <1>0, <1>2, <2>1 DEF PresenceInv, LocalUsersAreListed, Own
  <1>3. ASSUME NEW ch \in Channel, LocalSwitchChannel(s, ch)
        PROVE  Moved(sessions[s].call, ch) /\ sessions[s].call \in Callsign
    <2>1. Live(s) /\ sessions[s].channel # ch
      BY <1>3 DEF LocalSwitchChannel
    <2>2. Announced' = [verb |-> "USER", user |-> sessions[s].call,
                        from |-> sessions[s].channel, to |-> ch]
      BY <1>2, <1>3, <2>1, UserAnnounced DEF LocalSwitchChannel
    <2>3. upstream' = [upstream EXCEPT ![sessions[s].call] = ch]
      BY <1>3 DEF LocalSwitchChannel
    <2> QED BY <1>2, <2>1, <2>2, <2>3, NoneIsFresh
  <1>4. ASSUME LocalLeave(s)
        PROVE  Moved(sessions[s].call, None) /\ sessions[s].call \in Callsign
    <2>1. Live(s)
      BY <1>4 DEF LocalLeave
    <2>2. Announced' = [verb |-> "USER", user |-> sessions[s].call,
                        from |-> sessions[s].channel, to |-> NoChannel]
      BY <1>2, <1>4, <2>1, UserAnnounced DEF LocalLeave
    <2>3. upstream' = [upstream EXCEPT ![sessions[s].call] = None]
      BY <1>4 DEF LocalLeave
    <2> QED BY <1>2, <2>1, <2>2, <2>3, NoneIsFresh
  <1>5. ASSUME NEW call \in Callsign, NEW ch \in Channel, LocalJoinRefused(s, call, ch)
        PROVE  Silent
    BY <1>5, NothingAnnounced DEF LocalJoinRefused
  <1>6. ASSUME NEW ch \in Channel, LocalSwitchRefused(s, ch)
        PROVE  Silent
    BY <1>6, NothingAnnounced DEF LocalSwitchRefused
  <1>7. ASSUME LocalSay(s)
        PROVE  Silent
    <2>1. PICK up, local : Emit(up, local) /\ (up = None \/ up.verb # "USER")
      BY <1>7 DEF LocalSay
    <2> QED BY <1>7, <2>1, NothingAnnounced DEF LocalSay
  <1>8. ASSUME NEW to \in Callsign, LocalPrivateMessage(s, to)
        PROVE  Silent
    <2>1. PICK up, local : Emit(up, local) /\ up.verb = "UMSG"
      BY <1>8 DEF LocalPrivateMessage
    <2> QED BY <1>8, <2>1, NothingAnnounced DEF LocalPrivateMessage
  <1>9. ASSUME NEW personal \in Text, LocalSetPersonal(s, personal)
        PROVE  Silent
    BY <1>9, NothingAnnounced DEF LocalSetPersonal
  <1>10. ASSUME NEW away \in BOOLEAN, LocalSetAway(s, away)
         PROVE  Silent
    BY <1>10, NothingAnnounced DEF LocalSetAway
  <1>11. ASSUME NEW text \in Text, LocalSetTopic(s, text)
         PROVE  Silent
    <2>1. PICK up, local : Emit(up, local) /\ (up = None \/ up.verb # "USER")
      BY <1>11 DEF LocalSetTopic
    <2> QED BY <1>11, <2>1, NothingAnnounced DEF LocalSetTopic
  <1>12. ASSUME NEW to \in Callsign, NEW ch \in Channel, LocalInvite(s, to, ch)
         PROVE  Silent
    BY <1>12, NothingAnnounced DEF LocalInvite
  <1>13. ASSUME NEW ch \in Channel, NEW options \in Toggles, LocalSetMode(s, ch, options)
         PROVE  Silent
    <2>1. PICK up, local : Emit(up, local) /\ (up = None \/ up.verb # "USER")
      BY <1>13 DEF LocalSetMode
    <2> QED BY <1>13, <2>1, NothingAnnounced DEF LocalSetMode
  <1>14. ASSUME NEW ch \in Channel \cup {NoChannel}, NEW grant \in Grants,
                LocalSetOperator(s, ch, grant)
         PROVE  Silent
    BY <1>14, NothingAnnounced DEF LocalSetOperator
  <1> HIDE DEF Moved, Silent
  <1> QED BY <1>1, <1>3, <1>4, <1>5, <1>6, <1>7, <1>8, <1>9, <1>10, <1>11, <1>12,
             <1>13, <1>14 DEF LocalEventOf

\* When no callsign attaches twice the hub implements LocalPresence: each step
\* is a move announced by one /..USER, a quiet step, a reset or a stutter.
THEOREM HubImplementsLocalPresence ==
    ASSUME OneSessionPerCall
    PROVE  Spec => ImplementsLocalPresence
  <1>1. Init => Presence!Init
    BY DEF Init, Presence!Init, OwnChannel, Announced, Host
  <1>2. TypeOK /\ PresenceInv /\ [Next]_vars /\ TypeOK' /\ PresenceInv'
          => [Presence!Next]_(Presence!vars)
    <2> SUFFICES ASSUME TypeOK, PresenceInv, [Next]_vars, TypeOK', PresenceInv'
                 PROVE  [Presence!Next]_(Presence!vars)
      OBVIOUS
    <2> DEFINE O == [c \in Callsign |-> OwnChannel(c)]
    <2>0. O = upstream /\ O' = upstream'
      <3>1. O = upstream
        BY OwnIsUpstream
      <3>2. O' = upstream'
        BY DEF TypeOK, PresenceInv, UpstreamMatchesTable, OwnChannel
      <3> QED BY <3>1, <3>2
    <2>1. ASSUME UNCHANGED upstream, Announced' = None
          PROVE  Presence!Next
      BY <2>0, <2>1 DEF Presence!Next, Presence!Quiet
    <2>2. CASE LocalEvent
      <3>1. ASSUME NEW c \in Callsign, NEW to \in Channel \cup {None},
                   upstream[c] # to,
                   upstream' = [upstream EXCEPT ![c] = to],
                   Announced' = [verb |-> "USER", user |-> c,
                                 from |-> IF upstream[c] = None THEN NoChannel ELSE upstream[c],
                                 to |-> IF to = None THEN NoChannel ELSE to]
            PROVE  Presence!Next
        <4>1. Presence!Move(c, to)
          BY <2>0, <3>1 DEF Presence!Move, Presence!Announcement, Presence!Wire,
                            Presence!NoChannel, NoChannel
        <4> QED BY <4>1 DEF Presence!Next
      <3> QED BY <2>1, <2>2, <3>1, LocalAnnounces
    <2>3. CASE HostEvent
      BY <2>1, <2>3, HostAnnouncesNothing
    <2>4. CASE Restart
      <3>1. Announced' = None /\ upstream' = [c \in Callsign |-> None]
        BY <2>4 DEF Restart, Announced
      <3> QED BY <2>0, <3>1 DEF Presence!Next, Presence!Reset
    <2>5. CASE Tick \/ UNCHANGED vars
      <3>1. UNCHANGED <<upstream, out>>
        BY <2>5 DEF Tick, vars
      <3> QED BY <2>0, <3>1 DEF Presence!vars, Announced
    <2> QED BY <2>2, <2>3, <2>4, <2>5 DEF Next
  <1> QED BY <1>1, <1>2, TypeCorrect, PresenceInvariant, PTL
          DEF Spec, ImplementsLocalPresence, Presence!Spec

-----------------------------------------------------------------------------
(* Personal texts.                                                         *)

\* A step after which every session is one that was there, with its callsign
\* and its text.
KeepsTexts ==
    /\ UNCHANGED profiles
    /\ \A t \in Session : Live(t)' => /\ Live(t)
                                      /\ sessions'[t].call = sessions[t].call
                                      /\ sessions'[t].personal = sessions[t].personal

\* Rewriting other fields of a session keeps its text.
LEMMA RewriteKeepsTexts ==
    ASSUME TypeOK, NEW s \in Session, Live(s), NEW x \in LocalSession,
           x.call = sessions[s].call, x.personal = sessions[s].personal,
           sessions' = [sessions EXCEPT ![s] = x], UNCHANGED profiles
    PROVE  KeepsTexts
  <1>1. sessions'[s] = x /\ \A t \in Session \ {s} : sessions'[t] = sessions[t]
    BY DEF TypeOK
  <1> QED BY <1>1 DEF KeepsTexts, Live

\* Invitations and operator flags are other fields.
LEMMA RefreshKeepsTexts ==
    ASSUME TypeOK, NEW call \in Callsign,
           RefreshSessionOpFlags(call) \/ \E ch \in Channel : RecordInvite(call, ch),
           UNCHANGED profiles
    PROVE  KeepsTexts
  <1> SUFFICES ASSUME NEW t \in Session, Live(t)'
               PROVE  /\ Live(t)
                      /\ sessions'[t].call = sessions[t].call
                      /\ sessions'[t].personal = sessions[t].personal
    BY DEF KeepsTexts
  <1>1. Live(t) => sessions[t] \in LocalSession
    BY LiveSession
  <1>2. \/ sessions'[t] = sessions[t]
        \/ /\ Live(t)
           /\ \/ \E b : sessions'[t] = [sessions[t] EXCEPT !.oper = b]
              \/ \E b : sessions'[t] = [sessions[t] EXCEPT !.invited = b]
    BY DEF RefreshSessionOpFlags, RecordInvite, SessionsOf
  <1> QED BY <1>1, <1>2 DEF Live, LocalSession

\* A local event brings in the stored text, or stores the one it sets.
LEMMA LocalKeepsTexts ==
    ASSUME TypeOK, PresenceInv, PersonalTextsAreWrittenThrough, OneSessionPerCall,
           NEW s \in Session, LocalEventOf(s)
    PROVE  KeepsTexts \/ PersonalTextsAreWrittenThrough'
  <1>0. ASSUME UNCHANGED <<sessions, profiles>>
        PROVE  KeepsTexts
    BY <1>0 DEF KeepsTexts, Live
  <1>1. ASSUME NEW call \in Callsign, NEW ch \in Channel, LocalJoin(s, call, ch)
        PROVE  PersonalTextsAreWrittenThrough'
    <2> DEFINE new == [call |-> call, channel |-> ch, personal |-> profiles[call],
                       away |-> FALSE, oper |-> IsGlobalOperator(call),
                       invited |-> invites[call]]
    <2>1. sessions' = [sessions EXCEPT ![s] = new] /\ UNCHANGED profiles
      BY <1>1 DEF LocalJoin, store
    <2>2. new.call = call /\ new.personal = profiles[call]
      OBVIOUS
    <2> HIDE DEF new
    <2>3. sessions'[s] = new /\ \A t \in Session \ {s} : sessions'[t] = sessions[t]
      BY <2>1 DEF TypeOK
    <2> QED BY <2>1, <2>2, <2>3 DEF PersonalTextsAreWrittenThrough, Live
  <1>2. ASSUME NEW ch \in Channel, LocalSwitchChannel(s, ch)
        PROVE  KeepsTexts
    <2> DEFINE new == MovedTo(sessions[s], ch)
    <2>1. Live(s) /\ sessions[s] \in LocalSession
      BY <1>2, LiveSession DEF LocalSwitchChannel
    <2>2. /\ new \in LocalSession
          /\ new.call = sessions[s].call /\ new.personal = sessions[s].personal
      BY <2>1 DEF MovedTo, LocalSession, IsGlobalOperator, IsChannelOperator
    <2>3. sessions' = [sessions EXCEPT ![s] = new] /\ UNCHANGED profiles
      BY <1>2 DEF LocalSwitchChannel, store
    <2> HIDE DEF new
    <2> QED BY <2>1, <2>2, <2>3, RewriteKeepsTexts
  <1>3. ASSUME NEW personal \in Text, LocalSetPersonal(s, personal)
        PROVE  PersonalTextsAreWrittenThrough'
    <2> DEFINE new == [sessions[s] EXCEPT !.personal = personal]
    <2>1. Live(s) /\ sessions[s] \in LocalSession /\ sessions[s].call \in Callsign
      BY <1>3, LiveSession DEF LocalSetPersonal
    <2>2. new.call = sessions[s].call /\ new.personal = personal
      BY <2>1 DEF LocalSession
    <2>3. /\ sessions' = [sessions EXCEPT ![s] = new]
          /\ profiles' = [profiles EXCEPT ![sessions[s].call] = personal]
      BY <1>3, <2>2 DEF LocalSetPersonal
    <2> HIDE DEF new
    <2>4. sessions'[s] = new /\ \A t \in Session \ {s} : sessions'[t] = sessions[t]
      BY <2>3 DEF TypeOK
    <2>5. ASSUME NEW t \in Session, Live(t)'
          PROVE  sessions'[t].personal = profiles'[sessions'[t].call]
      <3>1. CASE t = s
        BY <2>1, <2>2, <2>3, <2>4, <3>1 DEF TypeOK
      <3>2. CASE t # s
        <4>1. Live(t) /\ sessions'[t] = sessions[t] /\ sessions[t].call \in Callsign
          BY <2>4, <2>5, <3>2, LiveSession DEF Live
        <4>2. sessions[t].call # sessions[s].call
          BY <2>1, <3>2, <4>1 DEF PresenceInv, CallsAreUnique
        <4> QED BY <2>1, <2>3, <4>1, <4>2 DEF TypeOK, PersonalTextsAreWrittenThrough
      <3> QED BY <3>1, <3>2
    <2> QED BY <2>5 DEF PersonalTextsAreWrittenThrough
  <1>4. ASSUME NEW away \in BOOLEAN, LocalSetAway(s, away)
        PROVE  KeepsTexts
    <2> DEFINE new == [sessions[s] EXCEPT !.away = away]
    <2>1. Live(s) /\ sessions[s] \in LocalSession
      BY <1>4, LiveSession DEF LocalSetAway
    <2>2. /\ new \in LocalSession
          /\ new.call = sessions[s].call /\ new.personal = sessions[s].personal
      BY <2>1 DEF LocalSession
    <2>3. sessions' = [sessions EXCEPT ![s] = new] /\ UNCHANGED profiles
      BY <1>4 DEF LocalSetAway, store
    <2> HIDE DEF new
    <2> QED BY <2>1, <2>2, <2>3, RewriteKeepsTexts
  <1>5. ASSUME NEW to \in Callsign, NEW ch \in Channel, LocalInvite(s, to, ch)
        PROVE  KeepsTexts
    BY <1>5, RefreshKeepsTexts DEF LocalInvite, store
  <1>6. ASSUME NEW ch \in Channel \cup {NoChannel}, NEW grant \in Grants,
               LocalSetOperator(s, ch, grant)
        PROVE  KeepsTexts
    <2>1. sessions[s].call \in Callsign
      BY <1>6, LiveSession DEF LocalSetOperator
    <2> QED BY <1>6, <2>1, RefreshKeepsTexts DEF LocalSetOperator, store
  <1>7. ASSUME LocalLeave(s)
        PROVE  KeepsTexts
    BY <1>7 DEF LocalLeave, KeepsTexts, TypeOK, Live, store
  <1>8. ASSUME NEW call \in Callsign, NEW ch \in Channel, LocalJoinRefused(s, call, ch)
        PROVE  KeepsTexts
    BY <1>0, <1>8 DEF LocalJoinRefused, store
  <1>9. ASSUME NEW ch \in Channel, LocalSwitchRefused(s, ch)
        PROVE  KeepsTexts
    BY <1>0, <1>9 DEF LocalSwitchRefused, store
  <1>10. ASSUME LocalSay(s) \/ \E to \in Callsign : LocalPrivateMessage(s, to)
         PROVE  KeepsTexts
    BY <1>0, <1>10 DEF LocalSay, LocalPrivateMessage, store
  <1>11. ASSUME NEW text \in Text, LocalSetTopic(s, text)
         PROVE  KeepsTexts
    BY <1>0, <1>11 DEF LocalSetTopic
  <1>12. ASSUME NEW ch \in Channel, NEW options \in Toggles, LocalSetMode(s, ch, options)
         PROVE  KeepsTexts
    BY <1>0, <1>12 DEF LocalSetMode, store
  <1> QED BY <1>1, <1>2, <1>3, <1>4, <1>5, <1>6, <1>7, <1>8, <1>9, <1>10, <1>11, <1>12
          DEF LocalEventOf

\* When no callsign attaches twice, the personal text a user has is the one the
\* store will bring back (LocalJoin, LocalSetPersonal).
THEOREM TextsAreStored ==
    ASSUME OneSessionPerCall
    PROVE  Spec => []PersonalTextsAreWrittenThrough
  <1>1. Init => PersonalTextsAreWrittenThrough
    BY DEF Init, PersonalTextsAreWrittenThrough, Live
  <1>2. TypeOK /\ PresenceInv /\ PersonalTextsAreWrittenThrough /\ [Next]_vars
          => PersonalTextsAreWrittenThrough'
    <2> SUFFICES ASSUME TypeOK, PresenceInv, PersonalTextsAreWrittenThrough, [Next]_vars
                 PROVE  PersonalTextsAreWrittenThrough'
      OBVIOUS
    <2>1. ASSUME KeepsTexts PROVE PersonalTextsAreWrittenThrough'
      BY <2>1 DEF KeepsTexts, PersonalTextsAreWrittenThrough
    <2>2. ASSUME UNCHANGED <<sessions, profiles>> PROVE PersonalTextsAreWrittenThrough'
      BY <2>2 DEF PersonalTextsAreWrittenThrough, Live
    <2>3. CASE LocalEvent
      BY <2>1, <2>3, LocalKeepsTexts DEF LocalEvent
    <2>4. CASE HostEvent
      <3>1. ASSUME NEW user \in Callsign, NEW host \in Host, NEW ch \in Channel,
                   NEW personal \in Text, HostUser(user, host, ch, personal)
            PROVE  UNCHANGED <<sessions, profiles>>
        BY <3>1 DEF HostUser, PutUser, store
      <3>2. ASSUME NEW user \in Callsign, NEW host \in Host, HostUserSignOff(user, host)
            PROVE  UNCHANGED <<sessions, profiles>>
        BY <3>2 DEF HostUserSignOff, RemoveUser, store
      <3>3. ASSUME NEW user \in Callsign, NEW host \in Host, NEW personal \in Text,
                   HostPersonal(user, host, personal)
            PROVE  UNCHANGED <<sessions, profiles>>
        BY <3>3 DEF HostPersonal, store
      <3>4. ASSUME NEW user \in Callsign, NEW host \in Host, NEW away \in BOOLEAN,
                   HostAway(user, host, away)
            PROVE  UNCHANGED <<sessions, profiles>>
        BY <3>4 DEF HostAway, store
      <3>5. ASSUME NEW ch \in Channel, HostChannelMessage(ch)
            PROVE  UNCHANGED <<sessions, profiles>>
        BY <3>5 DEF HostChannelMessage, store
      <3>6. ASSUME NEW to \in Callsign, HostPrivateMessage(to)
            PROVE  UNCHANGED <<sessions, profiles>>
        BY <3>6 DEF HostPrivateMessage, store
      <3>7. ASSUME NEW user \in Callsign, NEW seconds \in 0..ToUnix(MaxTime),
                   NEW ch \in Channel, NEW text \in Text, HostTopic(user, seconds, ch, text)
            PROVE  UNCHANGED <<sessions, profiles>>
        BY <3>7 DEF HostTopic, PutTopic
      <3>8. ASSUME NEW user \in Callsign, NEW ch \in Channel, HostInvite(user, ch)
            PROVE  KeepsTexts
        BY <3>8, RefreshKeepsTexts DEF HostInvite, store
      <3>9. ASSUME NEW ch \in Channel, NEW options \in Toggles, HostMode(ch, options)
            PROVE  UNCHANGED <<sessions, profiles>>
        BY <3>9 DEF HostMode, store
      <3>10. ASSUME NEW user \in Callsign, NEW ch \in Channel \cup {NoChannel},
                    NEW grant \in Grants, HostOper(user, ch, grant)
             PROVE  KeepsTexts
        BY <3>10, RefreshKeepsTexts DEF HostOper, store
      <3>11. ASSUME HostPingOrLoop
             PROVE  UNCHANGED <<sessions, profiles>>
        BY <3>11 DEF HostPingOrLoop, store
      <3> QED BY <2>1, <2>2, <2>4, <3>1, <3>2, <3>3, <3>4, <3>5, <3>6, <3>7, <3>8, <3>9,
                 <3>10, <3>11 DEF HostEvent
    <2>5. CASE Restart
      BY <2>5 DEF Restart, PersonalTextsAreWrittenThrough, Live
    <2>6. CASE Tick \/ UNCHANGED vars
      BY <2>2, <2>6 DEF Tick, vars, store
    <2> QED BY <2>3, <2>4, <2>5, <2>6 DEF Next
  <1> QED BY <1>1, <1>2, TypeCorrect, PresenceInvariant, PTL DEF Spec

-----------------------------------------------------------------------------
(* Notices of membership.                                                  *)

\* NamesOn, of the user table given.
NamesIn(table, ch) == {c \in Callsign : \E h \in Host :
                         table[<<c, h>>] # None /\ table[<<c, h>>].channel = ch}

\* What AnnouncesMembership asks for on channel ch, of a listener s.
ToldOf(s, ch) ==
    /\ NamesIn(users', ch) \ NamesIn(users, ch) # {} => Delivered("join", s)
    /\ NamesIn(users, ch) \ NamesIn(users', ch) # {} => Delivered("leave", s)

\* The row of c@h becomes row, and no other one changes.
RowBecomes(c, h, row) == users' = [users EXCEPT ![<<c, h>>] = row]

\* A name appears on, or disappears from, channel ch only if a row that was old
\* and becomes row says so.
MovesAs(old, row, ch) ==
    /\ NamesIn(users', ch) \ NamesIn(users, ch) # {} =>
         row # None /\ row.channel = ch /\ (old # None => old.channel # ch)
    /\ NamesIn(users, ch) \ NamesIn(users', ch) # {} =>
         old # None /\ old.channel = ch /\ (row # None => row.channel # ch)

\* When one row changes, a name can only appear on the channel of the new row
\* and disappear from that of the old one.
LEMMA OneRowChanges ==
    ASSUME TypeOK, NEW c \in Callsign, NEW h \in Host, NEW row, RowBecomes(c, h, row), NEW ch
    PROVE  MovesAs(users[<<c, h>>], row, ch)
  <1>1. users'[<<c, h>>] = row
    BY DEF TypeOK, RowBecomes
  <1>2. \A d \in Callsign, g \in Host : <<d, g>> # <<c, h>> => users'[<<d, g>>] = users[<<d, g>>]
    BY DEF TypeOK, RowBecomes
  <1>3. ASSUME NEW d \in NamesIn(users', ch), d \notin NamesIn(users, ch)
        PROVE  /\ row # None /\ row.channel = ch
               /\ users[<<c, h>>] # None => users[<<c, h>>].channel # ch
    <2>1. PICK g \in Host : users'[<<d, g>>] # None /\ users'[<<d, g>>].channel = ch
      BY <1>3 DEF NamesIn
    <2>2. d \in Callsign
      BY <1>3 DEF NamesIn
    <2>3. <<d, g>> = <<c, h>>
      BY <1>2, <1>3, <2>1, <2>2 DEF NamesIn
    <2> QED BY <1>1, <1>3, <2>1, <2>2, <2>3 DEF NamesIn
  <1>4. ASSUME NEW d \in NamesIn(users, ch), d \notin NamesIn(users', ch)
        PROVE  /\ users[<<c, h>>] # None /\ users[<<c, h>>].channel = ch
               /\ row # None => row.channel # ch
    <2>1. PICK g \in Host : users[<<d, g>>] # None /\ users[<<d, g>>].channel = ch
      BY <1>4 DEF NamesIn
    <2>2. d \in Callsign
      BY <1>4 DEF NamesIn
    <2>3. <<d, g>> = <<c, h>>
      BY <1>2, <1>4, <2>1, <2>2 DEF NamesIn
    <2> QED BY <1>1, <1>4, <2>1, <2>2, <2>3 DEF NamesIn
  <1> QED BY <1>3, <1>4 DEF MovesAs

\* It is enough to look at the listeners of one channel at a time.
LEMMA Listeners ==
    ASSUME \A s \in Session : \A here :
             /\ Live(s) /\ sessions[s].channel = here
             /\ Live(s)' /\ sessions'[s].channel = here
             => ToldOf(s, here)
    PROVE  AnnouncesMembership
  <1> SUFFICES ASSUME NEW s \in Session, Live(s), Live(s)',
                      sessions'[s].channel = sessions[s].channel
               PROVE  LET ch == sessions[s].channel IN
                        /\ NamesOn(ch)' \ NamesOn(ch) # {} => Delivered("join", s)
                        /\ NamesOn(ch) \ NamesOn(ch)' # {} => Delivered("leave", s)
    BY DEF AnnouncesMembership
  <1>1. PICK here : here = sessions[s].channel
    OBVIOUS
  <1>2. ToldOf(s, here)
    BY <1>1
  <1> QED BY <1>1, <1>2 DEF ToldOf, NamesIn, NamesOn

\* A step that shows the users it shows on the same channels owes no notice.
LEMMA NobodyMoved ==
    ASSUME TypeOK, NEW c \in Callsign, NEW h \in Host, NEW row,
           RowBecomes(c, h, row),
           users[<<c, h>>] # None, row # None, row.channel = users[<<c, h>>].channel
    PROVE  AnnouncesMembership
  <1>1. ASSUME NEW s \in Session, NEW here PROVE ToldOf(s, here)
    <2>1. MovesAs(users[<<c, h>>], row, here)
      BY OneRowChanges
    <2> QED BY <2>1 DEF MovesAs, ToldOf
  <1> QED BY <1>1, Listeners

\* Neither does one that leaves the table alone.
LEMMA NobodyShown ==
    ASSUME UNCHANGED users
    PROVE  AnnouncesMembership
  BY DEF AnnouncesMembership, NamesOn

\* Showing an attached session anew on its channel owes no notice.
LEMMA ShownAgain ==
    ASSUME TypeOK, PresenceInv, NEW s \in Session, Live(s), NEW x \in LocalSession,
           x.call = sessions[s].call, x.channel = sessions[s].channel, UpsertLocalUser(x)
    PROVE  AnnouncesMembership
  <1> DEFINE c == x.call
             row == UserRow(x)
  <1>1. c \in Callsign /\ HostName \in Host
    BY DEF LocalSession, Host
  <1>2. row \in NetworkUser /\ row.channel = x.channel
    BY DEF UserRow, NetworkUser, LocalSession
  <1>3. users[<<c, HostName>>] # None /\ users[<<c, HostName>>].channel = x.channel
    BY DEF PresenceInv, LocalUsersAreListed
  <1>4. RowBecomes(c, HostName, row)
    BY DEF UpsertLocalUser, RowBecomes
  <1> HIDE DEF row, c
  <1> QED BY <1>1, <1>2, <1>3, <1>4, NobodyMoved, NoneIsFresh

\* Nor does a refresh of operator flags.
LEMMA RefreshTellsNobody ==
    ASSUME TypeOK, PresenceInv, NEW call \in Callsign, RefreshSessionOpFlags(call)
    PROVE  AnnouncesMembership
  <1> DEFINE IsOp(s) == call \in globalOps' \/ call \in channelOps'[sessions[s].channel]
             changed == {s \in SessionsOf(call) : sessions[s].oper # IsOp(s)}
             new(s) == [sessions[s] EXCEPT !.oper = IsOp(s)]
  <1>1. CASE changed = {}
    BY <1>1, NobodyShown DEF RefreshSessionOpFlags
  <1>2. CASE changed # {}
    <2>1. PICK s \in changed : UpsertLocalUser(new(s))
      BY <1>2 DEF RefreshSessionOpFlags
    <2>2. s \in Session /\ Live(s) /\ sessions[s] \in LocalSession
      BY <2>1, LiveSession DEF SessionsOf
    <2>3. /\ new(s) \in LocalSession
          /\ new(s).call = sessions[s].call
          /\ new(s).channel = sessions[s].channel
      <3>1. IsOp(s) \in BOOLEAN
        OBVIOUS
      <3> HIDE DEF IsOp
      <3> QED BY <2>2, <3>1 DEF LocalSession
    <2>4. PICK x \in LocalSession : x = new(s)
      BY <2>3
    <2>5. UpsertLocalUser(x) /\ x.call = sessions[s].call /\ x.channel = sessions[s].channel
      <3> HIDE DEF new
      <3> QED BY <2>1, <2>3, <2>4
    <2> QED BY <2>2, <2>5, ShownAgain
  <1> QED BY <1>1, <1>2

\* The deliveries of a fan-out.
LEMMA Deliveries ==
    ASSUME NEW up, NEW local, Emit(up, local), NEW kind, NEW targets, NEW s \in targets,
           Deliver(kind, targets) \subseteq local
    PROVE  Delivered(kind, s)
  <1>1. [kind |-> kind, to |-> s] \in Deliver(kind, targets)
    BY DEF Deliver
  <1>2. out'.local = local
    BY DEF Emit
  <1> QED BY <1>1, <1>2 DEF Delivered

\* Local users who join, move or leave.
LEMMA LocalMovesAreTold ==
    ASSUME TypeOK, PresenceInv, OneSessionPerCall, NEW a \in Session,
           \/ \E call \in Callsign, ch \in Channel : LocalJoin(a, call, ch)
           \/ \E ch \in Channel : LocalSwitchChannel(a, ch)
           \/ LocalLeave(a)
    PROVE  AnnouncesMembership
  <1>0. HostName \in Host
    BY DEF Host
  <1> SUFFICES ASSUME NEW s \in Session, NEW here,
                      Live(s), sessions[s].channel = here,
                      Live(s)', sessions'[s].channel = here
               PROVE  ToldOf(s, here)
    BY Listeners
  <1>1. ASSUME NEW call \in Callsign, NEW ch \in Channel, LocalJoin(a, call, ch)
        PROVE  ToldOf(s, here)
    <2> DEFINE new == [call |-> call, channel |-> ch, personal |-> profiles[call],
                       away |-> FALSE, oper |-> IsGlobalOperator(call),
                       invited |-> invites[call]]
    <2>1. users[<<call, HostName>>] = None
      <3>1. SessionsOf(call) = {}
        BY <1>1 DEF LocalJoin
      <3> QED BY <3>1 DEF PresenceInv, NoLocalGhosts
    <2>2. RowBecomes(call, HostName, UserRow(new))
      BY <1>1 DEF LocalJoin, UpsertLocalUser, RowBecomes
    <2>3. UserRow(new).channel = ch
      BY DEF UserRow
    <2>4. ASSUME here = ch PROVE Delivered("join", s)
      <3> DEFINE up == [verb |-> "USER", user |-> call, from |-> NoChannel, to |-> ch]
                 local == Deliver("join", On(ch) \ {a}) \cup TopicNoticeFor(a, ch)
      <3>1. Emit(up, local) /\ s \in On(ch) \ {a}
        BY <1>1, <2>4 DEF LocalJoin, On
      <3>2. Deliver("join", On(ch) \ {a}) \subseteq local
        OBVIOUS
      <3> HIDE DEF up, local
      <3> QED BY <3>1, <3>2, Deliveries
    <2> HIDE DEF new
    <2>5. MovesAs(users[<<call, HostName>>], UserRow(new), here)
      BY <1>0, <2>2, OneRowChanges
    <2> QED BY <2>1, <2>3, <2>4, <2>5 DEF MovesAs, ToldOf
  <1>2. ASSUME NEW ch \in Channel, LocalSwitchChannel(a, ch)
        PROVE  ToldOf(s, here)
    <2> DEFINE call == sessions[a].call
               there == sessions[a].channel
               new == MovedTo(sessions[a], ch)
    <2>1. Live(a) /\ sessions[a] \in LocalSession /\ call \in Callsign /\ there # ch
      BY <1>2, LiveSession DEF LocalSwitchChannel
    <2>2. new.call = call /\ new.channel = ch
      BY <2>1 DEF MovedTo, LocalSession
    <2>3. /\ sessions' = [sessions EXCEPT ![a] = new]
          /\ RowBecomes(call, HostName, UserRow(new))
      BY <1>2, <2>2 DEF LocalSwitchChannel, UpsertLocalUser, RowBecomes
    <2>4. UserRow(new).channel = ch
      BY <2>2 DEF UserRow
    <2>5. s # a
      BY <2>1, <2>2, <2>3 DEF TypeOK
    <2>6. users[<<call, HostName>>].channel = there
      BY <2>1 DEF PresenceInv, LocalUsersAreListed
    <2>7. /\ here = ch => Delivered("join", s)
          /\ here = there => Delivered("leave", s)
      <3> DEFINE up == [verb |-> "USER", user |-> call, from |-> there, to |-> ch]
                 local == Deliver("leave", On(there) \ {a})
                            \cup Deliver("join", On(ch) \ {a}) \cup TopicNoticeFor(a, ch)
      <3>1. Emit(up, local)
        BY <1>2 DEF LocalSwitchChannel
      <3>2. s \in On(here) \ {a}
        BY <2>5 DEF On
      <3>3. /\ Deliver("join", On(ch) \ {a}) \subseteq local
            /\ Deliver("leave", On(there) \ {a}) \subseteq local
        OBVIOUS
      <3> HIDE DEF up, local, there
      <3>4. ASSUME here = ch PROVE Delivered("join", s)
        BY <3>1, <3>2, <3>3, <3>4, Deliveries
      <3>5. ASSUME here = there PROVE Delivered("leave", s)
        BY <3>1, <3>2, <3>3, <3>5, Deliveries
      <3> QED BY <3>4, <3>5
    <2> HIDE DEF new, call, there
    <2>8. MovesAs(users[<<call, HostName>>], UserRow(new), here)
      BY <1>0, <2>1, <2>3, OneRowChanges
    <2> QED BY <2>4, <2>6, <2>7, <2>8 DEF MovesAs, ToldOf
  <1>3. ASSUME LocalLeave(a)
        PROVE  ToldOf(s, here)
    <2> DEFINE call == sessions[a].call
               there == sessions[a].channel
    <2>1. Live(a) /\ call \in Callsign
      BY <1>3, LiveSession DEF LocalLeave
    <2>2. /\ sessions' = [sessions EXCEPT ![a] = None]
          /\ users' = [users EXCEPT ![<<call, HostName>>] = None]
      BY <1>3 DEF LocalLeave
    <2>3. s # a
      BY <2>2 DEF TypeOK, Live
    <2>4. users[<<call, HostName>>].channel = there
      BY <2>1 DEF PresenceInv, LocalUsersAreListed
    <2>5. here = there => Delivered("leave", s)
      <3> DEFINE up == [verb |-> "USER", user |-> call, from |-> there, to |-> NoChannel]
                 local == Deliver("leave", On(there) \ {a})
      <3>1. Emit(up, local)
        BY <1>3 DEF LocalLeave
      <3>2. s \in On(here) \ {a}
        BY <2>3 DEF On
      <3>3. Deliver("leave", On(there) \ {a}) \subseteq local
        OBVIOUS
      <3> HIDE DEF up, local, there
      <3> QED BY <3>1, <3>2, <3>3, Deliveries
    <2>6. PICK none : none = None
      OBVIOUS
    <2>7. RowBecomes(call, HostName, none)
      BY <2>2, <2>6 DEF RowBecomes
    <2> HIDE DEF call, there
    <2>8. MovesAs(users[<<call, HostName>>], none, here)
      BY <1>0, <2>1, <2>7, OneRowChanges
    <2> QED BY <2>4, <2>5, <2>6, <2>8 DEF MovesAs, ToldOf
  <1> QED BY <1>1, <1>2, <1>3

\* Users of the network who appear, move or sign off.
LEMMA RemoteMovesAreTold ==
    ASSUME TypeOK, NEW user \in Callsign, NEW host \in Host,
           \/ \E ch \in Channel, personal \in Text : HostUser(user, host, ch, personal)
           \/ HostUserSignOff(user, host)
    PROVE  AnnouncesMembership
  <1> SUFFICES ASSUME NEW s \in Session, NEW here, Live(s), sessions[s].channel = here
               PROVE  ToldOf(s, here)
    BY Listeners
  <1> DEFINE old == users[<<user, host>>]
  <1>0. s \in On(here)
    BY DEF On
  <1>1. ASSUME NEW ch \in Channel, NEW personal \in Text, HostUser(user, host, ch, personal)
        PROVE  ToldOf(s, here)
    <2> DEFINE row == [channel |-> ch,
                       personal |-> IF personal = NoText /\ old # None
                                    THEN old.personal ELSE personal,
                       away |-> old # None /\ old.away,
                       oper |-> FALSE]
               gone == IF old # None /\ old.channel # ch
                       THEN Deliver("leave", On(old.channel)) ELSE {}
               local == gone \cup Deliver("join", On(ch))
    <2>1. RowBecomes(user, host, row) /\ Emit(None, local)
      BY <1>1 DEF HostUser, PutUser, RowBecomes
    <2>2. row.channel = ch /\ row # None
      <3>1. old # None => old \in NetworkUser
        BY DEF TypeOK
      <3>2. row \in NetworkUser
        BY <3>1 DEF NetworkUser
      <3> QED BY <3>2, NoneIsFresh
    <2>3. /\ Deliver("join", On(ch)) \subseteq local
          /\ old # None /\ old.channel # ch => Deliver("leave", On(old.channel)) \subseteq local
      OBVIOUS
    <2> HIDE DEF row, local
    <2>4. ASSUME here = ch PROVE Delivered("join", s)
      BY <1>0, <2>1, <2>3, <2>4, Deliveries
    <2>5. ASSUME old # None, old.channel = here, here # ch PROVE Delivered("leave", s)
      BY <1>0, <2>1, <2>3, <2>5, Deliveries
    <2>6. MovesAs(old, row, here)
      BY <2>1, OneRowChanges
    <2> QED BY <2>2, <2>4, <2>5, <2>6 DEF MovesAs, ToldOf
  <1>2. ASSUME HostUserSignOff(user, host)
        PROVE  ToldOf(s, here)
    <2>1. /\ users' = [users EXCEPT ![<<user, host>>] = None]
          /\ Emit(None, Deliver("leave", On(old.channel)))
      BY <1>2 DEF HostUserSignOff, RemoveUser
    <2>2. ASSUME old.channel = here PROVE Delivered("leave", s)
      BY <1>0, <2>1, <2>2, Deliveries
    <2>3. PICK none : none = None
      OBVIOUS
    <2>4. RowBecomes(user, host, none)
      BY <2>1, <2>3 DEF RowBecomes
    <2>5. MovesAs(old, none, here)
      BY <2>4, OneRowChanges
    <2> QED BY <2>2, <2>3, <2>5 DEF MovesAs, ToldOf
  <1> QED BY <1>1, <1>2

\* When no callsign attaches twice, a local user who stays on a channel is told
\* of every name that appears on it and of every name that disappears from it
\* (LocalJoin, LocalSwitchChannel, LocalLeave, ApplyHostEvent).
THEOREM MembershipIsTold ==
    ASSUME OneSessionPerCall
    PROVE  Spec => MembershipChangesAreAnnounced
  <1>1. TypeOK /\ PresenceInv /\ [Next]_vars => [AnnouncesMembership]_vars
    <2> SUFFICES ASSUME TypeOK, PresenceInv, Next
                 PROVE  AnnouncesMembership
      OBVIOUS
    <2>1. ASSUME NEW s \in Session, LocalEventOf(s)
          PROVE  AnnouncesMembership
      <3>1. ASSUME \/ \E call \in Callsign, ch \in Channel : LocalJoin(s, call, ch)
                   \/ \E ch \in Channel : LocalSwitchChannel(s, ch)
                   \/ LocalLeave(s)
            PROVE  AnnouncesMembership
        BY <3>1, LocalMovesAreTold
      <3>2. ASSUME NEW text \in Text, LocalSetPersonal(s, text)
            PROVE  AnnouncesMembership
        <4> DEFINE x == [sessions[s] EXCEPT !.personal = text]
        <4>1. Live(s) /\ sessions[s] \in LocalSession
          BY <3>2, LiveSession DEF LocalSetPersonal
        <4>2. /\ x \in LocalSession
              /\ x.call = sessions[s].call
              /\ x.channel = sessions[s].channel
          BY <4>1 DEF LocalSession
        <4>3. UpsertLocalUser(x)
          BY <3>2 DEF LocalSetPersonal
        <4> HIDE DEF x
        <4> QED BY <4>1, <4>2, <4>3, ShownAgain
      <3>3. ASSUME NEW away \in BOOLEAN, LocalSetAway(s, away)
            PROVE  AnnouncesMembership
        <4> DEFINE x == [sessions[s] EXCEPT !.away = away]
        <4>1. Live(s) /\ sessions[s] \in LocalSession
          BY <3>3, LiveSession DEF LocalSetAway
        <4>2. /\ x \in LocalSession
              /\ x.call = sessions[s].call
              /\ x.channel = sessions[s].channel
          BY <4>1 DEF LocalSession
        <4>3. UpsertLocalUser(x)
          BY <3>3 DEF LocalSetAway
        <4> HIDE DEF x
        <4> QED BY <4>1, <4>2, <4>3, ShownAgain
      <3>4. ASSUME NEW ch \in Channel \cup {NoChannel}, NEW grant \in Grants,
                   LocalSetOperator(s, ch, grant)
            PROVE  AnnouncesMembership
        <4>1. sessions[s].call \in Callsign
          BY <3>4, LiveSession DEF LocalSetOperator
        <4> QED BY <3>4, <4>1, RefreshTellsNobody DEF LocalSetOperator
      <3>5. ASSUME NEW to \in Callsign, NEW ch \in Channel, LocalInvite(s, to, ch)
            PROVE  AnnouncesMembership
        BY <3>5, NobodyShown DEF LocalInvite
      <3>6. ASSUME NEW call \in Callsign, NEW ch \in Channel, LocalJoinRefused(s, call, ch)
            PROVE  AnnouncesMembership
        BY <3>6, NobodyShown DEF LocalJoinRefused
      <3>7. ASSUME NEW ch \in Channel, LocalSwitchRefused(s, ch)
            PROVE  AnnouncesMembership
        BY <3>7, NobodyShown DEF LocalSwitchRefused
      <3>8. ASSUME LocalSay(s) \/ \E to \in Callsign : LocalPrivateMessage(s, to)
            PROVE  AnnouncesMembership
        BY <3>8, NobodyShown DEF LocalSay, LocalPrivateMessage
      <3>9. ASSUME NEW text \in Text, LocalSetTopic(s, text)
            PROVE  AnnouncesMembership
        BY <3>9, NobodyShown DEF LocalSetTopic
      <3>10. ASSUME NEW ch \in Channel, NEW options \in Toggles,
                    LocalSetMode(s, ch, options)
             PROVE  AnnouncesMembership
        BY <3>10, NobodyShown DEF LocalSetMode
      <3> QED BY <2>1, <3>1, <3>2, <3>3, <3>4, <3>5, <3>6, <3>7, <3>8, <3>9, <3>10
              DEF LocalEventOf
    <2>2. CASE HostEvent
      <3>1. ASSUME NEW user \in Callsign, NEW host \in Host, NEW ch \in Channel,
                   NEW personal \in Text, HostUser(user, host, ch, personal)
            PROVE  AnnouncesMembership
        BY <3>1, RemoteMovesAreTold
      <3>2. ASSUME NEW user \in Callsign, NEW host \in Host, HostUserSignOff(user, host)
            PROVE  AnnouncesMembership
        BY <3>2, RemoteMovesAreTold
      <3>3. ASSUME NEW user \in Callsign, NEW host \in Host, NEW personal \in Text,
                   HostPersonal(user, host, personal)
            PROVE  AnnouncesMembership
        <4> DEFINE old == users[<<user, host>>]
                   row == [old EXCEPT !.personal = personal]
        <4>1. old # None /\ old \in NetworkUser
          BY <3>3 DEF HostPersonal, TypeOK
        <4>2. row \in NetworkUser /\ row.channel = old.channel
          BY <4>1 DEF NetworkUser
        <4>3. RowBecomes(user, host, row)
          BY <3>3 DEF HostPersonal, RowBecomes
        <4> HIDE DEF row
        <4> QED BY <4>1, <4>2, <4>3, NobodyMoved, NoneIsFresh
      <3>4. ASSUME NEW user \in Callsign, NEW host \in Host, NEW away \in BOOLEAN,
                   HostAway(user, host, away)
            PROVE  AnnouncesMembership
        <4> DEFINE old == users[<<user, host>>]
                   row == [old EXCEPT !.away = away]
        <4>1. old # None /\ old \in NetworkUser
          BY <3>4 DEF HostAway, TypeOK
        <4>2. row \in NetworkUser /\ row.channel = old.channel
          BY <4>1 DEF NetworkUser
        <4>3. RowBecomes(user, host, row)
          BY <3>4 DEF HostAway, RowBecomes
        <4> HIDE DEF row
        <4> QED BY <4>1, <4>2, <4>3, NobodyMoved, NoneIsFresh
      <3>5. ASSUME NEW ch \in Channel, HostChannelMessage(ch)
            PROVE  AnnouncesMembership
        BY <3>5, NobodyShown DEF HostChannelMessage
      <3>6. ASSUME NEW to \in Callsign, HostPrivateMessage(to)
            PROVE  AnnouncesMembership
        BY <3>6, NobodyShown DEF HostPrivateMessage
      <3>7. ASSUME NEW user \in Callsign, NEW seconds \in 0..ToUnix(MaxTime),
                   NEW ch \in Channel, NEW text \in Text, HostTopic(user, seconds, ch, text)
            PROVE  AnnouncesMembership
        BY <3>7, NobodyShown DEF HostTopic, PutTopic
      <3>8. ASSUME NEW user \in Callsign, NEW ch \in Channel, HostInvite(user, ch)
            PROVE  AnnouncesMembership
        BY <3>8, NobodyShown DEF HostInvite
      <3>9. ASSUME NEW ch \in Channel, NEW options \in Toggles, HostMode(ch, options)
            PROVE  AnnouncesMembership
        BY <3>9, NobodyShown DEF HostMode
      <3>10. ASSUME NEW user \in Callsign, NEW ch \in Channel \cup {NoChannel},
                    NEW grant \in Grants, HostOper(user, ch, grant)
             PROVE  AnnouncesMembership
        BY <3>10, RefreshTellsNobody DEF HostOper
      <3>11. ASSUME HostPingOrLoop
             PROVE  AnnouncesMembership
        BY <3>11, NobodyShown DEF HostPingOrLoop
      <3> QED BY <2>2, <3>1, <3>2, <3>3, <3>4, <3>5, <3>6, <3>7, <3>8, <3>9, <3>10, <3>11
              DEF HostEvent
    <2>3. CASE Restart
      BY <2>3 DEF Restart, AnnouncesMembership, Live
    <2>4. CASE Tick
      BY <2>4, NobodyShown DEF Tick
    <2> QED BY <2>1, <2>2, <2>3, <2>4 DEF Next, LocalEvent
  <1> QED BY <1>1, TypeCorrect, PresenceInvariant, PTL DEF Spec, MembershipChangesAreAnnounced

=============================================================================
