-------------------------- MODULE ConversHubProofs --------------------------
(***************************************************************************)
(* Machine-checked proofs about ConversHub, for every value of its         *)
(* constants.                                                              *)
(***************************************************************************)
EXTENDS ConversHub, TLAPS

-----------------------------------------------------------------------------
(* Facts about the helpers.                                                *)

\* A toggle applied to a mode set gives a mode set, on channel 0 as elsewhere.
LEMMA ApplyType ==
    ASSUME NEW start \in SUBSET Mode, NEW o \in Toggle, NEW z \in BOOLEAN
    PROVE  Apply(start, o, z) \in SUBSET Mode
  BY DEF Apply, Honoured, Toggle, Mode

\* The canonical form of a mode set is a toggle.
LEMMA ToWireType ==
    ASSUME NEW m \in SUBSET Mode
    PROVE  ToWire(m) \in Toggle
  BY DEF ToWire, Toggle

\* Whole seconds of a tick count are a natural number, and back.
LEMMA UnixType ==
    ASSUME NEW t \in Nat
    PROVE  /\ ToUnix(t) \in Nat
           /\ FromUnix(t) \in Nat
           /\ ToUnix(FromUnix(t)) = t
  <1>1. TicksPerSecond \in Nat /\ TicksPerSecond > 0
    BY ConstantsAssumption
  <1> QED BY <1>1 DEF ToUnix, FromUnix

\* Seconds grow with ticks, so that comparing seconds never inverts an order.
LEMMA ToUnixMonotone ==
    ASSUME NEW t \in Nat, NEW u \in Nat, t <= u
    PROVE  ToUnix(t) <= ToUnix(u)
  <1>1. TicksPerSecond \in Nat /\ TicksPerSecond > 0
    BY ConstantsAssumption
  <1> QED BY <1>1 DEF ToUnix

\* What a handler delivers is a set of deliveries.
LEMMA DeliverType ==
    ASSUME NEW T \in SUBSET Session,
           NEW k \in {"message", "private", "away", "invite", "join", "leave",
                      "topic", "mode", "refused"}
    PROVE  Deliver(k, T) \in SUBSET Delivery
  BY DEF Deliver, Delivery

\* The topic shown on entering a channel is a set of deliveries.
LEMMA TopicNoticeType ==
    ASSUME NEW s \in Session, NEW ch \in Channel
    PROVE  TopicNoticeFor(s, ch) \in SUBSET Delivery
  BY DEF TopicNoticeFor, Deliver, Delivery

\* An absent entry is none of the values that an entry can have.
LEMMA NoneIsFresh ==
    /\ None \notin LocalSession
    /\ None \notin NetworkUser
    /\ None \notin Topic
    /\ None \notin UplinkCommand
    /\ None \notin Channel
  BY ConstantsAssumption

-----------------------------------------------------------------------------
(* Type correctness.                                                       *)

\* A live session is a session record, and its user has a place in every
\* table that is keyed by callsign or channel.
LEMMA LiveSession ==
    ASSUME TypeOK, NEW s \in Session, Live(s)
    PROVE  /\ sessions[s] \in LocalSession
           /\ sessions[s].call \in Callsign
           /\ sessions[s].channel \in Channel
           /\ sessions[s].personal \in Text
           /\ sessions[s].away \in BOOLEAN
           /\ sessions[s].oper \in BOOLEAN
           /\ sessions[s].invited \in SUBSET Channel
  BY DEF TypeOK, Live, LocalSession

\* The sets of sessions that deliveries are addressed to are sets of sessions.
LEMMA TargetTypes ==
    /\ \A ch : On(ch) \in SUBSET Session
    /\ \A call : SessionsOf(call) \in SUBSET Session
  BY DEF On, SessionsOf

\* Showing a session in the user table keeps the table well formed.
LEMMA UpsertType ==
    ASSUME TypeOK, NEW x \in LocalSession, UpsertLocalUser(x)
    PROVE  users' \in [Callsign \X Host -> NetworkUser \cup {None}]
  <1>1. UserRow(x) \in NetworkUser
    BY DEF UserRow, NetworkUser, LocalSession
  <1> QED BY <1>1 DEF TypeOK, UpsertLocalUser

\* ApplyTopic keeps memory and store well formed.
LEMMA ApplyTopicType ==
    ASSUME TypeOK, NEW ch \in Channel, NEW t \in Topic, ApplyTopic(ch, t)
    PROVE  /\ topics' \in [Channel -> Topic \cup {None}]
           /\ storedTopics' \in [Channel -> Topic \cup {None}]
  <1>1. t.at \in Nat
    BY DEF Topic
  <1>2. [t EXCEPT !.at = ToUnix(t.at)] \in Topic
    BY <1>1, UnixType DEF Topic
  <1> QED BY <1>2 DEF TypeOK, ApplyTopic, UpsertTopic

\* Granting or revoking keeps the rosters well formed.
LEMMA ApplyOperatorType ==
    ASSUME TypeOK, NEW call \in Callsign, NEW ch \in Channel \cup {NoChannel},
           NEW grant \in BOOLEAN, ApplyOperator(call, ch, grant)
    PROVE  /\ globalOps' \in SUBSET Callsign
           /\ channelOps' \in [Channel -> SUBSET Callsign]
  <1>1. CASE ch = NoChannel
    BY <1>1 DEF TypeOK, ApplyOperator
  <1>2. CASE ch # NoChannel
    BY <1>2 DEF TypeOK, ApplyOperator
  <1> QED BY <1>1, <1>2

\* Refreshing the operator flags keeps sessions and rows well formed.
LEMMA RefreshType ==
    ASSUME TypeOK, NEW call \in Callsign, RefreshSessionOpFlags(call)
    PROVE  /\ sessions' \in [Session -> LocalSession \cup {None}]
           /\ users' \in [Callsign \X Host -> NetworkUser \cup {None}]
  <1> DEFINE IsOp(s) == call \in globalOps' \/ call \in channelOps'[sessions[s].channel]
             changed == {s \in SessionsOf(call) : sessions[s].oper # IsOp(s)}
             new(s) == [sessions[s] EXCEPT !.oper = IsOp(s)]
  <1>1. ASSUME NEW s \in changed
        PROVE  new(s) \in LocalSession
    <2>1. s \in Session /\ Live(s)
      BY DEF SessionsOf
    <2>2. sessions[s] \in LocalSession
      BY <2>1, LiveSession
    <2>3. IsOp(s) \in BOOLEAN
      OBVIOUS
    <2> QED BY <2>2, <2>3 DEF LocalSession
  <1>2. sessions' = [s \in Session |-> IF s \in changed THEN new(s) ELSE sessions[s]]
    BY DEF RefreshSessionOpFlags
  <1>3. sessions' \in [Session -> LocalSession \cup {None}]
    BY <1>1, <1>2 DEF TypeOK
  <1>4. UNCHANGED users \/ \E s \in changed : UpsertLocalUser(new(s))
    BY DEF RefreshSessionOpFlags
  <1>5. users' \in [Callsign \X Host -> NetworkUser \cup {None}]
    BY <1>1, <1>4, UpsertType DEF TypeOK
  <1> QED BY <1>3, <1>5

\* Recording an invitation keeps invitations and sessions well formed.
LEMMA RecordInviteType ==
    ASSUME TypeOK, NEW call \in Callsign, NEW ch \in Channel, RecordInvite(call, ch)
    PROVE  /\ invites' \in [Callsign -> SUBSET Channel]
           /\ sessions' \in [Session -> LocalSession \cup {None}]
  <1>1. invites' \in [Callsign -> SUBSET Channel]
    BY DEF TypeOK, RecordInvite
  <1>2. ASSUME NEW s \in SessionsOf(call)
        PROVE  [sessions[s] EXCEPT !.invited = invites'[call]] \in LocalSession
    <2>1. sessions[s] \in LocalSession
      BY LiveSession DEF SessionsOf
    <2> QED BY <1>1, <2>1 DEF LocalSession
  <1> QED BY <1>1, <1>2 DEF TypeOK, RecordInvite

\* Every event of a local session keeps the state well formed.
LEMMA LocalEventType == TypeOK /\ LocalEvent => TypeOK'
  <1> SUFFICES ASSUME TypeOK, NEW s \in Session, LocalEventOf(s)
               PROVE  TypeOK'
    BY DEF LocalEvent
  <1> USE DeliverType, TargetTypes
  <1>1. ASSUME NEW call \in Callsign, NEW ch \in Channel, LocalJoin(s, call, ch)
        PROVE  TypeOK'
    <2> DEFINE new == [call |-> call, channel |-> ch, personal |-> profiles[call],
                       away |-> FALSE, oper |-> IsGlobalOperator(call),
                       invited |-> invites[call]]
    <2>1. new \in LocalSession
      BY DEF TypeOK, LocalSession, IsGlobalOperator
    <2>2. sessions' = [sessions EXCEPT ![s] = new] /\ UpsertLocalUser(new)
      BY <1>1 DEF LocalJoin
    <2>3. out' \in [up : UplinkCommand \cup {None}, local : SUBSET Delivery]
      BY <1>1, TopicNoticeType DEF LocalJoin, Emit, UplinkCommand
    <2> QED BY <1>1, <2>1, <2>2, <2>3, UpsertType DEF TypeOK, LocalJoin, store
  <1>2. ASSUME NEW call \in Callsign, NEW ch \in Channel, LocalJoinRefused(s, call, ch)
        PROVE  TypeOK'
    BY <1>2 DEF TypeOK, LocalJoinRefused, Emit, store
  <1>3. ASSUME NEW ch \in Channel, LocalSwitchChannel(s, ch)
        PROVE  TypeOK'
    <2> DEFINE call == sessions[s].call
               moved == [sessions[s] EXCEPT
                           !.channel = ch,
                           !.oper = IsGlobalOperator(call) \/ IsChannelOperator(call, ch)]
    <2>1. Live(s) /\ sessions[s] \in LocalSession /\ call \in Callsign
            /\ sessions[s].channel \in Channel
      BY <1>3, LiveSession DEF LocalSwitchChannel, MovedTo
    <2>2. moved \in LocalSession
      BY <2>1 DEF LocalSession, IsGlobalOperator, IsChannelOperator
    <2>3. sessions' = [sessions EXCEPT ![s] = moved] /\ UpsertLocalUser(moved)
      BY <1>3 DEF LocalSwitchChannel, MovedTo
    <2>4. out' \in [up : UplinkCommand \cup {None}, local : SUBSET Delivery]
      BY <1>3, <2>1, TopicNoticeType DEF LocalSwitchChannel, MovedTo, Emit, UplinkCommand
    <2> QED BY <1>3, <2>1, <2>2, <2>3, <2>4, UpsertType DEF TypeOK, LocalSwitchChannel, MovedTo, store
  <1>4. ASSUME NEW ch \in Channel, LocalSwitchRefused(s, ch)
        PROVE  TypeOK'
    BY <1>4 DEF TypeOK, LocalSwitchRefused, Emit, store
  <1>5. ASSUME LocalSay(s)
        PROVE  TypeOK'
    <2>1. sessions[s].call \in Callsign /\ sessions[s].channel \in Channel
      BY <1>5, LiveSession DEF LocalSay
    <2>2. out' \in [up : UplinkCommand \cup {None}, local : SUBSET Delivery]
      BY <1>5, <2>1 DEF LocalSay, Emit, UplinkCommand
    <2> QED BY <1>5, <2>2 DEF TypeOK, LocalSay, store
  <1>6. ASSUME NEW to \in Callsign, LocalPrivateMessage(s, to)
        PROVE  TypeOK'
    <2>1. sessions[s].call \in Callsign
      BY <1>6, LiveSession DEF LocalPrivateMessage
    <2>2. PICK told :
            Emit([verb |-> "UMSG", user |-> sessions[s].call],
                 Deliver("private", SessionsOf(to)) \cup Deliver("away", {x \in {s} : told}))
      BY <1>6 DEF LocalPrivateMessage
    <2>3. Deliver("away", {x \in {s} : told}) \in SUBSET Delivery
      BY DEF Deliver, Delivery
    <2>4. out' \in [up : UplinkCommand \cup {None}, local : SUBSET Delivery]
      BY <2>1, <2>2, <2>3 DEF Emit, UplinkCommand
    <2> QED BY <1>6, <2>4 DEF TypeOK, LocalPrivateMessage, store
  <1>7. ASSUME NEW personal \in Text, LocalSetPersonal(s, personal)
        PROVE  TypeOK'
    <2> DEFINE new == [sessions[s] EXCEPT !.personal = personal]
    <2>1. sessions[s] \in LocalSession /\ sessions[s].call \in Callsign
      BY <1>7, LiveSession DEF LocalSetPersonal
    <2>2. new \in LocalSession /\ new.call = sessions[s].call
      BY <2>1 DEF LocalSession
    <2>3. sessions' = [sessions EXCEPT ![s] = new] /\ UpsertLocalUser(new)
      BY <1>7 DEF LocalSetPersonal
    <2>4. out' \in [up : UplinkCommand \cup {None}, local : SUBSET Delivery]
      BY <1>7, <2>1, <2>2 DEF LocalSetPersonal, Emit, UplinkCommand
    <2>5. profiles' \in [Callsign -> Text]
      BY <1>7, <2>1, <2>2 DEF LocalSetPersonal, TypeOK
    <2> QED BY <1>7, <2>2, <2>3, <2>4, <2>5, UpsertType DEF TypeOK, LocalSetPersonal
  <1>8. ASSUME NEW away \in BOOLEAN, LocalSetAway(s, away)
        PROVE  TypeOK'
    <2> DEFINE new == [sessions[s] EXCEPT !.away = away]
    <2>1. sessions[s] \in LocalSession /\ sessions[s].call \in Callsign
      BY <1>8, LiveSession DEF LocalSetAway
    <2>2. new \in LocalSession /\ new.call = sessions[s].call
      BY <2>1 DEF LocalSession
    <2>3. sessions' = [sessions EXCEPT ![s] = new] /\ UpsertLocalUser(new)
      BY <1>8 DEF LocalSetAway
    <2>4. out' \in [up : UplinkCommand \cup {None}, local : SUBSET Delivery]
      BY <1>8, <2>1, <2>2 DEF LocalSetAway, Emit, UplinkCommand
    <2> QED BY <1>8, <2>2, <2>3, <2>4, UpsertType DEF TypeOK, LocalSetAway, store
  <1>9. ASSUME NEW text \in Text, LocalSetTopic(s, text)
        PROVE  TypeOK'
    <2> DEFINE ch == sessions[s].channel
               topic == [text |-> text, by |-> sessions[s].call, at |-> now]
    <2>1. sessions[s].call \in Callsign /\ ch \in Channel
      BY <1>9, LiveSession DEF LocalSetTopic, MaySetTopic
    <2>2. topic \in Topic
      BY <2>1 DEF Topic, TypeOK
    <2>3. UNCHANGED <<topics, storedTopics>> \/ ApplyTopic(ch, topic)
      BY <1>9 DEF LocalSetTopic, MaySetTopic
    <2>4. /\ topics' \in [Channel -> Topic \cup {None}]
          /\ storedTopics' \in [Channel -> Topic \cup {None}]
      BY <2>1, <2>2, <2>3, ApplyTopicType DEF TypeOK
    <2>5. out' \in [up : UplinkCommand \cup {None}, local : SUBSET Delivery]
      BY <1>9, <2>1 DEF LocalSetTopic, MaySetTopic, Emit, UplinkCommand
    <2> QED BY <1>9, <2>4, <2>5 DEF TypeOK, LocalSetTopic, MaySetTopic
  <1>10. ASSUME NEW to \in Callsign, NEW ch \in Channel, LocalInvite(s, to, ch)
         PROVE  TypeOK'
    <2>1. out' \in [up : UplinkCommand \cup {None}, local : SUBSET Delivery]
      BY <1>10 DEF LocalInvite, Emit, UplinkCommand
    <2> QED BY <1>10, <2>1, RecordInviteType DEF TypeOK, LocalInvite, store
  <1>11. ASSUME NEW ch \in Channel, NEW options \in Toggles, LocalSetMode(s, ch, options)
         PROVE  TypeOK'
    <2> DEFINE after == Apply(modes[ch], options, ch = 0)
    <2>1. options \in Toggle
      BY ConstantsAssumption
    <2>2. after \in SUBSET Mode
      BY <2>1, ApplyType DEF TypeOK
    <2>3. ToWire(after) \in Toggle
      BY <2>2, ToWireType
    <2>4. modes' \in [Channel -> SUBSET Mode]
      BY <1>11, <2>2 DEF LocalSetMode, TypeOK
    <2>5. out' \in [up : UplinkCommand \cup {None}, local : SUBSET Delivery]
      BY <1>11, <2>3 DEF LocalSetMode, Emit, UplinkCommand
    <2> QED BY <1>11, <2>4, <2>5 DEF TypeOK, LocalSetMode, store
  <1>12. ASSUME NEW ch \in Channel \cup {NoChannel}, NEW grant \in Grants,
                LocalSetOperator(s, ch, grant)
         PROVE  TypeOK'
    <2>1. grant \in BOOLEAN /\ sessions[s].call \in Callsign
      BY <1>12, LiveSession, ConstantsAssumption DEF LocalSetOperator
    <2>2. /\ ApplyOperator(sessions[s].call, ch, grant)
          /\ RefreshSessionOpFlags(sessions[s].call)
      BY <1>12 DEF LocalSetOperator
    <2>3. globalOps' \in SUBSET Callsign /\ channelOps' \in [Channel -> SUBSET Callsign]
      BY <2>1, <2>2, ApplyOperatorType
    <2>4. /\ sessions' \in [Session -> LocalSession \cup {None}]
          /\ users' \in [Callsign \X Host -> NetworkUser \cup {None}]
      BY <2>1, <2>2, RefreshType
    <2>5. out' = [up |-> None, local |-> {}]
            /\ UNCHANGED <<topics, modes, invites, storedTopics, profiles, now, upstream>>
      BY <1>12 DEF LocalSetOperator, Emit, store
    <2> QED BY <2>3, <2>4, <2>5 DEF TypeOK
  <1>13. ASSUME LocalLeave(s)
         PROVE  TypeOK'
    <2>1. sessions[s].call \in Callsign /\ sessions[s].channel \in Channel
      BY <1>13, LiveSession DEF LocalLeave
    <2>2. out' \in [up : UplinkCommand \cup {None}, local : SUBSET Delivery]
      BY <1>13, <2>1 DEF LocalLeave, Emit, UplinkCommand
    <2> QED BY <1>13, <2>1, <2>2 DEF TypeOK, LocalLeave, store
  <1> QED BY <1>1, <1>2, <1>3, <1>4, <1>5, <1>6, <1>7, <1>8, <1>9, <1>10,
             <1>11, <1>12, <1>13 DEF LocalEventOf

\* Every event of the host link keeps the state well formed.
LEMMA HostEventType == TypeOK /\ HostEvent => TypeOK'
  <1> SUFFICES ASSUME TypeOK, HostEvent
               PROVE  TypeOK'
    OBVIOUS
  <1> USE DeliverType, TargetTypes
  <1>1. ASSUME NEW user \in Callsign, NEW host \in Host, NEW ch \in Channel,
               NEW personal \in Text, HostUser(user, host, ch, personal)
        PROVE  TypeOK'
    <2> DEFINE old == users[<<user, host>>]
               row == [channel |-> ch,
                       personal |-> IF personal = NoText /\ old # None
                                    THEN old.personal ELSE personal,
                       away |-> old # None /\ old.away,
                       oper |-> FALSE]
    <2>1. old \in NetworkUser \cup {None}
      BY DEF TypeOK
    <2>2. row \in NetworkUser
      BY <2>1 DEF NetworkUser
    <2>3. users' \in [Callsign \X Host -> NetworkUser \cup {None}]
      BY <1>1, <2>2 DEF HostUser, PutUser, TypeOK
    <2>4. out' \in [up : UplinkCommand \cup {None}, local : SUBSET Delivery]
      BY <1>1 DEF HostUser, PutUser, Emit
    <2> QED BY <1>1, <2>3, <2>4 DEF TypeOK, HostUser, PutUser, store
  <1>2. ASSUME NEW user \in Callsign, NEW host \in Host, HostUserSignOff(user, host)
        PROVE  TypeOK'
    BY <1>2 DEF TypeOK, HostUserSignOff, RemoveUser, Emit, store
  <1>3. ASSUME NEW user \in Callsign, NEW host \in Host, NEW personal \in Text,
               HostPersonal(user, host, personal)
        PROVE  TypeOK'
    <2>1. users[<<user, host>>] \in NetworkUser
      BY <1>3 DEF TypeOK, HostPersonal
    <2>2. [users[<<user, host>>] EXCEPT !.personal = personal] \in NetworkUser
      BY <2>1 DEF NetworkUser
    <2> QED BY <1>3, <2>2 DEF TypeOK, HostPersonal, Emit, store
  <1>4. ASSUME NEW user \in Callsign, NEW host \in Host, NEW away \in BOOLEAN,
               HostAway(user, host, away)
        PROVE  TypeOK'
    <2>1. users[<<user, host>>] \in NetworkUser
      BY <1>4 DEF TypeOK, HostAway
    <2>2. [users[<<user, host>>] EXCEPT !.away = away] \in NetworkUser
      BY <2>1 DEF NetworkUser
    <2> QED BY <1>4, <2>2 DEF TypeOK, HostAway, Emit, store
  <1>5. ASSUME NEW ch \in Channel, HostChannelMessage(ch)
        PROVE  TypeOK'
    BY <1>5 DEF TypeOK, HostChannelMessage, Emit, store
  <1>6. ASSUME NEW to \in Callsign, HostPrivateMessage(to)
        PROVE  TypeOK'
    BY <1>6 DEF TypeOK, HostPrivateMessage, Emit, store
  <1>7. ASSUME NEW user \in Callsign, NEW seconds \in 0..ToUnix(MaxTime),
               NEW ch \in Channel, NEW text \in Text,
               HostTopic(user, seconds, ch, text)
        PROVE  TypeOK'
    <2> DEFINE topic == [text |-> text, by |-> user, at |-> FromUnix(seconds)]
    <2>1. ToUnix(MaxTime) \in Nat
      BY UnixType, ConstantsAssumption
    <2>2. seconds \in Nat
      BY <2>1
    <2>3. topic \in Topic
      BY <2>2, UnixType DEF Topic
    <2>4. ApplyTopic(ch, topic)
      BY <1>7 DEF HostTopic, PutTopic
    <2> QED BY <1>7, <2>3, <2>4, ApplyTopicType DEF TypeOK, HostTopic, PutTopic, Emit
  <1>8. ASSUME NEW user \in Callsign, NEW ch \in Channel, HostInvite(user, ch)
        PROVE  TypeOK'
    BY <1>8, RecordInviteType DEF TypeOK, HostInvite, Emit, store
  <1>9. ASSUME NEW ch \in Channel, NEW options \in Toggles, HostMode(ch, options)
        PROVE  TypeOK'
    <2>1. Apply(modes[ch], options, ch = 0) \in SUBSET Mode
      BY ApplyType, ConstantsAssumption DEF TypeOK
    <2> QED BY <1>9, <2>1 DEF TypeOK, HostMode, Emit, store
  <1>10. ASSUME NEW user \in Callsign, NEW ch \in Channel \cup {NoChannel},
                NEW grant \in Grants, HostOper(user, ch, grant)
         PROVE  TypeOK'
    <2>1. grant \in BOOLEAN
      BY ConstantsAssumption
    <2>2. ApplyOperator(user, ch, grant) /\ RefreshSessionOpFlags(user)
      BY <1>10 DEF HostOper
    <2>3. globalOps' \in SUBSET Callsign /\ channelOps' \in [Channel -> SUBSET Callsign]
      BY <2>1, <2>2, ApplyOperatorType
    <2>4. /\ sessions' \in [Session -> LocalSession \cup {None}]
          /\ users' \in [Callsign \X Host -> NetworkUser \cup {None}]
      BY <2>2, RefreshType
    <2>5. out' = [up |-> None, local |-> {}]
            /\ UNCHANGED <<topics, modes, invites, storedTopics, profiles, now, upstream>>
      BY <1>10 DEF HostOper, Emit, store
    <2> QED BY <2>3, <2>4, <2>5 DEF TypeOK
  <1>11. ASSUME HostPingOrLoop
         PROVE  TypeOK'
    <2>1. out' \in [up : UplinkCommand \cup {None}, local : SUBSET Delivery]
      BY <1>11 DEF HostPingOrLoop, Emit, UplinkCommand
    <2> QED BY <1>11, <2>1 DEF TypeOK, HostPingOrLoop, store
  <1> QED BY <1>1, <1>2, <1>3, <1>4, <1>5, <1>6, <1>7, <1>8, <1>9, <1>10, <1>11
          DEF HostEvent

\* A restart on a well formed store gives a well formed hub.
LEMMA RestartType == TypeOK /\ Restart => TypeOK'
  <1> SUFFICES ASSUME TypeOK, Restart
               PROVE  TypeOK'
    OBVIOUS
  <1>1. ASSUME NEW c \in Channel, storedTopics[c] # None
        PROVE  [storedTopics[c] EXCEPT !.at = FromUnix(@)] \in Topic
    <2>1. storedTopics[c] \in Topic
      BY <1>1 DEF TypeOK
    <2> QED BY <2>1, UnixType DEF Topic
  <1> QED BY <1>1 DEF TypeOK, Restart, store

\* Type correctness: whatever events the shells and the link feed to Advance,
\* in whatever order, the hub's tables stay well formed.
THEOREM TypeCorrect == Spec => []TypeOK
  <1>1. Init => TypeOK
    BY ConstantsAssumption DEF Init, TypeOK
  <1>2. TypeOK /\ [Next]_vars => TypeOK'
    <2> SUFFICES ASSUME TypeOK, [Next]_vars
                 PROVE  TypeOK'
      OBVIOUS
    <2>1. CASE Tick
      BY <2>1 DEF TypeOK, Tick, store
    <2>2. CASE UNCHANGED vars
      BY <2>2 DEF TypeOK, vars
    <2> QED BY <2>1, <2>2, LocalEventType, HostEventType, RestartType DEF Next
  <1> QED BY <1>1, <1>2, PTL DEF Spec

=============================================================================
