----------------------- MODULE ConversHubRightsProofs -----------------------
(***************************************************************************)
(* Who may do what: the copies of rights that sessions carry agree with    *)
(* the rosters, and what the modes gate is gated by the rosters.           *)
(***************************************************************************)
EXTENDS ConversHubProofs

\* The inductive invariant: the two cached rights are in order.  Neither part
\* needs the other, but the action properties below need both.
RightsInv == TypeOK /\ InvitesOnSessionsAreCurrent /\ OperatorFlagIsBacked

-----------------------------------------------------------------------------
\* The ways in which a step can touch sessions, rosters or invitations.
LEMMA RightsSteps ==
    ASSUME [Next]_vars
    PROVE  \/ UNCHANGED <<sessions, invites, globalOps, channelOps>>
           \/ \E s \in Session, call \in Callsign, ch \in Channel : LocalJoin(s, call, ch)
           \/ \E s \in Session, ch \in Channel : LocalSwitchChannel(s, ch)
           \/ \E s \in Session, personal \in Text : LocalSetPersonal(s, personal)
           \/ \E s \in Session, away \in BOOLEAN : LocalSetAway(s, away)
           \/ \E s \in Session : LocalLeave(s)
           \/ \E call \in Callsign, ch \in Channel :
                RecordInvite(call, ch) /\ UNCHANGED <<globalOps, channelOps>>
           \/ \E s \in Session, ch \in Channel \cup {NoChannel}, grant \in Grants :
                LocalSetOperator(s, ch, grant)
           \/ \E user \in Callsign, ch \in Channel \cup {NoChannel}, grant \in Grants :
                HostOper(user, ch, grant)
           \/ Restart
  <1>1. CASE LocalEvent
    <2>1. PICK s \in Session : LocalEventOf(s)
      BY <1>1 DEF LocalEvent
    <2>2. ASSUME NEW call \in Callsign, NEW ch \in Channel, LocalJoinRefused(s, call, ch)
          PROVE  UNCHANGED <<sessions, invites, globalOps, channelOps>>
      BY <2>2 DEF LocalJoinRefused
    <2>3. ASSUME NEW ch \in Channel, LocalSwitchRefused(s, ch)
          PROVE  UNCHANGED <<sessions, invites, globalOps, channelOps>>
      BY <2>3 DEF LocalSwitchRefused
    <2>4. ASSUME LocalSay(s)
          PROVE  UNCHANGED <<sessions, invites, globalOps, channelOps>>
      BY <2>4 DEF LocalSay
    <2>5. ASSUME NEW to \in Callsign, LocalPrivateMessage(s, to)
          PROVE  UNCHANGED <<sessions, invites, globalOps, channelOps>>
      BY <2>5 DEF LocalPrivateMessage
    <2>6. ASSUME NEW text \in Text, LocalSetTopic(s, text)
          PROVE  UNCHANGED <<sessions, invites, globalOps, channelOps>>
      BY <2>6 DEF LocalSetTopic, MaySetTopic
    <2>7. ASSUME NEW to \in Callsign, NEW ch \in Channel, LocalInvite(s, to, ch)
          PROVE  RecordInvite(to, ch) /\ UNCHANGED <<globalOps, channelOps>>
      BY <2>7 DEF LocalInvite
    <2>8. ASSUME NEW ch \in Channel, NEW options \in Toggles, LocalSetMode(s, ch, options)
          PROVE  UNCHANGED <<sessions, invites, globalOps, channelOps>>
      BY <2>8 DEF LocalSetMode
    <2> QED BY <2>1, <2>2, <2>3, <2>4, <2>5, <2>6, <2>7, <2>8 DEF LocalEventOf
  <1>2. CASE HostEvent
    <2>1. ASSUME NEW user \in Callsign, NEW host \in Host, NEW ch \in Channel,
                 NEW personal \in Text, HostUser(user, host, ch, personal)
          PROVE  UNCHANGED <<sessions, invites, globalOps, channelOps>>
      BY <2>1 DEF HostUser, PutUser
    <2>2. ASSUME NEW user \in Callsign, NEW host \in Host, HostUserSignOff(user, host)
          PROVE  UNCHANGED <<sessions, invites, globalOps, channelOps>>
      BY <2>2 DEF HostUserSignOff, RemoveUser
    <2>3. ASSUME NEW user \in Callsign, NEW host \in Host, NEW personal \in Text,
                 HostPersonal(user, host, personal)
          PROVE  UNCHANGED <<sessions, invites, globalOps, channelOps>>
      BY <2>3 DEF HostPersonal
    <2>4. ASSUME NEW user \in Callsign, NEW host \in Host, NEW away \in BOOLEAN,
                 HostAway(user, host, away)
          PROVE  UNCHANGED <<sessions, invites, globalOps, channelOps>>
      BY <2>4 DEF HostAway
    <2>5. ASSUME NEW ch \in Channel, HostChannelMessage(ch)
          PROVE  UNCHANGED <<sessions, invites, globalOps, channelOps>>
      BY <2>5 DEF HostChannelMessage
    <2>6. ASSUME NEW to \in Callsign, HostPrivateMessage(to)
          PROVE  UNCHANGED <<sessions, invites, globalOps, channelOps>>
      BY <2>6 DEF HostPrivateMessage
    <2>7. ASSUME NEW user \in Callsign, NEW seconds \in 0..ToUnix(MaxTime),
                 NEW ch \in Channel, NEW text \in Text, HostTopic(user, seconds, ch, text)
          PROVE  UNCHANGED <<sessions, invites, globalOps, channelOps>>
      BY <2>7 DEF HostTopic, PutTopic
    <2>8. ASSUME NEW ch \in Channel, NEW options \in Toggles, HostMode(ch, options)
          PROVE  UNCHANGED <<sessions, invites, globalOps, channelOps>>
      BY <2>8 DEF HostMode
    <2>9. ASSUME HostPingOrLoop
          PROVE  UNCHANGED <<sessions, invites, globalOps, channelOps>>
      BY <2>9 DEF HostPingOrLoop
    <2>10. ASSUME NEW user \in Callsign, NEW ch \in Channel, HostInvite(user, ch)
           PROVE  RecordInvite(user, ch) /\ UNCHANGED <<globalOps, channelOps>>
      BY <2>10 DEF HostInvite
    <2> QED BY <1>2, <2>1, <2>2, <2>3, <2>4, <2>5, <2>6, <2>7, <2>8, <2>9, <2>10
            DEF HostEvent
  <1>3. CASE Tick
    BY <1>3 DEF Tick
  <1>4. CASE UNCHANGED vars
    BY <1>4 DEF vars
  <1> QED BY <1>1, <1>2, <1>3, <1>4 DEF Next

\* A grant or a revocation followed by the refresh leaves every flag of the
\* callsign equal to what the new rosters say and every other flag alone.
LEMMA RefreshKeepsFlagsBacked ==
    ASSUME RightsInv, NEW call \in Callsign, NEW ch \in Channel \cup {NoChannel},
           NEW grant \in BOOLEAN, ApplyOperator(call, ch, grant),
           RefreshSessionOpFlags(call), UNCHANGED invites
    PROVE  (InvitesOnSessionsAreCurrent /\ OperatorFlagIsBacked)'
  <1> DEFINE IsOp(s) == call \in globalOps' \/ call \in channelOps'[sessions[s].channel]
             changed == {s \in SessionsOf(call) : sessions[s].oper # IsOp(s)}
  <1>1. TypeOK
    BY DEF RightsInv
  <1>2. sessions' = [s \in Session |-> IF s \in changed
                       THEN [sessions[s] EXCEPT !.oper = IsOp(s)] ELSE sessions[s]]
    BY DEF RefreshSessionOpFlags
  <1>3. ASSUME NEW s \in Session, Live(s)'
        PROVE  /\ Live(s)
               /\ sessions'[s].call = sessions[s].call
               /\ sessions'[s].channel = sessions[s].channel
               /\ sessions'[s].invited = sessions[s].invited
               /\ sessions[s].channel \in Channel
               /\ sessions[s].call \in Callsign
    <2>1. CASE s \in changed
      <3>1. Live(s) /\ sessions[s] \in LocalSession
        BY <2>1, LiveSession, <1>1 DEF SessionsOf
      <3>2. sessions'[s] = [sessions[s] EXCEPT !.oper = IsOp(s)]
        BY <2>1, <1>2
      <3> QED BY <3>1, <3>2 DEF LocalSession
    <2>2. CASE s \notin changed
      BY <2>2, <1>2, <1>3, LiveSession, <1>1 DEF Live
    <2> QED BY <2>1, <2>2
  <1>4. InvitesOnSessionsAreCurrent'
    BY <1>3 DEF InvitesOnSessionsAreCurrent, RightsInv
  <1>5. ASSUME NEW s \in Session, Live(s)', sessions'[s].oper, sessions[s].call = call
        PROVE  IsOp(s)
    <2>1. s \in SessionsOf(call)
      BY <1>3, <1>5 DEF SessionsOf
    <2>2. CASE s \in changed
      <3>1. sessions[s] \in LocalSession
        BY <1>3, <1>5, LiveSession, <1>1
      <3>2. sessions'[s].oper = IsOp(s)
        BY <2>2, <3>1, <1>2 DEF LocalSession
      <3> QED BY <3>2, <1>5
    <2>3. CASE s \notin changed
      BY <2>1, <2>3, <1>2, <1>5
    <2> QED BY <2>2, <2>3
  <1>6. ASSUME NEW s \in Session, Live(s)', sessions'[s].oper, sessions[s].call # call
        PROVE  \/ sessions[s].call \in globalOps'
               \/ sessions[s].call \in channelOps'[sessions[s].channel]
    <2>1. s \notin changed /\ sessions[s].oper
      BY <1>2, <1>6 DEF SessionsOf
    <2>2. \/ sessions[s].call \in globalOps
          \/ sessions[s].call \in channelOps[sessions[s].channel]
      BY <2>1, <1>3, <1>6 DEF RightsInv, OperatorFlagIsBacked, IsGlobalOperator, IsChannelOperator
    <2>3. sessions[s].channel \in Channel
      BY <1>3, <1>6
    <2>4. CASE ch = NoChannel
      BY <2>2, <2>4, <1>6 DEF ApplyOperator
    <2>5. CASE ch # NoChannel
      BY <2>2, <2>3, <2>5, <1>1, <1>6 DEF ApplyOperator, TypeOK
    <2> QED BY <2>4, <2>5
  <1>7. OperatorFlagIsBacked'
    BY <1>3, <1>5, <1>6 DEF OperatorFlagIsBacked, IsGlobalOperator, IsChannelOperator
  <1> QED BY <1>4, <1>7

\* The inductive step for the steps that do not touch the rosters.
LEMMA RightsStep == RightsInv /\ [Next]_vars => (InvitesOnSessionsAreCurrent /\ OperatorFlagIsBacked)'
  <1> SUFFICES ASSUME RightsInv, [Next]_vars
               PROVE  (InvitesOnSessionsAreCurrent /\ OperatorFlagIsBacked)'
    OBVIOUS
  <1> USE DEF IsGlobalOperator, IsChannelOperator
  <1>0. TypeOK /\ InvitesOnSessionsAreCurrent /\ OperatorFlagIsBacked
    BY DEF RightsInv
  <1>1. CASE UNCHANGED <<sessions, invites, globalOps, channelOps>>
    BY <1>0, <1>1 DEF InvitesOnSessionsAreCurrent, OperatorFlagIsBacked, Live
  <1>2. ASSUME NEW s \in Session, NEW call \in Callsign, NEW ch \in Channel,
               LocalJoin(s, call, ch)
        PROVE  (InvitesOnSessionsAreCurrent /\ OperatorFlagIsBacked)'
    BY <1>0, <1>2 DEF LocalJoin, InvitesOnSessionsAreCurrent, OperatorFlagIsBacked, Live, TypeOK
  <1>3. ASSUME NEW s \in Session, NEW ch \in Channel, LocalSwitchChannel(s, ch)
        PROVE  (InvitesOnSessionsAreCurrent /\ OperatorFlagIsBacked)'
    <2>1. sessions[s] \in LocalSession
      BY <1>0, <1>3, LiveSession DEF LocalSwitchChannel, MovedTo
    <2> QED BY <1>0, <1>3, <2>1
            DEF LocalSwitchChannel, MovedTo, InvitesOnSessionsAreCurrent, OperatorFlagIsBacked,
                Live, TypeOK, LocalSession
  <1>4. ASSUME NEW s \in Session, NEW personal \in Text, LocalSetPersonal(s, personal)
        PROVE  (InvitesOnSessionsAreCurrent /\ OperatorFlagIsBacked)'
    <2>1. sessions[s] \in LocalSession
      BY <1>0, <1>4, LiveSession DEF LocalSetPersonal
    <2> QED BY <1>0, <1>4, <2>1
            DEF LocalSetPersonal, InvitesOnSessionsAreCurrent, OperatorFlagIsBacked,
                Live, TypeOK, LocalSession
  <1>5. ASSUME NEW s \in Session, NEW away \in BOOLEAN, LocalSetAway(s, away)
        PROVE  (InvitesOnSessionsAreCurrent /\ OperatorFlagIsBacked)'
    <2>1. sessions[s] \in LocalSession
      BY <1>0, <1>5, LiveSession DEF LocalSetAway
    <2> QED BY <1>0, <1>5, <2>1
            DEF LocalSetAway, InvitesOnSessionsAreCurrent, OperatorFlagIsBacked,
                Live, TypeOK, LocalSession
  <1>6. ASSUME NEW s \in Session, LocalLeave(s)
        PROVE  (InvitesOnSessionsAreCurrent /\ OperatorFlagIsBacked)'
    BY <1>0, <1>6 DEF LocalLeave, InvitesOnSessionsAreCurrent, OperatorFlagIsBacked, Live, TypeOK
  <1>7. ASSUME NEW call \in Callsign, NEW ch \in Channel, RecordInvite(call, ch),
               UNCHANGED <<globalOps, channelOps>>
        PROVE  (InvitesOnSessionsAreCurrent /\ OperatorFlagIsBacked)'
    <2>1. ASSUME NEW s \in Session, Live(s)'
          PROVE  /\ Live(s)
                 /\ sessions'[s].call = sessions[s].call
                 /\ sessions'[s].channel = sessions[s].channel
                 /\ sessions'[s].oper = sessions[s].oper
                 /\ sessions'[s].invited = IF sessions[s].call = call
                                           THEN invites'[call] ELSE sessions[s].invited
      <3>1. CASE s \in SessionsOf(call)
        <4>1. Live(s) /\ sessions[s] \in LocalSession /\ sessions[s].call = call
          BY <1>0, <3>1, LiveSession DEF SessionsOf
        <4>2. sessions'[s] = [sessions[s] EXCEPT !.invited = invites'[call]]
          BY <1>7, <3>1 DEF RecordInvite
        <4> QED BY <4>1, <4>2 DEF LocalSession
      <3>2. CASE s \notin SessionsOf(call)
        BY <1>7, <2>1, <3>2 DEF RecordInvite, SessionsOf, Live
      <3> QED BY <3>1, <3>2
    <2>2. ASSUME NEW s \in Session, Live(s)'
          PROVE  sessions'[s].invited = invites'[sessions'[s].call]
      <3>1. sessions[s].call \in Callsign
        BY <1>0, <2>1, <2>2, LiveSession
      <3>2. CASE sessions[s].call = call
        BY <2>1, <2>2, <3>2
      <3>3. CASE sessions[s].call # call
        <4>1. invites'[sessions[s].call] = invites[sessions[s].call]
          BY <1>0, <1>7, <3>1, <3>3 DEF RecordInvite, TypeOK
        <4>2. sessions[s].invited = invites[sessions[s].call]
          BY <1>0, <2>1, <2>2 DEF InvitesOnSessionsAreCurrent
        <4> QED BY <2>1, <2>2, <3>3, <4>1, <4>2
      <3> QED BY <3>2, <3>3
    <2>3. OperatorFlagIsBacked'
      BY <1>0, <1>7, <2>1 DEF OperatorFlagIsBacked
    <2> QED BY <2>2, <2>3 DEF InvitesOnSessionsAreCurrent
  <1>8. ASSUME NEW s \in Session, NEW ch \in Channel \cup {NoChannel}, NEW grant \in Grants,
               LocalSetOperator(s, ch, grant)
        PROVE  (InvitesOnSessionsAreCurrent /\ OperatorFlagIsBacked)'
    <2>1. grant \in BOOLEAN /\ sessions[s].call \in Callsign
      BY <1>0, <1>8, LiveSession, ConstantsAssumption DEF LocalSetOperator
    <2> QED BY <1>8, <2>1, RefreshKeepsFlagsBacked DEF LocalSetOperator
  <1>9. ASSUME NEW user \in Callsign, NEW ch \in Channel \cup {NoChannel},
               NEW grant \in Grants, HostOper(user, ch, grant)
        PROVE  (InvitesOnSessionsAreCurrent /\ OperatorFlagIsBacked)'
    <2>1. grant \in BOOLEAN
      BY ConstantsAssumption
    <2> QED BY <1>9, <2>1, RefreshKeepsFlagsBacked DEF HostOper
  <1>10. CASE Restart
    BY <1>10 DEF Restart, InvitesOnSessionsAreCurrent, OperatorFlagIsBacked, Live
  <1> QED BY <1>1, <1>2, <1>3, <1>4, <1>5, <1>6, <1>7, <1>8, <1>9, <1>10, RightsSteps

\* Rights on sessions are never stale: the invariant holds throughout.
THEOREM RightsInvariant == Spec => []RightsInv
  <1>1. Init => InvitesOnSessionsAreCurrent /\ OperatorFlagIsBacked
    BY DEF Init, InvitesOnSessionsAreCurrent, OperatorFlagIsBacked, Live
  <1>2. TypeOK /\ (InvitesOnSessionsAreCurrent /\ OperatorFlagIsBacked) /\ [Next]_vars
          => (InvitesOnSessionsAreCurrent /\ OperatorFlagIsBacked)'
    BY RightsStep DEF RightsInv
  <1>3. Spec => [](InvitesOnSessionsAreCurrent /\ OperatorFlagIsBacked)
    BY <1>1, <1>2, TypeCorrect, PTL DEF Spec
  <1> QED BY <1>3, TypeCorrect, PTL DEF RightsInv

\* The copy of the invitations that the switch gate reads is the list that the
\* join gate reads.
THEOREM InvitesAreCurrent == Spec => []InvitesOnSessionsAreCurrent
  BY RightsInvariant, PTL DEF RightsInv

\* No flag outlives the grant it stands for.
THEOREM FlagsAreBacked == Spec => []OperatorFlagIsBacked
  BY RightsInvariant, PTL DEF RightsInv

\* The modes are enforced by the rosters: the flag that LocalSay and
\* LocalSetTopic read is backed, and no other handler emits text or a topic.
THEOREM ModesEnforced == Spec => ModesAreEnforced
  <1> DEFINE Silent == out'.up = None \/ out'.up.verb \notin {"CMSG", "TOPI"}
  <1>1. ASSUME RightsInv, NEW s \in Session, LocalSay(s)
        PROVE  ObeysModes
    <2>1. Live(s) /\ (sessions[s].oper =>
                        \/ sessions[s].call \in globalOps
                        \/ sessions[s].call \in channelOps[sessions[s].channel])
      BY <1>1 DEF LocalSay, RightsInv, OperatorFlagIsBacked, IsGlobalOperator, IsChannelOperator
    <2> QED BY <1>1, <2>1 DEF LocalSay, Emit, ObeysModes, IsGlobalOperator, IsChannelOperator
  <1>2. ASSUME RightsInv, NEW s \in Session, NEW text \in Text, LocalSetTopic(s, text)
        PROVE  ObeysModes
    <2>1. Live(s) /\ (sessions[s].oper =>
                        \/ sessions[s].call \in globalOps
                        \/ sessions[s].call \in channelOps[sessions[s].channel])
      BY <1>2 DEF LocalSetTopic, MaySetTopic, RightsInv, OperatorFlagIsBacked, IsGlobalOperator, IsChannelOperator
    <2> QED BY <1>2, <2>1 DEF LocalSetTopic, MaySetTopic, Emit, ObeysModes, IsGlobalOperator, IsChannelOperator
  <1>3. ASSUME RightsInv, NEW s \in Session, LocalEventOf(s)
        PROVE  ObeysModes
    <2>1. ASSUME NEW call \in Callsign, NEW ch \in Channel, LocalJoin(s, call, ch)
          PROVE  Silent
      BY <2>1 DEF LocalJoin, Emit
    <2>2. ASSUME NEW call \in Callsign, NEW ch \in Channel, LocalJoinRefused(s, call, ch)
          PROVE  Silent
      BY <2>2 DEF LocalJoinRefused, Emit
    <2>3. ASSUME NEW ch \in Channel, LocalSwitchChannel(s, ch)
          PROVE  Silent
      BY <2>3 DEF LocalSwitchChannel, MovedTo, Emit
    <2>4. ASSUME NEW ch \in Channel, LocalSwitchRefused(s, ch)
          PROVE  Silent
      BY <2>4 DEF LocalSwitchRefused, Emit
    <2>5. ASSUME NEW to \in Callsign, LocalPrivateMessage(s, to)
          PROVE  Silent
      BY <2>5 DEF LocalPrivateMessage, Emit
    <2>6. ASSUME NEW personal \in Text, LocalSetPersonal(s, personal)
          PROVE  Silent
      BY <2>6 DEF LocalSetPersonal, Emit
    <2>7. ASSUME NEW away \in BOOLEAN, LocalSetAway(s, away)
          PROVE  Silent
      BY <2>7 DEF LocalSetAway, Emit
    <2>8. ASSUME NEW to \in Callsign, NEW ch \in Channel, LocalInvite(s, to, ch)
          PROVE  Silent
      BY <2>8 DEF LocalInvite, Emit
    <2>9. ASSUME NEW ch \in Channel, NEW options \in Toggles, LocalSetMode(s, ch, options)
          PROVE  Silent
      BY <2>9 DEF LocalSetMode, Emit
    <2>10. ASSUME NEW ch \in Channel \cup {NoChannel}, NEW grant \in Grants,
                 LocalSetOperator(s, ch, grant)
          PROVE  Silent
      BY <2>10 DEF LocalSetOperator, Emit
    <2>11. ASSUME LocalLeave(s)
          PROVE  Silent
      BY <2>11 DEF LocalLeave, Emit
    <2> QED BY <1>1, <1>2, <1>3, <2>1, <2>2, <2>3, <2>4, <2>5, <2>6, <2>7, <2>8, <2>9, <2>10, <2>11
            DEF LocalEventOf, ObeysModes
  <1>4. ASSUME HostEvent
        PROVE  ObeysModes
    <2>1. ASSUME NEW user \in Callsign, NEW host \in Host, NEW ch \in Channel,
                 NEW personal \in Text, HostUser(user, host, ch, personal)
          PROVE  Silent
      BY <2>1 DEF HostUser, PutUser, Emit
    <2>2. ASSUME NEW user \in Callsign, NEW host \in Host, HostUserSignOff(user, host)
          PROVE  Silent
      BY <2>2 DEF HostUserSignOff, RemoveUser, Emit
    <2>3. ASSUME NEW user \in Callsign, NEW host \in Host, NEW personal \in Text,
                 HostPersonal(user, host, personal)
          PROVE  Silent
      BY <2>3 DEF HostPersonal, Emit
    <2>4. ASSUME NEW user \in Callsign, NEW host \in Host, NEW away \in BOOLEAN,
                 HostAway(user, host, away)
          PROVE  Silent
      BY <2>4 DEF HostAway, Emit
    <2>5. ASSUME NEW ch \in Channel, HostChannelMessage(ch)
          PROVE  Silent
      BY <2>5 DEF HostChannelMessage, Emit
    <2>6. ASSUME NEW to \in Callsign, HostPrivateMessage(to)
          PROVE  Silent
      BY <2>6 DEF HostPrivateMessage, Emit
    <2>7. ASSUME NEW user \in Callsign, NEW seconds \in 0..ToUnix(MaxTime),
                 NEW ch \in Channel, NEW text \in Text, HostTopic(user, seconds, ch, text)
          PROVE  Silent
      BY <2>7 DEF HostTopic, PutTopic, Emit
    <2>8. ASSUME NEW user \in Callsign, NEW ch \in Channel, HostInvite(user, ch)
          PROVE  Silent
      BY <2>8 DEF HostInvite, Emit
    <2>9. ASSUME NEW ch \in Channel, NEW options \in Toggles, HostMode(ch, options)
          PROVE  Silent
      BY <2>9 DEF HostMode, Emit
    <2>10. ASSUME NEW user \in Callsign, NEW ch \in Channel \cup {NoChannel}, NEW grant \in Grants,
                 HostOper(user, ch, grant)
          PROVE  Silent
      BY <2>10 DEF HostOper, Emit
    <2>11. ASSUME HostPingOrLoop
          PROVE  Silent
      BY <2>11 DEF HostPingOrLoop, Emit
    <2> QED BY <1>4, <2>1, <2>2, <2>3, <2>4, <2>5, <2>6, <2>7, <2>8, <2>9, <2>10, <2>11
            DEF HostEvent, ObeysModes
  <1>5. RightsInv /\ [Next]_vars => [ObeysModes]_vars
    BY <1>3, <1>4 DEF Next, LocalEvent, Restart, Tick, ObeysModes
  <1> QED BY <1>5, RightsInvariant, PTL DEF Spec, ModesAreEnforced

\* Nobody slips into an invite-only channel on a stale copy: whoever enters
\* holds an entry of _invites, of _globalOps or, switching, of the roster of
\* the channel being left.
THEOREM EntryEarned == Spec => InviteOnlyEntryIsEarned
  <1> USE DEF IsGlobalOperator, IsChannelOperator, IsInvitedTo
  <1> DEFINE Stays(s) == Live(s)' => Live(s) /\ sessions'[s].channel = sessions[s].channel
  <1>1. ASSUME RightsInv, [Next]_vars
        PROVE  EntryIsEarned
    <2>0. TypeOK /\ InvitesOnSessionsAreCurrent /\ OperatorFlagIsBacked
      BY <1>1 DEF RightsInv
    <2>1. CASE UNCHANGED <<sessions, invites, globalOps, channelOps>>
      BY <2>1 DEF EntryIsEarned, Live
    <2>2. ASSUME NEW s \in Session, NEW call \in Callsign, NEW ch \in Channel,
                 LocalJoin(s, call, ch)
          PROVE  EntryIsEarned
      BY <2>0, <2>2 DEF LocalJoin, EntryIsEarned, Live, TypeOK
    <2>3. ASSUME NEW s \in Session, NEW ch \in Channel, LocalSwitchChannel(s, ch)
          PROVE  EntryIsEarned
      <3>1. Live(s) /\ sessions[s] \in LocalSession
        BY <2>0, <2>3, LiveSession DEF LocalSwitchChannel, MovedTo
      <3>2. /\ sessions[s].invited = invites[sessions[s].call]
            /\ sessions[s].oper => \/ sessions[s].call \in globalOps
                                   \/ sessions[s].call \in channelOps[sessions[s].channel]
        BY <2>0, <3>1 DEF InvitesOnSessionsAreCurrent, OperatorFlagIsBacked
      <3>3. /\ sessions'[s].call = sessions[s].call
            /\ sessions'[s].channel = ch
            /\ \A x \in Session \ {s} : sessions'[x] = sessions[x]
        BY <2>0, <2>3, <3>1 DEF LocalSwitchChannel, MovedTo, TypeOK, LocalSession
      <3>4. ~RequiresInvite(modes[ch]) \/ sessions[s].oper \/ ch \in sessions[s].invited
        BY <2>3 DEF LocalSwitchChannel, MovedTo, MaySwitch
      <3> QED BY <3>1, <3>2, <3>3, <3>4 DEF EntryIsEarned, Live
    <2>4. ASSUME \A s \in Session : Stays(s)
          PROVE  EntryIsEarned
      BY <2>4 DEF EntryIsEarned
    <2>5. ASSUME NEW s \in Session, NEW personal \in Text, LocalSetPersonal(s, personal),
                 NEW x \in Session
          PROVE  Stays(x)
      <3>1. Live(s) /\ sessions[s] \in LocalSession
        BY <2>0, <2>5, LiveSession DEF LocalSetPersonal
      <3> QED BY <2>0, <2>5, <3>1 DEF LocalSetPersonal, Live, TypeOK, LocalSession
    <2>6. ASSUME NEW s \in Session, NEW away \in BOOLEAN, LocalSetAway(s, away),
                 NEW x \in Session
          PROVE  Stays(x)
      <3>1. Live(s) /\ sessions[s] \in LocalSession
        BY <2>0, <2>6, LiveSession DEF LocalSetAway
      <3> QED BY <2>0, <2>6, <3>1 DEF LocalSetAway, Live, TypeOK, LocalSession
    <2>7. ASSUME NEW s \in Session, LocalLeave(s), NEW x \in Session
          PROVE  Stays(x)
      BY <2>0, <2>7 DEF LocalLeave, Live, TypeOK
    <2>8. ASSUME NEW call \in Callsign, NEW ch \in Channel, RecordInvite(call, ch),
                 NEW x \in Session
          PROVE  Stays(x)
      <3>1. Live(x) => sessions[x] \in LocalSession
        BY <2>0, LiveSession
      <3> QED BY <2>8, <3>1 DEF RecordInvite, SessionsOf, Live, LocalSession
    <2>9. ASSUME NEW call \in Callsign, RefreshSessionOpFlags(call), NEW x \in Session
          PROVE  Stays(x)
      <3>1. Live(x) => sessions[x] \in LocalSession
        BY <2>0, LiveSession
      <3> QED BY <2>9, <3>1 DEF RefreshSessionOpFlags, SessionsOf, Live, LocalSession
    <2>10. ASSUME Restart, NEW x \in Session
           PROVE  Stays(x)
      BY <2>10 DEF Restart, Live
    <2>11. ASSUME NEW s \in Session, NEW ch \in Channel \cup {NoChannel},
                  NEW grant \in Grants, LocalSetOperator(s, ch, grant)
           PROVE  \A x \in Session : Stays(x)
      <3>1. sessions[s].call \in Callsign /\ RefreshSessionOpFlags(sessions[s].call)
        BY <2>0, <2>11, LiveSession DEF LocalSetOperator
      <3> QED BY <3>1, <2>9
    <2>12. ASSUME NEW user \in Callsign, NEW ch \in Channel \cup {NoChannel},
                  NEW grant \in Grants, HostOper(user, ch, grant)
           PROVE  \A x \in Session : Stays(x)
      BY <2>9, <2>12 DEF HostOper
    <2>13. \/ UNCHANGED <<sessions, invites, globalOps, channelOps>>
           \/ \E s \in Session, call \in Callsign, ch \in Channel : LocalJoin(s, call, ch)
           \/ \E s \in Session, ch \in Channel : LocalSwitchChannel(s, ch)
           \/ \A x \in Session : Stays(x)
      BY <1>1, <2>5, <2>6, <2>7, <2>8, <2>10, <2>11, <2>12, RightsSteps
    <2> QED BY <2>1, <2>2, <2>3, <2>4, <2>13
  <1> QED BY <1>1, RightsInvariant, PTL DEF Spec, InviteOnlyEntryIsEarned

=============================================================================
