------------------------------- MODULE MCHub --------------------------------
(***************************************************************************)
(* Instances of ConversHub for TLC.  The hub's whole state space is out of *)
(* reach even for two users, so a behaviour belongs to one of four         *)
(* families of events, the handlers that share state, and each family is   *)
(* explored to the end.                                                    *)
(***************************************************************************)
EXTENDS ConversHub, TLC

CONSTANT Families   \* those that are explored

VARIABLE family     \* the one the behaviour belongs to

Plus(l) == [on |-> {l}, off |-> {}]
Minus(l) == [on |-> {}, off |-> {l}]

SwitchOnOff == UNION {{Plus(l), Minus(l)} : l \in {"m", "p", "t"}}

Symmetry == Permutations(Session) \cup Permutations(Callsign)
                \cup Permutations(RemoteHost)

Attach ==
    \E s \in Session, call \in Callsign, ch \in Channel : LocalJoin(s, call, ch)

Detach == \E s \in Session : LocalLeave(s)

Move == \E s \in Session, ch \in Channel : LocalSwitchChannel(s, ch)

\* Presence: who is where, who is away, and who is told.
PresenceNext ==
    \/ Attach \/ Detach \/ Move \/ Restart
    \/ \E s \in Session :
         \/ \E to \in Callsign : LocalPrivateMessage(s, to)
         \/ \E away \in BOOLEAN : LocalSetAway(s, away)
    \/ \E user \in Callsign, host \in Host :
         \/ \E ch \in Channel : HostUser(user, host, ch, NoText)
         \/ HostUserSignOff(user, host)
         \/ \E away \in BOOLEAN : HostAway(user, host, away)
    \/ \E ch \in Channel : HostChannelMessage(ch)
    \/ \E to \in Callsign : HostPrivateMessage(to)

\* Operators: what the rosters say, what the flags say, and who may speak.
OperatorsNext ==
    \/ Attach \/ Detach \/ Move \/ Restart
    \/ \E s \in Session :
         \/ LocalSay(s)
         \/ \E ch \in Channel, options \in {Plus("m"), Minus("m")} :
              LocalSetMode(s, ch, options)
         \/ \E grant \in Grants : LocalSetOperator(s, NoChannel, grant)
    \/ \E ch \in Channel, options \in {Plus("m"), Minus("m")} : HostMode(ch, options)
    \/ \E user \in Callsign, ch \in Channel \cup {NoChannel}, grant \in Grants :
         HostOper(user, ch, grant)

\* Invitations: who may enter what is closed.
InvitationsNext ==
    \/ Attach \/ Detach \/ Move \/ Restart
    \/ \E s \in Session :
         \/ \E call \in Callsign, ch \in Channel : LocalJoinRefused(s, call, ch)
         \/ \E ch \in Channel : LocalSwitchRefused(s, ch)
         \/ \E to \in Callsign, ch \in Channel : LocalInvite(s, to, ch)
         \/ \E ch \in Channel, options \in {Plus("p"), Minus("p")} :
              LocalSetMode(s, ch, options)
    \/ \E user \in Callsign, ch \in Channel : HostInvite(user, ch)
    \/ \E ch \in Channel, options \in {Plus("p"), Minus("p")} : HostMode(ch, options)
    \/ \E user \in Callsign, ch \in Channel \cup {NoChannel} : HostOper(user, ch, TRUE)

\* Topics and personal texts: what is remembered, by whom and since when.  One session
\* and one channel are enough, the other writers being remote.
TextsNext ==
    \/ \E s \in Session, call \in Callsign :
         (\A other \in Session : ~ Live(other)) /\ LocalJoin(s, call, 1)
    \/ Detach \/ Restart \/ Tick
    \/ \E s \in Session, text \in Text :
         LocalSetPersonal(s, text) \/ LocalSetTopic(s, text)
    \/ \E user \in Callsign, seconds \in 0..ToUnix(MaxTime), text \in Text :
         HostTopic(user, seconds, 1, text)
    \/ \E user \in Callsign, text \in Text : HostPersonal(user, HostName, text)
    \/ \E options \in {Plus("t"), Minus("t")} : HostMode(1, options)
    \/ \E user \in Callsign : HostOper(user, NoChannel, TRUE)
    \/ HostPingOrLoop

HubInit == Init /\ family \in Families

HubNext ==
    /\ UNCHANGED family
    /\ \/ family = "presence" /\ PresenceNext
       \/ family = "operators" /\ OperatorsNext
       \/ family = "invitations" /\ InvitationsNext
       \/ family = "texts" /\ TextsNext

HubSpec == HubInit /\ [][HubNext]_<<vars, family>>

=============================================================================
