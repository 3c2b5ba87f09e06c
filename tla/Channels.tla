------------------------------ MODULE Channels ------------------------------
(***************************************************************************)
(* The users and channels of one conversd (reference/conversd-saupp): the  *)
(* local sessions with their channel lists and operator flags, the users   *)
(* the neighbours announced, the channel records with their modes, expiry  *)
(* and netsplit lock, and what every neighbour was told of all that.       *)
(*                                                                         *)
(* conversd is one select() loop, so one action is one handler with every  *)
(* call it makes; helpers are operators from a state to a state, the       *)
(* record S holding all the variables.                                     *)
(*                                                                         *)
(* A name stands for one session: second logins under the same call, and   *)
(* nicknames, are left out.  A host is where its users are; the table of   *)
(* destinations that handlers ask first is in module Permlinks.  Times are *)
(* left out; a timer that is running may expire at any time.  What is      *)
(* shown to users is modelled for channel messages only.                   *)
(***************************************************************************)
EXTENDS Integers, FiniteSets, FiniteSetsExt

CONSTANTS
    Users,             \* names of local users
    Remote,            \* names of users of other hosts
    HostOf,            \* the host of each remote user
    Links,             \* neighbour hosts
    Featured,          \* neighbours with FEATURE_SAUPP_I: they get NJ, UQUIT and SQUIT
    Chans,             \* channel numbers
    Flags,             \* mode letters, of "s", "p", "t", "i", "m", "l"
    Observers,         \* users who may only listen
    Sysops,            \* local users who know the secret number
    BanZero,           \* configuration ban_zero
    RemoteAdmin,       \* configuration: secretnumber is negative
    Null

NoChan == -1
Names == Users \cup Remote

ASSUME ChannelBounds ==
    /\ Chans \subseteq Nat
    /\ Featured \subseteq Links
    /\ Sysops \subseteq Users
    /\ Observers \subseteq Names
    /\ Users \cap Remote = {}
    /\ Names \cap Links = {}
    /\ Null \notin Names \cup Links
    /\ {BanZero, RemoteAdmin} \subseteq BOOLEAN
    /\ IsFiniteSet(Names) /\ IsFiniteSet(Links) /\ IsFiniteSet(Chans)

VARIABLES
    user,    \* local sessions
    remote,  \* users reached over a neighbour, one entry per channel
    chan,    \* channel records
    up,      \* neighbours that are connected
    told     \* per neighbour, the users on channels it believes to be behind us

vars == <<user, remote, chan, up, told>>

S == [user |-> user, remote |-> remote, chan |-> chan, up |-> up, told |-> told]

Become(state) ==
    \E s \in {state} :
        /\ user' = s.user
        /\ remote' = s.remote
        /\ chan' = s.chan
        /\ up' = s.up
        /\ told' = s.told

\* irc is ircmode, channel the default channel, list is chan_list, ops the entries of it that have
\* channelop, channelop the session's own copy for the default channel.
Session == [on : BOOLEAN, irc : BOOLEAN, channel : Chans \cup {NoChan},
            list : SUBSET Chans, ops : SUBSET Chans, channelop : BOOLEAN,
            sysop : BOOLEAN, invited : Nat]

\* invitation_channel is zeroed with the rest of the connection.
Offline == [on |-> FALSE, irc |-> FALSE, channel |-> NoChan,
            list |-> {}, ops |-> {}, channelop |-> FALSE, sysop |-> FALSE, invited |-> 0]

Entry == [name : Remote, via : Links, channel : Chans, op : BOOLEAN]

\* expires: nobody is left, the record goes in an hour.  locked: a netsplit emptied it.
ChannelRecord == [flags : SUBSET Flags, createby : Names, expires : BOOLEAN,
                  locked : BOOLEAN]

ASSUME NoRecord == Null \notin ChannelRecord

NewChannel(name) == [flags |-> {}, createby |-> name, expires |-> FALSE, locked |-> FALSE]

-----------------------------------------------------------------------------
(***************************************************************************)
(* Members.                                                                *)
(***************************************************************************)
LocalsOn(s, c) == {u \in Users : c \in s.user[u].list}
RemotesOn(s, c) == {e \in s.remote : e.channel = c}

count_user(s, c) == Cardinality(LocalsOn(s, c)) + Cardinality(RemotesOn(s, c))

\* No record, or the record of a channel everybody has left.
Vacant(s, c) == s.chan[c] = Null \/ s.chan[c].expires

HasFlag(s, c, f) == s.chan[c] # Null /\ f \in s.chan[c].flags

-----------------------------------------------------------------------------
(***************************************************************************)
(* What neighbours are told.                                               *)
(***************************************************************************)

\* A featured neighbour is not told of a departure that a UQUIT or SQUIT announced.
HostsToTell(s, from, new, quits_sent) ==
    (s.up \ {from}) \ (IF new = NoChan /\ quits_sent THEN Featured ELSE {})

\* Mutant: a departure is told as a move to channel -1.
TellMove(s, from, name, old, new, quits_sent) ==
    LET hear == HostsToTell(s, from, new, quits_sent)
    IN  [s EXCEPT !.told = [l \in Links |->
            IF l \notin hear THEN @[l]
            ELSE (@[l] \ {<<name, old>>}) \cup {<<name, new>>}]]

\* A user left old (or NoChan) and joined new (or NoChan).
send_user_change_msg(s, from, name, old, new, quits_sent) ==
    LET hear == HostsToTell(s, from, new, quits_sent)
    IN  [s EXCEPT !.told = [l \in Links |->
            IF l \notin hear THEN @[l]
            ELSE (@[l] \ {<<name, old>>}) \cup ({<<name, new>>} \ {<<name, NoChan>>})]]

\* Mutant: the quit goes to the neighbour it came from.
QuitReturned(s, from, names) ==
    [s EXCEPT !.told = [l \in Links |->
        IF l \in Featured \cap s.up \cap {from}
        THEN {k \in @[l] : k[1] \notin names} ELSE @[l]]]

\* UQUIT of a user or SQUIT of a host: everything of those users is gone.
send_quits(s, from, names) ==
    [s EXCEPT !.told = [l \in Links |->
        IF l \in (Featured \cap s.up) \ {from}
        THEN {k \in @[l] : k[1] \notin names} ELSE @[l]]]

-----------------------------------------------------------------------------
(***************************************************************************)
(* Channel records.                                                        *)
(***************************************************************************)
\* The modes stay until the record is dropped or the lock runs out.
destroy_channel(s, c, lock) ==
    IF s.chan[c] = Null THEN s
    ELSE [s EXCEPT !.chan[c] = [@ EXCEPT !.expires = TRUE, !.locked = lock]]

\* The record of a channel somebody local enters.
Entered(s, c, name) ==
    IF s.chan[c] = Null THEN NewChannel(name)
    ELSE IF s.chan[c].expires
         THEN [s.chan[c] EXCEPT !.createby = name, !.expires = FALSE, !.locked = FALSE]
         ELSE s.chan[c]

\* Mutant: only the first of the channels that were left is looked at.
FirstLeft(s, chans, lock) ==
    IF count_user(s, Min(chans)) = 0 THEN destroy_channel(s, Min(chans), lock) ELSE s

\* After a departure.  update_channel_history, for the channels that live on, only adds
\* to the history.
Left(s, chans, lock) ==
    LET empty == {c \in chans : count_user(s, c) = 0 /\ s.chan[c] # Null}
    IN  IF empty = {} THEN s
        ELSE [s EXCEPT !.chan = [c \in Chans |->
                IF c \in empty THEN destroy_channel(s, c, lock).chan[c] ELSE @[c]]]

\* The loop over chan_list, or over the users of a link or host, in which everybody
\* named in gone (pairs of a name and a channel) leaves.
Depart(s, from, gone, lock) ==
    LET hear == HostsToTell(s, from, NoChan, TRUE)
        s1 == [s EXCEPT !.told = [l \in Links |-> IF l \in hear THEN @[l] \ gone ELSE @[l]]]
    IN  IF gone = {} THEN s ELSE Left(s1, {k[2] : k \in gone}, lock)

-----------------------------------------------------------------------------
(***************************************************************************)
(* Local users.                                                            *)
(***************************************************************************)
UserQuits(s, u) ==
    Depart([send_quits(s, Null, {u}) EXCEPT !.user[u] = Offline],
           Null, {<<u, c>> : c \in s.user[u].list}, FALSE)

\* /quit, and any end of a local session.
bye_command(u) ==
    /\ user[u].on
    /\ Become(UserQuits(S, u))

\* The session of u with c in chan_list and as the default channel.
Joined(s, u, c) ==
    LET fresh == Vacant(s, c) /\ u \notin Observers
    IN  [s.user[u] EXCEPT
            !.list = @ \cup {c},
            !.ops = IF fresh THEN @ \cup {c} ELSE @,
            !.channel = c,
            !.channelop = IF Vacant(s, c) THEN @ \/ fresh ELSE FALSE]

\* u enters c.
Join(s, u, c) ==
    [send_user_change_msg(s, Null, u, NoChan, c, FALSE) EXCEPT
        !.user[u] = Joined(s, u, c),
        !.chan[c] = Entered(s, c, u)]

\* Mutant: a channel that is running out counts as free.
FreeWhenEmpty(s, u, c) ==
    s.chan[c] # Null /\ s.chan[c].locked /\ ~ s.chan[c].expires

\* Held back for its creator while a netsplit may heal (rfc2811 channel delay).
NetsplitLocked(s, u, c) ==
    s.chan[c] # Null /\ s.chan[c].locked /\ s.chan[c].createby # u

Permitted(s, u, c) == (BanZero /\ c = 0) => s.user[u].sysop

NeedsInvitation(s, u, c) == HasFlag(s, c, "p") /\ s.user[u].invited # c

\* /channel c, for a channel the session has not joined.
JoinChannel(u, c) ==
    /\ user[u].on /\ c \notin user[u].list /\ Permitted(S, u, c)
    /\ ~ NeedsInvitation(S, u, c)
    /\ user[u].sysop \/ ~ NetsplitLocked(S, u, c)
    /\ Become(Join(S, u, c))

\* A sysop who is turned away may try again.
SysopRefused(u, c) ==
    /\ user[u].on /\ c \notin user[u].list
    /\ NeedsInvitation(S, u, c) /\ user[u].sysop
    /\ Become([S EXCEPT !.user[u].invited = c])

Switched(s, u, c) ==
    [s.user[u] EXCEPT
        !.channel = c,
        !.channelop = IF Vacant(s, c) THEN @ \/ u \notin Observers ELSE c \in s.user[u].ops]

\* /channel c, for a channel that is already joined.
SwitchChannel(u, c) ==
    /\ c \in user[u].list \ {user[u].channel} /\ ~ user[u].irc /\ Permitted(S, u, c)
    /\ Become([S EXCEPT !.user[u] = Switched(S, u, c), !.chan[c] = Entered(S, c, u)])

\* Mutant: the flag of the channel that was left stays with the session.
LeaveKeepsFlag(s, u, c) ==
    [s EXCEPT !.user[u].list = @ \ {c}, !.user[u].ops = @ \ {c},
              !.user[u].channel = IF @ # c THEN @
                                  ELSE IF s.user[u].list = {c} THEN NoChan
                                  ELSE Min(s.user[u].list \ {c})]

\* Session r without c; the lowest channel of the rest becomes the default.
Without(r, c) ==
    LET rest == r.list \ {c}
        default == IF r.channel # c THEN r.channel
                   ELSE IF rest = {} THEN NoChan ELSE Min(rest)
    IN  [r EXCEPT !.list = rest,
                  !.ops = @ \ {c},
                  !.channel = default,
                  !.channelop = IF r.channel # c THEN @ ELSE default \in r.ops]

\* c leaves chan_list.
Unlisted(s, u, c) == [s EXCEPT !.user[u] = Without(@, c)]

\* /leave: a convers session ends with its last channel.
leave_command(u, c) ==
    /\ c \in user[u].list
    /\ Become(IF user[u].list = {c} /\ ~ user[u].irc THEN UserQuits(S, u)
              ELSE Left(send_user_change_msg(Unlisted(S, u, c), Null, u, c, NoChan, FALSE),
                        {c}, FALSE))

-----------------------------------------------------------------------------
(***************************************************************************)
(* Logging in.                                                             *)
(***************************************************************************)
\* Mutant: the invitation is asked for on /channel only.
LoginAnywhere(s, u, c) == ~ NetsplitLocked(s, u, c)

MayLogin(s, u, c) == ~ NetsplitLocked(s, u, c) /\ ~ HasFlag(s, c, "p")

\* /name: wanted, or a channel nobody uses when that one is closed to the user.
user_login_convers_partA(u, wanted, spare) ==
    /\ ~ user[u].on /\ ~ (BanZero /\ wanted = 0)
    /\ MayLogin(S, u, wanted) \/ chan[spare] = Null
    /\ Become(Join([S EXCEPT !.user[u].on = TRUE], u,
                   IF MayLogin(S, u, wanted) THEN wanted ELSE spare))

\* NICK and USER: no channel yet.
user_login_irc_partA(u) ==
    /\ ~ user[u].on
    /\ Become([S EXCEPT !.user[u] = [@ EXCEPT !.on = TRUE, !.irc = TRUE]])

\* The right answer to /operator.
operator_command(u) ==
    /\ user[u].on /\ u \in Sysops
    /\ Become([S EXCEPT !.user[u].sysop = TRUE])

-----------------------------------------------------------------------------
(***************************************************************************)
(* Invitations.                                                            *)
(***************************************************************************)
\* A local user is told, unless he is on the channel.
send_invite_msg(s, to, c) ==
    IF s.user[to].on /\ c \notin s.user[to].list
    THEN [s EXCEPT !.user[to].invited = c] ELSE s

invite_command(u, to, c) ==
    /\ user[u].on /\ ~ Vacant(S, c)
    /\ c \in user[u].list \cup {user[u].channel}
    /\ HasFlag(S, c, "p") => \/ user[u].sysop
                             \/ user[u].channel = c /\ user[u].channelop
                             \/ user[u].channel # c /\ c \in user[u].ops
    /\ Become(send_invite_msg(S, to, c))

h_invi_command(l, to, c) ==
    /\ l \in up
    /\ Become(send_invite_msg(S, to, c))

-----------------------------------------------------------------------------
(***************************************************************************)
(* Modes and operators.                                                    *)
(***************************************************************************)
\* Channel 0 takes no mode but +t.
Allowed(c, letters) == IF c = 0 THEN letters \cap {"t"} ELSE letters

SetModes(s, c, add, remove) ==
    [s EXCEPT !.chan[c].flags = (@ \ remove) \cup Allowed(c, add)]

\* What an irc letter means here.
IrcMeaning(f) ==
    CASE f = "s" -> {"i"} [] f = "p" -> {"s"} [] f = "i" -> {"p"} [] f = "l" -> {}
      [] OTHER -> {f}

MayMode(s, u, c) ==
    /\ s.user[u].on /\ s.chan[c] # Null
    /\ c \in s.user[u].ops \/ s.user[u].sysop
    /\ c = 0 => s.user[u].sysop

\* /mode c +f or -f.
mode_command(u, c, f, remove) ==
    LET letters == (IF user[u].irc THEN IrcMeaning(f) ELSE {f}) \cap Flags
    IN  /\ MayMode(S, u, c)
        /\ Become(IF remove THEN SetModes(S, c, {}, letters) ELSE SetModes(S, c, letters, {}))

\* Session r, and everything that goes by name behind a neighbour, is operator of c; entry
\* is the channel of chan_list that is marked.
OpHere(r, c, entry) ==
    [r EXCEPT !.channelop = @ \/ r.channel = c, !.ops = @ \cup ({entry} \cap r.list)]

OpThere(s, name, c) ==
    {IF e.name = name /\ e.channel = c THEN [e EXCEPT !.op = TRUE] ELSE e : e \in s.remote}

\* /mode c +o name.
MakeOp(s, name, c) ==
    [s EXCEPT !.user = [u \in Users |-> IF u = name THEN OpHere(@[u], c, c) ELSE @[u]],
              !.remote = OpThere(s, name, c)]

ModeOp(u, c, name) ==
    /\ MayMode(S, u, c) /\ name \notin Observers
    /\ Become(MakeOp(S, name, c))

\* A neighbour's MODE names all the flags of the channel: -sptiml+FLAGS.
HostMode(l, c, flags) ==
    /\ l \in up /\ chan[c] # Null
    /\ Become(SetModes(S, c, flags, Flags))

\* A neighbour's OPER for a channel.  The entry of chan_list that is marked is the one
\* of the user's default channel, whatever channel the line names.
h_oper_command(l, name, c) ==
    /\ l \in up /\ name \notin Observers
    /\ Become([S EXCEPT
            !.user = [u \in Users |->
                         IF u = name THEN OpHere(@[u], c, user[u].channel) ELSE @[u]],
            !.remote = OpThere(S, name, c)])

\* OPER for channel -1: with remote administration a local user becomes sysop.
HostOperator(l, u) ==
    /\ l \in up /\ user[u].on /\ u \notin Observers /\ RemoteAdmin
    /\ Become([S EXCEPT !.user[u].sysop = TRUE])

HasOp(s, c) ==
    \/ \E u \in LocalsOn(s, c) \ Observers :
          IF s.user[u].channel = c THEN s.user[u].channelop ELSE c \in s.user[u].ops
    \/ \E e \in RemotesOn(s, c) : e.op /\ e.name \notin Observers

\* Mutant: the net is left to look after the channels it has users on.
OplessHereOnly(c, name) ==
    /\ chan[c] # Null /\ ~ (BanZero /\ c = 0)
    /\ ~ HasOp(S, c) /\ RemotesOn(S, c) = {}
    /\ name \in LocalsOn(S, c) \ Observers
    /\ Become(MakeOp(S, name, c))

\* A channel with members here but without an operator gets one of its members; which,
\* depends on authentication, absence and login time.
check_opless_channels(c, name) ==
    /\ chan[c] # Null /\ ~ (BanZero /\ c = 0)
    /\ ~ HasOp(S, c)
    /\ LocalsOn(S, c) \ Observers # {}
    /\ name \in (LocalsOn(S, c) \cup {e.name : e \in RemotesOn(S, c)}) \ Observers
    /\ Become(MakeOp(S, name, c))

-----------------------------------------------------------------------------
(***************************************************************************)
(* Neighbours.                                                             *)
(***************************************************************************)
\* Everybody we know, but who came from there.
Known(s, l) ==
    {k \in Users \X Chans : k[2] \in s.user[k[1]].list}
        \cup {<<e.name, e.channel>> : e \in {e \in s.remote : e.via # l}}

\* The burst that follows the HOST line of a neighbour.
h_host_command(l) ==
    /\ l \notin up
    /\ Become([S EXCEPT !.up = @ \cup {l}, !.told[l] = Known(S, l)])

\* The users with these names leave who came over l.
QuitVia(s, l, names, lock) ==
    LET gone == {e \in s.remote : e.via = l /\ e.name \in names}
    IN  Depart([send_quits(s, l, names) EXCEPT !.remote = @ \ gone],
               l, {<<e.name, e.channel>> : e \in gone}, lock)

\* The connection to a neighbour is gone: SQUITs for its hosts, then every user.
LinkQuits(s, l) ==
    QuitVia([s EXCEPT !.up = @ \ {l}, !.told[l] = {}], l,
            {e.name : e \in {e \in s.remote : e.via = l}}, TRUE)

bye_command2(l) ==
    /\ l \in up
    /\ Become(LinkQuits(S, l))

\* The host of a user is already known over another link.
HostElsewhere(s, l, name) ==
    \E e \in s.remote : e.via # l /\ HostOf[e.name] = HostOf[name]

\* A user of a host that is known over another link has come round a loop.
checkhost(s, l, name) == ~ HostElsewhere(s, l, name)

\* The record of a channel a remote user enters; older: he joined before it was created here.
Awakened(s, c, name, creator, older) ==
    LET claims == creator /\ name \notin Observers /\ (s.chan[c].expires \/ older)
    IN  IF s.chan[c] = Null THEN NewChannel(name)
        ELSE [s.chan[c] EXCEPT !.createby = IF claims THEN name ELSE @,
                               !.expires = FALSE, !.locked = FALSE]

\* The user enters the table.
RemoteJoins(s, l, c, name, op, creator, older) ==
    [s EXCEPT
        !.remote = @ \cup {[name |-> name, via |-> l, channel |-> c,
                            op |-> op /\ name \notin Observers]},
        !.chan[c] = Awakened(s, c, name, creator, older)]

\* USER or NJ with a join: an entry that is there already is dropped.
make_new_user(s, l, c, name, op, creator, older) ==
    IF \E e \in s.remote : e.name = name /\ e.via = l /\ e.channel = c THEN s
    ELSE send_user_change_msg(RemoteJoins(s, l, c, name, op, creator, older),
                              l, name, NoChan, c, FALSE)

\* USER from -1 to c, from neighbours without NJ.
h_user_join(l, name, c) ==
    /\ l \in up
    /\ Become(IF ~ checkhost(S, l, name) THEN LinkQuits(S, l)
              ELSE make_new_user(S, l, c, name, FALSE, FALSE, FALSE))

\* NJ: a join that tells operators, creators and modes.
h_netjoin_command(l, name, c, op, creator, older, modes) ==
    /\ l \in up
    /\ creator => op
    /\ older => creator
    /\ Become(IF ~ checkhost(S, l, name) THEN LinkQuits(S, l)
              ELSE LET t == make_new_user(S, l, c, name, op, creator, older)
                   IN  IF t.remote = remote THEN t ELSE SetModes(t, c, modes, {}))

\* The user's entry for old is moved to new, and nothing is done for the new channel.
RemoteMoves(s, l, name, old, new) ==
    LET at == {e \in s.remote : e.name = name /\ e.via = l /\ e.channel = old}
    IN  IF at = {} THEN s
        ELSE send_user_change_msg(
                Left([s EXCEPT !.remote = (@ \ at) \cup {[e EXCEPT !.channel = new] : e \in at}],
                     {old}, FALSE),
                l, name, old, new, FALSE)

RemoteLeaves(s, l, name, old) ==
    LET rest == {e \in s.remote : ~ (e.name = name /\ e.via = l /\ e.channel = old)}
    IN  Left(send_user_change_msg([s EXCEPT !.remote = rest], l, name, old, NoChan, FALSE),
             {old}, FALSE)

\* USER from old to new.
h_user_switch(l, name, old, new) ==
    /\ l \in up /\ old # new
    /\ Become(IF ~ checkhost(S, l, name) THEN LinkQuits(S, l)
              ELSE RemoteMoves(S, l, name, old, new))

\* USER from old to -1.
h_user_leave(l, name, old) ==
    /\ l \in up
    /\ Become(IF ~ checkhost(S, l, name) THEN LinkQuits(S, l)
              ELSE RemoteLeaves(S, l, name, old))

\* UQUIT of a user.  Of one that is behind another link it is dropped.
h_uquit_command(l, name) ==
    /\ l \in up
    /\ ~ HostElsewhere(S, l, name)
    /\ Become(QuitVia(S, l, {name}, FALSE))

\* SQUIT of a host, or a departure whose reason tells of a broken link.
h_squit_command(l, name) ==
    /\ l \in up
    /\ ~ HostElsewhere(S, l, name)
    /\ Become(QuitVia(S, l, {n \in Remote : HostOf[n] = HostOf[name]}, TRUE))

-----------------------------------------------------------------------------
(***************************************************************************)
(* Timers.                                                                 *)
(***************************************************************************)
expire_destroyed_channels(c) ==
    /\ chan[c] # Null /\ chan[c].expires
    /\ \/ Become([S EXCEPT !.chan[c] = Null])
       \/ /\ chan[c].locked
          /\ Become([S EXCEPT !.chan[c] = [@ EXCEPT !.locked = FALSE, !.flags = {}]])

-----------------------------------------------------------------------------
(***************************************************************************)
(* Messages.  They change nothing here; what matters is who gets them.     *)
(***************************************************************************)
\* Mutant: the channel list is not searched.
DefaultChannelOnly(s, from, c) ==
    IF s.chan[c] = Null THEN {}
    ELSE {u \in Users \ {from} : s.user[u].channel = c}
            \cup {e.via : e \in RemotesOn(s, c)}

\* The local users and neighbours that get a message from a user or neighbour.
send_msg_to_channel2(s, from, c) ==
    IF s.chan[c] = Null THEN {}
    ELSE {u \in Users \ {from} : s.user[u].channel = c \/ c \in s.user[u].list}
            \cup (IF "l" \in s.chan[c].flags THEN {}
                  ELSE {e.via : e \in RemotesOn(s, c)} \ {from})

\* A plain line, or /all.
all_command(s, u) ==
    LET c == s.user[u].channel
    IN  IF c # NoChan /\ s.chan[c] # Null
           /\ (s.user[u].sysop \/ s.user[u].channelop \/ ~ HasFlag(s, c, "m"))
        THEN send_msg_to_channel2(s, u, c) ELSE {}

\* /msg to a channel.  The mode that is looked up is the one of the default channel.
msg_command(s, u, c) ==
    LET default == s.user[u].channel
    IN  IF c \in s.user[u].list /\ default # NoChan /\ s.chan[default] # Null
           /\ (c \in s.user[u].ops \/ ~ HasFlag(s, default, "m"))
        THEN send_msg_to_channel2(s, u, c) ELSE {}

\* A private message: the local users and neighbours that get it.
send_msg_to_user2(s, from, to) ==
    {u \in Users \ {from} : u = to /\ s.user[u].on}
        \cup ({e.via : e \in {e \in s.remote : e.name = to}} \ {from})

-----------------------------------------------------------------------------
Init ==
    /\ user = [u \in Users |-> Offline]
    /\ remote = {}
    /\ chan = [c \in Chans |-> Null]
    /\ up = {}
    /\ told = [l \in Links |-> {}]

FromUser(u) ==
    \/ bye_command(u)
    \/ user_login_irc_partA(u)
    \/ operator_command(u)
    \/ \E c \in Chans :
          \/ JoinChannel(u, c)
          \/ SysopRefused(u, c)
          \/ SwitchChannel(u, c)
          \/ leave_command(u, c)
          \/ \E spare \in Chans : user_login_convers_partA(u, c, spare)
          \/ \E to \in Users : invite_command(u, to, c)
          \/ \E f \in Flags, remove \in BOOLEAN : mode_command(u, c, f, remove)
          \/ \E name \in Names : ModeOp(u, c, name)

FromNeighbour(l) ==
    \/ h_host_command(l)
    \/ bye_command2(l)
    \/ \E u \in Users : HostOperator(l, u)
    \/ \E c \in Chans :
          \/ \E u \in Users : h_invi_command(l, u, c)
          \/ \E flags \in SUBSET Flags : HostMode(l, c, flags)
          \/ \E name \in Names : h_oper_command(l, name, c)
          \/ \E name \in Remote :
                \/ h_user_join(l, name, c)
                \/ \E op, creator, older \in BOOLEAN, modes \in SUBSET Flags :
                      h_netjoin_command(l, name, c, op, creator, older, modes)
                \/ \E new \in Chans : h_user_switch(l, name, c, new)
                \/ h_user_leave(l, name, c)
    \/ \E name \in Remote : h_uquit_command(l, name) \/ h_squit_command(l, name)

MainLoop ==
    \E c \in Chans :
        \/ expire_destroyed_channels(c)
        \/ \E name \in Names : check_opless_channels(c, name)

Next ==
    \/ \E u \in Users : FromUser(u)
    \/ \E l \in Links : FromNeighbour(l)
    \/ MainLoop

\* The main loop runs check_opless_channels every quarter of an hour, for every channel.
Fairness ==
    \A c \in Chans : WF_vars(\E name \in Names : check_opless_channels(c, name))

Spec == Init /\ [][Next]_vars /\ Fairness

-----------------------------------------------------------------------------
\* The variables have the shapes the declarations above give.
TypeOK ==
    /\ user \in [Users -> Session]
    /\ remote \subseteq Entry
    /\ chan \in [Chans -> ChannelRecord \cup {Null}]
    /\ up \subseteq Links
    /\ told \in [Links -> SUBSET (Names \X Chans)]

\* The default channel of a session is in its chan_list, and the session's copy of the
\* operator flag never claims what the entry of that channel does not grant: process_input
\* and invite_command trust the copy, mode_command and msg_command the list.
OperatorFlagsBacked ==
    \A u \in Users :
        /\ user[u].ops \subseteq user[u].list
        /\ user[u].channel = NoChan <=> user[u].list = {}
        /\ user[u].channel # NoChan => user[u].channel \in user[u].list
        /\ user[u].channelop => user[u].channel \in user[u].ops

\* A channel with members here has a record that is not running out, and no record outlives
\* the last member: no departure, netsplit or quit leaves one behind, and none is dropped
\* or locked under local members.
RecordsFollowMembers ==
    \A c \in Chans :
        /\ LocalsOn(S, c) # {} => ~ Vacant(S, c)
        /\ ~ Vacant(S, c) => count_user(S, c) > 0
        /\ chan[c] # Null /\ chan[c].locked => chan[c].expires

\* What a connected neighbour believes to be behind us is what is: the joins, switches,
\* departures, quits and bursts it was sent add up to our table without its own users,
\* whether it understands NJ and the quits or has to be told user by user.
NeighboursKnowOurUsers ==
    \A l \in Links : told[l] = IF l \in up THEN Known(S, l) ELSE {}

\* Whom a neighbour was told of, it reaches: what it writes to a channel is read here by
\* exactly the local users it believes to be on it, whatever their default channels are,
\* and a private message from it to anybody behind us takes one way, and not back.
\* What an operator writes to his channel reaches all the other members here.
AnnouncedUsersAreReached ==
    /\ \A l \in up, c \in Chans :
          /\ send_msg_to_channel2(S, l, c) \cap Users = {u \in Users : <<u, c>> \in told[l]}
          /\ \A n \in Names : <<n, c>> \in told[l] =>
                Cardinality(send_msg_to_user2(S, l, n)) = 1
    /\ \A u \in Users :
          /\ \A c \in user[u].ops : LocalsOn(S, c) \subseteq msg_command(S, u, c) \cup {u}
          /\ user[u].channelop =>
                LocalsOn(S, user[u].channel) \subseteq all_command(S, u) \cup {u}

\* Nobody becomes operator of a channel that a netsplit emptied, before the lock is over
\* or the net brings the channel back, but its creator or a sysop.
NoTakeoverInANetsplit ==
    [][\A u \in Users, c \in Chans :
            c \in user'[u].ops \ user[u].ops =>
                \/ ~ (chan[c] # Null /\ chan[c].locked)
                \/ chan[c].createby = u
                \/ user[u].sysop]_vars

\* A user gets on a private channel only after an invitation to it.
PrivateByInvitation ==
    [][\A u \in Users, c \in Chans :
            c \in user'[u].list \ user[u].list /\ HasFlag(S, c, "p") =>
                user[u].invited = c]_vars

\* As long as a channel has a member here who may be operator, it does not stay without
\* one: whoever left, split off or was never told.
ChannelsGetOperators ==
    \A c \in Chans :
        ~ HasOp(S, c) /\ LocalsOn(S, c) \ Observers # {}
            ~> HasOp(S, c) \/ LocalsOn(S, c) \ Observers = {}

=============================================================================
