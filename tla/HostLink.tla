------------------------------ MODULE HostLink ------------------------------
(***************************************************************************)
(* The upstream attachment of a leaf (Convers.Host/Uplink/HostLink.cs): the*)
(* owning loop that dials the parent, runs a HostLinkEngine over the       *)
(* transport, applies local and network events to the hub and redials with *)
(* backoff; composed with a transport that may fail and with the parent.   *)
(*                                                                         *)
(* The hub appears by what it promises: own is the state of LocalPresence, *)
(* which ConversHub implements, and remote the remote part of its table.   *)
(* The loop is sequential.  Each pass of it (one line, one queued item, one*)
(* tick) is one action; submitters, transport and parent move in between.  *)
(***************************************************************************)
EXTENDS HostLinkEngine, FiniteSets, SequencesExt

CONSTANTS
    Callsign,        \* our users
    Channel,
    RemoteUser,      \* users beyond the parent
    InitialBackoff, MaxBackoff,
    MaxWork,         \* bound on the queue of local events
    MaxLines,        \* bound on the lines in flight, each way
    None

\* HostLinkOptions.Validate
ASSUME BackoffAssumption ==
    InitialBackoff \in Nat \ {0} /\ MaxBackoff \in Nat /\ MaxBackoff >= InitialBackoff

ASSUME BoundsAssumption == MaxWork \in Nat /\ MaxLines \in Nat

ASSUME UsersAssumption ==
    /\ IsFiniteSet(Callsign) /\ IsFiniteSet(RemoteUser)
    /\ Channel \subseteq Nat /\ None \notin Channel

VARIABLES
    loop,      \* where RunAsync is: dialing, running a connection or waiting
    engine,    \* of the current connection
    ever,      \* everEstablished
    isUp,      \* IsUp: _up is completed
    backoff,
    work,      \* _localEvents: moves of local users not yet applied
    own,       \* hub: the channel of each local user
    remote,    \* hub: the remote users in its table
    link,      \* transport: none, ok, hung (nothing passes, no error) or cut
    up, down,  \* lines in flight to and from the parent
    greeted,   \* parent: has taken our /..HOST
    view,      \* parent: the channel of each of our users
    net        \* parent: the users of the rest of the network

local == <<work, own>>
parent == <<greeted, view, net>>
vars == <<loop, engine, ever, isUp, backoff, work, own, remote, link, up, down,
          greeted, view, net>>

Absent == [c \in Callsign |-> None]

\* The hub's announcements of local presence.
Hub == INSTANCE LocalPresence WITH sent <- None

RemoteLine(r, on) == [verb |-> "USER", user |-> r, on |-> on]

UpLine ==
    {Command(v) : v \in {"HOST", "PING", "PONG", "UMSG"}}
      \cup [verb : {"USER"}, user : Callsign, from : Channel \cup {-1},
            to : Channel \cup {-1}]

DownLine ==
    {Command(v) : v \in {"HOST", "TEXT", "PING", "PONG", "LOOP", "ROUT"}}
      \cup [verb : {"USER"}, user : RemoteUser, on : BOOLEAN]

TypeOK ==
    /\ loop \in {"dialing", "running", "waiting"}
    /\ engine \in Engine
    /\ ever \in BOOLEAN /\ isUp \in BOOLEAN /\ greeted \in BOOLEAN
    /\ backoff \in InitialBackoff..MaxBackoff
    /\ work \in Seq([user : Callsign, to : Channel \cup {None}])
    /\ own \in [Callsign -> Channel \cup {None}]
    /\ view \in [Callsign -> Channel \cup {None}]
    /\ remote \in SUBSET RemoteUser /\ net \in SUBSET RemoteUser
    /\ link \in {"none", "ok", "hung", "cut"}
    /\ up \in Seq(UpLine) /\ down \in Seq(DownLine)

Init ==
    /\ loop = "dialing" /\ engine = NewEngine /\ ever = FALSE /\ isUp = FALSE
    /\ backoff = InitialBackoff
    /\ work = <<>> /\ own = Absent /\ remote = {}
    /\ link = "none" /\ up = <<>> /\ down = <<>>
    /\ greeted = FALSE /\ view = Absent /\ net \in SUBSET RemoteUser

-----------------------------------------------------------------------------
(* The hub, as the loop uses it.                                           *)

\* The table after a line from the parent.
Learned(table, line) ==
    IF line.verb # "USER" THEN table
    ELSE IF line.on THEN table \cup {line.user} ELSE table \ {line.user}

\* The hub answers /..PING; its DropUplink on /..LOOP is not acted upon.
Answers(line) == IF line.verb = "PING" THEN <<Command("PONG")>> ELSE <<>>

\* Mutant: the parent is expected to remember our users.
AnnounceNothing == <<>>

\* OnEstablishedAsync: every local user of the table, as a fresh join.
Reannounced ==
    SetToSeq({[verb |-> "USER", user |-> c, from |-> -1, to |-> own[c]] :
                c \in {x \in Callsign : own[x] # None}})

-----------------------------------------------------------------------------
(* The owning loop.                                                        *)

\* SendLineAsync waits for room; a line sent into a dead link is lost.
Send(lines) ==
    IF link = "ok"
    THEN Len(up) + Len(lines) <= MaxLines /\ up' = up \o lines
    ELSE UNCHANGED up

\* Mutant: MarkDown is forgotten.
EndStillUp(fresh) ==
    /\ loop' = "waiting" /\ engine' = NewEngine /\ ever' = FALSE /\ UNCHANGED isUp
    /\ link' = "none" /\ up' = <<>> /\ down' = <<>>
    /\ backoff' = IF fresh THEN InitialBackoff ELSE backoff

\* The tail of RunAsync: MarkDown and disposal.  fresh says whether
\* RunOneConnectionAsync returned, and returned true.
EndConnection(fresh) ==
    /\ loop' = "waiting" /\ engine' = NewEngine /\ ever' = FALSE /\ isUp' = FALSE
    /\ link' = "none" /\ up' = <<>> /\ down' = <<>>
    /\ backoff' = IF fresh THEN InitialBackoff ELSE backoff

\* Carries out a step of the engine: on a cut link a send either throws, out
\* of RunOneConnectionAsync, or goes unnoticed.
ApplyStep(step, sends) ==
    IF step.drop
    THEN EndConnection(ever)
    ELSE \/ /\ engine' = step.engine
            /\ ever' = (ever \/ step.completed)
            /\ isUp' = (isUp \/ step.completed)
            /\ Send(sends)
            /\ UNCHANGED <<loop, backoff, link>>
         \/ /\ link = "cut" /\ sends # <<>>
            /\ EndConnection(FALSE)

\* SubmitLocalEventAsync: a join, a switch or (to = None) a leave.
Submit(c, to) ==
    /\ Len(work) < MaxWork
    /\ work' = Append(work, [user |-> c, to |-> to])
    /\ UNCHANGED <<loop, engine, ever, isUp, backoff, own, remote, link, up,
                   down, parent>>

\* DrainLocalEventsAsync, one item.  While a connection runs a line that is
\* ready is taken first; nothing is drained during a dial.  The send may
\* throw: the item is then logged as failed, but the hub has applied it.
ApplyLocal ==
    /\ work # <<>>
    /\ loop = "waiting" \/ (loop = "running" /\ down = <<>>)
    /\ LET c == Head(work).user
           to == Head(work).to
       IN  IF own[c] = to
           THEN UNCHANGED <<own, up>>
           ELSE /\ own' = [own EXCEPT ![c] = to]
                /\ Send(<<Hub!Announcement(c, to)>>)
    /\ work' = Tail(work)
    /\ UNCHANGED <<loop, engine, ever, isUp, backoff, remote, link, down, parent>>

\* ConnectAsync returns a link; the engine greets.
DialOk ==
    /\ loop = "dialing"
    /\ loop' = "running" /\ link' = "ok"
    /\ engine' = OnConnected.engine /\ up' = OnConnected.out /\ down' = <<>>
    /\ greeted' = FALSE
    /\ view' = Absent    \* the parent has signed off the users of the old link
    /\ UNCHANGED <<ever, isUp, backoff, local, remote, net>>

DialFails ==
    /\ loop = "dialing"
    /\ EndConnection(FALSE)
    /\ UNCHANGED <<local, remote, parent>>

\* A line from the parent.
Receive ==
    /\ loop = "running" /\ down # <<>>
    /\ LET line == Head(down)
           step == OnLineReceived(engine, line, FALSE)
       IN  /\ ApplyStep(step, step.out
                              \o (IF step.event THEN Answers(line) ELSE <<>>)
                              \o (IF step.completed THEN Reannounced ELSE <<>>))
           /\ remote' = IF step.event THEN Learned(remote, line) ELSE remote
           /\ loop' = "running" => down' = Tail(down)
    /\ UNCHANGED <<local, parent>>

\* The end of the stream: ReceiveLineAsync returns null.
ReceiveEnd ==
    /\ loop = "running" /\ link = "cut"
    /\ EndConnection(ever)
    /\ UNCHANGED <<local, remote, parent>>

\* A unit of time passes and the ticker, last in the order of WhenAny, is
\* served.  A parent that is alive answers within one unit.
TickFires ==
    /\ loop = "running" /\ down = <<>> /\ work = <<>>
    /\ link = "ok" => up = <<>>
    /\ LET step == OnTick(Aged(engine)) IN
         /\ ApplyStep(step, step.out)
         /\ loop' = "running" => down' = down
    /\ UNCHANGED <<local, remote, parent>>

\* Mutant: the delay is doubled without a cap.
Doubled == backoff * 2

NextBackoff == IF backoff * 2 > MaxBackoff THEN MaxBackoff ELSE backoff * 2

\* The backoff is over; the next one will be longer.
WaitOver ==
    /\ loop = "waiting"
    /\ loop' = "dialing" /\ backoff' = NextBackoff
    /\ UNCHANGED <<engine, ever, isUp, local, remote, link, up, down, parent>>

-----------------------------------------------------------------------------
(* The parent and the transport (external).                                *)

ParentSays(lines) == Len(down) + Len(lines) <= MaxLines /\ down' = down \o lines

\* The parent's table after a line of ours.
Believed(table, line) ==
    IF line.verb # "USER" THEN table
    ELSE [table EXCEPT ![line.user] = IF line.to = -1 THEN None ELSE line.to]

\* The parent takes a line.  It answers /..HOST and announces the network's
\* users, after its reply or (some peers) before it.
ParentReads ==
    /\ link = "ok" /\ up # <<>>
    /\ up' = Tail(up)
    /\ view' = Believed(view, Head(up))
    /\ LET users == SetToSeq({RemoteLine(r, TRUE) : r \in net}) IN
         CASE Head(up).verb = "HOST" ->
                /\ greeted' = TRUE
                /\ \/ ParentSays(<<Command("HOST")>> \o users)
                   \/ ParentSays(users \o <<Command("HOST")>>)
           [] Head(up).verb = "PING" -> ParentSays(<<Command("PONG")>>) /\ UNCHANGED greeted
           [] OTHER -> UNCHANGED <<down, greeted>>
    /\ UNCHANGED <<loop, engine, ever, isUp, backoff, local, remote, link, net>>

\* A user signs on or off somewhere in the network.
NetworkMoves(r) ==
    /\ net' = IF r \in net THEN net \ {r} ELSE net \cup {r}
    /\ IF greeted /\ link = "ok" THEN ParentSays(<<RemoteLine(r, r \notin net)>>)
       ELSE UNCHANGED down
    /\ UNCHANGED <<loop, engine, ever, isUp, backoff, local, remote, link, up,
                   greeted, view>>

ParentTalks(verb) ==
    /\ link = "ok" /\ greeted
    /\ ParentSays(<<Command(verb)>>)
    /\ UNCHANGED <<loop, engine, ever, isUp, backoff, local, remote, link, up, parent>>

\* The connection breaks: at once visible to us, or never.
Breaks(how) ==
    /\ link = "ok"
    /\ link' = how
    /\ up' = <<>> /\ down' = IF how = "hung" THEN <<>> ELSE down
    /\ UNCHANGED <<loop, engine, ever, isUp, backoff, local, remote, parent>>

-----------------------------------------------------------------------------
Submitted == \E c \in Callsign, to \in Channel \cup {None} : Submit(c, to)

Loop == ApplyLocal \/ DialOk \/ Receive \/ ReceiveEnd \/ TickFires \/ WaitOver

Parent ==
    \/ ParentReads
    \/ \E r \in RemoteUser : NetworkMoves(r)
    \/ \E verb \in {"PING", "TEXT", "ROUT"} : ParentTalks(verb)

Fault ==
    \/ DialFails
    \/ \E how \in {"hung", "cut"} : Breaks(how)
    \/ \E verb \in {"LOOP", "HOST"} : ParentTalks(verb)

Next == Submitted \/ Loop \/ Parent \/ Fault

\* The loop and the parent keep running, a dial ends, a delay elapses.  A line
\* that is ready always wins over queued work and that over a tick, so these
\* two are only served in the moments when nothing precedes them.
Fairness ==
    /\ WF_vars(DialOk) /\ WF_vars(WaitOver)
    /\ WF_vars(Receive) /\ WF_vars(ReceiveEnd)
    /\ SF_vars(ApplyLocal) /\ SF_vars(TickFires)
    /\ WF_vars(ParentReads)

Spec == Init /\ [][Next]_vars /\ Fairness

-----------------------------------------------------------------------------
(* Safety.                                                                 *)

IsAbout(line, u) == line.verb = "USER" /\ line.user = u

\* Line i is the last of lines about user u.
LastAbout(lines, i, u) ==
    IsAbout(lines[i], u) /\ \A j \in i + 1 .. Len(lines) : ~IsAbout(lines[j], u)

\* Once the parent has read what is in flight, it has user c where ch says.
ParentWillHave(c, ch) ==
    \/ \E i \in 1 .. Len(up) : LastAbout(up, i, c) /\ up[i].to = Hub!Wire(ch)
    \/ view[c] = ch /\ \A i \in 1 .. Len(up) : ~IsAbout(up[i], c)

\* Once we have read what is in flight, user r of the network is in our table or (~on) not.
WillBeKnown(r, on) ==
    \/ \E i \in 1 .. Len(down) : LastAbout(down, i, r) /\ down[i].on = on
    \/ (r \in remote) = on /\ \A i \in 1 .. Len(down) : ~IsAbout(down[i], r)

\* While the link is up, the parent knows our users as the hub has them once
\* it has read what is in flight: users who joined, moved or left before the
\* first connection, during an outage or in the middle of a handshake
\* included (OnEstablishedAsync, DrainLocalEventsAsync).
ParentInStep == isUp /\ link = "ok" => \A c \in Callsign : ParentWillHave(c, own[c])

\* While the link is up, no user of the network is missing from our table
\* once what is in flight has been read, even when the parent announced them
\* before its own /..HOST (OnLineWhileHandshaking).
NetworkIsKnown == isUp /\ link = "ok" => \A r \in net : WillBeKnown(r, TRUE)

\* "rebuilt from the uplink on reconnect" (ConversHub, NetworkUser): while the
\* link is up, nobody is in our table who is not on the network.
NetworkIsCurrent == isUp /\ link = "ok" => \A r \in RemoteUser \ net : WillBeKnown(r, FALSE)

\* "A successful connection means the next failure starts the backoff fresh"
\* (RunAsync): the loss of an established link is followed by the first delay.
BackoffStartsFresh == [][isUp /\ ~isUp' => backoff' = InitialBackoff]_vars

-----------------------------------------------------------------------------
(* Liveness.                                                               *)

CalmNetwork == <>[][~Fault]_vars
QuietUsers == <>[][~Submitted]_vars
LinesRunOut == []<>(down = <<>> /\ up = <<>>)

\* Once dials and connections stop failing, the uplink comes up and stays up:
\* no earlier failure, timeout or half-finished handshake wedges the loop.
UplinkRecovers == CalmNetwork => <>[]isUp

\* Once our users, too, stop moving, every queued event has been applied and
\* the parent's view is what the hub says.  The parent must let the loop come
\* to the end of the lines in flight now and then: receiving has priority over queued
\* events, and a parent that never pauses would starve them.
ParentConverges ==
    CalmNetwork /\ QuietUsers /\ LinesRunOut => <>[](work = <<>> /\ view = own)

\* A link that died without an error is not held for ever: the keepalive
\* notices the silence and drops it.
DeadLinkIsDropped == link = "hung" ~> link # "hung"

=============================================================================
