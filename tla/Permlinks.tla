----------------------------- MODULE Permlinks -----------------------------
(***************************************************************************)
(* The link layer of conversd (reference/conversd-saupp): the table of     *)
(* permanent links with its primary/backup chains, the connections to      *)
(* neighbour hosts, the table of destinations with the link each one is    *)
(* reached by, and what every neighbour has been told of it.               *)
(*                                                                         *)
(* conversd is one select() loop, so one action is one pass of a handler   *)
(* with every call it makes.  bye_command2, update_permlinks and           *)
(* update_destinations call each other; here they are operators from a     *)
(* state to a state, the record S holding all the variables.               *)
(*                                                                         *)
(* Durations are left out: a timer that is running may expire at any time. *)
(* A round trip time is a small number, 0 meaning unreachable.             *)
(***************************************************************************)
EXTENDS Naturals, FiniteSets, FiniteSetsExt

CONSTANTS
    Hosts,         \* names of other hosts
    Conns,         \* connections that can exist at a time
    NrPermlinks,   \* NR_PERMLINKS, the size of permarray
    MaxRtt,        \* bound on a round trip time
    AcceptSquit,   \* configuration: obey SQUIT from a neighbour
    NamesAgree,    \* dialled hosts give the name they are listed under: h_host_command
                   \* takes any, so FALSE is the program
    OldLinksFirst, \* /link add names as primary only links that are permanent: do_link
                   \* takes any, so FALSE is the program
    Null

ASSUME LinkBounds ==
    /\ NrPermlinks \in Nat \ {0}
    /\ MaxRtt \in Nat \ {0}
    /\ {AcceptSquit, NamesAgree, OldLinksFirst} \subseteq BOOLEAN

VARIABLES
    conn,   \* connections: type, name and direction
    perm,   \* permarray
    dest,   \* destinations; an entry that is absent is one that is dead
    seen,   \* per connection, the hosts whose users arrived over it
    told    \* per connection, the hosts our /..DEST lines declared reachable

vars == <<conn, perm, dest, seen, told>>

S == [conn |-> conn, perm |-> perm, dest |-> dest, seen |-> seen, told |-> told]

Become(state) ==
    \E s \in {state} :
        /\ conn' = s.conn
        /\ perm' = s.perm
        /\ dest' = s.dest
        /\ seen' = s.seen
        /\ told' = s.told

Slots == 1..NrPermlinks
NoSlot == 0
FirstOf(slots) == IF slots = {} THEN NoSlot ELSE Min(slots)

Free == [type |-> "free", name |-> Null]
Dead == [link |-> NoSlot, rtt |-> 0, auto |-> FALSE, connected |-> FALSE]

\* Connections of ports on which hosts are not admitted are left out.
Connection == [type : {"free", "unknown", "host", "closed"}, name : Hosts \cup {Null}]

\* permanent: configured, not learned from an inbound link.  wait: it is configured and
\* its retrytime lies ahead.  txtime: a round trip time to the neighbour is known.
Permlink == [name : Hosts, connection : Conns \cup {Null}, primary : Slots \cup {NoSlot},
             backup : Slots \cup {NoSlot}, permanent : BOOLEAN, locked : BOOLEAN,
             wait : BOOLEAN, txtime : BOOLEAN]

ASSUME NullIsFresh == Null \notin Hosts \cup Conns \cup Permlink

Destination == [link : Slots \cup {NoSlot}, rtt : 0..MaxRtt, auto : BOOLEAN,
                connected : BOOLEAN]

-----------------------------------------------------------------------------
(***************************************************************************)
(* Lookups.                                                                *)
(***************************************************************************)
Used(s) == {p \in Slots : s.perm[p] # Null}

find_permlink(s, name) == FirstOf({p \in Used(s) : s.perm[p].name = name})

\* The permlink of a connection; handlers take the first that matches.
LinkOf(s, c) == FirstOf({p \in Used(s) : s.perm[p].connection = c})

ConnOf(s, p) == IF p = NoSlot THEN Null ELSE s.perm[p].connection

IsHost(s, c) == c # Null /\ s.conn[c].type = "host"

\* If a walk along next stops over at q, it goes on to a member of C.
GoesOnIn(q, next, C) == q \in DOMAIN next /\ next[q] # NoSlot => next[q] \in C

\* The stops of a walk along next that starts from p: what is in every set that the
\* walk enters and never leaves.
Chain(p, next) ==
    {q \in Slots : \A C \in SUBSET Slots :
        GoesOnIn(p, next, C) /\ (\A r \in C : GoesOnIn(r, next, C)) => q \in C}

\* The links above and below p in its chain.
Primaries(s, p) == Chain(p, [q \in Used(s) |-> s.perm[q].primary])
Backups(s, p) == Chain(p, [q \in Used(s) |-> s.perm[q].backup])

\* The connection a destination is reached by.
Via(s, h) == ConnOf(s, s.dest[h].link)

-----------------------------------------------------------------------------
(***************************************************************************)
(* Destinations.                                                           *)
(***************************************************************************)

\* Who hears of a change of h that came in over link p.
Receivers(s, p, h, newlink) ==
    {s.perm[l].connection : l \in
        {l \in Used(s) \ {p} : /\ s.perm[l].name # h
                               /\ newlink # NoSlot => s.perm[newlink].name # s.perm[l].name
                               /\ IsHost(s, s.perm[l].connection)}}

\* Mutant: a hop is added to every time, whatever it comes to.
HopAdded(s, p, h, rtt, auto) ==
    [s EXCEPT !.dest[h] = [link |-> p, rtt |-> rtt + 1, auto |-> auto, connected |-> TRUE]]

\* Both branches of the C code set force_send, so the tolerance test never holds
\* a line back.  A learned destination is announced only when it dies.
update_destinations(s, p, h, rtt, auto) ==
    LET d == s.dest[h]
        worse == d.link # NoSlot /\ d.link # p /\ d.rtt # 0 /\ rtt >= d.rtt
        newlink == IF rtt = 0 THEN NoSlot ELSE p
        hear == IF auto /\ rtt # 0 THEN {} ELSE Receivers(s, p, h, newlink)
    IN  IF worse THEN s
        ELSE [s EXCEPT
            !.dest[h] = [link |-> newlink, rtt |-> rtt, auto |-> auto,
                         connected |-> rtt # 0],
            !.told = IF hear = {} THEN @
                     ELSE [c \in Conns |->
                        IF c \notin hear THEN @[c]
                        ELSE IF rtt = 0 THEN @[c] \ {h} ELSE @[c] \cup {h}]]

\* Mutant: the reference to the link is dropped first, so nobody is told.
DropRoutes(s, p) ==
    [s EXCEPT !.dest = [h \in Hosts |-> IF @[h].link = p THEN Dead ELSE @[h]]]

\* update_destinations with rtt 0 for everything reached by link p.
KillRoutes(s, p) ==
    LET gone == {h \in Hosts : s.dest[h].rtt # 0 /\ s.dest[h].link = p}
    IN  IF gone = {} THEN s
        ELSE [s EXCEPT
            !.dest = [h \in Hosts |-> IF h \in gone THEN Dead ELSE @[h]],
            !.told = [c \in Conns |->
                        @[c] \ {h \in gone : c \in Receivers(s, p, h, NoSlot)}]]

\* Silent: nobody is told.
route_cleanup(s, c, name) ==
    LET lost == {h \in Hosts :
                   /\ s.dest[h].link # NoSlot \/ s.dest[h].rtt # 0 \/ s.dest[h].connected
                   /\ \/ ~ s.dest[h].connected
                      \/ Via(s, h) \in {Null, c}
                      \/ Via(s, h) # Null /\ s.conn[Via(s, h)].name = name}
    IN  IF lost = {} THEN s
        ELSE [s EXCEPT !.dest = [h \in Hosts |->
                IF h \notin lost THEN @[h]
                ELSE [@[h] EXCEPT !.link = NoSlot, !.rtt = 0, !.connected = FALSE]]]

-----------------------------------------------------------------------------
(***************************************************************************)
(* Permanent links.                                                        *)
(***************************************************************************)
NewLink(name, c, permanent) ==
    [name |-> name, connection |-> c, primary |-> NoSlot, backup |-> NoSlot,
     permanent |-> permanent, locked |-> FALSE, wait |-> permanent, txtime |-> FALSE]

delay_permlink_connect(s, p) ==
    IF p = NoSlot \/ ~ s.perm[p].permanent THEN s
    ELSE LET chain == {p} \cup ((Primaries(s, p) \cup Backups(s, p)) \cap Used(s))
         IN  IF \A q \in chain : s.perm[q].wait THEN s
             ELSE [s EXCEPT !.perm = [q \in Slots |->
                     IF q \in chain THEN [@[q] EXCEPT !.wait = TRUE] ELSE @[q]]]

Lock(s, p) == IF p = NoSlot THEN s ELSE [s EXCEPT !.perm[p].locked = TRUE]

\* The entry update_permlinks works on: the one of that name, or the first free one.
PermlinkFor(s, name) ==
    IF find_permlink(s, name) # NoSlot THEN find_permlink(s, name)
    ELSE FirstOf(Slots \ Used(s))

\* The entry of a link that comes up over c or (Null) goes down.
Relisted(e, c) ==
    [e EXCEPT !.connection = IF c # Null THEN c ELSE IF e.permanent THEN @ ELSE Null,
              !.wait = e.permanent,
              !.txtime = IF c # Null THEN FALSE ELSE @]

\* c is Null when the link went down or (isperm) is being configured.
update_permlinks(s, name, c, isperm) ==
    LET p == PermlinkFor(s, name)
        known == [KillRoutes(s, p) EXCEPT !.perm[p] = Relisted(@, c)]
    IN  IF p = NoSlot THEN s
        ELSE IF s.perm[p] = Null
             THEN [s EXCEPT !.perm[p] = NewLink(name, c, isperm)]
             ELSE IF c = Null THEN delay_permlink_connect(known, p) ELSE known

\* bye_command2 on a connection that is not a user.
bye_command2(s, c) ==
    LET name == s.conn[c].name
        s1 == [s EXCEPT !.conn[c] = [type |-> "closed", name |-> Null], !.told[c] = {}]
        s2 == update_permlinks(s1, name, Null, FALSE)
        s3 == [s2 EXCEPT !.seen[c] = {}]
    IN  CASE s.conn[c].type = "unknown" -> s1
          [] s.conn[c].type = "host" -> route_cleanup(s3, c, name)
          [] OTHER -> s

\* Lock the link for half an hour and break the connection.
loop_handler(s, c, p) ==
    bye_command2(delay_permlink_connect(Lock(s, p), p), c)

-----------------------------------------------------------------------------
(***************************************************************************)
(* A host introduces itself: h_host_command.                               *)
(***************************************************************************)
accept_connect_request(c) ==
    /\ conn[c].type = "free"
    /\ Become([S EXCEPT !.conn[c].type = "unknown"])

\* Mutant: the old connection stays.
HostJoinsOld(s, c, name) ==
    [st |-> [s EXCEPT !.conn[c].name = name], me |-> find_permlink(s, name)]

\* Entry n of permarray: a new connection replaces the old one to the same host (whose
\* entry is then passed over), the entry that was dialled takes the name the host
\* claims, and me_in_permlist is the last other entry of that name.
WalkStep(w, n, c, name) ==
    LET t == w.st
        pp == t.perm[n]
    IN  CASE pp = Null -> w
          [] pp # Null /\ pp.connection # c /\ pp.name = name
               /\ IsHost(t, pp.connection) ->
               [w EXCEPT !.st = bye_command2(t, pp.connection)]
          [] pp # Null /\ pp.connection = c ->
               [st |-> [t EXCEPT !.perm[n].name = name], me |-> n]
          [] pp # Null /\ pp.connection # c /\ pp.name = name
               /\ ~ IsHost(t, pp.connection) ->
               [w EXCEPT !.me = n]
          [] OTHER -> w

\* The walk over permarray.
HostReplacesOld(s, c, name) ==
    LET walk[n \in 0..NrPermlinks] ==
            IF n = 0 THEN [st |-> [s EXCEPT !.conn[c].name = name], me |-> NoSlot]
            ELSE WalkStep(walk[n-1], n, c, name)
    IN  walk[NrPermlinks]

\* Mutant: the other links of the chain are not looked at.
NoneConnected(s, links) == {}

\* Those of links that are up.
ConnectedIn(s, links) == {p \in links \cap Used(s) : IsHost(s, s.perm[p].connection)}

HostAccepted(s, c, name) ==
    LET s1 == route_cleanup([s EXCEPT !.conn[c].type = "host"], c, name)
        full == PermlinkFor(s1, name) = NoSlot
        s2 == update_permlinks(s1, name, c, FALSE)
        p == PermlinkFor(s1, name)
        burst == {h \in Hosts : /\ s2.dest[h].rtt # 0
                                /\ s2.dest[h].link # NoSlot
                                /\ Via(s2, h) # c
                                /\ ~ s2.dest[h].auto}
        s3 == [s2 EXCEPT !.told[c] = burst,
                         !.perm[p] = [@ EXCEPT !.txtime = TRUE, !.wait = FALSE]]
    IN  IF full THEN bye_command2(s1, c)
        ELSE update_destinations(s3, p, name, 1, FALSE)

\* Links of one chain are never up together: the better one wins, the loser is locked,
\* and a winner that found another link up has to call again.
h_host_command(c, name) ==
    /\ conn[c].type = "unknown"
    /\ LET w == HostReplacesOld(S, c, name)
           s1 == w.st
           me == w.me
           above == IF me = NoSlot THEN {} ELSE ConnectedIn(s1, Primaries(s1, me))
           below == IF me = NoSlot THEN {} ELSE ConnectedIn(s1, Backups(s1, me))
           reorg(loser) ==
               LET s2 == Lock(bye_command2(s1, s1.perm[loser].connection), loser)
               IN  [bye_command2(s2, c) EXCEPT !.perm[me].wait = s2.perm[me].permanent]
       IN  CASE me # NoSlot /\ s1.perm[me].locked -> Become(bye_command2(s1, c))
             [] me # NoSlot /\ ~ s1.perm[me].locked /\ above # {} ->
                    IF s1.perm[Min(above)].txtime THEN Become(bye_command2(s1, c))
                                                  ELSE Become(reorg(Min(above)))
             [] me # NoSlot /\ ~ s1.perm[me].locked /\ above = {} /\ below # {} ->
                    Become(reorg(Min(below)))
             [] (me = NoSlot \/ (~ s1.perm[me].locked /\ above = {} /\ below = {}))
                    /\ Via(s1, name) # Null -> Become(Lock(bye_command2(s1, c), me))
             [] OTHER -> Become(HostAccepted(s1, c, name))

\* /link add with a second name makes the new link a backup of the last of that chain.
do_link(s, name, primary) ==
    LET s1 == update_permlinks(s, name, Null, TRUE)
        p == PermlinkFor(s, name)
        top == IF primary = Null \/ primary = name THEN NoSlot ELSE find_permlink(s1, primary)
        q == CHOOSE q \in {top} \cup Backups(s1, top) : s1.perm[q].backup \in {NoSlot, p}
    IN  IF p = NoSlot THEN s
        ELSE IF top = NoSlot THEN s1
        ELSE [s1 EXCEPT !.perm[p].primary = q, !.perm[q].backup = p]

-----------------------------------------------------------------------------
(***************************************************************************)
(* What neighbours send.                                                   *)
(***************************************************************************)
h_dest_command(c, h, rtt) ==
    /\ conn[c].type = "host"
    /\ LET l == LinkOf(S, c)
           other == dest[h].link # NoSlot /\ Via(S, h) # c
       IN  /\ l # NoSlot
           /\ Become(IF other THEN loop_handler(S, c, l)
                     ELSE update_destinations(S, l, h, rtt, FALSE))

\* A neighbour that claims to reach us by another way has closed a loop.
DestIsUs(c) ==
    /\ conn[c].type = "host"
    /\ LinkOf(S, c) # NoSlot
    /\ Become(loop_handler(S, c, LinkOf(S, c)))

\* The answer to our PING: a new time to the neighbour, and fresh lines to it for the
\* destinations whose time the change moved out of tolerance.
h_pong_command(c, rtt, resend) ==
    /\ conn[c].type = "host"
    /\ LET l == LinkOf(S, c)
           s1 == update_destinations([S EXCEPT !.perm[l].txtime = TRUE], l,
                                     perm[l].name, rtt, FALSE)
           ours == s1.dest[perm[l].name].link = l
       IN  /\ l # NoSlot
           /\ resend \subseteq {h \in Hosts \ {perm[l].name} :
                                 dest[h].rtt # 0 /\ dest[h].link \notin {NoSlot, l}}
           /\ resend # {} => ours
           /\ Become([s1 EXCEPT !.told[c] = @ \cup resend])

h_loop_command(c) ==
    /\ conn[c].type = "host"
    /\ Become(loop_handler(S, c, LinkOf(S, c)))

\* Mutant: the users that are known are not searched.
NeverSeen(c, h) == FALSE

SeenElsewhere(c, h) == \E o \in Conns \ {c} : h \in seen[o]

\* checkhost: a user of host h shows up over c.
checkhost(c, h, learn) ==
    /\ conn[c].type = "host"
    /\ LET pl == find_permlink(S, conn[c].name)
           routedElsewhere == /\ pl # NoSlot
                              /\ perm[pl].connection = c
                              /\ Via(S, h) \notin {Null, c}
           unknown == dest[h].link = NoSlot \/ dest[h].rtt = 0
           s1 == IF pl # NoSlot /\ unknown /\ learn
                 THEN update_destinations(S, pl, h, 1, TRUE) ELSE S
       IN  Become(IF routedElsewhere \/ SeenElsewhere(c, h) THEN loop_handler(S, c, pl)
                  ELSE [s1 EXCEPT !.seen[c] = @ \cup {h}])

\* handle_h_quit_commands for a whole host.
h_squit_command(c, h) ==
    /\ conn[c].type = "host"
    /\ LET routed == Via(S, h) # Null
           upstream == IF routed THEN Via(S, h) = c
                       ELSE \A o \in Conns \ {c} : h \notin seen[o]
       IN  IF h = conn[c].name
           THEN AcceptSquit /\ Become(bye_command2(S, c))
           ELSE upstream /\ Become([S EXCEPT !.seen[c] = @ \ {h}])

SquitForUs(c) == conn[c].type = "host" /\ AcceptSquit /\ Become(bye_command2(S, c))

\* learn_destination_relation_from_route: a route display names a host behind another.
learn_destination_relation_from_route(via, h) ==
    /\ via # h
    /\ dest[via].link # NoSlot /\ dest[via].rtt # 0
    /\ dest[h].link = NoSlot
    /\ Become(update_destinations(S, dest[via].link, h, 1, TRUE))

-----------------------------------------------------------------------------
(***************************************************************************)
(* Failures, timers and the pass of the main loop.                         *)
(***************************************************************************)

\* End of file, write error, output queue full, silence, idle timeout.
LinkBreaks(c) ==
    /\ conn[c].type \in {"unknown", "host"}
    /\ Become(bye_command2(S, c))

\* Closed connections go, and with them those a dial left without an answer (late).
free_closed_connections(late) ==
    LET gone == late \cup {c \in Conns : conn[c].type = "closed"}
        owner == {LinkOf(S, c) : c \in gone}
    IN  /\ gone # {}
        /\ late \subseteq {c \in Conns : conn[c].type = "unknown" /\ LinkOf(S, c) # NoSlot}
        /\ Become([S EXCEPT
              !.conn = [c \in Conns |-> IF c \in gone THEN Free ELSE @[c]],
              !.perm = [p \in Slots |-> IF p \in owner THEN [@[p] EXCEPT !.connection = Null]
                                        ELSE @[p]]])

\* No PONG for two hours: everything behind the neighbour is given up, the link stays.
PongOverdue(p) ==
    /\ p \in Used(S)
    /\ IsHost(S, perm[p].connection)
    /\ Become([KillRoutes(S, p) EXCEPT !.perm[p].txtime = FALSE])

LockExpires(p) ==
    /\ p \in Used(S)
    /\ perm[p].connection = Null /\ perm[p].locked
    /\ Become([S EXCEPT !.perm[p].locked = FALSE])

EntryExpires(p) ==
    /\ p \in Used(S)
    /\ perm[p].connection = Null /\ ~ perm[p].permanent /\ ~ perm[p].locked
    /\ Become([S EXCEPT !.perm[p] = Null])

RetryTimePasses(p) ==
    /\ p \in Used(S)
    /\ perm[p].wait
    /\ Become([S EXCEPT !.perm[p].wait = FALSE])

\* connect_permlinks: a link that is down is dialled unless a link above it is
\* up.  (A link above that is being dialled holds it up for two minutes at most.)
MayDial(p) ==
    /\ p \in Used(S)
    /\ perm[p].connection = Null
    /\ ~ perm[p].locked
    /\ perm[p].permanent
    /\ ~ perm[p].wait
    /\ ConnectedIn(S, Primaries(S, p)) = {}

Dial(p, c) ==
    /\ MayDial(p)
    /\ conn[c].type = "free"
    /\ Become([S EXCEPT
          !.conn[c].type = "unknown",
          !.perm[p].connection = c,
          !.perm[p].wait = TRUE])

\* Bad address, no socket, refused, or an entry without an address.
DialFails(p) ==
    /\ MayDial(p)
    /\ Become([S EXCEPT !.perm[p].wait = TRUE])

\* A learned destination that had no users for three hours is given up.
expire_dests(h) ==
    /\ dest[h].auto
    /\ \A c \in Conns : h \notin seen[c]
    /\ dest[h].link # NoSlot
    /\ Become(update_destinations(S, dest[h].link, h, 0, FALSE))

-----------------------------------------------------------------------------
(***************************************************************************)
(* The operator's /link command.                                           *)
(***************************************************************************)
ByeIf(s, c, types) ==
    IF c # Null /\ s.conn[c].type \in types THEN bye_command2(s, c) ELSE s

LinkReset(name, lock) ==
    LET p == find_permlink(S, name)
        s1 == ByeIf(S, perm[p].connection, {"unknown", "host"})
    IN  /\ p # NoSlot
        /\ Become(delay_permlink_connect(
              [s1 EXCEPT !.perm[p].locked = lock,
                         !.perm[p].wait = perm[p].permanent], p))

\* All references to entry old are cut.
CutTo(s, old) ==
    [q \in Slots |->
        IF q \notin Used(s) THEN Null
        ELSE [s.perm[q] EXCEPT !.primary = IF @ = old THEN NoSlot ELSE @,
                               !.backup = IF @ = old THEN NoSlot ELSE @]]

\* The old entry goes with all references to it; only an established connection is closed.
LinkAdd(name, primary) ==
    LET old == find_permlink(S, name)
        s1 == [S EXCEPT !.perm = CutTo(S, old)]
        s2 == IF old = NoSlot THEN S
              ELSE [ByeIf(s1, perm[old].connection, {"host"}) EXCEPT !.perm[old] = Null]
        top == IF primary = Null THEN NoSlot ELSE find_permlink(s2, primary)
    IN  /\ OldLinksFirst /\ top # NoSlot => s2.perm[top].permanent
        /\ Become(do_link(s2, name, primary))

\* Mutant: the backup of the slot becomes a link without a primary.
JoinedOneWay(s, p) ==
    LET up == s.perm[p].primary
        down == s.perm[p].backup
    IN  [q \in Slots |->
            CASE q = p -> Null
              [] q # p /\ q = up -> [s.perm[q] EXCEPT !.backup = down]
              [] q # p /\ q = down -> [s.perm[q] EXCEPT !.primary = NoSlot]
              [] OTHER -> s.perm[q]]

\* Slot p is emptied and its primary and its backup are joined.
Relinked(s, p) ==
    LET up == s.perm[p].primary
        down == s.perm[p].backup
    IN  [q \in Slots |->
            CASE q = p -> Null
              [] q # p /\ q = up -> [s.perm[q] EXCEPT !.backup = down]
              [] q # p /\ q = down -> [s.perm[q] EXCEPT !.primary = up]
              [] OTHER -> s.perm[q]]

\* Mutant: the connection is left to itself.
LinkForget(name) ==
    LET p == find_permlink(S, name)
    IN  p # NoSlot /\ Become([S EXCEPT !.perm = Relinked(S, p)])

LinkDelete(name) ==
    LET p == find_permlink(S, name)
        s1 == ByeIf(S, perm[p].connection, {"host"})
    IN  p # NoSlot /\ Become([s1 EXCEPT !.perm = Relinked(s1, p)])

-----------------------------------------------------------------------------
Init ==
    /\ conn = [c \in Conns |-> Free]
    /\ perm = [p \in Slots |-> Null]
    /\ dest = [h \in Hosts |-> Dead]
    /\ seen = [c \in Conns |-> {}]
    /\ told = [c \in Conns |-> {}]

\* The name a dialled host answers with.
MayClaim(c, name) ==
    NamesAgree /\ LinkOf(S, c) # NoSlot => name = perm[LinkOf(S, c)].name

FromNeighbour(c) ==
    \/ \E name \in Hosts : MayClaim(c, name) /\ h_host_command(c, name)
    \/ \E h \in Hosts, rtt \in 0..MaxRtt : h_dest_command(c, h, rtt)
    \/ DestIsUs(c)
    \/ \E rtt \in 1..MaxRtt, resend \in SUBSET Hosts : h_pong_command(c, rtt, resend)
    \/ h_loop_command(c)
    \/ \E h \in Hosts, learn \in BOOLEAN : checkhost(c, h, learn)
    \/ \E h \in Hosts : h_squit_command(c, h)
    \/ SquitForUs(c)
    \/ LinkBreaks(c)

Operator ==
    \/ \E name \in Hosts, lock \in BOOLEAN : LinkReset(name, lock)
    \/ \E name \in Hosts, primary \in Hosts \cup {Null} : LinkAdd(name, primary)
    \/ \E name \in Hosts : LinkDelete(name)

MainLoop ==
    \/ \E late \in SUBSET Conns : free_closed_connections(late)
    \/ \E h \in Hosts : expire_dests(h)
    \/ \E p \in Slots :
          \/ PongOverdue(p)
          \/ LockExpires(p)
          \/ EntryExpires(p)
          \/ RetryTimePasses(p)
          \/ \E c \in Conns : Dial(p, c)
          \/ DialFails(p)

Next ==
    \/ \E c \in Conns : accept_connect_request(c)
    \/ \E c \in Conns : FromNeighbour(c)
    \/ \E via, h \in Hosts : learn_destination_relation_from_route(via, h)
    \/ Operator
    \/ MainLoop

Spec == Init /\ [][Next]_vars

-----------------------------------------------------------------------------
\* The variables have the shapes the declarations above give.
TypeOK ==
    /\ conn \in [Conns -> Connection]
    /\ perm \in [Slots -> Permlink \cup {Null}]
    /\ dest \in [Hosts -> Destination]
    /\ seen \in [Conns -> SUBSET Hosts]
    /\ told \in [Conns -> SUBSET Hosts]

\* A destination that has a link is reachable over it: the link is in permarray and its
\* connection is an established host.  update_permlinks, route_cleanup and /link delete
\* have to keep d->link from outliving the connection or the entry it points to.
RoutesAreLive ==
    \A h \in Hosts : dest[h].link # NoSlot =>
        /\ dest[h].rtt # 0
        /\ dest[h].link \in Used(S)
        /\ IsHost(S, Via(S, h))

\* No two entries of permarray have one name.
NamesAreUnique == \A p, q \in Used(S) : perm[p].name = perm[q].name => p = q

\* What neighbours were told and is not so: the host is not reachable, or by way of the
\* neighbour only.
Untrue ==
    {b \in Conns \X Hosts : /\ b[2] \in told[b[1]]
                            /\ dest[b[2]].link = NoSlot \/ Via(S, b[2]) = b[1]}

\* What a neighbour believes of us stays true: a step that ends a route, or moves it,
\* withdraws it from everybody our /..DEST lines told of it.  The comment in
\* update_permlinks tells of the time when a link failure withdrew the neighbour only.
\* A host that makes a second entry take its name is the exception: its old routes go
\* silently.
DeadRoutesAreWithdrawn == [][NamesAreUnique' => Untrue' \subseteq Untrue]_vars

\* Links above another in its chain that are up although that one is, over a connection
\* of its own.
UpTogether ==
    {b \in Used(S) \X Used(S) :
        /\ IsHost(S, perm[b[1]].connection) /\ IsHost(S, perm[b[2]].connection)
        /\ perm[b[1]].connection # perm[b[2]].connection
        /\ b[2] \in Primaries(S, b[1])}

\* No step brings two links of a chain up together: what the loop avoidance of
\* h_host_command is for.  Again a host that makes a second entry take its name is the
\* exception: the chain that is looked at is that of the last entry with the name, the
\* connection goes to the first.
OneOfAChain == [][NamesAreUnique' => UpTogether' \subseteq UpTogether]_vars

\* An established host is found in permarray under the name it gave, whatever entry was
\* dialled: bye_command2 and checkhost look its link up by name, and a connection that
\* they missed would keep its routes.  A host that connects again takes the entry over
\* from its old connection, which bye_command2 gives up in the middle of the handshake.
HostsAreFoundByName ==
    \A c \in Conns : conn[c].type = "host" =>
        /\ find_permlink(S, conn[c].name) # NoSlot
        /\ perm[find_permlink(S, conn[c].name)].connection = c

\* The chains of primary and backup links are lists without cycles, linked both ways.
ChainsAreFlat ==
    \A p \in Used(S) :
        /\ perm[p].primary # NoSlot =>
              perm[p].primary \in Used(S) /\ perm[perm[p].primary].backup = p
        /\ perm[p].backup # NoSlot =>
              perm[p].backup \in Used(S) /\ perm[perm[p].backup].primary = p
        /\ p \notin Primaries(S, p)

\* What ChainsAreFlat is about.
Pointers == [p \in Used(S) |-> <<perm[p].primary, perm[p].backup>>]

\* Of all that happens to links with names of their own only the expiry of an entry breaks
\* a chain: /link add takes an entry out of its chain and puts it at the end of another,
\* /link del joins what is above the entry with what is below it, wherever it stands.  The
\* walks in connect_permlinks and h_host_command would not end on a cycle.
OnlyExpiryBreaksAChain ==
    [][Pointers' # Pointers /\ ~ ChainsAreFlat' =>
          \/ ~ (ChainsAreFlat /\ NamesAreUnique)
          \/ \E p \in Slots : EntryExpires(p)]_vars

\* The users of a host all arrive over one link: checkhost breaks the link that shows
\* one of them a second way.
OneWayToAHost ==
    \A c1, c2 \in Conns : c1 # c2 => seen[c1] \cap seen[c2] = {}

=============================================================================
