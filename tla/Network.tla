------------------------------ MODULE Network -------------------------------
(***************************************************************************)
(* Several conversds (reference/conversd-saupp) linked in a tree, and what *)
(* they know of each other's users: who is on, the away and personal text  *)
(* of each, and the topic of the one channel everybody is on.  Lines       *)
(* travel over the links in order; a link can break with lines under way,  *)
(* its ends notice one after the other, and on reconnecting both send all  *)
(* they know.                                                              *)
(*                                                                         *)
(* The links form a tree: what keeps it one is modelled in Permlinks.  All *)
(* hosts have FEATURE_SAUPP_I, all clocks agree, no host filters floods.   *)
(***************************************************************************)
EXTENDS Naturals, Sequences, SequencesExt, FiniteSets

CONSTANTS
    Nodes,
    Neighbours,      \* the links, as ordered pairs both ways
    Users,
    Home,            \* the host a user logs in at
    Anchors,         \* users who do not log out
    OneSetPerSecond, \* no two topics are set within a second
    MaxCommands,     \* bound on the commands users give
    MaxBreaks        \* bound on link failures

ASSUME NetworkBounds ==
    /\ Neighbours \subseteq Nodes \X Nodes
    /\ \A e \in Neighbours : <<e[2], e[1]>> \in Neighbours
    /\ Home \in [Users -> Nodes]
    /\ Anchors \subseteq Users
    /\ OneSetPerSecond \in BOOLEAN
    /\ MaxCommands \in Nat /\ MaxBreaks \in Nat

VARIABLES
    known,   \* per host and user, the entry in its list of connections
    topic,   \* per host, the topic
    split,   \* hosts whose channel a netsplit emptied
    link,    \* per ordered pair, how the first host sees its connection to the second
    wire,    \* lines under way
    file,    \* the personal texts on the users' hosts
    clock, commands, breaks,
    since    \* history: per host, when its channel got a first user or links came up last

vars == <<known, topic, split, link, wire, file, clock, commands, breaks, since>>

S == [known |-> known, topic |-> topic, split |-> split, link |-> link, wire |-> wire,
      file |-> file]

Become(state) ==
    \E s \in {state} :
        /\ known' = s.known
        /\ topic' = s.topic
        /\ split' = s.split
        /\ link' = s.link
        /\ wire' = s.wire
        /\ file' = s.file

NoUser == [on |-> FALSE]
\* Text 0 is no topic, or a topic that was removed.
NoTopic == [time |-> 0, text |-> 0, by |-> "nobody"]
Here == "here"

\* via is Here or the neighbour an entry came from.
EntryOf(via, away, pers) == [on |-> TRUE, via |-> via, away |-> away, pers |-> pers]

UsersAt(s, n) == {u \in Users : s.known[n][u].on}
Via(s, n, m) == {u \in UsersAt(s, n) : s.known[n][u].via = m}

Up(s, n) == {m \in Nodes : <<n, m>> \in Neighbours /\ s.link[<<n, m>>] = "up"}

\* n sends a line to every neighbour but the one it came from.
Tell(s, n, from, line) ==
    LET to == Up(s, n) \ {from}
    IN  IF to = {} THEN s
        ELSE [s EXCEPT !.wire = [e \in Neighbours |->
                IF e[1] = n /\ e[2] \in to THEN Append(@[e], line) ELSE @[e]]]

-----------------------------------------------------------------------------
(***************************************************************************)
(* Coming and going.                                                       *)
(***************************************************************************)
\* The users are gone from n.  An emptied channel loses its topic, or keeps it for a
\* while when a netsplit took them.
Gone(s, n, gone, lock) ==
    LET s1 == [s EXCEPT !.known[n] = [u \in Users |-> IF u \in gone THEN NoUser ELSE @[u]]]
    IN  IF gone = {} \/ UsersAt(s1, n) # {} THEN s1
        ELSE IF lock THEN [s1 EXCEPT !.split = @ \cup {n}]
        ELSE [s1 EXCEPT !.topic[n] = NoTopic, !.split = @ \ {n}]

\* A user appears at n; an empty channel is alive again.
Enter(s, n, u, entry) == [s EXCEPT !.known[n][u] = entry, !.split = @ \ {n}]

\* NJ is a join, or the announcement of a new personal text.
NJ(u, join, pers) == [cmd |-> "NJ", user |-> u, join |-> join, pers |-> pers]

\* The personal text comes from the user's file.
user_login_common_partB(s, u) == EntryOf(Here, "", s.file[u])

user_login(s, u) ==
    LET n == Home[u]
        entry == user_login_common_partB(s, u)
    IN  Tell(Enter(s, n, u, entry), n, n, NJ(u, TRUE, entry.pers))

user_logout(s, u) ==
    Tell(Gone(s, Home[u], {u}, FALSE), Home[u], Home[u], [cmd |-> "UQUIT", user |-> u])

h_uquit(s, n, m, line) ==
    Gone(Tell(s, n, m, line), n, {line.user} \cap Via(s, n, m), FALSE)

h_squit(s, n, m, line) ==
    Gone(Tell(s, n, m, line), n, {u \in Via(s, n, m) : Home[u] = line.host}, TRUE)

-----------------------------------------------------------------------------
(***************************************************************************)
(* Texts.                                                                  *)
(***************************************************************************)
send_awaymsg(s, n, from, u, text) ==
    Tell(s, n, from, [cmd |-> "AWAY", user |-> u, text |-> text])

\* Mutant: what is news here is not passed on.
AwayStays(s, n, m, line) ==
    IF s.known[n][line.user].on
    THEN [s EXCEPT !.known[n][line.user].away = line.text] ELSE Tell(s, n, m, line)

h_away(s, n, m, line) ==
    LET u == line.user
        s1 == IF s.known[n][u].on /\ s.known[n][u].via # Here
              THEN [s EXCEPT !.known[n][u].away = line.text] ELSE s
    IN  send_awaymsg(s1, n, m, u, line.text)

away_command(s, u, text) ==
    LET n == Home[u]
    IN  IF s.known[n][u].away = text THEN s
        ELSE send_awaymsg([s EXCEPT !.known[n][u].away = text], n, n, u, text)

\* The text of somebody who is here or came from the sender is another one now.
change_pers_and_nick(s, n, from, u, pers) ==
    IF s.known[n][u].on /\ s.known[n][u].via \in {Here, from}
    THEN [s EXCEPT !.known[n][u].pers = pers] ELSE s

personal_command(s, u, text) ==
    LET n == Home[u]
        s1 == [s EXCEPT !.file[u] = text]
    IN  IF s.known[n][u].pers = text THEN s1
        ELSE Tell(change_pers_and_nick(s1, n, n, u, text), n, n, NJ(u, FALSE, text))

\* Somebody who came from m joins; an entry that is there already is dropped, but the
\* text is taken.
make_new_user(s, n, m, u, pers) ==
    IF s.known[n][u].on THEN change_pers_and_nick(s, n, m, u, pers)
    ELSE Enter(s, n, u, EntryOf(m, "", pers))

\* NJ is passed on as it is, and then looked at.
h_netjoin(s, n, m, line) ==
    LET s1 == Tell(s, n, m, line)
    IN  IF line.join THEN make_new_user(s1, n, m, line.user, line.pers)
        ELSE change_pers_and_nick(s1, n, m, line.user, line.pers)

\* Mutant: the last line to arrive wins.
TopicAsItComes(s, n, from, line) ==
    IF UsersAt(s, n) = {} \/ line.topic = s.topic[n] THEN s
    ELSE Tell([s EXCEPT !.topic[n] = line.topic], n, from, line)

\* Taken and passed on only if it is newer, the channel is alive and the same user did
\* not say the same before.
send_topic(s, n, from, line) ==
    LET old == s.topic[n]
        new == line.topic
    IN  IF UsersAt(s, n) # {} /\ old.time < new.time
           /\ ~ (old.text = new.text /\ old.by = new.by)
        THEN Tell([s EXCEPT !.topic[n] = new], n, from, line) ELSE s

\* A topic with a time ahead of the clock is followed by one of a later time.
topic_command(s, u, now, text) ==
    LET n == Home[u]
        time == IF s.topic[n].time > now THEN s.topic[n].time + 1 ELSE now
    IN  IF s.topic[n].text = text THEN s
        ELSE send_topic(s, n, n, [cmd |-> "TOPI",
                                  topic |-> [time |-> time, text |-> text, by |-> u]])

\* No topic is from the future.
h_topi(s, n, m, line) ==
    send_topic(s, n, m, [line EXCEPT !.topic.time = IF @ > clock THEN clock ELSE @])

Handle(s, n, m, line) ==
    CASE line.cmd = "NJ" -> h_netjoin(s, n, m, line)
      [] line.cmd = "UQUIT" -> h_uquit(s, n, m, line)
      [] line.cmd = "SQUIT" -> h_squit(s, n, m, line)
      [] line.cmd = "AWAY" -> h_away(s, n, m, line)
      [] line.cmd = "TOPI" -> h_topi(s, n, m, line)

-----------------------------------------------------------------------------
(***************************************************************************)
(* Links.                                                                  *)
(***************************************************************************)
\* The next line from m reaches n.
process_input(n, m) ==
    /\ link[<<n, m>>] = "up" /\ wire[<<m, n>>] # <<>>
    /\ Become(Handle([S EXCEPT !.wire[<<m, n>>] = Tail(@)], n, m, Head(wire[<<m, n>>])))
    /\ UNCHANGED <<clock, commands, breaks>>

\* What is under way is lost; neither end has noticed.
LinkBreaks(n, m) ==
    /\ breaks < MaxBreaks /\ link[<<n, m>>] = "up" /\ link[<<m, n>>] = "up"
    /\ breaks' = breaks + 1
    /\ Become([S EXCEPT !.link[<<n, m>>] = "lost", !.link[<<m, n>>] = "lost",
                        !.wire[<<n, m>>] = <<>>, !.wire[<<m, n>>] = <<>>])
    /\ UNCHANGED <<clock, commands>>

\* n notices: SQUITs for the neighbour and every host with users behind it, then
\* everybody who came over the link is removed.
LinkQuits(s, n, m) ==
    LET hosts == {m} \cup {Home[u] : u \in Via(s, n, m)}
        told == FoldSet(LAMBDA h, t : Tell(t, n, m, [cmd |-> "SQUIT", host |-> h]),
                        [s EXCEPT !.link[<<n, m>>] = "down"], hosts)
    IN  Gone(told, n, Via(s, n, m), TRUE)

bye_command2(n, m) ==
    /\ link[<<n, m>>] = "lost"
    /\ Become(LinkQuits(S, n, m))
    /\ UNCHANGED <<clock, commands, breaks>>

\* Users with their personal texts, then who is away, then the topic.
Burst(s, n) ==
    LET users == SetToSeq(UsersAt(s, n))
        gone == SelectSeq(users, LAMBDA u : s.known[n][u].away # "")
    IN  [i \in DOMAIN users |-> NJ(users[i], TRUE, s.known[n][users[i]].pers)]
          \o [i \in DOMAIN gone |-> [cmd |-> "AWAY", user |-> gone[i],
                                     text |-> s.known[n][gone[i]].away]]
          \o (IF s.topic[n].text = 0 \/ users = <<>> THEN <<>>
              ELSE <<[cmd |-> "TOPI", topic |-> s.topic[n]]>>)

\* Both ends have cleaned up; each sends all it knows.
h_host_command(n, m) ==
    /\ link[<<n, m>>] = "down" /\ link[<<m, n>>] = "down"
    /\ Become([S EXCEPT !.link[<<n, m>>] = "up", !.link[<<m, n>>] = "up",
                        !.wire[<<n, m>>] = Burst(S, n), !.wire[<<m, n>>] = Burst(S, m)])
    /\ UNCHANGED <<clock, commands, breaks>>

\* The lock of an emptied channel runs out and takes the topic with it.
expire_destroyed_channels(n) ==
    /\ n \in split
    /\ Become([S EXCEPT !.split = @ \ {n}, !.topic[n] = NoTopic])
    /\ UNCHANGED <<clock, commands, breaks>>

-----------------------------------------------------------------------------
On(u) == known[Home[u]][u].on

Command(u) ==
    /\ commands < MaxCommands
    /\ commands' = commands + 1
    /\ \/ ~ On(u) /\ Become(user_login(S, u)) /\ UNCHANGED clock
       \/ On(u) /\ u \notin Anchors /\ Become(user_logout(S, u)) /\ UNCHANGED clock
       \/ On(u) /\ UNCHANGED clock
            /\ \E text \in {"", "gone"} : Become(away_command(S, u, text))
       \/ On(u) /\ UNCHANGED clock
            /\ \E text \in {"@", "text"} : Become(personal_command(S, u, text))
       \/ /\ On(u)
          /\ clock' \in IF OneSetPerSecond THEN {clock + 1} ELSE {clock, clock + 1}
          /\ \E text \in {0, commands + 1} : Become(topic_command(S, u, clock', text))
    /\ UNCHANGED breaks

\* The neighbour of n on the way to m.
Towards(n, m) ==
    LET near[i \in 0..Cardinality(Nodes)] ==
            IF i = 0 THEN {m}
            ELSE near[i-1] \cup {e[1] : e \in {e \in Neighbours : e[2] \in near[i-1] /\ e[1] # n}}
    IN  CHOOSE x \in near[Cardinality(Nodes)] : <<n, x>> \in Neighbours

\* The links are up, and those who stay are logged in.
Init ==
    /\ known = [n \in Nodes |-> [u \in Users |->
                  IF u \notin Anchors THEN NoUser
                  ELSE EntryOf(IF n = Home[u] THEN Here ELSE Towards(n, Home[u]), "", "@")]]
    /\ topic = [n \in Nodes |-> NoTopic]
    /\ split = {}
    /\ link = [e \in Neighbours |-> "up"]
    /\ wire = [e \in Neighbours |-> <<>>]
    /\ file = [u \in Users |-> "@"]
    /\ clock = 0 /\ commands = 0 /\ breaks = 0
    /\ since = [n \in Nodes |-> 0]

History ==
    LET connected == \E e \in Neighbours : link[e] = "down" /\ link'[e] = "up"
    IN  since' = [n \in Nodes |->
                    IF connected \/ (UsersAt(S, n) = {} /\ UsersAt(S, n)' # {})
                    THEN clock ELSE since[n]]

Next ==
    /\ \/ \E u \in Users : Command(u)
       \/ \E e \in Neighbours :
             \/ process_input(e[1], e[2])
             \/ LinkBreaks(e[1], e[2])
             \/ bye_command2(e[1], e[2])
             \/ h_host_command(e[1], e[2])
       \/ \E n \in Nodes : expire_destroyed_channels(n)
    /\ History

\* conversd reads what arrives, notices a dead connection (ping timeout) and redials.
Spec ==
    /\ Init /\ [][Next]_vars
    /\ \A e \in Neighbours : /\ WF_vars(process_input(e[1], e[2]) /\ History)
                             /\ WF_vars(bye_command2(e[1], e[2]) /\ History)
                             /\ WF_vars(h_host_command(e[1], e[2]) /\ History)

-----------------------------------------------------------------------------
Quiet == \A e \in Neighbours : link[e] = "up" /\ wire[e] = <<>>

\* Every host knows exactly the users that are on, with the texts they gave at home.
UsersAgreed ==
    \A n \in Nodes, u \in Users :
        LET here == known[Home[u]][u]
        IN  IF here.on
            THEN /\ known[n][u].on
                 /\ known[n][u].away = here.away
                 /\ known[n][u].pers = here.pers
            ELSE ~ known[n][u].on

\* A topic set or removed since the links are up and somebody is on the channel is the
\* topic there too, unless there is a later one.
TopicsAgreed ==
    \A n, m \in Nodes :
        topic[n].time > since[m] /\ topic[n].time >= topic[m].time => topic[m] = topic[n]

\* Whenever the links are up and nothing is under way, the hosts agree on the users, on
\* their away and personal texts and on the latest topic: whatever was said, lost, split
\* off or repeated on the way.
QuietNetworkAgrees == Quiet => UsersAgreed /\ TopicsAgreed

\* Once users stop giving commands and links stop breaking, the network comes to agree.
NetworkSettles == <>[](UsersAgreed /\ TopicsAgreed)

=============================================================================
