------------------------------ MODULE NoFlood -------------------------------
(***************************************************************************)
(* noflood.c of conversd-saupp: the list of static users (struct           *)
(* static_user_list, "sul"), which outlives the sessions of a call, its    *)
(* command flood counters, the rate limit and the delay queue of messages  *)
(* that come over a link, and the list of bans.                            *)
(*                                                                         *)
(* One neighbour, whose link breaks and comes back.  Local sessions are    *)
(* added by Login, which extends this module.                              *)
(*                                                                         *)
(* Times are kept as what the code compares them with: time_nextcmd is     *)
(* over ("none"), at most SulCmdDelay ahead ("short") or further ahead     *)
(* ("long"); stop_process_until is the number of messages it is ahead of   *)
(* now; a ban runs for a time or for ever.  Periodic work may happen at    *)
(* any time.  FeatureFLOOD and FeatureBAN have their default values, and   *)
(* the bans announced to neighbours are left to them.                      *)
(***************************************************************************)
EXTENDS Naturals, Sequences, SequencesExt, FiniteSets, FiniteSetsExt

CONSTANTS
    Calls,       \* names as get_tidy_name leaves them
    Remote,      \* calls of users behind the neighbour
    Chans,       \* channels they join
    FloodLimit,  \* floods after which a call is banned (5 in the code)
    RateLimitMAX,\* messages a call may be ahead of its rate
    FLOODSIZE,   \* messages a delay queue holds
    MaxSaid,     \* bound on the messages a remote user sends
    NoSul        \* model value: no entry

Unnamed == "[login]"   \* the name of the entry for sessions without a name

ASSUME NoFloodBounds ==
    /\ Remote \subseteq Calls /\ Unnamed \notin Calls
    /\ FloodLimit \in Nat \ {0} /\ RateLimitMAX \in Nat
    /\ FLOODSIZE \in Nat /\ MaxSaid \in Nat

VARIABLES
    sul,      \* list_of_static_users, by name and the host it was made for
    ban,      \* banned_users
    link,     \* is the link to the neighbour up?
    present,  \* the neighbour's users, one session per channel
    closed,   \* those of their sessions that ended and are not freed yet
    said,     \* how many messages a remote call has sent
    last,     \* the last of them that was sent on
    cast      \* which connections and kinds of events this behaviour has

floodVars == <<sul, ban, link, present, closed, said, last, cast>>

Suls == (Calls \cup {Unnamed}) \X {"here", "there"}

Known == {s \in Suls : sul[s] # NoSul}

(***************************************************************************)
(* get_sul: the entries of a name for local users (linked = FALSE) or for  *)
(* the users of the link.  An entry of the link whose link broke has lost  *)
(* its via and is found for local users: then there may be two, and the    *)
(* newer is taken.                                                         *)
(***************************************************************************)
get_sul(k, linked) == {s \in Known : s[1] = k /\ sul[s].linked = linked}

\* The entry generate_sul takes for a session: one get_sul finds or a new one.
SulFor(k, linked) ==
    IF get_sul(k, linked) # {} THEN get_sul(k, linked)
                               ELSE {<<k, IF linked THEN "there" ELSE "here">>}

NewSul(linked) ==
    [linked |-> linked, sp |-> {}, wait |-> "none", floods |-> 0, ahead |-> 0, queue |-> <<>>]

\* A known call that signs on again has a flood forgiven and a short wait.
Greeted(e) ==
    [e EXCEPT !.floods = IF @ > 0 THEN @ - 1 ELSE 0,
              !.wait = IF @ = "long" THEN "long" ELSE "none"]

(***************************************************************************)
(* generate_sul: session x moves to entry s, from the entries in old (none *)
(* or one); the two share the later of their rate limits.                  *)
(***************************************************************************)
generate_sul(x, s, linked, old) ==
    LET entered == [sul EXCEPT ![s] = IF @ = NoSul THEN NewSul(linked) ELSE Greeted(@)]
        later   == Max({entered[o].ahead : o \in old \cup {s}})
    IN  [o \in Suls |->
            IF o \in old \cup {s}
            THEN [entered[o] EXCEPT !.ahead = later,
                                    !.sp = IF o = s THEN @ \cup {x} ELSE @ \ {x}]
            ELSE entered[o]]

free_sul_delayqueue(e) == [e EXCEPT !.queue = <<>>]

\* ban_user: by this host, for BanTime, with the queue of the entries in S.
ban_user(k, S) ==
    /\ ban' = [ban EXCEPT ![k] = "timed"]
    /\ sul' = [s \in Suls |-> IF s \in S THEN free_sul_delayqueue(sul[s]) ELSE sul[s]]

is_banned(k) == ban[k] # "no"

\* update_ratelimit: one message more.  Beyond RateLimitMAX + 1 it only takes
\* longer to recover.
Ahead(e) == [e EXCEPT !.ahead = Min({@ + 1, RateLimitMAX + 1})]

\* A command counts as a message too, unless the rate limit lies in the past.
Charged(e) == {Ahead(e)} \cup (IF e.ahead = 0 THEN {e} ELSE {})

(***************************************************************************)
(* check_cmd_flood for a call with entry e.  A command that comes too      *)
(* early counts as a flood, and once FloodLimit of them are counted it     *)
(* bans; one in time is passed and takes a flood off, or all.              *)
(***************************************************************************)
Flooding(e) == e.wait # "none" /\ e.floods >= FloodLimit

\* The entry once its call is banned: it waits, and its queue is gone.
Stopped(e) == [free_sul_delayqueue(e) EXCEPT !.wait = "long"]

Early(e) ==
    IF e.wait = "none" \/ Flooding(e) THEN {}
    ELSE {[e EXCEPT !.wait = "long", !.floods = @ + 1]}

InTime(e) ==
    IF e.wait # "none" THEN {}
    ELSE {[e EXCEPT !.wait = w, !.floods = f] :
             w \in {"none", "short"}, f \in {0, IF e.floods = 0 THEN 0 ELSE e.floods - 1}}

-----------------------------------------------------------------------------
(***************************************************************************)
(* The neighbour.                                                          *)
(***************************************************************************)

\* h_host_command: the link is up again; relink_sul finds its entries by
\* the neighbour's name.
LinkUp ==
    /\ "link" \in cast /\ ~link
    /\ link' = TRUE
    /\ sul' = [s \in Suls |-> IF s \in Known /\ s[2] = "there"
                              THEN [sul[s] EXCEPT !.linked = TRUE] ELSE sul[s]]
    /\ UNCHANGED <<ban, present, closed, said, last, cast>>

\* bye_command2 on the link: its users' sessions are closed, those closed
\* before among them, and taken off their entries, which lose their via.
\* The sessions still point to these entries.
LinkDown ==
    /\ link
    /\ link' = FALSE
    /\ present' = {} /\ closed' = closed \cup present
    /\ sul' = [s \in Suls |-> IF s \in Known /\ sul[s].linked
                              THEN [sul[s] EXCEPT !.linked = FALSE, !.sp = @ \ closed']
                              ELSE sul[s]]
    /\ UNCHANGED <<ban, said, last, cast>>

\* make_new_user: a user of the neighbour joins a channel.
RemoteJoins(k, ch) ==
    /\ link /\ <<k, ch>> \notin present
    /\ present' = present \cup {<<k, ch>>}
    /\ \E s \in SulFor(k, TRUE) : sul' = generate_sul(<<k, ch>>, s, TRUE, {})
    /\ UNCHANGED <<ban, link, closed, said, last, cast>>

\* He leaves it: the session is closed, and stays in its entry.
RemoteLeaves(k, ch) ==
    /\ <<k, ch>> \in present
    /\ present' = present \ {<<k, ch>>}
    /\ closed' = closed \cup {<<k, ch>>}
    /\ UNCHANGED <<sul, ban, link, said, last, cast>>

(***************************************************************************)
(* free_connection of the sessions in closed and of the local connections  *)
(* in C, where entry[c] is that of c: they are taken off the entries they  *)
(* point to.  An entry lists the sessions of a user of the neighbour on a  *)
(* channel under one name: it remains there while one of them is open.  An *)
(* entry that has been freed has no session, whatever its memory holds.    *)
(***************************************************************************)
free_sul_sp(C, entry) ==
    [s \in Suls |->
        IF s \notin Known THEN NoSul
        ELSE [sul[s] EXCEPT !.sp = @ \ ({x \in closed \ present : s = <<x[1], "there">>}
                                         \cup {c \in C : s = entry[c]})]]

(***************************************************************************)
(* check_msg_flood and add_to_sul_delayqueue: message m of call k, which   *)
(* has entry s, is sent on, queued, dropped, or the one that bans him.     *)
(***************************************************************************)
\* Mutant of Delayed: the queue is not looked at.
DelayedByRate(s) == sul[s].ahead > RateLimitMAX

Delayed(s) == sul[s].queue # <<>> \/ sul[s].ahead > RateLimitMAX

SendOn(s, m) ==
    /\ ~Delayed(s)
    /\ sul' = [sul EXCEPT ![s] = Ahead(@)]
    /\ last' = [last EXCEPT ![s[1]] = m.n]
    /\ UNCHANGED ban

Queue(s, m) ==
    /\ Delayed(s) /\ Len(sul[s].queue) < FLOODSIZE
    /\ sul' = [sul EXCEPT ![s].queue = Append(@, m)]
    /\ UNCHANGED <<last, ban>>

\* A private message to the sender's own name may be a spoof: no ban.
Overflow(s, m) ==
    /\ Delayed(s) /\ Len(sul[s].queue) >= FLOODSIZE
    /\ IF m.to = "self" THEN UNCHANGED <<sul, ban>> ELSE ban_user(s[1], {s})
    /\ UNCHANGED last

check_msg_flood(k, m) ==
    \/ is_banned(k) /\ UNCHANGED <<sul, ban, last>>
    \/ /\ ~is_banned(k) /\ get_sul(k, TRUE) = {}
       /\ last' = [last EXCEPT ![k] = m.n]
       /\ UNCHANGED <<sul, ban>>
    \/ /\ ~is_banned(k)
       /\ \E s \in get_sul(k, TRUE) : SendOn(s, m) \/ Queue(s, m) \/ Overflow(s, m)

\* h_cmsg_command, h_umsg_command: to a channel, to a user, to his own name.
RemoteSays(k, to) ==
    /\ link /\ said[k] < MaxSaid
    /\ said' = [said EXCEPT ![k] = @ + 1]
    /\ check_msg_flood(k, [n |-> said[k] + 1, to |-> to])
    /\ UNCHANGED <<link, present, closed, cast>>

\* A command of a neighbour's user that is checked for floods: his ban
\* takes the queue with it, but he is not disconnected.
RemoteCommand(k) ==
    /\ link /\ "floods" \in cast
    /\ \E s \in get_sul(k, TRUE) : \E e \in Charged(sul[s]) :
          \/ /\ Flooding(e)
             /\ ban' = [ban EXCEPT ![k] = "timed"]
             /\ sul' = [sul EXCEPT ![s] = Stopped(e)]
          \/ /\ \E f \in Early(e) \cup InTime(e) : sul' = [sul EXCEPT ![s] = f]
             /\ UNCHANGED ban
    /\ UNCHANGED <<link, present, closed, said, last, cast>>

-----------------------------------------------------------------------------
(***************************************************************************)
(* Periodic work, and bans from the network.                               *)
(***************************************************************************)

\* The sender of a queued message is still there to send it, on the channel
\* it is for.  A local user who shares the entry (see get_sul), one of those
\* in users, counts if he has the same name and channel: either may be.
StillThere(s, m, users) ==
    \/ \E x \in sul[s].sp \cap present : m.to \in Chans => x[2] = m.to
    \/ sul[s].sp \cap users # {}

(***************************************************************************)
(* What send_sul_delayed_messages makes of s's queue.  It goes through it  *)
(* as long as the call is not too far ahead, and each message it sends on  *)
(* puts the call further ahead.                                            *)
(***************************************************************************)
AfterFlush(s, users) ==
    LET q == sul[s].queue
        sent(i) == {j \in 1 .. i : StillThere(s, q[j], users)}
        done == Max({0} \cup {i \in 1 .. Len(q) :
                               sul[s].ahead + Cardinality(sent(i - 1)) <= RateLimitMAX})
    IN  [i |-> done,
         ahead |-> sul[s].ahead + Cardinality(sent(done)),
         last |-> IF sent(done) = {} THEN last[s[1]] ELSE q[Max(sent(done))].n]

Backlog == {s \in Known : sul[s].queue # <<>>}

Sendable(s) == sul[s].linked /\ sul[s].sp # {}

\* send_sul_delayed_messages, every minute.
send_sul_delayed_messages(users) ==
    /\ Backlog # {}
    /\ \E counted \in {users, {}} :
         LET a(s) == AfterFlush(s, counted)
         IN  /\ sul' = [s \in Suls |->
                          IF s \notin Backlog THEN sul[s]
                          ELSE IF ~Sendable(s) THEN free_sul_delayqueue(sul[s])
                          ELSE [sul[s] EXCEPT !.ahead = a(s).ahead,
                                              !.queue = SubSeq(@, a(s).i + 1, Len(@))]]
             /\ last' = [k \in Calls |->
                    Max({last[k]} \cup {a(s).last : s \in {t \in Backlog : t[1] = k /\ Sendable(t)}})]
    /\ UNCHANGED <<ban, link, present, closed, said, cast>>

\* Time passes for a call.
Recovers(s) ==
    /\ s \in Known
    /\ \/ sul[s].ahead > 0 /\ sul' = [sul EXCEPT ![s].ahead = @ - 1]
       \/ sul[s].wait = "long" /\ sul' = [sul EXCEPT ![s].wait = "short"]
       \/ sul[s].wait = "short" /\ sul' = [sul EXCEPT ![s].wait = "none"]
    /\ UNCHANGED <<ban, link, present, closed, said, last, cast>>

\* Mutant of Unused: an idle session does not keep its entry.
UnusedForLong(s) == s[1] \in Calls => ~is_banned(s[1])

\* An entry goes when no session uses it and the call is not banned...
Unused(s) ==
    /\ sul[s].sp = {}
    /\ s[1] \in Calls => ~is_banned(s[1])

\* ... once it has not been used for SulLifeTime.  Floods are forgotten
\* after that time, and the queue of a call that left is dropped at once.
expire_sul(s) ==
    /\ "expiry" \in cast
    /\ s \in Known
    /\ LET e == IF sul[s].sp = {} THEN free_sul_delayqueue(sul[s]) ELSE sul[s]
       IN \/ sul' = [sul EXCEPT ![s] = e]
          \/ e.wait = "none" /\ sul' = [sul EXCEPT ![s] = [e EXCEPT !.floods = 0]]
          \/ Unused(s) /\ sul' = [sul EXCEPT ![s] = NoSul]
    /\ UNCHANGED <<ban, link, present, closed, said, last, cast>>

\* h_ban_command: a ban of another host, for a time or for ever.  It does
\* not touch the queue.
h_ban_command(k) ==
    /\ "bans" \in cast
    /\ ban[k] = "no"
    /\ \E b \in {"timed", "forever"} : ban' = [ban EXCEPT ![k] = b]
    /\ UNCHANGED <<sul, link, present, closed, said, last, cast>>

expire_banlist(k) ==
    /\ ban[k] = "timed"
    /\ ban' = [ban EXCEPT ![k] = "no"]
    /\ UNCHANGED <<sul, link, present, closed, said, last, cast>>

FloodInit ==
    /\ sul = [s \in Suls |-> NoSul]
    /\ ban = [k \in Calls |-> "no"]
    /\ link = FALSE /\ present = {} /\ closed = {}
    /\ said = [k \in Calls |-> 0]
    /\ last = [k \in Calls |-> 0]

FloodNext ==
    \/ LinkUp \/ LinkDown
    \/ \E k \in Remote :
          \/ \E ch \in Chans : RemoteJoins(k, ch) \/ RemoteLeaves(k, ch)
          \/ \E to \in Chans \cup {"user", "self"} : RemoteSays(k, to)
          \/ RemoteCommand(k)
    \/ \E s \in Suls : Recovers(s) \/ expire_sul(s)
    \/ \E k \in Calls : h_ban_command(k) \/ expire_banlist(k)

-----------------------------------------------------------------------------
(***************************************************************************)
(* The messages of one call are never sent on in another order than the    *)
(* one they came in, through delay queues, breaks of the link and new      *)
(* entries: all that is queued is in order and later than what was sent.   *)
(***************************************************************************)
MessagesKeepTheirOrder ==
    \A s \in Known : \A i \in 1 .. Len(sul[s].queue) :
        /\ sul[s].queue[i].n > last[s[1]]
        /\ i > 1 => sul[s].queue[i].n > sul[s].queue[i - 1].n

=============================================================================
