# pdn-convers: specification and proofs

pdn-convers is a leaf node of the convers chat network. Local users attach over
packet radio (RHP) or a web tile; one upstream link speaks the `/..` host
protocol with a parent `conversd`; other leaves may attach below. The repository
also carries that parent: `reference/conversd-saupp`, the C program whose
network the leaf joins and whose behaviour it follows. This directory holds TLA+
models of the parts of both that carry their logic, TLC configurations that
check them on small instances, and TLAPS proofs that hold for every instance.
Paths of the leaf are relative to `src/src/`, those of conversd to
`src/reference/conversd-saupp/`.

## 1. The system

### The leaf (C#)

| Component | State | Operations | Interacts by |
|---|---|---|---|
| `ConversHub` (Core) | sessions, network user table, topics and modes, operator rosters, invitations | `Advance(event)`: 12 local and 11 host events | returns actions: one uplink command at most, deliveries to sessions; writes to the store |
| `ChannelModes` (Core) | none | apply a toggle string, canonical wire form, invite gate | called by the hub |
| `ConversStore` (Core) | SQLite: profiles, topics, chat log | upserts with an age test | called by the hub and by the chat log writer |
| `HostLinkEngine` (Host/Uplink) | handshake state, three time stamps | connected, accepted, line, tick | returns steps to its driver |
| `HostLink` (Host/Uplink) | queue of work, current link, backoff, peers | owning loop: dial, run, wait; submit, snapshot, register peer | the only caller of the hub; sends to parent and peers |
| `DownstreamPeerSession`, `PeerRelay` | engine, outbound queue, early content | accept, relay, announce | posts to the loop's queue, is a sink of its fan-out |
| `RhpNodeLink` (Host/Rhp) | client, child table, stash of early data | bind, accept, open, send, close, reconnect | callbacks of the RHP client |
| `RfUserSession`, `InboundDemux`, `LocalSessionRegistry` | per-user prompt state, sinks | first line decides user or host, then commands | submit events, take deliveries |
| `WebChatSessions` | session per callsign, last-seen times | get or create, touch, sweep | submit events from concurrent requests |
| `HostLinkCompression`, `CompressingLineTransport` | per-direction switch, receive buffer | offer, toggle, encode, decode | wrapped around either transport |
| Codecs, Console, configuration | none | parse, format, render | pure functions |

The hub is sequential: one loop calls it, one event at a time. What is hard
lies in the combinations: cached copies (operator flag, invitations, the row of
a session in the table) that several handlers must keep fresh; two sources of
truth for topics (memory with fine time stamps, store and wire with seconds);
the interleaving of local activity with dialing, handshake, loss and reconnect;
links that die without an error; and callbacks that outrun registrations in
the RHP link and in the web sessions. `PROJECT.json` lists these hazards at
their lines.

What makes each part correct:

- hub: sessions, table and announcements agree; rights come from rosters; what
  is persisted is as new as what is shown; bystanders hear of every change;
- link: both sides of the uplink agree again after every reconnect; a dead link
  is dropped; the loop never wedges;
- peers: what one host says reaches every other host once, in order;
- RHP link and sessions: no child or session is left without an owner, and data
  goes to the connection it arrived on;
- compression: both ends switch at the same byte of each direction.

### conversd (C)

| Part | State | Operations | Interacts by |
|---|---|---|---|
| links and routes (`conversd.c`, `host.c`, `/link` in `user.c`) | `permarray` with primary and backup chains, `destinations` | dial, `/..HOST`, `/..DEST`, `/..PING`, `/..LOOP`, `/..SQUIT`, timers, `/link` | `bye_command2`, `update_permlinks` and `update_destinations` call each other |
| users and channels (`user.c`, `irc.c`, `host.c`) | `connections`, `chan_list` of each session, `channels` | login, join, leave, modes, invitations, operators, remote joins and quits | fan-out to sessions and neighbours |
| network protocol (`host.c`) | the same tables on every host | `/..NJ`, `/..UQUIT`, `/..SQUIT`, `/..AWAY`, `/..TOPI`, bursts | lines over a tree of links |
| login (`user.c`, `access.c`, `irc.c`) | name, challenge and answer of a connection; password file | `/name`, `NICK`, `USER`, `PASS`, `/auth`, `/mkpass` | turns a connection into a user |
| flood protection (`noflood.c`) | static user list, delay queues, bans | rate limit, command floods, flush, expiry, `/..BAN` | asked by every handler, keeps pointers to sessions |
| displays, settings, help, character sets, compression, MD5, logs, cron, the `convers` client | one session or none | format, translate, copy | text out |

conversd is one `select()` loop. Nothing runs concurrently inside it; what is
hard is the handlers that call each other in the middle of a loop over shared
lists, pointers from one table into another (a route into `permarray`, a
permlink to a connection, a session into the static user list), flags kept
twice, and the other hosts, which see every change late, twice or not at all.

- links: no pointer outlives what it points to, no two links of a chain are up
  together, what neighbours were told about routes is withdrawn when it ends;
- channels: records live as long as members, no copy of the operator flag claims
  more than was granted, neighbours of either generation know our users and
  reach them, a netsplit is no way to take a channel over;
- network: hosts that can talk agree;
- login and floods: a session has the rights of the call it proved, entries live
  as long as their sessions, delaying does not reorder.

## 2. The modules

| Module | Models | Kind |
|---|---|---|
| `ChannelModes` | `Core/ChannelModes.cs` | operators |
| `LocalPresence` | what a leaf promises about its own users | abstract specification |
| `ConversHub` | `Core/ConversHub.cs`, topics and profiles of `Core/ConversStore.cs` | specification and properties |
| `MCHub` | event families and constants for TLC | model |
| `HostLinkEngine` | `Host/Uplink/HostLinkEngine.cs` | operators |
| `HostLink` | `Host/Uplink/HostLink.cs` with transport and parent | composition and properties |
| `ConversHubProofs` | type correctness | proofs |
| `ConversHubRightsProofs` | operator flags, invitations, mode gates | proofs |
| `ConversHubTopicProofs` | topics in memory and store | proofs |
| `ConversHubPresenceProofs` | presence, personal texts, notices of membership, and the refinement of `LocalPresence` | proofs |
| `HostLinkProofs` | both ends of the uplink in step | proofs |
| `Permlinks`, `MCPermlinks` | links, routes and loop avoidance of conversd | specification, model |
| `PermlinksProofs` | routes, links, chains and what neighbours were told | proofs |
| `Channels`, `MCChannels` | users, channels, modes and operators of one conversd | specification, model |
| `ChannelsProofs` | neighbours, records, locks, operator flags, messages | proofs |
| `Network`, `MCNetwork` | several conversds and the lines between them | composition, model |
| `NoFlood` | `noflood.c` with one neighbour and its users | specification |
| `Login`, `MCLogin` | login and passwords; extends `NoFlood` with local sessions | composition, model |
| `LoginProofs` | session lists, order of delayed messages, proven logins | proofs |

### ConversHub

Each variable is one field (`sessions` is `_sessions`, `users` is `_users` keyed
by name and host, `topics` and `modes` are the two halves of `_channels`, and so
on); `storedTopics` and `profiles` are the two tables of the store that the hub
uses; `now` is the injected clock; `out` is the list of actions the last event
returned. One action is one event handler. Refusals that share a handler with a
state change are separate actions (`LocalJoinRefused`, `LocalSwitchRefused`), or
the `IF` of one when both branches fan out. An event that a handler drops without
any effect is a stuttering step. `Restart` is the constructor on an existing
store. `upstream` is a history variable: what a parent that applied every
`/..USER` would believe.

Abstractions: callsigns, hosts, texts are model values (canonicalisation and
trimming are left out); the away message is a Boolean; nicknames, observers,
`JoinedAt` and the wording of notices are left out; a mode toggle string is the
pair of letter sets it leaves on and off. Times are kept in ticks with
`TicksPerSecond` to a second, because memory and the wire differ in exactly
that. A session id is used once at a time, which is the contract of
`LocalSession.Id`. `OneSessionPerCall` says whether a callsign may attach twice;
the code permits it and does not cope with it (section 5), so the presence
theorems assume it away.

### HostLinkEngine and HostLink

The engine keeps time stamps and compares ages in `OnTick` only; the model keeps
saturating ages. `HostLink` is the loop of `RunAsync` in its three phases. One
pass of the loop is one action: a line, one queued item, a tick, the end of the
stream. `Task.WhenAny(receive, localWait, tick)` returns the first completed
task in that order, so queued work is taken only when no line is ready and a
tick only when neither is. A send on a broken link either throws or goes
unnoticed; where it throws inside the connection the exception leaves
`RunOneConnectionAsync` (no reset of the backoff), where it throws for a queued
event it is swallowed.

The hub appears as `LocalPresence` (its announcements are those of that module,
which `ConversHub` implements) and as the set of remote users in its table. The
transport is in order and lossless until it is `cut` (an error we can see) or
`hung` (silence). The parent is external: it answers `/..HOST`, announces the
users it knows before or after that reply, applies our `/..USER` lines, answers
`/..PING`, and has signed off the users of an old link by the time it accepts a
new one. Agreement is stated about what is still in flight: the last line about
a user decides what the reader's table will say of them, and the table itself
where no line does (`ParentWillHave`, `WillBeKnown`).

### Permlinks

The variables are the tables: `conn` the connections to hosts, `perm` is
`permarray`, `dest` the destinations, `seen` for each connection the hosts whose
users arrived over it, and `told` a history variable, what our `/..DEST` lines
add up to for each neighbour. Helpers are operators from a state to a state (the
record `S`), so a handler that breaks another link in the middle of its work, as
`h_host_command` and `loop_handler` do, is still one action, and the order of
the calls in the code is the nesting of the operators. The walk over `permarray`
in `h_host_command` changes what it walks over and is a recursive function
whose step is `WalkStep`. The walks along `primary` and `backup` change nothing;
what they visit is `Chain`, the least set that the walk enters and never leaves.

Durations are left out: a timer that runs may expire at any time. A round trip
time is a number up to `MaxRtt`; hop counts, which are only displayed, and ports
without hosts are left out.

The code takes any name from a host that was dialled and any entry as the
primary of another; with `NamesAgree = FALSE` and `OldLinksFirst = FALSE`, as in
the runs, so does the model. It does not cope with either: a dialled host that
gives the name of another entry leaves two entries on one connection, one of
which dangles once the connection is freed, and a learned entry expires under
the link that backs it up. What the code does after the second is undefined, so
the runs stop at states with a pointer to a freed entry (`NothingDangles`, a
constraint: such states are checked but not left). Four properties say how far
the damage goes. `HostsAreFoundByName`: a renamed entry and an entry of that name
may both have the connection, but the one found first has it.
`DeadRoutesAreWithdrawn` and `OneOfAChain`: only a step that leaves two entries
with one name makes something untrue that neighbours were told, or brings two
links of a chain up together. `OnlyExpiryBreaksAChain`: where names are unique,
no handler but the expiry damages the pointers. The theorems are stated for both
constants `TRUE`, that is for hosts that are listed under their own name and
chains of configured links, as in the example of `etc/conversd.conf`.

### Channels

`user` holds the local sessions (`list` is `chan_list`, `ops` its entries with
`channelop`, `channelop` the session's own copy), `remote` one entry per remote
user and channel as the C code keeps it, `chan` the channel records with expiry
and netsplit lock, `told` a history variable: the users a neighbour believes to
be behind us. `Featured` are the neighbours with `FEATURE_SAUPP_I`, which get
`NJ`, `UQUIT` and `SQUIT`; the others get `USER` lines. A name stands for one
session; nicknames, filters and the text shown to users are left out, except
that `send_msg_to_channel2`, `msg_command`, `all_command` and
`send_msg_to_user2` compute who gets a message. `check_opless_channels` picks any
member the code could pick.

Neighbours may send any line the handlers accept. Two of them are handled in
ways the protocol description does not mean: an `/..OPER` for a channel that is
not the user's default one marks the entry of the default one, and a `/..USER`
move to an empty channel leaves it without a live record (section 5). So the two copies of the operator flag do not
always agree; what holds is that the session's copy never claims more than its
list (`OperatorFlagsBacked`). And a channel may have remote members and no record;
what holds is that local members have one, and that none outlives the members
(`RecordsFollowMembers`). A repeated `/..USER` for a known user is dropped; the
code drops it if the times are equal and otherwise renews times and texts, which
are not modelled.

### Network

Each host has its own user table, topic and netsplit flag; `wire` holds the lines
between neighbours in order. A link breaks and loses what is under way, its ends
notice one after the other (`bye_command2`), and when both have cleaned up it
comes back and each sends its burst (`h_host_command`). A personal text travels
as an `NJ` without a channel, which is passed on before it is looked at. All
users are on one channel. The tree is assumed, since keeping it is what
`Permlinks` is about; so are equal clocks and hosts with `NJ`.
`OneSetPerSecond` excludes two topics within one second, on which hosts disagree
for good. `since` is a history variable: a topic from before the links were up
is promised to nobody, because a burst leaves out removed topics and channels
that are running out.

### NoFlood and Login

`sul` is the static user list: an entry belongs to a call, lists the sessions of
it (`sp`), and keeps flood counters, rate limit and delay queue. `NoFlood` has
the neighbour and its users; `Login` adds the local connections, whose fields
are those of `struct connection` that a login reads (`need` is `needauth`,
`want` and `got` are `pass_want` and `pass_got`). Times are kept as what the
code compares them with: over, ahead, far ahead, or the number of messages ahead
of the rate. An answer is the set of challenges it satisfies, so digests are not
computed. A connection is closed in one step and freed in a later one:
`bye_command2` marks it and `free_closed_connections`, at the start of each pass
of the main loop, takes it off the entry it points to; expiry may come between
the two (`closed` are the neighbour's sessions in that state). `held` and the
field `asked` of a connection are history: the passwords each call has had, and
whose password `pass_want` holds. A client may give another name at any time
before it is logged in, and `pass_want` is not cleared then: what a login proves
is `LoginAnswersTheChallenge`, and the stronger `LoginProvesTheCall` is violated
(run `login_names`). `check_join_flood` and the announcement of bans are left out.

## 3. The runs

| Run | Instance | Shows |
|---|---|---|
| `hub` | 2 sessions, 2 callsigns, 1 remote host, channels 0 and 1, 2 texts, toggles of `m`, `p` and `t`, grants and revocations, 2 ticks per second, 2 seconds | table, sessions, `/..USER` stream and notices agree; refinement of `LocalPresence`; cached rights are backed by rosters and gates hold; store is as new as memory across restarts and topics never fall back |
| `hostlink` | 1 user, 2 channels, 1 remote user, 2 lines in flight each way | agreement after every reconnect, recovery, dead link dropped |
| `permlinks` | 2 hosts, 2 connections, 2 entries in `permarray` | routes never outlive link or connection; established hosts are found by name; no host seen two ways; what neighbours were told stays true; no two links of a chain come up together |
| `permlinks_chains` | 3 hosts, 1 connection, 3 entries, neighbours only | only the expiry of an entry breaks a chain |
| `channels` | 1 local user, 1 remote user, 2 neighbours of either generation, channels 0 and 1, mode `p` | records follow members, flags are backed, neighbours know our users and reach them, no takeover in a netsplit, private channels are entered by invitation, channels get operators |
| `network` | 3 hosts in a line, 2 users, 3 commands, 1 break | hosts agree when nothing is under way, and get there |
| `login` | 4 connections, 2 calls, 1 neighbour, in five casts | sessions are listed, delayed messages keep their order, logins answer the challenge |
| `hub_duplicate_call` | the presence events of `hub`, a callsign may attach twice | violation: attached user without a row |
| `hub_operator_flag` | the operator events of `hub` | violation: channel operator not flagged after a join |
| `hostlink_ghosts` | as `hostlink` | violation: remote users who left during an outage stay |
| `hostlink_backoff` | as `hostlink` | violation: backoff not reset when a send notices the loss |
| `login_names` | as `login`, one connection | violation: the expected answer outlives a change of name |

Bounds. The whole event set on two users is out of TLC's reach, so `MCHub`
splits it into families of handlers that share state, one of which every
behaviour belongs to: presence (who is where), operators (rosters, flags and
moderation), invitations (closed channels, with grants that stay) and texts
(topics, personal texts). Each property reads only state that one or two of the
families write, and each family is explored to the end. Two sessions suffice for
an actor and a bystander or for two users of one roster; two callsigns for a
local and a remote bearer of the same name; channel 0 is included because modes
treat it differently. Topics and texts have one session and one channel, the
other writers being remote; two ticks per second and two seconds give equal
seconds, unequal ticks, and a later second.
In `hostlink` users are independent of each other, so one with two channels
shows joins, switches and leaves; `MaxWork = 1` and `MaxLines = 2` leave room
for a local event during each phase and for a reply with an announcement in
either order. Timeouts of one and two ticks keep every order of ping, silence
and handshake timeout.

In `permlinks` two hosts are a primary and its backup, or a dialler and a
destination behind it, two connections an old and a new one to the same host;
hosts and connections are interchangeable (symmetry). A destination behind a
failed neighbour that a third was told of takes three connections; that case of
`DeadRoutesAreWithdrawn` is covered by the proof only. `permlinks_chains` has
three entries, so that there is a middle link to delete; it does not go on from
states with locks, users, routes beyond the neighbours or two entries of one
name (`NeighboursOnly`), on which chains do not depend. In `channels` the remote
user may come over either neighbour, be moved, split off and come back while the
local one joins, leaves and rejoins; a bystander is a neighbour. Of the modes,
`p` guards entry; the others change who is shown or told what, or are tested
against the same flags, and the theorems hold for all of them. In `network` the middle host passes on, splits
and heals, and three commands allow a change on each side of a break and one
after it. `Login` is explored in casts: a behaviour has either two local
connections and password changes, or floods, bans and expiry, or the link, in
the pairs that share an entry of the list; `FloodLimit = 1` and
`FLOODSIZE = 2` put both limits within reach.

Sessions are not obliged to do anything, so the hub runs state no fairness and
switch deadlock detection off (a hub at rest may stay so). `HostLink` has
liveness: the loop is weakly fair on dialing, waiting and receiving (a dial ends,
a delay elapses, a ready line is read); queued work and ticks are strongly fair,
since priority disables them again and again but whenever the loop finds nothing
ahead of them it takes them; the parent is weakly fair on reading. No fault is
fair. `UplinkRecovers` and `ParentConverges` are implications: from some point
on, no more faults (and no more submissions). `ParentConverges` also assumes
that the lines in flight run out again and again: TLC shows that a parent that
never pauses starves local events, which is what the order of `WhenAny` does.
A live parent is assumed to answer within one tick.

In conversd users and neighbours need not do anything either. `Channels` assumes
only that the main loop runs `check_opless_channels` for every channel (it does,
every quarter of an hour). `Network` assumes that a host reads what arrives,
notices a dead connection (ping timeout in `connect_permlinks`) and redials; the
bounds on commands and breaks make "once it is quiet" a matter of time.
Deadlock detection is off in these runs: a conversd without users may be idle.

## 4. The proofs

Every theorem holds for all values of the constants that satisfy the named
`ASSUME`s of its module (sets of users and connections are finite, bounds are
natural numbers, markers such as `None` are not members of the sets they are
added to); TLC evaluates these on every run. What a theorem assumes beyond them
is said here.

### The hub

- `TypeCorrect`: one lemma per action.
- Rights: the inductive invariant `RightsInv` adds to type correctness that
  every session's invitations are the roster's and that every operator flag is
  backed by a roster. Neither conjunct alone supports the gates: the switch gate
  reads both copies. `InvitesAreCurrent` and `FlagsAreBacked` are its parts;
  `ModesEnforced` and `EntryEarned` are action properties that follow from it,
  because the handlers test the copies and the properties speak of the rosters.
- Topics: `StoreIsAsNew` is inductive with type correctness and the arithmetic
  of `ToUnix` and `FromUnix` (truncation is monotone, and a whole second
  survives the round trip). `TopicsMoveForward` follows for each step; the
  restart case needs `StoreIsAsNew`.
- Presence, assuming `OneSessionPerCall`: the inductive invariant `PresenceInv`
  joins the uniqueness of callsigns among live sessions, `LocalUsersAreListed`,
  `NoLocalGhosts` and `UpstreamMatchesTable`. Uniqueness is what makes a leave
  remove only the leaver's row. From it `HubImplementsLocalPresence` proves that
  every step of the hub is a step of `LocalPresence` or leaves it unchanged.
- Texts and notices, from `PresenceInv`: `TextsAreStored`
  (`PersonalTextsAreWrittenThrough`), since only the one session of a callsign
  writes its profile, and the action property `MembershipIsTold`
  (`MembershipChangesAreAnnounced`). Each handler rewrites at most one row of
  the user table; a name can appear only on the channel of the new row and
  disappear only from that of the old one, and the fan-outs go to those two.

### The uplink (`HostLinkProofs`)

`TypeOK`, `ParentInStep` and `NetworkIsKnown`, without further assumptions. The
inductive invariant `InStep` adds what holds between connections and during a
handshake, where the two properties say nothing: `Phase` (there is a link, with
an open engine, exactly while a connection runs), `Announced` (the parent will
have each user where the hub has them or, before the link is up, nowhere: the
two ways in which moves before and during the handshake can be in flight),
`Quiet` (before it has read our `/..HOST` the parent has not sent its own, so a
link that is up has been greeted) and `Heard` (from that moment on nobody on the
network will be missed). The lemmas about sequences say what appending lines and
taking one away does to "the last line about u"; `SetAsSeq` that the
announcements of a set name each member once.

### Users and channels of conversd (`ChannelsProofs`)

Without further assumptions, whatever lines neighbours send.

- `TypeOK`, `NeighboursKnowOurUsers` are inductive together with `OneWay`:
  the users of a host are all behind one connected neighbour, which `checkhost`
  maintains and without which a quit over one link would be told to the wrong
  neighbours. `PrivateByInvitation` is an action property.
- `RecordsFollowMembers` follows from the invariant `Followed`, a property of
  the state alone; the step that matters is a departure, after which
  `count_user` decides whether the record begins to run out.
  `NoTakeoverInANetsplit` follows: a locked channel runs out, so it has no local
  members, and whoever enters it meets the lock.
- `OperatorFlagsBacked` (invariant `AllBacked`), and from it and
  `NeighboursKnowOurUsers` `AnnouncedUsersAreReached`: a neighbour that was told of a local user on a
  channel finds a record, by `RecordsFollowMembers`.

### Login and floods of conversd (`LoginProofs`)

Without further assumptions.

- `SessionsAreListed` and `MessagesKeepTheirOrder`.
  The inductive invariant `Book` says that entries and sessions point to each
  other (`Listed`, `Linked`) and that the delay queue of an entry ascends and
  lies above everything sent on (`Ordered`); the last needs the first two,
  because a flush works on the entry that a message's session points to. Closed
  sessions of local connections stay listed until they are freed, which is what
  keeps their entries; those of a lost link do not, and nothing is claimed of
  them (section 5).
- `LoginAnswersTheChallenge`. `Challenges` is the invariant: what is stored as the
  expected answer is a password of the call it was asked for.

### Links and routes of conversd (`PermlinksProofs`)

`TypeOK`, `RoutesAreLive`, `DeadRoutesAreWithdrawn`, `OneOfAChain` (both without
their exception: `Untrue` and `UpTogether` are always empty) and
`OneWayToAHost`, for any hosts, connections and size of `permarray` and so for
chains of any length, assuming `NamesAgree` and `OldLinksFirst`: of a network
whose hosts are listed under other names, or of chains that hang on learned
entries, nothing is proved (section 2 says what goes wrong there, and the runs
check what can be said). Since the
handlers are operators from a state to a state, so is the argument: the
inductive invariant `Sound` is a predicate of a state, each helper has lemmas
about what it changes (`Reflagged`, `HungUp`, `RoutesKilled`, `Updated`, ...) and
which part of `Sound` survives that, and an action's lemma follows the calls it
makes. The properties follow from `AlwaysSound`, the lemma that joins them.

- `Routing`: every name is listed once, every connection has one owner and is
  not freed under it (`NamesOnce`, `OneOwner`, `NoneFreed`), an established host
  has an entry with its name (`HostsListed`), a destination is reached over such
  a host or has no trace of a route (`Routed`), only established hosts were
  told, never of themselves and never of what is behind them (`ToldTrue`), users
  of a host come one way (`SeenOnce`). Neither `RoutesAreLive` nor
  `DeadRoutesAreWithdrawn` is inductive alone: that
  breaking a link withdraws what was behind it rests on finding the link by the
  connection's name, which rests on `NamesOnce` and `HostsListed`. A consequence
  (`NothingToClean`): the silent `route_cleanup` in `bye_command2` never finds a
  route that `update_permlinks` has not already withdrawn.
- `Chained`: the pointers agree both ways (`LinkedBack`), only permanent links
  are in chains, which therefore do not expire in them (`ChainsArePermanent`),
  no link is above itself (`Acyclic`), no two of a chain are up (`Exclusive`).
  Because `Chain` is a least set, a chain is bounded by exhibiting a closed set
  and no induction along it is needed. `AboveIsBelow` and `BelowIsAbove` show
  the walks up and down to be inverse; `ChainEnds` that a chain has a last link,
  to which `do_link` appends: otherwise `backup` would map the links from `p` on
  one to one into those strictly below `p` (the pigeonhole theorem of
  `FiniteSetTheorems`).
- `h_host_command` is the hard step. `WalkIntroduces` says what its walk leaves
  behind: the caller's name is up nowhere, and either its entry is known
  (`me_in_permlist`) or its connection was replaced during the walk, so that its
  chain was down but for it. Either way the tests that follow, or the
  replacement itself, make `Exclusive` survive the acceptance.

### What is only model-checked

`UplinkRecovers`, `ParentConverges`, `DeadLinkIsDropped`, `ChannelsGetOperators`
and the liveness of `Network`: liveness under fairness and ENABLED are outside
the prover. `QuietNetworkAgrees` of `Network` is the one invariant without a
proof: an inductive one has to describe the lines in flight on every link of a
tree of any shape, which needs an induction over its paths.

Induction over data is not available as a theorem of the library (its rules take
an operator as a parameter); where a proof needs it, it takes the least
counterexample of a well-founded order instead (`LowestChannel`,
`HighestNumber`, `SlotInduction`). For the same reason the proved modules avoid
folds and recursive functions; the one there is, the walk over `permarray`, is
shown to exist step by step (`WalkExists`, `WalkUnfolds`).

## 5. What was found

1. A callsign attached twice shares one row; the first leave removes it
   (`ConversHub.cs:474`), and the remaining user is neither in `/who` nor
   re-announced.
2. `LocalJoin` ignores the channel roster when it sets `IsOperator`
   (`ConversHub.cs:203`).
3. Remote rows are never cleared, so a reconnect adds but does not rebuild
   (`HostLink.cs:632`).
4. The backoff is reset only on the return path (`HostLink.cs:224`).
5. The expected answer to a password prompt outlives a change of name
   (`access.c:629`): what the login proves is the call that was asked.

Items 1 to 5 are the violation runs. The following contradict what the code or
its documentation takes for granted, too. The passing runs explore them, and
state what holds all the same:

6. A dialled host that gives the name of another entry of `permarray` gets both
   entries (`host.c:684`, where the log says "correcting permlist"); when its
   connection is freed only the first is reset (`conversd.c:985`).
7. A learned entry expires without regard to the link that backs it up
   (`conversd.c:4361`; `conversd.h:231`: "points to link we backup for").
8. A `/..USER` move to a channel nobody is on does not create its record, so text
   for it is dropped (`host.c:2346`; `doc/SPECS:58`: "should be delivered to all
   users on this channel").
9. `/..OPER` marks the entry of the default channel, whatever channel it names
   (`host.c:1230`; `doc/SPECS:113`).
10. An entry of the static user list may expire between the loss of a link and
    the freeing of its users' sessions, which follow their pointer to it
    (`user.c:331`, `conversd.c:1021`).

Further observations about conversd, which contradict nothing its documentation
says: two hosts that dial each other at the same moment each close the older
connection (`host.c:674`); a full output queue runs `bye_command2` inside somebody else's
fan-out (`conversd.c:411`); `/link reset all` stops after one link
(`user.c:1803`); `update_dests_behind` never finds a destination
(`conversd.c:2802`); `/msg` asks the default channel for the moderated flag
(`user.c:2500`); a `MODE` line of a neighbour for an unknown channel and the ban
in `check_join_flood` follow null pointers (`user.c:2772`, `noflood.c:855`); a
topic removed during a split comes back from the other side (`host.c:915`);
messages that were delayed go out after a ban from the network
(`noflood.c:644`); `default_authtype` removes a choice but never stores one
(`user.c:3276`).

Smaller observations about the leaf: the store refuses a topic of the
same second that the hub shows; `/..UDAT` and `/..AWAY` for our own host are
believed; an operator of any channel may switch into an invite-only one;
`/..LOOP` is ignored during a handshake; a mode that is switched off is never
sent upstream, because the wire form names only the letters that are set.

## 6. Not modelled, and the plan

Left out for good. Leaf: codecs, console, help and page rendering (text in, text
out), configuration and start-up, SQLite's own behaviour. conversd: `/who`,
`/whois`, `/links`, `/list`, `/last`, `/history`, `/map` and their irc forms,
which format tables; `/width`, `/prompt`, `/charset` and other settings of one
session; filters and notify lists; character sets, compression, MD5, logs and
memory (pure functions and wrappers); configuration files, listeners and cron
jobs; access lists by address; the `convers` client. `/..CDAT`, `/..SYSI`,
`/..ECMD`, `/..FILT`, `/..INFO` and `/..ROUT` are passed on or displayed.

Next, in this order:

1. Peers: `DownstreamPeerSession`, `PeerRelay` and the fan-out of `HostLink`
   around one loop. No echo to the origin, every other host told once; the
   snapshot race at registration; users of a departed peer; the deliveries that
   a failing send skips.
2. Keepalive: a timed module over `HostLinkEngine` with the ticker's cadence and
   a round-trip bound. A responsive parent is never dropped when the timeouts
   leave room for it; a dead one is dropped within the silence timeout and one
   tick. Parametric, so a theorem as well as a run.
3. `RhpNodeLink`: children under accept, open, early data, close and reconnect
   with reused handles.
4. `WebChatSessions` and the RF sessions over the queue: concurrent requests,
   sweep, refused joins.
5. Compression: the two switches and the bytes in flight, with simultaneous
   offers.
6. Pure algorithms against references: the toggle loop of `ChannelModes`, the
   order of `SsidProbeWalk`, line assembly.
7. conversd: several channels and hosts without `NJ` in `Network`, the fan-out
   whose receiver fails in the middle (`appendstring`), `check_join_flood`.
8. Proofs: the keepalive theorem, the relay's no-echo invariant, and
   `QuietNetworkAgrees` for a chain of hosts.
