-------------------------- MODULE PermlinksProofs --------------------------
(***************************************************************************)
(* The link layer of a conversd, for any hosts, connections and size of    *)
(* permarray.  The handlers of Permlinks are operators from a state to a   *)
(* state, so the lemmas below are about states: first what each helper     *)
(* does to one, then which parts of the invariant it keeps.                *)
(***************************************************************************)
EXTENDS Permlinks, FiniteSetTheorems, WellFoundedInduction, TLAPS

\* TypeOK of a state.
State == [conn : [Conns -> Connection], perm : [Slots -> Permlink \cup {Null}],
          dest : [Hosts -> Destination], seen : [Conns -> SUBSET Hosts],
          told : [Conns -> SUBSET Hosts]]

(***************************************************************************)
(* The inductive invariant, as predicates of a state.  First the links,    *)
(* their connections and the routes over them.                             *)
(***************************************************************************)

\* A host is listed once: what makes a link found by its name the one that was
\* found by its connection.
NamesOnce(s) == \A p, q \in Used(s) : s.perm[p].name = s.perm[q].name => p = q

\* No two links share a connection.
OneOwner(s) ==
    \A p, q \in Used(s) :
        s.perm[p].connection # Null /\ s.perm[p].connection = s.perm[q].connection => p = q

\* No link points to a connection that has been freed.
NoneFreed(s) ==
    \A p \in Used(s) : s.perm[p].connection # Null =>
        s.conn[s.perm[p].connection].type # "free"

\* Link p is the one of the established host c.
LinkedTo(s, p, c) ==
    p \in Used(s) /\ s.perm[p].connection = c /\ s.perm[p].name = s.conn[c].name

\* An established host has a link under its name.
HostsListed(s) ==
    \A c \in Conns : s.conn[c].type = "host" => \E p \in Used(s) : LinkedTo(s, p, c)

\* Destination d has no route.
Unreached(d) == d.link = NoSlot /\ d.rtt = 0 /\ ~ d.connected

\* Host h is reached over the connection of an established host.
Reached(s, h) ==
    /\ s.dest[h].link \in Used(s)
    /\ s.dest[h].rtt # 0
    /\ s.dest[h].connected
    /\ Via(s, h) \in Conns
    /\ s.conn[Via(s, h)].type = "host"

\* RoutesAreLive, and the fields of a destination tell the same.
Routed(s) == \A h \in Hosts : Unreached(s.dest[h]) \/ Reached(s, h)

\* What neighbours were told is true.  Only established hosts are told, and never of themselves.
MayKnow(s, c, h) ==
    /\ s.conn[c].type = "host"
    /\ s.conn[c].name # h
    /\ s.dest[h].link # NoSlot
    /\ Via(s, h) # c

ToldTrue(s) == \A c \in Conns : \A h \in s.told[c] : MayKnow(s, c, h)

\* OneWayToAHost
SeenOnce(s) == \A c1, c2 \in Conns : c1 # c2 => s.seen[c1] \cap s.seen[c2] = {}

Routing(s) ==
    /\ s \in State
    /\ NamesOnce(s)
    /\ OneOwner(s)
    /\ NoneFreed(s)
    /\ HostsListed(s)
    /\ Routed(s)
    /\ ToldTrue(s)
    /\ SeenOnce(s)

-----------------------------------------------------------------------------
(* Lookups.                                                                *)

LEMMA LowestOf ==
    ASSUME NEW T, T \subseteq Nat, T # {}
    PROVE  Min(T) \in T /\ \A y \in T : Min(T) =< y
  <1>1. \E R : IsWellFoundedOn(R, Nat) /\ \A x, y \in Nat : <<y, x>> \in R <=> y < x
    <2>1. \A x, y \in Nat : <<y, x>> \in OpToRel(<, Nat) <=> y < x
      BY DEF OpToRel
    <2> QED BY <2>1, NatLessThanWellFounded, Zenon
  <1>2. PICK R : IsWellFoundedOn(R, Nat) /\ \A x, y \in Nat : <<y, x>> \in R <=> y < x
    BY <1>1
  <1>3. PICK x \in T : \A y \in T : ~ (<<y, x>> \in R)
    BY <1>2, WFMin
  <1>4. ASSUME NEW y \in T PROVE x =< y
    <2>1. x \in Nat /\ y \in Nat
      OBVIOUS
    <2>2. ~ (y < x)
      BY <1>2, <1>3, <2>1
    <2> QED BY <2>1, <2>2
  <1> QED BY <1>4 DEF Min

LEMMA SlotsAreNumbers == Slots \subseteq Nat /\ NoSlot \notin Slots
  BY LinkBounds DEF Slots, NoSlot

\* FirstOf finds a member, and says so when there is none.
LEMMA FirstOfFinds ==
    ASSUME NEW T, T \subseteq Slots
    PROVE  /\ T = {} => FirstOf(T) = NoSlot
           /\ T # {} => FirstOf(T) \in T /\ FirstOf(T) # NoSlot
  BY LowestOf, SlotsAreNumbers DEF FirstOf

LEMMA StateParts ==
    ASSUME NEW s \in State
    PROVE  /\ s.conn \in [Conns -> Connection]
           /\ s.perm \in [Slots -> Permlink \cup {Null}]
           /\ s.dest \in [Hosts -> Destination]
           /\ s.seen \in [Conns -> SUBSET Hosts]
           /\ s.told \in [Conns -> SUBSET Hosts]
  BY DEF State

\* The fields of an entry.
LEMMA EntryParts ==
    ASSUME NEW s \in State, NEW p \in Used(s)
    PROVE  /\ p \in Slots /\ p # NoSlot
           /\ s.perm[p] \in Permlink /\ s.perm[p] # Null
           /\ s.perm[p].name \in Hosts
           /\ s.perm[p].connection \in Conns \cup {Null}
           /\ s.perm[p].primary \in Slots \cup {NoSlot}
           /\ s.perm[p].backup \in Slots \cup {NoSlot}
           /\ s.perm[p].permanent \in BOOLEAN
  <1>1. p \in Slots /\ s.perm[p] # Null
    BY DEF Used
  <1>2. s.perm[p] \in Permlink
    BY <1>1, StateParts
  <1> QED BY <1>1, <1>2, SlotsAreNumbers DEF Permlink

LEMMA FindsByName ==
    ASSUME NEW s \in State, NEW name
    PROVE  /\ find_permlink(s, name) \in Used(s) \cup {NoSlot}
           /\ find_permlink(s, name) # NoSlot =>
                /\ find_permlink(s, name) \in Used(s)
                /\ s.perm[find_permlink(s, name)].name = name
           /\ find_permlink(s, name) = NoSlot => \A p \in Used(s) : s.perm[p].name # name
  <1> DEFINE T == {p \in Used(s) : s.perm[p].name = name}
  <1>1. T \subseteq Slots
    BY DEF Used
  <1>2. find_permlink(s, name) = FirstOf(T)
    BY DEF find_permlink
  <1> QED BY <1>1, <1>2, FirstOfFinds

LEMMA FindsByConnection ==
    ASSUME NEW s \in State, NEW c
    PROVE  /\ LinkOf(s, c) \in Used(s) \cup {NoSlot}
           /\ LinkOf(s, c) # NoSlot =>
                /\ LinkOf(s, c) \in Used(s)
                /\ s.perm[LinkOf(s, c)].connection = c
           /\ LinkOf(s, c) = NoSlot => \A p \in Used(s) : s.perm[p].connection # c
  <1> DEFINE T == {p \in Used(s) : s.perm[p].connection = c}
  <1>1. T \subseteq Slots
    BY DEF Used
  <1>2. LinkOf(s, c) = FirstOf(T)
    BY DEF LinkOf
  <1> QED BY <1>1, <1>2, FirstOfFinds

\* The link of an established host, whichever way it is looked for.
LEMMA HostsLink ==
    ASSUME NEW s, Routing(s), NEW c \in Conns, s.conn[c].type = "host"
    PROVE  /\ LinkedTo(s, LinkOf(s, c), c)
           /\ LinkOf(s, c) \in Used(s)
           /\ find_permlink(s, s.conn[c].name) = LinkOf(s, c)
           /\ \A q \in Used(s) : s.perm[q].connection = c => q = LinkOf(s, c)
           /\ \A q \in Used(s) : s.perm[q].name = s.conn[c].name => q = LinkOf(s, c)
  <1>1. s \in State /\ NamesOnce(s) /\ OneOwner(s)
    BY DEF Routing
  <1>2. PICK p \in Used(s) : LinkedTo(s, p, c)
    BY DEF Routing, HostsListed
  <1>3. s.perm[p].connection = c /\ s.perm[p].name = s.conn[c].name /\ c # Null
    BY <1>2, NullIsFresh DEF LinkedTo
  <1>4. \A q \in Used(s) : s.perm[q].connection = c => q = p
    BY <1>1, <1>2, <1>3 DEF OneOwner
  <1>5. \A q \in Used(s) : s.perm[q].name = s.conn[c].name => q = p
    BY <1>1, <1>2, <1>3 DEF NamesOnce
  <1>6. LinkOf(s, c) = p
    BY <1>1, <1>2, <1>3, <1>4, FindsByConnection
  <1>7. find_permlink(s, s.conn[c].name) = p
    BY <1>1, <1>2, <1>3, <1>5, FindsByName
  <1> QED BY <1>2, <1>4, <1>5, <1>6, <1>7

-----------------------------------------------------------------------------
(* Steps that change only flags of links.                                  *)

\* Entry b is entry a but for the flags locked, wait and txtime.
SameLink(a, b) ==
    /\ a = Null <=> b = Null
    /\ a # Null => /\ b.name = a.name
                   /\ b.connection = a.connection
                   /\ b.primary = a.primary
                   /\ b.backup = a.backup
                   /\ b.permanent = a.permanent

Reflagged(s, t) ==
    /\ t \in State
    /\ t.conn = s.conn /\ t.dest = s.dest /\ t.seen = s.seen /\ t.told = s.told
    /\ \A p \in Slots : SameLink(s.perm[p], t.perm[p])

LEMMA ReflaggedLinks ==
    ASSUME NEW s, NEW t, Reflagged(s, t)
    PROVE  /\ Used(t) = Used(s)
           /\ \A p \in Used(s) : /\ t.perm[p].name = s.perm[p].name
                                 /\ t.perm[p].connection = s.perm[p].connection
                                 /\ t.perm[p].primary = s.perm[p].primary
                                 /\ t.perm[p].backup = s.perm[p].backup
                                 /\ t.perm[p].permanent = s.perm[p].permanent
  BY DEF Reflagged, SameLink, Used

LEMMA ReflaggedRoutes ==
    ASSUME NEW s, NEW t, Routing(s), Reflagged(s, t)
    PROVE  Routing(t)
  <1> USE ReflaggedLinks
  <1>1. t \in State /\ t.conn = s.conn /\ t.dest = s.dest /\ t.seen = s.seen /\ t.told = s.told
    BY DEF Reflagged
  <1>2. NamesOnce(t) /\ OneOwner(t) /\ NoneFreed(t)
    BY <1>1 DEF Routing, NamesOnce, OneOwner, NoneFreed
  <1>3. HostsListed(t)
    BY <1>1 DEF Routing, HostsListed, LinkedTo
  <1>4. ASSUME NEW h \in Hosts, s.dest[h].link \in Used(s)
        PROVE  Via(t, h) = Via(s, h)
    BY <1>1, <1>4 DEF Via, ConnOf
  <1>5. Routed(t)
    <2> SUFFICES ASSUME NEW h \in Hosts, ~ Unreached(t.dest[h])
                 PROVE  Reached(t, h)
      BY DEF Routed
    <2>1. Reached(s, h)
      BY <1>1 DEF Routing, Routed
    <2> QED BY <1>1, <1>4, <2>1 DEF Reached
  <1>6. ToldTrue(t)
    <2> SUFFICES ASSUME NEW c \in Conns, NEW h \in t.told[c]
                 PROVE  MayKnow(t, c, h)
      BY DEF ToldTrue
    <2>1. h \in Hosts /\ MayKnow(s, c, h)
      BY <1>1, StateParts DEF Routing, ToldTrue
    <2>2. Reached(s, h)
      BY <2>1 DEF Routing, Routed, MayKnow, Unreached
    <2>3. Via(t, h) = Via(s, h)
      BY <1>4, <2>1, <2>2 DEF Reached
    <2> QED BY <1>1, <2>1, <2>3 DEF MayKnow
  <1>7. SeenOnce(t)
    BY <1>1 DEF Routing, SeenOnce
  <1> QED BY <1>1, <1>2, <1>3, <1>5, <1>6, <1>7 DEF Routing

\* Nothing that happens to flags.
LEMMA ReflaggedSelf ==
    ASSUME NEW s \in State
    PROVE  Reflagged(s, s)
  BY DEF Reflagged, SameLink

\* A change of one flag of one link.
LEMMA FlagsOfOne ==
    ASSUME NEW s \in State, NEW p \in Used(s), NEW locked \in BOOLEAN, NEW wait \in BOOLEAN,
           NEW txtime \in BOOLEAN, NEW t,
           t = [s EXCEPT !.perm[p] = [@ EXCEPT !.locked = locked, !.wait = wait,
                                               !.txtime = txtime]]
    PROVE  Reflagged(s, t)
  <1> DEFINE e == [s.perm[p] EXCEPT !.locked = locked, !.wait = wait, !.txtime = txtime]
  <1>1. e \in Permlink /\ e # Null /\ SameLink(s.perm[p], e)
    <2>1. s.perm[p] \in Permlink /\ s.perm[p] # Null
      BY EntryParts
    <2>2. e \in Permlink
      BY <2>1 DEF Permlink
    <2> QED BY <2>1, <2>2, NullIsFresh DEF SameLink, Permlink
  <1>2. p \in Slots /\ t = [s EXCEPT !.perm[p] = e]
    BY EntryParts
  <1> HIDE DEF e
  <1>3. /\ t.conn = s.conn /\ t.dest = s.dest /\ t.seen = s.seen /\ t.told = s.told
        /\ t.perm = [s.perm EXCEPT ![p] = e]
    BY <1>2 DEF State
  <1>4. t \in State
    BY <1>1, <1>2 DEF State
  <1>5. ASSUME NEW q \in Slots PROVE SameLink(s.perm[q], t.perm[q])
    <2>1. CASE q = p
      BY <1>1, <1>3, <2>1, StateParts
    <2>2. CASE q # p
      BY <1>3, <2>2, StateParts DEF SameLink
    <2> QED BY <2>1, <2>2
  <1> QED BY <1>3, <1>4, <1>5 DEF Reflagged

\* The chain of a link consists of slots.
LEMMA ChainsAreSlots ==
    ASSUME NEW s, NEW p
    PROVE  Primaries(s, p) \subseteq Slots /\ Backups(s, p) \subseteq Slots
  BY DEF Primaries, Backups, Chain

\* Delaying a link touches flags of its chain.
LEMMA DelayReflags ==
    ASSUME NEW s \in State, NEW p \in Used(s) \cup {NoSlot}
    PROVE  Reflagged(s, delay_permlink_connect(s, p))
  <1> DEFINE t == delay_permlink_connect(s, p)
             chain == {p} \cup ((Primaries(s, p) \cup Backups(s, p)) \cap Used(s))
  <1>1. CASE p = NoSlot \/ ~ s.perm[p].permanent \/ \A q \in chain : s.perm[q].wait
    BY <1>1, ReflaggedSelf DEF delay_permlink_connect
  <1>2. CASE ~ (p = NoSlot \/ ~ s.perm[p].permanent \/ \A q \in chain : s.perm[q].wait)
    <2> DEFINE new == [q \in Slots |-> IF q \in chain THEN [s.perm[q] EXCEPT !.wait = TRUE]
                                       ELSE s.perm[q]]
    <2>1. t = [s EXCEPT !.perm = new]
      BY <1>2 DEF delay_permlink_connect
    <2>2. chain \subseteq Used(s)
      BY <1>2
    <2> HIDE DEF chain
    <2>3. ASSUME NEW q \in Slots
          PROVE  new[q] \in Permlink \cup {Null} /\ SameLink(s.perm[q], new[q])
      <3>1. CASE q \in chain
        <4>1. s.perm[q] \in Permlink /\ s.perm[q] # Null
          BY <2>2, <3>1, EntryParts
        <4>2. new[q] = [s.perm[q] EXCEPT !.wait = TRUE]
          BY <3>1
        <4>3. new[q] \in Permlink
          BY <4>1, <4>2 DEF Permlink
        <4> QED BY <4>1, <4>2, <4>3, NullIsFresh DEF SameLink, Permlink
      <3>2. CASE q \notin chain
        BY <3>2, StateParts DEF SameLink
      <3> QED BY <3>1, <3>2
    <2>4. new \in [Slots -> Permlink \cup {Null}]
      BY <2>3
    <2> HIDE DEF new, t
    <2>5. /\ t.conn = s.conn /\ t.dest = s.dest /\ t.seen = s.seen /\ t.told = s.told
          /\ t.perm = new /\ t \in State
      BY <2>1, <2>4 DEF State
    <2> QED BY <2>3, <2>5 DEF Reflagged, t
  <1> QED BY <1>1, <1>2

LEMMA LockReflags ==
    ASSUME NEW s \in State, NEW p \in Used(s) \cup {NoSlot}
    PROVE  Reflagged(s, Lock(s, p))
  <1>1. CASE p = NoSlot
    BY <1>1, ReflaggedSelf DEF Lock
  <1>2. CASE p \in Used(s) /\ p # NoSlot
    <2>1. s.perm[p] \in Permlink /\ p \in Slots
      BY <1>2, EntryParts
    <2> DEFINE e == [s.perm[p] EXCEPT !.locked = TRUE]
    <2>2. PICK locked \in BOOLEAN, wait \in BOOLEAN, txtime \in BOOLEAN :
             locked = TRUE /\ wait = s.perm[p].wait /\ txtime = s.perm[p].txtime
      BY <2>1 DEF Permlink
    <2>3. e = [s.perm[p] EXCEPT !.locked = locked, !.wait = wait, !.txtime = txtime]
      BY <2>1, <2>2 DEF Permlink
    <2>4. Lock(s, p) = [s EXCEPT !.perm[p] = e]
      BY <1>2 DEF Lock
    <2>5. Lock(s, p) = [s EXCEPT !.perm[p] = [@ EXCEPT !.locked = locked, !.wait = wait,
                                                       !.txtime = txtime]]
      BY <2>3, <2>4
    <2> QED BY <1>2, <2>5, FlagsOfOne
  <1> QED BY <1>1, <1>2

-----------------------------------------------------------------------------
(* Hanging up.                                                             *)

Closed == [type |-> "closed", name |-> Null]

\* Entry b is entry a, but that it may have lost connection c.
Unhooked(a, b, c) ==
    /\ a = Null <=> b = Null
    /\ a # Null => /\ b.name = a.name
                   /\ b.primary = a.primary
                   /\ b.backup = a.backup
                   /\ b.permanent = a.permanent
                   /\ b.connection = a.connection \/ (a.connection = c /\ b.connection = Null)

\* Connection c is gone, every route over it too, and everybody was told.
HungUp(s, t, c) ==
    /\ t \in State
    /\ t.conn = [s.conn EXCEPT ![c] = Closed]
    /\ \A p \in Slots : Unhooked(s.perm[p], t.perm[p], c)
    /\ \A h \in Hosts : Unreached(t.dest[h]) \/ (t.dest[h] = s.dest[h] /\ Via(s, h) # c)
    /\ t.told[c] = {}
    /\ \A o \in Conns : \A h \in t.told[o] : h \in s.told[o] /\ t.dest[h] = s.dest[h]
    /\ \A o \in Conns : t.seen[o] \subseteq s.seen[o]

LEMMA HungUpLinks ==
    ASSUME NEW s, NEW t, NEW c, HungUp(s, t, c)
    PROVE  /\ Used(t) = Used(s)
           /\ \A p \in Used(s) :
                /\ t.perm[p].name = s.perm[p].name
                /\ t.perm[p].primary = s.perm[p].primary
                /\ t.perm[p].backup = s.perm[p].backup
                /\ t.perm[p].permanent = s.perm[p].permanent
                /\ \/ t.perm[p].connection = s.perm[p].connection
                   \/ s.perm[p].connection = c /\ t.perm[p].connection = Null
  BY DEF HungUp, Unhooked, Used

LEMMA HungUpConns ==
    ASSUME NEW s \in State, NEW t, NEW c \in Conns, HungUp(s, t, c)
    PROVE  /\ t.conn[c].type = "closed"
           /\ \A o \in Conns \ {c} : t.conn[o] = s.conn[o]
  <1>1. s.conn \in [Conns -> Connection] /\ t.conn = [s.conn EXCEPT ![c] = Closed]
    BY StateParts DEF HungUp
  <1>2. t.conn[c] = Closed /\ \A o \in Conns \ {c} : t.conn[o] = s.conn[o]
    BY <1>1
  <1> QED BY <1>2 DEF Closed

LEMMA HungUpRoutes ==
    ASSUME NEW s, NEW t, NEW c \in Conns, Routing(s), HungUp(s, t, c)
    PROVE  Routing(t)
  <1>0. s \in State /\ t \in State
    BY DEF Routing, HungUp
  <1> USE <1>0, HungUpLinks, HungUpConns
  <1>1. NamesOnce(t) /\ OneOwner(t)
    BY DEF Routing, NamesOnce, OneOwner
  <1>2. NoneFreed(t)
    <2> SUFFICES ASSUME NEW p \in Used(t), t.perm[p].connection # Null
                 PROVE  t.conn[t.perm[p].connection].type # "free"
      BY DEF NoneFreed
    <2>1. t.perm[p].connection = s.perm[p].connection /\ t.perm[p].connection \in Conns
      BY EntryParts
    <2>2. s.conn[s.perm[p].connection].type # "free"
      BY <2>1 DEF Routing, NoneFreed
    <2> QED BY <2>1, <2>2
  <1>3. HostsListed(t)
    <2> SUFFICES ASSUME NEW o \in Conns, t.conn[o].type = "host"
                 PROVE  \E p \in Used(t) : LinkedTo(t, p, o)
      BY DEF HostsListed
    <2>1. o # c /\ t.conn[o] = s.conn[o]
      OBVIOUS
    <2>2. PICK p \in Used(s) : LinkedTo(s, p, o)
      BY <2>1 DEF Routing, HostsListed
    <2>3. LinkedTo(t, p, o)
      BY <2>1, <2>2 DEF LinkedTo
    <2> QED BY <2>2, <2>3
  <1>4. ASSUME NEW h \in Hosts, t.dest[h] = s.dest[h], ~ Unreached(t.dest[h])
        PROVE  Reached(t, h) /\ Via(t, h) = Via(s, h) /\ Via(t, h) # c
    <2>1. Reached(s, h) /\ Via(s, h) # c
      BY <1>4 DEF Routing, Routed, HungUp
    <2>2. s.dest[h].link # NoSlot /\ s.dest[h].link \in Used(s)
      BY <2>1, EntryParts DEF Reached
    <2>3. Via(s, h) = s.perm[s.dest[h].link].connection
      BY <2>2 DEF Via, ConnOf
    <2>4. Via(t, h) = t.perm[s.dest[h].link].connection
      BY <1>4, <2>2 DEF Via, ConnOf
    <2>5. Via(t, h) = Via(s, h)
      BY <2>1, <2>2, <2>3, <2>4
    <2> QED BY <1>4, <2>1, <2>2, <2>5 DEF Reached
  <1>5. Routed(t)
    BY <1>4 DEF Routed, HungUp
  <1>6. ToldTrue(t)
    <2> SUFFICES ASSUME NEW o \in Conns, NEW h \in t.told[o]
                 PROVE  MayKnow(t, o, h)
      BY DEF ToldTrue
    <2>1. o # c /\ h \in s.told[o] /\ t.dest[h] = s.dest[h]
      BY DEF HungUp
    <2>2. h \in Hosts /\ MayKnow(s, o, h)
      BY <2>1, StateParts DEF Routing, ToldTrue
    <2>3. ~ Unreached(t.dest[h])
      BY <2>1, <2>2 DEF MayKnow, Unreached
    <2>4. Via(t, h) = Via(s, h)
      BY <1>4, <2>1, <2>2, <2>3
    <2> QED BY <2>1, <2>2, <2>4 DEF MayKnow
  <1>7. SeenOnce(t)
    BY DEF Routing, SeenOnce, HungUp
  <1> QED BY <1>1, <1>2, <1>3, <1>5, <1>6, <1>7 DEF Routing

LEMMA HungUpReflagged ==
    ASSUME NEW s, NEW t, NEW u, NEW c, HungUp(s, t, c), Reflagged(t, u)
    PROVE  HungUp(s, u, c)
  <1>1. ASSUME NEW p \in Slots PROVE Unhooked(s.perm[p], u.perm[p], c)
    <2>1. Unhooked(s.perm[p], t.perm[p], c) /\ SameLink(t.perm[p], u.perm[p])
      BY DEF HungUp, Reflagged
    <2> QED BY <2>1 DEF Unhooked, SameLink
  <1>2. u \in State /\ u.conn = t.conn /\ u.dest = t.dest /\ u.seen = t.seen /\ u.told = t.told
    BY DEF Reflagged
  <1> QED BY <1>1, <1>2 DEF HungUp

\* What killing the routes over link p does.
Killed(s, p) == {h \in Hosts : s.dest[h].rtt # 0 /\ s.dest[h].link = p}

Withdrawn(s, p, c) == {h \in Killed(s, p) : c \in Receivers(s, p, h, NoSlot)}

RoutesKilled(s, t, p) ==
    /\ t \in State
    /\ t.conn = s.conn /\ t.perm = s.perm /\ t.seen = s.seen
    /\ \A h \in Hosts : t.dest[h] = IF h \in Killed(s, p) THEN Dead ELSE s.dest[h]
    /\ \A c \in Conns : t.told[c] = s.told[c] \ Withdrawn(s, p, c)

LEMMA KillNothing ==
    ASSUME NEW s, NEW p, Killed(s, p) = {}
    PROVE  KillRoutes(s, p) = s
  BY DEF KillRoutes, Killed

LEMMA KillParts ==
    ASSUME NEW s \in State, NEW p
    PROVE  RoutesKilled(s, KillRoutes(s, p), p)
  <1> DEFINE t == KillRoutes(s, p)
             gone == Killed(s, p)
             dest2 == [h \in Hosts |-> IF h \in gone THEN Dead ELSE s.dest[h]]
             told2 == [c \in Conns |-> s.told[c] \ Withdrawn(s, p, c)]
  <1>1. CASE gone = {}
    <2>1. t = s
      BY <1>1, KillNothing
    <2>2. \A c \in Conns : Withdrawn(s, p, c) = {}
      BY <1>1 DEF Withdrawn
    <2> HIDE DEF t
    <2> QED BY <1>1, <2>1, <2>2 DEF RoutesKilled, t
  <1>2. CASE gone # {}
    <2>1. t = [s EXCEPT !.dest = dest2, !.told = told2]
      BY <1>2 DEF KillRoutes, Killed, Withdrawn
    <2>2. dest2 \in [Hosts -> Destination]
      <3>1. Dead \in Destination
        BY LinkBounds DEF Dead, Destination
      <3> QED BY <3>1, StateParts
    <2>3. told2 \in [Conns -> SUBSET Hosts]
      BY StateParts
    <2> HIDE DEF t, gone
    <2>4. \A h \in Hosts : dest2[h] = IF h \in gone THEN Dead ELSE s.dest[h]
      OBVIOUS
    <2>5. \A c \in Conns : told2[c] = s.told[c] \ Withdrawn(s, p, c)
      OBVIOUS
    <2> HIDE DEF dest2, told2
    <2>6. /\ t \in State /\ t.conn = s.conn /\ t.perm = s.perm /\ t.seen = s.seen
          /\ t.dest = dest2 /\ t.told = told2
      BY <2>1, <2>2, <2>3 DEF State
    <2> QED BY <1>2, <2>4, <2>5, <2>6 DEF RoutesKilled, t, gone
  <1> QED BY <1>1, <1>2

\* With the tables as they are the silent clean-up finds nothing.
LEMMA NothingToClean ==
    ASSUME NEW s, NEW c, NEW name,
           \A h \in Hosts : \/ Unreached(s.dest[h])
                            \/ /\ Reached(s, h) /\ Via(s, h) # c
                               /\ s.conn[Via(s, h)].name # name
    PROVE  route_cleanup(s, c, name) = s
  <1>1. ASSUME NEW h \in Hosts,
               s.dest[h].link # NoSlot \/ s.dest[h].rtt # 0 \/ s.dest[h].connected
        PROVE  /\ s.dest[h].connected
               /\ Via(s, h) \notin {Null, c}
               /\ ~ (Via(s, h) # Null /\ s.conn[Via(s, h)].name = name)
    <2>1. Reached(s, h) /\ Via(s, h) # c /\ s.conn[Via(s, h)].name # name
      BY <1>1 DEF Unreached
    <2> QED BY <2>1, NullIsFresh DEF Reached
  <1> DEFINE lost == {h \in Hosts :
                   /\ s.dest[h].link # NoSlot \/ s.dest[h].rtt # 0 \/ s.dest[h].connected
                   /\ \/ ~ s.dest[h].connected
                      \/ Via(s, h) \in {Null, c}
                      \/ Via(s, h) # Null /\ s.conn[Via(s, h)].name = name}
  <1>2. lost = {}
    BY <1>1
  <1> QED BY <1>2 DEF route_cleanup

\* bye_command2 on a connection that has not introduced itself.
LEMMA ByeUnknown ==
    ASSUME NEW s, Routing(s), NEW c \in Conns, s.conn[c].type = "unknown"
    PROVE  HungUp(s, bye_command2(s, c), c)
  <1> DEFINE t == bye_command2(s, c)
  <1>0. s \in State
    BY DEF Routing
  <1>1. t = [s EXCEPT !.conn[c] = Closed, !.told[c] = {}]
    BY DEF bye_command2, Closed
  <1>2. Closed \in Connection
    BY DEF Closed, Connection
  <1> HIDE DEF t
  <1>3. /\ t.conn = [s.conn EXCEPT ![c] = Closed] /\ t.perm = s.perm /\ t.dest = s.dest
        /\ t.seen = s.seen /\ t.told = [s.told EXCEPT ![c] = {}]
    BY <1>0, <1>1 DEF State
  <1>4. t \in State
    BY <1>0, <1>1, <1>2 DEF State
  <1>5. \A p \in Slots : Unhooked(s.perm[p], t.perm[p], c)
    BY <1>3 DEF Unhooked
  <1>6. ASSUME NEW h \in Hosts, ~ Unreached(t.dest[h])
        PROVE  Via(s, h) # c
    <2>1. Reached(s, h)
      BY <1>3, <1>6 DEF Routing, Routed
    <2> QED BY <2>1 DEF Reached
  <1>7. t.told[c] = {} /\ \A o \in Conns : \A h \in t.told[o] : h \in s.told[o]
    BY <1>0, <1>3, StateParts
  <1> QED BY <1>3, <1>4, <1>5, <1>6, <1>7 DEF HungUp, t

\* update_permlinks for a link that went down, the connection being closed already.
LEMMA LinkDown ==
    ASSUME NEW s, Routing(s), NEW c \in Conns, s.conn[c].type = "host",
           NEW s1, s1 = [s EXCEPT !.conn[c] = Closed, !.told[c] = {}]
    PROVE  HungUp(s, update_permlinks(s1, s.conn[c].name, Null, FALSE), c)
  <1> DEFINE name == s.conn[c].name
             p == LinkOf(s, c)
  <1>0. s \in State /\ Closed \in Connection
    BY DEF Routing, Closed, Connection
  <1>1. /\ s1.conn = [s.conn EXCEPT ![c] = Closed] /\ s1.perm = s.perm /\ s1.dest = s.dest
        /\ s1.seen = s.seen /\ s1.told = [s.told EXCEPT ![c] = {}] /\ s1 \in State
    BY <1>0 DEF State
  <1>2. /\ p \in Used(s) /\ s.perm[p].connection = c /\ s.perm[p].name = name
        /\ find_permlink(s, name) = p
        /\ \A q \in Used(s) : s.perm[q].connection = c => q = p
        /\ \A q \in Used(s) : s.perm[q].name = name => q = p
    BY HostsLink DEF LinkedTo
  <1>3. Used(s1) = Used(s)
    BY <1>1 DEF Used
  <1>4. p \in Slots /\ p # NoSlot /\ s.perm[p] \in Permlink /\ s.perm[p] # Null
    BY <1>0, <1>2, EntryParts
  <1>5. PermlinkFor(s1, name) = p
    <2>1. find_permlink(s1, name) = find_permlink(s, name)
      BY <1>1, <1>3 DEF find_permlink
    <2> QED BY <1>2, <1>4, <2>1 DEF PermlinkFor
  <1> DEFINE k == KillRoutes(s1, p)
             e == Relisted(s.perm[p], Null)
             known == [k EXCEPT !.perm[p] = e]
  <1>6. e \in Permlink /\ e # Null /\ Unhooked(s.perm[p], e, c)
    <2>1. e \in Permlink
      BY <1>4 DEF Permlink, Relisted
    <2>2. /\ e.name = s.perm[p].name /\ e.primary = s.perm[p].primary
          /\ e.backup = s.perm[p].backup /\ e.permanent = s.perm[p].permanent
          /\ e.connection = IF s.perm[p].permanent THEN s.perm[p].connection ELSE Null
      BY <1>4 DEF Permlink, Relisted
    <2>3. e # Null
      BY <2>1, NullIsFresh
    <2> QED BY <1>2, <1>4, <2>1, <2>2, <2>3 DEF Unhooked
  <1>7. update_permlinks(s1, name, Null, FALSE) = delay_permlink_connect(known, p)
    <2>1. k.perm = s.perm /\ k \in State
      BY <1>1, KillParts DEF RoutesKilled
    <2>2. known = [k EXCEPT !.perm[p] = Relisted(@, Null)]
      BY <2>1
    <2> HIDE DEF known, p
    <2> QED BY <1>1, <1>4, <1>5, <2>2 DEF update_permlinks
  <1>8. /\ k \in State /\ k.conn = s1.conn /\ k.perm = s.perm /\ k.seen = s.seen
        /\ \A h \in Hosts : k.dest[h] = IF h \in Killed(s1, p) THEN Dead ELSE s.dest[h]
        /\ \A o \in Conns : k.told[o] = s1.told[o] \ Withdrawn(s1, p, o)
    <2>1. RoutesKilled(s1, k, p)
      BY <1>1, KillParts
    <2> HIDE DEF p, k
    <2> QED BY <1>1, <2>1 DEF RoutesKilled
  <1> HIDE DEF k, e
  <1>9. /\ known \in State /\ known.conn = s1.conn /\ known.perm = [s.perm EXCEPT ![p] = e]
        /\ known.seen = s.seen /\ known.dest = k.dest /\ known.told = k.told
    BY <1>4, <1>6, <1>8 DEF State
  <1> HIDE DEF known
  <1>10. ASSUME NEW q \in Slots PROVE Unhooked(s.perm[q], known.perm[q], c)
    <2>1. CASE q = p
      BY <1>0, <1>4, <1>6, <1>9, <2>1, StateParts
    <2>2. CASE q # p
      BY <1>0, <1>4, <1>9, <2>2, StateParts DEF Unhooked
    <2> QED BY <2>1, <2>2
  <1>11. ASSUME NEW h \in Hosts
         PROVE  h \in Killed(s1, p) <=> Reached(s, h) /\ Via(s, h) = c
    <2>1. Unreached(s.dest[h]) \/ Reached(s, h)
      BY DEF Routing, Routed
    <2>2. ASSUME Reached(s, h)
          PROVE  Via(s, h) = c <=> s.dest[h].link = p
      <3>1. s.dest[h].link \in Used(s) /\ s.dest[h].link # NoSlot
        BY <1>0, <2>2, EntryParts DEF Reached
      <3>2. Via(s, h) = s.perm[s.dest[h].link].connection
        BY <3>1 DEF Via, ConnOf
      <3> QED BY <1>2, <3>1, <3>2
    <2> HIDE DEF p
    <2> QED BY <1>1, <1>4, <2>1, <2>2 DEF Killed, Unreached, Reached
  <1>12. ASSUME NEW h \in Hosts
         PROVE  Unreached(known.dest[h]) \/ (known.dest[h] = s.dest[h] /\ Via(s, h) # c)
    <2>1. CASE h \in Killed(s1, p)
      BY <1>8, <1>9, <2>1 DEF Unreached, Dead
    <2>2. CASE h \notin Killed(s1, p)
      <3>1. known.dest[h] = s.dest[h]
        BY <1>8, <1>9, <2>2
      <3>2. Unreached(s.dest[h]) \/ Reached(s, h)
        BY DEF Routing, Routed
      <3> QED BY <1>11, <2>2, <3>1, <3>2
    <2> QED BY <2>1, <2>2
  <1>13. known.told[c] = {}
    BY <1>0, <1>1, <1>8, <1>9, StateParts
  <1>14. ASSUME NEW o \in Conns, NEW h \in known.told[o]
         PROVE  h \in s.told[o] /\ known.dest[h] = s.dest[h]
    <2>1. o # c /\ h \in s.told[o]
      BY <1>0, <1>1, <1>8, <1>9, <1>13, StateParts
    <2>2. h \in Hosts /\ MayKnow(s, o, h)
      BY <1>0, <2>1, StateParts DEF Routing, ToldTrue
    <2>3. ASSUME h \in Killed(s1, p) PROVE FALSE
      <3>1. o \notin Receivers(s1, p, h, NoSlot)
        BY <1>8, <1>9, <2>3 DEF Withdrawn
      <3> DEFINE l == LinkOf(s, o)
      <3>2. l \in Used(s) /\ s.perm[l].connection = o /\ s.perm[l].name = s.conn[o].name
        BY <2>2, HostsLink DEF MayKnow, LinkedTo
      <3>3. l # p
        BY <1>2, <2>1, <3>2
      <3>4. IsHost(s1, o)
        BY <1>0, <1>1, <2>1, <2>2, NullIsFresh, StateParts DEF IsHost, MayKnow
      <3>5. l \in Used(s1) \ {p} /\ s1.perm[l].name # h /\ s1.perm[l].connection = o
        BY <1>1, <1>3, <2>2, <3>2, <3>3 DEF MayKnow
      <3> QED BY <3>1, <3>4, <3>5 DEF Receivers
    <2> QED BY <1>8, <1>9, <2>1, <2>2, <2>3
  <1>15. HungUp(s, known, c)
    BY <1>1, <1>9, <1>10, <1>12, <1>13, <1>14 DEF HungUp
  <1>16. p \in Used(known)
    BY <1>2, <1>15, HungUpLinks
  <1>17. Reflagged(known, delay_permlink_connect(known, p))
    BY <1>9, <1>16, DelayReflags
  <1> QED BY <1>7, <1>15, <1>17, HungUpReflagged

\* bye_command2 on an established host: route_cleanup at its end finds nothing.
LEMMA ByeHost ==
    ASSUME NEW s, Routing(s), NEW c \in Conns, s.conn[c].type = "host"
    PROVE  HungUp(s, bye_command2(s, c), c)
  <1> DEFINE name == s.conn[c].name
             s1 == [s EXCEPT !.conn[c] = Closed, !.told[c] = {}]
             s2 == update_permlinks(s1, name, Null, FALSE)
             s3 == [s2 EXCEPT !.seen[c] = {}]
  <1>1. bye_command2(s, c) = route_cleanup(s3, c, name)
    BY DEF bye_command2, Closed
  <1>2. HungUp(s, s2, c)
    <2>1. PICK u : u = s1
      OBVIOUS
    <2>2. HungUp(s, update_permlinks(u, s.conn[c].name, Null, FALSE), c)
      BY <2>1, LinkDown
    <2> QED BY <2>1, <2>2
  <1> HIDE DEF s2
  <1>3. HungUp(s, s3, c)
    <2>1. s2 \in State
      BY <1>2 DEF HungUp
    <2>2. /\ s3 \in State /\ s3.conn = s2.conn /\ s3.perm = s2.perm /\ s3.dest = s2.dest
          /\ s3.told = s2.told /\ s3.seen = [s2.seen EXCEPT ![c] = {}]
      BY <2>1 DEF State
    <2>3. \A o \in Conns : s3.seen[o] \subseteq s2.seen[o]
      BY <2>1, <2>2, StateParts
    <2> HIDE DEF s3
    <2> QED BY <1>2, <2>2, <2>3 DEF HungUp
  <1> HIDE DEF s3
  <1>4. Routing(s3)
    BY <1>3, HungUpRoutes
  <1>5. s \in State /\ s3 \in State
    BY <1>4 DEF Routing
  <1>6. ASSUME NEW o \in Conns, s3.conn[o].type = "host"
        PROVE  o # c /\ s3.conn[o].name # name
    <2>1. o # c /\ s3.conn[o] = s.conn[o]
      BY <1>3, <1>5, <1>6, HungUpConns
    <2>2. LinkedTo(s, LinkOf(s, o), o) /\ LinkOf(s, o) \in Used(s)
      BY <1>6, <2>1, HostsLink
    <2>3. /\ \A q \in Used(s) : s.perm[q].name = name => q = LinkOf(s, c)
          /\ s.perm[LinkOf(s, c)].connection = c
      BY HostsLink DEF LinkedTo
    <2> QED BY <2>1, <2>2, <2>3 DEF LinkedTo
  <1>7. ASSUME NEW h \in Hosts
        PROVE  \/ Unreached(s3.dest[h])
               \/ /\ Reached(s3, h) /\ Via(s3, h) # c
                  /\ s3.conn[Via(s3, h)].name # name
    BY <1>4, <1>6 DEF Routing, Routed, Reached
  <1>8. route_cleanup(s3, c, name) = s3
    BY <1>7, NothingToClean
  <1> QED BY <1>1, <1>3, <1>8

LEMMA ByeHangsUp ==
    ASSUME NEW s, Routing(s), NEW c \in Conns, s.conn[c].type \in {"unknown", "host"}
    PROVE  HungUp(s, bye_command2(s, c), c)
  BY ByeUnknown, ByeHost

-----------------------------------------------------------------------------
(* Routes that come, change and go.                                        *)

\* Only destinations, and what neighbours know of them, changed.
OnlyRoutes(s, t) == t.conn = s.conn /\ t.perm = s.perm /\ t.seen = s.seen

LEMMA OnlyRoutesLinks ==
    ASSUME NEW s, NEW t, OnlyRoutes(s, t)
    PROVE  /\ Used(t) = Used(s)
           /\ \A h : t.dest[h] = s.dest[h] => Via(t, h) = Via(s, h)
           /\ \A p : t.perm[p] = s.perm[p]
  BY DEF OnlyRoutes, Used, Via, ConnOf

LEMMA OnlyRoutesRouting ==
    ASSUME NEW s, NEW t, Routing(s), t \in State, OnlyRoutes(s, t), Routed(t), ToldTrue(t)
    PROVE  Routing(t)
  BY DEF Routing, OnlyRoutes, NamesOnce, OneOwner, NoneFreed, HostsListed, LinkedTo, SeenOnce,
         Used

\* A route that stays as it is.
LEMMA SameRoute ==
    ASSUME NEW s, NEW t, Routing(s), OnlyRoutes(s, t), NEW h \in Hosts,
           t.dest[h] = s.dest[h]
    PROVE  /\ Unreached(t.dest[h]) \/ Reached(t, h)
           /\ \A c \in Conns : MayKnow(s, c, h) => MayKnow(t, c, h)
  <1>1. Unreached(s.dest[h]) \/ Reached(s, h)
    BY DEF Routing, Routed
  <1>2. t.conn = s.conn /\ Used(t) = Used(s) /\ Via(t, h) = Via(s, h)
    BY OnlyRoutesLinks DEF OnlyRoutes
  <1> QED BY <1>1, <1>2 DEF Reached, MayKnow

\* The new destination, and who heard of it.
NewRoute(p, rtt, auto) ==
    [link |-> IF rtt = 0 THEN NoSlot ELSE p, rtt |-> rtt, auto |-> auto, connected |-> rtt # 0]

LEMMA NewRouteParts ==
    ASSUME NEW p, NEW rtt, NEW auto
    PROVE  /\ NewRoute(p, rtt, auto).link = IF rtt = 0 THEN NoSlot ELSE p
           /\ NewRoute(p, rtt, auto).rtt = rtt
           /\ NewRoute(p, rtt, auto).connected <=> rtt # 0
  <1>1. NewRoute(p, rtt, auto).connected = (rtt # 0)
    BY Zenon DEF NewRoute
  <1>2. /\ NewRoute(p, rtt, auto).link = IF rtt = 0 THEN NoSlot ELSE p
        /\ NewRoute(p, rtt, auto).rtt = rtt
    BY Zenon DEF NewRoute
  <1> QED BY <1>1, <1>2, Zenon

Updated(s, t, p, h, rtt, auto) ==
    /\ t \in State
    /\ OnlyRoutes(s, t)
    /\ t.dest = [s.dest EXCEPT ![h] = NewRoute(p, rtt, auto)]
    /\ \A c \in Conns :
         /\ t.told[c] \subseteq s.told[c] \cup {h}
         /\ h \in t.told[c] =>
              IF rtt = 0 THEN h \in s.told[c] /\ c \notin Receivers(s, p, h, NoSlot)
              ELSE h \in s.told[c] \/ c \in Receivers(s, p, h, p)

LEMMA UpdateParts ==
    ASSUME NEW s \in State, NEW p \in Slots, NEW h \in Hosts, NEW rtt \in 0..MaxRtt,
           NEW auto \in BOOLEAN, NEW t, t = update_destinations(s, p, h, rtt, auto)
    PROVE  t = s \/ Updated(s, t, p, h, rtt, auto)
  <1> DEFINE d == s.dest[h]
             worse == d.link # NoSlot /\ d.link # p /\ d.rtt # 0 /\ rtt >= d.rtt
             newlink == IF rtt = 0 THEN NoSlot ELSE p
             hear == IF auto /\ rtt # 0 THEN {} ELSE Receivers(s, p, h, newlink)
             new == NewRoute(p, rtt, auto)
             told2 == IF hear = {} THEN s.told
                      ELSE [c \in Conns |->
                         IF c \notin hear THEN s.told[c]
                         ELSE IF rtt = 0 THEN s.told[c] \ {h} ELSE s.told[c] \cup {h}]
  <1>1. CASE worse
    BY <1>1 DEF update_destinations
  <1>2. CASE ~ worse
    <2>1. t = [s EXCEPT !.dest[h] = new, !.told = told2]
      BY <1>2 DEF update_destinations, NewRoute
    <2>2. new \in Destination
      BY DEF NewRoute, Destination
    <2>3. told2 \in [Conns -> SUBSET Hosts]
      <3> HIDE DEF hear
      <3> QED BY StateParts
    <2>4. ASSUME NEW c \in Conns
          PROVE  /\ told2[c] \subseteq s.told[c] \cup {h}
                 /\ h \in told2[c] =>
                      IF rtt = 0 THEN h \in s.told[c] /\ c \notin hear
                      ELSE h \in s.told[c] \/ c \in hear
      <3> HIDE DEF hear
      <3> QED OBVIOUS
    <2>5. ASSUME NEW c \in Conns
          PROVE  /\ rtt = 0 => (c \in hear <=> c \in Receivers(s, p, h, NoSlot))
                 /\ rtt # 0 => (c \in hear => c \in Receivers(s, p, h, p))
      OBVIOUS
    <2> HIDE DEF new, told2, hear
    <2>6. /\ t \in State /\ t.conn = s.conn /\ t.perm = s.perm /\ t.seen = s.seen
          /\ t.dest = [s.dest EXCEPT ![h] = new] /\ t.told = told2
      BY <2>1, <2>2, <2>3 DEF State
    <2> QED BY <2>4, <2>5, <2>6 DEF Updated, OnlyRoutes, new
  <1> QED BY <1>1, <1>2

\* Whoever hears of a route is an established host other than the one it concerns and
\* the one it came from.
LEMMA ReceiversAreHosts ==
    ASSUME NEW s, Routing(s), NEW p \in Used(s), s.perm[p].connection # Null,
           NEW h, NEW newlink, NEW c \in Receivers(s, p, h, newlink)
    PROVE  /\ c \in Conns
           /\ s.conn[c].type = "host"
           /\ s.conn[c].name # h
           /\ c # s.perm[p].connection
  <1>1. PICK l \in Used(s) \ {p} : /\ s.perm[l].name # h
                                   /\ IsHost(s, s.perm[l].connection)
                                   /\ c = s.perm[l].connection
    BY DEF Receivers
  <1>2. c # Null /\ s.conn[c].type = "host"
    BY <1>1 DEF IsHost
  <1>3. c \in Conns
    BY <1>1, <1>2, EntryParts DEF Routing
  <1>4. l = LinkOf(s, c) /\ s.perm[l].name = s.conn[c].name
    BY <1>1, <1>2, <1>3, HostsLink DEF LinkedTo
  <1>5. c # s.perm[p].connection
    BY <1>1, <1>2 DEF Routing, OneOwner
  <1> QED BY <1>1, <1>2, <1>3, <1>4, <1>5

\* An established host that knows a route over link p hears of its end.
LEMMA KnowersHear ==
    ASSUME NEW s, Routing(s), NEW h \in Hosts, NEW c \in Conns, MayKnow(s, c, h),
           NEW p, s.dest[h].link = p
    PROVE  c \in Receivers(s, p, h, NoSlot)
  <1>1. Reached(s, h) /\ p # NoSlot
    BY DEF Routing, Routed, Unreached, MayKnow
  <1>2. Via(s, h) = s.perm[p].connection
    BY <1>1 DEF Via, ConnOf
  <1> DEFINE l == LinkOf(s, c)
  <1>3. l \in Used(s) /\ s.perm[l].connection = c /\ s.perm[l].name = s.conn[c].name
    BY HostsLink DEF LinkedTo, MayKnow
  <1>4. l # p /\ s.perm[l].name # h
    BY <1>2, <1>3 DEF MayKnow
  <1>5. IsHost(s, c)
    BY NullIsFresh DEF IsHost, MayKnow
  <1> HIDE DEF l
  <1> QED BY <1>3, <1>4, <1>5 DEF Receivers

\* A route over the link of an established host p, given by that host or about it.
LEMMA UpdateRoutes ==
    ASSUME NEW s, Routing(s), NEW p \in Used(s), NEW h \in Hosts, NEW rtt \in 0..MaxRtt,
           NEW auto \in BOOLEAN, NEW t, t = update_destinations(s, p, h, rtt, auto),
           IsHost(s, s.perm[p].connection),
           s.dest[h].link \in {NoSlot, p} \/ (rtt # 0 /\ h = s.perm[p].name)
    PROVE  Routing(t) /\ OnlyRoutes(s, t) /\ \A x \in Hosts \ {h} : t.dest[x] = s.dest[x]
  <1> DEFINE v == s.perm[p].connection
  <1>0. s \in State /\ p \in Slots /\ p # NoSlot /\ v \in Conns /\ v # Null
    BY EntryParts DEF Routing, IsHost
  <1>1. CASE t = s
    BY <1>1 DEF OnlyRoutes
  <1>2. CASE Updated(s, t, p, h, rtt, auto)
    <2>1. t \in State /\ OnlyRoutes(s, t)
      BY <1>2 DEF Updated
    <2>2. t.dest[h] = NewRoute(p, rtt, auto) /\ \A x \in Hosts \ {h} : t.dest[x] = s.dest[x]
      BY <1>0, <1>2, StateParts DEF Updated
    <2>3. /\ rtt = 0 => Unreached(t.dest[h])
          /\ rtt # 0 => t.dest[h].link = p /\ Via(t, h) = v /\ Reached(t, h)
      <3>1. CASE rtt = 0
        BY <2>2, <3>1, NewRouteParts DEF Unreached
      <3>2. CASE rtt # 0
        <4>1. t.dest[h].link = p /\ t.dest[h].rtt # 0 /\ t.dest[h].connected
          BY <2>2, <3>2, NewRouteParts
        <4>2. Via(t, h) = v /\ t.conn[v].type = "host" /\ p \in Used(t)
          BY <1>0, <2>1, <4>1, OnlyRoutesLinks DEF Via, ConnOf, OnlyRoutes, IsHost
        <4> QED BY <1>0, <3>2, <4>1, <4>2 DEF Reached
      <3> QED BY <3>1, <3>2
    <2>4. Routed(t)
      BY <2>1, <2>2, <2>3, SameRoute DEF Routed
    <2>5. ToldTrue(t)
      <3> SUFFICES ASSUME NEW c \in Conns, NEW x \in t.told[c]
                   PROVE  MayKnow(t, c, x)
        BY DEF ToldTrue
      <3>1. x \in Hosts /\ t.conn = s.conn
        BY <2>1, StateParts DEF OnlyRoutes
      <3>2. ASSUME x \in s.told[c] PROVE MayKnow(s, c, x)
        BY <3>2 DEF Routing, ToldTrue
      <3>3. CASE x # h
        <4>1. x \in s.told[c]
          BY <1>2, <3>3 DEF Updated
        <4>2. t.dest[x] = s.dest[x]
          BY <2>2, <3>1, <3>3
        <4> QED BY <2>1, <3>1, <3>2, <4>1, <4>2, SameRoute
      <3>4. CASE x = h /\ rtt = 0
        <4>1. h \in s.told[c] /\ c \notin Receivers(s, p, h, NoSlot)
          BY <1>2, <3>4, Zenon DEF Updated
        <4>2. MayKnow(s, c, h) /\ s.dest[h].link = p
          BY <3>2, <3>4, <4>1 DEF MayKnow
        <4> QED BY <4>1, <4>2, KnowersHear
      <3>5. CASE x = h /\ rtt # 0
        <4>1. h \in s.told[c] \/ c \in Receivers(s, p, h, p)
          BY <1>2, <3>5 DEF Updated
        <4>2. ASSUME c \in Receivers(s, p, h, p)
              PROVE  s.conn[c].type = "host" /\ s.conn[c].name # h /\ v # c
          BY <1>0, <4>2, ReceiversAreHosts
        <4>3. ASSUME h \in s.told[c]
              PROVE  s.conn[c].type = "host" /\ s.conn[c].name # h /\ v # c
          <5>1. MayKnow(s, c, h)
            BY <3>2, <3>5, <4>3
          <5>2. ASSUME s.dest[h].link = p PROVE v # c
            BY <1>0, <5>1, <5>2 DEF MayKnow, Via, ConnOf
          <5>3. ASSUME h = s.perm[p].name PROVE v # c
            <6>1. ASSUME v = c PROVE s.perm[p].name = s.conn[c].name
              BY <5>1, <6>1, HostsLink DEF MayKnow, LinkedTo
            <6> QED BY <5>1, <5>3, <6>1 DEF MayKnow
          <5> QED BY <5>1, <5>2, <5>3 DEF MayKnow
        <4> QED BY <1>0, <2>3, <3>1, <3>5, <4>1, <4>2, <4>3 DEF MayKnow
      <3> QED BY <3>3, <3>4, <3>5
    <2> QED BY <2>1, <2>2, <2>4, <2>5, OnlyRoutesRouting
  <1> QED BY <1>0, <1>1, <1>2, UpdateParts

\* Giving up everything behind link p.
LEMMA KillKeepsRoutes ==
    ASSUME NEW s, Routing(s), NEW p \in Slots
    PROVE  Routing(KillRoutes(s, p)) /\ OnlyRoutes(s, KillRoutes(s, p))
  <1> DEFINE t == KillRoutes(s, p)
  <1>0. s \in State
    BY DEF Routing
  <1>1. RoutesKilled(s, t, p)
    BY <1>0, KillParts
  <1> HIDE DEF t
  <1>2. t \in State /\ OnlyRoutes(s, t)
    BY <1>1 DEF RoutesKilled, OnlyRoutes
  <1>3. ASSUME NEW h \in Hosts
        PROVE  \/ Unreached(t.dest[h]) /\ h \in Killed(s, p)
               \/ t.dest[h] = s.dest[h] /\ h \notin Killed(s, p)
    BY <1>1 DEF RoutesKilled, Unreached, Dead
  <1>4. Routed(t)
    BY <1>2, <1>3, SameRoute DEF Routed
  <1>5. ToldTrue(t)
    <2> SUFFICES ASSUME NEW c \in Conns, NEW h \in t.told[c]
                 PROVE  MayKnow(t, c, h)
      BY DEF ToldTrue
    <2>1. h \in s.told[c] /\ h \notin Withdrawn(s, p, c)
      BY <1>1 DEF RoutesKilled
    <2>2. h \in Hosts /\ MayKnow(s, c, h)
      BY <1>0, <2>1, StateParts DEF Routing, ToldTrue
    <2>3. h \notin Killed(s, p)
      BY <2>1, <2>2, KnowersHear DEF Withdrawn, Killed
    <2> QED BY <1>2, <1>3, <2>2, <2>3, SameRoute
  <1>6. Routing(t)
    BY <1>2, <1>4, <1>5, OnlyRoutesRouting
  <1> QED BY <1>2, <1>6 DEF t

-----------------------------------------------------------------------------
(***************************************************************************)
(* The invariant about chains of links.                                    *)
(***************************************************************************)

\* Pointers lead to links, and back.
LinkedBack(s) ==
    \A p \in Used(s) :
        /\ s.perm[p].primary # NoSlot =>
              s.perm[p].primary \in Used(s) /\ s.perm[s.perm[p].primary].backup = p
        /\ s.perm[p].backup # NoSlot =>
              s.perm[p].backup \in Used(s) /\ s.perm[s.perm[p].backup].primary = p

\* Links of a chain are configured ones, which do not expire.
ChainsArePermanent(s) ==
    \A p \in Used(s) :
        s.perm[p].primary # NoSlot \/ s.perm[p].backup # NoSlot => s.perm[p].permanent

\* The rest of ChainsAreFlat.
Acyclic(s) == \A p \in Used(s) : p \notin Primaries(s, p)

IsUp(s, p) == IsHost(s, s.perm[p].connection)

\* No two links of a chain are up.
Exclusive(s) ==
    \A p \in Used(s) : \A q \in Primaries(s, p) \cap Used(s) : ~ (IsUp(s, p) /\ IsUp(s, q))

Chained(s) ==
    /\ LinkedBack(s)
    /\ ChainsArePermanent(s)
    /\ Acyclic(s)
    /\ Exclusive(s)

\* A walk goes on to the next stop, and to no stops but those.
LEMMA ChainGoesOn ==
    ASSUME NEW p, NEW next, NEW q, q = p \/ q \in Chain(p, next),
           q \in DOMAIN next, next[q] # NoSlot, next[q] \in Slots
    PROVE  next[q] \in Chain(p, next)
  <1> SUFFICES ASSUME NEW C \in SUBSET Slots, GoesOnIn(p, next, C),
                      \A r \in C : GoesOnIn(r, next, C)
               PROVE  next[q] \in C
    BY DEF Chain
  <1>1. q = p \/ q \in C
    BY DEF Chain
  <1> QED BY <1>1 DEF GoesOnIn

LEMMA ChainStaysIn ==
    ASSUME NEW p, NEW next, NEW C \in SUBSET Slots, GoesOnIn(p, next, C),
           \A r \in C : GoesOnIn(r, next, C)
    PROVE  Chain(p, next) \subseteq C
  BY DEF Chain

\* The same, of the two chains of a link.
NextUp(s) == [q \in Used(s) |-> s.perm[q].primary]
NextDown(s) == [q \in Used(s) |-> s.perm[q].backup]

LEMMA PrimariesGoOn ==
    ASSUME NEW s \in State, NEW p, NEW q \in Used(s), q = p \/ q \in Primaries(s, p),
           s.perm[q].primary # NoSlot
    PROVE  s.perm[q].primary \in Primaries(s, p)
  <1>1. Primaries(s, p) = Chain(p, NextUp(s))
    BY DEF Primaries, NextUp
  <1>2. q \in DOMAIN NextUp(s) /\ NextUp(s)[q] = s.perm[q].primary
    BY DEF NextUp
  <1>3. s.perm[q].primary \in Slots
    BY EntryParts
  <1> QED BY <1>1, <1>2, <1>3, ChainGoesOn

LEMMA BackupsGoOn ==
    ASSUME NEW s \in State, NEW p, NEW q \in Used(s), q = p \/ q \in Backups(s, p),
           s.perm[q].backup # NoSlot
    PROVE  s.perm[q].backup \in Backups(s, p)
  <1>1. Backups(s, p) = Chain(p, NextDown(s))
    BY DEF Backups, NextDown
  <1>2. q \in DOMAIN NextDown(s) /\ NextDown(s)[q] = s.perm[q].backup
    BY DEF NextDown
  <1>3. s.perm[q].backup \in Slots
    BY EntryParts
  <1> QED BY <1>1, <1>2, <1>3, ChainGoesOn

LEMMA PrimariesStayIn ==
    ASSUME NEW s, NEW p, NEW C \in SUBSET Slots,
           \A q \in Used(s) : q = p \/ q \in C =>
              s.perm[q].primary = NoSlot \/ s.perm[q].primary \in C
    PROVE  Primaries(s, p) \subseteq C
  <1>1. Primaries(s, p) = Chain(p, NextUp(s))
    BY DEF Primaries, NextUp
  <1>2. DOMAIN NextUp(s) = Used(s) /\ \A q \in Used(s) : NextUp(s)[q] = s.perm[q].primary
    BY DEF NextUp
  <1>3. ASSUME NEW q, q = p \/ q \in C PROVE GoesOnIn(q, NextUp(s), C)
    BY <1>2, <1>3 DEF GoesOnIn
  <1> QED BY <1>1, <1>3, ChainStaysIn

LEMMA BackupsStayIn ==
    ASSUME NEW s, NEW p, NEW C \in SUBSET Slots,
           \A q \in Used(s) : q = p \/ q \in C =>
              s.perm[q].backup = NoSlot \/ s.perm[q].backup \in C
    PROVE  Backups(s, p) \subseteq C
  <1>1. Backups(s, p) = Chain(p, NextDown(s))
    BY DEF Backups, NextDown
  <1>2. DOMAIN NextDown(s) = Used(s) /\ \A q \in Used(s) : NextDown(s)[q] = s.perm[q].backup
    BY DEF NextDown
  <1>3. ASSUME NEW q, q = p \/ q \in C PROVE GoesOnIn(q, NextDown(s), C)
    BY <1>2, <1>3 DEF GoesOnIn
  <1> QED BY <1>1, <1>3, ChainStaysIn

\* Chains consist of links.
LEMMA ChainsAreLinks ==
    ASSUME NEW s \in State, LinkedBack(s), NEW p
    PROVE  Primaries(s, p) \subseteq Used(s) /\ Backups(s, p) \subseteq Used(s)
  <1>1. Used(s) \in SUBSET Slots
    BY DEF Used
  <1>2. \A q \in Used(s) : /\ s.perm[q].primary = NoSlot \/ s.perm[q].primary \in Used(s)
                           /\ s.perm[q].backup = NoSlot \/ s.perm[q].backup \in Used(s)
    BY DEF LinkedBack
  <1> QED BY <1>1, <1>2, PrimariesStayIn, BackupsStayIn

\* A link has those above it that have it below them: leaving out everything below q, and
\* q itself, leaves a set in which a walk upwards stays.
LEMMA AboveIsBelow ==
    ASSUME NEW s \in State, LinkedBack(s), NEW p \in Used(s), NEW q \in Primaries(s, p)
    PROVE  p \in Backups(s, q)
  <1> SUFFICES ASSUME p \notin Backups(s, q)
               PROVE  FALSE
    OBVIOUS
  <1> DEFINE C == Slots \ (Backups(s, q) \cup {q})
  <1>1. ASSUME NEW r \in Used(s), r \notin Backups(s, q), s.perm[r].primary # NoSlot
        PROVE  s.perm[r].primary \in C
    <2> DEFINE u == s.perm[r].primary
    <2>1. u \in Used(s) /\ s.perm[u].backup = r /\ u \in Slots
      BY <1>1, EntryParts DEF LinkedBack
    <2>2. r # NoSlot
      BY <1>1, EntryParts
    <2>3. u # q /\ u \notin Backups(s, q)
      BY <1>1, <2>1, <2>2, BackupsGoOn
    <2> QED BY <2>1, <2>3
  <1>2. Primaries(s, p) \subseteq C
    <2>1. \A r \in Used(s) : r = p \/ r \in C =>
             s.perm[r].primary = NoSlot \/ s.perm[r].primary \in C
      BY <1>1
    <2> HIDE DEF C
    <2>2. C \in SUBSET Slots
      BY DEF C
    <2> QED BY <2>1, <2>2, PrimariesStayIn
  <1> QED BY <1>2

LEMMA BelowIsAbove ==
    ASSUME NEW s \in State, LinkedBack(s), NEW p \in Used(s), NEW q \in Backups(s, p)
    PROVE  p \in Primaries(s, q)
  <1> SUFFICES ASSUME p \notin Primaries(s, q)
               PROVE  FALSE
    OBVIOUS
  <1> DEFINE C == Slots \ (Primaries(s, q) \cup {q})
  <1>1. ASSUME NEW r \in Used(s), r \notin Primaries(s, q), s.perm[r].backup # NoSlot
        PROVE  s.perm[r].backup \in C
    <2> DEFINE u == s.perm[r].backup
    <2>1. u \in Used(s) /\ s.perm[u].primary = r /\ u \in Slots
      BY <1>1, EntryParts DEF LinkedBack
    <2>2. r # NoSlot
      BY <1>1, EntryParts
    <2>3. u # q /\ u \notin Primaries(s, q)
      BY <1>1, <2>1, <2>2, PrimariesGoOn
    <2> QED BY <2>1, <2>3
  <1>2. Backups(s, p) \subseteq C
    <2>1. \A r \in Used(s) : r = p \/ r \in C =>
             s.perm[r].backup = NoSlot \/ s.perm[r].backup \in C
      BY <1>1
    <2> HIDE DEF C
    <2>2. C \in SUBSET Slots
      BY DEF C
    <2> QED BY <2>1, <2>2, BackupsStayIn
  <1> QED BY <1>2

\* A chain ends: otherwise backup would map the links from p on, one to one, to those
\* below p, which are fewer.
LEMMA ChainEnds ==
    ASSUME NEW s \in State, LinkedBack(s), Acyclic(s), NEW p \in Used(s)
    PROVE  \E q \in {p} \cup Backups(s, p) : s.perm[q].backup = NoSlot
  <1> SUFFICES ASSUME \A q \in {p} \cup Backups(s, p) : s.perm[q].backup # NoSlot
               PROVE  FALSE
    OBVIOUS
  <1> DEFINE B == Backups(s, p)
             A == {p} \cup B
             f == [q \in A |-> s.perm[q].backup]
  <1>1. B \subseteq Used(s) /\ p \notin B
    <2>1. B \subseteq Used(s)
      BY ChainsAreLinks
    <2>2. ASSUME p \in B PROVE p \in Primaries(s, p)
      BY <2>2, BelowIsAbove
    <2> QED BY <2>1, <2>2 DEF Acyclic
  <1>2. ASSUME NEW q \in A PROVE q \in Used(s) /\ f[q] \in B /\ s.perm[f[q]].primary = q
    <2>1. q \in Used(s) /\ s.perm[q].backup # NoSlot
      BY <1>1
    <2>2. s.perm[q].backup \in B
      BY <2>1, BackupsGoOn
    <2> QED BY <2>1, <2>2 DEF LinkedBack
  <1>3. f \in [A -> B]
    <2>1. \A q \in A : f[q] \in B
      BY <1>2
    <2> HIDE DEF A, B
    <2> QED BY <2>1
  <1>4. \A x, y \in A : f[x] = f[y] => x = y
    <2>1. \A q \in A : s.perm[f[q]].primary = q
      BY <1>2
    <2> HIDE DEF f, A
    <2> QED BY <2>1
  <1>5. IsFiniteSet(A) /\ IsFiniteSet(B) /\ Cardinality(B) < Cardinality(A)
    <2>1. IsFiniteSet(Slots)
      BY LinkBounds, FS_Interval DEF Slots
    <2>2. IsFiniteSet(B)
      BY <2>1, ChainsAreSlots, FS_Subset
    <2> HIDE DEF B
    <2>3. A = B \cup {p}
      OBVIOUS
    <2>4. IsFiniteSet(A) /\ Cardinality(A) = Cardinality(B) + 1
      BY <1>1, <2>2, <2>3, FS_AddElement
    <2>5. Cardinality(B) \in Nat
      BY <2>2, FS_CardinalityType
    <2> QED BY <2>2, <2>4, <2>5
  <1> HIDE DEF f, A, B
  <1> QED BY <1>3, <1>4, <1>5, FS_PigeonHole

\* The links of t are links of s with the same pointers.
SamePointers(s, t) ==
    /\ Used(t) = Used(s)
    /\ \A p \in Used(s) : /\ t.perm[p].primary = s.perm[p].primary
                          /\ t.perm[p].backup = s.perm[p].backup
                          /\ t.perm[p].permanent = s.perm[p].permanent

LEMMA SameChains ==
    ASSUME NEW s, NEW t, SamePointers(s, t), NEW p
    PROVE  Primaries(t, p) = Primaries(s, p) /\ Backups(t, p) = Backups(s, p)
  <1>1. NextUp(t) = NextUp(s) /\ NextDown(t) = NextDown(s)
    BY DEF SamePointers, NextUp, NextDown
  <1> QED BY <1>1 DEF Primaries, Backups, NextUp, NextDown

\* Chains stay sound when they stay the same and links only go down.
LEMMA FewerUp ==
    ASSUME NEW s, NEW t, Chained(s), SamePointers(s, t),
           \A p \in Used(s) : IsUp(t, p) => IsUp(s, p)
    PROVE  Chained(t)
  <1>1. Used(t) = Used(s)
    BY DEF SamePointers
  <1>2. LinkedBack(t) /\ ChainsArePermanent(t)
    BY DEF Chained, SamePointers, LinkedBack, ChainsArePermanent
  <1>3. Acyclic(t)
    BY <1>1, SameChains DEF Chained, Acyclic
  <1>4. Exclusive(t)
    BY <1>1, SameChains DEF Chained, Exclusive
  <1> QED BY <1>2, <1>3, <1>4 DEF Chained

Sound(s) == Routing(s) /\ Chained(s)

LEMMA ReflaggedSound ==
    ASSUME NEW s, NEW t, Sound(s), Reflagged(s, t)
    PROVE  Sound(t)
  <1>1. SamePointers(s, t)
    BY ReflaggedLinks DEF SamePointers
  <1>2. t.conn = s.conn
    BY DEF Reflagged
  <1>3. \A p \in Used(s) : IsUp(t, p) => IsUp(s, p)
    BY <1>2, ReflaggedLinks DEF IsUp, IsHost
  <1> QED BY <1>1, <1>3, FewerUp, ReflaggedRoutes DEF Sound

LEMMA HungUpSound ==
    ASSUME NEW s, NEW t, NEW c \in Conns, Sound(s), HungUp(s, t, c)
    PROVE  Sound(t)
  <1>0. s \in State /\ t \in State
    BY DEF Sound, Routing, HungUp
  <1>1. SamePointers(s, t)
    BY HungUpLinks DEF SamePointers
  <1>2. ASSUME NEW p \in Used(s), IsUp(t, p) PROVE IsUp(s, p)
    <2>1. t.perm[p].connection # Null /\ t.perm[p].connection \in Conns
      BY <1>0, <1>1, <1>2, EntryParts DEF IsUp, IsHost, SamePointers
    <2>2. t.perm[p].connection = s.perm[p].connection
      BY <2>1, HungUpLinks
    <2>3. t.perm[p].connection # c
      BY <1>0, <1>2, HungUpConns DEF IsUp, IsHost
    <2> QED BY <1>0, <1>2, <2>1, <2>2, <2>3, HungUpConns DEF IsUp, IsHost
  <1> QED BY <1>1, <1>2, FewerUp, HungUpRoutes DEF Sound

LEMMA OnlyRoutesSound ==
    ASSUME NEW s, NEW t, Sound(s), Routing(t), OnlyRoutes(s, t)
    PROVE  Sound(t)
  <1>1. SamePointers(s, t)
    BY OnlyRoutesLinks DEF SamePointers
  <1>2. \A p \in Used(s) : IsUp(t, p) => IsUp(s, p)
    BY OnlyRoutesLinks DEF IsUp, IsHost, OnlyRoutes
  <1> QED BY <1>1, <1>2, FewerUp DEF Sound

\* The end of a connection.
LEMMA ByeSound ==
    ASSUME NEW s, Sound(s), NEW c \in Conns, s.conn[c].type \in {"unknown", "host"}
    PROVE  Sound(bye_command2(s, c)) /\ HungUp(s, bye_command2(s, c), c)
  BY ByeHangsUp, HungUpSound DEF Sound

\* The same when something has been seen to be wrong with the link.
LEMMA LoopSound ==
    ASSUME NEW s, Sound(s), NEW c \in Conns, s.conn[c].type = "host",
           NEW p \in Used(s) \cup {NoSlot}
    PROVE  Sound(loop_handler(s, c, p))
  <1> DEFINE s1 == Lock(s, p)
             s2 == delay_permlink_connect(s1, p)
  <1>1. s \in State
    BY DEF Sound, Routing
  <1>2. Reflagged(s, s1)
    BY <1>1, LockReflags
  <1>3. s1 \in State /\ p \in Used(s1) \cup {NoSlot}
    BY <1>2, ReflaggedLinks DEF Reflagged
  <1> HIDE DEF s1
  <1>4. Reflagged(s1, s2)
    BY <1>3, DelayReflags
  <1> HIDE DEF s2
  <1>5. Sound(s2) /\ s2.conn = s.conn
    BY <1>2, <1>4, ReflaggedSound DEF Reflagged
  <1>6. Sound(bye_command2(s2, c))
    BY <1>5, ByeSound
  <1> QED BY <1>6 DEF loop_handler, s1, s2

LEMMA ByeIfSound ==
    ASSUME NEW s, Sound(s), NEW c \in Conns \cup {Null}, NEW types \in SUBSET {"unknown", "host"}
    PROVE  /\ Sound(ByeIf(s, c, types))
           /\ ByeIf(s, c, types) = s \/ HungUp(s, ByeIf(s, c, types), c)
           /\ c # Null /\ s.conn[c].type \in types => HungUp(s, ByeIf(s, c, types), c)
  <1>1. CASE c # Null /\ s.conn[c].type \in types
    BY <1>1, ByeSound DEF ByeIf
  <1>2. CASE ~ (c # Null /\ s.conn[c].type \in types)
    BY <1>2 DEF ByeIf
  <1> QED BY <1>1, <1>2

\* A step to t makes t the state.
LEMMA StepTo ==
    ASSUME NEW t, Become(t), Sound(t)
    PROVE  Sound(S')
  <1>1. t \in State
    BY DEF Sound, Routing
  <1>2. S' = t
    BY <1>1 DEF Become, S, State
  <1> QED BY <1>2

\* The variables are the parts of S.
LEMMA PartsOfS ==
    /\ S.conn = conn /\ S.perm = perm /\ S.dest = dest /\ S.seen = seen /\ S.told = told
  BY DEF S

-----------------------------------------------------------------------------
(***************************************************************************)
(* Steps of neighbours and of the main loop, one lemma for each.           *)
(***************************************************************************)

\* Established hosts and their links stay as they are, and so do routes.
SameHosts(s, t) ==
    /\ t \in State
    /\ t.dest = s.dest /\ t.seen = s.seen /\ t.told = s.told
    /\ \A c \in Conns : s.conn[c].type = "host" \/ t.conn[c].type = "host" =>
          t.conn[c] = s.conn[c]
    /\ \A p \in Used(s) : IsUp(s, p) => /\ p \in Used(t)
                                        /\ t.perm[p].connection = s.perm[p].connection
                                        /\ t.perm[p].name = s.perm[p].name

LEMMA SameHostsRouting ==
    ASSUME NEW s, NEW t, Routing(s), SameHosts(s, t), NamesOnce(t), OneOwner(t), NoneFreed(t)
    PROVE  Routing(t)
  <1>0. s \in State /\ t \in State
    BY DEF Routing, SameHosts
  <1>1. HostsListed(t)
    <2> SUFFICES ASSUME NEW c \in Conns, t.conn[c].type = "host"
                 PROVE  \E p \in Used(t) : LinkedTo(t, p, c)
      BY DEF HostsListed
    <2>1. t.conn[c] = s.conn[c]
      BY DEF SameHosts
    <2>2. PICK p \in Used(s) : LinkedTo(s, p, c)
      BY <2>1 DEF Routing, HostsListed
    <2>3. IsUp(s, p)
      BY <2>1, <2>2, NullIsFresh DEF IsUp, IsHost, LinkedTo
    <2>4. p \in Used(t) /\ LinkedTo(t, p, c)
      BY <2>1, <2>2, <2>3 DEF SameHosts, LinkedTo
    <2> QED BY <2>4
  <1>2. ASSUME NEW h \in Hosts, Reached(s, h)
        PROVE  Reached(t, h) /\ Via(t, h) = Via(s, h)
    <2> DEFINE l == s.dest[h].link
    <2>1. l \in Used(s) /\ l # NoSlot /\ t.dest = s.dest
      BY <1>0, <1>2, EntryParts DEF Reached, SameHosts
    <2>2. Via(s, h) = s.perm[l].connection /\ Via(t, h) = t.perm[l].connection
      BY <2>1 DEF Via, ConnOf
    <2>3. IsUp(s, l)
      BY <1>2, <2>2, NullIsFresh DEF IsUp, IsHost, Reached
    <2>4. l \in Used(t) /\ t.perm[l].connection = s.perm[l].connection
      BY <2>1, <2>3 DEF SameHosts
    <2>5. t.conn[Via(s, h)] = s.conn[Via(s, h)]
      BY <1>2 DEF Reached, SameHosts
    <2> QED BY <1>2, <2>1, <2>2, <2>4, <2>5 DEF Reached
  <1>3. Routed(t)
    BY <1>2 DEF Routing, Routed, SameHosts
  <1>4. ToldTrue(t)
    <2> SUFFICES ASSUME NEW c \in Conns, NEW h \in t.told[c]
                 PROVE  MayKnow(t, c, h)
      BY DEF ToldTrue
    <2>1. h \in Hosts /\ MayKnow(s, c, h)
      BY <1>0, StateParts DEF Routing, ToldTrue, SameHosts
    <2>2. Reached(s, h)
      BY <2>1 DEF Routing, Routed, MayKnow, Unreached
    <2>3. Via(t, h) = Via(s, h)
      BY <1>2, <2>1, <2>2
    <2>4. t.conn[c] = s.conn[c] /\ t.dest = s.dest
      BY <2>1 DEF SameHosts, MayKnow
    <2> QED BY <2>1, <2>3, <2>4 DEF MayKnow
  <1>5. SeenOnce(t)
    BY DEF Routing, SeenOnce, SameHosts
  <1> QED BY <1>0, <1>1, <1>3, <1>4, <1>5 DEF Routing

LEMMA AcceptStep ==
    ASSUME Sound(S), NEW c \in Conns, accept_connect_request(c)
    PROVE  Sound(S')
  <1> DEFINE e == [S.conn[c] EXCEPT !.type = "unknown"]
             t == [S EXCEPT !.conn[c] = e]
  <1>0. S \in State /\ S.conn[c].type = "free"
    BY PartsOfS DEF Sound, Routing, accept_connect_request
  <1>1. Become(t)
    BY DEF accept_connect_request
  <1>2. e \in Connection /\ e.type = "unknown"
    BY <1>0, StateParts DEF Connection
  <1> HIDE DEF e
  <1>3. /\ t \in State /\ t.conn = [S.conn EXCEPT ![c] = e] /\ t.perm = S.perm
        /\ t.dest = S.dest /\ t.seen = S.seen /\ t.told = S.told
    BY <1>0, <1>2 DEF State
  <1> HIDE DEF t
  <1>4. t.conn[c] = e /\ \A o \in Conns \ {c} : t.conn[o] = S.conn[o]
    BY <1>0, <1>3, StateParts
  <1>5. Used(t) = Used(S)
    BY <1>3 DEF Used
  <1>6. SameHosts(S, t)
    BY <1>0, <1>2, <1>3, <1>4, <1>5 DEF SameHosts
  <1>7. NamesOnce(t) /\ OneOwner(t)
    BY <1>3, <1>5 DEF Sound, Routing, NamesOnce, OneOwner
  <1>8. NoneFreed(t)
    BY <1>0, <1>2, <1>3, <1>4, <1>5, EntryParts DEF Sound, Routing, NoneFreed
  <1>9. SamePointers(S, t)
    BY <1>3, <1>5 DEF SamePointers
  <1>10. \A p \in Used(S) : IsUp(t, p) => IsUp(S, p)
    BY <1>0, <1>2, <1>3, <1>4, EntryParts DEF IsUp, IsHost
  <1> QED BY <1>1, <1>6, <1>7, <1>8, <1>9, <1>10, SameHostsRouting, FewerUp, StepTo DEF Sound

\* Lines about routes.
LEMMA UpdateStep ==
    ASSUME Sound(S), NEW p \in Used(S), NEW h \in Hosts, NEW rtt \in 0..MaxRtt,
           NEW auto \in BOOLEAN, IsHost(S, S.perm[p].connection),
           S.dest[h].link \in {NoSlot, p},
           Become(update_destinations(S, p, h, rtt, auto))
    PROVE  Sound(S')
  <1>1. PICK t : t = update_destinations(S, p, h, rtt, auto)
    OBVIOUS
  <1>2. Routing(t) /\ OnlyRoutes(S, t)
    BY <1>1, UpdateRoutes DEF Sound
  <1>3. Sound(t) /\ Become(t)
    BY <1>1, <1>2, OnlyRoutesSound
  <1> QED BY <1>3, StepTo

LEMMA LoopStep ==
    ASSUME Sound(S), NEW c \in Conns, S.conn[c].type = "host", NEW p \in Used(S) \cup {NoSlot},
           Become(loop_handler(S, c, p))
    PROVE  Sound(S')
  BY LoopSound, StepTo

LEMMA ByeStep ==
    ASSUME Sound(S), NEW c \in Conns, S.conn[c].type \in {"unknown", "host"},
           Become(bye_command2(S, c))
    PROVE  Sound(S')
  BY ByeSound, StepTo

\* The link of host c, which is up.
LEMMA LinkIsUp ==
    ASSUME NEW s, Routing(s), NEW c \in Conns, s.conn[c].type = "host"
    PROVE  /\ LinkOf(s, c) \in Used(s)
           /\ s.perm[LinkOf(s, c)].connection = c
           /\ s.perm[LinkOf(s, c)].name = s.conn[c].name
           /\ IsHost(s, s.perm[LinkOf(s, c)].connection)
           /\ \A h \in Hosts : s.dest[h].link # NoSlot =>
                (Via(s, h) = c <=> s.dest[h].link = LinkOf(s, c))
  <1>1. LinkOf(s, c) \in Used(s) /\ LinkedTo(s, LinkOf(s, c), c)
    BY HostsLink
  <1>2. s.perm[LinkOf(s, c)].connection = c /\ s.perm[LinkOf(s, c)].name = s.conn[c].name
    BY <1>1 DEF LinkedTo
  <1>3. IsHost(s, c)
    BY NullIsFresh DEF IsHost
  <1>4. ASSUME NEW h \in Hosts, s.dest[h].link # NoSlot
        PROVE  Via(s, h) = c <=> s.dest[h].link = LinkOf(s, c)
    <2>1. Reached(s, h)
      BY <1>4 DEF Routing, Routed, Unreached
    <2>2. s.dest[h].link \in Used(s) /\ Via(s, h) = s.perm[s.dest[h].link].connection
      BY <1>4, <2>1 DEF Reached, Via, ConnOf
    <2> QED BY <1>2, <2>2, HostsLink
  <1> QED BY <1>1, <1>2, <1>3, <1>4

LEMMA DestStep ==
    ASSUME Sound(S), NEW c \in Conns, NEW h \in Hosts, NEW rtt \in 0..MaxRtt,
           h_dest_command(c, h, rtt)
    PROVE  Sound(S')
  <1> DEFINE l == LinkOf(S, c)
  <1>1. S.conn[c].type = "host" /\ Routing(S)
    BY PartsOfS DEF h_dest_command, Sound
  <1>2. l \in Used(S) /\ IsHost(S, S.perm[l].connection)
    BY <1>1, LinkIsUp
  <1>3. CASE S.dest[h].link # NoSlot /\ Via(S, h) # c
    <2>1. Become(loop_handler(S, c, l))
      BY <1>3, PartsOfS DEF h_dest_command
    <2> QED BY <1>1, <1>2, <2>1, LoopStep
  <1>4. CASE ~ (S.dest[h].link # NoSlot /\ Via(S, h) # c)
    <2>1. PICK auto \in BOOLEAN : auto = FALSE
      OBVIOUS
    <2>2. Become(update_destinations(S, l, h, rtt, auto))
      BY <1>4, <2>1, PartsOfS DEF h_dest_command
    <2>3. S.dest[h].link \in {NoSlot, l}
      BY <1>1, <1>4, LinkIsUp
    <2> HIDE DEF l
    <2> QED BY <1>2, <2>2, <2>3, UpdateStep
  <1> QED BY <1>3, <1>4

LEMMA DestIsUsStep ==
    ASSUME Sound(S), NEW c \in Conns, DestIsUs(c) \/ h_loop_command(c)
    PROVE  Sound(S')
  <1>1. S.conn[c].type = "host" /\ Routing(S) /\ Become(loop_handler(S, c, LinkOf(S, c)))
    BY PartsOfS DEF DestIsUs, h_loop_command, Sound
  <1>2. LinkOf(S, c) \in Used(S)
    BY <1>1, LinkIsUp
  <1> QED BY <1>1, <1>2, LoopStep

LEMMA PongStep ==
    ASSUME Sound(S), NEW c \in Conns, NEW rtt \in 1..MaxRtt, NEW resend \in SUBSET Hosts,
           h_pong_command(c, rtt, resend)
    PROVE  Sound(S')
  <1> DEFINE l == LinkOf(S, c)
             name == S.perm[l].name
             s0 == [S EXCEPT !.perm[l].txtime = TRUE]
             s1 == update_destinations(s0, l, name, rtt, FALSE)
             t == [s1 EXCEPT !.told[c] = @ \cup resend]
  <1>1. S.conn[c].type = "host" /\ Routing(S) /\ S \in State
    BY PartsOfS DEF h_pong_command, Sound, Routing
  <1>2. l \in Used(S) /\ S.perm[l].connection = c /\ name = S.conn[c].name /\ name \in Hosts
    BY <1>1, LinkIsUp, EntryParts
  <1>3. Become(t)
    BY PartsOfS DEF h_pong_command
  <1>4. ASSUME NEW h \in resend
        PROVE  h \in Hosts /\ h # name /\ S.dest[h].link # NoSlot /\ S.dest[h].link # l
    BY <1>4, PartsOfS DEF h_pong_command
  <1>5. Reflagged(S, s0)
    <2>1. S.perm[l] \in Permlink
      BY <1>1, <1>2, EntryParts
    <2>2. PICK locked \in BOOLEAN, wait \in BOOLEAN, txtime \in BOOLEAN :
             txtime = TRUE /\ wait = S.perm[l].wait /\ locked = S.perm[l].locked
      BY <2>1 DEF Permlink
    <2>3. [S.perm[l] EXCEPT !.txtime = TRUE]
            = [S.perm[l] EXCEPT !.locked = locked, !.wait = wait, !.txtime = txtime]
      BY <2>1, <2>2 DEF Permlink
    <2>4. s0 = [S EXCEPT !.perm[l] = [@ EXCEPT !.locked = locked, !.wait = wait,
                                               !.txtime = txtime]]
      BY <2>3
    <2> HIDE DEF l, s0
    <2> QED BY <1>1, <1>2, <2>4, FlagsOfOne
  <1> HIDE DEF s0, l
  <1>6. /\ Sound(s0) /\ s0.conn = S.conn /\ s0.dest = S.dest /\ l \in Used(s0)
        /\ s0.perm[l].connection = c /\ s0.perm[l].name = name
    BY <1>2, <1>5, ReflaggedSound, ReflaggedLinks DEF Reflagged
  <1>7. Routing(s1) /\ OnlyRoutes(s0, s1) /\ \A x \in Hosts \ {name} : s1.dest[x] = s0.dest[x]
    <2>0. PICK auto \in BOOLEAN : auto = FALSE
      OBVIOUS
    <2>1. PICK u : u = s1
      OBVIOUS
    <2>2. u = update_destinations(s0, l, name, rtt, auto)
      BY <2>0, <2>1
    <2>3. rtt \in 0..MaxRtt /\ rtt # 0
      BY LinkBounds
    <2>4. IsHost(s0, s0.perm[l].connection)
      BY <1>1, <1>6, NullIsFresh DEF IsHost
    <2> HIDE DEF s1, name
    <2>5. Routing(u) /\ OnlyRoutes(s0, u) /\ \A x \in Hosts \ {name} : u.dest[x] = s0.dest[x]
      BY <1>2, <1>6, <2>2, <2>3, <2>4, UpdateRoutes DEF Sound
    <2> QED BY <2>1, <2>5
  <1> HIDE DEF s1
  <1>8. Sound(s1) /\ s1 \in State
    BY <1>6, <1>7, OnlyRoutesSound DEF Routing
  <1>9. /\ t \in State /\ OnlyRoutes(s1, t) /\ t.dest = s1.dest
        /\ t.told = [s1.told EXCEPT ![c] = @ \cup resend]
    BY <1>8 DEF State, OnlyRoutes
  <1> HIDE DEF t
  <1>10. ASSUME NEW h \in resend PROVE MayKnow(s1, c, h)
    <2>1. h \in Hosts /\ s1.dest[h] = S.dest[h] /\ S.conn[c].name # h
      BY <1>2, <1>4, <1>6, <1>7, <1>10
    <2>2. s1.conn = S.conn /\ s1.perm = s0.perm
      BY <1>6, <1>7 DEF OnlyRoutes
    <2>3. s1.conn[c].type = "host" /\ LinkOf(s1, c) = l
      <3>1. l \in Used(s1) /\ s1.perm[l].connection = c
        BY <1>6, <2>2 DEF Used
      <3> QED BY <1>1, <1>7, <2>2, <3>1, HostsLink
    <2>4. s1.dest[h].link # NoSlot /\ s1.dest[h].link # l
      BY <1>4, <1>10, <2>1
    <2>5. Via(s1, h) # c
      BY <1>7, <2>1, <2>3, <2>4, LinkIsUp
    <2> QED BY <2>1, <2>2, <2>3, <2>4, <2>5 DEF MayKnow
  <1>11. Routed(t) /\ ToldTrue(t)
    <2>1. Routed(t)
      BY <1>7, <1>9, SameRoute DEF Routed
    <2>2. ASSUME NEW o \in Conns, NEW h \in t.told[o]
          PROVE  MayKnow(s1, o, h)
      <3>1. h \in s1.told[o] \/ (o = c /\ h \in resend)
        BY <1>8, <1>9, <2>2, StateParts
      <3> QED BY <1>7, <1>10, <3>1 DEF Routing, ToldTrue
    <2>3. ASSUME NEW o \in Conns, NEW h \in t.told[o]
          PROVE  MayKnow(t, o, h)
      <3>1. h \in Hosts
        BY <1>9, <2>3, StateParts
      <3> QED BY <1>7, <1>9, <2>2, <2>3, <3>1, SameRoute
    <2> QED BY <2>1, <2>3 DEF ToldTrue
  <1> QED BY <1>3, <1>7, <1>8, <1>9, <1>11, OnlyRoutesRouting, OnlyRoutesSound, StepTo

\* The hosts whose users were seen over c become those in X.
LEMMA SeenSound ==
    ASSUME NEW s, Sound(s), NEW c \in Conns, NEW X \in SUBSET Hosts, NEW t,
           t = [s EXCEPT !.seen[c] = X],
           \A o \in Conns \ {c} : X \cap s.seen[o] = {}
    PROVE  Sound(t)
  <1>0. s \in State /\ Routing(s)
    BY DEF Sound, Routing
  <1>1. /\ t \in State /\ t.conn = s.conn /\ t.perm = s.perm /\ t.dest = s.dest
        /\ t.told = s.told /\ t.seen = [s.seen EXCEPT ![c] = X]
    BY <1>0 DEF State
  <1>2. Used(t) = Used(s) /\ \A h : Via(t, h) = Via(s, h)
    BY <1>1 DEF Used, Via, ConnOf
  <1>3. NamesOnce(t) /\ OneOwner(t) /\ NoneFreed(t) /\ HostsListed(t)
    BY <1>0, <1>1, <1>2 DEF Routing, NamesOnce, OneOwner, NoneFreed, HostsListed, LinkedTo
  <1>4. Routed(t) /\ ToldTrue(t)
    BY <1>0, <1>1, <1>2 DEF Routing, Routed, Reached, ToldTrue, MayKnow
  <1>5. SeenOnce(t)
    <2>1. t.seen[c] = X /\ \A o \in Conns \ {c} : t.seen[o] = s.seen[o]
      BY <1>0, <1>1, StateParts
    <2> QED BY <1>0, <2>1 DEF Routing, SeenOnce
  <1>6. SamePointers(s, t) /\ \A p \in Used(s) : IsUp(t, p) => IsUp(s, p)
    BY <1>1, <1>2 DEF SamePointers, IsUp, IsHost
  <1> QED BY <1>1, <1>3, <1>4, <1>5, <1>6, FewerUp DEF Sound, Routing

LEMMA CheckhostStep ==
    ASSUME Sound(S), NEW c \in Conns, NEW h \in Hosts, NEW learn \in BOOLEAN,
           checkhost(c, h, learn)
    PROVE  Sound(S')
  <1> DEFINE pl == find_permlink(S, S.conn[c].name)
             loop == \/ pl # NoSlot /\ S.perm[pl].connection = c /\ Via(S, h) \notin {Null, c}
                     \/ SeenElsewhere(c, h)
             s1 == IF pl # NoSlot /\ (S.dest[h].link = NoSlot \/ S.dest[h].rtt = 0) /\ learn
                   THEN update_destinations(S, pl, h, 1, TRUE) ELSE S
             t == [s1 EXCEPT !.seen[c] = @ \cup {h}]
  <1>1. S.conn[c].type = "host" /\ Routing(S) /\ S \in State
    BY PartsOfS DEF checkhost, Sound, Routing
  <1>2. pl = LinkOf(S, c) /\ pl \in Used(S) /\ IsHost(S, S.perm[pl].connection)
    BY <1>1, HostsLink, LinkIsUp
  <1>3. CASE loop
    <2>1. Become(loop_handler(S, c, pl))
      BY <1>3, PartsOfS DEF checkhost
    <2> HIDE DEF pl
    <2> QED BY <1>1, <1>2, <2>1, LoopStep
  <1>4. CASE ~ loop
    <2>1. Become(t)
      BY <1>4, PartsOfS DEF checkhost
    <2>2. Sound(s1) /\ OnlyRoutes(S, s1)
      <3>1. CASE s1 = S
        BY <3>1 DEF OnlyRoutes
      <3>2. CASE /\ s1 = update_destinations(S, pl, h, 1, TRUE)
                 /\ S.dest[h].link = NoSlot \/ S.dest[h].rtt = 0
        <4>1. PICK auto \in BOOLEAN : auto = TRUE
          OBVIOUS
        <4>2. PICK rtt \in 0..MaxRtt : rtt = 1
          BY LinkBounds
        <4>3. PICK u : u = s1
          OBVIOUS
        <4>4. u = update_destinations(S, pl, h, rtt, auto)
          BY <3>2, <4>1, <4>2, <4>3
        <4>5. S.dest[h].link \in {NoSlot, pl}
          BY <1>1, <3>2 DEF Routing, Routed, Unreached, Reached
        <4> HIDE DEF s1, pl
        <4>6. Routing(u) /\ OnlyRoutes(S, u)
          BY <1>1, <1>2, <4>4, <4>5, UpdateRoutes
        <4> QED BY <4>3, <4>6, OnlyRoutesSound
      <3> QED BY <3>1, <3>2
    <2> HIDE DEF s1
    <2> DEFINE X == s1.seen[c] \cup {h}
    <2>3. s1.seen = S.seen /\ s1 \in State
      BY <2>2 DEF OnlyRoutes, Sound, Routing
    <2>4. X \in SUBSET Hosts
      BY <2>3, StateParts
    <2>5. \A o \in Conns \ {c} : X \cap s1.seen[o] = {}
      BY <1>1, <1>4, <2>3, PartsOfS DEF SeenElsewhere, Routing, SeenOnce
    <2>6. t = [s1 EXCEPT !.seen[c] = X]
      OBVIOUS
    <2> HIDE DEF X, t
    <2>7. Sound(t)
      BY <2>2, <2>4, <2>5, <2>6, SeenSound
    <2> QED BY <2>1, <2>7, StepTo
  <1> QED BY <1>3, <1>4

LEMMA SquitStep ==
    ASSUME Sound(S), NEW c \in Conns, NEW h \in Hosts, h_squit_command(c, h)
    PROVE  Sound(S')
  <1>1. S.conn[c].type = "host" /\ Routing(S) /\ S \in State
    BY PartsOfS DEF h_squit_command, Sound, Routing
  <1>2. CASE h = S.conn[c].name
    <2>1. Become(bye_command2(S, c))
      BY <1>2, PartsOfS DEF h_squit_command
    <2> QED BY <1>1, <2>1, ByeStep
  <1>3. CASE h # S.conn[c].name
    <2> DEFINE X == S.seen[c] \ {h}
               t == [S EXCEPT !.seen[c] = X]
    <2>1. Become(t)
      BY <1>3, PartsOfS DEF h_squit_command
    <2>2. X \in SUBSET Hosts
      BY <1>1, StateParts
    <2>3. \A o \in Conns \ {c} : X \cap S.seen[o] = {}
      BY <1>1 DEF Routing, SeenOnce
    <2> HIDE DEF X
    <2>4. Sound(t)
      BY <2>2, <2>3, SeenSound
    <2> QED BY <2>1, <2>4, StepTo
  <1> QED BY <1>2, <1>3

LEMMA BreakStep ==
    ASSUME Sound(S), NEW c \in Conns, SquitForUs(c) \/ LinkBreaks(c)
    PROVE  Sound(S')
  <1>1. S.conn[c].type \in {"unknown", "host"} /\ Become(bye_command2(S, c))
    BY PartsOfS DEF SquitForUs, LinkBreaks
  <1> QED BY <1>1, ByeStep

\* The link a destination is reached by is up.
LEMMA RouteIsUp ==
    ASSUME NEW s, Routing(s), NEW h \in Hosts, s.dest[h].link # NoSlot
    PROVE  s.dest[h].link \in Used(s) /\ IsHost(s, s.perm[s.dest[h].link].connection)
  <1>1. Reached(s, h)
    BY DEF Routing, Routed, Unreached
  <1>2. Via(s, h) = s.perm[s.dest[h].link].connection
    BY DEF Via, ConnOf
  <1> QED BY <1>1, <1>2, NullIsFresh DEF Reached, IsHost

LEMMA LearnStep ==
    ASSUME Sound(S), NEW via \in Hosts, NEW h \in Hosts,
           learn_destination_relation_from_route(via, h)
    PROVE  Sound(S')
  <1>1. PICK auto \in BOOLEAN : auto = TRUE
    OBVIOUS
  <1>2. PICK rtt \in 0..MaxRtt : rtt = 1
    BY LinkBounds
  <1>3. PICK p : p = S.dest[via].link
    OBVIOUS
  <1>4. /\ Become(update_destinations(S, p, h, rtt, auto))
        /\ p # NoSlot /\ S.dest[h].link = NoSlot
    BY <1>1, <1>2, <1>3, PartsOfS DEF learn_destination_relation_from_route
  <1>5. p \in Used(S) /\ IsHost(S, S.perm[p].connection)
    BY <1>3, <1>4, RouteIsUp DEF Sound
  <1> QED BY <1>4, <1>5, UpdateStep

LEMMA ExpireDestsStep ==
    ASSUME Sound(S), NEW h \in Hosts, expire_dests(h)
    PROVE  Sound(S')
  <1>1. PICK auto \in BOOLEAN : auto = FALSE
    OBVIOUS
  <1>2. PICK rtt \in 0..MaxRtt : rtt = 0
    BY LinkBounds
  <1>3. PICK p : p = S.dest[h].link
    OBVIOUS
  <1>4. Become(update_destinations(S, p, h, rtt, auto)) /\ p # NoSlot
    BY <1>1, <1>2, <1>3, PartsOfS DEF expire_dests
  <1>5. p \in Used(S) /\ IsHost(S, S.perm[p].connection)
    BY <1>3, <1>4, RouteIsUp DEF Sound
  <1> QED BY <1>3, <1>4, <1>5, UpdateStep

\* Entry p gets other flags.
LEMMA OneReflagged ==
    ASSUME NEW s \in State, NEW p \in Used(s), NEW e \in Permlink, SameLink(s.perm[p], e),
           NEW t, t = [s EXCEPT !.perm[p] = e]
    PROVE  Reflagged(s, t)
  <1>1. p \in Slots
    BY EntryParts
  <1>2. /\ t \in State /\ t.conn = s.conn /\ t.dest = s.dest /\ t.seen = s.seen
        /\ t.told = s.told /\ t.perm = [s.perm EXCEPT ![p] = e]
    BY <1>1 DEF State
  <1>3. ASSUME NEW q \in Slots PROVE SameLink(s.perm[q], t.perm[q])
    <2>1. CASE q = p
      BY <1>2, <2>1, StateParts
    <2>2. CASE q # p
      BY <1>2, <2>2, StateParts DEF SameLink
    <2> QED BY <2>1, <2>2
  <1> QED BY <1>2, <1>3 DEF Reflagged

LEMMA FlagStep ==
    ASSUME Sound(S), NEW p \in Used(S), NEW e \in Permlink, SameLink(S.perm[p], e),
           Become([S EXCEPT !.perm[p] = e])
    PROVE  Sound(S')
  <1>1. PICK t : t = [S EXCEPT !.perm[p] = e]
    OBVIOUS
  <1>2. Reflagged(S, t)
    BY <1>1, OneReflagged DEF Sound, Routing
  <1> QED BY <1>1, <1>2, ReflaggedSound, StepTo

LEMMA PongOverdueStep ==
    ASSUME Sound(S), NEW p \in Slots, PongOverdue(p)
    PROVE  Sound(S')
  <1> DEFINE k == KillRoutes(S, p)
             e == [k.perm[p] EXCEPT !.txtime = FALSE]
             t == [k EXCEPT !.perm[p] = e]
  <1>1. Become(t) /\ p \in Used(S)
    BY DEF PongOverdue
  <1>2. Sound(k) /\ OnlyRoutes(S, k)
    BY KillKeepsRoutes, OnlyRoutesSound DEF Sound
  <1> HIDE DEF k
  <1>3. p \in Used(k) /\ k \in State
    BY <1>1, <1>2, OnlyRoutesLinks DEF Sound, Routing
  <1>4. k.perm[p] \in Permlink /\ k.perm[p] # Null
    BY <1>3, EntryParts
  <1>5. e \in Permlink
    BY <1>4 DEF Permlink
  <1>6. SameLink(k.perm[p], e)
    BY <1>4, <1>5, NullIsFresh DEF SameLink, Permlink
  <1> HIDE DEF e
  <1>7. Reflagged(k, t)
    BY <1>3, <1>5, <1>6, OneReflagged
  <1> QED BY <1>1, <1>2, <1>7, ReflaggedSound, StepTo

LEMMA FlagTimersStep ==
    ASSUME Sound(S), NEW p \in Slots, LockExpires(p) \/ RetryTimePasses(p) \/ DialFails(p)
    PROVE  Sound(S')
  <1>1. PICK e : /\ \/ e = [S.perm[p] EXCEPT !.locked = FALSE]
                    \/ e = [S.perm[p] EXCEPT !.wait = FALSE]
                    \/ e = [S.perm[p] EXCEPT !.wait = TRUE]
                 /\ Become([S EXCEPT !.perm[p] = e])
                 /\ p \in Used(S)
    <2>1. CASE LockExpires(p)
      BY <2>1 DEF LockExpires
    <2>2. CASE RetryTimePasses(p)
      BY <2>2 DEF RetryTimePasses
    <2>3. CASE DialFails(p)
      BY <2>3 DEF DialFails, MayDial
    <2> QED BY <2>1, <2>2, <2>3
  <1>2. S.perm[p] \in Permlink /\ S.perm[p] # Null
    BY <1>1, EntryParts DEF Sound, Routing
  <1>3. e \in Permlink
    BY <1>1, <1>2 DEF Permlink
  <1>4. SameLink(S.perm[p], e)
    BY <1>1, <1>2, <1>3, NullIsFresh DEF SameLink, Permlink
  <1> QED BY <1>1, <1>3, <1>4, FlagStep

\* What lies above a link that lies above another.
LEMMA AboveAbove ==
    ASSUME NEW s \in State, NEW p, NEW q \in Primaries(s, p)
    PROVE  Primaries(s, q) \subseteq Primaries(s, p)
  <1> DEFINE C == Primaries(s, p)
  <1>1. C \in SUBSET Slots
    BY ChainsAreSlots
  <1>2. \A r \in Used(s) : r = q \/ r \in C =>
           s.perm[r].primary = NoSlot \/ s.perm[r].primary \in C
    BY PrimariesGoOn
  <1> HIDE DEF C
  <1>3. Primaries(s, q) \subseteq C
    BY <1>1, <1>2, PrimariesStayIn
  <1> QED BY <1>3 DEF C

\* Pointers of t shorten the chains of s.
Shortened(s, t) ==
    \A q \in Used(t) : t.perm[q].primary = NoSlot \/ t.perm[q].primary \in Primaries(s, q)

LEMMA ShortenedChains ==
    ASSUME NEW s \in State, NEW t, Shortened(s, t), NEW p
    PROVE  Primaries(t, p) \subseteq Primaries(s, p)
  <1> DEFINE C == Primaries(s, p)
  <1>1. C \in SUBSET Slots
    BY ChainsAreSlots
  <1>2. \A q \in Used(t) : q = p \/ q \in C =>
           t.perm[q].primary = NoSlot \/ t.perm[q].primary \in C
    BY AboveAbove DEF Shortened
  <1> HIDE DEF C
  <1>3. Primaries(t, p) \subseteq C
    BY <1>1, <1>2, PrimariesStayIn
  <1> QED BY <1>3 DEF C

LEMMA ShortenedSound ==
    ASSUME NEW s, NEW t, Sound(s), Routing(t), Used(t) \subseteq Used(s), Shortened(s, t),
           LinkedBack(t), ChainsArePermanent(t), \A p \in Used(t) : IsUp(t, p) => IsUp(s, p)
    PROVE  Sound(t)
  <1>1. s \in State
    BY DEF Sound, Routing
  <1>2. \A p \in Used(t) : Primaries(t, p) \subseteq Primaries(s, p)
    BY <1>1, ShortenedChains
  <1>3. Acyclic(t)
    BY <1>1, <1>2 DEF Sound, Chained, Acyclic
  <1>4. Exclusive(t)
    BY <1>1, <1>2 DEF Sound, Chained, Exclusive
  <1> QED BY <1>3, <1>4 DEF Sound, Chained

\* A learned link is in no chain, so nothing points to it when it goes.
LEMMA EntryExpiresStep ==
    ASSUME Sound(S), NEW p \in Slots, EntryExpires(p)
    PROVE  Sound(S')
  <1> DEFINE t == [S EXCEPT !.perm[p] = Null]
  <1>1. /\ Become(t) /\ S \in State /\ p \in Used(S)
        /\ S.perm[p].connection = Null /\ ~ S.perm[p].permanent
    BY PartsOfS DEF EntryExpires, Sound, Routing
  <1>2. /\ t \in State /\ t.conn = S.conn /\ t.dest = S.dest /\ t.seen = S.seen
        /\ t.told = S.told /\ t.perm = [S.perm EXCEPT ![p] = Null]
    BY <1>1 DEF State
  <1> HIDE DEF t
  <1>3. Used(t) = Used(S) \ {p} /\ \A q \in Used(t) : t.perm[q] = S.perm[q]
    BY <1>1, <1>2, StateParts DEF Used
  <1>4. SameHosts(S, t)
    BY <1>1, <1>2, <1>3 DEF SameHosts, IsUp, IsHost
  <1>5. NamesOnce(t) /\ OneOwner(t) /\ NoneFreed(t)
    BY <1>2, <1>3 DEF Sound, Routing, NamesOnce, OneOwner, NoneFreed
  <1>6. S.perm[p].primary = NoSlot /\ S.perm[p].backup = NoSlot
    BY <1>1 DEF Sound, Chained, ChainsArePermanent
  <1>7. \A q \in Used(S) : q # NoSlot
    BY <1>1, EntryParts
  <1>8. LinkedBack(t)
    BY <1>1, <1>3, <1>6, <1>7 DEF Sound, Chained, LinkedBack
  <1>9. ChainsArePermanent(t)
    BY <1>3 DEF Sound, Chained, ChainsArePermanent
  <1>10. Shortened(S, t)
    BY <1>1, <1>3, PrimariesGoOn DEF Shortened
  <1>11. \A q \in Used(t) : IsUp(t, q) => IsUp(S, q)
    BY <1>2, <1>3 DEF IsUp, IsHost
  <1> QED BY <1>1, <1>3, <1>4, <1>5, <1>8, <1>9, <1>10, <1>11, SameHostsRouting,
             ShortenedSound, StepTo DEF Sound

LEMMA DialStep ==
    ASSUME Sound(S), NEW p \in Slots, NEW c \in Conns, Dial(p, c)
    PROVE  Sound(S')
  <1> DEFINE a == [S.conn[c] EXCEPT !.type = "unknown"]
             e == [S.perm[p] EXCEPT !.connection = c, !.wait = TRUE]
             t == [S EXCEPT !.conn[c] = a, !.perm[p] = e]
  <1>1. /\ S \in State /\ p \in Used(S) /\ S.perm[p].connection = Null
        /\ S.conn[c].type = "free"
    BY PartsOfS DEF Dial, MayDial, Sound, Routing
  <1>2. S.perm[p] \in Permlink /\ S.conn[c] \in Connection
    BY <1>1, EntryParts, StateParts
  <1>3. Become(t)
    <2>1. Become([S EXCEPT !.conn[c].type = "unknown", !.perm[p].connection = c,
                           !.perm[p].wait = TRUE])
      BY DEF Dial
    <2>2. t = [S EXCEPT !.conn[c].type = "unknown", !.perm[p].connection = c,
                        !.perm[p].wait = TRUE]
      BY <1>1, <1>2, StateParts DEF State
    <2> QED BY <2>1, <2>2
  <1>4. a \in Connection /\ a.type = "unknown"
    BY <1>2 DEF Connection
  <1>5. /\ e \in Permlink /\ e.connection = c /\ e.name = S.perm[p].name
        /\ e.primary = S.perm[p].primary /\ e.backup = S.perm[p].backup
        /\ e.permanent = S.perm[p].permanent
    BY <1>2 DEF Permlink
  <1> HIDE DEF a, e
  <1>6. /\ t \in State /\ t.conn = [S.conn EXCEPT ![c] = a] /\ t.dest = S.dest
        /\ t.seen = S.seen /\ t.told = S.told /\ t.perm = [S.perm EXCEPT ![p] = e]
    BY <1>1, <1>4, <1>5 DEF State
  <1> HIDE DEF t
  <1>7. /\ t.conn[c] = a /\ \A o \in Conns \ {c} : t.conn[o] = S.conn[o]
        /\ t.perm[p] = e /\ \A q \in Slots \ {p} : t.perm[q] = S.perm[q]
    BY <1>1, <1>6, StateParts
  <1>8. Used(t) = Used(S)
    BY <1>1, <1>5, <1>7, NullIsFresh DEF Used
  <1>9. \A q \in Used(S) : S.perm[q].connection # c
    BY <1>1, NullIsFresh DEF Sound, Routing, NoneFreed
  <1>10. \A q \in Used(S) : q \in Slots /\ (q # p => t.perm[q] = S.perm[q])
    BY <1>7 DEF Used
  <1>11. SameHosts(S, t)
    BY <1>1, <1>4, <1>6, <1>7, <1>8, <1>10 DEF SameHosts, IsUp, IsHost
  <1>12. NamesOnce(t)
    BY <1>5, <1>7, <1>8, <1>10 DEF Sound, Routing, NamesOnce
  <1>13. OneOwner(t)
    BY <1>5, <1>7, <1>8, <1>9, <1>10 DEF Sound, Routing, OneOwner
  <1>14. NoneFreed(t)
    BY <1>1, <1>4, <1>5, <1>7, <1>8, <1>9, <1>10, EntryParts DEF Sound, Routing, NoneFreed
  <1>15. SamePointers(S, t)
    BY <1>5, <1>7, <1>8, <1>10 DEF SamePointers
  <1>16. \A q \in Used(S) : IsUp(t, q) => IsUp(S, q)
    BY <1>1, <1>4, <1>5, <1>7, <1>9, <1>10, EntryParts DEF IsUp, IsHost
  <1> QED BY <1>3, <1>11, <1>12, <1>13, <1>14, <1>15, <1>16, SameHostsRouting, FewerUp,
             StepTo DEF Sound

\* Connections that are freed are not those of established hosts, and the links that
\* point to them are found, one for each.
LEMMA FreeStep ==
    ASSUME Sound(S), NEW late \in SUBSET Conns, free_closed_connections(late)
    PROVE  Sound(S')
  <1> DEFINE gone == late \cup {c \in Conns : S.conn[c].type = "closed"}
             owner == {LinkOf(S, c) : c \in gone}
             conn2 == [c \in Conns |-> IF c \in gone THEN Free ELSE S.conn[c]]
             Off(p) == [S.perm[p] EXCEPT !.connection = Null]
             perm2 == [p \in Slots |-> IF p \in owner THEN Off(p) ELSE S.perm[p]]
             t == [S EXCEPT !.conn = conn2, !.perm = perm2]
  <1>1. Become(t)
    BY PartsOfS DEF free_closed_connections
  <1>2. S \in State
    BY DEF Sound, Routing
  <1>3. \A c \in gone : c \in Conns /\ S.conn[c].type # "host"
    BY PartsOfS DEF free_closed_connections
  <1> HIDE DEF gone
  <1>4. ASSUME NEW p \in owner, p \in Slots
        PROVE  /\ p \in Used(S) /\ S.perm[p].connection \in gone
    <2>1. PICK c \in gone : p = LinkOf(S, c)
      OBVIOUS
    <2>2. p # NoSlot
      BY <1>4, SlotsAreNumbers
    <2> QED BY <1>2, <2>1, <2>2, FindsByConnection
  <1>5. ASSUME NEW p \in Used(S), S.perm[p].connection \in gone PROVE p \in owner
    <2> DEFINE c == S.perm[p].connection
    <2>1. c # Null
      BY <1>3, <1>5, NullIsFresh
    <2>2. LinkOf(S, c) \in Used(S) /\ S.perm[LinkOf(S, c)].connection = c
      BY <1>2, FindsByConnection
    <2>3. LinkOf(S, c) = p
      BY <2>1, <2>2 DEF Sound, Routing, OneOwner
    <2> QED BY <1>5, <2>3
  <1> HIDE DEF owner
  <1>6. ASSUME NEW p \in Used(S)
        PROVE  /\ Off(p) \in Permlink /\ Off(p) # Null /\ Off(p).connection = Null
               /\ Off(p).name = S.perm[p].name /\ Off(p).primary = S.perm[p].primary
               /\ Off(p).backup = S.perm[p].backup /\ Off(p).permanent = S.perm[p].permanent
    <2>1. S.perm[p] \in Permlink
      BY <1>2, EntryParts
    <2>2. Off(p) \in Permlink
      BY <2>1 DEF Permlink
    <2> QED BY <2>1, <2>2, NullIsFresh DEF Permlink
  <1> HIDE DEF Off
  <1>7. conn2 \in [Conns -> Connection]
    <2>1. Free \in Connection
      BY DEF Free, Connection
    <2> QED BY <1>2, <2>1, StateParts
  <1>8. perm2 \in [Slots -> Permlink \cup {Null}]
    BY <1>2, <1>4, <1>6, StateParts
  <1>9. /\ \A c \in Conns : conn2[c] = IF c \in gone THEN Free ELSE S.conn[c]
        /\ \A p \in Slots : perm2[p] = IF p \in owner THEN Off(p) ELSE S.perm[p]
    OBVIOUS
  <1> HIDE DEF conn2, perm2
  <1>10. /\ t \in State /\ t.conn = conn2 /\ t.dest = S.dest /\ t.seen = S.seen
         /\ t.told = S.told /\ t.perm = perm2
    BY <1>2, <1>7, <1>8 DEF State
  <1> HIDE DEF t
  <1>11. Used(t) = Used(S)
    BY <1>4, <1>6, <1>9, <1>10 DEF Used
  <1>12. ASSUME NEW p \in Used(S)
         PROVE  /\ t.perm[p].name = S.perm[p].name /\ t.perm[p].primary = S.perm[p].primary
                /\ t.perm[p].backup = S.perm[p].backup
                /\ t.perm[p].permanent = S.perm[p].permanent
                /\ t.perm[p].connection =
                     IF S.perm[p].connection \in gone THEN Null ELSE S.perm[p].connection
    <2>1. p \in Slots
      BY DEF Used
    <2> QED BY <1>4, <1>5, <1>6, <1>9, <1>10, <2>1
  <1>13. SameHosts(S, t)
    <2>1. \A c \in Conns : S.conn[c].type = "host" \/ t.conn[c].type = "host" =>
             t.conn[c] = S.conn[c]
      BY <1>3, <1>9, <1>10 DEF Free
    <2>2. \A p \in Used(S) : IsUp(S, p) => S.perm[p].connection \notin gone
      BY <1>3 DEF IsUp, IsHost
    <2> QED BY <1>10, <1>11, <1>12, <2>1, <2>2 DEF SameHosts
  <1>14. NamesOnce(t) /\ OneOwner(t)
    BY <1>11, <1>12 DEF Sound, Routing, NamesOnce, OneOwner
  <1>15. NoneFreed(t)
    <2> SUFFICES ASSUME NEW p \in Used(S), t.perm[p].connection # Null
                 PROVE  t.conn[t.perm[p].connection].type # "free"
      BY <1>11 DEF NoneFreed
    <2>1. /\ S.perm[p].connection \notin gone /\ t.perm[p].connection = S.perm[p].connection
          /\ S.perm[p].connection \in Conns
      BY <1>2, <1>12, EntryParts
    <2> QED BY <1>9, <1>10, <2>1 DEF Sound, Routing, NoneFreed
  <1>16. SamePointers(S, t)
    BY <1>11, <1>12 DEF SamePointers
  <1>17. ASSUME NEW p \in Used(S), IsUp(t, p) PROVE IsUp(S, p)
    <2>1. t.perm[p].connection # Null
      BY <1>17 DEF IsUp, IsHost
    <2>2. /\ S.perm[p].connection \notin gone /\ t.perm[p].connection = S.perm[p].connection
          /\ S.perm[p].connection \in Conns
      BY <1>2, <1>12, <2>1, EntryParts
    <2> QED BY <1>9, <1>10, <1>17, <2>2 DEF IsUp, IsHost
  <1> QED BY <1>1, <1>13, <1>14, <1>15, <1>16, <1>17, SameHostsRouting, FewerUp, StepTo
          DEF Sound

-----------------------------------------------------------------------------
(***************************************************************************)
(* A host introduces itself.  First the walk over permarray.               *)
(***************************************************************************)

\* Induction over the slots.
LEMMA SlotInduction ==
    ASSUME NEW T, T \subseteq 0..NrPermlinks, 0 \in T,
           \A n \in Slots : n - 1 \in T => n \in T
    PROVE  \A n \in 0..NrPermlinks : n \in T
  <1> SUFFICES ASSUME NEW k \in 0..NrPermlinks, k \notin T
               PROVE  FALSE
    OBVIOUS
  <1> DEFINE R == (0..NrPermlinks) \ T
  <1>1. R \subseteq Nat /\ R # {}
    BY LinkBounds
  <1>2. Min(R) \in R /\ \A y \in R : Min(R) =< y
    <2> HIDE DEF R
    <2> QED BY <1>1, LowestOf
  <1> DEFINE m == Min(R)
  <1>3. m \in 0..NrPermlinks /\ m \notin T /\ m # 0
    BY <1>2
  <1> HIDE DEF m
  <1>4. m \in Slots /\ m - 1 \in 0..NrPermlinks /\ m - 1 < m
    BY <1>3, LinkBounds DEF Slots
  <1>5. m - 1 \in T
    BY <1>1, <1>2, <1>4 DEF m
  <1> QED BY <1>3, <1>4, <1>5

\* The first n entries of the walk.
WalkTo(f, n, first, c, name) ==
    f = [k \in 0..n |-> IF k = 0 THEN first ELSE WalkStep(f[k-1], k, c, name)]

LEMMA WalkExists ==
    ASSUME NEW first, NEW c, NEW name
    PROVE  \E f : WalkTo(f, NrPermlinks, first, c, name)
  <1> DEFINE T == {n \in 0..NrPermlinks : \E f : WalkTo(f, n, first, c, name)}
  <1>1. 0 \in T
    <2> DEFINE f == [k \in 0..0 |-> first]
    <2>1. f = [k \in 0..0 |-> IF k = 0 THEN first ELSE WalkStep(f[k-1], k, c, name)]
      OBVIOUS
    <2>2. WalkTo(f, 0, first, c, name)
      BY <2>1 DEF WalkTo
    <2> QED BY <2>2, LinkBounds
  <1>2. ASSUME NEW n \in Slots, n - 1 \in T PROVE n \in T
    <2>1. PICK g : WalkTo(g, n - 1, first, c, name)
      BY <1>2
    <2>2. n \in Nat /\ n # 0 /\ n \in 0..NrPermlinks
      BY LinkBounds DEF Slots
    <2> DEFINE last == WalkStep(g[n-1], n, c, name)
               f == [k \in 0..n |-> IF k = n THEN last ELSE g[k]]
    <2>3. \A k \in 0..(n-1) :
             g[k] = IF k = 0 THEN first ELSE WalkStep(g[k-1], k, c, name)
      BY <2>1, Zenon DEF WalkTo
    <2>4. ASSUME NEW k \in 0..n
          PROVE  f[k] = IF k = 0 THEN first ELSE WalkStep(f[k-1], k, c, name)
      <3>1. CASE k = n
        <4>1. f[k-1] = g[n-1]
          BY <2>2, <3>1
        <4> QED BY <2>2, <3>1, <4>1
      <3>2. CASE k # n /\ k # 0
        <4>1. k \in 0..(n-1) /\ k - 1 \in 0..n /\ k - 1 # n
          BY <2>2, <3>2
        <4>2. f[k] = g[k] /\ f[k-1] = g[k-1]
          BY <3>2, <4>1
        <4> QED BY <2>3, <3>2, <4>1, <4>2
      <3>3. CASE k # n /\ k = 0
        BY <2>2, <2>3, <3>3
      <3> QED BY <3>1, <3>2, <3>3
    <2>5. f = [k \in 0..n |-> f[k]]
      OBVIOUS
    <2> HIDE DEF f
    <2>6. WalkTo(f, n, first, c, name)
      BY <2>4, <2>5 DEF WalkTo
    <2> QED BY <2>2, <2>6
  <1>3. \A n \in 0..NrPermlinks : n \in T
    <2> HIDE DEF T
    <2>1. T \subseteq 0..NrPermlinks
      BY DEF T
    <2> QED BY <1>1, <1>2, <2>1, SlotInduction
  <1>4. NrPermlinks \in 0..NrPermlinks
    BY LinkBounds
  <1> QED BY <1>3, <1>4

\* Where the walk starts.
Named(s, c, name) == [s EXCEPT !.conn[c].name = name]
WalkFrom(s, c, name) == [st |-> Named(s, c, name), me |-> NoSlot]

LEMMA WalkUnfolds ==
    ASSUME NEW s, NEW c, NEW name, NEW first, first = WalkFrom(s, c, name)
    PROVE  \E f : /\ HostReplacesOld(s, c, name) = f[NrPermlinks]
                  /\ f[0] = first
                  /\ \A n \in Slots : f[n] = WalkStep(f[n-1], n, c, name)
  <1> DEFINE f == CHOOSE f : WalkTo(f, NrPermlinks, first, c, name)
  <1>1. HostReplacesOld(s, c, name) = f[NrPermlinks]
    BY DEF HostReplacesOld, WalkTo, WalkFrom, Named
  <1>2. WalkTo(f, NrPermlinks, first, c, name)
    <2>1. \E g : WalkTo(g, NrPermlinks, first, c, name)
      BY WalkExists
    <2> QED BY <2>1, Zenon
  <1> HIDE DEF f
  <1>3. \A k \in 0..NrPermlinks :
           f[k] = IF k = 0 THEN first ELSE WalkStep(f[k-1], k, c, name)
    BY <1>2, Zenon DEF WalkTo
  <1>4. f[0] = first
    BY <1>3, LinkBounds
  <1>5. ASSUME NEW n \in Slots PROVE f[n] = WalkStep(f[n-1], n, c, name)
    <2>1. n \in 0..NrPermlinks /\ n # 0
      BY LinkBounds DEF Slots
    <2> QED BY <1>3, <2>1
  <1> QED BY <1>1, <1>4, <1>5

\* What the walk does at an entry: most are passed over.
LEMMA WalkPasses ==
    ASSUME NEW w, NEW n, NEW c, NEW name,
           w.st.perm[n] = Null \/ (w.st.perm[n].connection # c /\ w.st.perm[n].name # name)
    PROVE  WalkStep(w, n, c, name) = w
  BY DEF WalkStep

LEMMA WalkRenames ==
    ASSUME NEW t, NEW w, w = [st |-> t, me |-> NoSlot], NEW n, NEW c, NEW name,
           t.perm[n] # Null, t.perm[n].connection = c, [t EXCEPT !.perm[n].name = name] = t
    PROVE  WalkStep(w, n, c, name) = [st |-> t, me |-> n]
  <1>1. w.st = t
    OBVIOUS
  <1> QED BY <1>1 DEF WalkStep

LEMMA WalkReplaces ==
    ASSUME NEW t, NEW w, w = [st |-> t, me |-> NoSlot], NEW n, NEW c, NEW name,
           t.perm[n] # Null, t.perm[n].name = name,
           t.perm[n].connection # c, IsHost(t, t.perm[n].connection)
    PROVE  WalkStep(w, n, c, name) =
             [st |-> bye_command2(t, t.perm[n].connection), me |-> NoSlot]
  <1>1. WalkStep(w, n, c, name) = [w EXCEPT !.st = bye_command2(t, t.perm[n].connection)]
    BY DEF WalkStep
  <1> QED BY <1>1

LEMMA WalkFinds ==
    ASSUME NEW t, NEW w, w = [st |-> t, me |-> NoSlot], NEW n, NEW c, NEW name,
           t.perm[n] # Null, t.perm[n].name = name,
           t.perm[n].connection # c, ~ IsHost(t, t.perm[n].connection)
    PROVE  WalkStep(w, n, c, name) = [st |-> t, me |-> n]
  <1>1. WalkStep(w, n, c, name) = [w EXCEPT !.me = n]
    BY DEF WalkStep
  <1> QED BY <1>1

\* Only entry e (if it is one) makes the walk do something.
LEMMA WalkResult ==
    ASSUME NEW s, NEW c, NEW name, NEW first, NEW result, NEW e \in 0..NrPermlinks,
           first = WalkFrom(s, c, name),
           e = 0 => result = first,
           e # 0 => WalkStep(first, e, c, name) = result,
           \A n \in Slots : n < e => WalkStep(first, n, c, name) = first,
           \A n \in Slots : e < n => WalkStep(result, n, c, name) = result
    PROVE  HostReplacesOld(s, c, name) = result
  <1>1. PICK f : /\ HostReplacesOld(s, c, name) = f[NrPermlinks]
                 /\ f[0] = first
                 /\ \A n \in Slots : f[n] = WalkStep(f[n-1], n, c, name)
    BY WalkUnfolds
  <1> DEFINE T == {n \in 0..NrPermlinks : f[n] = IF n < e THEN first ELSE result}
  <1>2. 0 \in T
    BY <1>1, LinkBounds
  <1>3. ASSUME NEW n \in Slots, n - 1 \in T PROVE n \in T
    <2>1. n \in 1..NrPermlinks /\ n \in Nat /\ e \in Nat
      BY LinkBounds DEF Slots
    <2>2. f[n-1] = IF n - 1 < e THEN first ELSE result
      BY <1>3
    <2>3. f[n] = WalkStep(f[n-1], n, c, name)
      BY <1>1
    <2>4. CASE n < e
      BY <2>1, <2>2, <2>3, <2>4
    <2>5. CASE n = e
      BY <2>1, <2>2, <2>3, <2>5
    <2>6. CASE e < n
      BY <2>1, <2>2, <2>3, <2>6
    <2> QED BY <2>1, <2>4, <2>5, <2>6
  <1>4. NrPermlinks \in T
    <2> HIDE DEF T
    <2>1. T \subseteq 0..NrPermlinks
      BY DEF T
    <2>2. NrPermlinks \in 0..NrPermlinks
      BY LinkBounds
    <2> QED BY <1>2, <1>3, <2>1, <2>2, SlotInduction
  <1>5. ~ (NrPermlinks < e)
    BY LinkBounds
  <1> QED BY <1>1, <1>4, <1>5

\* A connection that has not introduced itself gets a name.
LEMMA NamedSound ==
    ASSUME NEW s, Sound(s), NEW c \in Conns, s.conn[c].type = "unknown", NEW name \in Hosts,
           NEW t, t = Named(s, c, name)
    PROVE  /\ Sound(t) /\ t.perm = s.perm /\ t.dest = s.dest /\ Used(t) = Used(s)
           /\ t.conn[c].type = "unknown" /\ t.conn[c].name = name
  <1> DEFINE a == [s.conn[c] EXCEPT !.name = name]
  <1>0. s \in State /\ t = [s EXCEPT !.conn[c] = a]
    BY DEF Sound, Routing, Named
  <1>1. a \in Connection /\ a.type = "unknown" /\ a.name = name
    BY <1>0, StateParts DEF Connection
  <1> HIDE DEF a
  <1>2. /\ t \in State /\ t.conn = [s.conn EXCEPT ![c] = a] /\ t.perm = s.perm
        /\ t.dest = s.dest /\ t.seen = s.seen /\ t.told = s.told
    BY <1>0, <1>1 DEF State
  <1>3. t.conn[c] = a /\ \A o \in Conns \ {c} : t.conn[o] = s.conn[o]
    BY <1>0, <1>2, StateParts
  <1>4. Used(t) = Used(s)
    BY <1>2 DEF Used
  <1>5. SameHosts(s, t)
    BY <1>1, <1>2, <1>3, <1>4 DEF SameHosts
  <1>6. NamesOnce(t) /\ OneOwner(t)
    BY <1>2, <1>4 DEF Sound, Routing, NamesOnce, OneOwner
  <1>7. NoneFreed(t)
    BY <1>0, <1>1, <1>2, <1>3, <1>4, EntryParts DEF Sound, Routing, NoneFreed
  <1>8. SamePointers(s, t)
    BY <1>2, <1>4 DEF SamePointers
  <1>9. \A p \in Used(s) : IsUp(t, p) => IsUp(s, p)
    BY <1>0, <1>1, <1>2, <1>3, EntryParts DEF IsUp, IsHost
  <1> QED BY <1>1, <1>2, <1>3, <1>4, <1>5, <1>6, <1>7, <1>8, <1>9, SameHostsRouting, FewerUp
          DEF Sound

\* No link of the chain of p is up but perhaps p.
ChainDown(s, p) ==
    \A q \in Used(s) : q \in Primaries(s, p) \/ p \in Primaries(s, q) => ~ IsUp(s, q)

\* What the walk leaves: the host that calls is not connected any more, and if its entry is
\* not at hand that is because its chain has just come down.
Introduced(t, c, name, me) ==
    /\ Sound(t)
    /\ t.conn[c].type = "unknown" /\ t.conn[c].name = name
    /\ me \in Used(t) \cup {NoSlot}
    /\ \A p \in Used(t) : t.perm[p].connection = c => t.perm[p].name = name
    /\ \A p \in Used(t) : t.perm[p].name = name =>
          ~ IsUp(t, p) /\ (me = p \/ (me = NoSlot /\ ChainDown(t, p)))
    /\ me # NoSlot => t.perm[me].name = name

LEMMA WalkIntroduces ==
    ASSUME NEW s, Sound(s), NEW c \in Conns, s.conn[c].type = "unknown", NEW name \in Hosts,
           \A p \in Used(s) : s.perm[p].connection = c => s.perm[p].name = name
    PROVE  \E t, me : /\ HostReplacesOld(s, c, name) = [st |-> t, me |-> me]
                      /\ Introduced(t, c, name, me)
  <1>1. PICK b : b = Named(s, c, name)
    OBVIOUS
  <1>2. PICK first : first = [st |-> b, me |-> NoSlot] /\ first = WalkFrom(s, c, name)
    BY <1>1 DEF WalkFrom
  <1>3. /\ Sound(b) /\ b.perm = s.perm /\ Used(b) = Used(s)
        /\ b.conn[c].type = "unknown" /\ b.conn[c].name = name
    BY <1>1, NamedSound
  <1>4. b \in State /\ first.st = b
    BY <1>2, <1>3 DEF Sound, Routing
  <1>5. \A p \in Used(b) : b.perm[p].connection = c => b.perm[p].name = name
    BY <1>3
  <1>6. PICK e : e = find_permlink(b, name)
    OBVIOUS
  <1>7. /\ e \in Used(b) \cup {NoSlot} /\ (e # NoSlot => b.perm[e].name = name)
        /\ e = NoSlot => \A p \in Used(b) : b.perm[p].name # name
    BY <1>4, <1>6, FindsByName
  <1>8. e \in 0..NrPermlinks
    BY <1>7, LinkBounds DEF Used, Slots, NoSlot
  <1>9. \A p \in Used(b) : p # e => b.perm[p].name # name /\ b.perm[p].connection # c
    BY <1>3, <1>5, <1>7 DEF Sound, Routing, NamesOnce
  <1>10. ASSUME NEW n \in Slots, n # e PROVE WalkStep(first, n, c, name) = first
    BY <1>4, <1>9, <1>10, WalkPasses DEF Used
  <1>11. CASE e = NoSlot
    <2>1. HostReplacesOld(s, c, name) = first
      <3>1. e = 0
        BY <1>11 DEF NoSlot
      <3>2. \A n \in Slots : n # e
        BY <1>11, SlotsAreNumbers
      <3> QED BY <1>1, <1>2, <1>8, <1>10, <3>1, <3>2, WalkResult
    <2>2. Introduced(b, c, name, NoSlot)
      BY <1>3, <1>5, <1>7, <1>11 DEF Introduced
    <2> QED BY <1>2, <2>1, <2>2
  <1>12. CASE e \in Used(b)
    <2>0. e \in Slots /\ e # NoSlot /\ e # 0 /\ b.perm[e] \in Permlink /\ b.perm[e] # Null
      BY <1>4, <1>12, EntryParts DEF NoSlot
    <2> DEFINE v == b.perm[e].connection
    <2>1. ASSUME NEW t, NEW me, NEW result, result = [st |-> t, me |-> me],
                 WalkStep(first, e, c, name) = result,
                 \A p \in Slots : /\ t.perm[p] = Null <=> b.perm[p] = Null
                                  /\ p \in Used(b) => /\ t.perm[p].name = b.perm[p].name
                                                      /\ t.perm[p].connection \in
                                                            {b.perm[p].connection, Null}
          PROVE  HostReplacesOld(s, c, name) = result
      <3>1. ASSUME NEW n \in Slots, n # e PROVE WalkStep(result, n, c, name) = result
        <4>1. result.st = t
          BY <2>1
        <4>2. t.perm[n] = Null \/ n \in Used(b)
          BY <2>1 DEF Used
        <4>3. t.perm[n] = Null \/ (t.perm[n].name # name /\ t.perm[n].connection # c)
          BY <1>9, <2>1, <3>1, <4>2, NullIsFresh
        <4> QED BY <4>1, <4>3, WalkPasses
      <3>2. \A n \in Slots : n < e \/ e < n => n # e
        BY <1>8, SlotsAreNumbers
      <3> QED BY <1>1, <1>2, <1>8, <1>10, <2>0, <2>1, <3>1, <3>2, WalkResult
    <2>2. CASE v = c \/ ~ IsHost(b, v)
      <3> DEFINE result == [st |-> b, me |-> e]
      <3>1. WalkStep(first, e, c, name) = result
        <4>1. CASE v = c
          <5>1. [b.perm[e] EXCEPT !.name = name] = b.perm[e]
            BY <1>7, <1>12, <2>0 DEF Permlink
          <5>2. [b EXCEPT !.perm[e].name = name] = b
            <6>1. [b.perm EXCEPT ![e] = b.perm[e]] = b.perm
              BY <1>4, <2>0, StateParts
            <6> QED BY <1>4, <5>1, <6>1 DEF State
          <5> QED BY <1>2, <2>0, <4>1, <5>2, WalkRenames
        <4>2. CASE v # c
          <5>1. b.perm[e].connection # c /\ ~ IsHost(b, b.perm[e].connection)
            BY <2>2, <4>2
          <5>2. b.perm[e] # Null /\ b.perm[e].name = name /\ first = [st |-> b, me |-> NoSlot]
            BY <1>2, <1>7, <2>0
          <5> QED BY <5>1, <5>2, WalkFinds
        <4> QED BY <4>1, <4>2
      <3>2. HostReplacesOld(s, c, name) = result
        BY <2>1, <3>1
      <3>3. ~ IsUp(b, e)
        BY <1>3, <2>2 DEF IsUp, IsHost
      <3>4. Introduced(b, c, name, e)
        BY <1>3, <1>5, <1>7, <1>9, <1>12, <3>3 DEF Introduced
      <3> QED BY <3>2, <3>4
    <2>3. CASE v # c /\ IsHost(b, v)
      <3>1. PICK t : t = bye_command2(b, v)
        OBVIOUS
      <3> DEFINE result == [st |-> t, me |-> NoSlot]
      <3>2. v \in Conns /\ b.conn[v].type = "host"
        BY <1>4, <1>12, <2>3, EntryParts DEF IsHost
      <3>3. Sound(t) /\ HungUp(b, t, v)
        BY <1>3, <3>1, <3>2, ByeSound
      <3>4. WalkStep(first, e, c, name) = result
        <4>1. b.perm[e] # Null /\ b.perm[e].name = name /\ first = [st |-> b, me |-> NoSlot]
          BY <1>2, <1>7, <2>0
        <4> QED BY <2>3, <3>1, <4>1, WalkReplaces
      <3>5. /\ Used(t) = Used(b)
            /\ \A p \in Used(b) : /\ t.perm[p].name = b.perm[p].name
                                  /\ t.perm[p].connection \in {b.perm[p].connection, Null}
        BY <3>3, HungUpLinks
      <3>6. HostReplacesOld(s, c, name) = result
        <4>1. \A p \in Slots : t.perm[p] = Null <=> b.perm[p] = Null
          BY <3>5 DEF Used
        <4> QED BY <2>1, <3>4, <3>5, <4>1
      <3>7. t.conn[v].type = "closed" /\ \A o \in Conns \ {v} : t.conn[o] = b.conn[o]
        BY <1>4, <3>2, <3>3, HungUpConns
      <3>8. ~ IsUp(t, e)
        BY <1>12, <3>5, <3>7 DEF IsUp, IsHost
      <3>9. SamePointers(b, t)
        BY <3>3, HungUpLinks DEF SamePointers
      <3>10. ASSUME NEW q \in Used(t), IsUp(t, q) PROVE IsUp(b, q)
        <4>1. t.perm[q].connection = b.perm[q].connection /\ t.perm[q].connection \in Conns
          BY <1>4, <3>5, <3>10, EntryParts DEF IsUp, IsHost
        <4> QED BY <3>7, <3>10, <4>1 DEF IsUp, IsHost
      <3>11. ChainDown(t, e)
        <4> SUFFICES ASSUME NEW q \in Used(t), q \in Primaries(t, e) \/ e \in Primaries(t, q),
                            IsUp(t, q)
                     PROVE  FALSE
          BY DEF ChainDown
        <4>1. q \in Used(b) /\ (q \in Primaries(b, e) \/ e \in Primaries(b, q))
          BY <3>5, <3>9, SameChains
        <4>2. IsUp(b, e) /\ IsUp(b, q)
          BY <2>3, <3>10 DEF IsUp
        <4> QED BY <1>3, <1>12, <4>1, <4>2 DEF Sound, Chained, Exclusive
      <3>12. t.conn[c].type = "unknown" /\ t.conn[c].name = name
        BY <1>3, <3>2, <3>7
      <3>13. ASSUME NEW p \in Used(t), t.perm[p].connection = c PROVE t.perm[p].name = name
        BY <1>5, <3>5, <3>13, NullIsFresh
      <3>14. Introduced(t, c, name, NoSlot)
        BY <1>9, <3>3, <3>5, <3>8, <3>11, <3>12, <3>13 DEF Introduced
      <3> QED BY <3>6, <3>14
    <2> QED BY <2>2, <2>3
  <1> QED BY <1>7, <1>11, <1>12

\* A link that is new, is not connected and belongs to no chain.
Unlisted(s, name) == \A q \in Used(s) : s.perm[q].name # name

Appended(s, t, p, e) ==
    /\ Sound(t) /\ t.conn = s.conn /\ t.dest = s.dest /\ t.seen = s.seen
    /\ t.told = s.told /\ Used(t) = Used(s) \cup {p} /\ t.perm[p] = e
    /\ \A q \in Used(s) : t.perm[q] = s.perm[q]
    /\ ChainDown(t, p)
    /\ Primaries(t, p) = {}
    /\ \A q \in Used(t) : p \notin Primaries(t, q)

LEMMA NewEntrySound ==
    ASSUME NEW s, Sound(s), NEW p \in Slots \ Used(s), NEW e \in Permlink,
           e.connection = Null, e.primary = NoSlot, e.backup = NoSlot, Unlisted(s, e.name),
           NEW t, t = [s EXCEPT !.perm[p] = e]
    PROVE  Appended(s, t, p, e)
  <1>0. s \in State
    BY DEF Sound, Routing
  <1>1. /\ t \in State /\ t.conn = s.conn /\ t.dest = s.dest /\ t.seen = s.seen
        /\ t.told = s.told /\ t.perm = [s.perm EXCEPT ![p] = e]
    BY <1>0 DEF State
  <1>2. /\ t.perm[p] = e /\ \A q \in Slots \ {p} : t.perm[q] = s.perm[q]
        /\ p \notin Used(s) /\ p # NoSlot
    BY <1>0, <1>1, StateParts, SlotsAreNumbers
  <1>3. Used(t) = Used(s) \cup {p} /\ \A q \in Used(s) : t.perm[q] = s.perm[q] /\ q # p
    BY <1>2, NullIsFresh DEF Used
  <1>4. SameHosts(s, t)
    BY <1>1, <1>3 DEF SameHosts
  <1>5. NamesOnce(t) /\ OneOwner(t) /\ NoneFreed(t)
    BY <1>1, <1>2, <1>3 DEF Sound, Routing, NamesOnce, OneOwner, NoneFreed, Unlisted
  <1>6. Routing(t)
    BY <1>4, <1>5, SameHostsRouting DEF Sound
  <1>7. LinkedBack(t)
    BY <1>2, <1>3 DEF Sound, Chained, LinkedBack
  <1>8. ChainsArePermanent(t)
    BY <1>2, <1>3 DEF Sound, Chained, ChainsArePermanent
  <1>9. Shortened(s, t)
    BY <1>0, <1>2, <1>3, PrimariesGoOn DEF Shortened
  <1>10. \A q : Primaries(t, q) \subseteq Primaries(s, q)
    BY <1>0, <1>9, ShortenedChains
  <1>11. ASSUME NEW q \in Used(t) PROVE p \notin Primaries(s, q)
    BY <1>0, <1>2, ChainsAreLinks DEF Sound, Chained
  <1>12. Primaries(t, p) = {}
    <2>1. PICK C \in SUBSET Slots : C = {}
      OBVIOUS
    <2>2. \A q \in Used(t) : q = p \/ q \in C =>
             t.perm[q].primary = NoSlot \/ t.perm[q].primary \in C
      BY <1>2, <2>1
    <2>3. Primaries(t, p) \subseteq C
      BY <2>2, PrimariesStayIn
    <2> QED BY <2>1, <2>3
  <1>13. ~ IsUp(t, p) /\ \A q \in Used(s) : IsUp(t, q) => IsUp(s, q)
    BY <1>1, <1>2, <1>3 DEF IsUp, IsHost
  <1>14. Acyclic(t)
    BY <1>3, <1>10, <1>12 DEF Sound, Chained, Acyclic
  <1>15. Exclusive(t)
    BY <1>3, <1>10, <1>13 DEF Sound, Chained, Exclusive
  <1>16. ChainDown(t, p)
    BY <1>10, <1>11, <1>12 DEF ChainDown
  <1> QED BY <1>1, <1>2, <1>3, <1>6, <1>7, <1>8, <1>10, <1>11, <1>12, <1>14, <1>15, <1>16
          DEF Sound, Chained, Appended

\* Host c comes up on link p, and hears of what is in B.
CameUp(s, t, c, p, e, B) ==
    /\ t \in State
    /\ t.conn = [s.conn EXCEPT ![c].type = "host"]
    /\ t.perm = [s.perm EXCEPT ![p] = e]
    /\ t.told = [s.told EXCEPT ![c] = B]
    /\ t.dest = s.dest /\ t.seen = s.seen

LEMMA CameUpSound ==
    ASSUME NEW s, Sound(s), NEW c \in Conns, s.conn[c].type = "unknown",
           NEW p \in Used(s), s.perm[p].name = s.conn[c].name, ~ IsUp(s, p), ChainDown(s, p),
           \A q \in Used(s) : s.perm[q].connection = c => q = p,
           NEW e \in Permlink, e.connection = c, e.name = s.perm[p].name,
           e.primary = s.perm[p].primary, e.backup = s.perm[p].backup,
           e.permanent = s.perm[p].permanent,
           NEW B \in SUBSET Hosts,
           \A h \in B : s.dest[h].link # NoSlot /\ h # s.conn[c].name,
           NEW t, CameUp(s, t, c, p, e, B)
    PROVE  Sound(t)
  <1> DEFINE a == [s.conn[c] EXCEPT !.type = "host"]
  <1>0. s \in State /\ p \in Slots /\ p # NoSlot /\ e # Null /\ c # Null
    BY EntryParts, NullIsFresh DEF Sound, Routing
  <1>1. /\ t \in State /\ t.conn = [s.conn EXCEPT ![c] = a] /\ t.perm = [s.perm EXCEPT ![p] = e]
        /\ t.told = [s.told EXCEPT ![c] = B] /\ t.dest = s.dest /\ t.seen = s.seen
    BY DEF CameUp
  <1>2. a.type = "host" /\ a.name = s.conn[c].name
    BY <1>0, StateParts DEF Connection
  <1> HIDE DEF a
  <1>3. /\ t.conn[c] = a /\ \A o \in Conns \ {c} : t.conn[o] = s.conn[o]
        /\ t.perm[p] = e /\ \A q \in Slots \ {p} : t.perm[q] = s.perm[q]
        /\ t.told[c] = B /\ \A o \in Conns \ {c} : t.told[o] = s.told[o]
    BY <1>0, <1>1, StateParts
  <1>4. Used(t) = Used(s) /\ \A q \in Used(s) : q \in Slots /\ (q # p => t.perm[q] = s.perm[q])
    BY <1>0, <1>3 DEF Used
  <1>5. NamesOnce(t)
    BY <1>3, <1>4 DEF Sound, Routing, NamesOnce
  <1>6. OneOwner(t)
    BY <1>3, <1>4 DEF Sound, Routing, OneOwner
  <1>7. NoneFreed(t)
    <2> SUFFICES ASSUME NEW q \in Used(s), t.perm[q].connection # Null
                 PROVE  t.conn[t.perm[q].connection].type # "free"
      BY <1>4 DEF NoneFreed
    <2>1. CASE t.perm[q].connection = c
      BY <1>2, <1>3, <2>1
    <2>2. CASE t.perm[q].connection # c
      <3>1. q # p /\ t.perm[q] = s.perm[q] /\ s.perm[q].connection \in Conns
        BY <1>0, <1>3, <1>4, <2>2, EntryParts
      <3> QED BY <1>3, <2>2, <3>1 DEF Sound, Routing, NoneFreed
    <2> QED BY <2>1, <2>2
  <1>8. ASSUME NEW q \in Used(s), q # p
        PROVE  /\ t.perm[q] = s.perm[q]
               /\ IsUp(t, q) <=> IsUp(s, q)
    <2>1. t.perm[q] = s.perm[q] /\ s.perm[q].connection # c
      BY <1>4, <1>8
    <2>2. s.perm[q].connection \in Conns \cup {Null}
      BY <1>0, EntryParts
    <2> QED BY <1>3, <2>1, <2>2 DEF IsUp, IsHost
  <1>9. HostsListed(t)
    <2> SUFFICES ASSUME NEW o \in Conns, t.conn[o].type = "host"
                 PROVE  \E q \in Used(t) : LinkedTo(t, q, o)
      BY DEF HostsListed
    <2>1. CASE o = c
      <3>1. LinkedTo(t, p, c)
        BY <1>2, <1>3, <1>4 DEF LinkedTo
      <3> QED BY <1>4, <2>1, <3>1
    <2>2. CASE o # c
      <3>1. t.conn[o] = s.conn[o]
        BY <1>3, <2>2
      <3>2. PICK q \in Used(s) : LinkedTo(s, q, o)
        BY <3>1 DEF Sound, Routing, HostsListed
      <3>3. q # p
        BY <3>1, <3>2, NullIsFresh DEF LinkedTo, IsUp, IsHost
      <3>4. LinkedTo(t, q, o)
        BY <1>4, <1>8, <3>1, <3>2, <3>3 DEF LinkedTo
      <3> QED BY <1>4, <3>4
    <2> QED BY <2>1, <2>2
  <1>10. ASSUME NEW h \in Hosts, Reached(s, h)
         PROVE  Reached(t, h) /\ Via(t, h) = Via(s, h) /\ Via(t, h) # c
    <2> DEFINE l == s.dest[h].link
    <2>1. l \in Used(s) /\ l # NoSlot
      BY <1>0, <1>10, EntryParts DEF Reached
    <2>2. Via(s, h) = s.perm[l].connection /\ Via(t, h) = t.perm[l].connection
      BY <1>1, <2>1 DEF Via, ConnOf
    <2>3. IsUp(s, l)
      BY <1>10, <2>2, NullIsFresh DEF IsUp, IsHost, Reached
    <2>4. l # p /\ t.perm[l] = s.perm[l]
      BY <1>8, <2>1, <2>3
    <2>5. Via(s, h) # c
      BY <1>10 DEF Reached
    <2> QED BY <1>1, <1>3, <1>4, <1>10, <2>1, <2>2, <2>4, <2>5 DEF Reached
  <1>11. Routed(t)
    BY <1>1, <1>10 DEF Sound, Routing, Routed
  <1>12. ToldTrue(t)
    <2> SUFFICES ASSUME NEW o \in Conns, NEW h \in t.told[o]
                 PROVE  MayKnow(t, o, h)
      BY DEF ToldTrue
    <2>1. h \in Hosts
      BY <1>1, StateParts
    <2>2. CASE o = c
      <3>1. s.dest[h].link # NoSlot /\ h # s.conn[c].name
        BY <1>3, <2>2
      <3>2. Reached(s, h)
        BY <2>1, <3>1 DEF Sound, Routing, Routed, Unreached
      <3> QED BY <1>1, <1>2, <1>3, <1>10, <2>1, <2>2, <3>1, <3>2 DEF MayKnow
    <2>3. CASE o # c
      <3>1. MayKnow(s, o, h) /\ t.conn[o] = s.conn[o]
        BY <1>3, <2>3 DEF Sound, Routing, ToldTrue
      <3>2. Reached(s, h)
        BY <2>1, <3>1 DEF Sound, Routing, Routed, Unreached, MayKnow
      <3> QED BY <1>1, <1>10, <2>1, <3>1, <3>2 DEF MayKnow
    <2> QED BY <2>2, <2>3
  <1>13. SeenOnce(t)
    BY <1>1 DEF Sound, Routing, SeenOnce
  <1>14. SamePointers(s, t)
    BY <1>3, <1>4 DEF SamePointers
  <1>15. LinkedBack(t) /\ ChainsArePermanent(t)
    BY <1>14 DEF Sound, Chained, SamePointers, LinkedBack, ChainsArePermanent
  <1>16. Acyclic(t)
    BY <1>4, <1>14, SameChains DEF Sound, Chained, Acyclic
  <1>17. Exclusive(t)
    <2> SUFFICES ASSUME NEW x \in Used(s), NEW y \in Primaries(s, x) \cap Used(s),
                        IsUp(t, x), IsUp(t, y)
                 PROVE  FALSE
      BY <1>4, <1>14, SameChains DEF Exclusive
    <2>1. x # y
      BY DEF Sound, Chained, Acyclic
    <2>2. CASE x = p
      BY <1>8, <2>1, <2>2 DEF ChainDown
    <2>3. CASE y = p
      BY <1>8, <2>1, <2>3 DEF ChainDown
    <2>4. CASE x # p /\ y # p
      BY <1>8, <2>4 DEF Sound, Chained, Exclusive
    <2> QED BY <2>2, <2>3, <2>4
  <1> QED BY <1>1, <1>5, <1>6, <1>7, <1>9, <1>11, <1>12, <1>13, <1>15, <1>16, <1>17
          DEF Sound, Routing, Chained

\* No established host has the name the caller gave.
LEMMA NoNamesake ==
    ASSUME NEW s, NEW c, NEW name, NEW me, Introduced(s, c, name, me),
           NEW o \in Conns, s.conn[o].type = "host"
    PROVE  s.conn[o].name # name
  <1>1. PICK q \in Used(s) : LinkedTo(s, q, o)
    BY DEF Introduced, Sound, Routing, HostsListed
  <1>2. IsUp(s, q) /\ s.perm[q].name = s.conn[o].name
    BY <1>1, NullIsFresh DEF LinkedTo, IsUp, IsHost
  <1> QED BY <1>2 DEF Introduced

\* The caller becomes a host, which no link shows yet.
Promoted(s, t, c) ==
    /\ t \in State
    /\ t.conn = [s.conn EXCEPT ![c].type = "host"]
    /\ t.perm = s.perm /\ t.dest = s.dest /\ t.seen = s.seen /\ t.told = s.told

LEMMA PromotedParts ==
    ASSUME NEW s \in State, NEW c \in Conns, NEW t, t = [s EXCEPT !.conn[c].type = "host"]
    PROVE  Promoted(s, t, c) /\ t.conn[c].type = "host" /\ t.conn[c].name = s.conn[c].name
  <1> DEFINE a == [s.conn[c] EXCEPT !.type = "host"]
             u == [s EXCEPT !.conn[c] = a]
  <1>0. t = u
    OBVIOUS
  <1>1. a \in Connection /\ a.type = "host" /\ a.name = s.conn[c].name
    BY StateParts DEF Connection
  <1>2. [s.conn EXCEPT ![c].type = "host"] = [s.conn EXCEPT ![c] = a]
    OBVIOUS
  <1> HIDE DEF a
  <1>3. /\ u \in State /\ u.conn = [s.conn EXCEPT ![c] = a]
        /\ u.perm = s.perm /\ u.dest = s.dest /\ u.seen = s.seen /\ u.told = s.told
    BY <1>1 DEF State
  <1> HIDE DEF u
  <1>4. u.conn[c] = a
    BY <1>3, StateParts
  <1>5. Promoted(s, u, c)
    BY <1>2, <1>3 DEF Promoted
  <1> QED BY <1>0, <1>1, <1>4, <1>5

\* The clean-up that comes with it finds nothing.
LEMMA PromotedClean ==
    ASSUME NEW s, NEW c \in Conns, NEW name, NEW me, Introduced(s, c, name, me),
           NEW t, Promoted(s, t, c)
    PROVE  /\ route_cleanup(t, c, name) = t
           /\ Used(t) = Used(s) /\ PermlinkFor(t, name) = PermlinkFor(s, name)
           /\ \A h : Via(t, h) = Via(s, h)
  <1>1. /\ Used(t) = Used(s) /\ PermlinkFor(t, name) = PermlinkFor(s, name)
        /\ \A h : Via(t, h) = Via(s, h)
    BY DEF Promoted, Used, PermlinkFor, find_permlink, Via, ConnOf
  <1>2. s \in State /\ s.conn[c].type = "unknown" /\ Routing(s)
    BY DEF Introduced, Sound, Routing
  <1>3. \A o \in Conns \ {c} : t.conn[o] = s.conn[o]
    BY <1>2, StateParts DEF Promoted
  <1>4. ASSUME NEW h \in Hosts, ~ Unreached(t.dest[h])
        PROVE  Reached(t, h) /\ Via(t, h) # c /\ t.conn[Via(t, h)].name # name
    <2>1. Reached(s, h)
      BY <1>2, <1>4 DEF Routing, Routed, Promoted
    <2>2. Via(s, h) \in Conns \ {c} /\ s.conn[Via(s, h)].type = "host"
      BY <1>2, <2>1 DEF Reached
    <2>3. s.conn[Via(s, h)].name # name
      BY <2>2, NoNamesake
    <2> QED BY <1>1, <1>3, <2>1, <2>2, <2>3 DEF Reached, Promoted
  <1>5. route_cleanup(t, c, name) = t
    BY <1>4, NothingToClean
  <1> QED BY <1>1, <1>5

\* No room for another link.
LEMMA FullHangsUp ==
    ASSUME NEW s, NEW c \in Conns, NEW name, NEW me, Introduced(s, c, name, me),
           NEW s1, Promoted(s, s1, c), s1.conn[c].type = "host", s1.conn[c].name = name,
           PermlinkFor(s1, name) = NoSlot
    PROVE  HungUp(s, bye_command2(s1, c), c)
  <1> DEFINE u == [s1 EXCEPT !.conn[c] = Closed, !.told[c] = {}]
             v == [u EXCEPT !.seen[c] = {}]
  <1>0. /\ s \in State /\ s1 \in State /\ Closed \in Connection /\ Routing(s)
        /\ s.conn[c].type = "unknown"
    BY DEF Introduced, Sound, Routing, Promoted, Closed, Connection
  <1>1. /\ u \in State /\ u.conn = [s1.conn EXCEPT ![c] = Closed] /\ u.perm = s1.perm
        /\ u.dest = s1.dest /\ u.seen = s1.seen /\ u.told = [s1.told EXCEPT ![c] = {}]
    BY <1>0 DEF State
  <1>2. bye_command2(s1, c)
          = route_cleanup([update_permlinks(u, name, Null, FALSE) EXCEPT !.seen[c] = {}], c, name)
    BY DEF bye_command2, Closed
  <1> HIDE DEF u
  <1>3. update_permlinks(u, name, Null, FALSE) = u
    <2>1. PermlinkFor(u, name) = NoSlot
      BY <1>1 DEF PermlinkFor, find_permlink, Used
    <2> QED BY <2>1 DEF update_permlinks
  <1>4. bye_command2(s1, c) = route_cleanup(v, c, name)
    BY <1>2, <1>3
  <1>5. /\ v \in State /\ v.conn = u.conn /\ v.perm = u.perm
        /\ v.dest = u.dest /\ v.seen = [u.seen EXCEPT ![c] = {}] /\ v.told = u.told
    BY <1>1 DEF State
  <1> HIDE DEF v
  <1>6. /\ v \in State /\ v.perm = s.perm /\ v.dest = s.dest
        /\ v.seen = [s.seen EXCEPT ![c] = {}] /\ v.told = [s.told EXCEPT ![c] = {}]
    BY <1>1, <1>5 DEF Promoted
  <1>7. v.conn = [s.conn EXCEPT ![c] = Closed]
    <2>1. v.conn = [s1.conn EXCEPT ![c] = Closed]
      BY <1>1, <1>5
    <2>2. s1.conn = [s.conn EXCEPT ![c].type = "host"]
      BY DEF Promoted
    <2> QED BY <1>0, <2>1, <2>2, StateParts
  <1>8. \A p \in Slots : Unhooked(s.perm[p], v.perm[p], c)
    BY <1>6 DEF Unhooked
  <1>9. ASSUME NEW h \in Hosts, ~ Unreached(v.dest[h]) PROVE Via(s, h) # c
    <2>1. Reached(s, h)
      BY <1>0, <1>6, <1>9 DEF Routing, Routed
    <2> QED BY <1>0, <2>1 DEF Reached
  <1>10. /\ v.told[c] = {} /\ \A o \in Conns : \A h \in v.told[o] : h \in s.told[o]
         /\ \A o \in Conns : v.seen[o] \subseteq s.seen[o]
    BY <1>0, <1>6, StateParts
  <1>11. HungUp(s, v, c)
    BY <1>6, <1>7, <1>8, <1>9, <1>10 DEF HungUp
  <1>12. Routing(v)
    BY <1>0, <1>11, HungUpRoutes
  <1>13. ASSUME NEW o \in Conns, v.conn[o].type = "host"
         PROVE  o # c /\ v.conn[o].name # name
    <2>1. o # c /\ v.conn[o] = s.conn[o]
      BY <1>0, <1>11, <1>13, HungUpConns
    <2> QED BY <1>13, <2>1, NoNamesake
  <1>14. route_cleanup(v, c, name) = v
    <2>1. \A h \in Hosts : \/ Unreached(v.dest[h])
                           \/ /\ Reached(v, h) /\ Via(v, h) # c
                              /\ v.conn[Via(v, h)].name # name
      BY <1>12, <1>13 DEF Routing, Routed, Reached
    <2> QED BY <2>1, NothingToClean
  <1> QED BY <1>4, <1>11, <1>14

\* The entry under which the caller is listed from now on.
Enlisted(a, name, c) == IF a = Null THEN NewLink(name, c, FALSE) ELSE Relisted(a, c)
Answering(a, name, c) == [Enlisted(a, name, c) EXCEPT !.txtime = TRUE, !.wait = FALSE]

LEMMA EnlistedParts ==
    ASSUME NEW a \in Permlink \cup {Null}, NEW name \in Hosts, NEW c \in Conns,
           a # Null => a.name = name, NEW e, e = Answering(a, name, c)
    PROVE  /\ e \in Permlink /\ e.connection = c /\ e.name = name
           /\ a = Null => e.primary = NoSlot /\ e.backup = NoSlot /\ e.permanent = FALSE
           /\ a # Null => /\ e.primary = a.primary /\ e.backup = a.backup
                          /\ e.permanent = a.permanent
  <1>0. c # Null
    BY NullIsFresh
  <1>1. CASE a = Null
    <2>1. Enlisted(a, name, c) = NewLink(name, c, FALSE)
      BY <1>1 DEF Enlisted
    <2>2. e = [NewLink(name, c, FALSE) EXCEPT !.txtime = TRUE, !.wait = FALSE]
      BY <2>1 DEF Answering
    <2>3. e = [name |-> name, connection |-> c, primary |-> NoSlot, backup |-> NoSlot,
               permanent |-> FALSE, locked |-> FALSE, wait |-> FALSE, txtime |-> TRUE]
      BY <2>2 DEF NewLink
    <2>4. e.permanent = FALSE
      <3>1. PICK no \in BOOLEAN : no = FALSE
        OBVIOUS
      <3>2. e = [name |-> name, connection |-> c, primary |-> NoSlot, backup |-> NoSlot,
                 permanent |-> no, locked |-> no, wait |-> no, txtime |-> TRUE]
        BY <2>3, <3>1
      <3>3. e.permanent = no
        BY <3>2
      <3> QED BY <3>1, <3>3
    <2>5. e \in Permlink /\ e.connection = c /\ e.name = name
      BY <2>3 DEF Permlink
    <2>6. e.primary = NoSlot /\ e.backup = NoSlot
      BY <2>3
    <2> QED BY <1>1, <2>4, <2>5, <2>6
  <1>2. CASE a # Null
    <2>1. a \in Permlink /\ Enlisted(a, name, c) = Relisted(a, c)
      BY <1>2 DEF Enlisted
    <2>2. Relisted(a, c) = [a EXCEPT !.connection = c, !.wait = a.permanent, !.txtime = FALSE]
      BY <1>0 DEF Relisted
    <2>3. e = [[a EXCEPT !.connection = c, !.wait = a.permanent, !.txtime = FALSE]
                 EXCEPT !.txtime = TRUE, !.wait = FALSE]
      BY <2>1, <2>2 DEF Answering
    <2> QED BY <1>2, <2>1, <2>3 DEF Permlink
  <1> QED BY <1>1, <1>2

\* The entry to use: the one of that name or, if there is none, a free one.
EntryFor(s, name, p) ==
    /\ p \in Slots
    /\ p \in Used(s) => s.perm[p].name = name
    /\ p \notin Used(s) => \A q \in Used(s) : s.perm[q].name # name
    /\ p \notin Used(s) <=> s.perm[p] = Null

LEMMA EntryToUse ==
    ASSUME NEW s \in State, NEW name, PermlinkFor(s, name) # NoSlot
    PROVE  EntryFor(s, name, PermlinkFor(s, name))
  <1> DEFINE T == Slots \ Used(s)
             p == PermlinkFor(s, name)
  <1>1. CASE find_permlink(s, name) # NoSlot
    <2>1. p \in Used(s) /\ s.perm[p].name = name
      BY <1>1, FindsByName DEF PermlinkFor
    <2> HIDE DEF p
    <2> QED BY <2>1, EntryParts DEF EntryFor, p
  <1>2. CASE find_permlink(s, name) = NoSlot
    <2>1. p = FirstOf(T)
      BY <1>2 DEF PermlinkFor
    <2>2. p \in T
      BY <2>1, FirstOfFinds
    <2>3. \A q \in Used(s) : s.perm[q].name # name
      BY <1>2, FindsByName
    <2> HIDE DEF p
    <2> QED BY <2>2, <2>3 DEF EntryFor, Used, p
  <1> QED BY <1>1, <1>2

\* The link table with the caller in it.
Listing(s, name, c) == update_permlinks(s, name, c, FALSE)

\* The host is told of B and its link is marked.
Burst(s, c, p, B) ==
    [s EXCEPT !.told[c] = B, !.perm[p] = [@ EXCEPT !.txtime = TRUE, !.wait = FALSE]]

\* The chains of the links of that name are down.
NameDown(s, name) == \A q \in Used(s) : s.perm[q].name = name => ChainDown(s, q)

AllRouted(s, B) == \A h \in B : s.dest[h].link # NoSlot

LEMMA EnlistedSound ==
    ASSUME NEW s, NEW c \in Conns, NEW name \in Hosts, NEW me, Introduced(s, c, name, me),
           Via(s, name) = Null,
           NameDown(s, name), NEW s1, Promoted(s, s1, c), s1.conn[c].type = "host",
           NEW p, p = PermlinkFor(s, name), p = PermlinkFor(s1, name), p # NoSlot,
           NEW s2, s2 = Listing(s1, name, c),
           NEW B \in SUBSET Hosts, AllRouted(s2, B),
           NEW t, t = Burst(s2, c, p, B)
    PROVE  /\ Sound(t) /\ p \in Used(t) /\ t.perm[p].name = name
           /\ IsHost(t, t.perm[p].connection) /\ t.dest[name].link = NoSlot
  <1>0. /\ s \in State /\ s1 \in State /\ Sound(s) /\ Routing(s) /\ NamesOnce(s) /\ c # Null
        /\ s.conn[c].type = "unknown" /\ s.conn[c].name = name
    BY NullIsFresh DEF Introduced, Sound, Routing, Promoted
  <1>1. /\ p \in Slots
        /\ p \in Used(s) => s.perm[p].name = name
        /\ p \notin Used(s) => \A q \in Used(s) : s.perm[q].name # name
        /\ p \notin Used(s) <=> s.perm[p] = Null
    <2>1. EntryFor(s, name, p)
      BY <1>0, EntryToUse
    <2> QED BY <2>1 DEF EntryFor
  <1>2. s.dest[name].link = NoSlot
    BY <1>0, NullIsFresh DEF Routing, Routed, Unreached, Reached
  <1> DEFINE a == s.perm[p]
             e == Answering(a, name, c)
             r == Enlisted(a, name, c)
  <1>3. s2 = [s1 EXCEPT !.perm[p] = r]
    <2>1. s1.perm = s.perm /\ s1.dest = s.dest
      BY DEF Promoted
    <2>2. CASE a = Null
      BY <2>1, <2>2 DEF update_permlinks, Enlisted, Listing
    <2>3. CASE a # Null
      <3>1. p \in Used(s) /\ ~ IsUp(s, p)
        BY <1>1, <2>3 DEF Introduced
      <3>2. ASSUME NEW h \in Hosts, s1.dest[h].rtt # 0, s1.dest[h].link = p PROVE FALSE
        <4>1. IsHost(s, s.perm[p].connection)
          BY <1>0, <2>1, <3>2, RouteIsUp
        <4> QED BY <3>1, <4>1 DEF IsUp
      <3>3. KillRoutes(s1, p) = s1
        BY <3>2, KillNothing DEF Killed
      <3>4. s2 = [s1 EXCEPT !.perm[p] = Relisted(@, c)]
        BY <1>0, <2>1, <2>3, <3>3 DEF update_permlinks, Listing
      <3> QED BY <2>1, <2>3, <3>4 DEF Enlisted
    <2> QED BY <2>2, <2>3
  <1>4. /\ e \in Permlink /\ e.connection = c /\ e.name = name
        /\ a = Null => e.primary = NoSlot /\ e.backup = NoSlot /\ e.permanent = FALSE
        /\ a # Null => /\ e.primary = a.primary /\ e.backup = a.backup
                       /\ e.permanent = a.permanent
    <2>1. a \in Permlink \cup {Null} /\ (a # Null => a.name = name)
      BY <1>0, <1>1, StateParts
    <2> HIDE DEF a
    <2> QED BY <2>1, EnlistedParts
  <1>5. e = [r EXCEPT !.txtime = TRUE, !.wait = FALSE]
    BY DEF Answering
  <1> HIDE DEF r, e
  <1>6. /\ t.conn = s1.conn /\ t.perm = [s1.perm EXCEPT ![p] = e]
        /\ t.dest = s1.dest /\ t.seen = s1.seen /\ t.told = [s1.told EXCEPT ![c] = B]
        /\ t \in State /\ s2.dest = s1.dest
    <2>1. /\ s2.conn = s1.conn /\ s2.perm = [s1.perm EXCEPT ![p] = r]
          /\ s2.dest = s1.dest /\ s2.seen = s1.seen /\ s2.told = s1.told
      BY <1>0, <1>3 DEF State
    <2>2. s2.perm[p] = r /\ [s2.perm EXCEPT ![p] = e] = [s1.perm EXCEPT ![p] = e]
      BY <1>0, <1>1, <2>1, StateParts
    <2> DEFINE perm2 == [s1.perm EXCEPT ![p] = e]
               told2 == [s1.told EXCEPT ![c] = B]
    <2>3. t = [s2 EXCEPT !.told[c] = B, !.perm[p] = e]
      <3>1. t = [s2 EXCEPT !.told[c] = B, !.perm[p] = [@ EXCEPT !.txtime = TRUE,
                                                                !.wait = FALSE]]
        BY DEF Burst
      <3> QED BY <1>5, <2>2, <3>1
    <2>4. t = [s2 EXCEPT !.told = told2, !.perm = perm2]
      BY <2>1, <2>2, <2>3
    <2>5. perm2 \in [Slots -> Permlink \cup {Null}] /\ told2 \in [Conns -> SUBSET Hosts]
      BY <1>0, <1>1, <1>4, StateParts
    <2> HIDE DEF perm2, told2
    <2>6. t = [s1 EXCEPT !.told = told2, !.perm = perm2]
      BY <1>0, <1>3, <2>4 DEF State
    <2>7. /\ t.conn = s1.conn /\ t.perm = perm2 /\ t.dest = s1.dest /\ t.seen = s1.seen
          /\ t.told = told2 /\ t \in State
      BY <1>0, <2>5, <2>6 DEF State
    <2> QED BY <2>1, <2>7 DEF perm2, told2
  <1>7. /\ s1.conn = [s.conn EXCEPT ![c].type = "host"] /\ s1.perm = s.perm
        /\ s1.dest = s.dest /\ s1.seen = s.seen /\ s1.told = s.told
    BY DEF Promoted
  <1>8. CameUp(s, t, c, p, e, B)
    BY <1>6, <1>7 DEF CameUp
  <1>9. \A h \in B : s.dest[h].link # NoSlot /\ h # name
    BY <1>2, <1>6, <1>7 DEF AllRouted
  <1>10. Sound(t)
    <2>1. CASE p \in Used(s)
      <3>1. ChainDown(s, p) /\ ~ IsUp(s, p) /\ s.perm[p].name = name
        BY <1>1, <2>1 DEF Introduced, NameDown
      <3>2. \A q \in Used(s) : s.perm[q].connection = c => q = p
        BY <1>0, <2>1, <3>1 DEF Introduced, NamesOnce
      <3>3. e.primary = s.perm[p].primary /\ e.backup = s.perm[p].backup
            /\ e.permanent = s.perm[p].permanent
        BY <1>1, <1>4, <2>1
      <3> QED BY <1>0, <1>4, <1>8, <1>9, <2>1, <3>1, <3>2, <3>3, CameUpSound
    <2>2. CASE p \notin Used(s)
      <3>1. PICK no \in BOOLEAN : no = FALSE
        OBVIOUS
      <3> DEFINE f == [name |-> name, connection |-> Null, primary |-> NoSlot,
                       backup |-> NoSlot, permanent |-> no, locked |-> no, wait |-> no,
                       txtime |-> no]
      <3>2. /\ f \in Permlink /\ f.connection = Null /\ f.primary = NoSlot
            /\ f.backup = NoSlot /\ f.name = name /\ f.permanent = no
        BY DEF Permlink
      <3> HIDE DEF f
      <3>3. PICK u : u = [s EXCEPT !.perm[p] = f]
        OBVIOUS
      <3>4. /\ Sound(u) /\ u.conn = s.conn /\ u.dest = s.dest /\ u.seen = s.seen
            /\ u.told = s.told /\ Used(u) = Used(s) \cup {p} /\ u.perm[p] = f
            /\ \A q \in Used(s) : u.perm[q] = s.perm[q]
            /\ ChainDown(u, p)
        <4>1. p \in Slots \ Used(s) /\ Unlisted(s, f.name)
          BY <1>1, <2>2, <3>2 DEF Unlisted
        <4>2. Appended(s, u, p, f)
          BY <1>0, <3>2, <3>3, <4>1, NewEntrySound
        <4> QED BY <4>2 DEF Appended
      <3>5. u.perm = [s.perm EXCEPT ![p] = f]
        BY <1>0, <3>3 DEF State
      <3>6. [u.perm EXCEPT ![p] = e] = [s.perm EXCEPT ![p] = e]
        BY <1>0, <1>1, <3>5, StateParts
      <3>7. CameUp(u, t, c, p, e, B)
        BY <1>6, <1>7, <3>4, <3>6 DEF CameUp
      <3>8. \A q \in Used(u) : u.perm[q].connection = c => q = p
        BY <1>0, <1>1, <2>2, <3>4 DEF Introduced
      <3>9. ~ IsUp(u, p) /\ p \in Used(u) /\ u.perm[p].name = name
        BY <3>2, <3>4 DEF IsUp, IsHost
      <3>10. e.primary = u.perm[p].primary /\ e.backup = u.perm[p].backup
             /\ e.permanent = u.perm[p].permanent
        BY <1>1, <1>4, <2>2, <3>1, <3>2, <3>4
      <3>11. /\ Sound(u) /\ u.conn[c].type = "unknown" /\ u.perm[p].name = u.conn[c].name
             /\ ChainDown(u, p) /\ e.name = u.perm[p].name
        BY <1>0, <1>4, <3>4, <3>9
      <3>12. \A h \in B : u.dest[h].link # NoSlot /\ h # u.conn[c].name
        BY <1>0, <1>9, <3>4
      <3>13. e \in Permlink /\ e.connection = c
        BY <1>4
      <3> QED BY <3>7, <3>8, <3>9, <3>10, <3>11, <3>12, <3>13, CameUpSound
    <2> QED BY <2>1, <2>2
  <1>11. t.perm[p] = e /\ p \in Used(t)
    <2>1. s1.perm \in [Slots -> Permlink \cup {Null}]
      BY <1>0, StateParts
    <2>2. t.perm[p] = e
      BY <1>1, <1>6, <2>1
    <2>3. e # Null
      BY <1>4, NullIsFresh
    <2> QED BY <1>1, <2>2, <2>3 DEF Used
  <1>12. IsHost(t, c)
    BY <1>0, <1>6 DEF IsHost
  <1> QED BY <1>2, <1>4, <1>6, <1>7, <1>10, <1>11, <1>12

\* HostAccepted after the clean-up.
BurstTo(s, c) ==
    {h \in Hosts : /\ s.dest[h].rtt # 0
                   /\ s.dest[h].link # NoSlot
                   /\ Via(s, h) # c
                   /\ ~ s.dest[h].auto}

AcceptedFrom(s1, c, name) ==
    LET p == PermlinkFor(s1, name)
        s2 == Listing(s1, name, c)
    IN  IF p = NoSlot THEN bye_command2(s1, c)
        ELSE update_destinations(Burst(s2, c, p, BurstTo(s2, c)), p, name, 1, FALSE)

LEMMA AcceptedSound ==
    ASSUME NEW s, NEW c \in Conns, NEW name \in Hosts, NEW me, Introduced(s, c, name, me),
           Via(s, name) = Null, NameDown(s, name)
    PROVE  Sound(HostAccepted(s, c, name))
  <1>0. s \in State /\ Sound(s) /\ s.conn[c].name = name
    BY DEF Introduced, Sound, Routing
  <1>1. PICK s1 : s1 = [s EXCEPT !.conn[c].type = "host"]
    OBVIOUS
  <1>2. Promoted(s, s1, c) /\ s1.conn[c].type = "host" /\ s1.conn[c].name = name
    BY <1>0, <1>1, PromotedParts
  <1>3. route_cleanup(s1, c, name) = s1 /\ PermlinkFor(s1, name) = PermlinkFor(s, name)
    BY <1>2, PromotedClean
  <1>4. PICK p : p = PermlinkFor(s1, name)
    OBVIOUS
  <1>5. PICK s2 : s2 = Listing(s1, name, c)
    OBVIOUS
  <1>6. HostAccepted(s, c, name) =
          IF p = NoSlot THEN bye_command2(s1, c)
          ELSE update_destinations(Burst(s2, c, p, BurstTo(s2, c)), p, name, 1, FALSE)
    <2> DEFINE r == route_cleanup([s EXCEPT !.conn[c].type = "host"], c, name)
    <2>1. HostAccepted(s, c, name) = AcceptedFrom(r, c, name)
      BY DEF HostAccepted, AcceptedFrom, Burst, BurstTo, Listing
    <2>2. r = s1
      BY <1>1, <1>3
    <2> HIDE DEF r
    <2>3. HostAccepted(s, c, name) = AcceptedFrom(s1, c, name)
      BY <2>1, <2>2
    <2> QED BY <1>4, <1>5, <2>3 DEF AcceptedFrom
  <1>7. CASE p = NoSlot
    <2>1. HungUp(s, bye_command2(s1, c), c)
      BY <1>2, <1>4, <1>7, FullHangsUp
    <2> QED BY <1>0, <1>6, <1>7, <2>1, HungUpSound
  <1>8. CASE p # NoSlot
    <2>1. PICK B : B = BurstTo(s2, c)
      OBVIOUS
    <2>2. B \in SUBSET Hosts /\ AllRouted(s2, B)
      BY <2>1 DEF BurstTo, AllRouted
    <2>3. PICK t : t = Burst(s2, c, p, B)
      OBVIOUS
    <2>4. /\ Sound(t) /\ p \in Used(t) /\ t.perm[p].name = name
          /\ IsHost(t, t.perm[p].connection) /\ t.dest[name].link = NoSlot
      BY <1>2, <1>3, <1>4, <1>5, <1>8, <2>2, <2>3, EnlistedSound
    <2>5. PICK auto \in BOOLEAN : auto = FALSE
      OBVIOUS
    <2>6. PICK rtt \in 0..MaxRtt : rtt = 1
      BY LinkBounds
    <2>7. PICK u : u = update_destinations(t, p, name, rtt, auto)
      OBVIOUS
    <2>8. Routing(u) /\ OnlyRoutes(t, u)
      BY <2>4, <2>7, UpdateRoutes DEF Sound
    <2>9. Sound(u)
      BY <2>4, <2>8, OnlyRoutesSound
    <2> QED BY <1>6, <1>8, <2>1, <2>5, <2>6, <2>7, <2>9, <2>3
  <1> QED BY <1>7, <1>8

\* A retry time is set.
LEMMA WaitSound ==
    ASSUME NEW s, Sound(s), NEW p \in Used(s), NEW wait \in BOOLEAN, NEW t,
           t = [s EXCEPT !.perm[p].wait = wait]
    PROVE  Sound(t)
  <1> DEFINE e == [s.perm[p] EXCEPT !.wait = wait]
  <1>1. s \in State /\ s.perm[p] \in Permlink /\ s.perm[p] # Null
    BY EntryParts DEF Sound, Routing
  <1>2. e \in Permlink
    BY <1>1 DEF Permlink
  <1>3. SameLink(s.perm[p], e)
    BY <1>1, <1>2, NullIsFresh DEF SameLink, Permlink
  <1>4. t = [s EXCEPT !.perm[p] = e]
    OBVIOUS
  <1> HIDE DEF e
  <1>5. Reflagged(s, t)
    BY <1>1, <1>2, <1>3, <1>4, OneReflagged
  <1> QED BY <1>5, ReflaggedSound

\* The caller wins over another link of the chain, and has to call again.
Reorganised(t, c, me, loser) ==
    LET s2 == Lock(bye_command2(t, t.perm[loser].connection), loser)
    IN  [bye_command2(s2, c) EXCEPT !.perm[me].wait = s2.perm[me].permanent]

LEMMA ReorganisedSound ==
    ASSUME NEW t, Sound(t), NEW c \in Conns, t.conn[c].type = "unknown",
           NEW me \in Used(t), NEW loser \in Used(t), IsHost(t, t.perm[loser].connection)
    PROVE  Sound(Reorganised(t, c, me, loser))
  <1> DEFINE v == t.perm[loser].connection
  <1>0. t \in State
    BY DEF Sound, Routing
  <1>1. v \in Conns /\ t.conn[v].type = "host" /\ v # c
    BY <1>0, EntryParts DEF IsHost
  <1>2. PICK s1 : s1 = bye_command2(t, v)
    OBVIOUS
  <1>3. Sound(s1) /\ HungUp(t, s1, v)
    BY <1>1, <1>2, ByeSound
  <1>4. Used(s1) = Used(t) /\ s1.conn[c] = t.conn[c] /\ s1 \in State
    BY <1>0, <1>1, <1>3, HungUpLinks, HungUpConns DEF HungUp
  <1>5. PICK s2 : s2 = Lock(s1, loser)
    OBVIOUS
  <1>6. Reflagged(s1, s2)
    BY <1>4, <1>5, LockReflags
  <1>7. Sound(s2) /\ Used(s2) = Used(t) /\ s2.conn[c].type = "unknown" /\ s2 \in State
    BY <1>3, <1>4, <1>6, ReflaggedSound, ReflaggedLinks DEF Reflagged
  <1>8. PICK s3 : s3 = bye_command2(s2, c)
    OBVIOUS
  <1>9. Sound(s3) /\ HungUp(s2, s3, c)
    BY <1>7, <1>8, ByeSound
  <1>10. me \in Used(s3)
    BY <1>7, <1>9, HungUpLinks
  <1>11. PICK wait \in BOOLEAN : wait = s2.perm[me].permanent
    BY <1>7, EntryParts
  <1>12. PICK u : u = [s3 EXCEPT !.perm[me].wait = wait]
    OBVIOUS
  <1>13. Sound(u)
    BY <1>9, <1>10, <1>12, WaitSound
  <1>14. Reorganised(t, c, me, loser) = u
    BY <1>2, <1>5, <1>8, <1>11, <1>12 DEF Reorganised
  <1> QED BY <1>13, <1>14

LEMMA ConnectedParts ==
    ASSUME NEW t, NEW links
    PROVE  /\ ConnectedIn(t, links) \subseteq Slots
           /\ \A q \in ConnectedIn(t, links) :
                q \in Used(t) /\ IsHost(t, t.perm[q].connection)
           /\ ConnectedIn(t, links) # {} => Min(ConnectedIn(t, links)) \in ConnectedIn(t, links)
  <1> DEFINE T == ConnectedIn(t, links)
  <1>1. T \subseteq Slots /\ \A q \in T : q \in Used(t) /\ IsHost(t, t.perm[q].connection)
    BY DEF ConnectedIn, Used
  <1>2. T \subseteq Nat
    BY <1>1, SlotsAreNumbers
  <1> HIDE DEF T
  <1>3. T # {} => Min(T) \in T
    BY <1>2, LowestOf
  <1> QED BY <1>1, <1>3 DEF T

\* h_host_command after the walk.
HostCases(t, c, name, me, above, below) ==
    \/ Become(bye_command2(t, c))
    \/ me # NoSlot /\ above # {} /\ Become(Reorganised(t, c, me, Min(above)))
    \/ me # NoSlot /\ below # {} /\ Become(Reorganised(t, c, me, Min(below)))
    \/ Become(Lock(bye_command2(t, c), me))
    \/ /\ me = NoSlot \/ (above = {} /\ below = {})
       /\ Via(t, name) = Null
       /\ Become(HostAccepted(t, c, name))

LEMMA HostStep ==
    ASSUME NamesAgree, Sound(S), NEW c \in Conns, NEW name \in Hosts, MayClaim(c, name),
           h_host_command(c, name)
    PROVE  Sound(S')
  <1>1. S \in State /\ S.conn[c].type = "unknown" /\ c # Null /\ OneOwner(S)
    BY PartsOfS, NullIsFresh DEF Sound, Routing, h_host_command
  <1>2. ASSUME NEW p \in Used(S), S.perm[p].connection = c PROVE S.perm[p].name = name
    <2>1. LinkOf(S, c) # NoSlot /\ LinkOf(S, c) \in Used(S)
          /\ S.perm[LinkOf(S, c)].connection = c
      BY <1>1, <1>2, FindsByConnection
    <2>2. LinkOf(S, c) = p
      BY <1>1, <1>2, <2>1 DEF OneOwner
    <2> QED BY <2>1, <2>2, PartsOfS DEF MayClaim
  <1>3. PICK t, me : /\ HostReplacesOld(S, c, name) = [st |-> t, me |-> me]
                     /\ Introduced(t, c, name, me)
    BY <1>1, <1>2, WalkIntroduces
  <1>4. /\ Sound(t) /\ t \in State /\ t.conn[c].type = "unknown"
        /\ me \in Used(t) \cup {NoSlot}
    BY <1>3 DEF Introduced, Sound, Routing
  <1>5. PICK above : above = IF me = NoSlot THEN {} ELSE ConnectedIn(t, Primaries(t, me))
    OBVIOUS
  <1>6. PICK below : below = IF me = NoSlot THEN {} ELSE ConnectedIn(t, Backups(t, me))
    OBVIOUS
  <1>7. HostCases(t, c, name, me, above, below)
    <2>1. PICK w : w = HostReplacesOld(S, c, name)
      OBVIOUS
    <2>2. w.st = t /\ w.me = me
      BY <1>3, <2>1
    <2> QED BY <1>5, <1>6, <2>1, <2>2 DEF h_host_command, HostCases, Reorganised
  <1>8. /\ above # {} /\ me # NoSlot =>
             Min(above) \in Used(t) /\ IsHost(t, t.perm[Min(above)].connection)
        /\ below # {} /\ me # NoSlot =>
             Min(below) \in Used(t) /\ IsHost(t, t.perm[Min(below)].connection)
    BY <1>5, <1>6, ConnectedParts
  <1>9. Sound(bye_command2(t, c)) /\ HungUp(t, bye_command2(t, c), c)
    BY <1>4, ByeSound
  <1>10. Sound(Lock(bye_command2(t, c), me))
    <2>1. PICK u : u = bye_command2(t, c)
      OBVIOUS
    <2>2. u \in State /\ me \in Used(u) \cup {NoSlot}
      BY <1>4, <1>9, <2>1, HungUpLinks DEF Sound, Routing
    <2>3. Reflagged(u, Lock(u, me))
      BY <2>2, LockReflags
    <2> QED BY <1>9, <2>1, <2>3, ReflaggedSound
  <1>11. ASSUME me # NoSlot, above # {} PROVE Sound(Reorganised(t, c, me, Min(above)))
    BY <1>4, <1>8, <1>11, ReorganisedSound
  <1>12. ASSUME me # NoSlot, below # {} PROVE Sound(Reorganised(t, c, me, Min(below)))
    BY <1>4, <1>8, <1>12, ReorganisedSound
  <1>13. ASSUME me = NoSlot \/ (above = {} /\ below = {}), Via(t, name) = Null
         PROVE  Sound(HostAccepted(t, c, name))
    <2>1. ASSUME NEW q \in Used(t), t.perm[q].name = name PROVE ChainDown(t, q)
      <3>1. CASE me = NoSlot
        <4>1. q # NoSlot
          BY <1>4, EntryParts
        <4> QED BY <1>3, <2>1, <3>1, <4>1 DEF Introduced
      <3>2. CASE me # NoSlot
        <4>1. me = q
          BY <1>3, <2>1, <3>2 DEF Introduced
        <4> SUFFICES ASSUME NEW x \in Used(t), x \in Primaries(t, q) \/ q \in Primaries(t, x),
                            IsUp(t, x)
                     PROVE  FALSE
          BY DEF ChainDown
        <4>2. x \in Primaries(t, q) \/ x \in Backups(t, q)
          BY <1>4, AboveIsBelow DEF Sound, Chained
        <4>3. x \in above \/ x \in below
          BY <1>5, <1>6, <3>2, <4>1, <4>2 DEF ConnectedIn, IsUp
        <4> QED BY <1>13, <3>2, <4>3
      <3> QED BY <3>1, <3>2
    <2> QED BY <1>3, <1>13, <2>1, AcceptedSound DEF NameDown
  <1> QED BY <1>7, <1>9, <1>10, <1>11, <1>12, <1>13, StepTo DEF HostCases

-----------------------------------------------------------------------------
(***************************************************************************)
(* The operator's /link command.                                           *)
(***************************************************************************)

\* After its connection was closed link p is not up.
LEMMA ByeIfDown ==
    ASSUME NEW s, Routing(s), NEW p \in Used(s), NEW types \in SUBSET {"unknown", "host"},
           "host" \in types, NEW c, c = s.perm[p].connection, NEW t, t = ByeIf(s, c, types)
    PROVE  /\ Routing(t) /\ ~ IsUp(t, p) /\ SamePointers(s, t)
           /\ \A q \in Used(s) : /\ t.perm[q].name = s.perm[q].name
                                 /\ IsUp(t, q) => IsUp(s, q)
  <1>0. s \in State /\ c \in Conns \cup {Null}
    BY EntryParts DEF Routing
  <1>1. CASE c # Null /\ s.conn[c].type \in types
    <2>1. c \in Conns /\ s.conn[c].type \in {"unknown", "host"} /\ t = bye_command2(s, c)
      BY <1>0, <1>1 DEF ByeIf
    <2>2. HungUp(s, t, c)
      BY <2>1, ByeHangsUp
    <2>3. Routing(t) /\ t \in State
      BY <2>1, <2>2, HungUpRoutes DEF Routing
    <2>4. SamePointers(s, t) /\ \A q \in Used(s) : t.perm[q].name = s.perm[q].name
      BY <2>2, HungUpLinks DEF SamePointers
    <2>5. t.conn[c].type = "closed" /\ \A o \in Conns \ {c} : t.conn[o] = s.conn[o]
      BY <1>0, <2>1, <2>2, HungUpConns
    <2>6. ASSUME NEW q \in Used(s), IsUp(t, q)
          PROVE  IsUp(s, q) /\ s.perm[q].connection # c
      <3>1. t.perm[q].connection # Null /\ t.perm[q].connection # c
        BY <2>5, <2>6 DEF IsUp, IsHost
      <3>2. t.perm[q].connection = s.perm[q].connection /\ s.perm[q].connection \in Conns
        BY <1>0, <2>2, <3>1, HungUpLinks, EntryParts
      <3> QED BY <2>5, <2>6, <3>1, <3>2 DEF IsUp, IsHost
    <2> QED BY <2>3, <2>4, <2>6
  <1>2. CASE ~ (c # Null /\ s.conn[c].type \in types)
    <2>1. t = s
      BY <1>2 DEF ByeIf
    <2>2. ~ IsUp(s, p)
      BY <1>2 DEF IsUp, IsHost
    <2> QED BY <2>1, <2>2 DEF SamePointers
  <1> QED BY <1>1, <1>2

LEMMA LinkResetStep ==
    ASSUME Sound(S), NEW name \in Hosts, NEW lock \in BOOLEAN, LinkReset(name, lock)
    PROVE  Sound(S')
  <1>1. PICK p : p = find_permlink(S, name)
    OBVIOUS
  <1>2. p # NoSlot /\ S \in State
    BY <1>1 DEF LinkReset, Sound, Routing
  <1>3. p \in Used(S)
    BY <1>1, <1>2, FindsByName
  <1>4. PICK types : types = {"unknown", "host"}
    OBVIOUS
  <1>5. PICK s1 : s1 = ByeIf(S, S.perm[p].connection, types)
    OBVIOUS
  <1>6. Sound(s1) /\ Used(s1) = Used(S) /\ s1 \in State
    <2>1. S.perm[p].connection \in Conns \cup {Null} /\ types \in SUBSET {"unknown", "host"}
      BY <1>2, <1>3, <1>4, EntryParts
    <2>2. Sound(s1) /\ (s1 = S \/ HungUp(S, s1, S.perm[p].connection))
      BY <1>5, <2>1, ByeIfSound
    <2> QED BY <2>2, HungUpLinks DEF Sound, Routing
  <1>7. PICK wait \in BOOLEAN : wait = S.perm[p].permanent
    BY <1>2, <1>3, EntryParts
  <1> DEFINE e == [s1.perm[p] EXCEPT !.locked = lock, !.wait = wait]
  <1>8. s1.perm[p] \in Permlink /\ s1.perm[p] # Null /\ p \in Used(s1)
    BY <1>3, <1>6, EntryParts
  <1>9. e \in Permlink
    BY <1>8 DEF Permlink
  <1>10. SameLink(s1.perm[p], e)
    BY <1>8, <1>9, NullIsFresh DEF SameLink, Permlink
  <1>11. Become(delay_permlink_connect([s1 EXCEPT !.perm[p] = e], p))
    <2>1. Become(delay_permlink_connect([s1 EXCEPT !.perm[p].locked = lock,
                                                   !.perm[p].wait = wait], p))
      BY <1>1, <1>4, <1>5, <1>7, PartsOfS DEF LinkReset
    <2>2. [s1 EXCEPT !.perm[p].locked = lock, !.perm[p].wait = wait] = [s1 EXCEPT !.perm[p] = e]
      BY <1>6, <1>8, EntryParts, StateParts DEF State
    <2> QED BY <2>1, <2>2
  <1> HIDE DEF e
  <1>12. PICK s2 : s2 = [s1 EXCEPT !.perm[p] = e]
    OBVIOUS
  <1>13. Reflagged(s1, s2)
    BY <1>6, <1>8, <1>9, <1>10, <1>12, OneReflagged
  <1>14. s2 \in State /\ p \in Used(s2) /\ Sound(s2)
    BY <1>6, <1>8, <1>13, ReflaggedLinks, ReflaggedSound DEF Reflagged
  <1>15. Reflagged(s2, delay_permlink_connect(s2, p))
    BY <1>14, DelayReflags
  <1>16. Sound(delay_permlink_connect(s2, p))
    BY <1>14, <1>15, ReflaggedSound
  <1> QED BY <1>11, <1>12, <1>16, StepTo

\* Link p, which is down, is taken out of its chain and of the table.
LEMMA RelinkedSound ==
    ASSUME NEW s, Sound(s), NEW p \in Used(s), ~ IsUp(s, p), NEW t,
           t = [s EXCEPT !.perm = Relinked(s, p)]
    PROVE  Sound(t)
  <1> DEFINE up == s.perm[p].primary
             down == s.perm[p].backup
             new == Relinked(s, p)
  <1>0. s \in State /\ LinkedBack(s) /\ Acyclic(s) /\ p \in Slots /\ s.perm[p] # Null
    BY EntryParts DEF Sound, Routing, Chained
  <1>1. /\ up # NoSlot => up \in Used(s) /\ s.perm[up].backup = p /\ up \in Slots
        /\ down # NoSlot => down \in Used(s) /\ s.perm[down].primary = p /\ down \in Slots
        /\ up \in Slots \cup {NoSlot} /\ down \in Slots \cup {NoSlot} /\ p # NoSlot
    BY <1>0, EntryParts DEF LinkedBack
  <1>2. /\ up # p /\ down # p
        /\ up # NoSlot \/ down # NoSlot => up # down
    <2>1. ASSUME up = p PROVE FALSE
      BY <1>0, <1>1, <2>1, PrimariesGoOn DEF Acyclic
    <2>2. ASSUME down = p PROVE FALSE
      <3>1. s.perm[p].primary = p
        BY <1>1, <2>2
      <3> QED BY <2>1, <3>1
    <2>3. ASSUME up = down, up # NoSlot PROVE FALSE
      <3>1. up \in Primaries(s, p)
        BY <1>0, <2>3, PrimariesGoOn
      <3>2. s.perm[up].primary = p /\ up \in Used(s)
        BY <1>1, <2>3
      <3>3. p \in Primaries(s, p)
        BY <1>0, <1>1, <3>1, <3>2, PrimariesGoOn
      <3> QED BY <1>0, <3>3 DEF Acyclic
    <2> QED BY <2>1, <2>2, <2>3
  <1>3. ASSUME NEW q \in Used(s), q # p
        PROVE  /\ new[q] \in Permlink
               /\ new[q].name = s.perm[q].name /\ new[q].connection = s.perm[q].connection
               /\ new[q].permanent = s.perm[q].permanent
               /\ new[q].primary = IF q = down THEN up ELSE s.perm[q].primary
               /\ new[q].backup = IF q = up THEN down ELSE s.perm[q].backup
    <2>1. q \in Slots /\ s.perm[q] \in Permlink
      BY <1>0, EntryParts
    <2>2. CASE q = up
      <3>1. new[q] = [s.perm[q] EXCEPT !.backup = down] /\ q # down
        BY <1>0, <1>1, <1>2, <1>3, <2>1, <2>2, SlotsAreNumbers DEF Relinked
      <3> HIDE DEF new, up, down
      <3>2. down \in Slots \cup {NoSlot}
        BY <1>1
      <3> QED BY <2>1, <2>2, <3>1, <3>2 DEF Permlink
    <2>3. CASE q # up /\ q = down
      <3>1. new[q] = [s.perm[q] EXCEPT !.primary = up]
        BY <1>0, <1>3, <2>1, <2>3 DEF Relinked
      <3> HIDE DEF new, up, down
      <3>2. up \in Slots \cup {NoSlot}
        BY <1>1
      <3> QED BY <2>1, <2>3, <3>1, <3>2 DEF Permlink
    <2>4. CASE q # up /\ q # down
      <3>1. new[q] = s.perm[q]
        BY <1>0, <1>3, <2>1, <2>4 DEF Relinked
      <3> QED BY <2>1, <2>4, <3>1
    <2> QED BY <2>2, <2>3, <2>4
  <1>4. new[p] = Null /\ \A q \in Slots \ Used(s) : new[q] = Null
    <2>1. new[p] = Null
      BY <1>0 DEF Relinked
    <2>2. ASSUME NEW q \in Slots \ Used(s) PROVE new[q] = Null
      <3>1. q # p /\ q # up /\ q # down /\ s.perm[q] = Null
        BY <1>1, SlotsAreNumbers DEF Used
      <3> QED BY <3>1 DEF Relinked
    <2> QED BY <2>1, <2>2
  <1>5. DOMAIN new = Slots /\ new = [q \in Slots |-> new[q]]
    BY DEF Relinked
  <1> HIDE DEF new
  <1>6. new \in [Slots -> Permlink \cup {Null}]
    BY <1>3, <1>4, <1>5
  <1>7. /\ t \in State /\ t.conn = s.conn /\ t.perm = new /\ t.dest = s.dest
        /\ t.seen = s.seen /\ t.told = s.told
    BY <1>0, <1>6 DEF State, new
  <1>8. Used(t) = Used(s) \ {p}
    BY <1>3, <1>4, <1>7, NullIsFresh DEF Used
  <1>9. \A q \in Used(t) : IsUp(t, q) <=> IsUp(s, q)
    BY <1>3, <1>7, <1>8 DEF IsUp, IsHost
  <1>10. SameHosts(s, t)
    BY <1>3, <1>7, <1>8 DEF SameHosts
  <1>11. NamesOnce(t) /\ OneOwner(t) /\ NoneFreed(t)
    BY <1>3, <1>7, <1>8 DEF Sound, Routing, NamesOnce, OneOwner, NoneFreed
  <1>12. Routing(t)
    BY <1>10, <1>11, SameHostsRouting DEF Sound
  <1>13. LinkedBack(t)
    <2> SUFFICES ASSUME NEW q \in Used(s), q # p
                 PROVE  /\ new[q].primary # NoSlot =>
                             /\ new[q].primary \in Used(s) \ {p}
                             /\ new[new[q].primary].backup = q
                        /\ new[q].backup # NoSlot =>
                             /\ new[q].backup \in Used(s) \ {p}
                             /\ new[new[q].backup].primary = q
      BY <1>7, <1>8 DEF LinkedBack
    <2>1. ASSUME new[q].primary # NoSlot
          PROVE  new[q].primary \in Used(s) \ {p} /\ new[new[q].primary].backup = q
      <3>1. CASE q = down
        BY <1>1, <1>2, <1>3, <2>1, <3>1
      <3>2. CASE q # down
        <4> DEFINE u == s.perm[q].primary
        <4>1. new[q].primary = u /\ u \in Used(s) /\ s.perm[u].backup = q
          BY <1>0, <1>3, <2>1, <3>2 DEF LinkedBack
        <4>2. u # p /\ u # up
          <5>1. u # p
            BY <3>2, <4>1
          <5>2. up # NoSlot => s.perm[up].backup = p
            BY <1>1
          <5>3. u # NoSlot
            BY <2>1, <4>1
          <5> QED BY <4>1, <5>1, <5>2, <5>3
        <4>3. new[u].backup = s.perm[u].backup
          BY <1>3, <4>1, <4>2
        <4> QED BY <4>1, <4>2, <4>3
      <3> QED BY <3>1, <3>2
    <2>2. ASSUME new[q].backup # NoSlot
          PROVE  new[q].backup \in Used(s) \ {p} /\ new[new[q].backup].primary = q
      <3>1. CASE q = up
        BY <1>1, <1>2, <1>3, <2>2, <3>1
      <3>2. CASE q # up
        <4> DEFINE u == s.perm[q].backup
        <4>1. new[q].backup = u /\ u \in Used(s) /\ s.perm[u].primary = q
          BY <1>0, <1>3, <2>2, <3>2 DEF LinkedBack
        <4>2. u # p /\ u # down
          <5>1. u # p
            BY <3>2, <4>1
          <5>2. down # NoSlot => s.perm[down].primary = p
            BY <1>1
          <5>3. u # NoSlot
            BY <2>2, <4>1
          <5> QED BY <4>1, <5>1, <5>2, <5>3
        <4>3. new[u].primary = s.perm[u].primary
          BY <1>3, <4>1, <4>2
        <4> QED BY <4>1, <4>2, <4>3
      <3> QED BY <3>1, <3>2
    <2> QED BY <2>1, <2>2
  <1>14. ChainsArePermanent(t)
    <2> SUFFICES ASSUME NEW q \in Used(s), q # p,
                        new[q].primary # NoSlot \/ new[q].backup # NoSlot
                 PROVE  new[q].permanent
      BY <1>7, <1>8 DEF ChainsArePermanent
    <2>1. s.perm[q].primary # NoSlot \/ s.perm[q].backup # NoSlot
      <3>1. CASE q = down
        BY <1>0, <1>1, <3>1, EntryParts
      <3>2. CASE q = up
        BY <1>0, <1>1, <3>2, EntryParts
      <3>3. CASE q # down /\ q # up
        BY <1>3, <3>3
      <3> QED BY <3>1, <3>2, <3>3
    <2>2. s.perm[q].permanent
      BY <2>1 DEF Sound, Chained, ChainsArePermanent
    <2>3. new[q].permanent = s.perm[q].permanent
      BY <1>3
    <2> QED BY <2>2, <2>3
  <1>15. Shortened(s, t)
    <2> SUFFICES ASSUME NEW q \in Used(s), q # p, new[q].primary # NoSlot
                 PROVE  new[q].primary \in Primaries(s, q)
      BY <1>7, <1>8 DEF Shortened
    <2>1. CASE q = down
      <3>1. new[q].primary = up /\ s.perm[q].primary = p /\ p # NoSlot
        BY <1>0, <1>1, <1>3, <2>1, EntryParts
      <3>2. p \in Primaries(s, q)
        BY <1>0, <3>1, PrimariesGoOn
      <3> QED BY <1>0, <3>1, <3>2, PrimariesGoOn
    <2>2. CASE q # down
      BY <1>0, <1>3, <2>2, PrimariesGoOn
    <2> QED BY <2>1, <2>2
  <1> QED BY <1>8, <1>9, <1>12, <1>13, <1>14, <1>15, ShortenedSound

LEMMA LinkDeleteStep ==
    ASSUME Sound(S), NEW name \in Hosts, LinkDelete(name)
    PROVE  Sound(S')
  <1>1. PICK p : p = find_permlink(S, name)
    OBVIOUS
  <1>2. p # NoSlot /\ S \in State
    BY <1>1 DEF LinkDelete, Sound, Routing
  <1>3. p \in Used(S)
    BY <1>1, <1>2, FindsByName
  <1>4. PICK types : types = {"host"}
    OBVIOUS
  <1>5. PICK c : c = S.perm[p].connection
    OBVIOUS
  <1>6. PICK s1 : s1 = ByeIf(S, c, types)
    OBVIOUS
  <1>7. "host" \in types /\ types \in SUBSET {"unknown", "host"} /\ c \in Conns \cup {Null}
    BY <1>2, <1>3, <1>4, <1>5, EntryParts
  <1>8. Sound(s1)
    BY <1>6, <1>7, ByeIfSound
  <1>9. ~ IsUp(s1, p) /\ SamePointers(S, s1)
    BY <1>3, <1>5, <1>6, <1>7, ByeIfDown DEF Sound
  <1>10. p \in Used(s1)
    BY <1>3, <1>9 DEF SamePointers
  <1>11. PICK t : t = [s1 EXCEPT !.perm = Relinked(s1, p)]
    OBVIOUS
  <1>12. Sound(t)
    BY <1>8, <1>9, <1>10, <1>11, RelinkedSound
  <1>13. Become(t)
    BY <1>1, <1>4, <1>5, <1>6, <1>11, PartsOfS DEF LinkDelete
  <1> QED BY <1>12, <1>13, StepTo

\* State t is s with all references to entry old cut.
Cut(s, t, old) ==
    /\ t \in State /\ t.conn = s.conn /\ t.dest = s.dest /\ t.seen = s.seen
    /\ t.told = s.told /\ Used(t) = Used(s)
    /\ \A q \in Used(s) :
          /\ t.perm[q].name = s.perm[q].name
          /\ t.perm[q].connection = s.perm[q].connection
          /\ t.perm[q].permanent = s.perm[q].permanent
          /\ t.perm[q].primary =
                IF s.perm[q].primary = old THEN NoSlot ELSE s.perm[q].primary
          /\ t.perm[q].backup =
                IF s.perm[q].backup = old THEN NoSlot ELSE s.perm[q].backup

WithPerm(s, new) == [s EXCEPT !.perm = new]

LEMMA CutParts ==
    ASSUME NEW s \in State, NEW old, NEW t, t = WithPerm(s, CutTo(s, old))
    PROVE  Cut(s, t, old)
  <1> DEFINE new == CutTo(s, old)
  <1>1. ASSUME NEW q \in Used(s)
        PROVE  /\ new[q] \in Permlink
               /\ new[q].name = s.perm[q].name
               /\ new[q].connection = s.perm[q].connection
               /\ new[q].permanent = s.perm[q].permanent
               /\ new[q].primary = IF s.perm[q].primary = old THEN NoSlot ELSE s.perm[q].primary
               /\ new[q].backup = IF s.perm[q].backup = old THEN NoSlot ELSE s.perm[q].backup
    <2>1. q \in Slots /\ s.perm[q] \in Permlink
      BY EntryParts
    <2>2. PICK up : up = IF s.perm[q].primary = old THEN NoSlot ELSE s.perm[q].primary
      OBVIOUS
    <2>3. PICK down : down = IF s.perm[q].backup = old THEN NoSlot ELSE s.perm[q].backup
      OBVIOUS
    <2>4. up \in Slots \cup {NoSlot} /\ down \in Slots \cup {NoSlot}
      BY <2>2, <2>3, EntryParts
    <2>5. new[q] = [s.perm[q] EXCEPT !.primary = up, !.backup = down]
      BY <2>1, <2>2, <2>3 DEF CutTo
    <2> HIDE DEF new
    <2>6. /\ new[q] \in Permlink /\ new[q].name = s.perm[q].name
          /\ new[q].connection = s.perm[q].connection
          /\ new[q].permanent = s.perm[q].permanent
          /\ new[q].primary = up /\ new[q].backup = down
      BY <2>1, <2>4, <2>5 DEF Permlink
    <2> QED BY <2>2, <2>3, <2>6
  <1>2. new = [q \in Slots |-> new[q]] /\ \A q \in Slots \ Used(s) : new[q] = Null
    BY DEF CutTo
  <1> HIDE DEF new
  <1>3. new \in [Slots -> Permlink \cup {Null}]
    BY <1>1, <1>2
  <1>4. /\ t \in State /\ t.conn = s.conn /\ t.perm = new /\ t.dest = s.dest
        /\ t.seen = s.seen /\ t.told = s.told
    <2>1. t = [s EXCEPT !.perm = new]
      BY DEF WithPerm, new
    <2> QED BY <1>3, <2>1 DEF State
  <1>5. Used(t) = Used(s)
    BY <1>1, <1>2, <1>4, NullIsFresh DEF Used
  <1>6. \A q \in Used(s) :
          /\ t.perm[q].name = s.perm[q].name
          /\ t.perm[q].connection = s.perm[q].connection
          /\ t.perm[q].permanent = s.perm[q].permanent
          /\ t.perm[q].primary =
                IF s.perm[q].primary = old THEN NoSlot ELSE s.perm[q].primary
          /\ t.perm[q].backup =
                IF s.perm[q].backup = old THEN NoSlot ELSE s.perm[q].backup
    BY <1>1, <1>4
  <1> QED BY <1>4, <1>5, <1>6 DEF Cut

LEMMA FewerLinks ==
    ASSUME NEW s, Routing(s), NEW t, t.conn = s.conn, Used(t) \subseteq Used(s),
           \A q \in Used(t) : t.perm[q] = s.perm[q]
    PROVE  NamesOnce(t) /\ OneOwner(t) /\ NoneFreed(t)
  <1>1. NamesOnce(s) /\ OneOwner(s) /\ NoneFreed(s)
    BY DEF Routing
  <1>2. NamesOnce(t)
    BY <1>1 DEF NamesOnce
  <1>3. OneOwner(t)
    BY <1>1 DEF OneOwner
  <1>4. NoneFreed(t)
    BY <1>1 DEF NoneFreed
  <1> QED BY <1>2, <1>3, <1>4

Emptied(s, p) == [s EXCEPT !.perm[p] = Null]

\* The old entry goes: the links that pointed to it do not any more.
LEMMA OldGoes ==
    ASSUME NEW s, Sound(s), NEW old \in Used(s), NEW s1, Cut(s, s1, old),
           NEW types \in SUBSET {"unknown", "host"}, "host" \in types,
           NEW c, c = s.perm[old].connection, NEW u, u = ByeIf(s1, c, types),
           NEW t, t = Emptied(u, old)
    PROVE  /\ Sound(t) /\ Used(t) = Used(s) \ {old}
           /\ \A q \in Used(t) : t.perm[q].name = s.perm[q].name
  <1>0. s \in State /\ old \in Slots /\ LinkedBack(s)
    BY EntryParts DEF Sound, Routing, Chained
  <1>1. /\ s1 \in State /\ s1.conn = s.conn /\ s1.dest = s.dest /\ s1.seen = s.seen
        /\ s1.told = s.told /\ Used(s1) = Used(s)
    BY DEF Cut
  <1>2. \A q \in Used(s) :
           /\ s1.perm[q].name = s.perm[q].name
           /\ s1.perm[q].connection = s.perm[q].connection
           /\ s1.perm[q].permanent = s.perm[q].permanent
           /\ s1.perm[q].primary = IF s.perm[q].primary = old THEN NoSlot ELSE s.perm[q].primary
           /\ s1.perm[q].backup = IF s.perm[q].backup = old THEN NoSlot ELSE s.perm[q].backup
    BY DEF Cut
  <1>3. Routing(s1)
    <2>1. SameHosts(s, s1)
      BY <1>1, <1>2 DEF SameHosts
    <2>2. NamesOnce(s1) /\ OneOwner(s1) /\ NoneFreed(s1)
      BY <1>1, <1>2 DEF Sound, Routing, NamesOnce, OneOwner, NoneFreed
    <2> QED BY <2>1, <2>2, SameHostsRouting DEF Sound
  <1>4. old \in Used(s1) /\ c = s1.perm[old].connection
    BY <1>1, <1>2
  <1>5. /\ Routing(u) /\ ~ IsUp(u, old) /\ SamePointers(s1, u)
        /\ \A q \in Used(s1) : /\ u.perm[q].name = s1.perm[q].name
                               /\ IsUp(u, q) => IsUp(s1, q)
    BY <1>3, <1>4, ByeIfDown
  <1>6. u \in State /\ Used(u) = Used(s)
    BY <1>1, <1>5 DEF Routing, SamePointers
  <1>7. /\ t \in State /\ t.conn = u.conn /\ t.dest = u.dest /\ t.seen = u.seen
        /\ t.told = u.told /\ t.perm = [u.perm EXCEPT ![old] = Null]
    BY <1>0, <1>6 DEF State, Emptied
  <1>8. Used(t) = Used(s) \ {old} /\ \A q \in Used(t) : t.perm[q] = u.perm[q]
    <2>1. t.perm[old] = Null /\ \A q \in Slots \ {old} : t.perm[q] = u.perm[q]
      BY <1>0, <1>6, <1>7, StateParts
    <2>2. Used(t) = Used(u) \ {old}
      BY <1>0, <2>1 DEF Used
    <2> QED BY <1>6, <2>1, <2>2 DEF Used
  <1>9. Routing(t)
    <2>1. SameHosts(u, t)
      BY <1>5, <1>6, <1>7, <1>8 DEF SameHosts
    <2>2. Used(t) \subseteq Used(u) /\ t.conn = u.conn
      BY <1>6, <1>7, <1>8
    <2>3. NamesOnce(t) /\ OneOwner(t) /\ NoneFreed(t)
      BY <1>5, <1>8, <2>2, FewerLinks
    <2> QED BY <1>5, <2>1, <2>3, SameHostsRouting
  <1>10. ASSUME NEW q \in Used(t)
         PROVE  /\ q \in Used(s) /\ q # old /\ t.perm[q].name = s.perm[q].name
                /\ t.perm[q].permanent = s.perm[q].permanent
                /\ t.perm[q].primary =
                     IF s.perm[q].primary = old THEN NoSlot ELSE s.perm[q].primary
                /\ t.perm[q].backup =
                     IF s.perm[q].backup = old THEN NoSlot ELSE s.perm[q].backup
                /\ IsUp(t, q) => IsUp(s, q)
    <2>1. q \in Used(s) /\ q # old /\ t.perm[q] = u.perm[q]
      BY <1>8
    <2>2. IsUp(t, q) => IsUp(u, q)
      BY <1>7, <2>1 DEF IsUp, IsHost
    <2>3. IsUp(s1, q) => IsUp(s, q)
      BY <1>1, <1>2, <2>1 DEF IsUp, IsHost
    <2> QED BY <1>1, <1>2, <1>5, <2>1, <2>2, <2>3 DEF SamePointers
  <1>11. LinkedBack(t)
    <2> SUFFICES ASSUME NEW q \in Used(t)
                 PROVE  /\ t.perm[q].primary # NoSlot =>
                             /\ t.perm[q].primary \in Used(t)
                             /\ t.perm[t.perm[q].primary].backup = q
                        /\ t.perm[q].backup # NoSlot =>
                             /\ t.perm[q].backup \in Used(t)
                             /\ t.perm[t.perm[q].backup].primary = q
      BY DEF LinkedBack
    <2>1. ASSUME t.perm[q].primary # NoSlot
          PROVE  t.perm[q].primary \in Used(t) /\ t.perm[t.perm[q].primary].backup = q
      <3> DEFINE x == s.perm[q].primary
      <3>1. t.perm[q].primary = x /\ x # old /\ x # NoSlot /\ q \in Used(s) /\ q # old
        BY <1>10, <2>1
      <3>2. x \in Used(s) /\ s.perm[x].backup = q
        BY <1>0, <3>1 DEF LinkedBack
      <3>3. x \in Used(t)
        BY <1>8, <3>1, <3>2
      <3>4. t.perm[x].backup = q
        BY <1>10, <3>1, <3>2, <3>3
      <3> QED BY <3>1, <3>3, <3>4
    <2>2. ASSUME t.perm[q].backup # NoSlot
          PROVE  t.perm[q].backup \in Used(t) /\ t.perm[t.perm[q].backup].primary = q
      <3> DEFINE x == s.perm[q].backup
      <3>1. t.perm[q].backup = x /\ x # old /\ x # NoSlot /\ q \in Used(s) /\ q # old
        BY <1>10, <2>2
      <3>2. x \in Used(s) /\ s.perm[x].primary = q
        BY <1>0, <3>1 DEF LinkedBack
      <3>3. x \in Used(t)
        BY <1>8, <3>1, <3>2
      <3>4. t.perm[x].primary = q
        BY <1>10, <3>1, <3>2, <3>3
      <3> QED BY <3>1, <3>3, <3>4
    <2> QED BY <2>1, <2>2
  <1>12. ChainsArePermanent(t)
    BY <1>10 DEF Sound, Chained, ChainsArePermanent
  <1>13. Shortened(s, t)
    BY <1>0, <1>10, PrimariesGoOn DEF Shortened
  <1>14. Sound(t)
    BY <1>8, <1>9, <1>10, <1>11, <1>12, <1>13, ShortenedSound
  <1> QED BY <1>8, <1>10, <1>14

\* The new link p becomes the backup of q, the last of a chain.
Hooked(s, t, p, q) ==
    /\ t \in State /\ t.conn = s.conn /\ t.dest = s.dest /\ t.seen = s.seen
    /\ t.told = s.told /\ Used(t) = Used(s)
    /\ \A x \in Used(s) :
          /\ t.perm[x].name = s.perm[x].name
          /\ t.perm[x].connection = s.perm[x].connection
          /\ t.perm[x].permanent = s.perm[x].permanent
          /\ t.perm[x].primary = IF x = p THEN q ELSE s.perm[x].primary
          /\ t.perm[x].backup = IF x = q THEN p ELSE s.perm[x].backup

Hook(s, p, q) == [s EXCEPT !.perm[p].primary = q, !.perm[q].backup = p]

LEMMA HookedParts ==
    ASSUME NEW s \in State, NEW p \in Used(s), NEW q \in Used(s), p # q, NEW t,
           t = Hook(s, p, q)
    PROVE  Hooked(s, t, p, q)
  <1>0. p \in Slots /\ q \in Slots /\ s.perm[p] \in Permlink /\ s.perm[q] \in Permlink
    BY EntryParts
  <1>1. PICK a : a = [s.perm[p] EXCEPT !.primary = q]
    OBVIOUS
  <1>2. PICK b : b = [s.perm[q] EXCEPT !.backup = p]
    OBVIOUS
  <1>3. PICK new : new = [s.perm EXCEPT ![p] = a, ![q] = b]
    OBVIOUS
  <1>4. /\ a \in Permlink /\ a.name = s.perm[p].name /\ a.connection = s.perm[p].connection
        /\ a.permanent = s.perm[p].permanent /\ a.primary = q /\ a.backup = s.perm[p].backup
    BY <1>0, <1>1 DEF Permlink
  <1>5. /\ b \in Permlink /\ b.name = s.perm[q].name /\ b.connection = s.perm[q].connection
        /\ b.permanent = s.perm[q].permanent /\ b.backup = p /\ b.primary = s.perm[q].primary
    BY <1>0, <1>2 DEF Permlink
  <1>6. new[p] = a /\ new[q] = b /\ \A x \in Slots \ {p, q} : new[x] = s.perm[x]
    BY <1>0, <1>3, StateParts
  <1>7. new \in [Slots -> Permlink \cup {Null}]
    BY <1>0, <1>3, <1>4, <1>5, StateParts
  <1>8. t = [s EXCEPT !.perm = new]
    <2>1. s.perm \in [Slots -> Permlink \cup {Null}] /\ p # q
      BY StateParts
    <2> QED BY <1>0, <1>1, <1>2, <1>3, <2>1 DEF Hook, State
  <1>9. /\ t \in State /\ t.conn = s.conn /\ t.perm = new /\ t.dest = s.dest
        /\ t.seen = s.seen /\ t.told = s.told
    BY <1>7, <1>8 DEF State
  <1>10. a # Null /\ b # Null
    BY <1>4, <1>5, NullIsFresh
  <1>11. \A x \in Slots : t.perm[x] # Null <=> s.perm[x] # Null
    BY <1>0, <1>6, <1>9, <1>10 DEF Used
  <1>12. Used(t) = Used(s)
    BY <1>11 DEF Used
  <1>13. ASSUME NEW x \in Used(s)
         PROVE  /\ t.perm[x].name = s.perm[x].name
                /\ t.perm[x].connection = s.perm[x].connection
                /\ t.perm[x].permanent = s.perm[x].permanent
                /\ t.perm[x].primary = IF x = p THEN q ELSE s.perm[x].primary
                /\ t.perm[x].backup = IF x = q THEN p ELSE s.perm[x].backup
    <2>1. x \in Slots
      BY EntryParts
    <2>2. CASE x = p
      BY <1>4, <1>6, <1>9, <2>2
    <2>3. CASE x = q
      BY <1>5, <1>6, <1>9, <2>3
    <2>4. CASE x # p /\ x # q
      BY <1>6, <1>9, <2>1, <2>4
    <2> QED BY <2>2, <2>3, <2>4
  <1> QED BY <1>9, <1>12, <1>13 DEF Hooked

LEMMA ChainedOn ==
    ASSUME NEW s, Sound(s), NEW p \in Used(s), NEW q \in Used(s), p # q, ~ IsUp(s, p),
           s.perm[p].primary = NoSlot, s.perm[p].permanent,
           s.perm[q].backup = NoSlot, s.perm[q].permanent,
           \A x \in Used(s) : p \notin Primaries(s, x), NEW t, Hooked(s, t, p, q)
    PROVE  Sound(t)
  <1>0. /\ s \in State /\ LinkedBack(s) /\ p \in Slots /\ q \in Slots
        /\ p # NoSlot /\ q # NoSlot
    BY EntryParts DEF Sound, Routing, Chained
  <1>1. /\ t \in State /\ t.conn = s.conn /\ t.dest = s.dest
        /\ t.seen = s.seen /\ t.told = s.told
    BY DEF Hooked
  <1>2. Used(t) = Used(s)
    BY DEF Hooked
  <1>3. ASSUME NEW x \in Used(s)
        PROVE  /\ x \in Slots /\ t.perm[x].name = s.perm[x].name
               /\ t.perm[x].connection = s.perm[x].connection
               /\ t.perm[x].permanent = s.perm[x].permanent
               /\ t.perm[x].primary = IF x = p THEN q ELSE s.perm[x].primary
               /\ t.perm[x].backup = IF x = q THEN p ELSE s.perm[x].backup
               /\ IsUp(t, x) <=> IsUp(s, x)
    <2>1. x \in Slots
      BY <1>0, EntryParts
    <2>2. /\ t.perm[x].name = s.perm[x].name
          /\ t.perm[x].connection = s.perm[x].connection
          /\ t.perm[x].permanent = s.perm[x].permanent
          /\ t.perm[x].primary = IF x = p THEN q ELSE s.perm[x].primary
          /\ t.perm[x].backup = IF x = q THEN p ELSE s.perm[x].backup
      BY DEF Hooked
    <2> QED BY <1>1, <2>1, <2>2 DEF IsUp, IsHost
  <1>4. Routing(t)
    <2>1. SameHosts(s, t)
      BY <1>1, <1>2, <1>3 DEF SameHosts
    <2>2. NamesOnce(t) /\ OneOwner(t) /\ NoneFreed(t)
      BY <1>1, <1>2, <1>3 DEF Sound, Routing, NamesOnce, OneOwner, NoneFreed
    <2> QED BY <2>1, <2>2, SameHostsRouting DEF Sound
  <1>5. LinkedBack(t)
    <2> SUFFICES ASSUME NEW x \in Used(s)
                 PROVE  /\ t.perm[x].primary # NoSlot =>
                             /\ t.perm[x].primary \in Used(s)
                             /\ t.perm[t.perm[x].primary].backup = x
                        /\ t.perm[x].backup # NoSlot =>
                             /\ t.perm[x].backup \in Used(s)
                             /\ t.perm[t.perm[x].backup].primary = x
      BY <1>2 DEF LinkedBack
    <2>1. ASSUME t.perm[x].primary # NoSlot
          PROVE  t.perm[x].primary \in Used(s) /\ t.perm[t.perm[x].primary].backup = x
      <3>1. CASE x = p
        BY <1>3, <3>1
      <3>2. CASE x # p
        <4> DEFINE y == s.perm[x].primary
        <4>1. t.perm[x].primary = y /\ y \in Used(s) /\ s.perm[y].backup = x
          BY <1>0, <1>3, <2>1, <3>2 DEF LinkedBack
        <4>2. x # NoSlot
          BY <1>0, EntryParts
        <4>3. y # q
          BY <4>1, <4>2
        <4>4. t.perm[y].backup = x
          BY <1>3, <4>1, <4>3
        <4> QED BY <4>1, <4>4
      <3> QED BY <3>1, <3>2
    <2>2. ASSUME t.perm[x].backup # NoSlot
          PROVE  t.perm[x].backup \in Used(s) /\ t.perm[t.perm[x].backup].primary = x
      <3>1. CASE x = q
        BY <1>3, <3>1
      <3>2. CASE x # q
        <4> DEFINE y == s.perm[x].backup
        <4>1. t.perm[x].backup = y /\ y \in Used(s) /\ s.perm[y].primary = x
          BY <1>0, <1>3, <2>2, <3>2 DEF LinkedBack
        <4>2. x # NoSlot
          BY <1>0, EntryParts
        <4>3. y # p
          BY <4>1, <4>2
        <4>4. t.perm[y].primary = x
          BY <1>3, <4>1, <4>3
        <4> QED BY <4>1, <4>4
      <3> QED BY <3>1, <3>2
    <2> QED BY <2>1, <2>2
  <1>6. ChainsArePermanent(t)
    BY <1>2, <1>3 DEF Sound, Chained, ChainsArePermanent
  <1>7. ASSUME NEW x \in Used(s), x # p
         PROVE  Primaries(t, x) \subseteq Primaries(s, x)
    <2>1. PICK C : C = Primaries(s, x)
      OBVIOUS
    <2>2. C \in SUBSET Slots /\ p \notin C
      BY <2>1, ChainsAreSlots
    <2>3. \A y \in Used(t) : y = x \/ y \in C =>
             t.perm[y].primary = NoSlot \/ t.perm[y].primary \in C
      BY <1>0, <1>2, <1>3, <1>7, <2>1, <2>2, PrimariesGoOn
    <2>4. Primaries(t, x) \subseteq C
      BY <2>2, <2>3, PrimariesStayIn
    <2> QED BY <2>1, <2>4
  <1>8. p \notin Primaries(t, p)
    <2>1. PICK C : C = {q} \cup Primaries(s, q)
      OBVIOUS
    <2>2. C \in SUBSET Slots /\ p \notin C
      BY <1>0, <2>1, ChainsAreSlots
    <2>3. \A y \in Used(t) : y = p \/ y \in C =>
             t.perm[y].primary = NoSlot \/ t.perm[y].primary \in C
      BY <1>0, <1>2, <1>3, <2>1, <2>2, PrimariesGoOn
    <2>4. Primaries(t, p) \subseteq C
      BY <2>2, <2>3, PrimariesStayIn
    <2> QED BY <2>2, <2>4
  <1>9. Acyclic(t)
    BY <1>2, <1>7, <1>8 DEF Sound, Chained, Acyclic
  <1>10. Exclusive(t)
    BY <1>2, <1>3, <1>7 DEF Sound, Chained, Exclusive
  <1> QED BY <1>4, <1>5, <1>6, <1>9, <1>10 DEF Sound, Chained

\* An entry for a new name, not yet in a chain; nothing happens when the table is full.
NewlyListed(s, name) == update_permlinks(s, name, Null, TRUE)

LEMMA NewlyListedSound ==
    ASSUME NEW s, Sound(s), NEW name \in Hosts, Unlisted(s, name),
           PermlinkFor(s, name) # NoSlot, NEW p, p = PermlinkFor(s, name),
           NEW v, v = NewlyListed(s, name)
    PROVE  /\ \E e \in Permlink : Appended(s, v, p, e)
           /\ p \notin Used(s) /\ p \in Slots
           /\ v.perm[p].permanent /\ v.perm[p].name = name
           /\ v.perm[p].primary = NoSlot /\ v.perm[p].connection = Null
  <1>0. s \in State
    BY DEF Sound, Routing
  <1>1. EntryFor(s, name, p)
    BY <1>0, EntryToUse
  <1>2. p \in Slots \ Used(s) /\ s.perm[p] = Null
    BY <1>1 DEF EntryFor, Unlisted
  <1>3. PICK yes \in BOOLEAN : yes = TRUE
    OBVIOUS
  <1>4. PICK e : e = NewLink(name, Null, yes)
    OBVIOUS
  <1>5. /\ e \in Permlink /\ e.name = name /\ e.connection = Null /\ e.primary = NoSlot
        /\ e.backup = NoSlot /\ e.permanent = yes
    BY <1>4 DEF NewLink, Permlink
  <1>6. v = [s EXCEPT !.perm[p] = e]
    BY <1>2, <1>3, <1>4 DEF NewlyListed, update_permlinks
  <1>7. Unlisted(s, e.name)
    BY <1>5
  <1>8. Appended(s, v, p, e)
    BY <1>2, <1>5, <1>6, <1>7, NewEntrySound
  <1>9. v.perm[p] = e
    BY <1>8 DEF Appended
  <1> QED BY <1>2, <1>3, <1>5, <1>8, <1>9

\* The last link of the chain that begins at top.
LEMMA LastOfChain ==
    ASSUME NEW v, Sound(v), NEW p \in Used(v), v.perm[p].primary = NoSlot,
           Primaries(v, p) = {}, NEW top \in Used(v), top # p, v.perm[top].permanent,
           NEW q, q = CHOOSE x \in {top} \cup Backups(v, top) : v.perm[x].backup \in {NoSlot, p}
    PROVE  q \in Used(v) /\ q # p /\ v.perm[q].backup = NoSlot /\ v.perm[q].permanent
  <1>0. /\ v \in State /\ LinkedBack(v) /\ Acyclic(v) /\ ChainsArePermanent(v)
        /\ Backups(v, top) \subseteq Used(v)
    BY ChainsAreLinks DEF Sound, Routing, Chained
  <1>1. \E x \in {top} \cup Backups(v, top) : v.perm[x].backup \in {NoSlot, p}
    BY <1>0, ChainEnds
  <1>2. q \in {top} \cup Backups(v, top) /\ v.perm[q].backup \in {NoSlot, p}
    BY <1>1
  <1>3. q \in Used(v) /\ q # NoSlot /\ q \in Slots
    BY <1>0, <1>2, EntryParts
  <1>4. q # p
    <2>1. ASSUME q = p PROVE FALSE
      <3>1. p \in Backups(v, top)
        BY <1>2, <2>1
      <3>2. top \in Primaries(v, p)
        BY <1>0, <3>1, BelowIsAbove
      <3> QED BY <3>2
    <2> QED BY <2>1
  <1>5. v.perm[q].backup = NoSlot
    <2>1. ASSUME v.perm[q].backup = p PROVE FALSE
      <3>1. p # NoSlot
        BY <1>0, EntryParts
      <3>2. v.perm[p].primary = q
        BY <1>0, <1>3, <2>1, <3>1 DEF LinkedBack
      <3> QED BY <1>3, <3>2
    <2> QED BY <1>2, <2>1
  <1>6. v.perm[q].permanent
    <2>1. CASE q = top
      BY <2>1
    <2>2. CASE q # top
      <3>1. top \in Primaries(v, q)
        BY <1>0, <1>2, <2>2, BelowIsAbove
      <3>2. v.perm[q].primary # NoSlot
        <4> SUFFICES ASSUME v.perm[q].primary = NoSlot PROVE FALSE
          OBVIOUS
        <4>1. PICK C \in SUBSET Slots : C = {}
          OBVIOUS
        <4>2. \A x \in Used(v) : x = q \/ x \in C =>
                 v.perm[x].primary = NoSlot \/ v.perm[x].primary \in C
          BY <4>1
        <4>3. Primaries(v, q) \subseteq C
          BY <4>2, PrimariesStayIn
        <4> QED BY <3>1, <4>1, <4>3
      <3> QED BY <1>0, <1>3, <3>2 DEF ChainsArePermanent
    <2> QED BY <2>1, <2>2
  <1> QED BY <1>3, <1>4, <1>5, <1>6

\* do_link for a name that has no entry any more.
LEMMA DoLinkSound ==
    ASSUME NEW s, Sound(s), NEW name \in Hosts, Unlisted(s, name), NEW primary,
           \A x \in Used(s) : s.perm[x].name = primary => s.perm[x].permanent,
           NEW t, t = do_link(s, name, primary)
    PROVE  Sound(t)
  <1>1. CASE PermlinkFor(s, name) = NoSlot
    BY <1>1 DEF do_link
  <1>2. CASE PermlinkFor(s, name) # NoSlot
    <2>1. PICK p : p = PermlinkFor(s, name)
      OBVIOUS
    <2>2. PICK v : v = NewlyListed(s, name)
      OBVIOUS
    <2>3. /\ \E e \in Permlink : Appended(s, v, p, e)
          /\ p \notin Used(s) /\ p \in Slots
          /\ v.perm[p].permanent /\ v.perm[p].name = name
          /\ v.perm[p].primary = NoSlot /\ v.perm[p].connection = Null
      BY <1>2, <2>1, <2>2, NewlyListedSound
    <2>4. PICK top : top = IF primary = Null \/ primary = name THEN NoSlot
                           ELSE find_permlink(v, primary)
      OBVIOUS
    <2>5. PICK q : q = CHOOSE x \in {top} \cup Backups(v, top) :
                             v.perm[x].backup \in {NoSlot, p}
      OBVIOUS
    <2>6. t = IF top = NoSlot THEN v ELSE Hook(v, p, q)
      BY <1>2, <2>1, <2>2, <2>4, <2>5 DEF do_link, NewlyListed, Hook
    <2>7. /\ Sound(v) /\ Used(v) = Used(s) \cup {p} /\ Primaries(v, p) = {}
          /\ \A x \in Used(s) : v.perm[x] = s.perm[x]
          /\ \A x \in Used(v) : p \notin Primaries(v, x)
      BY <2>3 DEF Appended
    <2>8. v \in State
      BY <2>7 DEF Sound, Routing
    <2>9. CASE top = NoSlot
      BY <2>6, <2>7, <2>9
    <2>10. CASE top # NoSlot
      <3>1. top = find_permlink(v, primary) /\ primary # name
        BY <2>4, <2>10
      <3>2. top \in Used(v) /\ v.perm[top].name = primary
        BY <2>8, <2>10, <3>1, FindsByName
      <3>3. top # p
        BY <2>3, <3>1, <3>2
      <3>4. top \in Used(s) /\ v.perm[top] = s.perm[top]
        BY <2>7, <3>2, <3>3
      <3>5. v.perm[top].permanent
        BY <3>2, <3>4
      <3>6. p \in Used(v)
        BY <2>7
      <3>7. q \in Used(v) /\ q # p /\ v.perm[q].backup = NoSlot /\ v.perm[q].permanent
        BY <2>3, <2>5, <2>7, <3>2, <3>3, <3>5, <3>6, LastOfChain
      <3>8. Hooked(v, t, p, q)
        BY <2>6, <2>8, <2>10, <3>6, <3>7, HookedParts
      <3>9. ~ IsUp(v, p)
        BY <2>3 DEF IsUp, IsHost
      <3> QED BY <2>3, <2>7, <3>6, <3>7, <3>8, <3>9, ChainedOn
    <2> QED BY <2>9, <2>10
  <1> QED BY <1>1, <1>2

\* The primary an operator names is a link that is itself permanent.
PrimaryFirst(s, primary) ==
    LET top == IF primary = Null THEN NoSlot ELSE find_permlink(s, primary)
    IN  OldLinksFirst /\ top # NoSlot => s.perm[top].permanent

LEMMA PrimaryIsPermanent ==
    ASSUME OldLinksFirst, NEW s, Sound(s), NEW primary, PrimaryFirst(s, primary)
    PROVE  \A x \in Used(s) : s.perm[x].name = primary => s.perm[x].permanent
  <1>0. s \in State /\ NamesOnce(s)
    BY DEF Sound, Routing
  <1> SUFFICES ASSUME NEW x \in Used(s), s.perm[x].name = primary
               PROVE  s.perm[x].permanent
    OBVIOUS
  <1>1. primary \in Hosts /\ primary # Null
    BY <1>0, EntryParts, NullIsFresh
  <1>2. PICK top : top = find_permlink(s, primary)
    OBVIOUS
  <1>3. top # NoSlot
    BY <1>0, <1>2, FindsByName
  <1>4. top \in Used(s) /\ s.perm[top].name = primary
    BY <1>0, <1>2, <1>3, FindsByName
  <1>5. top = x
    BY <1>0, <1>4 DEF NamesOnce
  <1> QED BY <1>1, <1>2, <1>3, <1>5 DEF PrimaryFirst

LEMMA LinkAddStep ==
    ASSUME OldLinksFirst, Sound(S), NEW name \in Hosts, NEW primary \in Hosts \cup {Null},
           LinkAdd(name, primary)
    PROVE  Sound(S')
  <1>0. S \in State
    BY DEF Sound, Routing
  <1>1. PICK old : old = find_permlink(S, name)
    OBVIOUS
  <1>2. PICK s1 : s1 = WithPerm(S, CutTo(S, old))
    OBVIOUS
  <1>3. PICK types : types = {"host"}
    OBVIOUS
  <1>4. PICK c : c = S.perm[old].connection
    OBVIOUS
  <1>5. PICK u : u = ByeIf(s1, c, types)
    OBVIOUS
  <1>6. PICK t : t = IF old = NoSlot THEN S ELSE Emptied(u, old)
    OBVIOUS
  <1>7. PrimaryFirst(t, primary) /\ Become(do_link(t, name, primary))
    BY <1>1, <1>2, <1>3, <1>4, <1>5, <1>6, PartsOfS
    DEF LinkAdd, PrimaryFirst, WithPerm, Emptied
  <1>8. Sound(t) /\ Unlisted(t, name)
    <2>1. CASE old = NoSlot
      BY <1>0, <1>1, <1>6, <2>1, FindsByName DEF Unlisted
    <2>2. CASE old # NoSlot
      <3>1. old \in Used(S) /\ S.perm[old].name = name
        BY <1>0, <1>1, <2>2, FindsByName
      <3>2. Cut(S, s1, old)
        BY <1>0, <1>2, CutParts
      <3>3. t = Emptied(u, old)
        BY <1>6, <2>2
      <3>4. "host" \in types /\ types \in SUBSET {"unknown", "host"}
        BY <1>3
      <3>5. /\ Sound(t) /\ Used(t) = Used(S) \ {old}
            /\ \A q \in Used(t) : t.perm[q].name = S.perm[q].name
        BY <1>4, <1>5, <3>1, <3>2, <3>3, <3>4, OldGoes
      <3>6. NamesOnce(S)
        BY DEF Sound, Routing
      <3> QED BY <3>1, <3>5, <3>6 DEF Unlisted, NamesOnce
    <2> QED BY <2>1, <2>2
  <1>9. \A x \in Used(t) : t.perm[x].name = primary => t.perm[x].permanent
    BY <1>7, <1>8, PrimaryIsPermanent
  <1>10. PICK w : w = do_link(t, name, primary)
    OBVIOUS
  <1>11. Sound(w)
    BY <1>8, <1>9, <1>10, DoLinkSound
  <1> QED BY <1>7, <1>10, <1>11, StepTo

-----------------------------------------------------------------------------
(***************************************************************************)
(* The theorems.  They are for the setting the code is written for: a host *)
(* that is dialled answers with the name it is listed under, and /link add *)
(* names as primary only links that are themselves permanent.              *)
(***************************************************************************)
LEMMA StartsSound ==
    ASSUME Init
    PROVE  Sound(S)
  <1>1. Free \in Connection /\ Dead \in Destination
    BY LinkBounds DEF Free, Dead, Connection, Destination
  <1>2. S \in State
    BY <1>1 DEF Init, S, State
  <1>3. Used(S) = {}
    BY PartsOfS DEF Init, Used
  <1>4. \A c \in Conns : S.conn[c] = Free /\ S.seen[c] = {} /\ S.told[c] = {}
    BY PartsOfS DEF Init
  <1>5. \A h \in Hosts : Unreached(S.dest[h])
    <2>1. \A h \in Hosts : S.dest[h] = Dead
      BY PartsOfS DEF Init
    <2> QED BY <2>1 DEF Dead, Unreached
  <1>6. NamesOnce(S) /\ OneOwner(S) /\ NoneFreed(S)
    BY <1>3 DEF NamesOnce, OneOwner, NoneFreed
  <1>7. HostsListed(S)
    BY <1>4 DEF HostsListed, Free
  <1>8. Routed(S)
    BY <1>5 DEF Routed
  <1>9. ToldTrue(S) /\ SeenOnce(S)
    BY <1>4 DEF ToldTrue, SeenOnce
  <1>10. Chained(S)
    BY <1>3 DEF Chained, LinkedBack, ChainsArePermanent, Acyclic, Exclusive
  <1> QED BY <1>2, <1>6, <1>7, <1>8, <1>9, <1>10 DEF Sound, Routing

LEMMA NeighbourStep ==
    ASSUME NamesAgree, Sound(S), NEW c \in Conns, FromNeighbour(c)
    PROVE  Sound(S')
  <1>1. CASE \E name \in Hosts : MayClaim(c, name) /\ h_host_command(c, name)
    BY <1>1, HostStep
  <1>2. CASE \E h \in Hosts, rtt \in 0..MaxRtt : h_dest_command(c, h, rtt)
    BY <1>2, DestStep
  <1>3. CASE DestIsUs(c) \/ h_loop_command(c)
    BY <1>3, DestIsUsStep
  <1>4. CASE \E rtt \in 1..MaxRtt, resend \in SUBSET Hosts : h_pong_command(c, rtt, resend)
    BY <1>4, PongStep
  <1>5. CASE \E h \in Hosts, learn \in BOOLEAN : checkhost(c, h, learn)
    BY <1>5, CheckhostStep
  <1>6. CASE \E h \in Hosts : h_squit_command(c, h)
    BY <1>6, SquitStep
  <1>7. CASE SquitForUs(c) \/ LinkBreaks(c)
    BY <1>7, BreakStep
  <1> QED BY <1>1, <1>2, <1>3, <1>4, <1>5, <1>6, <1>7 DEF FromNeighbour

LEMMA OperatorStep ==
    ASSUME OldLinksFirst, Sound(S), Operator
    PROVE  Sound(S')
  <1>1. CASE \E name \in Hosts, lock \in BOOLEAN : LinkReset(name, lock)
    BY <1>1, LinkResetStep
  <1>2. CASE \E name \in Hosts, primary \in Hosts \cup {Null} : LinkAdd(name, primary)
    BY <1>2, LinkAddStep
  <1>3. CASE \E name \in Hosts : LinkDelete(name)
    BY <1>3, LinkDeleteStep
  <1> QED BY <1>1, <1>2, <1>3 DEF Operator

LEMMA MainLoopStep ==
    ASSUME Sound(S), MainLoop
    PROVE  Sound(S')
  <1>1. CASE \E late \in SUBSET Conns : free_closed_connections(late)
    BY <1>1, FreeStep
  <1>2. CASE \E h \in Hosts : expire_dests(h)
    BY <1>2, ExpireDestsStep
  <1>3. CASE \E p \in Slots : PongOverdue(p)
    BY <1>3, PongOverdueStep
  <1>4. CASE \E p \in Slots : LockExpires(p) \/ RetryTimePasses(p) \/ DialFails(p)
    BY <1>4, FlagTimersStep
  <1>5. CASE \E p \in Slots : EntryExpires(p)
    BY <1>5, EntryExpiresStep
  <1>6. CASE \E p \in Slots, c \in Conns : Dial(p, c)
    BY <1>6, DialStep
  <1> QED BY <1>1, <1>2, <1>3, <1>4, <1>5, <1>6 DEF MainLoop

LEMMA SoundStep ==
    ASSUME NamesAgree, OldLinksFirst, Sound(S), [Next]_vars
    PROVE  Sound(S')
  <1>1. CASE \E c \in Conns : accept_connect_request(c)
    BY <1>1, AcceptStep
  <1>2. CASE \E c \in Conns : FromNeighbour(c)
    BY <1>2, NeighbourStep
  <1>3. CASE \E via, h \in Hosts : learn_destination_relation_from_route(via, h)
    BY <1>3, LearnStep
  <1>4. CASE Operator
    BY <1>4, OperatorStep
  <1>5. CASE MainLoop
    BY <1>5, MainLoopStep
  <1>6. CASE UNCHANGED vars
    <2>1. S' = S
      BY <1>6 DEF vars, S
    <2> QED BY <2>1
  <1> QED BY <1>1, <1>2, <1>3, <1>4, <1>5, <1>6 DEF Next

\* The inductive invariant: where dialled hosts give the names they are listed under and
\* backups are backups of permanent links, links, connections, routes, what the neighbours
\* were told of them and the chains agree after every pass of every handler.
LEMMA AlwaysSound ==
    ASSUME NamesAgree, OldLinksFirst
    PROVE  Spec => []Sound(S)
  <1>1. Init => Sound(S)
    BY StartsSound
  <1>2. Sound(S) /\ [Next]_vars => Sound(S')
    BY SoundStep
  <1>3. Sound(S') <=> Sound(S)'
    OBVIOUS
  <1> QED BY <1>1, <1>2, <1>3, PTL DEF Spec

\* A destination is routed over an entry of permarray whose connection is an established
\* host, however links break, are replaced, time out or are deleted by the operator.
THEOREM RoutesAlwaysLive ==
    ASSUME NamesAgree, OldLinksFirst
    PROVE  Spec => []RoutesAreLive
  <1>1. ASSUME Sound(S) PROVE RoutesAreLive
    <2> SUFFICES ASSUME NEW h \in Hosts, S.dest[h].link # NoSlot
                 PROVE  /\ S.dest[h].rtt # 0
                        /\ S.dest[h].link \in Used(S)
                        /\ IsHost(S, Via(S, h))
      BY PartsOfS DEF RoutesAreLive
    <2>1. Reached(S, h)
      BY <1>1 DEF Sound, Routing, Routed, Unreached
    <2> QED BY <2>1, NullIsFresh DEF Reached, IsHost
  <1> QED BY <1>1, AlwaysSound, PTL

\* Whatever our /..DEST lines last declared reachable to a neighbour is reachable, and not
\* by way of that neighbour: update_permlinks withdraws what was behind a link that fails,
\* and the silent route_cleanup never has anything left to do.
THEOREM DeadRoutesAlwaysWithdrawn ==
    ASSUME NamesAgree, OldLinksFirst
    PROVE  Spec => [](Untrue = {}) /\ DeadRoutesAreWithdrawn
  <1>1. ASSUME Sound(S) PROVE Untrue = {}
    <2> SUFFICES ASSUME NEW b \in Conns \X Hosts, b[2] \in told[b[1]],
                        dest[b[2]].link = NoSlot \/ Via(S, b[2]) = b[1]
                 PROVE  FALSE
      BY DEF Untrue
    <2>1. b[1] \in Conns /\ b[2] \in S.told[b[1]]
      BY PartsOfS
    <2>2. MayKnow(S, b[1], b[2])
      BY <1>1, <2>1 DEF Sound, Routing, ToldTrue
    <2> QED BY <2>2, PartsOfS DEF MayKnow
  <1>2. Untrue = {} /\ (Untrue = {})' => (NamesAreUnique' => Untrue' \subseteq Untrue)
    OBVIOUS
  <1> QED BY <1>1, <1>2, AlwaysSound, PTL DEF DeadRoutesAreWithdrawn

\* The loop avoidance of h_host_command works: whoever calls whom and in whatever order,
\* a link and one above it in its chain are never established together.
THEOREM AlwaysOneOfAChain ==
    ASSUME NamesAgree, OldLinksFirst
    PROVE  Spec => [](UpTogether = {}) /\ OneOfAChain
  <1>1. ASSUME Sound(S) PROVE UpTogether = {}
    <2> SUFFICES ASSUME NEW b \in Used(S) \X Used(S), IsHost(S, perm[b[1]].connection),
                        IsHost(S, perm[b[2]].connection), b[2] \in Primaries(S, b[1])
                 PROVE  FALSE
      BY DEF UpTogether
    <2>1. b[1] \in Used(S) /\ b[2] \in Primaries(S, b[1]) \cap Used(S)
      OBVIOUS
    <2>2. ~ (IsUp(S, b[1]) /\ IsUp(S, b[2]))
      BY <1>1, <2>1 DEF Sound, Chained, Exclusive
    <2> QED BY <2>2, PartsOfS DEF IsUp
  <1>2. UpTogether = {} /\ (UpTogether = {})' =>
            (NamesAreUnique' => UpTogether' \subseteq UpTogether)
    OBVIOUS
  <1> QED BY <1>1, <1>2, AlwaysSound, PTL DEF OneOfAChain

\* checkhost never lets users of one host in over two links, so the network below it
\* stays a tree.
THEOREM AlwaysOneWayToAHost ==
    ASSUME NamesAgree, OldLinksFirst
    PROVE  Spec => []OneWayToAHost
  <1>1. ASSUME Sound(S) PROVE OneWayToAHost
    BY <1>1, PartsOfS DEF Sound, Routing, SeenOnce, OneWayToAHost
  <1> QED BY <1>1, AlwaysSound, PTL

\* The tables of conversd keep their shape.
THEOREM LinksTypeOK ==
    ASSUME NamesAgree, OldLinksFirst
    PROVE  Spec => []TypeOK
  <1>1. ASSUME Sound(S) PROVE TypeOK
    <2>1. S \in State
      BY <1>1 DEF Sound, Routing
    <2> QED BY <2>1, PartsOfS DEF State, TypeOK
  <1> QED BY <1>1, AlwaysSound, PTL

=============================================================================
