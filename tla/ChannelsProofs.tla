--------------------------- MODULE ChannelsProofs ---------------------------
(***************************************************************************)
(* The channels of a conversd, for any users, neighbours and channels.     *)
(* The handlers of Channels are operators from a state to a state, so the  *)
(* lemmas below are about states: what a helper does to one, and which     *)
(* parts of the invariant it keeps.                                        *)
(***************************************************************************)
EXTENDS Channels, FiniteSetTheorems, WellFoundedInduction, TLAPS

\* TypeOK of a state.
State == [user : [Users -> Session], remote : SUBSET Entry,
          chan : [Chans -> ChannelRecord \cup {Null}], up : SUBSET Links,
          told : [Links -> SUBSET (Names \X Chans)]]

\* Somebody is on channel c: what count_user finds out.
Occupied(s, c) == LocalsOn(s, c) # {} \/ RemotesOn(s, c) # {}

\* Somebody is on it here.
Here(s, c) == LocalsOn(s, c) # {}

(***************************************************************************)
(* The inductive invariant, as predicates of a state.  OneWay is what the  *)
(* others need of checkhost: the users of a host are all behind the same   *)
(* neighbour, and that neighbour is connected.                             *)
(***************************************************************************)
OneWay(s) ==
    /\ \A e, f \in s.remote : HostOf[e.name] = HostOf[f.name] => e.via = f.via
    /\ \A e \in s.remote : e.via \in s.up

\* NeighboursKnowOurUsers
Told(s) == \A l \in Links : s.told[l] = IF l \in s.up THEN Known(s, l) ELSE {}

\* RecordsFollowMembers
Followed(s) ==
    \A c \in Chans :
        /\ Here(s, c) => ~ Vacant(s, c)
        /\ ~ Vacant(s, c) => Occupied(s, c)
        /\ s.chan[c] # Null /\ s.chan[c].locked => s.chan[c].expires

\* OperatorFlagsBacked for session r.  A session that is off has no channel.
Backed(r) ==
    /\ r.ops \subseteq r.list
    /\ r.channel = NoChan <=> r.list = {}
    /\ r.channel # NoChan => /\ r.channel \in r.list
                             /\ r.channelop => r.channel \in r.ops
    /\ r.channel = NoChan => ~ r.channelop
    /\ ~ r.on => r.list = {}

\* ... and somebody who may only listen is operator nowhere: a vacant channel leaves him
\* the flag he had.
AllBacked(s) ==
    \A u \in Users : Backed(s.user[u]) /\ (u \in Observers => s.user[u].ops = {})

\* The record of a channel that everybody has left.
RunningOut(r, lock) == [r EXCEPT !.expires = TRUE, !.locked = lock]

\* What send_user_change_msg, send_quits, Left and Depart make of a state.
Announced(s, t, from, name, old, new, quits) ==
    /\ t \in State
    /\ t.user = s.user /\ t.remote = s.remote /\ t.chan = s.chan /\ t.up = s.up
    /\ \A l \in Links : \A k : k \in t.told[l] <=>
          IF l \in HostsToTell(s, from, new, quits)
          THEN (k \in s.told[l] /\ k # <<name, old>>) \/ (k = <<name, new>> /\ new # NoChan)
          ELSE k \in s.told[l]

QuitsSent(s, t, from, names) ==
    /\ t \in State
    /\ t.user = s.user /\ t.remote = s.remote /\ t.chan = s.chan /\ t.up = s.up
    /\ \A l \in Links : \A k : k \in t.told[l] <=>
          k \in s.told[l] /\ (l \in Featured \cap s.up /\ l # from => k[1] \notin names)

RunOut(s, t, chans, lock) ==
    /\ t \in State
    /\ t.user = s.user /\ t.remote = s.remote /\ t.up = s.up
    /\ \A c \in Chans : t.chan[c] =
          IF c \in chans /\ ~ Occupied(s, c) /\ s.chan[c] # Null
          THEN RunningOut(s.chan[c], lock) ELSE s.chan[c]

Departed(s, t, from, gone, lock) ==
    /\ RunOut(s, t, {k[2] : k \in gone}, lock)
    /\ \A l \in Links : \A k : k \in t.told[l] <=>
          k \in s.told[l] /\ (l \in s.up \ Featured /\ l # from => k \notin gone)

\* t has the same users on the same channels behind the same neighbours as s.
SameMembers(s, t) ==
    /\ \A u \in Users : t.user[u].list = s.user[u].list
    /\ \A e \in s.remote : \E f \in t.remote :
          f.name = e.name /\ f.via = e.via /\ f.channel = e.channel
    /\ \A f \in t.remote : \E e \in s.remote :
          f.name = e.name /\ f.via = e.via /\ f.channel = e.channel

-----------------------------------------------------------------------------
(***************************************************************************)
(* Sets and states.                                                        *)
(***************************************************************************)

\* A set of channels that is not empty has a lowest one.
LEMMA LowestChannel ==
    ASSUME NEW T, T \subseteq Nat, T # {}
    PROVE  Min(T) \in T
  <1>1. \E R : IsWellFoundedOn(R, Nat) /\ \A x, y \in Nat : <<y, x>> \in R <=> y < x
    <2>1. \A x, y \in Nat : <<y, x>> \in OpToRel(<, Nat) <=> y < x
      BY DEF OpToRel
    <2> QED BY <2>1, NatLessThanWellFounded, Zenon
  <1>2. PICK R : IsWellFoundedOn(R, Nat) /\ \A x, y \in Nat : <<y, x>> \in R <=> y < x
    BY <1>1
  <1>3. PICK x \in T : \A y \in T : ~ (<<y, x>> \in R)
    BY <1>2, WFMin
  <1>4. ASSUME NEW y \in T PROVE x =< y
    <2>1. x \in Nat /\ y \in Nat
      OBVIOUS
    <2>2. ~ (y < x)
      BY <1>2, <1>3, <2>1
    <2> QED BY <2>1, <2>2
  <1> QED BY <1>4 DEF Min

\* There are finitely many possible entries for remote users.
LEMMA EntriesAreFinite == IsFiniteSet(Entry)
  <1> DEFINE D == (Remote \X Links) \X (Chans \X BOOLEAN)
             f == [d \in D |-> [name |-> d[1][1], via |-> d[1][2],
                                channel |-> d[2][1], op |-> d[2][2]]]
  <1>1. IsFiniteSet(Remote) /\ IsFiniteSet(Links) /\ IsFiniteSet(Chans)
    BY ChannelBounds, FS_Subset DEF Names
  <1>2. IsFiniteSet(BOOLEAN)
    <2>1. IsFiniteSet({TRUE}) /\ IsFiniteSet({FALSE})
      BY FS_Singleton
    <2>2. IsFiniteSet({TRUE} \cup {FALSE})
      BY <2>1, FS_Union
    <2>3. {TRUE} \cup {FALSE} = BOOLEAN
      OBVIOUS
    <2> QED BY <2>2, <2>3
  <1>3. IsFiniteSet(D)
    BY <1>1, <1>2, FS_Product
  <1>4. f \in [D -> Entry]
    BY DEF Entry
  <1>5. ASSUME NEW e \in Entry
        PROVE  \E d \in D : f[d] = e
    <2> DEFINE d == <<<<e.name, e.via>>, <<e.channel, e.op>>>>
    <2>1. d \in D
      BY DEF Entry
    <2>2. f[d] = e
      BY <2>1 DEF Entry
    <2> QED BY <2>1, <2>2
  <1>6. f \in Surjection(D, Entry)
    BY <1>4, <1>5 DEF Surjection
  <1> HIDE DEF D, f
  <1> QED BY <1>3, <1>6, FS_Surjection

\* count_user tells whether a channel is occupied.
LEMMA CountUser ==
    ASSUME NEW s \in State, NEW c
    PROVE  /\ count_user(s, c) \in Nat
           /\ count_user(s, c) > 0 <=> Occupied(s, c)
           /\ count_user(s, c) = 0 <=> ~ Occupied(s, c)
  <1>1. LocalsOn(s, c) \subseteq Names /\ RemotesOn(s, c) \subseteq Entry
    BY DEF LocalsOn, RemotesOn, Names, State
  <1>2. IsFiniteSet(LocalsOn(s, c)) /\ IsFiniteSet(RemotesOn(s, c))
    BY <1>1, EntriesAreFinite, ChannelBounds, FS_Subset
  <1>3. Cardinality(LocalsOn(s, c)) \in Nat /\ Cardinality(RemotesOn(s, c)) \in Nat
    BY <1>2, FS_CardinalityType
  <1>4. /\ Cardinality(LocalsOn(s, c)) = 0 <=> LocalsOn(s, c) = {}
        /\ Cardinality(RemotesOn(s, c)) = 0 <=> RemotesOn(s, c) = {}
    BY <1>2, FS_EmptySet
  <1> QED BY <1>3, <1>4 DEF count_user, Occupied

\* The variables form a state.
LEMMA StateOfVariables == TypeOK <=> S \in State
  BY DEF TypeOK, S, State

\* A step to t makes t the state.
LEMMA StepTo ==
    ASSUME NEW t \in State, Become(t)
    PROVE  S' = t
  BY DEF Become, S, State

-----------------------------------------------------------------------------
(***************************************************************************)
(* What the helpers do.                                                    *)
(***************************************************************************)
\* What only depends on who is on which channel is kept when that is.
LEMMA SameMembersKeep ==
    ASSUME NEW s \in State, NEW t \in State, SameMembers(s, t)
    PROVE  /\ \A c : (Occupied(t, c) <=> Occupied(s, c)) /\ (Here(t, c) <=> Here(s, c))
           /\ t.up = s.up /\ OneWay(s) => OneWay(t)
           /\ t.up = s.up /\ t.told = s.told /\ Told(s) => Told(t)
  <1>1. \A c : (Occupied(t, c) <=> Occupied(s, c)) /\ (Here(t, c) <=> Here(s, c))
    BY DEF SameMembers, Occupied, Here, LocalsOn, RemotesOn
  <1>2. t.up = s.up /\ OneWay(s) => OneWay(t)
    BY DEF SameMembers, OneWay
  <1>3. ASSUME NEW l \in Links
        PROVE  Known(t, l) = Known(s, l)
    BY DEF SameMembers, Known
  <1> QED BY <1>1, <1>2, <1>3 DEF Told

\* send_user_change_msg changes the picture of those who hear it, and nothing else.
LEMMA SendUserChange ==
    ASSUME NEW s \in State, NEW from, NEW name \in Names, NEW old,
           NEW new \in Chans \cup {NoChan}, NEW quits \in BOOLEAN
    PROVE  Announced(s, send_user_change_msg(s, from, name, old, new, quits),
                     from, name, old, new, quits)
  BY DEF send_user_change_msg, Announced, State

\* UQUIT and SQUIT take the names out of a featured neighbour's picture.
LEMMA SendQuits ==
    ASSUME NEW s \in State, NEW from, NEW names
    PROVE  QuitsSent(s, send_quits(s, from, names), from, names)
  BY DEF send_quits, QuitsSent, State

\* The channels among chans that nobody is left on run out.
LEMMA LeftEffect ==
    ASSUME NEW s \in State, NEW chans \in SUBSET Chans, NEW lock \in BOOLEAN
    PROVE  /\ RunOut(s, Left(s, chans, lock), chans, lock)
           /\ Left(s, chans, lock).told = s.told
  <1> DEFINE t == Left(s, chans, lock)
             empty == {c \in chans : count_user(s, c) = 0 /\ s.chan[c] # Null}
             ch == [c \in Chans |-> IF c \in empty THEN destroy_channel(s, c, lock).chan[c]
                                    ELSE s.chan[c]]
  <1>1. \A c \in Chans : c \in empty <=> c \in chans /\ ~ Occupied(s, c) /\ s.chan[c] # Null
    BY CountUser
  <1>2. ASSUME NEW c \in empty
        PROVE  /\ destroy_channel(s, c, lock).chan[c] =
                     RunningOut(s.chan[c], lock)
               /\ destroy_channel(s, c, lock).chan[c] \in ChannelRecord
    <2>1. c \in Chans /\ s.chan[c] # Null /\ s.chan[c] \in ChannelRecord
      BY DEF State
    <2> QED BY <2>1 DEF destroy_channel, State, ChannelRecord, RunningOut
  <1>3. t = IF empty = {} THEN s ELSE [s EXCEPT !.chan = ch]
    BY DEF Left
  <1> HIDE DEF t, empty
  <1>4. ch \in [Chans -> ChannelRecord \cup {Null}]
    BY <1>2 DEF State
  <1>5. \A c \in Chans : ch[c] =
           IF c \in chans /\ ~ Occupied(s, c) /\ s.chan[c] # Null
           THEN RunningOut(s.chan[c], lock)
           ELSE s.chan[c]
    BY <1>1, <1>2
  <1> HIDE DEF ch
  <1>6. CASE empty = {}
    BY <1>1, <1>3, <1>6 DEF t, RunOut
  <1>7. CASE empty # {}
    <2>1. t \in State /\ t.chan = ch /\ t.user = s.user /\ t.remote = s.remote
            /\ t.told = s.told /\ t.up = s.up
      BY <1>3, <1>4, <1>7 DEF State
    <2> QED BY <1>5, <2>1 DEF t, RunOut
  <1> QED BY <1>6, <1>7

\* A featured neighbour has been told by a quit; the others are told of each departure.
LEMMA DepartEffect ==
    ASSUME NEW s \in State, NEW from, NEW gone, gone \subseteq Names \X Chans,
           NEW lock \in BOOLEAN
    PROVE  Departed(s, Depart(s, from, gone, lock), from, gone, lock)
  <1> DEFINE t == Depart(s, from, gone, lock)
             hear == HostsToTell(s, from, NoChan, TRUE)
             s1 == [s EXCEPT !.told = [l \in Links |-> IF l \in hear THEN s.told[l] \ gone
                                                       ELSE s.told[l]]]
             chans == {k[2] : k \in gone}
  <1>1. hear = (s.up \ {from}) \ Featured
    BY DEF HostsToTell
  <1>2. chans \in SUBSET Chans
    OBVIOUS
  <1>3. t = IF gone = {} THEN s ELSE Left(s1, chans, lock)
    BY DEF Depart
  <1>4. /\ s1 \in State
        /\ s1.user = s.user /\ s1.remote = s.remote /\ s1.up = s.up /\ s1.chan = s.chan
        /\ \A l \in Links : s1.told[l] = IF l \in hear THEN s.told[l] \ gone ELSE s.told[l]
    BY DEF State
  <1>5. CASE gone = {}
    <2>1. chans = {} /\ t = s
      BY <1>3, <1>5
    <2> HIDE DEF chans, t
    <2>2. RunOut(s, s, chans, lock)
      BY <2>1 DEF RunOut
    <2> QED BY <1>5, <2>1, <2>2 DEF Departed, t, chans
  <1>6. CASE gone # {}
    <2>1. t = Left(s1, chans, lock)
      BY <1>3, <1>6
    <2> HIDE DEF t, hear, s1, chans
    <2>2. \A c : Occupied(s1, c) <=> Occupied(s, c)
      BY <1>4 DEF Occupied, LocalsOn, RemotesOn
    <2>3. RunOut(s1, t, chans, lock) /\ t.told = s1.told
      BY <1>2, <1>4, <2>1, LeftEffect
    <2>4. RunOut(s, t, chans, lock)
      BY <1>4, <2>2, <2>3 DEF RunOut
    <2>5. \A l \in Links : \A k : k \in t.told[l] <=>
             k \in s.told[l] /\ (l \in s.up \ Featured /\ l # from => k \notin gone)
      BY <1>1, <1>4, <2>3
    <2> QED BY <2>4, <2>5 DEF Departed, t, chans
  <1> QED BY <1>5, <1>6

\* Departures from chans keep the records in step with the members: t is s1, in which
\* they have left, after Left or Depart.
LEMMA DeparturesFollowed ==
    ASSUME NEW s \in State, NEW s1 \in State, NEW t, NEW chans, NEW lock \in BOOLEAN,
           Followed(s),
           s1.chan = s.chan,
           \A c \in Chans : Here(s1, c) => Here(s, c),
           \A c \in Chans \ chans : Occupied(s, c) => Occupied(s1, c),
           RunOut(s1, t, chans, lock)
    PROVE  Followed(t)
  <1> USE DEF RunOut
  <1> SUFFICES ASSUME NEW c \in Chans
               PROVE  /\ Here(t, c) => ~ Vacant(t, c)
                      /\ ~ Vacant(t, c) => Occupied(t, c)
                      /\ t.chan[c] # Null /\ t.chan[c].locked => t.chan[c].expires
    BY DEF Followed
  <1>1. /\ Occupied(t, c) <=> Occupied(s1, c)
        /\ Here(t, c) <=> Here(s1, c)
        /\ Here(s1, c) => Occupied(s1, c)
    BY DEF Occupied, Here, LocalsOn, RemotesOn
  <1>2. /\ Here(s, c) => ~ Vacant(s, c)
        /\ ~ Vacant(s, c) => Occupied(s, c)
        /\ s.chan[c] # Null /\ s.chan[c].locked => s.chan[c].expires
    BY DEF Followed
  <1>3. CASE c \in chans /\ ~ Occupied(s1, c) /\ s1.chan[c] # Null
    <2>1. s.chan[c] \in ChannelRecord
      BY <1>3 DEF State
    <2>2. t.chan[c] \in ChannelRecord /\ t.chan[c].expires
      BY <1>3, <2>1 DEF ChannelRecord, RunningOut
    <2>3. Vacant(t, c)
      BY <2>2 DEF Vacant
    <2> QED BY <1>1, <1>3, <2>2, <2>3
  <1>4. CASE ~ (c \in chans /\ ~ Occupied(s1, c) /\ s1.chan[c] # Null)
    <2>1. t.chan[c] = s.chan[c]
      BY <1>4
    <2>2. Vacant(t, c) <=> Vacant(s, c)
      BY <2>1 DEF Vacant
    <2>3. ~ Vacant(s, c) => Occupied(s1, c)
      BY <1>2, <1>4 DEF Vacant
    <2> QED BY <1>1, <1>2, <2>1, <2>2, <2>3
  <1> QED BY <1>3, <1>4

-----------------------------------------------------------------------------
(***************************************************************************)
(* Local users.                                                            *)
(***************************************************************************)

\* /quit and any end of a session.
LEMMA UserQuitsKeeps ==
    ASSUME NEW s \in State, NEW u \in Users
    PROVE  LET t == UserQuits(s, u)
           IN  /\ t \in State
               /\ t.user = [s.user EXCEPT ![u] = Offline]
               /\ OneWay(s) => OneWay(t)
               /\ Told(s) => Told(t)
               /\ Followed(s) => Followed(t)
               /\ AllBacked(s) => AllBacked(t)
  <1> DEFINE lock == FALSE
             gone == {<<u, c>> : c \in s.user[u].list}
             s0 == send_quits(s, Null, {u})
             s1 == [s0 EXCEPT !.user[u] = Offline]
             t == Depart(s1, Null, gone, lock)
  <1>1. Offline \in Session
    BY DEF Offline, Session
  <1>2. s.user[u].list \subseteq Chans /\ gone \subseteq Names \X Chans
    BY DEF State, Session, Names
  <1>3. QuitsSent(s, s0, Null, {u})
    BY SendQuits
  <1>4. UserQuits(s, u) = t
    BY DEF UserQuits
  <1>5. lock \in BOOLEAN
    OBVIOUS
  <1> HIDE DEF s0, lock
  <1>6. /\ s1 \in State
        /\ s1.user = [s.user EXCEPT ![u] = Offline]
        /\ s1.remote = s.remote /\ s1.chan = s.chan /\ s1.up = s.up /\ s1.told = s0.told
    BY <1>1, <1>3 DEF QuitsSent, State
  <1> HIDE DEF s1, gone
  <1>7. Departed(s1, t, Null, gone, lock)
    BY <1>2, <1>5, <1>6, DepartEffect
  <1>8. /\ t \in State
         /\ t.user = s1.user /\ t.remote = s.remote /\ t.up = s.up
    BY <1>6, <1>7 DEF Departed, RunOut
  <1> HIDE DEF t
  <1>9. /\ t.user[u] = Offline
        /\ \A v \in Users \ {u} : t.user[v] = s.user[v]
    BY <1>6, <1>8 DEF State
  <1>10. OneWay(s) => OneWay(t)
    BY <1>8 DEF OneWay
  <1>11. ASSUME Told(s) PROVE Told(t)
    <2> SUFFICES ASSUME NEW l \in Links
                 PROVE  t.told[l] = IF l \in t.up THEN Known(t, l) ELSE {}
      BY DEF Told
    <2>1. l # Null
      BY ChannelBounds
    <2>2. s.told[l] = IF l \in s.up THEN Known(s, l) ELSE {}
      BY <1>11 DEF Told
    <2>3. CASE l \notin s.up
      BY <1>3, <1>6, <1>7, <1>8, <2>2, <2>3 DEF Departed, QuitsSent
    <2>4. CASE l \in s.up
      <3>1. Known(t, l) = Known(s, l) \ gone
        <4>1. u \notin Remote
          BY ChannelBounds
        <4>2. \A e \in s.remote : e.name # u
          BY <4>1 DEF State, Entry
        <4> QED BY <1>8, <1>9, <4>2 DEF Known, Offline, gone
      <3>2. \A k \in Known(s, l) : k[1] \notin {u} <=> k \notin gone
        <4>1. \A e \in s.remote : e.name # u
          BY ChannelBounds DEF State, Entry
        <4> QED BY <4>1 DEF Known, gone
      <3>3. \A k : k \in t.told[l] <=> k \in Known(s, l) \ gone
        BY <1>3, <1>6, <1>7, <2>1, <2>2, <2>4, <3>2 DEF Departed, QuitsSent
      <3>4. t.told[l] = Known(t, l)
        BY <3>1, <3>3
      <3> QED BY <1>8, <2>4, <3>4
    <2> QED BY <2>3, <2>4
  <1>12. ASSUME Followed(s) PROVE Followed(t)
    <2> DEFINE chans == {k[2] : k \in gone}
    <2>2. \A c : Here(s1, c) => Here(s, c)
      BY <1>6 DEF Here, LocalsOn, State, Offline
    <2>3. ASSUME NEW c \in s.user[u].list PROVE c \in chans
      <3>1. <<u, c>> \in gone /\ <<u, c>>[2] = c
        BY DEF gone
      <3> QED BY <3>1
    <2>4. \A c \in Chans \ chans : Occupied(s, c) => Occupied(s1, c)
      BY <1>6, <2>3 DEF Occupied, LocalsOn, RemotesOn, State
    <2>5. RunOut(s1, t, chans, lock)
      BY <1>7 DEF Departed
    <2> HIDE DEF chans
    <2> QED BY <1>5, <1>6, <1>12, <2>2, <2>4, <2>5, DeparturesFollowed
  <1>13. ASSUME AllBacked(s) PROVE AllBacked(t)
    <2>1. Backed(Offline) /\ Offline.ops = {}
      BY DEF Backed, Offline
    <2> QED BY <1>9, <1>13, <2>1 DEF AllBacked
  <1> QED BY <1>4, <1>6, <1>8, <1>10, <1>11, <1>12, <1>13

\* A channel somebody enters has a record that does not run out.
LEMMA EnteredRecord ==
    ASSUME NEW s \in State, NEW c \in Chans, NEW name \in Names
    PROVE  /\ Entered(s, c, name) \in ChannelRecord
           /\ ~ Entered(s, c, name).expires
           /\ Followed(s) => ~ Entered(s, c, name).locked
  <1>1. s.chan[c] \in ChannelRecord \cup {Null}
    BY DEF State
  <1>2. CASE s.chan[c] = Null
    BY <1>2 DEF Entered, NewChannel, ChannelRecord
  <1>3. CASE s.chan[c] # Null /\ s.chan[c].expires
    BY <1>1, <1>3 DEF Entered, ChannelRecord
  <1>4. CASE s.chan[c] # Null /\ ~ s.chan[c].expires
    BY <1>1, <1>4 DEF Entered, ChannelRecord, Followed
  <1> QED BY <1>2, <1>3, <1>4

\* /channel and the login: u enters c.
LEMMA JoinKeeps ==
    ASSUME NEW s \in State, NEW u \in Users, NEW c \in Chans
    PROVE  LET t == Join(s, u, c)
           IN  /\ t \in State
               /\ \A v \in Users \ {u} : t.user[v] = s.user[v]
               /\ t.user[u].list = s.user[u].list \cup {c}
               /\ t.user[u].ops \subseteq s.user[u].ops \cup {c}
               /\ OneWay(s) => OneWay(t)
               /\ Told(s) => Told(t)
               /\ Followed(s) => Followed(t)
               /\ AllBacked(s) /\ c \notin s.user[u].list /\ s.user[u].on => AllBacked(t)
  <1> DEFINE fresh == Vacant(s, c) /\ u \notin Observers
             s1 == send_user_change_msg(s, Null, u, NoChan, c, FALSE)
             r == s.user[u]
             r1 == Joined(s, u, c)
             t == Join(s, u, c)
  <1>1. r \in Session /\ u \in Names
    BY DEF State, Names
  <1>2. \E quits \in BOOLEAN : ~ quits /\ Announced(s, s1, Null, u, NoChan, c, quits)
    <2>1. \A quits \in BOOLEAN :
            Announced(s, send_user_change_msg(s, Null, u, NoChan, c, quits), Null, u, NoChan, c, quits)
      BY <1>1, SendUserChange
    <2> QED BY <2>1
  <1>3. PICK quits \in BOOLEAN : ~ quits /\ Announced(s, s1, Null, u, NoChan, c, quits)
    BY <1>2
  <1>4. /\ r1 \in Session
        /\ r1.list = r.list \cup {c} /\ r1.on = r.on /\ r1.channel = c
        /\ r1.ops = IF fresh THEN r.ops \cup {c} ELSE r.ops
        /\ r1.channelop = IF Vacant(s, c) THEN r.channelop \/ fresh ELSE FALSE
    BY <1>1 DEF Joined, Session
  <1>5. Entered(s, c, u) \in ChannelRecord
    BY <1>1, EnteredRecord
  <1>6. t = [s1 EXCEPT !.user[u] = r1, !.chan[c] = Entered(s, c, u)]
    BY DEF Join
  <1> HIDE DEF s1, r1, t, fresh
  <1>8. /\ t \in State
        /\ t.user = [s.user EXCEPT ![u] = r1] /\ t.remote = s.remote /\ t.up = s.up
        /\ t.chan = [s.chan EXCEPT ![c] = Entered(s, c, u)]
        /\ t.told = s1.told
    BY <1>3, <1>4, <1>5, <1>6 DEF Announced, State
  <1>9. t.user[u] = r1 /\ \A v \in Users \ {u} : t.user[v] = s.user[v]
    BY <1>8 DEF State
  <1>10. OneWay(s) => OneWay(t)
    BY <1>8 DEF OneWay
  <1>11. ASSUME Told(s) PROVE Told(t)
    <2> SUFFICES ASSUME NEW l \in Links
                 PROVE  t.told[l] = IF l \in t.up THEN Known(t, l) ELSE {}
      BY DEF Told
    <2>1. s.told[l] = IF l \in s.up THEN Known(s, l) ELSE {}
      BY <1>11 DEF Told
    <2>2. l \in HostsToTell(s, Null, c, quits) <=> l \in s.up
      BY <1>3, ChannelBounds DEF HostsToTell
    <2>3. c # NoChan /\ \A k \in s.told[l] : k # <<u, NoChan>>
      BY ChannelBounds DEF NoChan, State
    <2>4. \A k : k \in t.told[l] <=> k \in s.told[l] \/ (l \in s.up /\ k = <<u, c>>)
      BY <1>3, <1>8, <2>2, <2>3 DEF Announced
    <2>5. Known(t, l) = Known(s, l) \cup {<<u, c>>}
      BY <1>4, <1>8, <1>9 DEF Known
    <2> QED BY <1>8, <2>1, <2>4, <2>5
  <1>12. ASSUME Followed(s) PROVE Followed(t)
    <2> SUFFICES ASSUME NEW d \in Chans
                 PROVE  /\ Here(t, d) => ~ Vacant(t, d)
                        /\ ~ Vacant(t, d) => Occupied(t, d)
                        /\ t.chan[d] # Null /\ t.chan[d].locked => t.chan[d].expires
      BY DEF Followed
    <2>1. CASE d = c
      <3>1. Occupied(t, d)
        BY <1>4, <1>9, <2>1 DEF Occupied, LocalsOn
      <3>2. t.chan[d] = Entered(s, c, u)
        BY <1>8, <2>1 DEF State
      <3>3. ~ t.chan[d].expires /\ ~ t.chan[d].locked /\ t.chan[d] # Null
        BY <1>1, <1>5, <1>12, <3>2, EnteredRecord, NoRecord
      <3> QED BY <3>1, <3>3 DEF Vacant
    <2>2. CASE d # c
      <3>1. (Occupied(t, d) <=> Occupied(s, d)) /\ (Here(t, d) <=> Here(s, d))
        BY <1>4, <1>8, <1>9, <2>2 DEF Occupied, Here, LocalsOn, RemotesOn
      <3>2. t.chan[d] = s.chan[d]
        BY <1>8, <2>2 DEF State
      <3> QED BY <1>12, <3>1, <3>2 DEF Followed, Vacant
    <2> QED BY <2>1, <2>2
  <1>13. ASSUME AllBacked(s), c \notin s.user[u].list, s.user[u].on PROVE AllBacked(t)
    <2>1. Backed(r) /\ (u \in Observers => r.ops = {})
      BY <1>13 DEF AllBacked
    <2>2. c # NoChan
      BY ChannelBounds DEF NoChan
    <2>3. u \in Observers => r1.ops = {} /\ ~ r1.channelop
      BY <1>1, <1>4, <2>1 DEF fresh, Backed, Session
    <2>4. r1.channelop => c \in r1.ops
      BY <1>1, <1>4, <1>13, <2>1, <2>3 DEF fresh, Backed, Session
    <2>5. Backed(r1)
      BY <1>1, <1>4, <1>13, <2>1, <2>2, <2>4 DEF Backed
    <2> QED BY <1>9, <1>13, <2>3, <2>5 DEF AllBacked
  <1>14. r1.ops \subseteq r.ops \cup {c}
    BY <1>4
  <1> QED BY <1>4, <1>8, <1>9, <1>10, <1>11, <1>12, <1>13, <1>14 DEF t

\* A session that leaves a channel: its flag is still backed.
LEMMA WithoutBacked ==
    ASSUME NEW r \in Session, NEW c \in r.list
    PROVE  /\ Without(r, c) \in Session
           /\ Without(r, c).list = r.list \ {c}
           /\ Without(r, c).ops = r.ops \ {c}
           /\ Backed(r) => Backed(Without(r, c))
  <1> DEFINE rest == r.list \ {c}
             default == IF r.channel # c THEN r.channel
                        ELSE IF rest = {} THEN NoChan ELSE Min(rest)
             w == Without(r, c)
  <1>1. rest \subseteq Chans /\ rest \subseteq Nat
    BY ChannelBounds DEF Session
  <1>2. rest # {} => Min(rest) \in rest
    BY <1>1, LowestChannel
  <1>3. default \in Chans \cup {NoChan}
    BY <1>1, <1>2 DEF Session
  <1>4. w = [r EXCEPT !.list = rest, !.ops = @ \ {c}, !.channel = default,
                      !.channelop = IF r.channel # c THEN @ ELSE default \in r.ops]
    BY DEF Without
  <1> HIDE DEF w
  <1>5. /\ w \in Session
        /\ w.list = rest /\ w.ops = r.ops \ {c} /\ w.channel = default /\ w.on = r.on
        /\ w.channelop = IF r.channel # c THEN r.channelop ELSE default \in r.ops
    <2> HIDE DEF default, rest
    <2>1. /\ w.list = rest /\ w.ops = r.ops \ {c} /\ w.channel = default /\ w.on = r.on
          /\ w.channelop = IF r.channel # c THEN r.channelop ELSE default \in r.ops
      BY <1>4 DEF Session
    <2>2. w.channelop \in BOOLEAN
      <3>1. r.channelop \in BOOLEAN
        BY DEF Session
      <3>2. (default \in r.ops) \in BOOLEAN
        OBVIOUS
      <3> QED BY <2>1, <3>1, <3>2, Zenon
    <2>3. /\ DOMAIN w = DOMAIN r /\ w.irc = r.irc /\ w.sysop = r.sysop
          /\ w.invited = r.invited
      BY <1>4 DEF Session
    <2>4. w = [on |-> w.on, irc |-> w.irc, channel |-> w.channel, list |-> w.list, ops |-> w.ops,
               channelop |-> w.channelop, sysop |-> w.sysop, invited |-> w.invited]
      BY <1>4 DEF Session
    <2> QED BY <1>1, <1>3, <2>1, <2>2, <2>3, <2>4 DEF Session
  <1>6. ASSUME Backed(r) PROVE Backed(w)
    <2>1. NoChan \notin Chans /\ c # NoChan /\ r.ops \subseteq Chans
      BY ChannelBounds DEF NoChan, Session
    <2>2. CASE r.channel # c
      BY <1>5, <1>6, <2>1, <2>2 DEF Backed
    <2>3. CASE r.channel = c /\ rest = {}
      BY <1>5, <1>6, <2>1, <2>3 DEF Backed
    <2>4. CASE r.channel = c /\ rest # {}
      <3>1. w.channel \in rest /\ w.channel # NoChan /\ w.channel # c
        BY <1>1, <1>2, <1>5, <2>1, <2>4
      <3>2. w.channelop => w.channel \in w.ops
        BY <1>5, <2>4, <3>1
      <3> QED BY <1>5, <1>6, <3>1, <3>2 DEF Backed
    <2> QED BY <2>2, <2>3, <2>4
  <1> QED BY <1>5, <1>6 DEF w

\* /leave, of one channel of several or in irc mode.
LEMMA LeaveKeeps ==
    ASSUME NEW s \in State, NEW u \in Users, NEW c \in s.user[u].list
    PROVE  LET t == Left(send_user_change_msg(Unlisted(s, u, c), Null, u, c, NoChan, FALSE),
                         {c}, FALSE)
           IN  /\ t \in State
               /\ \A v \in Users : t.user[v].list \subseteq s.user[v].list
                                   /\ t.user[v].ops \subseteq s.user[v].ops
               /\ OneWay(s) => OneWay(t)
               /\ Told(s) => Told(t)
               /\ Followed(s) => Followed(t)
               /\ AllBacked(s) => AllBacked(t)
  <1> DEFINE r == s.user[u]
             s1 == Unlisted(s, u, c)
             no == FALSE
             s2 == send_user_change_msg(s1, Null, u, c, NoChan, no)
             chans == {c}
             t == Left(s2, chans, no)
  <1>1. no \in BOOLEAN /\ ~ no /\ u \in Names
    BY DEF Names
  <1>2. r \in Session /\ c \in Chans
    BY DEF State, Session
  <1>3. /\ Without(r, c) \in Session
        /\ Without(r, c).list = r.list \ {c} /\ Without(r, c).ops = r.ops \ {c}
        /\ Backed(r) => Backed(Without(r, c))
    BY <1>2, WithoutBacked
  <1>4. /\ s1 \in State
        /\ s1.user = [s.user EXCEPT ![u] = Without(r, c)]
        /\ s1.remote = s.remote /\ s1.chan = s.chan /\ s1.up = s.up /\ s1.told = s.told
    BY <1>3 DEF Unlisted, State
  <1> HIDE DEF s1, no
  <1>5. Announced(s1, s2, Null, u, c, NoChan, no)
    BY <1>1, <1>4, SendUserChange
  <1>6. s2 \in State
    BY <1>5 DEF Announced
  <1> HIDE DEF s2
  <1>7. RunOut(s2, t, chans, no) /\ t.told = s2.told
    BY <1>1, <1>2, <1>6, LeftEffect
  <1> HIDE DEF t
  <1>8. /\ t \in State /\ t.user = s1.user /\ t.remote = s.remote /\ t.up = s.up
        /\ s2.chan = s.chan
    BY <1>4, <1>5, <1>7 DEF Announced, RunOut
  <1>9. t.user[u] = Without(r, c) /\ \A v \in Users \ {u} : t.user[v] = s.user[v]
    BY <1>4, <1>8 DEF State
  <1>10. OneWay(s) => OneWay(t)
    BY <1>8 DEF OneWay
  <1>11. ASSUME Told(s) PROVE Told(t)
    <2> SUFFICES ASSUME NEW l \in Links
                 PROVE  t.told[l] = IF l \in t.up THEN Known(t, l) ELSE {}
      BY DEF Told
    <2>1. s.told[l] = IF l \in s.up THEN Known(s, l) ELSE {}
      BY <1>11 DEF Told
    <2>2. l \in HostsToTell(s1, Null, NoChan, no) <=> l \in s.up
      BY <1>1, <1>4, ChannelBounds DEF HostsToTell
    <2>3. \A k : k \in t.told[l] <=> k \in s.told[l] /\ (l \in s.up => k # <<u, c>>)
      BY <1>4, <1>5, <1>7, <2>2 DEF Announced
    <2>4. Known(t, l) = Known(s, l) \ {<<u, c>>}
      <3>1. \A e \in s.remote : e.name # u
        BY ChannelBounds DEF State, Entry
      <3> QED BY <1>3, <1>8, <1>9, <3>1 DEF Known
    <2> QED BY <1>8, <2>1, <2>3, <2>4
  <1>12. ASSUME Followed(s) PROVE Followed(t)
    <2>1. \A d : Here(s2, d) => Here(s, d)
      BY <1>3, <1>4, <1>5 DEF Announced, Here, LocalsOn, State
    <2>2. \A d \in Chans \ chans : Occupied(s, d) => Occupied(s2, d)
      BY <1>3, <1>4, <1>5 DEF Announced, Occupied, LocalsOn, RemotesOn, State
    <2> HIDE DEF chans
    <2> QED BY <1>1, <1>6, <1>7, <1>8, <1>12, <2>1, <2>2, DeparturesFollowed
  <1>13. ASSUME AllBacked(s) PROVE AllBacked(t)
    BY <1>3, <1>9, <1>13 DEF AllBacked
  <1>14. \A v \in Users : t.user[v].list \subseteq s.user[v].list
                          /\ t.user[v].ops \subseteq s.user[v].ops
    BY <1>3, <1>9
  <1> QED BY <1>8, <1>10, <1>11, <1>12, <1>13, <1>14 DEF t, s2, s1, no

-----------------------------------------------------------------------------
(***************************************************************************)
(* Neighbours.                                                             *)
(***************************************************************************)

\* The users named, all of whom are behind l, are gone.  l may have been disconnected.
LEMMA QuitViaKeeps ==
    ASSUME NEW s \in State, NEW l \in Links, NEW names, names \subseteq Remote,
           NEW lock \in BOOLEAN,
           \A e \in s.remote : e.name \in names => e.via = l
    PROVE  LET t == QuitVia(s, l, names, lock)
           IN  /\ t \in State
               /\ t.user = s.user /\ t.up = s.up
               /\ \A e : e \in t.remote <=> e \in s.remote /\ ~ (e.via = l /\ e.name \in names)
               /\ Told(s) => Told(t)
               /\ Followed(s) => Followed(t)
  <1> DEFINE gone == {e \in s.remote : e.via = l /\ e.name \in names}
             pairs == {<<e.name, e.channel>> : e \in gone}
             s0 == send_quits(s, l, names)
             s1 == [s0 EXCEPT !.remote = @ \ gone]
             t == Depart(s1, l, pairs, lock)
  <1>1. QuitVia(s, l, names, lock) = t
    BY DEF QuitVia
  <1>2. QuitsSent(s, s0, l, names)
    BY SendQuits
  <1>3. pairs \subseteq Names \X Chans
    BY DEF State, Entry, Names
  <1> HIDE DEF s0
  <1>4. /\ s1 \in State
        /\ s1.user = s.user /\ s1.chan = s.chan /\ s1.up = s.up /\ s1.told = s0.told
        /\ s1.remote = s.remote \ gone
    BY <1>2 DEF QuitsSent, State
  <1> HIDE DEF s1, pairs
  <1>5. Departed(s1, t, l, pairs, lock)
    BY <1>3, <1>4, DepartEffect
  <1> HIDE DEF t
  <1>6. t \in State /\ t.user = s.user /\ t.up = s.up /\ t.remote = s.remote \ gone
    BY <1>4, <1>5 DEF Departed, RunOut
  <1>7. ASSUME Told(s) PROVE Told(t)
    <2> SUFFICES ASSUME NEW m \in Links
                 PROVE  t.told[m] = IF m \in t.up THEN Known(t, m) ELSE {}
      BY DEF Told
    <2>1. s.told[m] = IF m \in s.up THEN Known(s, m) ELSE {}
      BY <1>7 DEF Told
    <2>2. CASE m \notin s.up
      BY <1>2, <1>4, <1>5, <1>6, <2>1, <2>2 DEF Departed, QuitsSent
    <2>3. CASE m \in s.up /\ m = l
      <3>1. Known(t, m) = Known(s, m)
        BY <1>6, <2>3 DEF Known
      <3>2. \A k : k \in t.told[m] <=> k \in s.told[m]
        BY <1>2, <1>4, <1>5, <2>3 DEF Departed, QuitsSent
      <3>3. t.told[m] = s.told[m]
        BY <3>2
      <3> QED BY <1>6, <2>1, <2>3, <3>1, <3>3
    <2>4. CASE m \in s.up /\ m # l
      <3>1. \A k \in Known(s, m) : k[1] \in names <=> k \in pairs
        <4>1. \A v \in Users : v \notin names
          BY ChannelBounds
        <4> QED BY <4>1 DEF Known, pairs
      <3>2. Known(t, m) = Known(s, m) \ pairs
        <4>1. \A v \in Users : v \notin Remote
          BY ChannelBounds
        <4>2. \A e \in s.remote : e \in gone <=> e.name \in names
          OBVIOUS
        <4>3. \A e \in s.remote : e.via # m => (e \in gone <=> <<e.name, e.channel>> \in pairs)
          BY <4>2 DEF pairs
        <4>4. \A k \in Users \X Chans : k \notin pairs
          BY <4>1 DEF pairs
        <4> HIDE DEF gone
        <4> QED BY <1>6, <4>3, <4>4 DEF Known
      <3>3. \A k : k \in t.told[m] <=> k \in Known(s, m) \ pairs
        BY <1>2, <1>4, <1>5, <2>1, <2>4, <3>1 DEF Departed, QuitsSent
      <3>4. t.told[m] = Known(t, m)
        BY <3>2, <3>3
      <3> QED BY <1>6, <2>4, <3>4
    <2> QED BY <2>2, <2>3, <2>4
  <1>8. ASSUME Followed(s) PROVE Followed(t)
    <2> DEFINE chans == {k[2] : k \in pairs}
    <2>1. \A c : Here(s1, c) => Here(s, c)
      BY <1>4 DEF Here, LocalsOn
    <2>2. ASSUME NEW e \in gone PROVE e.channel \in chans
      <3>1. <<e.name, e.channel>> \in pairs
        BY DEF pairs
      <3>2. <<e.name, e.channel>>[2] = e.channel
        OBVIOUS
      <3> QED BY <3>1, <3>2
    <2>3. \A c \in Chans \ chans : Occupied(s, c) => Occupied(s1, c)
      <3> HIDE DEF chans, gone
      <3> QED BY <1>4, <2>2 DEF Occupied, LocalsOn, RemotesOn
    <2>4. RunOut(s1, t, chans, lock)
      BY <1>5 DEF Departed
    <2> HIDE DEF chans
    <2> QED BY <1>4, <1>8, <2>1, <2>3, <2>4, DeparturesFollowed
  <1>9. \A e : e \in t.remote <=> e \in s.remote /\ ~ (e.via = l /\ e.name \in names)
    BY <1>6
  <1> QED BY <1>1, <1>6, <1>7, <1>8, <1>9

\* The end of a link, and of a link on which a loop shows.
LEMMA LinkQuitsKeeps ==
    ASSUME NEW s \in State, NEW l \in Links, OneWay(s)
    PROVE  LET t == LinkQuits(s, l)
           IN  /\ t \in State
               /\ t.user = s.user
               /\ OneWay(t)
               /\ Told(s) => Told(t)
               /\ Followed(s) => Followed(t)
               /\ AllBacked(s) => AllBacked(t)
  <1> DEFINE s1 == [s EXCEPT !.up = @ \ {l}, !.told[l] = {}]
             names == {e.name : e \in {e \in s.remote : e.via = l}}
             lock == TRUE
             t == QuitVia(s1, l, names, lock)
  <1>1. LinkQuits(s, l) = t
    BY DEF LinkQuits
  <1>2. /\ s1 \in State
        /\ s1.user = s.user /\ s1.remote = s.remote /\ s1.chan = s.chan
        /\ s1.up = s.up \ {l} /\ s1.told = [s.told EXCEPT ![l] = {}]
    BY DEF State
  <1>3. names \subseteq Remote
    BY DEF State, Entry
  <1>4. \A e \in s.remote : e.name \in names <=> e.via = l
    BY DEF OneWay
  <1>5. lock \in BOOLEAN
    OBVIOUS
  <1> HIDE DEF s1, names, lock
  <1>6. /\ t \in State
        /\ t.user = s1.user /\ t.up = s1.up
        /\ \A e : e \in t.remote <=> e \in s1.remote /\ ~ (e.via = l /\ e.name \in names)
        /\ Told(s1) => Told(t)
        /\ Followed(s1) => Followed(t)
    BY <1>2, <1>3, <1>4, <1>5, QuitViaKeeps
  <1> HIDE DEF t
  <1>7. OneWay(t)
    BY <1>2, <1>4, <1>6 DEF OneWay
  <1>8. Told(s) => Told(s1)
    <2>1. \A m \in Links : Known(s1, m) = Known(s, m)
      BY <1>2 DEF Known
    <2> QED BY <1>2, <2>1 DEF Told, State
  <1>9. Followed(s) => Followed(s1)
    BY <1>2 DEF Followed, Here, Occupied, LocalsOn, RemotesOn, Vacant
  <1>10. AllBacked(s) => AllBacked(t)
    BY <1>2, <1>6 DEF AllBacked
  <1> QED BY <1>1, <1>2, <1>6, <1>7, <1>8, <1>9, <1>10

\* A record whose modes change stays what it was otherwise.
LEMMA SetModesKeeps ==
    ASSUME NEW s \in State, NEW c \in Chans, s.chan[c] # Null,
           NEW add \in SUBSET Flags, NEW remove \in SUBSET Flags
    PROVE  LET t == SetModes(s, c, add, remove)
           IN  /\ t \in State
               /\ t.user = s.user /\ t.remote = s.remote /\ t.up = s.up /\ t.told = s.told
               /\ OneWay(s) => OneWay(t)
               /\ Told(s) => Told(t)
               /\ Followed(s) => Followed(t)
               /\ AllBacked(s) => AllBacked(t)
  <1> DEFINE flags == (s.chan[c].flags \ remove) \cup Allowed(c, add)
             rec == [s.chan[c] EXCEPT !.flags = flags]
             t == SetModes(s, c, add, remove)
  <1>1. s.chan[c] \in ChannelRecord
    BY DEF State
  <1>2. flags \subseteq Flags
    BY <1>1 DEF ChannelRecord, Allowed
  <1>3. t = [s EXCEPT !.chan[c] = rec]
    BY DEF SetModes
  <1> HIDE DEF flags
  <1>4. /\ rec \in ChannelRecord /\ rec # Null
        /\ rec.expires = s.chan[c].expires /\ rec.locked = s.chan[c].locked
    BY <1>1, <1>2, NoRecord DEF ChannelRecord
  <1> HIDE DEF rec, t
  <1>5. /\ t \in State
        /\ t.user = s.user /\ t.remote = s.remote /\ t.up = s.up /\ t.told = s.told
        /\ t.chan = [s.chan EXCEPT ![c] = rec]
    BY <1>3, <1>4 DEF State
  <1>6. SameMembers(s, t)
    BY <1>5 DEF SameMembers
  <1>7. Followed(s) => Followed(t)
    <2>1. \A d \in Chans : (Occupied(t, d) <=> Occupied(s, d)) /\ (Here(t, d) <=> Here(s, d))
      BY <1>5, <1>6, SameMembersKeep
    <2>2. \A d \in Chans :
             /\ t.chan[d] = Null <=> s.chan[d] = Null
             /\ s.chan[d] # Null => /\ t.chan[d].expires = s.chan[d].expires
                                    /\ t.chan[d].locked = s.chan[d].locked
      BY <1>4, <1>5 DEF State
    <2> QED BY <2>1, <2>2 DEF Followed, Vacant
  <1>8. AllBacked(s) => AllBacked(t)
    BY <1>5 DEF AllBacked
  <1> QED BY <1>5, <1>6, <1>7, <1>8, SameMembersKeep DEF t

\* USER or NJ of a user of a host that is not known over another link.
LEMMA NewUserKeeps ==
    ASSUME NEW s \in State, NEW l \in s.up, NEW c \in Chans, NEW name \in Remote,
           NEW op \in BOOLEAN, NEW creator \in BOOLEAN, NEW older \in BOOLEAN,
           ~ HostElsewhere(s, l, name)
    PROVE  LET t == make_new_user(s, l, c, name, op, creator, older)
           IN  /\ t \in State
               /\ t.user = s.user
               /\ t.remote # s.remote => t.chan[c] # Null
               /\ OneWay(s) => OneWay(t)
               /\ Told(s) => Told(t)
               /\ Followed(s) => Followed(t)
               /\ AllBacked(s) => AllBacked(t)
  <1> DEFINE no == FALSE
             new == [name |-> name, via |-> l, channel |-> c, op |-> op /\ name \notin Observers]
             rec == Awakened(s, c, name, creator, older)
             s1 == RemoteJoins(s, l, c, name, op, creator, older)
             t == send_user_change_msg(s1, l, name, NoChan, c, no)
  <1>1. CASE \E e \in s.remote : e.name = name /\ e.via = l /\ e.channel = c
    BY <1>1 DEF make_new_user
  <1>2. CASE ~ \E e \in s.remote : e.name = name /\ e.via = l /\ e.channel = c
    <2>1. make_new_user(s, l, c, name, op, creator, older) = t
      BY <1>2 DEF make_new_user
    <2>2. /\ no \in BOOLEAN /\ ~ no /\ name \in Names /\ l \in Links
          /\ c # NoChan /\ c \in Chans \cup {NoChan}
      BY ChannelBounds DEF Names, NoChan, State
    <2>3. /\ new \in Entry /\ new.name = name /\ new.via = l /\ new.channel = c
      BY <2>2 DEF Entry
    <2>4. s.chan[c] \in ChannelRecord \cup {Null}
      BY DEF State
    <2>5. rec \in ChannelRecord /\ ~ rec.expires /\ ~ rec.locked /\ rec # Null
      <3>1. CASE s.chan[c] = Null
        <4>1. rec = NewChannel(name)
          BY <3>1 DEF Awakened
        <4> HIDE DEF rec
        <4>2. rec \in ChannelRecord /\ ~ rec.expires /\ ~ rec.locked
          BY <2>2, <4>1 DEF NewChannel, ChannelRecord
        <4> QED BY <4>2, NoRecord
      <3>2. CASE s.chan[c] # Null
        <4>1. \E by \in Names :
                rec = [s.chan[c] EXCEPT !.createby = by, !.expires = FALSE, !.locked = FALSE]
          <5> DEFINE claims == creator /\ name \notin Observers /\ (s.chan[c].expires \/ older)
          <5>1. s.chan[c].createby \in Names
            BY <2>4, <3>2 DEF ChannelRecord
          <5>2. rec = [s.chan[c] EXCEPT !.createby = IF claims THEN name ELSE s.chan[c].createby,
                                        !.expires = FALSE, !.locked = FALSE]
            BY <3>2 DEF Awakened
          <5> HIDE DEF claims, rec
          <5> QED BY <2>2, <5>1, <5>2
        <4> HIDE DEF rec
        <4> QED BY <2>4, <3>2, <4>1, NoRecord DEF ChannelRecord
      <3> QED BY <3>1, <3>2
    <2>6. s1 = [s EXCEPT !.remote = @ \cup {new}, !.chan[c] = rec]
      BY DEF RemoteJoins
    <2> HIDE DEF new, rec, s1, no
    <2>7. /\ s1 \in State
          /\ s1.user = s.user /\ s1.up = s.up /\ s1.told = s.told
          /\ s1.remote = s.remote \cup {new} /\ s1.chan = [s.chan EXCEPT ![c] = rec]
      BY <2>3, <2>5, <2>6 DEF State
    <2>8. Announced(s1, t, l, name, NoChan, c, no)
      BY <2>2, <2>7, SendUserChange
    <2> HIDE DEF t
    <2>9. /\ t \in State
          /\ t.user = s.user /\ t.up = s.up /\ t.remote = s.remote \cup {new}
          /\ t.chan = [s.chan EXCEPT ![c] = rec]
      BY <2>7, <2>8 DEF Announced
    <2>10. t.chan[c] = rec /\ \A d \in Chans \ {c} : t.chan[d] = s.chan[d]
      BY <2>9 DEF State
    <2>11. OneWay(s) => OneWay(t)
      <3>1. \A e \in s.remote : HostOf[e.name] = HostOf[name] => e.via = l
        BY DEF HostElsewhere
      <3> QED BY <2>3, <2>9, <3>1 DEF OneWay
    <2>12. ASSUME Told(s) PROVE Told(t)
      <3> SUFFICES ASSUME NEW m \in Links
                   PROVE  t.told[m] = IF m \in t.up THEN Known(t, m) ELSE {}
        BY DEF Told
      <3>1. s.told[m] = IF m \in s.up THEN Known(s, m) ELSE {}
        BY <2>12 DEF Told
      <3>2. m \in HostsToTell(s1, l, c, no) <=> m \in s.up /\ m # l
        BY <2>2, <2>7 DEF HostsToTell
      <3>3. \A k \in s.told[m] : k # <<name, NoChan>>
        BY ChannelBounds DEF NoChan, State
      <3>4. \A k : k \in t.told[m] <=> k \in s.told[m] \/ (m \in s.up /\ m # l /\ k = <<name, c>>)
        BY <2>2, <2>7, <2>8, <3>2, <3>3 DEF Announced
      <3>5. Known(t, m) = Known(s, m) \cup (IF m # l THEN {<<name, c>>} ELSE {})
        BY <2>3, <2>9 DEF Known
      <3> QED BY <2>9, <3>1, <3>4, <3>5
    <2>13. ASSUME Followed(s) PROVE Followed(t)
      <3> SUFFICES ASSUME NEW d \in Chans
                   PROVE  /\ Here(t, d) => ~ Vacant(t, d)
                          /\ ~ Vacant(t, d) => Occupied(t, d)
                          /\ t.chan[d] # Null /\ t.chan[d].locked => t.chan[d].expires
        BY DEF Followed
      <3>1. CASE d = c
        <4>1. Occupied(t, d)
          BY <2>3, <2>9, <3>1 DEF Occupied, RemotesOn
        <4> QED BY <2>5, <2>10, <3>1, <4>1 DEF Vacant
      <3>2. CASE d # c
        <4>1. (Occupied(t, d) <=> Occupied(s, d)) /\ (Here(t, d) <=> Here(s, d))
          BY <2>3, <2>9, <3>2 DEF Occupied, Here, LocalsOn, RemotesOn
        <4> QED BY <2>10, <2>13, <3>2, <4>1 DEF Followed, Vacant
      <3> QED BY <3>1, <3>2
    <2>14. AllBacked(s) => AllBacked(t)
      BY <2>9 DEF AllBacked
    <2> QED BY <2>1, <2>5, <2>9, <2>10, <2>11, <2>12, <2>13, <2>14
  <1> QED BY <1>1, <1>2

\* A neighbour's user leaves a channel.
LEMMA RemoteLeaveKeeps ==
    ASSUME NEW s \in State, NEW l \in s.up, NEW c \in Chans, NEW name \in Remote,
           ~ HostElsewhere(s, l, name)
    PROVE  LET t == RemoteLeaves(s, l, name, c)
           IN  /\ t \in State
               /\ t.user = s.user
               /\ OneWay(s) => OneWay(t)
               /\ Told(s) => Told(t)
               /\ Followed(s) => Followed(t)
               /\ AllBacked(s) => AllBacked(t)
  <1> DEFINE no == FALSE
             chans == {c}
             rest == {e \in s.remote : ~ (e.name = name /\ e.via = l /\ e.channel = c)}
             s1 == [s EXCEPT !.remote = rest]
             s2 == send_user_change_msg(s1, l, name, c, NoChan, no)
             t == Left(s2, chans, no)
  <1>1. no \in BOOLEAN /\ ~ no /\ name \in Names /\ l \in Links /\ chans \in SUBSET Chans
    BY DEF Names, State
  <1>2. /\ s1 \in State
        /\ s1.user = s.user /\ s1.chan = s.chan /\ s1.up = s.up /\ s1.told = s.told
        /\ s1.remote = rest
    BY DEF State
  <1>3. \A e \in s.remote : e \in rest <=> ~ (e.name = name /\ e.channel = c)
    BY DEF HostElsewhere
  <1>4. rest \subseteq s.remote
    OBVIOUS
  <1> HIDE DEF s1, no, rest
  <1>5. Announced(s1, s2, l, name, c, NoChan, no)
    BY <1>1, <1>2, SendUserChange
  <1>6. s2 \in State
    BY <1>5 DEF Announced
  <1> HIDE DEF s2
  <1>7. RunOut(s2, t, chans, no) /\ t.told = s2.told
    BY <1>1, <1>6, LeftEffect
  <1> HIDE DEF t
  <1>8. /\ t \in State /\ t.user = s.user /\ t.remote = rest /\ t.up = s.up
        /\ s2.chan = s.chan /\ s2.user = s.user /\ s2.remote = rest
    BY <1>2, <1>5, <1>7 DEF Announced, RunOut
  <1>9. OneWay(s) => OneWay(t)
    BY <1>4, <1>8 DEF OneWay
  <1>10. ASSUME Told(s) PROVE Told(t)
    <2> SUFFICES ASSUME NEW m \in Links
                 PROVE  t.told[m] = IF m \in t.up THEN Known(t, m) ELSE {}
      BY DEF Told
    <2>1. s.told[m] = IF m \in s.up THEN Known(s, m) ELSE {}
      BY <1>10 DEF Told
    <2>2. m \in HostsToTell(s1, l, NoChan, no) <=> m \in s.up /\ m # l
      BY <1>1, <1>2 DEF HostsToTell
    <2>3. \A k : k \in t.told[m] <=> k \in s.told[m] /\ (m \in s.up /\ m # l => k # <<name, c>>)
      BY <1>2, <1>5, <1>7, <2>2 DEF Announced
    <2>4. Known(t, m) = IF m = l THEN Known(s, m) ELSE Known(s, m) \ {<<name, c>>}
      <3>1. \A v \in Users : v # name
        BY ChannelBounds
      <3>2. \A e \in s.remote : e.via # l => e \in rest
        BY DEF rest
      <3>3. CASE m = l
        BY <1>4, <1>8, <3>2, <3>3 DEF Known
      <3>4. CASE m # l
        BY <1>3, <1>4, <1>8, <3>1, <3>4 DEF Known
      <3> QED BY <3>3, <3>4
    <2> QED BY <1>8, <2>1, <2>3, <2>4
  <1>11. ASSUME Followed(s) PROVE Followed(t)
    <2>1. \A d : Here(s2, d) => Here(s, d)
      BY <1>8 DEF Here, LocalsOn
    <2>2. \A d \in Chans \ chans : Occupied(s, d) => Occupied(s2, d)
      BY <1>3, <1>4, <1>8 DEF Occupied, LocalsOn, RemotesOn
    <2> HIDE DEF chans
    <2> QED BY <1>1, <1>6, <1>7, <1>8, <1>11, <2>1, <2>2, DeparturesFollowed
  <1>12. AllBacked(s) => AllBacked(t)
    BY <1>8 DEF AllBacked
  <1> QED BY <1>8, <1>9, <1>10, <1>11, <1>12 DEF RemoteLeaves, t, s2, s1, rest, no, chans

\* A neighbour's user moves.  Nothing is done for the new channel, which may have no record
\* or one that runs out; local members have theirs all the same.
LEMMA RemoteSwitchKeeps ==
    ASSUME NEW s \in State, NEW l \in s.up, NEW old \in Chans, NEW new \in Chans,
           NEW name \in Remote, old # new,
           ~ HostElsewhere(s, l, name)
    PROVE  LET t == RemoteMoves(s, l, name, old, new)
           IN  /\ t \in State
               /\ t.user = s.user
               /\ OneWay(s) => OneWay(t)
               /\ Told(s) => Told(t)
               /\ Followed(s) => Followed(t)
               /\ AllBacked(s) => AllBacked(t)
  <1> DEFINE no == FALSE
             chans == {old}
             at == {e \in s.remote : e.name = name /\ e.via = l /\ e.channel = old}
             moved == {[e EXCEPT !.channel = new] : e \in at}
             s1 == [s EXCEPT !.remote = (s.remote \ at) \cup moved]
             s2 == Left(s1, chans, no)
             t == send_user_change_msg(s2, l, name, old, new, no)
  <1> SUFFICES ASSUME at # {}
               PROVE  /\ t \in State
                      /\ t.user = s.user
                      /\ OneWay(s) => OneWay(t)
                      /\ Told(s) => Told(t)
                      /\ Followed(s) => Followed(t)
                      /\ AllBacked(s) => AllBacked(t)
    BY DEF RemoteMoves
  <1>1. /\ no \in BOOLEAN /\ ~ no /\ name \in Names /\ l \in Links /\ chans \in SUBSET Chans
        /\ new \in Chans \cup {NoChan} /\ new # NoChan /\ old # NoChan
    BY ChannelBounds DEF Names, NoChan, State
  <1>2. /\ \A e \in moved : e \in Entry /\ e.name = name /\ e.via = l /\ e.channel = new
        /\ moved # {}
    <2>1. \A e \in at : /\ [e EXCEPT !.channel = new] \in Entry
                        /\ [e EXCEPT !.channel = new].name = name
                        /\ [e EXCEPT !.channel = new].via = l
                        /\ [e EXCEPT !.channel = new].channel = new
      BY DEF State, Entry
    <2> HIDE DEF at
    <2> QED BY <2>1
  <1>3. /\ \A e \in at : e \in s.remote /\ e.name = name /\ e.via = l /\ e.channel = old
        /\ \A e \in s.remote : e \in at <=> (e.name = name /\ e.channel = old)
    BY DEF HostElsewhere
  <1> HIDE DEF moved, at
  <1>4. /\ s1 \in State
        /\ s1.user = s.user /\ s1.chan = s.chan /\ s1.up = s.up /\ s1.told = s.told
        /\ s1.remote = (s.remote \ at) \cup moved
    BY <1>2 DEF State
  <1> HIDE DEF s1, no
  <1>5. RunOut(s1, s2, chans, no) /\ s2.told = s.told
    BY <1>1, <1>4, LeftEffect
  <1>6. /\ s2 \in State
        /\ s2.user = s.user /\ s2.up = s.up /\ s2.remote = (s.remote \ at) \cup moved
    BY <1>4, <1>5 DEF RunOut
  <1> HIDE DEF s2
  <1>7. Announced(s2, t, l, name, old, new, no)
    BY <1>1, <1>6, SendUserChange
  <1> HIDE DEF t
  <1>8. /\ t \in State
        /\ t.user = s.user /\ t.up = s.up /\ t.remote = (s.remote \ at) \cup moved
        /\ t.chan = s2.chan
    BY <1>6, <1>7 DEF Announced
  <1>9. ASSUME OneWay(s) PROVE OneWay(t)
    <2>1. \A e \in s.remote : HostOf[e.name] = HostOf[name] => e.via = l
      BY DEF HostElsewhere
    <2> QED BY <1>2, <1>8, <1>9, <2>1 DEF OneWay
  <1>10. ASSUME Told(s) PROVE Told(t)
    <2> SUFFICES ASSUME NEW m \in Links
                 PROVE  t.told[m] = IF m \in t.up THEN Known(t, m) ELSE {}
      BY DEF Told
    <2>1. s.told[m] = IF m \in s.up THEN Known(s, m) ELSE {}
      BY <1>10 DEF Told
    <2>2. m \in HostsToTell(s2, l, new, no) <=> m \in s.up /\ m # l
      BY <1>1, <1>6 DEF HostsToTell
    <2>3. \A k : k \in t.told[m] <=>
             IF m \in s.up /\ m # l
             THEN (k \in s.told[m] /\ k # <<name, old>>) \/ k = <<name, new>>
             ELSE k \in s.told[m]
      BY <1>1, <1>5, <1>7, <2>2 DEF Announced
    <2>4. Known(t, m) = IF m = l THEN Known(s, m)
                        ELSE (Known(s, m) \ {<<name, old>>}) \cup {<<name, new>>}
      <3>1. \A v \in Users : v # name
        BY ChannelBounds
      <3>2. CASE m = l
        BY <1>2, <1>3, <1>8, <3>2 DEF Known
      <3>3. CASE m # l
        <4>1. \A k : k \in {<<e.name, e.channel>> : e \in {e \in t.remote : e.via # m}} <=>
                 \/ k # <<name, old>>
                    /\ k \in {<<e.name, e.channel>> : e \in {e \in s.remote : e.via # m}}
                 \/ k = <<name, new>>
          BY <1>2, <1>3, <1>8, <3>3
        <4>2. \A k \in Users \X Chans : k # <<name, old>>
          BY <3>1
        <4> QED BY <1>8, <3>3, <4>1, <4>2 DEF Known
      <3> QED BY <3>2, <3>3
    <2> QED BY <1>8, <2>1, <2>3, <2>4
  <1>11. ASSUME Followed(s) PROVE Followed(t)
    <2>1. \A d \in Chans : Here(s1, d) => Here(s, d)
      BY <1>4 DEF Here, LocalsOn
    <2>2. \A d \in Chans \ chans : Occupied(s, d) => Occupied(s1, d)
      BY <1>3, <1>4 DEF Occupied, LocalsOn, RemotesOn
    <2> HIDE DEF chans
    <2>3. Followed(s2)
      BY <1>1, <1>4, <1>5, <1>11, <2>1, <2>2, DeparturesFollowed
    <2>4. \A d : (Occupied(t, d) <=> Occupied(s2, d)) /\ (Here(t, d) <=> Here(s2, d))
      BY <1>6, <1>8 DEF Occupied, Here, LocalsOn, RemotesOn
    <2> QED BY <1>8, <2>3, <2>4 DEF Followed, Vacant
  <1>12. AllBacked(s) => AllBacked(t)
    BY <1>8 DEF AllBacked
  <1> QED BY <1>8, <1>9, <1>10, <1>11, <1>12

-----------------------------------------------------------------------------
(***************************************************************************)
(* Sessions and operators.                                                 *)
(***************************************************************************)

\* A session changes, but not the channels it is on.
LEMMA SessionKeeps ==
    ASSUME NEW s \in State, NEW u \in Users, NEW r \in Session, r.list = s.user[u].list
    PROVE  LET t == [s EXCEPT !.user[u] = r]
           IN  /\ t \in State /\ t.chan = s.chan /\ SameMembers(s, t)
               /\ t.user[u] = r /\ \A v \in Users \ {u} : t.user[v] = s.user[v]
               /\ OneWay(s) => OneWay(t)
               /\ Told(s) => Told(t)
               /\ Followed(s) => Followed(t)
               /\ AllBacked(s) /\ Backed(r) /\ r.ops = s.user[u].ops => AllBacked(t)
  <1> DEFINE t == [s EXCEPT !.user[u] = r]
  <1>1. /\ t \in State /\ t.chan = s.chan /\ t.remote = s.remote /\ t.up = s.up /\ t.told = s.told
        /\ t.user[u] = r /\ \A v \in Users \ {u} : t.user[v] = s.user[v]
    BY DEF State
  <1> HIDE DEF t
  <1>2. SameMembers(s, t)
    BY <1>1 DEF SameMembers
  <1>3. Followed(s) => Followed(t)
    <2>1. \A c : (Occupied(t, c) <=> Occupied(s, c)) /\ (Here(t, c) <=> Here(s, c))
      BY <1>1, <1>2, SameMembersKeep
    <2> QED BY <1>1, <2>1 DEF Followed, Vacant
  <1>4. AllBacked(s) /\ Backed(r) /\ r.ops = s.user[u].ops => AllBacked(t)
    BY <1>1 DEF AllBacked
  <1> QED BY <1>1, <1>2, <1>3, <1>4, SameMembersKeep DEF t

\* A name becomes operator; f is the channel of chan_list that is marked.
LEMMA OperatorKeeps ==
    ASSUME NEW s \in State, NEW name, NEW c \in Chans, NEW f \in [Users -> Chans \cup {NoChan}],
           name \notin Observers
    PROVE  LET t == [s EXCEPT !.user = [u \in Users |-> IF u = name
                                                        THEN OpHere(s.user[u], c, f[u])
                                                        ELSE s.user[u]],
                              !.remote = OpThere(s, name, c)]
           IN  /\ t \in State /\ SameMembers(s, t)
               /\ \A u \in Users : t.user[u].ops \subseteq s.user[u].ops \cup s.user[u].list
               /\ OneWay(s) => OneWay(t)
               /\ Told(s) => Told(t)
               /\ Followed(s) => Followed(t)
               /\ AllBacked(s) /\ (name \in Users => f[name] \in {c, s.user[name].channel})
                     => AllBacked(t)
  <1> DEFINE us == [u \in Users |-> IF u = name THEN OpHere(s.user[u], c, f[u]) ELSE s.user[u]]
             rs == OpThere(s, name, c)
             t == [s EXCEPT !.user = us, !.remote = rs]
  <1>1. ASSUME NEW u \in Users
        PROVE  LET r == s.user[u]
                   o == OpHere(r, c, f[u])
               IN  /\ o \in Session /\ o.list = r.list /\ o.channel = r.channel /\ o.on = r.on
                   /\ o.ops = r.ops \cup ({f[u]} \cap r.list)
                   /\ o.channelop <=> r.channelop \/ r.channel = c
    <2>1. s.user[u] \in Session
      BY DEF State
    <2> QED BY <2>1 DEF OpHere, Session
  <1>2. us \in [Users -> Session] /\ \A u \in Users : us[u].list = s.user[u].list
    <2>1. \A u \in Users : us[u] \in Session /\ us[u].list = s.user[u].list
      BY <1>1 DEF State
    <2> QED BY <2>1
  <1>3. /\ \A e \in s.remote : \E d \in rs :
              d.name = e.name /\ d.via = e.via /\ d.channel = e.channel
        /\ \A d \in rs : d \in Entry /\ \E e \in s.remote :
              d.name = e.name /\ d.via = e.via /\ d.channel = e.channel
    <2> DEFINE g(e) == IF e.name = name /\ e.channel = c THEN [e EXCEPT !.op = TRUE] ELSE e
    <2>1. ASSUME NEW e \in s.remote
          PROVE  /\ g(e) \in Entry
                 /\ g(e).name = e.name /\ g(e).via = e.via /\ g(e).channel = e.channel
      <3>1. e \in Entry
        BY DEF State
      <3> QED BY <3>1 DEF Entry
    <2>2. rs = {g(e) : e \in s.remote}
      BY DEF OpThere
    <2> HIDE DEF rs, g
    <2> QED BY <2>1, <2>2
  <1>4. \A u \in Users : us[u].ops \subseteq s.user[u].ops \cup s.user[u].list
    BY <1>1
  <1>5. ASSUME AllBacked(s), name \in Users => f[name] \in {c, s.user[name].channel},
               NEW u \in Users
        PROVE  Backed(us[u]) /\ (u \in Observers => us[u].ops = {})
    <2>1. Backed(s.user[u]) /\ (u \in Observers => s.user[u].ops = {})
      BY <1>5 DEF AllBacked
    <2>2. CASE u # name
      BY <2>1, <2>2
    <2>3. CASE u = name
      <3>1. c # NoChan
        BY ChannelBounds DEF NoChan
      <3>2. us[u] = OpHere(s.user[u], c, f[u])
        BY <2>3
      <3> HIDE DEF us
      <3> QED BY <1>1, <1>5, <2>1, <2>3, <3>1, <3>2 DEF Backed
    <2> QED BY <2>2, <2>3
  <1> HIDE DEF us, rs
  <1>6. /\ t \in State /\ t.chan = s.chan /\ t.remote = rs /\ t.up = s.up /\ t.told = s.told
        /\ t.user = us
    BY <1>2, <1>3 DEF State
  <1> HIDE DEF t
  <1>7. SameMembers(s, t)
    BY <1>2, <1>3, <1>6 DEF SameMembers
  <1>8. Followed(s) => Followed(t)
    <2>1. \A d : (Occupied(t, d) <=> Occupied(s, d)) /\ (Here(t, d) <=> Here(s, d))
      BY <1>6, <1>7, SameMembersKeep
    <2> QED BY <1>6, <2>1 DEF Followed, Vacant
  <1>9. AllBacked(s) /\ (name \in Users => f[name] \in {c, s.user[name].channel})
          => AllBacked(t)
    BY <1>5, <1>6 DEF AllBacked
  <1> QED BY <1>4, <1>6, <1>7, <1>8, <1>9, SameMembersKeep DEF t, us, rs

\* /channel with a channel that is already joined.
LEMMA SwitchKeeps ==
    ASSUME NEW s \in State, NEW u \in Users, NEW c \in s.user[u].list
    PROVE  LET t == [s EXCEPT !.user[u] = Switched(s, u, c), !.chan[c] = Entered(s, c, u)]
           IN  /\ t \in State /\ SameMembers(s, t)
               /\ \A v \in Users : t.user[v].ops = s.user[v].ops
               /\ OneWay(s) => OneWay(t)
               /\ Told(s) => Told(t)
               /\ Followed(s) => Followed(t)
               /\ Followed(s) /\ AllBacked(s) => AllBacked(t)
  <1> DEFINE r == s.user[u]
             w == Switched(s, u, c)
             rec == Entered(s, c, u)
             t == [s EXCEPT !.user[u] = w, !.chan[c] = rec]
  <1>1. r \in Session /\ u \in Names /\ c \in Chans
    BY DEF State, Session, Names
  <1>2. /\ w \in Session /\ w.list = r.list /\ w.ops = r.ops /\ w.on = r.on /\ w.channel = c
        /\ ~ Vacant(s, c) => (w.channelop <=> c \in r.ops)
    <2> DEFINE flag == IF Vacant(s, c) THEN r.channelop \/ u \notin Observers ELSE c \in r.ops
    <2>1. w = [r EXCEPT !.channel = c, !.channelop = flag]
      BY DEF Switched
    <2>2. flag \in BOOLEAN
      <3>1. (r.channelop \/ u \notin Observers) \in BOOLEAN /\ (c \in r.ops) \in BOOLEAN
        BY <1>1 DEF Session
      <3> QED BY <3>1, Zenon
    <2>3. ~ Vacant(s, c) => (flag <=> c \in r.ops)
      OBVIOUS
    <2> HIDE DEF flag, w
    <2> QED BY <1>1, <2>1, <2>2, <2>3 DEF Session
  <1>3. rec \in ChannelRecord /\ ~ rec.expires /\ (Followed(s) => ~ rec.locked)
    BY <1>1, EnteredRecord
  <1> HIDE DEF w, rec
  <1>4. /\ t \in State /\ t.remote = s.remote /\ t.up = s.up /\ t.told = s.told
        /\ t.user[u] = w /\ \A v \in Users \ {u} : t.user[v] = s.user[v]
        /\ t.chan[c] = rec /\ \A d \in Chans \ {c} : t.chan[d] = s.chan[d]
    BY <1>1, <1>2, <1>3 DEF State
  <1> HIDE DEF t
  <1>5. SameMembers(s, t)
    BY <1>2, <1>4 DEF SameMembers
  <1>6. \A d : (Occupied(t, d) <=> Occupied(s, d)) /\ (Here(t, d) <=> Here(s, d))
    BY <1>4, <1>5, SameMembersKeep
  <1>7. Here(s, c) /\ Occupied(s, c)
    BY DEF Here, Occupied, LocalsOn
  <1>8. rec # Null
    BY <1>3, NoRecord
  <1>9. Followed(s) => Followed(t)
    BY <1>3, <1>4, <1>6, <1>7, <1>8 DEF Followed, Vacant
  <1>10. ASSUME Followed(s), AllBacked(s) PROVE AllBacked(t)
    <2>1. ~ Vacant(s, c)
      BY <1>1, <1>7, <1>10 DEF Followed
    <2>2. Backed(r) /\ c # NoChan
      BY <1>1, <1>10, ChannelBounds DEF AllBacked, NoChan
    <2>3. Backed(w)
      BY <1>1, <1>2, <2>1, <2>2 DEF Backed
    <2> QED BY <1>2, <1>4, <1>10, <2>3 DEF AllBacked
  <1>11. \A v \in Users : t.user[v].ops = s.user[v].ops
    BY <1>2, <1>4
  <1> QED BY <1>4, <1>5, <1>9, <1>10, <1>11, SameMembersKeep DEF t, w, rec

-----------------------------------------------------------------------------
(***************************************************************************)
(* Steps.                                                                  *)
(***************************************************************************)
\* Of PrivateByInvitation and NoTakeoverInANetsplit.
Invited(s, t) ==
    \A u \in Users, c \in Chans :
        c \in t.user[u].list \ s.user[u].list /\ HasFlag(s, c, "p") => s.user[u].invited = c

Unlocked(s, t) ==
    \A u \in Users, c \in Chans :
        c \in t.user[u].ops \ s.user[u].ops =>
            \/ ~ (s.chan[c] # Null /\ s.chan[c].locked)
            \/ s.chan[c].createby = u
            \/ s.user[u].sysop

\* What the other parts of the invariant are not needed for ...
Base(s) == s \in State /\ OneWay(s) /\ Told(s)

\* ... and what a step from s to t owes.
Kept(s, t) ==
    /\ Base(t)
    /\ Followed(s) => Followed(t)
    /\ Followed(s) /\ AllBacked(s) => AllBacked(t)
    /\ Invited(s, t)
    /\ Followed(s) => Unlocked(s, t)

\* Nobody gets on a channel, and only members get to be operators.
LEMMA NobodyEnters ==
    ASSUME NEW s \in State, NEW t,
           \A u \in Users : /\ t.user[u].list \subseteq s.user[u].list
                            /\ t.user[u].ops \subseteq s.user[u].ops \cup s.user[u].list
    PROVE  Invited(s, t) /\ (Followed(s) => Unlocked(s, t))
  <1>1. Invited(s, t)
    BY DEF Invited
  <1>2. ASSUME Followed(s), NEW u \in Users, NEW c \in Chans, c \in s.user[u].list
        PROVE  s.chan[c] # Null /\ ~ s.chan[c].locked
    <2>1. Here(s, c)
      BY <1>2 DEF Here, LocalsOn
    <2> QED BY <1>2, <2>1 DEF Followed, Vacant
  <1>3. Followed(s) => Unlocked(s, t)
    BY <1>2 DEF Unlocked
  <1> QED BY <1>1, <1>3

\* A step to a state is a step of the variables.
LEMMA KeptByStep ==
    ASSUME NEW t, Become(t), Kept(S, t)
    PROVE  Kept(S, S')
  <1>1. S' = t
    BY StepTo DEF Kept, Base
  <1> QED BY <1>1

\* The variables are the parts of S.
LEMMA PartsOfS ==
    /\ S.user = user /\ S.remote = remote /\ S.chan = chan /\ S.up = up /\ S.told = told
  BY DEF S

\* A step that changes a session but not its channels.
LEMMA SessionStep ==
    ASSUME Base(S), NEW u \in Users, NEW r \in Session,
           r.list = S.user[u].list, r.ops = S.user[u].ops,
           AllBacked(S) => Backed(r),
           Become([S EXCEPT !.user[u] = r])
    PROVE  Kept(S, S')
  <1> DEFINE t == [S EXCEPT !.user[u] = r]
  <1>1. S \in State /\ OneWay(S) /\ Told(S)
    BY DEF Base
  <1>2. /\ t \in State
        /\ t.user[u] = r /\ \A v \in Users \ {u} : t.user[v] = S.user[v]
        /\ OneWay(t) /\ Told(t)
        /\ Followed(S) => Followed(t)
        /\ AllBacked(S) /\ Backed(r) => AllBacked(t)
    BY <1>1, SessionKeeps
  <1>3. Become(t)
    OBVIOUS
  <1> HIDE DEF t
  <1>4. Invited(S, t) /\ (Followed(S) => Unlocked(S, t))
    <2>1. \A v \in Users : /\ t.user[v].list \subseteq S.user[v].list
                           /\ t.user[v].ops \subseteq S.user[v].ops \cup S.user[v].list
      BY <1>2
    <2> QED BY <1>1, <2>1, NobodyEnters
  <1>5. Kept(S, t)
    BY <1>2, <1>4 DEF Kept, Base
  <1> QED BY <1>3, <1>5, KeptByStep

\* A step to the same state.
LEMMA SameStep ==
    ASSUME Base(S), Become(S)
    PROVE  Kept(S, S')
  <1>1. S \in State
    BY DEF Base
  <1>2. Invited(S, S) /\ (Followed(S) => Unlocked(S, S))
    BY <1>1, NobodyEnters
  <1>3. Kept(S, S)
    BY <1>2 DEF Kept
  <1> QED BY <1>3, KeptByStep

\* A user is told of an invitation.
LEMMA InviteStep ==
    ASSUME Base(S), NEW to \in Users, NEW c \in Chans, Become(send_invite_msg(S, to, c))
    PROVE  Kept(S, S')
  <1>1. S \in State /\ c \in Nat /\ S.user[to] \in Session
    BY ChannelBounds DEF Base, State
  <1>2. CASE ~ (S.user[to].on /\ c \notin S.user[to].list)
    <2>1. Become(S)
      BY <1>2 DEF send_invite_msg
    <2> QED BY <2>1, SameStep
  <1>3. CASE S.user[to].on /\ c \notin S.user[to].list
    <2> DEFINE r == [S.user[to] EXCEPT !.invited = c]
    <2>1. Become([S EXCEPT !.user[to] = r])
      BY <1>3 DEF send_invite_msg
    <2>2. /\ r \in Session /\ r.list = S.user[to].list /\ r.ops = S.user[to].ops
          /\ r.on = S.user[to].on
          /\ r.channel = S.user[to].channel /\ r.channelop = S.user[to].channelop
      BY <1>1 DEF Session
    <2> HIDE DEF r
    <2>3. AllBacked(S) => Backed(r)
      BY <2>2 DEF AllBacked, Backed
    <2> QED BY <2>1, <2>2, <2>3, SessionStep
  <1> QED BY <1>2, <1>3

\* What a user does without entering or leaving a channel.
LEMMA QuietUserSteps ==
    ASSUME Base(S), NEW u \in Users,
           \/ user_login_irc_partA(u)
           \/ operator_command(u)
           \/ \E c \in Chans : SysopRefused(u, c)
           \/ \E c \in Chans, to \in Users : invite_command(u, to, c)
    PROVE  Kept(S, S')
  <1>1. S \in State /\ \A v \in Users : S.user[v] \in Session
    BY DEF Base, State
  <1>2. CASE user_login_irc_partA(u)
    <2> DEFINE r == [S.user[u] EXCEPT !.on = TRUE, !.irc = TRUE]
    <2>1. Become([S EXCEPT !.user[u] = r]) /\ ~ S.user[u].on
      BY <1>2, PartsOfS DEF user_login_irc_partA
    <2>2. /\ r \in Session /\ r.list = S.user[u].list /\ r.ops = S.user[u].ops
          /\ r.channel = S.user[u].channel /\ r.channelop = S.user[u].channelop /\ r.on
      BY <1>1 DEF Session
    <2> HIDE DEF r
    <2>3. AllBacked(S) => Backed(r)
      BY <2>1, <2>2 DEF AllBacked, Backed
    <2> QED BY <2>1, <2>2, <2>3, SessionStep
  <1>3. CASE operator_command(u)
    <2> DEFINE r == [S.user[u] EXCEPT !.sysop = TRUE]
    <2>1. Become([S EXCEPT !.user[u] = r])
      BY <1>3 DEF operator_command
    <2>2. /\ r \in Session /\ r.list = S.user[u].list /\ r.ops = S.user[u].ops /\ r.on = S.user[u].on
          /\ r.channel = S.user[u].channel /\ r.channelop = S.user[u].channelop
      BY <1>1 DEF Session
    <2> HIDE DEF r
    <2>3. AllBacked(S) => Backed(r)
      BY <2>2 DEF AllBacked, Backed
    <2> QED BY <2>1, <2>2, <2>3, SessionStep
  <1>4. ASSUME NEW c \in Chans, SysopRefused(u, c)
        PROVE  Kept(S, S')
    <2> DEFINE r == [S.user[u] EXCEPT !.invited = c]
    <2> c \in Nat
      BY ChannelBounds
    <2>1. Become([S EXCEPT !.user[u] = r])
      BY <1>4 DEF SysopRefused
    <2>2. /\ r \in Session /\ r.list = S.user[u].list /\ r.ops = S.user[u].ops /\ r.on = S.user[u].on
          /\ r.channel = S.user[u].channel /\ r.channelop = S.user[u].channelop
      BY <1>1 DEF Session
    <2> HIDE DEF r
    <2>3. AllBacked(S) => Backed(r)
      BY <2>2 DEF AllBacked, Backed
    <2> QED BY <2>1, <2>2, <2>3, SessionStep
  <1>5. ASSUME NEW c \in Chans, NEW to \in Users, invite_command(u, to, c)
        PROVE  Kept(S, S')
    BY <1>5, InviteStep DEF invite_command
  <1> QED BY <1>2, <1>3, <1>4, <1>5

\* The end of a session: /quit, or /leave of the last channel.
LEMMA QuitStep ==
    ASSUME Base(S), NEW u \in Users, Become(UserQuits(S, u))
    PROVE  Kept(S, S')
  <1> DEFINE t == UserQuits(S, u)
  <1>1. S \in State /\ OneWay(S) /\ Told(S)
    BY DEF Base
  <1>2. /\ t \in State /\ OneWay(t) /\ Told(t)
        /\ t.user = [S.user EXCEPT ![u] = Offline]
        /\ Followed(S) => Followed(t)
        /\ AllBacked(S) => AllBacked(t)
    BY <1>1, UserQuitsKeeps
  <1>3. Become(t)
    OBVIOUS
  <1> HIDE DEF t
  <1>4. \A v \in Users : /\ t.user[v].list \subseteq S.user[v].list
                         /\ t.user[v].ops \subseteq S.user[v].ops \cup S.user[v].list
    BY <1>1, <1>2 DEF State, Offline
  <1>5. Kept(S, t)
    BY <1>1, <1>2, <1>4, NobodyEnters DEF Kept, Base
  <1> QED BY <1>3, <1>5, KeptByStep

\* u enters c: no netsplit lock keeps him out, and he is invited where it takes that.
LEMMA EnterStep ==
    ASSUME Base(S), NEW u \in Users, NEW c \in Chans,
           NEW r \in Session, r.list = S.user[u].list, r.ops = S.user[u].ops, r.on,
           AllBacked(S) => Backed(r) /\ c \notin S.user[u].list,
           S.user[u].sysop \/ ~ NetsplitLocked(S, u, c),
           HasFlag(S, c, "p") => S.user[u].invited = c,
           Become(Join([S EXCEPT !.user[u] = r], u, c))
    PROVE  Kept(S, S')
  <1> DEFINE s == [S EXCEPT !.user[u] = r]
             t == Join(s, u, c)
  <1>1. S \in State /\ OneWay(S) /\ Told(S)
    BY DEF Base
  <1>2. /\ s \in State /\ s.user[u] = r /\ \A v \in Users \ {u} : s.user[v] = S.user[v]
        /\ OneWay(s) /\ Told(s)
        /\ Followed(S) => Followed(s)
        /\ AllBacked(S) => AllBacked(s)
    BY <1>1, SessionKeeps
  <1>3. Become(t)
    OBVIOUS
  <1> HIDE DEF s
  <1>4. /\ t \in State
        /\ \A v \in Users \ {u} : t.user[v] = s.user[v]
        /\ t.user[u].list = s.user[u].list \cup {c}
        /\ t.user[u].ops \subseteq s.user[u].ops \cup {c}
        /\ OneWay(t) /\ Told(t)
        /\ Followed(s) => Followed(t)
        /\ AllBacked(s) /\ c \notin s.user[u].list /\ s.user[u].on => AllBacked(t)
    BY <1>2, JoinKeeps
  <1> HIDE DEF t
  <1>5. Invited(S, t)
    BY <1>2, <1>4 DEF Invited
  <1>6. Unlocked(S, t)
    BY <1>2, <1>4 DEF Unlocked, NetsplitLocked
  <1>7. AllBacked(S) => AllBacked(t)
    BY <1>2, <1>4
  <1>8. Kept(S, t)
    BY <1>2, <1>4, <1>5, <1>6, <1>7 DEF Kept, Base
  <1> QED BY <1>3, <1>8, KeptByStep

\* /channel and the login.
LEMMA EnterSteps ==
    ASSUME Base(S), NEW u \in Users, NEW c \in Chans, NEW spare \in Chans,
           JoinChannel(u, c) \/ user_login_convers_partA(u, c, spare)
    PROVE  Kept(S, S')
  <1> DEFINE r == [S.user[u] EXCEPT !.on = TRUE]
  <1>1. S \in State /\ S.user[u] \in Session
    BY DEF Base, State
  <1>2. /\ r \in Session /\ r.list = S.user[u].list /\ r.ops = S.user[u].ops /\ r.on
        /\ AllBacked(S) => Backed(r)
    <2>1. /\ r \in Session /\ r.list = S.user[u].list /\ r.ops = S.user[u].ops /\ r.on
          /\ r.channel = S.user[u].channel /\ r.channelop = S.user[u].channelop
      BY <1>1 DEF Session
    <2> HIDE DEF r
    <2> QED BY <2>1 DEF AllBacked, Backed
  <1>3. CASE JoinChannel(u, c)
    <2>1. /\ S.user[u].on /\ c \notin S.user[u].list
          /\ S.user[u].sysop \/ ~ NetsplitLocked(S, u, c)
          /\ HasFlag(S, c, "p") => S.user[u].invited = c
          /\ Become(Join(S, u, c))
      BY <1>3, PartsOfS DEF JoinChannel, NeedsInvitation
    <2>2. r = S.user[u]
      BY <1>1, <2>1 DEF Session
    <2>3. [S EXCEPT !.user[u] = r] = S
      <3> HIDE DEF r
      <3> QED BY <1>1, <2>2 DEF State
    <2> HIDE DEF r
    <2> QED BY <1>2, <2>1, <2>3, EnterStep
  <1>4. CASE user_login_convers_partA(u, c, spare)
    <2> DEFINE to == IF MayLogin(S, u, c) THEN c ELSE spare
    <2>1. /\ ~ S.user[u].on
          /\ MayLogin(S, u, c) \/ S.chan[spare] = Null
          /\ Become(Join([S EXCEPT !.user[u] = r], u, to))
      BY <1>4, PartsOfS DEF user_login_convers_partA
    <2>2. ~ NetsplitLocked(S, u, to) /\ ~ HasFlag(S, to, "p")
      BY <2>1 DEF MayLogin, NetsplitLocked, HasFlag
    <2>3. AllBacked(S) => to \notin S.user[u].list
      BY <2>1 DEF AllBacked, Backed
    <2>4. to \in Chans
      OBVIOUS
    <2> HIDE DEF to, r
    <2> QED BY <1>2, <2>1, <2>2, <2>3, <2>4, EnterStep
  <1> QED BY <1>3, <1>4

\* /channel with a channel that is joined.
LEMMA SwitchStep ==
    ASSUME Base(S), NEW u \in Users, NEW c \in Chans, SwitchChannel(u, c)
    PROVE  Kept(S, S')
  <1> DEFINE t == [S EXCEPT !.user[u] = Switched(S, u, c), !.chan[c] = Entered(S, c, u)]
  <1>1. S \in State /\ OneWay(S) /\ Told(S) /\ c \in S.user[u].list
    BY PartsOfS DEF Base, SwitchChannel
  <1>2. Become(t)
    BY DEF SwitchChannel
  <1>3. /\ t \in State /\ SameMembers(S, t)
        /\ \A v \in Users : t.user[v].ops = S.user[v].ops
        /\ OneWay(t) /\ Told(t)
        /\ Followed(S) => Followed(t)
        /\ Followed(S) /\ AllBacked(S) => AllBacked(t)
    BY <1>1, SwitchKeeps
  <1> HIDE DEF t
  <1>4. \A v \in Users : /\ t.user[v].list \subseteq S.user[v].list
                         /\ t.user[v].ops \subseteq S.user[v].ops \cup S.user[v].list
    BY <1>3 DEF SameMembers
  <1>5. Kept(S, t)
    BY <1>1, <1>3, <1>4, NobodyEnters DEF Kept, Base
  <1> QED BY <1>2, <1>5, KeptByStep

\* /leave.
LEMMA LeaveStep ==
    ASSUME Base(S), NEW u \in Users, NEW c \in Chans, leave_command(u, c)
    PROVE  Kept(S, S')
  <1> DEFINE t == Left(send_user_change_msg(Unlisted(S, u, c), Null, u, c, NoChan, FALSE),
                       {c}, FALSE)
  <1>1. S \in State /\ OneWay(S) /\ Told(S) /\ c \in S.user[u].list
    BY PartsOfS DEF Base, leave_command
  <1>2. Become(UserQuits(S, u)) \/ Become(t)
    <2>1. CASE user[u].list = {c} /\ ~ user[u].irc
      BY <2>1 DEF leave_command
    <2>2. CASE ~ (user[u].list = {c} /\ ~ user[u].irc)
      BY <2>2 DEF leave_command
    <2> QED BY <2>1, <2>2
  <1>3. CASE Become(UserQuits(S, u))
    BY <1>3, QuitStep
  <1>4. CASE Become(t)
    <2>1. /\ t \in State
          /\ \A v \in Users : t.user[v].list \subseteq S.user[v].list
                              /\ t.user[v].ops \subseteq S.user[v].ops
          /\ OneWay(t) /\ Told(t)
          /\ Followed(S) => Followed(t)
          /\ AllBacked(S) => AllBacked(t)
      BY <1>1, LeaveKeeps
    <2> HIDE DEF t
    <2>2. \A v \in Users : /\ t.user[v].list \subseteq S.user[v].list
                           /\ t.user[v].ops \subseteq S.user[v].ops \cup S.user[v].list
      BY <2>1
    <2>3. Kept(S, t)
      BY <1>1, <2>1, <2>2, NobodyEnters DEF Kept, Base
    <2> QED BY <1>4, <2>3, KeptByStep
  <1> QED BY <1>2, <1>3, <1>4

\* The modes of a channel change.
LEMMA ModeStep ==
    ASSUME Base(S), NEW c \in Chans, S.chan[c] # Null,
           NEW add \in SUBSET Flags, NEW remove \in SUBSET Flags,
           Become(SetModes(S, c, add, remove))
    PROVE  Kept(S, S')
  <1> DEFINE t == SetModes(S, c, add, remove)
  <1>1. S \in State /\ OneWay(S) /\ Told(S)
    BY DEF Base
  <1>2. /\ t \in State /\ OneWay(t) /\ Told(t) /\ t.user = S.user
        /\ Followed(S) => Followed(t)
        /\ AllBacked(S) => AllBacked(t)
    BY <1>1, SetModesKeeps
  <1>3. Become(t)
    OBVIOUS
  <1> HIDE DEF t
  <1>4. Invited(S, t) /\ (Followed(S) => Unlocked(S, t))
    BY <1>1, <1>2, NobodyEnters
  <1>5. Kept(S, t)
    BY <1>2, <1>4 DEF Kept, Base
  <1> QED BY <1>3, <1>5, KeptByStep

\* /mode, which takes irc letters from irc sessions.
LEMMA UserModeStep ==
    ASSUME Base(S), NEW u \in Users, NEW c \in Chans, NEW f \in Flags,
           NEW remove \in BOOLEAN, mode_command(u, c, f, remove)
    PROVE  Kept(S, S')
  <1> DEFINE letters == (IF user[u].irc THEN IrcMeaning(f) ELSE {f}) \cap Flags
             none == {}
  <1>1. letters \in SUBSET Flags /\ none \in SUBSET Flags
    OBVIOUS
  <1>2. /\ S.chan[c] # Null
        /\ Become(IF remove THEN SetModes(S, c, none, letters) ELSE SetModes(S, c, letters, none))
    BY PartsOfS DEF mode_command, MayMode
  <1> HIDE DEF letters, none
  <1>3. CASE remove
    BY <1>1, <1>2, <1>3, ModeStep
  <1>4. CASE ~ remove
    BY <1>1, <1>2, <1>4, ModeStep
  <1> QED BY <1>3, <1>4

\* MODE of a neighbour.
LEMMA HostModeStep ==
    ASSUME Base(S), NEW l \in Links, NEW c \in Chans, NEW flags \in SUBSET Flags,
           HostMode(l, c, flags)
    PROVE  Kept(S, S')
  <1> DEFINE every == Flags
  <1>1. every \in SUBSET Flags
    OBVIOUS
  <1>2. S.chan[c] # Null /\ Become(SetModes(S, c, flags, every))
    BY PartsOfS DEF HostMode
  <1> HIDE DEF every
  <1> QED BY <1>1, <1>2, ModeStep

\* A name becomes operator.
LEMMA OperatorStep ==
    ASSUME Base(S), NEW name, NEW c \in Chans, NEW f \in [Users -> Chans \cup {NoChan}],
           name \notin Observers,
           name \in Users => f[name] \in {c, S.user[name].channel},
           Become([S EXCEPT !.user = [u \in Users |-> IF u = name
                                                      THEN OpHere(S.user[u], c, f[u])
                                                      ELSE S.user[u]],
                            !.remote = OpThere(S, name, c)])
    PROVE  Kept(S, S')
  <1> DEFINE t == [S EXCEPT !.user = [u \in Users |-> IF u = name
                                                      THEN OpHere(S.user[u], c, f[u])
                                                      ELSE S.user[u]],
                            !.remote = OpThere(S, name, c)]
  <1>1. S \in State /\ OneWay(S) /\ Told(S)
    BY DEF Base
  <1>2. /\ t \in State /\ SameMembers(S, t)
        /\ \A u \in Users : t.user[u].ops \subseteq S.user[u].ops \cup S.user[u].list
        /\ OneWay(t) /\ Told(t)
        /\ Followed(S) => Followed(t)
        /\ AllBacked(S) => AllBacked(t)
    BY <1>1, OperatorKeeps
  <1>3. Become(t)
    OBVIOUS
  <1> HIDE DEF t
  <1>4. \A v \in Users : /\ t.user[v].list \subseteq S.user[v].list
                         /\ t.user[v].ops \subseteq S.user[v].ops \cup S.user[v].list
    BY <1>2 DEF SameMembers
  <1>5. Kept(S, t)
    BY <1>1, <1>2, <1>4, NobodyEnters DEF Kept, Base
  <1> QED BY <1>3, <1>5, KeptByStep

\* /mode +o, and the operators the main loop appoints.
LEMMA MakeOpStep ==
    ASSUME Base(S), NEW c \in Chans, NEW name \in Names, name \notin Observers,
           Become(MakeOp(S, name, c))
    PROVE  Kept(S, S')
  <1> DEFINE f == [v \in Users |-> c]
  <1>1. MakeOp(S, name, c) =
           [S EXCEPT !.user = [v \in Users |-> IF v = name THEN OpHere(S.user[v], c, f[v])
                                               ELSE S.user[v]],
                     !.remote = OpThere(S, name, c)]
    BY DEF MakeOp
  <1>2. f \in [Users -> Chans \cup {NoChan}] /\ (name \in Users => f[name] = c)
    OBVIOUS
  <1> HIDE DEF f
  <1> QED BY <1>1, <1>2, OperatorStep

\* OPER of a neighbour, for a channel.
LEMMA HostOperStep ==
    ASSUME Base(S), NEW c \in Chans, NEW l \in Links, NEW name \in Names,
           h_oper_command(l, name, c)
    PROVE  Kept(S, S')
  <1> DEFINE f == [v \in Users |-> S.user[v].channel]
  <1>1. /\ name \notin Observers
        /\ Become([S EXCEPT !.user = [v \in Users |->
                                         IF v = name THEN OpHere(S.user[v], c, S.user[v].channel)
                                         ELSE S.user[v]],
                            !.remote = OpThere(S, name, c)])
    BY PartsOfS DEF h_oper_command
  <1>2. [v \in Users |-> IF v = name THEN OpHere(S.user[v], c, S.user[v].channel)
                         ELSE S.user[v]] =
        [v \in Users |-> IF v = name THEN OpHere(S.user[v], c, f[v]) ELSE S.user[v]]
    OBVIOUS
  <1>3. f \in [Users -> Chans \cup {NoChan}]
    BY DEF Base, State, Session
  <1>4. name \in Users => f[name] = S.user[name].channel
    OBVIOUS
  <1> HIDE DEF f
  <1> QED BY <1>1, <1>2, <1>3, <1>4, OperatorStep

\* A neighbour connects: it is told of everybody who is not its own.
LEMMA HostStep ==
    ASSUME Base(S), NEW l \in Links, h_host_command(l)
    PROVE  Kept(S, S')
  <1> DEFINE known == Known(S, l)
             t == [S EXCEPT !.up = @ \cup {l}, !.told[l] = known]
  <1>1. S \in State /\ OneWay(S) /\ Told(S)
    BY DEF Base
  <1>2. Become(t)
    BY DEF h_host_command
  <1>3. known \subseteq Names \X Chans
    BY <1>1 DEF Known, State, Entry, Names
  <1> HIDE DEF known
  <1>4. /\ t \in State /\ t.user = S.user /\ t.remote = S.remote /\ t.chan = S.chan
        /\ t.up = S.up \cup {l} /\ t.told = [S.told EXCEPT ![l] = known]
    BY <1>1, <1>3 DEF State
  <1> HIDE DEF t
  <1>5. OneWay(t)
    BY <1>1, <1>4 DEF OneWay
  <1>6. Told(t)
    <2>1. \A m \in Links : Known(t, m) = Known(S, m)
      BY <1>4 DEF Known
    <2> QED BY <1>1, <1>4, <2>1 DEF Told, State, known
  <1>7. SameMembers(S, t)
    BY <1>4 DEF SameMembers
  <1>8. Followed(S) => Followed(t)
    <2>1. \A c : (Occupied(t, c) <=> Occupied(S, c)) /\ (Here(t, c) <=> Here(S, c))
      BY <1>1, <1>4, <1>7, SameMembersKeep
    <2> QED BY <1>4, <2>1 DEF Followed, Vacant
  <1>9. AllBacked(S) => AllBacked(t)
    BY <1>4 DEF AllBacked
  <1>10. Invited(S, t) /\ (Followed(S) => Unlocked(S, t))
    BY <1>1, <1>4, NobodyEnters
  <1>11. Kept(S, t)
    BY <1>4, <1>5, <1>6, <1>8, <1>9, <1>10 DEF Kept, Base
  <1> QED BY <1>2, <1>11, KeptByStep

\* A connection is gone, or shows a loop.
LEMMA LinkQuitsStep ==
    ASSUME Base(S), NEW l \in Links, Become(LinkQuits(S, l))
    PROVE  Kept(S, S')
  <1> DEFINE t == LinkQuits(S, l)
  <1>1. S \in State /\ OneWay(S) /\ Told(S)
    BY DEF Base
  <1>2. /\ t \in State /\ OneWay(t) /\ Told(t) /\ t.user = S.user
        /\ Followed(S) => Followed(t)
        /\ AllBacked(S) => AllBacked(t)
    BY <1>1, LinkQuitsKeeps
  <1>3. Become(t)
    OBVIOUS
  <1> HIDE DEF t
  <1>4. Invited(S, t) /\ (Followed(S) => Unlocked(S, t))
    BY <1>1, <1>2, NobodyEnters
  <1>5. Kept(S, t)
    BY <1>2, <1>4 DEF Kept, Base
  <1> QED BY <1>3, <1>5, KeptByStep

\* Steps of a neighbour's users leave the local sessions alone.
LEMMA RemoteStep ==
    ASSUME Base(S), NEW t \in State, Become(t),
           t.user = S.user, OneWay(t), Told(t),
           Followed(S) => Followed(t)
    PROVE  Kept(S, S')
  <1>1. S \in State
    BY DEF Base
  <1>2. AllBacked(S) => AllBacked(t)
    BY DEF AllBacked
  <1>3. Invited(S, t) /\ (Followed(S) => Unlocked(S, t))
    BY <1>1, NobodyEnters
  <1>4. Kept(S, t)
    BY <1>2, <1>3 DEF Kept, Base
  <1> QED BY <1>4, KeptByStep

\* USER and NJ with a join.
LEMMA RemoteJoinSteps ==
    ASSUME Base(S), NEW l \in Links, NEW name \in Remote, NEW c \in Chans,
           NEW op \in BOOLEAN, NEW creator \in BOOLEAN, NEW older \in BOOLEAN,
           NEW modes \in SUBSET Flags,
           \/ h_user_join(l, name, c)
           \/ h_netjoin_command(l, name, c, op, creator, older, modes)
    PROVE  Kept(S, S')
  <1> DEFINE no == FALSE
             none == {}
  <1>1. S \in State /\ OneWay(S) /\ Told(S) /\ no \in BOOLEAN /\ none \in SUBSET Flags
    BY DEF Base
  <1>2. l \in S.up
    BY PartsOfS DEF h_user_join, h_netjoin_command
  <1>3. CASE HostElsewhere(S, l, name)
    <2>1. Become(LinkQuits(S, l))
      BY <1>3 DEF h_user_join, h_netjoin_command, checkhost
    <2> QED BY <2>1, LinkQuitsStep
  <1>4. CASE ~ HostElsewhere(S, l, name) /\ h_user_join(l, name, c)
    <2> DEFINE t == make_new_user(S, l, c, name, no, no, no)
    <2>1. Become(t)
      BY <1>4 DEF h_user_join, checkhost
    <2> HIDE DEF no
    <2>2. /\ t \in State /\ t.user = S.user /\ OneWay(t) /\ Told(t)
          /\ Followed(S) => Followed(t)
      BY <1>1, <1>2, <1>4, NewUserKeeps
    <2> HIDE DEF t
    <2> QED BY <2>1, <2>2, RemoteStep
  <1>5. CASE ~ HostElsewhere(S, l, name)
             /\ h_netjoin_command(l, name, c, op, creator, older, modes)
    <2> DEFINE t == make_new_user(S, l, c, name, op, creator, older)
               w == SetModes(t, c, modes, none)
    <2>1. Become(IF t.remote = S.remote THEN t ELSE w)
      BY <1>5, PartsOfS DEF h_netjoin_command, checkhost
    <2>2. /\ t \in State /\ t.user = S.user /\ OneWay(t) /\ Told(t)
          /\ t.remote # S.remote => t.chan[c] # Null
          /\ Followed(S) => Followed(t)
      BY <1>1, <1>2, <1>5, NewUserKeeps
    <2> HIDE DEF t, none
    <2>3. CASE t.remote = S.remote
      BY <2>1, <2>2, <2>3, RemoteStep
    <2>4. CASE t.remote # S.remote
      <3>1. Become(w)
        BY <2>1, <2>4
      <3>2. /\ w \in State /\ w.user = t.user
            /\ OneWay(t) => OneWay(w)
            /\ Told(t) => Told(w)
            /\ Followed(t) => Followed(w)
        BY <1>1, <2>2, <2>4, SetModesKeeps
      <3> HIDE DEF w
      <3> QED BY <2>2, <3>1, <3>2, RemoteStep
    <2> QED BY <2>3, <2>4
  <1> QED BY <1>3, <1>4, <1>5

\* USER that moves a user, or takes him from his channel.
LEMMA RemoteMoveSteps ==
    ASSUME Base(S), NEW l \in Links, NEW name \in Remote, NEW old \in Chans, NEW new \in Chans,
           h_user_switch(l, name, old, new) \/ h_user_leave(l, name, old)
    PROVE  Kept(S, S')
  <1>1. S \in State /\ OneWay(S) /\ Told(S)
    BY DEF Base
  <1>2. l \in S.up
    BY PartsOfS DEF h_user_switch, h_user_leave
  <1>3. CASE HostElsewhere(S, l, name)
    <2>1. Become(LinkQuits(S, l))
      BY <1>3 DEF h_user_switch, h_user_leave, checkhost
    <2> QED BY <2>1, LinkQuitsStep
  <1>4. CASE ~ HostElsewhere(S, l, name) /\ h_user_leave(l, name, old)
    <2> DEFINE t == RemoteLeaves(S, l, name, old)
    <2>1. Become(t)
      BY <1>4 DEF h_user_leave, checkhost
    <2>2. /\ t \in State /\ t.user = S.user /\ OneWay(t) /\ Told(t)
          /\ Followed(S) => Followed(t)
      BY <1>1, <1>2, <1>4, RemoteLeaveKeeps
    <2> HIDE DEF t
    <2> QED BY <2>1, <2>2, RemoteStep
  <1>5. CASE ~ HostElsewhere(S, l, name) /\ h_user_switch(l, name, old, new)
    <2> DEFINE t == RemoteMoves(S, l, name, old, new)
    <2>1. old # new /\ Become(t)
      BY <1>5 DEF h_user_switch, checkhost
    <2>2. /\ t \in State /\ t.user = S.user /\ OneWay(t) /\ Told(t)
          /\ Followed(S) => Followed(t)
      BY <1>1, <1>2, <1>5, <2>1, RemoteSwitchKeeps
    <2> HIDE DEF t
    <2> QED BY <2>1, <2>2, RemoteStep
  <1> QED BY <1>3, <1>4, <1>5

\* UQUIT and SQUIT.
LEMMA RemoteQuitSteps ==
    ASSUME Base(S), NEW l \in Links, NEW name \in Remote,
           h_uquit_command(l, name) \/ h_squit_command(l, name)
    PROVE  Kept(S, S')
  <1>1. S \in State /\ OneWay(S) /\ Told(S) /\ ~ HostElsewhere(S, l, name)
    BY DEF Base, h_uquit_command, h_squit_command
  <1>2. ASSUME NEW names \in SUBSET Remote, NEW lock \in BOOLEAN,
               \A n \in names : HostOf[n] = HostOf[name],
               Become(QuitVia(S, l, names, lock))
        PROVE  Kept(S, S')
    <2> DEFINE t == QuitVia(S, l, names, lock)
    <2>1. \A e \in S.remote : e.name \in names => e.via = l
      BY <1>1, <1>2 DEF HostElsewhere
    <2>2. /\ t \in State /\ t.user = S.user /\ t.up = S.up
          /\ \A e : e \in t.remote <=> e \in S.remote /\ ~ (e.via = l /\ e.name \in names)
          /\ Told(t)
          /\ Followed(S) => Followed(t)
      BY <1>1, <2>1, QuitViaKeeps
    <2>3. Become(t)
      BY <1>2
    <2> HIDE DEF t
    <2>4. OneWay(t)
      BY <1>1, <2>2 DEF OneWay
    <2> QED BY <2>2, <2>3, <2>4, RemoteStep
  <1>3. CASE h_uquit_command(l, name)
    <2> DEFINE no == FALSE
               names == {name}
    <2>1. /\ no \in BOOLEAN /\ names \in SUBSET Remote
          /\ \A n \in names : HostOf[n] = HostOf[name]
      OBVIOUS
    <2>2. Become(QuitVia(S, l, names, no))
      BY <1>3 DEF h_uquit_command
    <2> HIDE DEF no, names
    <2> QED BY <1>2, <2>1, <2>2
  <1>4. CASE h_squit_command(l, name)
    <2> DEFINE yes == TRUE
               names == {n \in Remote : HostOf[n] = HostOf[name]}
    <2>1. /\ yes \in BOOLEAN /\ names \in SUBSET Remote
          /\ \A n \in names : HostOf[n] = HostOf[name]
      OBVIOUS
    <2>2. Become(QuitVia(S, l, names, yes))
      BY <1>4 DEF h_squit_command
    <2> HIDE DEF yes, names
    <2> QED BY <1>2, <2>1, <2>2
  <1> QED BY <1>3, <1>4

\* The record of an empty channel goes, or its lock.
LEMMA ExpireStep ==
    ASSUME Base(S), NEW c \in Chans, expire_destroyed_channels(c)
    PROVE  Kept(S, S')
  <1> DEFINE unlocked == [S.chan[c] EXCEPT !.locked = FALSE, !.flags = {}]
  <1>1. S \in State /\ OneWay(S) /\ Told(S)
    BY DEF Base
  <1>2. S.chan[c] \in ChannelRecord /\ S.chan[c] # Null /\ S.chan[c].expires
    BY <1>1, PartsOfS DEF State, expire_destroyed_channels
  <1>3. unlocked \in ChannelRecord /\ unlocked.expires /\ ~ unlocked.locked
    BY <1>2 DEF ChannelRecord
  <1>4. Become([S EXCEPT !.chan[c] = Null]) \/ Become([S EXCEPT !.chan[c] = unlocked])
    BY DEF expire_destroyed_channels
  <1> HIDE DEF unlocked
  <1>5. ASSUME NEW rec \in ChannelRecord \cup {Null},
               rec # Null => rec.expires,
               Become([S EXCEPT !.chan[c] = rec])
        PROVE  Kept(S, S')
    <2> DEFINE t == [S EXCEPT !.chan[c] = rec]
    <2>1. /\ t \in State /\ t.user = S.user /\ t.remote = S.remote /\ t.up = S.up
          /\ t.told = S.told
          /\ t.chan[c] = rec /\ \A d \in Chans \ {c} : t.chan[d] = S.chan[d]
      BY <1>1 DEF State
    <2>2. Become(t)
      BY <1>5
    <2> HIDE DEF t
    <2>3. SameMembers(S, t)
      BY <2>1 DEF SameMembers
    <2>4. OneWay(t) /\ Told(t)
          /\ \A d : (Occupied(t, d) <=> Occupied(S, d)) /\ (Here(t, d) <=> Here(S, d))
      BY <1>1, <2>1, <2>3, SameMembersKeep
    <2>5. Followed(S) => Followed(t)
      BY <1>2, <1>5, <2>1, <2>4 DEF Followed, Vacant
    <2> QED BY <2>1, <2>2, <2>4, <2>5, RemoteStep
  <1> QED BY <1>3, <1>4, <1>5

\* OPER for channel -1.
LEMMA HostOperatorStep ==
    ASSUME Base(S), NEW l \in Links, NEW u \in Users, HostOperator(l, u)
    PROVE  Kept(S, S')
  <1> DEFINE r == [S.user[u] EXCEPT !.sysop = TRUE]
  <1>1. S.user[u] \in Session
    BY DEF Base, State
  <1>2. Become([S EXCEPT !.user[u] = r])
    BY DEF HostOperator
  <1>3. /\ r \in Session /\ r.list = S.user[u].list /\ r.ops = S.user[u].ops /\ r.on = S.user[u].on
        /\ r.channel = S.user[u].channel /\ r.channelop = S.user[u].channelop
    BY <1>1 DEF Session
  <1> HIDE DEF r
  <1>4. AllBacked(S) => Backed(r)
    BY <1>3 DEF AllBacked, Backed
  <1> QED BY <1>2, <1>3, <1>4, SessionStep

\* Every step keeps what the lemmas above say, and so does a step that does nothing.
LEMMA EveryStep ==
    ASSUME Base(S), [Next]_vars
    PROVE  Kept(S, S')
  <1>1. ASSUME NEW u \in Users, FromUser(u)
        PROVE  Kept(S, S')
    <2>1. CASE bye_command(u)
      BY <2>1, QuitStep DEF bye_command
    <2>2. CASE user_login_irc_partA(u) \/ operator_command(u)
      BY <2>2, QuietUserSteps
    <2>3. ASSUME NEW c \in Chans,
                 \/ JoinChannel(u, c)
                 \/ SysopRefused(u, c)
                 \/ SwitchChannel(u, c)
                 \/ leave_command(u, c)
                 \/ \E spare \in Chans : user_login_convers_partA(u, c, spare)
                 \/ \E to \in Users : invite_command(u, to, c)
                 \/ \E f \in Flags, remove \in BOOLEAN : mode_command(u, c, f, remove)
                 \/ \E name \in Names : ModeOp(u, c, name)
          PROVE  Kept(S, S')
      <3>1. CASE JoinChannel(u, c) \/ \E spare \in Chans : user_login_convers_partA(u, c, spare)
        BY <3>1, EnterSteps
      <3>2. CASE SysopRefused(u, c) \/ \E to \in Users : invite_command(u, to, c)
        BY <3>2, QuietUserSteps
      <3>3. CASE SwitchChannel(u, c)
        BY <3>3, SwitchStep
      <3>4. CASE leave_command(u, c)
        BY <3>4, LeaveStep
      <3>5. CASE \E f \in Flags, remove \in BOOLEAN : mode_command(u, c, f, remove)
        BY <3>5, UserModeStep
      <3>6. CASE \E name \in Names : ModeOp(u, c, name)
        BY <3>6, MakeOpStep DEF ModeOp
      <3> QED BY <2>3, <3>1, <3>2, <3>3, <3>4, <3>5, <3>6
    <2> QED BY <1>1, <2>1, <2>2, <2>3 DEF FromUser
  <1>2. ASSUME NEW l \in Links, FromNeighbour(l)
        PROVE  Kept(S, S')
    <2>1. CASE h_host_command(l)
      BY <2>1, HostStep
    <2>2. CASE bye_command2(l)
      BY <2>2, LinkQuitsStep DEF bye_command2
    <2>3. CASE \E u \in Users : HostOperator(l, u)
      BY <2>3, HostOperatorStep
    <2>4. CASE \E name \in Remote : h_uquit_command(l, name) \/ h_squit_command(l, name)
      BY <2>4, RemoteQuitSteps
    <2>5. ASSUME NEW c \in Chans, \E u \in Users : h_invi_command(l, u, c)
          PROVE  Kept(S, S')
      BY <2>5, InviteStep DEF h_invi_command
    <2>6. ASSUME NEW c \in Chans, \E flags \in SUBSET Flags : HostMode(l, c, flags)
          PROVE  Kept(S, S')
      BY <2>6, HostModeStep
    <2>7. ASSUME NEW c \in Chans, \E name \in Names : h_oper_command(l, name, c)
          PROVE  Kept(S, S')
      BY <2>7, HostOperStep
    <2>8. ASSUME NEW c \in Chans, NEW name \in Remote,
                 \/ h_user_join(l, name, c)
                 \/ \E op, creator, older \in BOOLEAN, modes \in SUBSET Flags :
                       h_netjoin_command(l, name, c, op, creator, older, modes)
                 \/ \E new \in Chans : h_user_switch(l, name, c, new)
                 \/ h_user_leave(l, name, c)
          PROVE  Kept(S, S')
      <3>1. CASE h_user_join(l, name, c)
        <4> DEFINE no == FALSE
                   none == {}
        <4>1. no \in BOOLEAN /\ none \in SUBSET Flags
          OBVIOUS
        <4> HIDE DEF no, none
        <4> QED BY <3>1, <4>1, RemoteJoinSteps
      <3>2. CASE \E op, creator, older \in BOOLEAN, modes \in SUBSET Flags :
                    h_netjoin_command(l, name, c, op, creator, older, modes)
        BY <3>2, RemoteJoinSteps
      <3>3. CASE \/ \E new \in Chans : h_user_switch(l, name, c, new)
                 \/ h_user_leave(l, name, c)
        BY <3>3, RemoteMoveSteps
      <3> QED BY <2>8, <3>1, <3>2, <3>3
    <2> QED BY <1>2, <2>1, <2>2, <2>3, <2>4, <2>5, <2>6, <2>7, <2>8 DEF FromNeighbour
  <1>3. CASE MainLoop
    <2>1. ASSUME NEW c \in Chans, NEW name \in Names, check_opless_channels(c, name)
          PROVE  Kept(S, S')
      BY <2>1, MakeOpStep DEF check_opless_channels
    <2> QED BY <1>3, <2>1, ExpireStep DEF MainLoop
  <1>4. CASE UNCHANGED vars
    <2>1. Become(S)
      BY <1>4 DEF vars, Become, S
    <2> QED BY <2>1, SameStep
  <1> QED BY <1>1, <1>2, <1>3, <1>4 DEF Next

-----------------------------------------------------------------------------
(***************************************************************************)
(* The theorems.                                                           *)
(***************************************************************************)

\* A conversd that has just started.
LEMMA InitiallyInOrder ==
    ASSUME Init
    PROVE  Base(S) /\ Followed(S) /\ AllBacked(S)
  <1>1. /\ S.user = [u \in Users |-> Offline] /\ S.remote = {}
        /\ S.chan = [c \in Chans |-> Null] /\ S.up = {} /\ S.told = [l \in Links |-> {}]
    BY PartsOfS DEF Init
  <1>2. Offline \in Session /\ Backed(Offline) /\ Offline.list = {} /\ Offline.ops = {}
    BY DEF Offline, Session, Backed
  <1>3. S \in State
    BY <1>1, <1>2 DEF S, State
  <1>4. OneWay(S) /\ Told(S)
    BY <1>1 DEF OneWay, Told
  <1>5. Followed(S)
    BY <1>1, <1>2 DEF Followed, Here, LocalsOn, Vacant
  <1>6. AllBacked(S)
    BY <1>1, <1>2 DEF AllBacked
  <1> QED BY <1>3, <1>4, <1>5, <1>6 DEF Base

\* The part of the invariant that stands alone.
LEMMA AlwaysBase == Spec => []Base(S)
  <1>1. Init => Base(S)
    BY InitiallyInOrder
  <1>2. Base(S) /\ [Next]_vars => Base(S)'
    <2> SUFFICES ASSUME Base(S), [Next]_vars PROVE Base(S')
      OBVIOUS
    <2> QED BY EveryStep DEF Kept
  <1> QED BY <1>1, <1>2, PTL DEF Spec

\* The variables have their shapes in every reachable state, for any users, neighbours,
\* channels and configuration.
THEOREM ChannelTypes == Spec => []TypeOK
  <1>1. Base(S) => TypeOK
    BY StateOfVariables DEF Base
  <1> QED BY <1>1, AlwaysBase, PTL

\* A neighbour's picture of the users behind us is the table, after any sequence of joins,
\* switches, departures, quits, lost links and loops.
THEOREM NeighboursAreTold == Spec => []NeighboursKnowOurUsers
  <1>1. Base(S) => NeighboursKnowOurUsers
    BY PartsOfS DEF Base, Told, NeighboursKnowOurUsers
  <1> QED BY <1>1, AlwaysBase, PTL

\* Nobody gets on a private channel uninvited, sysops and logins included.
THEOREM PrivateChannels == Spec => PrivateByInvitation
  <1>1. Base(S) /\ [Next]_vars =>
          [\A u \in Users, c \in Chans :
              c \in user'[u].list \ user[u].list /\ HasFlag(S, c, "p") =>
                  user[u].invited = c]_vars
    <2> SUFFICES ASSUME Base(S), [Next]_vars
                 PROVE  \A u \in Users, c \in Chans :
                            c \in user'[u].list \ user[u].list /\ HasFlag(S, c, "p") =>
                                user[u].invited = c
      OBVIOUS
    <2>1. Invited(S, S')
      BY EveryStep DEF Kept
    <2>2. S'.user = user'
      BY DEF S
    <2> QED BY <2>1, <2>2, PartsOfS DEF Invited
  <1> QED BY <1>1, AlwaysBase, PTL DEF Spec, PrivateByInvitation

\* The channel records keep in step with the members.
LEMMA AlwaysFollowed ==
    Spec => [](Base(S) /\ Followed(S))
  <1>1. Init => Base(S) /\ Followed(S)
    BY InitiallyInOrder
  <1>2. Base(S) /\ Followed(S) /\ [Next]_vars => (Base(S) /\ Followed(S))'
    <2> SUFFICES ASSUME Base(S), Followed(S), [Next]_vars PROVE Base(S') /\ Followed(S')
      OBVIOUS
    <2> QED BY EveryStep DEF Kept
  <1> QED BY <1>1, <1>2, PTL DEF Spec

\* Whatever neighbours send, a channel with local members has a record that is not running
\* out, and no record outlives its last member.
THEOREM RecordsFollow ==
    Spec => []RecordsFollowMembers
  <1>1. Base(S) /\ Followed(S) => RecordsFollowMembers
    <2> SUFFICES ASSUME Base(S), Followed(S) PROVE RecordsFollowMembers
      OBVIOUS
    <2>1. S \in State
      BY DEF Base
    <2>2. \A c \in Chans : count_user(S, c) > 0 <=> Occupied(S, c)
      BY <2>1, CountUser
    <2> QED BY <2>2, PartsOfS DEF Followed, Here, RecordsFollowMembers
  <1> QED BY <1>1, AlwaysFollowed, PTL

\* Nobody takes over a channel that a netsplit emptied.
THEOREM NetsplitLocks ==
    Spec => NoTakeoverInANetsplit
  <1>1. Base(S) /\ Followed(S) /\ [Next]_vars =>
          [\A u \in Users, c \in Chans :
              c \in user'[u].ops \ user[u].ops =>
                  \/ ~ (chan[c] # Null /\ chan[c].locked)
                  \/ chan[c].createby = u
                  \/ user[u].sysop]_vars
    <2> SUFFICES ASSUME Base(S), Followed(S), [Next]_vars
                 PROVE  \A u \in Users, c \in Chans :
                            c \in user'[u].ops \ user[u].ops =>
                                \/ ~ (chan[c] # Null /\ chan[c].locked)
                                \/ chan[c].createby = u
                                \/ user[u].sysop
      OBVIOUS
    <2>1. Unlocked(S, S')
      BY EveryStep DEF Kept
    <2>2. S'.user = user'
      BY DEF S
    <2> QED BY <2>1, <2>2, PartsOfS DEF Unlocked
  <1> QED BY <1>1, AlwaysFollowed, PTL DEF Spec, NoTakeoverInANetsplit

\* The whole inductive invariant.
LEMMA AlwaysBacked ==
    Spec => [](Base(S) /\ Followed(S) /\ AllBacked(S))
  <1>1. Init => Base(S) /\ Followed(S) /\ AllBacked(S)
    BY InitiallyInOrder
  <1>2. Base(S) /\ Followed(S) /\ AllBacked(S) /\ [Next]_vars
          => (Base(S) /\ Followed(S) /\ AllBacked(S))'
    <2> SUFFICES ASSUME Base(S), Followed(S), AllBacked(S), [Next]_vars
                 PROVE  Base(S') /\ Followed(S') /\ AllBacked(S')
      OBVIOUS
    <2> QED BY EveryStep DEF Kept
  <1> QED BY <1>1, <1>2, PTL DEF Spec

\* Whatever channel an OPER of a neighbour names, the copy of the operator flag on a
\* session is backed by the entry of its channel list.
THEOREM FlagsBacked == Spec => []OperatorFlagsBacked
  <1>1. ASSUME Base(S), AllBacked(S) PROVE OperatorFlagsBacked
    <2>1. \A u \in Users : Backed(user[u])
      BY <1>1, PartsOfS DEF AllBacked
    <2> QED BY <2>1 DEF Backed, OperatorFlagsBacked
  <1> QED BY <1>1, AlwaysBacked, PTL

\* Who of us gets a channel message.
LEMMA LocalAudience ==
    ASSUME Base(S), Followed(S), AllBacked(S), NEW from, NEW c \in Chans
    PROVE  /\ LocalsOn(S, c) \ {from} \subseteq send_msg_to_channel2(S, from, c)
           /\ send_msg_to_channel2(S, from, c) \cap Users \subseteq LocalsOn(S, c)
  <1>1. S \in State /\ OneWay(S) /\ c # NoChan
    BY ChannelBounds DEF Base, NoChan
  <1>2. \A u \in Users : S.user[u].channel = c => c \in S.user[u].list
    BY <1>1 DEF AllBacked, Backed
  <1>3. \A e \in RemotesOn(S, c) : e.via \notin Users
    BY <1>1, ChannelBounds DEF State, Entry, RemotesOn, Names
  <1>4. CASE S.chan[c] = Null
    <2>1. LocalsOn(S, c) = {}
      BY <1>4 DEF Followed, Here, Vacant
    <2> QED BY <1>4, <2>1 DEF send_msg_to_channel2
  <1>5. CASE S.chan[c] # Null
    <2>1. send_msg_to_channel2(S, from, c) =
             {u \in Users \ {from} : S.user[u].channel = c \/ c \in S.user[u].list}
                \cup (IF "l" \in S.chan[c].flags THEN {}
                      ELSE {e.via : e \in RemotesOn(S, c)} \ {from})
      BY <1>5 DEF send_msg_to_channel2
    <2> QED BY <1>2, <1>3, <2>1 DEF LocalsOn
  <1> QED BY <1>4, <1>5

\* A private message goes one way at most.
LEMMA OneWayOut ==
    ASSUME Base(S), NEW from, NEW to \in Names
    PROVE  Cardinality(send_msg_to_user2(S, from, to)) =
              IF \/ to \in Users /\ to # from /\ user[to].on
                 \/ \E e \in remote : e.name = to /\ e.via # from
              THEN 1 ELSE 0
  <1> DEFINE out == send_msg_to_user2(S, from, to)
             there == {e.via : e \in {e \in S.remote : e.name = to}} \ {from}
  <1>1. S \in State /\ OneWay(S)
    BY DEF Base
  <1>2. \A e \in S.remote : e.name \notin Users
    BY <1>1, ChannelBounds DEF State, Entry
  <1>3. out = {u \in Users \ {from} : u = to /\ S.user[u].on} \cup there
    BY DEF send_msg_to_user2
  <1>4. \A x : Cardinality({x}) = 1
    BY FS_Singleton
  <1>5. Cardinality({}) = 0
    BY FS_EmptySet
  <1> HIDE DEF out
  <1>6. CASE to \in Users
    <2>1. there = {}
      BY <1>2, <1>6
    <2>2. out = IF to # from /\ S.user[to].on THEN {to} ELSE {}
      BY <1>3, <1>6, <2>1
    <2>3. ~ \E e \in remote : e.name = to /\ e.via # from
      BY <1>2, <1>6, PartsOfS
    <2> QED BY <1>4, <1>5, <1>6, <2>2, <2>3, PartsOfS DEF out
  <1>7. CASE to \notin Users
    <2>1. out = there
      BY <1>3, <1>7
    <2>2. CASE \E e \in S.remote : e.name = to /\ e.via # from
      <3>1. PICK e \in S.remote : e.name = to /\ e.via # from
        BY <2>2
      <3>2. \A d \in S.remote : d.name = to => d.via = e.via
        BY <1>1, <3>1 DEF OneWay
      <3>3. there = {e.via}
        BY <3>1, <3>2
      <3> QED BY <1>4, <2>1, <2>2, <3>3, PartsOfS DEF out
    <2>3. CASE ~ \E e \in S.remote : e.name = to /\ e.via # from
      <3>1. there = {}
        BY <2>3
      <3> QED BY <1>5, <1>7, <2>1, <2>3, <3>1, PartsOfS DEF out
    <2> QED BY <2>2, <2>3
  <1> QED BY <1>6, <1>7

\* Whom a neighbour was told of, it reaches, on a channel or by a private message, and
\* an operator reaches the members of his channel.
THEOREM MessagesArrive == Spec => []AnnouncedUsersAreReached
  <1>1. ASSUME Base(S), Followed(S), AllBacked(S)
        PROVE  AnnouncedUsersAreReached
    <2>1. S \in State /\ Told(S)
      BY <1>1 DEF Base
    <2>2. ASSUME NEW l \in up
          PROVE  /\ l \in Links /\ l \notin Names
                 /\ told[l] = Known(S, l)
      BY <2>1, PartsOfS, ChannelBounds DEF Told, State
    <2>3. ASSUME NEW l \in up, NEW c \in Chans
          PROVE  send_msg_to_channel2(S, l, c) \cap Users = {u \in Users : <<u, c>> \in told[l]}
      <3>1. \A u \in Users : <<u, c>> \in Known(S, l) <=> u \in LocalsOn(S, c)
        <4>1. \A e \in S.remote : e.name \notin Users
          BY <2>1, ChannelBounds DEF State, Entry
        <4> QED BY <4>1 DEF Known, LocalsOn
      <3>2. /\ LocalsOn(S, c) \ {l} \subseteq send_msg_to_channel2(S, l, c)
            /\ send_msg_to_channel2(S, l, c) \cap Users \subseteq LocalsOn(S, c)
        BY <1>1, LocalAudience
      <3>3. l \notin LocalsOn(S, c) /\ LocalsOn(S, c) \subseteq Users
        BY <2>2 DEF LocalsOn, Names
      <3> QED BY <2>2, <3>1, <3>2, <3>3
    <2>4. ASSUME NEW l \in up, NEW c \in Chans, NEW n \in Names, <<n, c>> \in told[l]
          PROVE  Cardinality(send_msg_to_user2(S, l, n)) = 1
      <3>1. \/ n \in Users /\ n # l /\ user[n].on
            \/ \E e \in remote : e.name = n /\ e.via # l
        <4>1. <<n, c>> \in Known(S, l) /\ l \notin Names
          BY <2>2, <2>4
        <4>2. CASE n \in Users /\ c \in S.user[n].list
          <5>1. S.user[n].on
            BY <1>1, <4>2 DEF AllBacked, Backed
          <5> QED BY <4>1, <4>2, <5>1, PartsOfS
        <4>3. CASE ~ (n \in Users /\ c \in S.user[n].list)
          <5>1. <<n, c>> \in {<<e.name, e.channel>> : e \in {e \in S.remote : e.via # l}}
            BY <4>1, <4>3 DEF Known
          <5> QED BY <5>1, PartsOfS
        <4> QED BY <4>2, <4>3
      <3> QED BY <1>1, <3>1, OneWayOut
    <2>5. \A u \in Users : \A c \in S.user[u].list : c \in Chans /\ S.chan[c] # Null
      BY <1>1, <2>1 DEF State, Session, Here, LocalsOn, Followed, Vacant
    <2>6. ASSUME NEW u \in Users, NEW c \in S.user[u].ops
          PROVE  LocalsOn(S, c) \subseteq msg_command(S, u, c) \cup {u}
      <3>1. /\ c \in S.user[u].list /\ S.user[u].channel # NoChan
            /\ S.user[u].channel \in S.user[u].list
        BY <1>1 DEF AllBacked, Backed
      <3>2. msg_command(S, u, c) = send_msg_to_channel2(S, u, c)
        BY <2>5, <3>1 DEF msg_command
      <3> QED BY <1>1, <2>5, <3>1, <3>2, LocalAudience
    <2>7. ASSUME NEW u \in Users, S.user[u].channelop
          PROVE  LocalsOn(S, S.user[u].channel) \subseteq all_command(S, u) \cup {u}
      <3>1. S.user[u].channel # NoChan /\ S.user[u].channel \in S.user[u].list
        BY <1>1, <2>7 DEF AllBacked, Backed
      <3>2. all_command(S, u) = send_msg_to_channel2(S, u, S.user[u].channel)
        BY <2>5, <2>7, <3>1 DEF all_command
      <3> QED BY <1>1, <2>5, <3>1, <3>2, LocalAudience
    <2> QED BY <2>3, <2>4, <2>6, <2>7, PartsOfS DEF AnnouncedUsersAreReached
  <1>2. Base(S) /\ Followed(S) /\ AllBacked(S) => AnnouncedUsersAreReached
    BY <1>1
  <1> QED BY <1>2, AlwaysBacked, PTL

=============================================================================
