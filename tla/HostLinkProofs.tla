--------------------------- MODULE HostLinkProofs ---------------------------
(***************************************************************************)
(* What the owning loop of HostLink promises about both tables, proved for *)
(* any set of users and channels, any timeouts and any length of a line.   *)
(***************************************************************************)
EXTENDS HostLink, FiniteSetTheorems, TLAPS

-----------------------------------------------------------------------------
(* Sequences of lines, and what the last line about a user says.           *)

Silent(lines, u) == \A i \in 1 .. Len(lines) : ~IsAbout(lines[i], u)

\* The last line about u is one of good.
Ends(lines, u, good) == \E i \in 1 .. Len(lines) : LastAbout(lines, i, u) /\ lines[i] \in good

\* After lines have been read: u is as it should be, which it is now if has.
Settles(lines, u, good, has) == Ends(lines, u, good) \/ (has /\ Silent(lines, u))

\* The elements of a sequence and of its extension.
LEMMA Joint ==
    ASSUME NEW D, NEW a \in Seq(D), NEW b \in Seq(D)
    PROVE  /\ a \o b \in Seq(D)
           /\ Len(a \o b) = Len(a) + Len(b)
           /\ Len(a) \in Nat /\ Len(b) \in Nat
           /\ \A i \in 1 .. Len(a) : (a \o b)[i] = a[i]
           /\ \A i \in 1 .. Len(b) : (a \o b)[Len(a) + i] = b[i]
           /\ \A i \in Len(a) + 1 .. Len(a) + Len(b) : (a \o b)[i] = b[i - Len(a)]
OBVIOUS

\* A line about nobody, or about someone else, changes nothing for u.
LEMMA SilentJoint ==
    ASSUME NEW D, NEW a \in Seq(D), NEW b \in Seq(D), NEW u, Silent(a, u), Silent(b, u)
    PROVE  Silent(a \o b, u)
<1>1. SUFFICES ASSUME NEW i \in 1 .. Len(a \o b) PROVE ~IsAbout((a \o b)[i], u)
  BY DEF Silent
<1>2. i \in 1 .. Len(a) \/ i \in Len(a) + 1 .. Len(a) + Len(b)
  BY Joint
<1>3. CASE i \in 1 .. Len(a)
  BY <1>3, Joint DEF Silent
<1>4. CASE i \in Len(a) + 1 .. Len(a) + Len(b)
  <2>1. i - Len(a) \in 1 .. Len(b)
    BY <1>4, Joint
  <2> QED BY <1>4, <2>1, Joint DEF Silent
<1> QED BY <1>2, <1>3, <1>4

\* What the last line about u says still counts when silence follows.
LEMMA EndsBefore ==
    ASSUME NEW D, NEW a \in Seq(D), NEW b \in Seq(D), NEW u, NEW good,
           Ends(a, u, good), Silent(b, u)
    PROVE  Ends(a \o b, u, good)
<1>1. PICK i \in 1 .. Len(a) : LastAbout(a, i, u) /\ a[i] \in good
  BY DEF Ends
<1>2. i \in 1 .. Len(a \o b) /\ (a \o b)[i] = a[i]
  BY Joint
<1>3. ASSUME NEW j \in i + 1 .. Len(a \o b) PROVE ~IsAbout((a \o b)[j], u)
  <2>1. CASE j \in i + 1 .. Len(a)
    <3>1. (a \o b)[j] = a[j]
      BY <2>1, Joint
    <3> QED BY <1>1, <2>1, <3>1 DEF LastAbout
  <2>2. CASE j \in Len(a) + 1 .. Len(a) + Len(b)
    <3>1. j - Len(a) \in 1 .. Len(b) /\ (a \o b)[j] = b[j - Len(a)]
      BY <2>2, Joint
    <3> QED BY <3>1 DEF Silent
  <2> QED BY <2>1, <2>2, Joint
<1> QED BY <1>1, <1>2, <1>3 DEF Ends, LastAbout

\* What comes last decides, whatever was sent before.
LEMMA EndsAfter ==
    ASSUME NEW D, NEW a \in Seq(D), NEW b \in Seq(D), NEW u, NEW good, Ends(b, u, good)
    PROVE  Ends(a \o b, u, good)
<1>1. PICK k \in 1 .. Len(b) : LastAbout(b, k, u) /\ b[k] \in good
  BY DEF Ends
<1> DEFINE i == Len(a) + k
<1>2. i \in 1 .. Len(a \o b) /\ (a \o b)[i] = b[k]
  BY Joint
<1>3. ASSUME NEW j \in i + 1 .. Len(a \o b) PROVE ~IsAbout((a \o b)[j], u)
  <2>1. /\ j - Len(a) \in k + 1 .. Len(b)
        /\ j \in Len(a) + 1 .. Len(a) + Len(b)
    BY Joint
  <2>2. (a \o b)[j] = b[j - Len(a)]
    BY <2>1, Joint
  <2> QED BY <1>1, <2>1, <2>2 DEF LastAbout
<1> QED BY <1>1, <1>2, <1>3 DEF Ends, LastAbout

\* Lines that do not mention u leave what is settled about u.
LEMMA SettlesBefore ==
    ASSUME NEW D, NEW a \in Seq(D), NEW b \in Seq(D), NEW u, NEW good, NEW has,
           Settles(a, u, good, has), Silent(b, u)
    PROVE  Settles(a \o b, u, good, has)
BY EndsBefore, SilentJoint DEF Settles

\* Taking the first line: it counts when it is the last one about u.
LEMMA SettlesTail ==
    ASSUME NEW D, NEW a \in Seq(D), a # <<>>, NEW u, NEW good, NEW has, NEW then,
           Settles(a, u, good, has),
           IsAbout(Head(a), u) /\ Head(a) \in good => then,
           ~IsAbout(Head(a), u) /\ has => then
    PROVE  Settles(Tail(a), u, good, then)
<1>1. /\ Len(a) \in Nat /\ Len(a) > 0 /\ Len(Tail(a)) = Len(a) - 1
      /\ \A i \in 1 .. Len(a) - 1 : Tail(a)[i] = a[i + 1]
      /\ Head(a) = a[1]
  OBVIOUS
<1>2. CASE Ends(a, u, good)
  <2>1. PICK i \in 1 .. Len(a) : LastAbout(a, i, u) /\ a[i] \in good
    BY <1>2 DEF Ends
  <2>2. ASSUME NEW j \in 1 .. Len(a) - 1, j > i - 1 PROVE ~IsAbout(Tail(a)[j], u)
    <3>1. j + 1 \in i + 1 .. Len(a)
      BY <1>1, <2>2
    <3>2. ~IsAbout(a[j + 1], u)
      BY <2>1, <3>1 DEF LastAbout
    <3> QED BY <1>1, <3>2
  <2>3. CASE i = 1
    <3>1. then
      BY <1>1, <2>1, <2>3 DEF LastAbout
    <3>2. Silent(Tail(a), u)
      BY <1>1, <2>2, <2>3 DEF Silent
    <3> QED BY <3>1, <3>2 DEF Settles
  <2>4. CASE i # 1
    <3>1. i - 1 \in 1 .. Len(Tail(a)) /\ Tail(a)[i - 1] = a[i]
      BY <1>1, <2>4
    <3>2. LastAbout(Tail(a), i - 1, u)
      BY <1>1, <2>1, <2>2, <3>1 DEF LastAbout
    <3> QED BY <2>1, <3>1, <3>2 DEF Settles, Ends
  <2> QED BY <2>3, <2>4
<1>3. CASE has /\ Silent(a, u)
  <2>1. then
    BY <1>1, <1>3 DEF Silent
  <2>2. Silent(Tail(a), u)
    BY <1>1, <1>3 DEF Silent
  <2> QED BY <2>1, <2>2 DEF Settles
<1> QED BY <1>2, <1>3 DEF Settles

\* A sequence of one line.
LEMMA OneLine ==
    ASSUME NEW D, NEW l \in D, NEW u, NEW good
    PROVE  /\ <<l>> \in Seq(D) /\ Len(<<l>>) = 1
           /\ ~IsAbout(l, u) => Silent(<<l>>, u)
           /\ IsAbout(l, u) /\ l \in good => Ends(<<l>>, u, good)
<1>1. <<l>> \in Seq(D) /\ Len(<<l>>) = 1 /\ <<l>>[1] = l
  OBVIOUS
<1> QED BY <1>1 DEF Silent, Ends, LastAbout

\* The sequence of a finite set: all its elements, each of them once.
LEMMA SetAsSeq ==
    ASSUME NEW S, IsFiniteSet(S)
    PROVE  LET s == SetToSeq(S) IN
           /\ s \in Seq(S)
           /\ \A i, j \in 1 .. Len(s) : s[i] = s[j] => i = j
           /\ \A x \in S : \E i \in 1 .. Len(s) : s[i] = x
<1> DEFINE n == Cardinality(S)
           s == SetToSeq(S)
<1>1. n \in Nat /\ ExistsBijection(1 .. n, S)
  BY FS_CardinalityType
<1>2. PICK f : f \in Injection(1 .. n, S)
  BY <1>1 DEF ExistsBijection, Bijection
<1>3. \E g \in [1 .. n -> S] : IsInjective(g)
  BY <1>2 DEF Injection
<1>4. s \in [1 .. n -> S] /\ IsInjective(s)
  BY <1>3 DEF SetToSeq
<1>5. s \in Injection(1 .. n, S)
  BY <1>4 DEF Injection
<1> HIDE DEF s
<1>6. IsFiniteSet(1 .. n) /\ Cardinality(1 .. n) = n
  BY <1>1, FS_Interval
<1>7. s \in Surjection(1 .. n, S)
  BY <1>5, <1>6, FS_Injection
<1>8. s \in Seq(S) /\ Len(s) = n
  BY <1>1, <1>4
<1>9. \A i, j \in 1 .. Len(s) : s[i] = s[j] => i = j
  BY <1>4, <1>8 DEF IsInjective
<1>10. \A x \in S : \E i \in 1 .. Len(s) : s[i] = x
  BY <1>7, <1>8 DEF Surjection
<1> QED BY <1>8, <1>9, <1>10 DEF s

\* The only line of a set that is about u decides what its sequence says of u.
LEMMA RollCall ==
    ASSUME NEW S, IsFiniteSet(S), NEW u, NEW good,
           NEW x \in S, IsAbout(x, u), x \in good,
           \A y \in S : IsAbout(y, u) => y = x
    PROVE  Ends(SetToSeq(S), u, good)
<1> DEFINE s == SetToSeq(S)
<1>1. /\ s \in Seq(S)
      /\ \A i, j \in 1 .. Len(s) : s[i] = s[j] => i = j
      /\ \A y \in S : \E i \in 1 .. Len(s) : s[i] = y
  BY SetAsSeq
<1> HIDE DEF s
<1>2. Len(s) \in Nat /\ \A i \in 1 .. Len(s) : s[i] \in S
  BY <1>1
<1>3. PICK i \in 1 .. Len(s) : s[i] = x
  BY <1>1
<1>4. ASSUME NEW j \in i + 1 .. Len(s) PROVE ~IsAbout(s[j], u)
  <2>1. j \in 1 .. Len(s) /\ j # i
    BY <1>2
  <2>2. s[j] \in S /\ s[j] # x
    BY <1>1, <1>2, <1>3, <2>1
  <2> QED BY <2>2
<1>5. Ends(s, u, good)
  BY <1>3, <1>4 DEF Ends, LastAbout
<1> QED BY <1>5 DEF s

\* The sequence of a set with no line about u has none.
LEMMA NotOnRoll ==
    ASSUME NEW S, IsFiniteSet(S), NEW u, \A y \in S : ~IsAbout(y, u)
    PROVE  Silent(SetToSeq(S), u)
<1> DEFINE s == SetToSeq(S)
<1>1. s \in Seq(S)
  BY SetAsSeq
<1> HIDE DEF s
<1>2. Len(s) \in Nat /\ \A i \in 1 .. Len(s) : s[i] \in S
  BY <1>1
<1>3. Silent(s, u)
  BY <1>2 DEF Silent
<1> QED BY <1>3 DEF s

-----------------------------------------------------------------------------
(* The lines, and the properties in these terms.                           *)

Placing(ch) == {l \in UpLine : l.to = Hub!Wire(ch)}

WillHave(lines, table, c, ch) == Settles(lines, c, Placing(ch), table[c] = ch)

Arrivals == {l \in DownLine : l.on}

WillKnow(lines, table, r) == Settles(lines, r, Arrivals, r \in table)

\* ParentWillHave is what the last line in flight, or the parent's table, says.
LEMMA HaveMeans ==
    ASSUME up \in Seq(UpLine), NEW c, NEW ch, WillHave(up, view, c, ch)
    PROVE  ParentWillHave(c, ch)
<1>1. Len(up) \in Nat /\ \A i \in 1 .. Len(up) : up[i] \in UpLine
  OBVIOUS
<1> QED BY <1>1 DEF WillHave, ParentWillHave, Settles, Ends, Silent, Placing

\* Likewise for what we are going to know of the network.
LEMMA KnowMeans ==
    ASSUME down \in Seq(DownLine), NEW r \in RemoteUser, WillKnow(down, remote, r)
    PROVE  WillBeKnown(r, TRUE)
<1>1. CASE Ends(down, r, Arrivals)
  <2>1. PICK i \in 1 .. Len(down) : LastAbout(down, i, r) /\ down[i] \in Arrivals
    BY <1>1 DEF Ends
  <2>2. down[i].on = TRUE
    <3>1. down[i] \in DownLine /\ down[i].verb = "USER" /\ down[i].on
      BY <2>1 DEF Arrivals, LastAbout, IsAbout
    <3>2. down[i] \in [verb : {"USER"}, user : RemoteUser, on : BOOLEAN]
      BY <3>1 DEF DownLine, Command
    <3> QED BY <3>1, <3>2
  <2> QED BY <2>1, <2>2 DEF WillBeKnown
<1>2. CASE r \in remote /\ Silent(down, r)
  BY <1>2 DEF WillBeKnown, Silent
<1> QED BY <1>1, <1>2 DEF WillKnow, Settles

\* Commands other than /..USER are about nobody.
LEMMA Commands ==
    ASSUME NEW u
    PROVE  /\ \A v \in {"HOST", "PING", "PONG", "UMSG"} :
                Command(v) \in UpLine /\ ~IsAbout(Command(v), u)
           /\ \A v \in {"HOST", "TEXT", "PING", "PONG", "LOOP", "ROUT"} :
                Command(v) \in DownLine /\ ~IsAbout(Command(v), u)
           /\ \A v \in {"HOST", "TEXT", "PING", "PONG", "LOOP", "ROUT", "UMSG"} :
                Command(v).verb = v
BY DEF UpLine, DownLine, Command, IsAbout

\* The announcement of a move places its user, and no other.
LEMMA Announcements ==
    ASSUME NEW c \in Callsign, NEW from \in Channel \cup {-1}, NEW ch \in Channel \cup {None},
           NEW d \in Callsign
    PROVE  LET l == [verb |-> "USER", user |-> c, from |-> from, to |-> Hub!Wire(ch)] IN
           /\ l \in UpLine /\ l \in Placing(ch)
           /\ IsAbout(l, d) <=> d = c
<1> DEFINE l == [verb |-> "USER", user |-> c, from |-> from, to |-> Hub!Wire(ch)]
<1>1. Hub!Wire(ch) \in Channel \cup {-1}
  BY DEF Hub!Wire, Hub!NoChannel
<1>2. l \in UpLine
  BY <1>1 DEF UpLine
<1>3. l \in Placing(ch)
  BY <1>2 DEF Placing
<1> QED BY <1>2, <1>3 DEF IsAbout

\* The parent places a user where the line that says so meant.
LEMMA Placed ==
    ASSUME NEW l \in UpLine, NEW c \in Callsign, NEW ch \in Channel \cup {None},
           NEW table \in [Callsign -> Channel \cup {None}]
    PROVE  /\ Believed(table, l) \in [Callsign -> Channel \cup {None}]
           /\ IsAbout(l, c) /\ l \in Placing(ch) => Believed(table, l)[c] = ch
           /\ ~IsAbout(l, c) => Believed(table, l)[c] = table[c]
<1>1. CASE l.verb # "USER"
  BY <1>1 DEF Believed, IsAbout
<1>2. CASE l.verb = "USER"
  <2>1. l \in [verb : {"USER"}, user : Callsign, from : Channel \cup {-1}, to : Channel \cup {-1}]
    BY <1>2 DEF UpLine, Command
  <2>2. l.user \in Callsign /\ l.to \in Channel \cup {-1}
    BY <2>1
  <2> DEFINE place == IF l.to = -1 THEN None ELSE l.to
  <2>3. place \in Channel \cup {None}
    BY <2>2
  <2>4. l \in Placing(ch) => place = ch
    BY <2>2, UsersAssumption DEF Placing, Hub!Wire, Hub!NoChannel
  <2>5. Believed(table, l) = [table EXCEPT ![l.user] = place]
    BY <1>2 DEF Believed
  <2> HIDE DEF place
  <2> QED BY <1>2, <2>2, <2>3, <2>4, <2>5 DEF IsAbout
<1> QED BY <1>1, <1>2

\* Our table only ever holds users of the network.
LEMMA LearnedTypes ==
    ASSUME NEW l \in DownLine, NEW table \in SUBSET RemoteUser
    PROVE  Learned(table, l) \in SUBSET RemoteUser
<1>1. CASE l.verb # "USER"
  BY <1>1 DEF Learned
<1>2. CASE l.verb = "USER"
  <2>1. l \in [verb : {"USER"}, user : RemoteUser, on : BOOLEAN]
    BY <1>2 DEF DownLine, Command
  <2> QED BY <2>1 DEF Learned
<1> QED BY <1>1, <1>2

\* A line enters the user it announces, and touches no other.
LEMMA LearnedUser ==
    ASSUME NEW l \in DownLine, NEW r \in RemoteUser, NEW table \in SUBSET RemoteUser
    PROVE  /\ IsAbout(l, r) /\ l \in Arrivals => r \in Learned(table, l)
           /\ ~IsAbout(l, r) => (r \in Learned(table, l) <=> r \in table)
<1>1. CASE l.verb # "USER"
  BY <1>1 DEF Learned, IsAbout
<1>2. CASE l.verb = "USER"
  <2>1. l \in [verb : {"USER"}, user : RemoteUser, on : BOOLEAN]
    BY <1>2 DEF DownLine, Command
  <2> QED BY <1>2, <2>1 DEF Learned, IsAbout, Arrivals
<1> QED BY <1>1, <1>2

-----------------------------------------------------------------------------
(* The engine.                                                             *)

\* What every step of an open engine leaves behind.
StepKeeps(step) ==
    /\ step.engine \in Engine /\ step.engine.state # "Disconnected"
    /\ step.completed \in BOOLEAN /\ step.drop \in BOOLEAN /\ step.event \in BOOLEAN
    /\ step.out \in {<<>>, <<Command("UMSG")>>, <<Command("PING")>>}

LineTaken(line, step) ==
    /\ StepKeeps(step)
    /\ step.completed => line.verb = "HOST" /\ ~step.event /\ step.out = <<>>
    /\ line.verb = "USER" => step.event /\ ~step.drop /\ ~step.completed

\* An engine with other ages is an engine.
LEMMA EngineFields ==
    ASSUME NEW e \in Engine
    PROVE  /\ e.state \in {"Disconnected", "Handshaking", "Established"}
           /\ e.silent \in 0 .. SilenceTimeout
           /\ e.pinged \in 0 .. PingInterval
           /\ e.shaking \in 0 .. HandshakeTimeout
           /\ [e EXCEPT !.silent = 0] \in Engine
           /\ [e EXCEPT !.pinged = 0] \in Engine
           /\ [e EXCEPT !.state = "Established"] \in Engine
           /\ [e EXCEPT !.silent = 0].state = e.state
           /\ [e EXCEPT !.pinged = 0].state = e.state
           /\ [e EXCEPT !.state = "Established"].state = "Established"
           /\ Aged(e) \in Engine /\ Aged(e).state = e.state
<1>1. /\ e.silent \in 0 .. SilenceTimeout
      /\ e.pinged \in 0 .. PingInterval
      /\ e.shaking \in 0 .. HandshakeTimeout
  BY DEF Engine
<1>2. \A limit \in Nat : \A age \in 0 .. limit : Older(age, limit) \in 0 .. limit
  BY DEF Older
<1>3. /\ Older(e.silent, SilenceTimeout) \in 0 .. SilenceTimeout
      /\ Older(e.pinged, PingInterval) \in 0 .. PingInterval
      /\ Older(e.shaking, HandshakeTimeout) \in 0 .. HandshakeTimeout
  BY <1>1, <1>2, TimingAssumption
<1>4. Aged(e) \in Engine /\ Aged(e).state = e.state
  BY <1>3 DEF Aged, Engine
<1> QED BY <1>4, TimingAssumption DEF Engine

\* A line from the parent: HandshakeCompleted only on its /..HOST, with nothing
\* else to do; /..USER always goes to the hub and never ends the connection.
LEMMA LineStep ==
    ASSUME NEW e \in Engine, e.state # "Disconnected", NEW line \in DownLine
    PROVE  LineTaken(line, OnLineReceived(e, line, FALSE))
<1> DEFINE heard == [e EXCEPT !.silent = 0]
           step == OnLineReceived(e, line, FALSE)
<1>1. heard \in Engine /\ heard.state = e.state
  BY EngineFields
<1>2. heard.state \in {"Handshaking", "Established"}
  BY <1>1, EngineFields
<1>3. [heard EXCEPT !.state = "Established"] \in Engine
      /\ [heard EXCEPT !.state = "Established"].state = "Established"
  BY <1>1, EngineFields
<1>4. CASE line.verb = "TEXT"
  <2>1. step = StepTo(heard)
    BY <1>4 DEF OnLineReceived
  <2> HIDE DEF heard, step
  <2>2. StepKeeps(step)
    BY <1>1, <1>2, <2>1 DEF StepKeeps, StepTo
  <2>3. LineTaken(line, step)
    BY <1>4, <2>1, <2>2 DEF StepTo, LineTaken
  <2> QED BY <2>3 DEF step
<1>5. CASE line.verb # "TEXT" /\ e.state = "Handshaking"
  <2>1. step = OnLineWhileHandshaking(heard, line, FALSE)
    BY <1>5 DEF OnLineReceived
  <2> DEFINE done == [heard EXCEPT !.state = "Established"]
  <2>2. CASE line.verb = "HOST"
    <3>1. step = [engine |-> done, out |-> <<>>, event |-> FALSE, completed |-> TRUE, drop |-> FALSE]
      BY <2>1, <2>2 DEF OnLineWhileHandshaking, StepTo
    <3>2. done \in Engine /\ done.state = "Established"
      BY <1>3
    <3> HIDE DEF heard, done, step
    <3>3. StepKeeps(step)
      BY <3>1, <3>2 DEF StepKeeps
    <3>4. LineTaken(line, step)
      BY <2>2, <3>1, <3>3 DEF LineTaken
    <3> QED BY <3>4 DEF step
  <2>3. CASE line.verb # "HOST"
    <3>1. step = [engine |-> heard, out |-> <<>>, event |-> TRUE, completed |-> FALSE, drop |-> FALSE]
      BY <2>1, <2>3 DEF OnLineWhileHandshaking, StepTo
    <3> HIDE DEF heard, step
    <3>2. StepKeeps(step)
      BY <1>1, <1>2, <3>1 DEF StepKeeps
    <3>3. LineTaken(line, step)
      BY <3>1, <3>2 DEF LineTaken
    <3> QED BY <3>3 DEF step
  <2> QED BY <2>2, <2>3
<1>6. CASE line.verb # "TEXT" /\ e.state = "Established"
  <2>1. step = OnLineWhileEstablished(heard, line)
    BY <1>6 DEF OnLineReceived
  <2>2. PICK ev \in BOOLEAN, dr \in BOOLEAN, out \in {<<>>, <<Command("UMSG")>>} :
          /\ step = [engine |-> heard, out |-> out, event |-> ev, completed |-> FALSE, drop |-> dr]
          /\ line.verb = "USER" => ev /\ ~dr
    BY <2>1 DEF OnLineWhileEstablished, StepTo
  <2> HIDE DEF heard, step
  <2>3. StepKeeps(step)
    BY <1>1, <1>2, <2>2 DEF StepKeeps
  <2>4. LineTaken(line, step)
    BY <2>2, <2>3 DEF LineTaken
  <2> QED BY <2>4 DEF step
<1> QED BY <1>2, <1>1, <1>4, <1>5, <1>6

\* A tick: nothing is completed and nothing reaches the hub.
LEMMA TickStep ==
    ASSUME NEW e \in Engine, e.state # "Disconnected"
    PROVE  StepKeeps(OnTick(e)) /\ ~OnTick(e).completed
<1> DEFINE step == OnTick(e)
           sent == [e EXCEPT !.pinged = 0]
<1>1. /\ e.state \in {"Handshaking", "Established"}
      /\ sent \in Engine /\ sent.state = e.state
  BY EngineFields
<1>2. PICK dr \in BOOLEAN, out \in {<<>>, <<Command("PING")>>}, g \in {e, sent} :
        step = [engine |-> g, out |-> out, event |-> FALSE, completed |-> FALSE, drop |-> dr]
  <2> DEFINE stalled == e.state = "Handshaking" /\ e.shaking >= HandshakeTimeout
             dead == e.state = "Established" /\ e.silent >= SilenceTimeout
             due == e.state = "Established" /\ e.pinged >= PingInterval
  <2>1. CASE stalled \/ dead
    <3>1. step = [StepTo(e) EXCEPT !.drop = TRUE]
      BY <2>1 DEF OnTick
    <3> QED BY <3>1 DEF StepTo
  <2>2. CASE ~stalled /\ ~dead /\ due
    <3>1. step = [StepTo(sent) EXCEPT !.out = <<Command("PING")>>]
      BY <2>2 DEF OnTick
    <3> QED BY <3>1 DEF StepTo
  <2>3. CASE ~stalled /\ ~dead /\ ~due
    <3>1. step = StepTo(e)
      BY <2>3 DEF OnTick
    <3> QED BY <3>1 DEF StepTo
  <2> QED BY <2>1, <2>2, <2>3
<1> HIDE DEF step, sent
<1>3. StepKeeps(step) /\ ~step.completed
  BY <1>1, <1>2 DEF StepKeeps
<1> QED BY <1>3 DEF step

-----------------------------------------------------------------------------
(* What is announced when the handshake is over.                           *)

\* OnEstablishedAsync places every user the hub has, and speaks of no other.
LEMMA Rejoins ==
    ASSUME own \in [Callsign -> Channel \cup {None}]
    PROVE  /\ Reannounced \in Seq(UpLine)
           /\ \A c \in Callsign : own[c] # None => Ends(Reannounced, c, Placing(own[c]))
           /\ \A c \in Callsign : own[c] = None => Silent(Reannounced, c)
<1> DEFINE Join(c) == [verb |-> "USER", user |-> c, from |-> -1, to |-> own[c]]
           Present == {x \in Callsign : own[x] # None}
           Joins == {Join(c) : c \in Present}
<1>1. IsFiniteSet(Joins)
  <2> DEFINE f == [c \in Present |-> Join(c)]
  <2>1. f \in Surjection(Present, Joins)
    BY DEF Surjection
  <2>2. IsFiniteSet(Present)
    BY UsersAssumption, FS_Subset
  <2> QED BY <2>1, <2>2, FS_Surjection
<1>2. ASSUME NEW c \in Present, NEW d \in Callsign
      PROVE  /\ Join(c) \in UpLine /\ Join(c) \in Placing(own[c])
             /\ IsAbout(Join(c), d) <=> d = c
  <2>1. own[c] \in Channel \cup {None} /\ own[c] = Hub!Wire(own[c])
    BY DEF Hub!Wire
  <2>2. -1 \in Channel \cup {-1} /\ c \in Callsign
    OBVIOUS
  <2> HIDE DEF Present
  <2> QED BY <2>1, <2>2, Announcements
<1>3. Reannounced = SetToSeq(Joins)
  BY DEF Reannounced
<1>4. Joins \subseteq UpLine
  BY <1>2
<1>5. Reannounced \in Seq(UpLine)
  BY <1>1, <1>3, <1>4, SetAsSeq
<1>6. ASSUME NEW c \in Callsign, own[c] # None
      PROVE  Ends(Reannounced, c, Placing(own[c]))
  <2>1. c \in Present /\ Join(c) \in Joins
    BY <1>6
  <2>2. IsAbout(Join(c), c) /\ Join(c) \in Placing(own[c])
    BY <1>2, <2>1
  <2>3. \A y \in Joins : IsAbout(y, c) => y = Join(c)
    BY <1>2
  <2> HIDE DEF Joins, Join
  <2> QED BY <1>1, <1>3, <2>1, <2>2, <2>3, RollCall
<1>7. ASSUME NEW c \in Callsign, own[c] = None
      PROVE  Silent(Reannounced, c)
  <2>1. \A y \in Joins : ~IsAbout(y, c)
    BY <1>2, <1>7
  <2> HIDE DEF Joins
  <2> QED BY <1>1, <1>3, <2>1, NotOnRoll
<1> QED BY <1>5, <1>6, <1>7

Welcome == SetToSeq({RemoteLine(r, TRUE) : r \in net})

\* The parent's greeting names everyone on the network.
LEMMA Welcomes ==
    ASSUME net \in SUBSET RemoteUser
    PROVE  /\ Welcome \in Seq(DownLine)
           /\ \A r \in net : Ends(Welcome, r, Arrivals)
<1> DEFINE Line(r) == RemoteLine(r, TRUE)
           Lines == {Line(r) : r \in net}
<1>1. IsFiniteSet(Lines)
  <2> DEFINE f == [r \in net |-> Line(r)]
  <2>1. f \in Surjection(net, Lines)
    BY DEF Surjection
  <2>2. IsFiniteSet(net)
    BY UsersAssumption, FS_Subset
  <2> QED BY <2>1, <2>2, FS_Surjection
<1>2. ASSUME NEW r \in net, NEW s \in net
      PROVE  /\ Line(r) \in DownLine /\ Line(r) \in Arrivals
             /\ IsAbout(Line(r), s) <=> s = r
  <2>1. Line(r) \in DownLine
    BY DEF RemoteLine, DownLine
  <2> QED BY <2>1 DEF RemoteLine, Arrivals, IsAbout
<1>3. Welcome = SetToSeq(Lines)
  BY DEF Welcome
<1>4. Lines \subseteq DownLine
  BY <1>2
<1>5. Welcome \in Seq(DownLine)
  <2> HIDE DEF Lines
  <2>1. Welcome \in Seq(Lines)
    BY <1>1, <1>3, SetAsSeq
  <2> QED BY <1>4, <2>1
<1>6. ASSUME NEW r \in net PROVE Ends(Welcome, r, Arrivals)
  <2>1. Line(r) \in Lines /\ IsAbout(Line(r), r) /\ Line(r) \in Arrivals
    BY <1>2
  <2>2. ASSUME NEW y \in Lines, IsAbout(y, r) PROVE y = Line(r)
    <3>1. PICK s \in net : y = Line(s)
      OBVIOUS
    <3>2. s = r
      <4> HIDE DEF Line
      <4> QED BY <1>2, <2>2, <3>1
    <3> QED BY <3>1, <3>2
  <2> HIDE DEF Lines, Line
  <2> QED BY <1>1, <1>3, <2>1, <2>2, RollCall
<1> QED BY <1>5, <1>6

-----------------------------------------------------------------------------
(* The inductive invariant.                                                *)

LoopTypes ==
    /\ loop \in {"dialing", "running", "waiting"}
    /\ engine \in Engine
    /\ ever \in BOOLEAN /\ isUp \in BOOLEAN
    /\ backoff \in InitialBackoff..MaxBackoff
    /\ link \in {"none", "ok", "hung", "cut"}
    /\ up \in Seq(UpLine) /\ down \in Seq(DownLine)

TableTypes ==
    /\ greeted \in BOOLEAN
    /\ work \in Seq([user : Callsign, to : Channel \cup {None}])
    /\ own \in [Callsign -> Channel \cup {None}]
    /\ view \in [Callsign -> Channel \cup {None}]
    /\ remote \in SUBSET RemoteUser /\ net \in SUBSET RemoteUser

\* There is a connection, with an open engine, exactly while one runs.
Phase ==
    /\ loop # "running" => link = "none" /\ ~isUp
    /\ loop = "running" => link # "none" /\ engine.state # "Disconnected"

NoHost(lines) == \A i \in 1 .. Len(lines) : lines[i].verb # "HOST"

\* Once it has read what is in flight the parent has each user where the hub
\* has them; until the handshake is over it may know nothing of them.
Announced ==
    link = "ok" =>
      \A c \in Callsign : \/ WillHave(up, view, c, own[c])
                          \/ ~isUp /\ WillHave(up, view, c, None)

\* A parent that has not read our /..HOST has not sent its own.
Quiet == link = "ok" /\ ~greeted => ~isUp /\ NoHost(down)

\* A parent that has keeps us informed, before its own /..HOST too.
Heard == link = "ok" /\ greeted => \A r \in net : WillKnow(down, remote, r)

InStep == LoopTypes /\ TableTypes /\ Phase /\ Announced /\ Quiet /\ Heard

\* TypeOK is its two parts.
LEMMA Types == TypeOK <=> LoopTypes /\ TableTypes
BY DEF TypeOK, LoopTypes, TableTypes

\* The invariant holds before the first dial.
LEMMA InitInStep == Init => InStep
<1> SUFFICES ASSUME Init PROVE InStep
  OBVIOUS
<1>1. NewEngine \in Engine
  BY TimingAssumption DEF NewEngine, Engine
<1>2. <<>> \in Seq(UpLine) /\ <<>> \in Seq(DownLine)
      /\ <<>> \in Seq([user : Callsign, to : Channel \cup {None}])
  OBVIOUS
<1>3. LoopTypes
  <2>1. InitialBackoff \in InitialBackoff .. MaxBackoff
    BY BackoffAssumption
  <2> QED BY <1>1, <1>2, <2>1 DEF Init, LoopTypes
<1>4. TableTypes
  BY <1>2 DEF Init, TableTypes, Absent
<1> QED BY <1>3, <1>4 DEF Init, InStep, Phase, Announced, Quiet, Heard, NoHost

\* The tail of RunAsync leaves no connection behind.
LEMMA Ended ==
    ASSUME LoopTypes, NEW fresh, EndConnection(fresh)
    PROVE  LoopTypes' /\ Phase' /\ link' # "ok" /\ loop' # "running"
<1>1. NewEngine \in Engine
  BY TimingAssumption DEF NewEngine, Engine
<1>2. <<>> \in Seq(UpLine) /\ <<>> \in Seq(DownLine)
  OBVIOUS
<1>3. LoopTypes'
  <2>1. InitialBackoff \in InitialBackoff .. MaxBackoff
    BY BackoffAssumption
  <2>2. backoff' \in InitialBackoff .. MaxBackoff
    BY <2>1 DEF LoopTypes, EndConnection
  <2> QED BY <1>1, <1>2, <2>2 DEF LoopTypes, EndConnection
<1> QED BY <1>3 DEF EndConnection, Phase

\* Without a connection there is nothing to keep in step.
LEMMA Cold ==
    ASSUME LoopTypes', TableTypes', Phase', link' # "ok"
    PROVE  InStep'
BY DEF InStep, Announced, Quiet, Heard

\* A step of the engine, carried out: the connection is gone, or the answers
\* are behind what was in flight and the rest is as the step says.
LEMMA StepApplied ==
    ASSUME LoopTypes, Phase, loop = "running",
           NEW step, StepKeeps(step), NEW sends \in Seq(UpLine),
           NEW rest \in Seq(DownLine),
           ApplyStep(step, sends), loop' = "running" => down' = rest
    PROVE  /\ LoopTypes' /\ Phase'
           /\ link' = "ok" => /\ link = "ok" /\ ~step.drop
                              /\ down' = rest /\ up' = up \o sends
                              /\ isUp' = (isUp \/ step.completed)
<1>1. ASSUME NEW fresh, EndConnection(fresh)
      PROVE  LoopTypes' /\ Phase' /\ link' # "ok"
  BY <1>1, Ended
<1>2. CASE step.drop
  BY <1>1, <1>2 DEF ApplyStep
<1>3. CASE link = "cut" /\ EndConnection(FALSE)
  BY <1>1, <1>3
<1>4. CASE /\ ~step.drop
           /\ engine' = step.engine
           /\ ever' = (ever \/ step.completed)
           /\ isUp' = (isUp \/ step.completed)
           /\ Send(sends)
           /\ UNCHANGED <<loop, backoff, link>>
  <2>1. up \o sends \in Seq(UpLine)
    BY DEF LoopTypes
  <2>2. up' \in Seq(UpLine) /\ (link' = "ok" => up' = up \o sends)
    BY <1>4, <2>1 DEF Send, LoopTypes
  <2>3. down' = rest
    BY <1>4
  <2>4. (ever \/ step.completed) \in BOOLEAN /\ (isUp \/ step.completed) \in BOOLEAN
    OBVIOUS
  <2>5. LoopTypes'
    BY <1>4, <2>2, <2>3, <2>4 DEF LoopTypes, StepKeeps
  <2>6. Phase'
    BY <1>4 DEF Phase, StepKeeps
  <2> QED BY <1>4, <2>2, <2>3, <2>5, <2>6
<1> QED BY <1>2, <1>3, <1>4 DEF ApplyStep

-----------------------------------------------------------------------------
(* The steps.                                                              *)

\* Lines behind the ones in flight that do not mention a user leave what the
\* parent will have.
LEMMA StillHas ==
    ASSUME NEW lines \in Seq(UpLine), NEW more \in Seq(UpLine), NEW table, NEW c, NEW ch,
           WillHave(lines, table, c, ch), Silent(more, c)
    PROVE  WillHave(lines \o more, table, c, ch)
BY SettlesBefore DEF WillHave

\* And the same for what we are going to know.
LEMMA StillKnows ==
    ASSUME NEW lines \in Seq(DownLine), NEW more \in Seq(DownLine), NEW table, NEW r,
           WillKnow(lines, table, r), Silent(more, r)
    PROVE  WillKnow(lines \o more, table, r)
BY SettlesBefore DEF WillKnow

\* A queued move of a local user.
LEMMA SubmitStep ==
    ASSUME InStep, NEW c \in Callsign, NEW to \in Channel \cup {None}, Submit(c, to)
    PROVE  InStep'
<1>1. [user |-> c, to |-> to] \in [user : Callsign, to : Channel \cup {None}]
  OBVIOUS
<1>2. work' \in Seq([user : Callsign, to : Channel \cup {None}])
  BY <1>1 DEF Submit, InStep, TableTypes
<1>3. LoopTypes' /\ TableTypes'
  BY <1>2 DEF Submit, InStep, TableTypes, LoopTypes, parent
<1> QED BY <1>3 DEF Submit, InStep, Phase, Announced, Quiet, Heard, parent

\* A move is applied: while the link works its line is the last about the user.
LEMMA LocalStep ==
    ASSUME InStep, ApplyLocal
    PROVE  InStep'
<1> DEFINE c == Head(work).user
           to == Head(work).to
<1>1. /\ Head(work) \in [user : Callsign, to : Channel \cup {None}]
      /\ work' \in Seq([user : Callsign, to : Channel \cup {None}])
  <2> DEFINE Item == [user : Callsign, to : Channel \cup {None}]
  <2>1. work \in Seq(Item) /\ work # <<>> /\ work' = Tail(work)
    BY DEF ApplyLocal, InStep, TableTypes
  <2> HIDE DEF Item
  <2>2. Head(work) \in Item /\ Tail(work) \in Seq(Item)
    BY <2>1
  <2> QED BY <2>1, <2>2 DEF Item
<1>2. c \in Callsign /\ to \in Channel \cup {None}
  BY <1>1
<1> DEFINE a == Hub!Announcement(c, to)
<1>3. /\ a \in UpLine /\ a \in Placing(to)
      /\ \A d \in Callsign : IsAbout(a, d) <=> d = c
  <2>1. own[c] \in Channel \cup {None}
    BY <1>2 DEF InStep, TableTypes
  <2>2. Hub!Wire(own[c]) \in Channel \cup {-1}
    BY <2>1 DEF Hub!Wire, Hub!NoChannel
  <2> HIDE DEF c, to
  <2> QED BY <1>2, <2>2, Announcements DEF Hub!Announcement
<1>4. /\ UNCHANGED <<loop, engine, ever, isUp, backoff, remote, link, down, greeted, view, net>>
      /\ \/ own[c] = to /\ UNCHANGED <<own, up>>
         \/ own' = [own EXCEPT ![c] = to] /\ Send(<<a>>)
  <2>1. IF own[c] = to THEN UNCHANGED <<own, up>>
        ELSE own' = [own EXCEPT ![c] = to] /\ Send(<<a>>)
    BY DEF ApplyLocal
  <2> QED BY <2>1 DEF ApplyLocal, parent
<1> HIDE DEF c, to, a
<1>5. CASE own[c] = to /\ UNCHANGED <<own, up>>
  <2>1. LoopTypes' /\ TableTypes'
    BY <1>1, <1>4, <1>5 DEF InStep, LoopTypes, TableTypes
  <2> QED BY <1>4, <1>5, <2>1 DEF InStep, Phase, Announced, Quiet, Heard
<1>6. CASE own' = [own EXCEPT ![c] = to] /\ Send(<<a>>)
  <2>1. <<a>> \in Seq(UpLine) /\ up \in Seq(UpLine) /\ up \o <<a>> \in Seq(UpLine)
    BY <1>3 DEF InStep, LoopTypes
  <2>2. up' \in Seq(UpLine) /\ (link = "ok" => up' = up \o <<a>>)
    BY <1>6, <2>1 DEF Send
  <2>3. LoopTypes' /\ TableTypes'
    BY <1>1, <1>2, <1>4, <1>6, <2>2 DEF InStep, LoopTypes, TableTypes
  <2>4. ASSUME link = "ok", NEW d \in Callsign
        PROVE  \/ WillHave(up', view, d, own'[d])
               \/ ~isUp /\ WillHave(up', view, d, None)
    <3>1. CASE d = c
      <4>1. Ends(<<a>>, c, Placing(to))
        BY <1>2, <1>3, OneLine
      <4>2. Ends(up', c, Placing(to))
        BY <2>1, <2>2, <2>4, <4>1, EndsAfter
      <4>3. own'[c] = to
        BY <1>2, <1>6 DEF InStep, TableTypes
      <4> QED BY <3>1, <4>2, <4>3 DEF WillHave, Settles
    <3>2. CASE d # c
      <4>1. Silent(<<a>>, d)
        BY <1>3, <3>2, OneLine
      <4>2. own'[d] = own[d]
        BY <1>6, <3>2 DEF InStep, TableTypes
      <4>3. \/ WillHave(up, view, d, own[d])
            \/ ~isUp /\ WillHave(up, view, d, None)
        BY <2>4 DEF InStep, Announced
      <4> QED BY <2>1, <2>2, <2>4, <4>1, <4>2, <4>3, StillHas
    <3> QED BY <3>1, <3>2
  <2>5. Announced'
    BY <1>4, <2>4 DEF Announced
  <2> QED BY <1>4, <2>3, <2>5 DEF InStep, Phase, Quiet, Heard
<1> QED BY <1>4, <1>5, <1>6

\* A new connection: a parent that knows none of our users and has said nothing.
LEMMA DialStep ==
    ASSUME InStep, DialOk
    PROVE  InStep'
<1>1. Opened \in Engine /\ Opened.state = "Handshaking"
  BY TimingAssumption DEF Opened, NewEngine, Engine
<1>2. OnConnected.engine = Opened /\ OnConnected.out = <<Command("HOST")>>
  BY DEF OnConnected, StepTo
<1>3. /\ Command("HOST") \in UpLine
      /\ \A c \in Callsign : ~IsAbout(Command("HOST"), c)
  BY DEF UpLine, Command, IsAbout
<1>4. up' = <<Command("HOST")>> /\ up' \in Seq(UpLine) /\ <<>> \in Seq(DownLine)
  BY <1>2, <1>3 DEF DialOk
<1>5. LoopTypes' /\ Phase'
  BY <1>1, <1>2, <1>4 DEF DialOk, InStep, LoopTypes, Phase
<1>6. Absent \in [Callsign -> Channel \cup {None}]
  BY DEF Absent
<1>7. TableTypes'
  BY <1>6 DEF DialOk, InStep, TableTypes, local
<1>8. ASSUME NEW c \in Callsign PROVE WillHave(up', view', c, None)
  <2>1. Silent(up', c)
    BY <1>3, <1>4, OneLine
  <2>2. view'[c] = None
    BY DEF DialOk, Absent
  <2> QED BY <2>1, <2>2 DEF WillHave, Settles
<1>9. ~isUp'
  BY DEF DialOk, InStep, Phase
<1>10. Announced'
  BY <1>8, <1>9 DEF Announced
<1> QED BY <1>5, <1>7, <1>9, <1>10 DEF DialOk, InStep, Quiet, Heard, NoHost

\* The end of a connection, or a dial that fails.
LEMMA EndStep ==
    ASSUME InStep, ReceiveEnd \/ DialFails
    PROVE  InStep'
<1>1. PICK fresh : EndConnection(fresh)
  BY DEF ReceiveEnd, DialFails
<1>2. LoopTypes' /\ Phase' /\ link' # "ok"
  BY <1>1, Ended DEF InStep
<1>3. TableTypes'
  BY DEF ReceiveEnd, DialFails, InStep, TableTypes, local, parent
<1> QED BY <1>2, <1>3, Cold

\* The backoff is over.
LEMMA WaitStep ==
    ASSUME InStep, WaitOver
    PROVE  InStep'
<1>1. NextBackoff \in InitialBackoff .. MaxBackoff
  BY BackoffAssumption DEF NextBackoff, InStep, LoopTypes
<1>2. LoopTypes' /\ Phase' /\ link' # "ok"
  BY <1>1 DEF WaitOver, InStep, LoopTypes, Phase
<1>3. TableTypes'
  BY DEF WaitOver, InStep, TableTypes, local, parent
<1> QED BY <1>2, <1>3, Cold

\* The connection breaks.
LEMMA BreakStep ==
    ASSUME InStep, NEW how \in {"hung", "cut"}, Breaks(how)
    PROVE  InStep'
<1>1. <<>> \in Seq(UpLine) /\ <<>> \in Seq(DownLine)
  OBVIOUS
<1>2. LoopTypes' /\ Phase' /\ link' # "ok"
  BY <1>1 DEF Breaks, InStep, LoopTypes, Phase
<1>3. TableTypes'
  BY DEF Breaks, InStep, TableTypes, local, parent
<1> QED BY <1>2, <1>3, Cold

\* A tick, with its ping or its drop.
LEMMA TimerStep ==
    ASSUME InStep, TickFires
    PROVE  InStep'
<1> DEFINE step == OnTick(Aged(engine))
<1>1. engine \in Engine /\ engine.state # "Disconnected" /\ loop = "running"
  BY DEF TickFires, InStep, LoopTypes, Phase
<1>2. Aged(engine) \in Engine /\ Aged(engine).state # "Disconnected"
  BY <1>1, EngineFields
<1>3. StepKeeps(step) /\ ~step.completed
  BY <1>2, TickStep
<1>4. /\ ApplyStep(step, step.out) /\ (loop' = "running" => down' = down)
      /\ UNCHANGED <<work, own, remote, greeted, view, net>>
  BY DEF TickFires, local, parent
<1> HIDE DEF step
<1>5. step.out \in Seq(UpLine) /\ \A c \in Callsign : Silent(step.out, c)
  <2>1. Command("UMSG") \in UpLine /\ Command("PING") \in UpLine
    BY Commands
  <2>2. \A c \in Callsign : ~IsAbout(Command("UMSG"), c) /\ ~IsAbout(Command("PING"), c)
    BY Commands
  <2>3. CASE step.out = <<>>
    BY <2>3 DEF Silent
  <2>4. CASE step.out = <<Command("UMSG")>>
    BY <2>1, <2>2, <2>4, OneLine
  <2>5. CASE step.out = <<Command("PING")>>
    BY <2>1, <2>2, <2>5, OneLine
  <2> QED BY <1>3, <2>3, <2>4, <2>5 DEF StepKeeps
<1>6. /\ LoopTypes' /\ Phase'
      /\ link' = "ok" => /\ link = "ok" /\ ~step.drop
                         /\ down' = down /\ up' = up \o step.out
                         /\ isUp' = (isUp \/ step.completed)
  BY <1>1, <1>3, <1>4, <1>5, StepApplied DEF InStep, LoopTypes
<1>7. TableTypes'
  BY <1>4 DEF InStep, TableTypes
<1>8. SUFFICES ASSUME link' = "ok" PROVE InStep'
  BY <1>6, <1>7, Cold
<1>9. link = "ok" /\ down' = down /\ up' = up \o step.out /\ isUp' = isUp
  BY <1>3, <1>6, <1>8 DEF InStep, LoopTypes
<1>10. ASSUME NEW c \in Callsign
       PROVE  \/ WillHave(up', view, c, own[c])
              \/ ~isUp /\ WillHave(up', view, c, None)
  <2>1. \/ WillHave(up, view, c, own[c])
        \/ ~isUp /\ WillHave(up, view, c, None)
    BY <1>9 DEF InStep, Announced
  <2>2. up \in Seq(UpLine)
    BY DEF InStep, LoopTypes
  <2> QED BY <1>5, <1>9, <2>1, <2>2, StillHas
<1>11. Announced'
  BY <1>4, <1>9, <1>10 DEF Announced
<1> QED BY <1>4, <1>6, <1>7, <1>9, <1>11 DEF InStep, Quiet, Heard

\* A line from the parent.  /..USER reaches the table in either phase, and its
\* /..HOST, which brings the link up, makes us announce everyone.
LEMMA ReceiveStep ==
    ASSUME InStep, Receive
    PROVE  InStep'
<1> DEFINE line == Head(down)
           step == OnLineReceived(engine, line, FALSE)
           answer == IF step.event THEN Answers(line) ELSE <<>>
           joins == IF step.completed THEN Reannounced ELSE <<>>
           sends == step.out \o answer \o joins
<1>1. /\ engine \in Engine /\ engine.state # "Disconnected" /\ loop = "running"
      /\ down \in Seq(DownLine) /\ down # <<>> /\ up \in Seq(UpLine)
      /\ remote \in SUBSET RemoteUser
      /\ own \in [Callsign -> Channel \cup {None}]
  BY DEF Receive, InStep, LoopTypes, TableTypes, Phase
<1>2. line \in DownLine /\ Tail(down) \in Seq(DownLine)
  BY <1>1
<1>3. LineTaken(line, step)
  BY <1>1, <1>2, LineStep
<1>4. /\ ApplyStep(step, sends) /\ (loop' = "running" => down' = Tail(down))
      /\ remote' = IF step.event THEN Learned(remote, line) ELSE remote
      /\ UNCHANGED <<work, own, greeted, view, net>>
  BY DEF Receive, local, parent
<1> HIDE DEF line, step
<1>5. /\ step.completed \in BOOLEAN /\ step.event \in BOOLEAN
      /\ step.completed => ~step.event /\ step.out = <<>> /\ line.verb = "HOST"
      /\ line.verb = "USER" => step.event
      /\ step.out \in {<<>>, <<Command("UMSG")>>, <<Command("PING")>>}
  BY <1>3 DEF LineTaken, StepKeeps
<1>6. answer \in {<<>>, <<Command("PONG")>>} /\ (step.completed => answer = <<>>)
  BY <1>5 DEF Answers
<1>7. /\ step.out \in Seq(UpLine) /\ answer \in Seq(UpLine)
      /\ \A c \in Callsign : Silent(step.out, c) /\ Silent(answer, c)
  <2>1. /\ Command("UMSG") \in UpLine /\ Command("PING") \in UpLine /\ Command("PONG") \in UpLine
        /\ \A c \in Callsign : /\ ~IsAbout(Command("UMSG"), c) /\ ~IsAbout(Command("PING"), c)
                               /\ ~IsAbout(Command("PONG"), c)
    BY Commands
  <2>2. <<>> \in Seq(UpLine) /\ \A c \in Callsign : Silent(<<>>, c)
    BY DEF Silent
  <2>3. \A l \in UpLine : <<l>> \in Seq(UpLine)
    OBVIOUS
  <2>4. \A l \in UpLine : \A c \in Callsign : ~IsAbout(l, c) => Silent(<<l>>, c)
    BY OneLine
  <2> HIDE DEF answer
  <2> QED BY <1>5, <1>6, <2>1, <2>2, <2>3, <2>4
<1>8. joins \in Seq(UpLine)
  <2>1. Reannounced \in Seq(UpLine) /\ <<>> \in Seq(UpLine)
    BY <1>1, Rejoins
  <2> QED BY <2>1
<1>9. sends \in Seq(UpLine)
  <2> HIDE DEF answer, joins
  <2> QED BY <1>7, <1>8
<1>10. ~step.completed => \A c \in Callsign : Silent(sends, c)
  <2> SUFFICES ASSUME ~step.completed, NEW c \in Callsign PROVE Silent(sends, c)
    OBVIOUS
  <2>1. joins = <<>> /\ Silent(joins, c)
    BY DEF Silent
  <2> HIDE DEF answer, joins
  <2>2. step.out \o answer \in Seq(UpLine) /\ Silent(step.out \o answer, c)
    BY <1>7, SilentJoint, Joint
  <2> QED BY <1>8, <2>1, <2>2, SilentJoint
<1>11. step.completed => sends = Reannounced
  <2> SUFFICES ASSUME step.completed PROVE sends = Reannounced
    OBVIOUS
  <2>1. joins = Reannounced /\ answer = <<>> /\ step.out = <<>>
    BY <1>5, <1>6
  <2> HIDE DEF answer, joins
  <2> QED BY <1>8, <2>1
<1> HIDE DEF answer, joins, sends
<1>12. /\ LoopTypes' /\ Phase'
       /\ link' = "ok" => /\ link = "ok" /\ ~step.drop
                          /\ down' = Tail(down) /\ up' = up \o sends
                          /\ isUp' = (isUp \/ step.completed)
  BY <1>1, <1>2, <1>3, <1>4, <1>9, StepApplied DEF InStep, LineTaken
<1>13. remote' \in SUBSET RemoteUser
  <2>1. CASE step.event
    BY <1>1, <1>2, <1>4, <2>1, LearnedTypes
  <2>2. CASE ~step.event
    BY <1>1, <1>4, <2>2
  <2> QED BY <2>1, <2>2
<1>14. TableTypes'
  BY <1>4, <1>13 DEF InStep, TableTypes
<1>15. SUFFICES ASSUME link' = "ok" PROVE InStep'
  BY <1>12, <1>14, Cold
<1>16. link = "ok" /\ down' = Tail(down) /\ up' = up \o sends /\ isUp' = (isUp \/ step.completed)
  BY <1>12, <1>15
<1>17. ~greeted => /\ ~isUp /\ line.verb # "HOST" /\ NoHost(Tail(down))
  <2> SUFFICES ASSUME ~greeted PROVE ~isUp /\ line.verb # "HOST" /\ NoHost(Tail(down))
    OBVIOUS
  <2>1. ~isUp /\ NoHost(down)
    BY <1>16 DEF InStep, Quiet
  <2>2. /\ Len(down) \in Nat /\ Len(down) > 0 /\ Len(Tail(down)) = Len(down) - 1
        /\ \A i \in 1 .. Len(down) - 1 : Tail(down)[i] = down[i + 1]
        /\ line = down[1]
    BY <1>1 DEF line
  <2>3. ASSUME NEW i \in 1 .. Len(down) - 1 PROVE Tail(down)[i].verb # "HOST"
    <3>1. i + 1 \in 1 .. Len(down)
      BY <2>2
    <3> QED BY <2>1, <2>2, <3>1 DEF NoHost
  <2>4. NoHost(Tail(down))
    BY <2>2, <2>3 DEF NoHost
  <2> QED BY <2>1, <2>2, <2>4 DEF NoHost
<1>18. ASSUME NEW c \in Callsign
       PROVE  \/ WillHave(up', view, c, own[c])
              \/ ~isUp' /\ WillHave(up', view, c, None)
  <2>1. \/ WillHave(up, view, c, own[c])
        \/ ~isUp /\ WillHave(up, view, c, None)
    BY <1>16 DEF InStep, Announced
  <2>2. CASE ~step.completed
    <3>1. Silent(sends, c) /\ isUp' = isUp
      BY <1>10, <1>16, <2>2, <1>12 DEF InStep, LoopTypes
    <3> QED BY <1>1, <1>9, <1>16, <2>1, <3>1, StillHas
  <2>3. CASE step.completed /\ own[c] # None
    <3>1. Ends(sends, c, Placing(own[c]))
      BY <1>1, <1>11, <2>3, Rejoins
    <3>2. Ends(up', c, Placing(own[c]))
      BY <1>1, <1>9, <1>16, <3>1, EndsAfter
    <3> QED BY <3>2 DEF WillHave, Settles
  <2>4. CASE step.completed /\ own[c] = None
    <3>1. Silent(sends, c)
      BY <1>1, <1>11, <2>4, Rejoins
    <3>2. WillHave(up, view, c, own[c])
      BY <2>1, <2>4
    <3> QED BY <1>1, <1>9, <1>16, <3>1, <3>2, StillHas
  <2> QED BY <1>5, <2>2, <2>3, <2>4
<1>19. Announced'
  BY <1>4, <1>18 DEF Announced
<1>20. ASSUME greeted, NEW r \in net PROVE WillKnow(down', remote', r)
  <2>1. WillKnow(down, remote, r) /\ r \in RemoteUser
    BY <1>16, <1>20 DEF InStep, Heard, TableTypes
  <2>2. IsAbout(line, r) /\ line \in Arrivals => r \in remote'
    <3>1. IsAbout(line, r) => step.event
      BY <1>5 DEF IsAbout
    <3> QED BY <1>1, <1>2, <1>4, <2>1, <3>1, LearnedUser
  <2>3. ~IsAbout(line, r) /\ r \in remote => r \in remote'
    BY <1>1, <1>2, <1>4, <2>1, LearnedUser
  <2>4. Settles(down, r, Arrivals, r \in remote)
    BY <2>1 DEF WillKnow
  <2>5. Settles(Tail(down), r, Arrivals, r \in remote')
    BY <1>1, <2>2, <2>3, <2>4, SettlesTail DEF line
  <2> QED BY <1>16, <2>5 DEF WillKnow
<1>21. Heard' /\ Quiet'
  <2>1. Heard'
    BY <1>4, <1>20 DEF Heard
  <2>2. ~greeted => ~isUp' /\ NoHost(down')
    BY <1>5, <1>16, <1>17
  <2> QED BY <1>4, <2>1, <2>2 DEF Quiet
<1> QED BY <1>12, <1>14, <1>19, <1>21 DEF InStep

\* Lines of the parent that speak of none of its users.
LEMMA Talks ==
    ASSUME InStep, link = "ok", NEW more \in Seq(DownLine),
           \A r \in RemoteUser : Silent(more, r), greeted \/ NoHost(more),
           down' = down \o more, UNCHANGED <<isUp, remote, link, greeted, net>>
    PROVE  Heard' /\ Quiet' /\ down' \in Seq(DownLine)
<1>1. down \in Seq(DownLine) /\ net \in SUBSET RemoteUser
  BY DEF InStep, LoopTypes, TableTypes
<1>2. ASSUME greeted, NEW r \in net PROVE WillKnow(down', remote, r)
  <2>1. WillKnow(down, remote, r) /\ Silent(more, r)
    BY <1>1, <1>2 DEF InStep, Heard
  <2> QED BY <1>1, <2>1, StillKnows
<1>3. ASSUME ~greeted PROVE ~isUp /\ NoHost(down')
  <2>1. ~isUp /\ NoHost(down) /\ NoHost(more)
    BY <1>3 DEF InStep, Quiet
  <2>2. ASSUME NEW i \in 1 .. Len(down \o more) PROVE (down \o more)[i].verb # "HOST"
    <3>1. CASE i \in 1 .. Len(down)
      BY <1>1, <2>1, <3>1, Joint DEF NoHost
    <3>2. CASE i \in Len(down) + 1 .. Len(down) + Len(more)
      <4>1. i - Len(down) \in 1 .. Len(more) /\ (down \o more)[i] = more[i - Len(down)]
        BY <1>1, <3>2, Joint
      <4> QED BY <2>1, <4>1 DEF NoHost
    <3> QED BY <1>1, <3>1, <3>2, Joint
  <2> QED BY <2>1, <2>2 DEF NoHost
<1>4. Heard' /\ Quiet'
  BY <1>2, <1>3 DEF Heard, Quiet
<1> QED BY <1>1, <1>4, Joint

\* A ping, an unparsed line, a route request, a loop report or another /..HOST.
LEMMA TalkStep ==
    ASSUME InStep, NEW verb \in {"PING", "TEXT", "ROUT", "LOOP", "HOST"}, ParentTalks(verb)
    PROVE  InStep'
<1> DEFINE more == <<Command(verb)>>
<1>1. Command(verb) \in DownLine /\ \A r \in RemoteUser : ~IsAbout(Command(verb), r)
  BY Commands
<1>2. more \in Seq(DownLine) /\ \A r \in RemoteUser : Silent(more, r)
  BY <1>1, OneLine
<1>3. /\ link = "ok" /\ greeted /\ down' = down \o more
      /\ UNCHANGED <<loop, engine, ever, isUp, backoff, work, own, remote, link, up,
                     greeted, view, net>>
  BY DEF ParentTalks, ParentSays, local, parent
<1> HIDE DEF more
<1>4. Heard' /\ Quiet' /\ down' \in Seq(DownLine)
  BY <1>2, <1>3, Talks
<1>5. LoopTypes' /\ TableTypes'
  BY <1>3, <1>4 DEF InStep, LoopTypes, TableTypes
<1> QED BY <1>3, <1>4, <1>5 DEF InStep, Phase, Announced

\* A user signs on or off: an informed leaf is told.
LEMMA NetworkStep ==
    ASSUME InStep, NEW r \in RemoteUser, NetworkMoves(r)
    PROVE  InStep'
<1> DEFINE on == r \notin net
           l == RemoteLine(r, on)
<1>1. /\ l \in DownLine /\ \A s \in RemoteUser : IsAbout(l, s) <=> s = r
      /\ on => l \in Arrivals
  <2>1. on \in BOOLEAN
    OBVIOUS
  <2> HIDE DEF on
  <2>2. l \in [verb : {"USER"}, user : RemoteUser, on : BOOLEAN]
    BY <2>1 DEF RemoteLine
  <2>3. l \in DownLine
    BY <2>2 DEF DownLine
  <2> QED BY <2>3 DEF RemoteLine, IsAbout, Arrivals
<1>2. /\ net' = IF on THEN net \cup {r} ELSE net \ {r}
      /\ IF greeted /\ link = "ok" THEN down' = down \o <<l>> ELSE UNCHANGED down
      /\ UNCHANGED <<loop, engine, ever, isUp, backoff, work, own, remote, link, up,
                     greeted, view>>
  BY DEF NetworkMoves, ParentSays, local
<1>3. <<l>> \in Seq(DownLine) /\ down \in Seq(DownLine) /\ net \in SUBSET RemoteUser
  BY <1>1 DEF InStep, LoopTypes, TableTypes
<1> HIDE DEF l, on
<1>4. LoopTypes' /\ TableTypes'
  <2>1. down' \in Seq(DownLine) /\ net' \in SUBSET RemoteUser
    BY <1>2, <1>3, Joint
  <2> QED BY <1>2, <2>1 DEF InStep, LoopTypes, TableTypes
<1>5. ASSUME greeted, link = "ok", NEW s \in net' PROVE WillKnow(down', remote, s)
  <2>1. down' = down \o <<l>>
    BY <1>2, <1>5
  <2>2. CASE s = r
    <3>1. on
      BY <1>2, <2>2
    <3>2. Ends(<<l>>, s, Arrivals)
      BY <1>1, <2>2, <3>1, OneLine
    <3>3. Ends(down', s, Arrivals)
      BY <1>3, <2>1, <3>2, EndsAfter
    <3> QED BY <3>3 DEF WillKnow, Settles
  <2>3. CASE s # r
    <3>1. s \in net /\ s \in RemoteUser
      BY <1>2, <1>3, <2>3
    <3>2. Silent(<<l>>, s)
      BY <1>1, <2>3, <3>1, OneLine
    <3>3. WillKnow(down, remote, s)
      BY <1>5, <3>1 DEF InStep, Heard
    <3> QED BY <1>3, <2>1, <3>2, <3>3, StillKnows
  <2> QED BY <2>2, <2>3
<1>6. Heard' /\ Quiet'
  BY <1>2, <1>5 DEF InStep, Heard, Quiet
<1> QED BY <1>2, <1>4, <1>6 DEF InStep, Phase, Announced

\* The parent takes one of our lines: it places the user, answers a ping, and
\* greets a newcomer with everyone it knows, before or after its /..HOST.
LEMMA ParentStep ==
    ASSUME InStep, ParentReads
    PROVE  InStep'
<1> DEFINE line == Head(up)
<1>1. /\ link = "ok" /\ up # <<>> /\ up \in Seq(UpLine) /\ up' = Tail(up)
      /\ view \in [Callsign -> Channel \cup {None}] /\ view' = Believed(view, line)
      /\ own \in [Callsign -> Channel \cup {None}]
      /\ down \in Seq(DownLine) /\ net \in SUBSET RemoteUser
      /\ UNCHANGED <<loop, engine, ever, isUp, backoff, work, own, remote, link, net>>
  BY DEF ParentReads, InStep, LoopTypes, TableTypes, local
<1>2. line \in UpLine /\ Tail(up) \in Seq(UpLine)
  BY <1>1
<1>3. \/ /\ greeted' = TRUE
         /\ \/ down' = down \o (<<Command("HOST")>> \o Welcome)
            \/ down' = down \o (Welcome \o <<Command("HOST")>>)
      \/ line.verb = "PING" /\ down' = down \o <<Command("PONG")>> /\ UNCHANGED greeted
      \/ UNCHANGED <<down, greeted>>
  BY DEF ParentReads, ParentSays, Welcome
<1> HIDE DEF line
<1>4. view' \in [Callsign -> Channel \cup {None}]
  <2>1. CASE Callsign = {}
    <3>1. line.verb # "USER"
      BY <1>2, <2>1 DEF UpLine, Command
    <3> QED BY <1>1, <3>1 DEF Believed
  <2>2. CASE Callsign # {}
    <3>1. None \in Channel \cup {None}
      OBVIOUS
    <3> QED BY <1>1, <1>2, <2>2, <3>1, Placed
  <2> QED BY <2>1, <2>2
<1>5. ASSUME NEW c \in Callsign, NEW ch \in Channel \cup {None}, WillHave(up, view, c, ch)
      PROVE  WillHave(up', view', c, ch)
  <2>1. IsAbout(line, c) /\ line \in Placing(ch) => view'[c] = ch
    BY <1>1, <1>2, Placed
  <2>2. ~IsAbout(line, c) /\ view[c] = ch => view'[c] = ch
    BY <1>1, <1>2, Placed
  <2>3. Settles(up, c, Placing(ch), view[c] = ch)
    BY <1>5 DEF WillHave
  <2>4. Settles(Tail(up), c, Placing(ch), view'[c] = ch)
    BY <1>1, <2>1, <2>2, <2>3, SettlesTail DEF line
  <2> QED BY <1>1, <2>4 DEF WillHave
<1>6. Announced'
  <2>1. ASSUME NEW c \in Callsign
        PROVE  \/ WillHave(up', view', c, own[c])
               \/ ~isUp /\ WillHave(up', view', c, None)
    <3>1. own[c] \in Channel \cup {None} /\ None \in Channel \cup {None}
      BY <1>1
    <3>2. \/ WillHave(up, view, c, own[c])
          \/ ~isUp /\ WillHave(up, view, c, None)
      BY <1>1 DEF InStep, Announced
    <3> QED BY <1>5, <3>1, <3>2
  <2> QED BY <1>1, <2>1 DEF Announced
<1>7. Heard' /\ Quiet' /\ down' \in Seq(DownLine) /\ greeted' \in BOOLEAN
  <2>1. CASE /\ greeted' = TRUE
             /\ \/ down' = down \o (<<Command("HOST")>> \o Welcome)
                \/ down' = down \o (Welcome \o <<Command("HOST")>>)
    <3>1. Command("HOST") \in DownLine /\ \A r \in net : ~IsAbout(Command("HOST"), r)
      BY Commands
    <3>2. <<Command("HOST")>> \in Seq(DownLine) /\ \A r \in net : Silent(<<Command("HOST")>>, r)
      BY <3>1, OneLine
    <3> DEFINE host == <<Command("HOST")>>
    <3>3. host \in Seq(DownLine) /\ \A r \in net : Silent(host, r)
      BY <3>2
    <3>4. Welcome \in Seq(DownLine) /\ \A r \in net : Ends(Welcome, r, Arrivals)
      BY <1>1, Welcomes
    <3>5. PICK more \in {host \o Welcome, Welcome \o host} : down' = down \o more
      BY <2>1
    <3> HIDE DEF host
    <3>6. more \in Seq(DownLine)
      BY <3>3, <3>4, <3>5, Joint
    <3>7. ASSUME NEW r \in net PROVE Ends(down', r, Arrivals)
      <4>1. Ends(host \o Welcome, r, Arrivals)
        BY <3>3, <3>4, EndsAfter
      <4>2. Ends(Welcome \o host, r, Arrivals)
        BY <3>3, <3>4, EndsBefore
      <4>3. Ends(more, r, Arrivals)
        BY <4>1, <4>2
      <4> QED BY <1>1, <3>5, <3>6, <4>3, EndsAfter
    <3>8. Heard'
      BY <1>1, <3>7 DEF Heard, WillKnow, Settles
    <3>9. down' \in Seq(DownLine)
      BY <1>1, <3>5, <3>6, Joint
    <3> QED BY <2>1, <3>8, <3>9 DEF Quiet
  <2>2. CASE UNCHANGED <<down, greeted>>
    BY <1>1, <2>2 DEF InStep, Heard, Quiet, TableTypes
  <2>3. CASE down' = down \o <<Command("PONG")>> /\ UNCHANGED greeted
    <3> DEFINE pong == Command("PONG")
    <3>1. pong \in DownLine /\ pong.verb # "HOST" /\ \A r \in RemoteUser : ~IsAbout(pong, r)
      BY Commands DEF Command
    <3> HIDE DEF pong
    <3>2. <<pong>> \in Seq(DownLine) /\ \A r \in RemoteUser : Silent(<<pong>>, r)
      BY <3>1, OneLine
    <3>3. NoHost(<<pong>>)
      BY <3>1 DEF NoHost
    <3>4. down' = down \o <<pong>>
      BY <2>3 DEF pong
    <3>5. Heard' /\ Quiet' /\ down' \in Seq(DownLine)
      BY <1>1, <2>3, <3>2, <3>3, <3>4, Talks
    <3> QED BY <2>3, <3>5 DEF InStep, TableTypes
  <2> QED BY <1>3, <2>1, <2>2, <2>3
<1>8. LoopTypes' /\ TableTypes'
  BY <1>1, <1>2, <1>4, <1>7 DEF InStep, LoopTypes, TableTypes
<1> QED BY <1>1, <1>6, <1>7, <1>8 DEF InStep, Phase

-----------------------------------------------------------------------------
(* The theorems.                                                           *)

\* Every step of the loop, of its submitters, of the parent and of the
\* transport keeps the invariant.
LEMMA NextInStep == InStep /\ [Next]_vars => InStep'
<1> SUFFICES ASSUME InStep, [Next]_vars PROVE InStep'
  OBVIOUS
<1>1. CASE Submitted
  BY <1>1, SubmitStep DEF Submitted
<1>2. CASE Loop
  BY <1>2, LocalStep, DialStep, ReceiveStep, EndStep, TimerStep, WaitStep DEF Loop
<1>3. CASE Parent
  <2>1. CASE ParentReads
    BY <2>1, ParentStep
  <2>2. CASE \E r \in RemoteUser : NetworkMoves(r)
    BY <2>2, NetworkStep
  <2>3. CASE \E verb \in {"PING", "TEXT", "ROUT"} : ParentTalks(verb)
    BY <2>3, TalkStep
  <2> QED BY <1>3, <2>1, <2>2, <2>3 DEF Parent
<1>4. CASE Fault
  <2>1. CASE DialFails
    BY <2>1, EndStep
  <2>2. CASE \E how \in {"hung", "cut"} : Breaks(how)
    BY <2>2, BreakStep
  <2>3. CASE \E verb \in {"LOOP", "HOST"} : ParentTalks(verb)
    BY <2>3, TalkStep
  <2> QED BY <1>4, <2>1, <2>2, <2>3 DEF Fault
<1>5. CASE UNCHANGED vars
  <2>1. LoopTypes' /\ TableTypes'
    BY <1>5 DEF vars, InStep, LoopTypes, TableTypes
  <2> QED BY <1>5, <2>1 DEF vars, InStep, Phase, Announced, Quiet, Heard
<1> QED BY <1>1, <1>2, <1>3, <1>4, <1>5 DEF Next

\* The invariant, in every reachable state.
LEMMA AlwaysInStep == Spec => []InStep
BY InitInStep, NextInStep, PTL DEF Spec

\* The state of the loop, of both lines and of both tables is well formed; the
\* backoff stays between its first and its longest delay (RunAsync).
THEOREM LinkTypes == Spec => []TypeOK
<1>1. InStep => TypeOK
  BY Types DEF InStep
<1> QED BY <1>1, AlwaysInStep, PTL

\* While the link is up the parent knows our users as the hub has them once it
\* has read what is in flight (OnEstablishedAsync, DrainLocalEventsAsync).
THEOREM ParentKeepsUp == Spec => []ParentInStep
<1>1. InStep => ParentInStep
  <2> SUFFICES ASSUME InStep, isUp, link = "ok", NEW c \in Callsign
               PROVE  ParentWillHave(c, own[c])
    BY DEF ParentInStep
  <2>1. WillHave(up, view, c, own[c])
    BY DEF InStep, Announced
  <2> QED BY <2>1, HaveMeans DEF InStep, LoopTypes
<1> QED BY <1>1, AlwaysInStep, PTL

\* While the link is up no user of the network is missing from our table once
\* what is in flight has been read (OnLineWhileHandshaking).
THEOREM NobodyIsMissed == Spec => []NetworkIsKnown
<1>1. InStep => NetworkIsKnown
  <2> SUFFICES ASSUME InStep, isUp, link = "ok", NEW r \in net
               PROVE  WillBeKnown(r, TRUE)
    BY DEF NetworkIsKnown
  <2>1. greeted
    BY DEF InStep, Quiet
  <2>2. WillKnow(down, remote, r) /\ r \in RemoteUser
    BY <2>1 DEF InStep, Heard, TableTypes
  <2> QED BY <2>2, KnowMeans DEF InStep, LoopTypes
<1> QED BY <1>1, AlwaysInStep, PTL

=============================================================================
