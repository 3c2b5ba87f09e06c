---------------------------- MODULE LoginProofs ------------------------------
(***************************************************************************)
(* The login and the flood protection of conversd-saupp, for any calls,    *)
(* connections, passwords, limits and number of messages.                  *)
(***************************************************************************)
EXTENDS Login, FiniteSetTheorems, WellFoundedInduction, TLAPS

Secrets == Passwords \cup {aprs_pass[k] : k \in Calls}

\* struct connection, with what Login looks at.
Connection ==
    [type : {"free", "closed", "unknown", "user"}, sock : {"open", "auth", "reserved"},
     name : Names \cup {NoName}, nick : Names \cup {NoName}, irc : BOOLEAN, host : BOOLEAN,
     need : SUBSET {"socket", "answer", "aprs"}, got : Answers \cup {NoAnswer},
     want : SUBSET (Kinds \X Secrets), asked : SUBSET Calls, isauth : 0 .. 2, sul : Suls]

(***************************************************************************)
(* The inductive invariant.                                                *)
(***************************************************************************)
Entries == sul \in [Suls -> Sul \cup {NoSul}]

Types ==
    /\ Entries
    /\ link \in BOOLEAN /\ present \subseteq Remote \X Chans /\ closed \subseteq Remote \X Chans
    /\ said \in [Calls -> Nat] /\ last \in [Calls -> Nat]
    /\ conn \in [Conns -> Connection]
    /\ passwd \in [Calls -> Passwords \cup {"", "none"}]

\* Session y is listed in entry t of S.
In(S, t, y) == S[t] # NoSul /\ y \in S[t].sp

\* SessionsAreListed; a session of the neighbour's is only in the entry of its call there.
Listed ==
    /\ \A c \in Conns : conn[c].type # "free" => In(sul, conn[c].sul, c)
    /\ \A x \in present : In(sul, <<x[1], "there">>, x)
    /\ \A s \in Suls : \A x : In(sul, s, x) =>
          \/ x \in present \cup closed /\ s = <<x[1], "there">>
          \/ x \in Conns /\ conn[x].type # "free" /\ conn[x].sul = s

\* The entries made for the neighbour have their via exactly while the link is up.
Linked ==
    /\ \A s \in Suls : sul[s] # NoSul => (sul[s].linked <=> s[2] = "there" /\ link)
    /\ present # {} => link

\* The messages of queue q ascend, after message a and up to message b.
InOrder(q, a, b) ==
    /\ \A i \in 1 .. Len(q) : q[i].n > a /\ q[i].n <= b
    /\ \A i, j \in 1 .. Len(q) : i < j => q[i].n < q[j].n

\* MessagesKeepTheirOrder; only entries made for the neighbour have a queue.
Ordered ==
    /\ \A k \in Calls : last[k] <= said[k]
    /\ \A s \in Suls : sul[s] # NoSul /\ sul[s].queue # <<>> =>
          s[2] = "there" /\ s[1] \in Calls /\ InOrder(sul[s].queue, last[s[1]], said[s[1]])

Book == Types /\ Listed /\ Linked /\ Ordered

-----------------------------------------------------------------------------
(***************************************************************************)
(* Numbers and entries.                                                    *)
(***************************************************************************)

\* A set of numbers up to n that is not empty has a largest one.
LEMMA HighestNumber ==
    ASSUME NEW n \in Nat, NEW T, T \subseteq 0 .. n, T # {}
    PROVE  Max(T) \in T /\ \A x \in T : x <= Max(T)
  <1> DEFINE D == {n - x : x \in T}
  <1>1. D \subseteq Nat /\ D # {}
    <2>1. \A x \in 0 .. n : n - x \in Nat
      OBVIOUS
    <2>2. PICK z : z \in T
      OBVIOUS
    <2>3. n - z \in D
      BY <2>2
    <2> QED BY <2>1, <2>3
  <1>2. \E R : IsWellFoundedOn(R, Nat) /\ \A x, y \in Nat : <<y, x>> \in R <=> y < x
    <2>1. \A x, y \in Nat : <<y, x>> \in OpToRel(<, Nat) <=> y < x
      BY DEF OpToRel
    <2> QED BY <2>1, NatLessThanWellFounded, Zenon
  <1>3. PICK R : IsWellFoundedOn(R, Nat) /\ \A x, y \in Nat : <<y, x>> \in R <=> y < x
    BY <1>2
  <1> HIDE DEF D
  <1>4. PICK d \in D : \A y \in D : ~ (<<y, d>> \in R)
    BY <1>1, <1>3, WFMin
  <1>5. \A y \in D : d <= y
    <2> SUFFICES ASSUME NEW y \in D PROVE d <= y
      OBVIOUS
    <2>1. y \in Nat /\ d \in Nat
      BY <1>1
    <2>2. ~ (y < d)
      BY <1>3, <1>4, <2>1
    <2> QED BY <2>1, <2>2
  <1>6. PICK m \in T : d = n - m
    BY DEF D
  <1>7. \A x \in T : m >= x
    <2> SUFFICES ASSUME NEW x \in T PROVE m >= x
      OBVIOUS
    <2>1. n - x \in D
      BY DEF D
    <2>2. d <= n - x
      BY <1>5, <2>1
    <2>3. x \in Nat /\ m \in Nat
      OBVIOUS
    <2> QED BY <1>6, <2>2, <2>3
  <1>8. Max(T) \in T /\ \A x \in T : Max(T) >= x
    BY <1>7 DEF Max
  <1> QED BY <1>8

\* The fields of an entry.
LEMMA SulFields ==
    ASSUME NEW e \in Sul
    PROVE  /\ e.linked \in BOOLEAN /\ e.sp \subseteq Conns \cup (Calls \X Chans)
           /\ e.floods \in Nat /\ e.ahead \in Nat /\ e.wait \in {"none", "short", "long"}
           /\ e.queue \in Seq(Message) /\ e # NoSul
  BY NoEntry DEF Sul

\* An entry stays one, with the same sessions and via, when its counters change.
Recounted(e, f) ==
    /\ f \in Sul /\ f.sp = e.sp /\ f.linked = e.linked
    /\ f.queue = e.queue \/ f.queue = <<>>

\* What the code does to the counters of an entry, and to its queue when the call is banned.
LEMMA Recounting ==
    ASSUME NEW e \in Sul
    PROVE  /\ Recounted(e, Ahead(e)) /\ Ahead(e).queue = e.queue
           /\ Recounted(e, Greeted(e)) /\ Greeted(e).queue = e.queue
           /\ Recounted(e, free_sul_delayqueue(e)) /\ free_sul_delayqueue(e).queue = <<>>
           /\ Recounted(e, Stopped(e))
           /\ \A f \in Early(e) \cup InTime(e) : Recounted(e, f)
  <1>3. /\ e.linked \in BOOLEAN /\ e.sp \subseteq Conns \cup (Calls \X Chans)
        /\ e.floods \in Nat /\ e.ahead \in Nat /\ e.wait \in {"none", "short", "long"}
        /\ e.queue \in Seq(Message)
    BY SulFields
  <1>1. <<>> \in Seq(Message)
    OBVIOUS
  <1>2. \A a \in Nat : Recounted(e, [e EXCEPT !.ahead = a]) /\ [e EXCEPT !.ahead = a].queue = e.queue
    BY <1>3 DEF Recounted, Sul
  <1>4. Recounted(e, Ahead(e)) /\ Ahead(e).queue = e.queue
    <2>1. \A a, b \in Nat : Min({a, b}) \in Nat
      <3> SUFFICES ASSUME NEW a \in Nat, NEW b \in Nat PROVE Min({a, b}) \in Nat
        OBVIOUS
      <3>1. \E x \in {a, b} : \A y \in {a, b} : x =< y
        <4>1. CASE a =< b
          BY <4>1
        <4>2. CASE b =< a
          BY <4>2
        <4> QED BY <4>1, <4>2
      <3> QED BY <3>1 DEF Min
    <2>2. Min({e.ahead + 1, RateLimitMAX + 1}) \in Nat
      BY <1>3, <2>1, NoFloodBounds
    <2> QED BY <1>2, <2>2 DEF Ahead
  <1>5. Recounted(e, Greeted(e)) /\ Greeted(e).queue = e.queue
    <2> DEFINE n == IF e.floods > 0 THEN e.floods - 1 ELSE 0
               w == IF e.wait = "long" THEN "long" ELSE "none"
    <2>1. n \in Nat /\ w \in {"none", "short", "long"}
      BY <1>3
    <2>2. Greeted(e) = [e EXCEPT !.floods = n, !.wait = w]
      BY DEF Greeted
    <2> HIDE DEF n, w
    <2> QED BY <1>3, <2>1, <2>2 DEF Recounted, Sul
  <1>6. Recounted(e, free_sul_delayqueue(e)) /\ free_sul_delayqueue(e).queue = <<>>
    BY <1>1, <1>3 DEF Recounted, free_sul_delayqueue, Sul
  <1>7. \A f \in Early(e) : Recounted(e, f)
    <2> SUFFICES ASSUME NEW f \in Early(e) PROVE Recounted(e, f)
      OBVIOUS
    <2>1. f = [e EXCEPT !.wait = "long", !.floods = e.floods + 1]
      BY DEF Early
    <2>2. e.floods + 1 \in Nat
      BY <1>3
    <2> QED BY <1>3, <2>1, <2>2 DEF Recounted, Sul
  <1>8. \A f \in InTime(e) : Recounted(e, f)
    <2> SUFFICES ASSUME NEW f \in InTime(e) PROVE Recounted(e, f)
      OBVIOUS
    <2> DEFINE z == IF e.floods = 0 THEN 0 ELSE e.floods - 1
    <2>1. z \in Nat
      BY <1>3
    <2>2. PICK w \in {"none", "short"}, n \in {0, z} : f = [e EXCEPT !.wait = w, !.floods = n]
      BY DEF InTime
    <2>3. w \in {"none", "short", "long"} /\ n \in Nat
      BY <2>1
    <2> HIDE DEF z
    <2> QED BY <1>3, <2>2, <2>3 DEF Recounted, Sul
  <1>9. Recounted(e, Stopped(e))
    BY <1>1, <1>3 DEF Recounted, Stopped, free_sul_delayqueue, Sul
  <1> QED BY <1>4, <1>5, <1>6, <1>7, <1>8, <1>9

-----------------------------------------------------------------------------
(***************************************************************************)
(* The list of static users.                                               *)
(***************************************************************************)

\* From list S to list T, entries keep their via and their queue, or lose the queue; a new
\* one has no queue, and has the via of its kind.
Entered(S, T, up) ==
    /\ T \in [Suls -> Sul \cup {NoSul}]
    /\ \A t \in Suls : T[t] # NoSul =>
          /\ S[t] # NoSul => /\ T[t].linked = S[t].linked
                             /\ T[t].queue = S[t].queue \/ T[t].queue = <<>>
          /\ S[t] = NoSul => /\ T[t].linked <=> (t[2] = "there" /\ up)
                             /\ T[t].queue = <<>>

\* One session has come into an entry, x into s, and may have left another.
Moved(S, T, x, s, old) ==
    \A t \in Suls : \A y : In(T, t, y) <=> (t = s /\ y = x) \/ (In(S, t, y) /\ ~ (t \in old /\ y = x))

\* The larger of two numbers is a number.
LEMMA LargerOfTwo ==
    ASSUME NEW a \in Nat, NEW b \in Nat
    PROVE  Max({a, b}) \in Nat
  <1>1. \E x \in {a, b} : \A y \in {a, b} : x >= y
    <2>1. CASE a >= b
      BY <2>1
    <2>2. CASE b >= a
      BY <2>2
    <2> QED BY <2>1, <2>2
  <1> QED BY <1>1 DEF Max

\* generate_sul moves a session to an entry, from at most one other.
LEMMA Generated ==
    ASSUME Entries, NEW x \in Conns \cup (Calls \X Chans), NEW s \in Suls, NEW linked \in BOOLEAN,
           NEW old, old \subseteq Known, s \notin old, \A o, p \in old : o = p,
           NEW up, sul[s] = NoSul => (linked <=> (s[2] = "there" /\ up))
    PROVE  /\ Entered(sul, generate_sul(x, s, linked, old), up)
           /\ Moved(sul, generate_sul(x, s, linked, old), x, s, old)
  <1> DEFINE entered == [sul EXCEPT ![s] = IF @ = NoSul THEN NewSul(linked) ELSE Greeted(@)]
             later   == Max({entered[o].ahead : o \in old \cup {s}})
             g       == generate_sul(x, s, linked, old)
  <1>1. NewSul(linked) \in Sul /\ NewSul(linked).sp = {} /\ NewSul(linked).queue = <<>>
        /\ NewSul(linked).linked = linked
    BY DEF NewSul, Sul
  <1>2. \A t \in Suls : sul[t] # NoSul => sul[t] \in Sul
    BY DEF Entries
  <1>3. /\ entered[s] \in Sul
        /\ sul[s] # NoSul => /\ entered[s].sp = sul[s].sp /\ entered[s].linked = sul[s].linked
                             /\ entered[s].queue = sul[s].queue
        /\ sul[s] = NoSul => /\ entered[s].sp = {} /\ entered[s].linked = linked
                             /\ entered[s].queue = <<>>
    <2>1. CASE sul[s] = NoSul
      BY <1>1, <2>1 DEF Entries
    <2>2. CASE sul[s] # NoSul
      <3>1. entered[s] = Greeted(sul[s])
        BY <2>2 DEF Entries
      <3> HIDE DEF entered
      <3> QED BY <1>2, <2>2, <3>1, Recounting DEF Recounted
    <2> QED BY <2>1, <2>2
  <1>4. \A t \in Suls : t # s => entered[t] = sul[t]
    BY DEF Entries
  <1>5. g = [o \in Suls |->
                IF o \in old \cup {s}
                THEN [entered[o] EXCEPT !.ahead = later, !.sp = IF o = s THEN @ \cup {x} ELSE @ \ {x}]
                ELSE entered[o]]
    BY DEF generate_sul
  <1> HIDE DEF entered, g
  <1>6. later \in Nat
    <2>1. entered[s].ahead \in Nat
      BY <1>3, SulFields
    <2>2. CASE old = {}
      <3>1. {entered[o].ahead : o \in old \cup {s}} = {entered[s].ahead, entered[s].ahead}
        BY <2>2
      <3> QED BY <2>1, <3>1, LargerOfTwo
    <2>3. CASE old # {}
      <3>1. PICK o \in old : TRUE
        BY <2>3
      <3>2. {entered[z].ahead : z \in old \cup {s}} = {entered[o].ahead, entered[s].ahead}
        BY <3>1
      <3>3. entered[o].ahead \in Nat
        BY <1>2, <1>4, SulFields DEF Known
      <3> QED BY <2>1, <3>2, <3>3, LargerOfTwo
    <2> QED BY <2>2, <2>3
  <1> HIDE DEF later
  <1>7. /\ g[s] \in Sul /\ g[s].sp = entered[s].sp \cup {x}
        /\ g[s].linked = entered[s].linked /\ g[s].queue = entered[s].queue
    <2> DEFINE P == entered[s].sp \cup {x}
    <2>1. g[s] = [entered[s] EXCEPT !.ahead = later, !.sp = P]
      BY <1>5
    <2>2. P \in SUBSET (Conns \cup (Calls \X Chans))
      BY <1>3, SulFields
    <2> HIDE DEF P
    <2>3. /\ g[s] \in Sul /\ g[s].sp = P
          /\ g[s].linked = entered[s].linked /\ g[s].queue = entered[s].queue
      BY <1>3, <1>6, <2>1, <2>2 DEF Sul
    <2> QED BY <2>3 DEF P
  <1>8. ASSUME NEW t \in Suls, t \in old
        PROVE  /\ sul[t] \in Sul /\ sul[t] # NoSul
               /\ g[t] \in Sul /\ g[t].sp = sul[t].sp \ {x}
               /\ g[t].linked = sul[t].linked /\ g[t].queue = sul[t].queue
    <2> DEFINE P == sul[t].sp \ {x}
    <2>0. sul[t] \in Sul /\ sul[t] # NoSul
      BY <1>2, <1>8 DEF Known
    <2>1. t # s
      BY <1>8
    <2>2. g[t] = [sul[t] EXCEPT !.ahead = later, !.sp = P]
      BY <1>4, <1>5, <1>8, <2>1
    <2>3. P \in SUBSET (Conns \cup (Calls \X Chans))
      BY <2>0, SulFields
    <2> HIDE DEF P
    <2>4. /\ g[t] \in Sul /\ g[t].sp = P
          /\ g[t].linked = sul[t].linked /\ g[t].queue = sul[t].queue
      BY <1>6, <2>0, <2>2, <2>3 DEF Sul
    <2> QED BY <2>0, <2>4 DEF P
  <1>9. \A t \in Suls : t # s /\ t \notin old => g[t] = sul[t]
    BY <1>4, <1>5
  <1>10. g \in [Suls -> Sul \cup {NoSul}]
    <2>1. \A t \in Suls : g[t] \in Sul \cup {NoSul}
      BY <1>2, <1>7, <1>8, <1>9
    <2>2. g = [t \in Suls |-> g[t]]
      BY <1>5
    <2> QED BY <2>1, <2>2
  <1>11. Entered(sul, g, up)
    <2> SUFFICES ASSUME NEW t \in Suls, g[t] # NoSul
                 PROVE  /\ sul[t] # NoSul => /\ g[t].linked = sul[t].linked
                                             /\ g[t].queue = sul[t].queue
                        /\ sul[t] = NoSul => /\ g[t].linked <=> (t[2] = "there" /\ up)
                                             /\ g[t].queue = <<>>
      BY <1>10 DEF Entered
    <2>1. CASE t = s
      BY <1>3, <1>7, <2>1
    <2>2. CASE t \in old
      BY <1>8, <2>2
    <2>3. CASE t # s /\ t \notin old
      BY <1>9, <2>3
    <2> QED BY <2>1, <2>2, <2>3
  <1>12. Moved(sul, g, x, s, old)
    <2> SUFFICES ASSUME NEW t \in Suls, NEW y
                 PROVE  In(g, t, y) <=> (t = s /\ y = x) \/ (In(sul, t, y) /\ ~ (t \in old /\ y = x))
      BY DEF Moved
    <2>1. CASE t = s
      <3>1. g[s] # NoSul
        BY <1>7, SulFields
      <3> QED BY <1>3, <1>7, <2>1, <3>1 DEF In
    <2>2. CASE t \in old
      <3>1. g[t] # NoSul
        BY <1>8, <2>2, SulFields
      <3>2. t # s
        BY <2>2
      <3> QED BY <1>8, <2>2, <3>1, <3>2 DEF In
    <2>3. CASE t # s /\ t \notin old
      BY <1>9, <2>3 DEF In
    <2> QED BY <2>1, <2>2, <2>3
  <1> QED BY <1>11, <1>12 DEF g

\* The sessions are listed as they were.
Same(S, T) == \A t \in Suls : \A y : In(T, t, y) <=> In(S, t, y)

\* An entry is counted anew.
LEMMA Counted ==
    ASSUME Entries, NEW s \in Suls, sul[s] # NoSul, NEW f, Recounted(sul[s], f), NEW up
    PROVE  /\ Entered(sul, [sul EXCEPT ![s] = f], up)
           /\ Same(sul, [sul EXCEPT ![s] = f])
  <1> DEFINE g == [sul EXCEPT ![s] = f]
  <1>1. g \in [Suls -> Sul \cup {NoSul}] /\ g[s] = f /\ \A t \in Suls : t # s => g[t] = sul[t]
    BY DEF Entries, Recounted
  <1>2. f # NoSul
    BY SulFields DEF Recounted
  <1> HIDE DEF g
  <1>3. Entered(sul, g, up)
    BY <1>1 DEF Entered, Recounted
  <1>4. Same(sul, g)
    BY <1>1, <1>2 DEF Same, In, Recounted
  <1> QED BY <1>3, <1>4 DEF g

-----------------------------------------------------------------------------
(***************************************************************************)
(* What the steps do to the invariant.                                     *)
(***************************************************************************)

\* The queues, where no message comes and none is sent on.
LEMMA OrderKept ==
    ASSUME Ordered, UNCHANGED <<said, last>>,
           \A t \in Suls : sul'[t] # NoSul /\ sul'[t].queue # <<>> =>
                              sul[t] # NoSul /\ sul'[t].queue = sul[t].queue
    PROVE  Ordered'
  <1> SUFFICES ASSUME NEW t \in Suls, sul'[t] # NoSul, sul'[t].queue # <<>>
               PROVE  t[2] = "there" /\ t[1] \in Calls /\ InOrder(sul'[t].queue, last[t[1]], said[t[1]])
    BY DEF Ordered
  <1>1. sul[t] # NoSul /\ sul'[t].queue = sul[t].queue
    OBVIOUS
  <1>2. t[2] = "there" /\ t[1] \in Calls /\ InOrder(sul[t].queue, last[t[1]], said[t[1]])
    BY <1>1 DEF Ordered
  <1> QED BY <1>1, <1>2

\* The vias and the queues, where the link stays as it is too.
LEMMA BookKept ==
    ASSUME Linked, Ordered, Entered(sul, sul', link), UNCHANGED <<link, said, last>>,
           present' # {} => link
    PROVE  Entries' /\ Linked' /\ Ordered'
  <1>1. Entries'
    BY DEF Entries, Entered
  <1>2. Linked'
    BY DEF Linked, Entered
  <1>3. Ordered'
    BY OrderKept DEF Entered
  <1> QED BY <1>1, <1>2, <1>3

\* Nobody comes or goes.
LEMMA NobodyMoves ==
    ASSUME Types, Listed, Same(sul, sul'), present' = present, closed' = closed,
           \A c \in Conns : /\ conn'[c].type = "free" <=> conn[c].type = "free"
                            /\ conn'[c].sul = conn[c].sul
    PROVE  Listed'
  <1>1. \A c \in Conns : conn[c].sul \in Suls
    BY DEF Types, Connection
  <1>2. \A x \in present : <<x[1], "there">> \in Suls
    BY NoFloodBounds DEF Types, Suls
  <1> QED BY <1>1, <1>2 DEF Listed, Same

\* A connection is none of the neighbour's sessions, and these have their entries.
LEMMA Apart ==
    ASSUME Types
    PROVE  /\ \A c \in Conns : c \notin Calls \X Chans /\ conn[c].sul \in Suls
           /\ \A x \in Calls \X Chans : <<x[1], "there">> \in Suls
           /\ present \subseteq Calls \X Chans /\ closed \subseteq Calls \X Chans
  <1>1. Conns \cap (Calls \X Chans) = {}
    BY LoginBounds
  <1>2. \A c \in Conns : conn[c].sul \in Suls
    BY DEF Types, Connection
  <1>3. present \subseteq Calls \X Chans /\ closed \subseteq Calls \X Chans
    BY NoFloodBounds DEF Types
  <1>4. \A x \in Calls \X Chans : <<x[1], "there">> \in Suls
    BY DEF Suls
  <1> QED BY <1>1, <1>2, <1>3, <1>4

\* The other connections than c are as they were.
OthersStay(c) == \A d \in Conns : d # c => conn'[d] = conn[d]

\* A connection comes into entry s, and leaves the one it was in.
LEMMA ConnMoves ==
    ASSUME Types, Listed, NEW c \in Conns, NEW s \in Suls, NEW old, Moved(sul, sul', c, s, old),
           conn[c].type # "free" => old = {conn[c].sul} \ {s},
           conn'[c].type # "free", conn'[c].sul = s, OthersStay(c), present' = present, closed' = closed
    PROVE  Listed'
  <1>1. \A d \in Conns : conn[d].sul \in Suls
    BY DEF Types, Connection
  <1>2. \A x \in present \cup closed : <<x[1], "there">> \in Suls /\ x # c
    BY Apart
  <1>3. \A d \in Conns : conn'[d].type # "free" => In(sul', conn'[d].sul, d)
    <2> SUFFICES ASSUME NEW d \in Conns, conn'[d].type # "free" PROVE In(sul', conn'[d].sul, d)
      OBVIOUS
    <2>1. CASE d = c
      BY <2>1 DEF Moved
    <2>2. CASE d # c
      <3>1. conn'[d] = conn[d] /\ In(sul, conn[d].sul, d)
        BY <2>2 DEF Listed, OthersStay
      <3> QED BY <1>1, <2>2, <3>1 DEF Moved
    <2> QED BY <2>1, <2>2
  <1>4. \A x \in present : In(sul', <<x[1], "there">>, x)
    <2> SUFFICES ASSUME NEW x \in present PROVE In(sul', <<x[1], "there">>, x)
      OBVIOUS
    <2>1. In(sul, <<x[1], "there">>, x) /\ <<x[1], "there">> \in Suls /\ x # c
      BY <1>2 DEF Listed
    <2> QED BY <2>1 DEF Moved
  <1>5. ASSUME NEW t \in Suls, NEW y, In(sul', t, y)
        PROVE  \/ y \in present \cup closed /\ t = <<y[1], "there">>
               \/ y \in Conns /\ conn'[y].type # "free" /\ conn'[y].sul = t
    <2>1. CASE t = s /\ y = c
      BY <2>1
    <2>2. CASE In(sul, t, y) /\ y # c
      BY <2>2 DEF Listed, OthersStay
    <2>3. CASE In(sul, t, y) /\ y = c /\ t \notin old
      BY <1>2, <2>3 DEF Listed
    <2> QED BY <1>5, <2>1, <2>2, <2>3 DEF Moved
  <1> QED BY <1>3, <1>4, <1>5 DEF Listed

\* A user of the neighbour's joins or leaves a channel.
LEMMA RemoteMoves ==
    ASSUME Types, Listed, NEW x \in Calls \X Chans, UNCHANGED conn,
           \/ /\ Moved(sul, sul', x, <<x[1], "there">>, {})
              /\ present' = present \cup {x} /\ closed' = closed
           \/ sul' = sul /\ x \in present /\ present' = present \ {x} /\ closed' = closed \cup {x}
    PROVE  Listed'
  <1>1. \A d \in Conns : conn[d].sul \in Suls /\ d # x
    BY Apart
  <1>2. \A z \in present \cup {x} : <<z[1], "there">> \in Suls
    BY Apart
  <1>3. CASE /\ Moved(sul, sul', x, <<x[1], "there">>, {})
             /\ present' = present \cup {x} /\ closed' = closed
    BY <1>1, <1>2, <1>3 DEF Listed, Moved
  <1>4. CASE sul' = sul /\ x \in present /\ present' = present \ {x} /\ closed' = closed \cup {x}
    BY <1>1, <1>2, <1>4 DEF Listed
  <1> QED BY <1>3, <1>4

-----------------------------------------------------------------------------
(***************************************************************************)
(* The steps of NoFlood.                                                   *)
(***************************************************************************)

\* The local side stays as it is.
LocalsStay == UNCHANGED <<conn, passwd>>

\* Where the entries, and so the users, change their counters only.
LEMMA OnlyCounted ==
    ASSUME Book, LocalsStay, NEW s \in Suls, sul[s] # NoSul, NEW f, Recounted(sul[s], f),
           sul' = [sul EXCEPT ![s] = f], UNCHANGED <<link, present, closed, said, last>>
    PROVE  Book'
  <1>1. Entered(sul, sul', link) /\ Same(sul, sul')
    BY Counted DEF Book, Types
  <1>2. Entries' /\ Linked' /\ Ordered'
    BY <1>1, BookKept DEF Book, Linked
  <1>3. Listed'
    BY <1>1, NobodyMoves DEF Book, LocalsStay
  <1>4. Types'
    BY <1>2 DEF Book, Types, LocalsStay
  <1> QED BY <1>2, <1>3, <1>4 DEF Book

\* The link comes up: relink_sul gives the entries there their via.
LEMMA LinkUpKeeps ==
    ASSUME Book, LocalsStay, LinkUp
    PROVE  Book'
  <1> DEFINE g(s) == [sul[s] EXCEPT !.linked = TRUE]
  <1>1. ASSUME NEW s \in Suls, sul[s] # NoSul
        PROVE  /\ sul[s] \in Sul /\ g(s) \in Sul /\ g(s) # NoSul
               /\ g(s).linked = TRUE /\ g(s).sp = sul[s].sp /\ g(s).queue = sul[s].queue
    <2>1. sul[s] \in Sul
      BY <1>1 DEF Book, Types, Entries
    <2>2. /\ g(s) \in Sul
          /\ g(s).linked = TRUE /\ g(s).sp = sul[s].sp /\ g(s).queue = sul[s].queue
      BY <2>1 DEF Sul
    <2>3. g(s) # NoSul
      BY <2>2, NoEntry
    <2> QED BY <2>1, <2>2, <2>3
  <1>2. \A s \in Suls :
           sul'[s] = IF sul[s] # NoSul /\ s[2] = "there" THEN g(s) ELSE sul[s]
    BY DEF LinkUp, Known
  <1>3. sul' = [s \in Suls |-> sul'[s]]
    BY DEF LinkUp
  <1> HIDE DEF g
  <1>4. Entries'
    <2>1. \A s \in Suls : sul'[s] \in Sul \cup {NoSul}
      BY <1>1, <1>2 DEF Book, Types, Entries
    <2> QED BY <1>3, <2>1 DEF Entries
  <1>5. Linked'
    BY <1>1, <1>2 DEF Book, Linked, LinkUp
  <1>6. Same(sul, sul')
    BY <1>1, <1>2 DEF Same, In
  <1>7. Listed'
    BY <1>6, NobodyMoves DEF Book, LocalsStay, LinkUp
  <1>8. Ordered'
    <2>1. \A s \in Suls : sul'[s] # NoSul => sul[s] # NoSul /\ sul'[s].queue = sul[s].queue
      BY <1>1, <1>2
    <2> QED BY <2>1, OrderKept DEF Book, LinkUp
  <1>9. Types'
    BY <1>4 DEF Book, Types, LocalsStay, LinkUp
  <1> QED BY <1>5, <1>7, <1>8, <1>9 DEF Book

\* The link goes down: all its users' sessions leave their entries.
LEMMA LinkDownKeeps ==
    ASSUME Book, LocalsStay, LinkDown
    PROVE  Book'
  <1> DEFINE P(s) == sul[s].sp \ (closed \cup present)
             g(s) == [sul[s] EXCEPT !.linked = FALSE, !.sp = P(s)]
  <1>1. ASSUME NEW s \in Suls, sul[s] # NoSul
        PROVE  /\ sul[s] \in Sul /\ g(s) \in Sul /\ g(s) # NoSul
               /\ g(s).linked = FALSE /\ g(s).sp = P(s) /\ g(s).queue = sul[s].queue
    <2>1. sul[s] \in Sul
      BY <1>1 DEF Book, Types, Entries
    <2>2. P(s) \subseteq Conns \cup (Calls \X Chans)
      BY <2>1, SulFields
    <2> HIDE DEF P
    <2>3. /\ g(s) \in Sul
          /\ g(s).linked = FALSE /\ g(s).sp = P(s) /\ g(s).queue = sul[s].queue
      BY <2>1, <2>2 DEF Sul
    <2>4. g(s) # NoSul
      BY <2>3, NoEntry
    <2> QED BY <2>1, <2>3, <2>4
  <1>2. \A s \in Suls :
           sul'[s] = IF sul[s] # NoSul /\ sul[s].linked THEN g(s) ELSE sul[s]
    BY DEF LinkDown, Known
  <1>3. sul' = [s \in Suls |-> sul'[s]]
    BY DEF LinkDown
  <1>4. link /\ link' = FALSE /\ present' = {} /\ closed' = closed \cup present
        /\ UNCHANGED <<said, last>>
    BY DEF LinkDown
  <1> HIDE DEF g
  <1>5. Entries'
    <2>1. \A s \in Suls : sul'[s] \in Sul \cup {NoSul}
      BY <1>1, <1>2 DEF Book, Types, Entries
    <2> QED BY <1>3, <2>1 DEF Entries
  <1>6. Linked'
    BY <1>1, <1>2, <1>4 DEF Book, Linked
  <1>7. Ordered'
    <2>1. \A s \in Suls : sul'[s] # NoSul => sul[s] # NoSul /\ sul'[s].queue = sul[s].queue
      BY <1>1, <1>2
    <2> QED BY <1>4, <2>1, OrderKept DEF Book
  <1>8. ASSUME NEW t \in Suls, NEW y
        PROVE  In(sul', t, y) <=> In(sul, t, y) /\ y \notin closed \cup present
    <2>1. CASE sul[t] # NoSul /\ sul[t].linked
      BY <1>1, <1>2, <2>1 DEF In
    <2>2. CASE sul[t] # NoSul /\ ~sul[t].linked
      <3>1. t[2] # "there"
        BY <1>4, <2>2 DEF Book, Linked
      <3>2. In(sul, t, y) => y \in Conns
        <4>1. \A z : <<z, "there">>[2] = "there"
          OBVIOUS
        <4> QED BY <3>1, <4>1 DEF Book, Listed
      <3>3. In(sul, t, y) => y \notin closed \cup present
        BY <3>2, Apart DEF Book
      <3> QED BY <1>2, <2>2, <3>3 DEF In
    <2>3. CASE sul[t] = NoSul
      BY <1>2, <2>3 DEF In
    <2> QED BY <2>1, <2>2, <2>3
  <1>9. Listed'
    <2>1. \A c \in Conns : conn[c].sul \in Suls /\ c \notin closed \cup present
      BY Apart DEF Book
    <2> QED BY <1>4, <1>8, <2>1 DEF Book, Listed, LocalsStay
  <1>10. Types'
    BY <1>4, <1>5 DEF Book, Types, LocalsStay
  <1> QED BY <1>6, <1>7, <1>9, <1>10 DEF Book

\* The entry get_sul finds for a call of the neighbour's, or generate_sul makes, is the one there.
LEMMA EntryThere ==
    ASSUME Book, NEW k \in Calls
    PROVE  /\ <<k, "there">> \in Suls
           /\ \A s \in get_sul(k, TRUE) : s = <<k, "there">> /\ sul[s] # NoSul
           /\ \A s \in SulFor(k, TRUE) : s = <<k, "there">>
           /\ link /\ get_sul(k, TRUE) = {} => sul[<<k, "there">>] = NoSul
  <1>1. <<k, "there">> \in Suls
    BY DEF Suls
  <1>2. ASSUME NEW s \in get_sul(k, TRUE)
        PROVE  s = <<k, "there">> /\ sul[s] # NoSul
    <2>1. s \in Suls /\ sul[s] # NoSul /\ s[1] = k /\ sul[s].linked = TRUE
      BY DEF get_sul, Known
    <2>2. s[2] = "there"
      BY <2>1 DEF Book, Linked
    <2>3. s = <<s[1], s[2]>>
      BY <2>1 DEF Suls
    <2> QED BY <2>1, <2>2, <2>3
  <1>3. \A s \in SulFor(k, TRUE) : s = <<k, "there">>
    BY <1>2 DEF SulFor
  <1>4. ASSUME link, get_sul(k, TRUE) = {} PROVE sul[<<k, "there">>] = NoSul
    <2>1. SUFFICES ASSUME sul[<<k, "there">>] # NoSul PROVE FALSE
      OBVIOUS
    <2>2. sul[<<k, "there">>].linked
      BY <1>1, <1>4, <2>1 DEF Book, Linked
    <2>3. sul[<<k, "there">>].linked \in BOOLEAN
      BY <1>1, <2>1, SulFields DEF Book, Types, Entries
    <2>4. <<k, "there">> \in get_sul(k, TRUE)
      BY <1>1, <2>1, <2>2, <2>3 DEF get_sul, Known
    <2> QED BY <1>4, <2>4
  <1> QED BY <1>1, <1>2, <1>3, <1>4

\* A user of the neighbour's joins a channel: generate_sul.
LEMMA RemoteJoinsKeeps ==
    ASSUME Book, LocalsStay, NEW k \in Remote, NEW ch \in Chans, RemoteJoins(k, ch)
    PROVE  Book'
  <1> DEFINE x == <<k, ch>>
             s == <<k, "there">>
             yes == TRUE
             none == {}
  <1>1. k \in Calls /\ x \in Calls \X Chans /\ x[1] = k /\ s \in Suls /\ s[2] = "there" /\ yes \in BOOLEAN
    BY NoFloodBounds DEF Suls
  <1>2. sul' = generate_sul(x, s, yes, none) /\ link /\ present' = present \cup {x}
        /\ UNCHANGED <<link, closed, said, last>>
    BY <1>1, EntryThere DEF RemoteJoins
  <1>3. none \subseteq Known /\ s \notin none /\ \A o, p \in none : o = p
    OBVIOUS
  <1>4. sul[s] = NoSul => (yes <=> (s[2] = "there" /\ link))
    BY <1>1, <1>2
  <1>5. Entries
    BY DEF Book, Types
  <1> HIDE DEF x, s, yes, none
  <1>6. Entered(sul, sul', link) /\ Moved(sul, sul', x, s, none)
    <2>1. x \in Conns \cup (Calls \X Chans)
      BY <1>1
    <2> QED BY <1>1, <1>2, <1>3, <1>4, <1>5, <2>1, Generated
  <1>7. Entries' /\ Linked' /\ Ordered'
    BY <1>2, <1>6, BookKept DEF Book
  <1>8. Listed'
    BY <1>1, <1>2, <1>6, RemoteMoves DEF Book, LocalsStay, none, s, x
  <1>9. Types'
    <2>1. x \in Remote \X Chans
      BY DEF x
    <2> QED BY <1>2, <1>7, <2>1 DEF Book, Types, LocalsStay
  <1> QED BY <1>7, <1>8, <1>9 DEF Book

\* He leaves it.
LEMMA RemoteLeavesKeeps ==
    ASSUME Book, LocalsStay, NEW k \in Remote, NEW ch \in Chans, RemoteLeaves(k, ch)
    PROVE  Book'
  <1> DEFINE x == <<k, ch>>
  <1>1. x \in Calls \X Chans /\ x \in Remote \X Chans
    BY NoFloodBounds
  <1>2. /\ x \in present /\ present' = present \ {x} /\ closed' = closed \cup {x}
        /\ UNCHANGED <<sul, link, said, last>>
    BY DEF RemoteLeaves
  <1> HIDE DEF x
  <1>3. Entered(sul, sul', link)
    BY <1>2 DEF Entered, Book, Types, Entries
  <1>4. Entries' /\ Linked' /\ Ordered'
    BY <1>2, <1>3, BookKept DEF Book, Linked
  <1>5. Listed'
    BY <1>1, <1>2, RemoteMoves DEF Book, LocalsStay
  <1>6. Types'
    BY <1>1, <1>2, <1>4 DEF Book, Types, LocalsStay
  <1> QED BY <1>4, <1>5, <1>6 DEF Book

\* A message of call k comes and is not queued: it is sent on at once, which only happens
\* when nothing is queued for the call, or it is dropped.
LEMMA OrderOfSaid ==
    ASSUME Book, NEW k \in Calls, said' = [said EXCEPT ![k] = @ + 1],
           \A t \in Suls : sul'[t] # NoSul /\ sul'[t].queue # <<>> =>
                              sul[t] # NoSul /\ sul'[t].queue = sul[t].queue,
           \/ last' = last
           \/ /\ last' = [last EXCEPT ![k] = said[k] + 1]
              /\ sul[<<k, "there">>] # NoSul => sul[<<k, "there">>].queue = <<>>
    PROVE  Ordered' /\ said' \in [Calls -> Nat] /\ last' \in [Calls -> Nat]
  <1>1. said \in [Calls -> Nat] /\ last \in [Calls -> Nat] /\ \A j \in Calls : last[j] <= said[j]
    BY DEF Book, Types, Ordered
  <1>2. said' \in [Calls -> Nat] /\ last' \in [Calls -> Nat] /\ \A j \in Calls : last'[j] <= said'[j]
    BY <1>1
  <1>3. ASSUME NEW t \in Suls, sul'[t] # NoSul, sul'[t].queue # <<>>
        PROVE  t[2] = "there" /\ t[1] \in Calls /\ InOrder(sul'[t].queue, last'[t[1]], said'[t[1]])
    <2>1. sul[t] # NoSul /\ sul'[t].queue = sul[t].queue /\ sul[t].queue # <<>>
      BY <1>3
    <2>2. t[2] = "there" /\ t[1] \in Calls /\ InOrder(sul[t].queue, last[t[1]], said[t[1]])
      BY <2>1 DEF Book, Ordered
    <2>3. t = <<t[1], "there">>
      BY <2>2 DEF Suls
    <2>4. last'[t[1]] = last[t[1]]
      <3>1. CASE t[1] = k
        BY <1>1, <2>1, <2>3, <3>1
      <3>2. CASE t[1] # k
        BY <1>1, <2>2, <3>2
      <3> QED BY <3>1, <3>2
    <2>5. said'[t[1]] \in Nat /\ said[t[1]] \in Nat /\ said[t[1]] <= said'[t[1]]
      BY <1>1, <2>2
    <2>6. sul[t].queue \in Seq(Message)
      BY <2>1, SulFields DEF Book, Types, Entries
    <2>7. \A i \in 1 .. Len(sul[t].queue) : sul[t].queue[i].n \in Nat
      <3>1. \A i \in 1 .. Len(sul[t].queue) : sul[t].queue[i] \in Message
        BY <2>6
      <3> QED BY <3>1 DEF Message
    <2>8. InOrder(sul[t].queue, last[t[1]], said'[t[1]])
      BY <2>2, <2>5, <2>7 DEF InOrder
    <2> QED BY <2>1, <2>2, <2>4, <2>8
  <1> QED BY <1>2, <1>3 DEF Ordered

\* A message is put into the queue of its call's entry.
LEMMA OrderOfQueued ==
    ASSUME Book, NEW k \in Calls, sul[<<k, "there">>] # NoSul,
           NEW m \in Message, m.n = said[k] + 1, said' = [said EXCEPT ![k] = @ + 1],
           last' = last, sul' = [sul EXCEPT ![<<k, "there">>].queue = Append(@, m)]
    PROVE  /\ Ordered' /\ said' \in [Calls -> Nat]
           /\ Entries' /\ Same(sul, sul')
           /\ \A t \in Suls : sul'[t] # NoSul => sul[t] # NoSul /\ sul'[t].linked = sul[t].linked
  <1> DEFINE s == <<k, "there">>
             q == sul[s].queue
             p == Append(q, m)
             e == [sul[s] EXCEPT !.queue = p]
  <1>1. said \in [Calls -> Nat] /\ last \in [Calls -> Nat] /\ \A j \in Calls : last[j] <= said[j]
    BY DEF Book, Types, Ordered
  <1>2. s \in Suls /\ sul[s] # NoSul /\ s[1] = k /\ s[2] = "there"
    BY DEF Suls
  <1>3. sul[s] \in Sul
    BY <1>2 DEF Book, Types, Entries
  <1>4. q \in Seq(Message)
    BY <1>3, SulFields
  <1>5. p \in Seq(Message) /\ Len(p) = Len(q) + 1 /\ p[Len(q) + 1] = m
        /\ \A i \in 1 .. Len(q) : p[i] = q[i]
    BY <1>4
  <1>6. sul' = [sul EXCEPT ![s] = e]
    OBVIOUS
  <1>7. InOrder(q, last[k], said[k])
    <2>1. CASE q = <<>>
      BY <2>1 DEF InOrder
    <2>2. CASE q # <<>>
      BY <1>2, <2>2 DEF Book, Ordered
    <2> QED BY <2>1, <2>2
  <1> HIDE DEF p
  <1>8. e \in Sul /\ e.queue = p /\ e.sp = sul[s].sp /\ e.linked = sul[s].linked
    BY <1>3, <1>5 DEF Sul
  <1>9. e # NoSul
    BY <1>8, NoEntry
  <1> HIDE DEF e, s, q
  <1>10. sul' \in [Suls -> Sul \cup {NoSul}] /\ sul'[s] = e /\ \A t \in Suls : t # s => sul'[t] = sul[t]
    BY <1>2, <1>6, <1>8 DEF Book, Types, Entries
  <1>11. InOrder(p, last[k], said[k] + 1)
    <2>1. Len(q) \in Nat /\ said[k] \in Nat /\ last[k] \in Nat /\ last[k] <= said[k]
      BY <1>1, <1>4
    <2>2. \A j \in 1 .. Len(q) : q[j].n \in Nat
      <3>1. \A j \in 1 .. Len(q) : q[j] \in Message
        BY <1>4
      <3> QED BY <3>1 DEF Message
    <2>3. ASSUME NEW i \in 1 .. Len(q)
          PROVE  p[i].n \in Nat /\ p[i].n > last[k] /\ p[i].n <= said[k]
      BY <1>5, <1>7, <2>2 DEF InOrder
    <2>4. p[Len(q) + 1].n = said[k] + 1
      BY <1>5
    <2>5. \A i \in 1 .. Len(p) : i \in 1 .. Len(q) \/ i = Len(q) + 1
      BY <1>5, <2>1
    <2>6. ASSUME NEW i \in 1 .. Len(p) PROVE p[i].n > last[k] /\ p[i].n <= said[k] + 1
      BY <2>1, <2>3, <2>4, <2>5
    <2>7. ASSUME NEW i \in 1 .. Len(p), NEW j \in 1 .. Len(p), i < j PROVE p[i].n < p[j].n
      <3>1. i \in 1 .. Len(q)
        BY <1>5, <2>1, <2>7
      <3>2. CASE j \in 1 .. Len(q)
        BY <1>5, <1>7, <2>7, <3>1, <3>2 DEF InOrder
      <3>3. CASE j = Len(q) + 1
        BY <2>1, <2>3, <2>4, <3>1, <3>3
      <3> QED BY <2>5, <3>2, <3>3
    <2> QED BY <2>6, <2>7 DEF InOrder
  <1>12. said' \in [Calls -> Nat] /\ said'[k] = said[k] + 1 /\ \A j \in Calls : j # k => said'[j] = said[j]
    BY <1>1
  <1>13. \A j \in Calls : last'[j] <= said'[j]
    BY <1>1, <1>12
  <1>14. ASSUME NEW t \in Suls, sul'[t] # NoSul, sul'[t].queue # <<>>
         PROVE  t[2] = "there" /\ t[1] \in Calls /\ InOrder(sul'[t].queue, last'[t[1]], said'[t[1]])
    <2>1. CASE t = s
      BY <1>2, <1>8, <1>10, <1>11, <1>12, <2>1
    <2>2. CASE t # s
      <3>1. sul'[t] = sul[t]
        BY <1>10, <2>2
      <3>2. t[2] = "there" /\ t[1] \in Calls /\ InOrder(sul[t].queue, last[t[1]], said[t[1]])
        BY <1>14, <3>1 DEF Book, Ordered
      <3>3. t[1] # k
        BY <2>2, <3>2 DEF Suls, s
      <3> QED BY <1>12, <3>1, <3>2, <3>3
    <2> QED BY <2>1, <2>2
  <1>15. Same(sul, sul')
    BY <1>2, <1>8, <1>9, <1>10 DEF Same, In
  <1>16. \A t \in Suls : sul'[t] # NoSul => sul[t] # NoSul /\ sul'[t].linked = sul[t].linked
    BY <1>2, <1>8, <1>10
  <1> QED BY <1>10, <1>12, <1>13, <1>14, <1>15, <1>16 DEF Entries, Ordered

\* Steps after which the entries only have other counters, or an empty queue.
LEMMA EntriesCounted ==
    ASSUME Book, LocalsStay, UNCHANGED <<link, present, closed>>,
           Entered(sul, sul', link), Same(sul, sul'),
           Ordered', said' \in [Calls -> Nat], last' \in [Calls -> Nat]
    PROVE  Book'
  <1>1. Linked'
    BY DEF Entered, Book, Linked
  <1>2. Listed'
    BY NobodyMoves DEF Book, LocalsStay
  <1>3. Types'
    BY DEF Entered, Entries, Book, Types, LocalsStay
  <1> QED BY <1>1, <1>2, <1>3 DEF Book

\* A message of the neighbour's user, through check_msg_flood.
LEMMA RemoteSaysKeeps ==
    ASSUME Book, LocalsStay, NEW k \in Remote, NEW to \in Chans \cup {"user", "self"}, RemoteSays(k, to)
    PROVE  Book'
  <1> DEFINE s == <<k, "there">>
             m == [n |-> said[k] + 1, to |-> to]
  <1>1. k \in Calls /\ s \in Suls /\ s[1] = k
    BY NoFloodBounds DEF Suls
  <1>2. said \in [Calls -> Nat]
    BY DEF Book, Types
  <1>3. m \in Message /\ m.n = said[k] + 1
    BY <1>1, <1>2 DEF Message
  <1>4. /\ link /\ said' = [said EXCEPT ![k] = @ + 1] /\ check_msg_flood(k, m)
        /\ UNCHANGED <<link, present, closed>>
    BY DEF RemoteSays
  <1> HIDE DEF m
  <1>5. ASSUME sul' = sul PROVE Entered(sul, sul', link) /\ Same(sul, sul')
    BY <1>5 DEF Entered, Same, Book, Types, Entries
  <1>6. CASE sul' = sul /\ last' = last
    <2>1. Ordered' /\ said' \in [Calls -> Nat] /\ last' \in [Calls -> Nat]
      BY <1>1, <1>4, <1>6, OrderOfSaid
    <2> QED BY <1>4, <1>5, <1>6, <2>1, EntriesCounted
  <1>7. CASE get_sul(k, TRUE) = {} /\ last' = [last EXCEPT ![k] = m.n] /\ sul' = sul
    <2>1. sul[s] = NoSul
      BY <1>1, <1>4, <1>7, EntryThere
    <2>2. Ordered' /\ said' \in [Calls -> Nat] /\ last' \in [Calls -> Nat]
      BY <1>1, <1>3, <1>4, <1>7, <2>1, OrderOfSaid
    <2> QED BY <1>4, <1>5, <1>7, <2>2, EntriesCounted
  <1>8. CASE s \in get_sul(k, TRUE) /\ SendOn(s, m)
    <2>1. sul[s] # NoSul /\ sul[s].queue = <<>> /\ sul' = [sul EXCEPT ![s] = Ahead(@)]
          /\ last' = [last EXCEPT ![k] = said[k] + 1]
      BY <1>1, <1>3, <1>8, EntryThere DEF SendOn, Delayed
    <2>2. sul[s] \in Sul
      BY <1>1, <2>1 DEF Book, Types, Entries
    <2>3. Recounted(sul[s], Ahead(sul[s]))
      BY <2>2, Recounting
    <2>4. sul' = [sul EXCEPT ![s] = Ahead(sul[s])]
      BY <2>1
    <2>5. Entered(sul, sul', link) /\ Same(sul, sul')
      <3> DEFINE f == Ahead(sul[s])
      <3>1. Recounted(sul[s], f) /\ sul' = [sul EXCEPT ![s] = f] /\ sul[s] # NoSul /\ Entries
        BY <2>1, <2>3, <2>4 DEF Book, Types
      <3> HIDE DEF f
      <3> QED BY <1>1, <3>1, Counted
    <2>6. \A t \in Suls : sul'[t] # NoSul /\ sul'[t].queue # <<>> =>
                             sul[t] # NoSul /\ sul'[t].queue = sul[t].queue
      BY <2>5 DEF Entered
    <2>7. Ordered' /\ said' \in [Calls -> Nat] /\ last' \in [Calls -> Nat]
      BY <1>1, <1>4, <2>1, <2>6, OrderOfSaid
    <2> QED BY <1>4, <2>5, <2>7, EntriesCounted
  <1>9. CASE s \in get_sul(k, TRUE) /\ Queue(s, m)
    <2>1. sul[s] # NoSul /\ sul' = [sul EXCEPT ![s].queue = Append(@, m)] /\ last' = last
      BY <1>1, <1>9, EntryThere DEF Queue
    <2>2. /\ Ordered' /\ said' \in [Calls -> Nat]
          /\ Entries' /\ Same(sul, sul')
          /\ \A t \in Suls : sul'[t] # NoSul => sul[t] # NoSul /\ sul'[t].linked = sul[t].linked
      BY <1>1, <1>3, <1>4, <2>1, OrderOfQueued
    <2>3. Linked'
      BY <1>4, <2>2 DEF Book, Linked
    <2>4. Listed'
      BY <1>4, <2>2, NobodyMoves DEF Book, LocalsStay
    <2>5. Types'
      BY <1>4, <2>1, <2>2 DEF Book, Types, LocalsStay
    <2> QED BY <2>2, <2>3, <2>4, <2>5 DEF Book
  <1>10. CASE s \in get_sul(k, TRUE) /\ sul' # sul /\ last' = last /\ ban_user(k, {s})
    <2>1. sul[s] # NoSul
      BY <1>1, <1>10, EntryThere
    <2>2. sul[s] \in Sul
      BY <1>1, <2>1 DEF Book, Types, Entries
    <2>3. sul' = [sul EXCEPT ![s] = free_sul_delayqueue(sul[s])]
      BY <1>1, <1>10 DEF ban_user, Book, Types, Entries
    <2>4. Recounted(sul[s], free_sul_delayqueue(sul[s]))
      BY <2>2, Recounting
    <2>5. Entered(sul, sul', link) /\ Same(sul, sul')
      BY <1>1, <2>1, <2>3, <2>4, Counted DEF Book, Types
    <2>6. \A t \in Suls : sul'[t] # NoSul /\ sul'[t].queue # <<>> =>
                             sul[t] # NoSul /\ sul'[t].queue = sul[t].queue
      BY <2>5 DEF Entered
    <2>7. Ordered' /\ said' \in [Calls -> Nat] /\ last' \in [Calls -> Nat]
      BY <1>1, <1>4, <1>10, <2>6, OrderOfSaid
    <2> QED BY <1>4, <2>5, <2>7, EntriesCounted
  <1>11. ASSUME NEW t \in get_sul(k, TRUE) PROVE t = s
    BY <1>1, EntryThere
  <1> HIDE DEF s
  <1>12. ASSUME s \in get_sul(k, TRUE), Overflow(s, m), sul' # sul \/ last' # last
         PROVE  sul' # sul /\ last' = last /\ ban_user(k, {s})
    BY <1>1, <1>12 DEF Overflow
  <1> QED BY <1>4, <1>6, <1>7, <1>8, <1>9, <1>10, <1>11, <1>12 DEF check_msg_flood

\* Recounting twice.
LEMMA RecountedTwice ==
    ASSUME NEW e, NEW f, NEW g, Recounted(e, f), Recounted(f, g)
    PROVE  Recounted(e, g)
  BY DEF Recounted

\* A command is charged, and leaves the entry waiting or banned.
LEMMA ChargedEntry ==
    ASSUME NEW d \in Sul, NEW e \in Charged(d)
    PROVE  e \in Sul /\ Recounted(d, Stopped(e)) /\ \A f \in Early(e) \cup InTime(e) : Recounted(d, f)
  <1>1. Recounted(d, e)
    <2>1. CASE e = Ahead(d)
      BY <2>1, Recounting
    <2>2. CASE e = d
      BY <2>2 DEF Recounted
    <2> QED BY <2>1, <2>2 DEF Charged
  <1>2. e \in Sul
    BY <1>1 DEF Recounted
  <1>3. Recounted(e, Stopped(e)) /\ \A f \in Early(e) \cup InTime(e) : Recounted(e, f)
    BY <1>2, Recounting
  <1> QED BY <1>1, <1>2, <1>3, RecountedTwice

\* A command of the neighbour's user, through check_cmd_flood.
LEMMA RemoteCommandKeeps ==
    ASSUME Book, LocalsStay, NEW k \in Remote, RemoteCommand(k)
    PROVE  Book'
  <1> DEFINE s == <<k, "there">>
  <1>1. k \in Calls /\ s \in Suls /\ UNCHANGED <<link, present, closed, said, last>>
    BY NoFloodBounds DEF Suls, RemoteCommand
  <1>2. PICK t \in get_sul(k, TRUE) : \E e \in Charged(sul[t]) :
           \/ sul' = [sul EXCEPT ![t] = Stopped(e)]
           \/ \E f \in Early(e) \cup InTime(e) : sul' = [sul EXCEPT ![t] = f]
    BY DEF RemoteCommand
  <1>3. t \in Suls /\ sul[t] # NoSul
    BY <1>1, EntryThere
  <1>4. sul[t] \in Sul
    BY <1>3 DEF Book, Types, Entries
  <1>5. PICK f : Recounted(sul[t], f) /\ sul' = [sul EXCEPT ![t] = f]
    BY <1>2, <1>4, ChargedEntry
  <1> QED BY <1>1, <1>3, <1>5, OnlyCounted

\* Time passes for an entry.
LEMMA RecoversKeeps ==
    ASSUME Book, LocalsStay, NEW s \in Suls, Recovers(s)
    PROVE  Book'
  <1>1. sul[s] # NoSul /\ UNCHANGED <<link, present, closed, said, last>>
    BY DEF Recovers, Known
  <1>2. sul[s] \in Sul
    BY <1>1 DEF Book, Types, Entries
  <1>3. sul[s].ahead \in Nat
    BY <1>2, SulFields
  <1>4. CASE sul[s].ahead > 0 /\ sul' = [sul EXCEPT ![s].ahead = @ - 1]
    <2> DEFINE a == sul[s].ahead - 1
               f == [sul[s] EXCEPT !.ahead = a]
    <2>1. sul' = [sul EXCEPT ![s] = f]
      BY <1>4
    <2>2. a \in Nat
      BY <1>3, <1>4
    <2> HIDE DEF a
    <2>3. Recounted(sul[s], f)
      BY <1>2, <2>2 DEF Recounted, Sul
    <2> QED BY <1>1, <2>1, <2>3, OnlyCounted
  <1>5. ASSUME NEW w \in {"short", "none"}, sul' = [sul EXCEPT ![s].wait = w]
        PROVE  Book'
    <2> DEFINE f == [sul[s] EXCEPT !.wait = w]
    <2>1. sul' = [sul EXCEPT ![s] = f]
      BY <1>5
    <2>2. Recounted(sul[s], f)
      BY <1>2 DEF Recounted, Sul
    <2> QED BY <1>1, <2>1, <2>2, OnlyCounted
  <1> QED BY <1>4, <1>5 DEF Recovers

\* expire_sul: an entry that goes lists no session.
LEMMA ExpireSulKeeps ==
    ASSUME Book, LocalsStay, NEW s \in Suls, expire_sul(s)
    PROVE  Book'
  <1> DEFINE e == IF sul[s].sp = {} THEN free_sul_delayqueue(sul[s]) ELSE sul[s]
  <1>1. sul[s] # NoSul /\ UNCHANGED <<link, present, closed, said, last>>
    BY DEF expire_sul, Known
  <1>2. sul[s] \in Sul
    BY <1>1 DEF Book, Types, Entries
  <1>3. Recounted(sul[s], e)
    <2>1. CASE sul[s].sp = {}
      BY <1>2, <2>1, Recounting
    <2>2. CASE sul[s].sp # {}
      BY <1>2, <2>2 DEF Recounted
    <2> QED BY <2>1, <2>2
  <1>4. \/ sul' = [sul EXCEPT ![s] = e]
        \/ sul' = [sul EXCEPT ![s] = [e EXCEPT !.floods = 0]]
        \/ Unused(s) /\ sul' = [sul EXCEPT ![s] = NoSul]
    BY DEF expire_sul
  <1> HIDE DEF e
  <1>5. Recounted(sul[s], [e EXCEPT !.floods = 0])
    BY <1>3 DEF Recounted, Sul
  <1>6. CASE Unused(s) /\ sul' = [sul EXCEPT ![s] = NoSul]
    <2>1. sul[s].sp = {}
      BY <1>6 DEF Unused
    <2>2. sul' \in [Suls -> Sul \cup {NoSul}] /\ sul'[s] = NoSul /\ \A t \in Suls : t # s => sul'[t] = sul[t]
      BY <1>6 DEF Book, Types, Entries
    <2>3. Entered(sul, sul', link)
      BY <2>2 DEF Entered
    <2>4. Same(sul, sul')
      BY <2>1, <2>2 DEF Same, In
    <2>5. Entries' /\ Linked' /\ Ordered'
      BY <1>1, <2>3, BookKept DEF Book, Linked
    <2> QED BY <1>1, <2>3, <2>4, <2>5, EntriesCounted DEF Book, Types
  <1> QED BY <1>1, <1>3, <1>4, <1>5, <1>6, OnlyCounted

\* What is left of a queue, once its first i messages are gone.
LEMMA RestOfQueue ==
    ASSUME NEW q \in Seq(Message), NEW i \in 0 .. Len(q), NEW a, NEW b, NEW c,
           InOrder(q, a, b), \A j \in i + 1 .. Len(q) : q[j].n > c
    PROVE  /\ SubSeq(q, i + 1, Len(q)) \in Seq(Message)
           /\ InOrder(SubSeq(q, i + 1, Len(q)), c, b)
  <1> DEFINE r == SubSeq(q, i + 1, Len(q))
  <1>1. r \in Seq(Message) /\ Len(r) = Len(q) - i /\ \A j \in 1 .. Len(r) : r[j] = q[i + j]
    BY SMT
  <1> HIDE DEF r
  <1>2. \A j \in 1 .. Len(r) : i + j \in 1 .. Len(q) /\ i + j \in i + 1 .. Len(q)
    BY <1>1
  <1>3. InOrder(r, c, b)
    <2>1. \A j \in 1 .. Len(r) : r[j].n > c /\ r[j].n <= b
      BY <1>1, <1>2 DEF InOrder
    <2>2. ASSUME NEW j \in 1 .. Len(r), NEW l \in 1 .. Len(r), j < l PROVE r[j].n < r[l].n
      <3>1. i + j < i + l
        BY <2>2
      <3>2. q[i + j].n < q[i + l].n
        BY <1>2, <3>1 DEF InOrder
      <3> QED BY <1>1, <3>2
    <2> QED BY <2>1, <2>2 DEF InOrder
  <1> QED BY <1>1, <1>3 DEF r

\* send_sul_delayed_messages goes through a queue in order: what it sends on is later than what
\* was, and what it leaves is later still.
LEMMA Flushed ==
    ASSUME Book, NEW s \in Suls, sul[s] # NoSul, sul[s].queue # <<>>, NEW users
    PROVE  /\ AfterFlush(s, users).i \in 0 .. Len(sul[s].queue)
           /\ AfterFlush(s, users).ahead \in Nat
           /\ AfterFlush(s, users).last \in Nat
           /\ AfterFlush(s, users).last >= last[s[1]] /\ AfterFlush(s, users).last <= said[s[1]]
           /\ \A j \in AfterFlush(s, users).i + 1 .. Len(sul[s].queue) :
                 sul[s].queue[j].n > AfterFlush(s, users).last
  <1> DEFINE q == sul[s].queue
             k == s[1]
             sent(i) == {j \in 1 .. i : StillThere(s, q[j], users)}
             T == {0} \cup {i \in 1 .. Len(q) : sul[s].ahead + Cardinality(sent(i - 1)) <= RateLimitMAX}
             done == Max(T)
             S == sent(done)
             a == AfterFlush(s, users)
  <1>1. sul[s] \in Sul
    BY DEF Book, Types, Entries
  <1>2. q \in Seq(Message) /\ sul[s].ahead \in Nat
    BY <1>1, SulFields
  <1>3. k \in Calls /\ InOrder(q, last[k], said[k])
    BY DEF Book, Ordered
  <1>4. last[k] \in Nat /\ said[k] \in Nat /\ last[k] <= said[k]
    BY <1>3 DEF Book, Types, Ordered
  <1>5. a = [i |-> done, ahead |-> sul[s].ahead + Cardinality(S),
             last |-> IF S = {} THEN last[k] ELSE q[Max(S)].n]
    BY DEF AfterFlush
  <1>6. a.i = done /\ a.ahead = sul[s].ahead + Cardinality(S)
        /\ a.last = IF S = {} THEN last[k] ELSE q[Max(S)].n
    BY <1>5
  <1>7. Len(q) \in Nat /\ T \subseteq 0 .. Len(q) /\ T # {}
    BY <1>2
  <1> HIDE DEF T, a
  <1>8. done \in 0 .. Len(q)
    BY <1>7, HighestNumber
  <1> HIDE DEF done
  <1>9. S \subseteq 1 .. done
    OBVIOUS
  <1> HIDE DEF S
  <1>10. Cardinality(S) \in Nat
    <2>1. IsFiniteSet(1 .. done)
      BY <1>8, FS_Interval
    <2> QED BY <1>9, <2>1, FS_Subset, FS_CardinalityType
  <1>11. a.ahead \in Nat
    BY <1>2, <1>6, <1>10
  <1>12. \A j \in 1 .. Len(q) : q[j].n \in Nat /\ q[j].n > last[k] /\ q[j].n <= said[k]
    <2>1. \A j \in 1 .. Len(q) : q[j] \in Message
      BY <1>2
    <2>2. \A j \in 1 .. Len(q) : q[j].n \in Nat
      BY <2>1 DEF Message
    <2> QED BY <1>3, <2>2 DEF InOrder
  <1>13. CASE S = {}
    <2>1. a.last = last[k]
      BY <1>6, <1>13
    <2>2. \A j \in done + 1 .. Len(q) : q[j].n > last[k]
      BY <1>8, <1>12
    <2> QED BY <1>4, <1>6, <1>8, <1>11, <2>1, <2>2 DEF a
  <1>14. CASE S # {}
    <2> DEFINE m == Max(S)
    <2>1. done \in Nat /\ S \subseteq 0 .. done
      BY <1>8, <1>9
    <2>2. m \in S
      BY <1>14, <2>1, HighestNumber
    <2>3. a.last = q[m].n
      BY <1>6, <1>14
    <2> HIDE DEF m
    <2>4. m \in 1 .. done /\ m \in 1 .. Len(q)
      <3>1. m \in 1 .. done
        BY <1>9, <2>2
      <3> QED BY <1>7, <1>8, <3>1
    <2>5. ASSUME NEW j \in done + 1 .. Len(q) PROVE q[j].n > q[m].n
      <3>1. j \in 1 .. Len(q) /\ m < j
        BY <1>8, <2>4
      <3>2. q[m].n < q[j].n
        BY <1>3, <2>4, <3>1 DEF InOrder
      <3> QED BY <1>12, <2>4, <3>1, <3>2
    <2>6. q[m].n \in Nat /\ q[m].n >= last[k] /\ q[m].n <= said[k]
      BY <1>4, <1>12, <2>4
    <2> QED BY <1>6, <1>8, <1>11, <2>3, <2>5, <2>6 DEF a
  <1> QED BY <1>13, <1>14

\* send_sul_delayed_messages, on all entries at once.
LEMMA FlushKeeps ==
    ASSUME Book, LocalsStay, NEW users, send_sul_delayed_messages(users)
    PROVE  Book'
  <1>1. PICK counted \in {users, {}} :
           /\ sul' = [s \in Suls |->
                          IF s \notin Backlog THEN sul[s]
                          ELSE IF ~Sendable(s) THEN free_sul_delayqueue(sul[s])
                          ELSE [sul[s] EXCEPT !.ahead = AfterFlush(s, counted).ahead,
                                              !.queue = SubSeq(@, AfterFlush(s, counted).i + 1, Len(@))]]
           /\ last' = [k \in Calls |->
                  Max({last[k]} \cup {AfterFlush(s, counted).last :
                                        s \in {t \in Backlog : t[1] = k /\ Sendable(t)}})]
    BY Zenon DEF send_sul_delayed_messages
  <1>2. UNCHANGED <<link, present, closed, said>>
    BY DEF send_sul_delayed_messages
  <1>3. said \in [Calls -> Nat] /\ last \in [Calls -> Nat] /\ \A k \in Calls : last[k] <= said[k]
    BY DEF Book, Types, Ordered
  <1> DEFINE A(s) == AfterFlush(s, counted)
             R(s) == SubSeq(sul[s].queue, A(s).i + 1, Len(sul[s].queue))
  \* The entries with messages, and what becomes of them.
  <1>4. ASSUME NEW s \in Suls, s \in Backlog
        PROVE  /\ sul[s] # NoSul /\ sul[s] \in Sul /\ sul[s].queue # <<>>
               /\ s[2] = "there" /\ s[1] \in Calls /\ s = <<s[1], "there">>
    <2>1. sul[s] # NoSul /\ sul[s].queue # <<>>
      BY <1>4 DEF Backlog, Known
    <2>2. s[2] = "there" /\ s[1] \in Calls
      BY <2>1 DEF Book, Ordered
    <2>3. s = <<s[1], "there">>
      BY <2>2 DEF Suls
    <2>4. sul[s] \in Sul
      BY <2>1 DEF Book, Types, Entries
    <2> QED BY <2>1, <2>2, <2>3, <2>4
  <1>5. ASSUME NEW s \in Suls, s \in Backlog, Sendable(s)
        PROVE  /\ A(s).ahead \in Nat /\ A(s).last \in Nat
               /\ A(s).last >= last[s[1]] /\ A(s).last <= said[s[1]]
               /\ R(s) \in Seq(Message) /\ InOrder(R(s), A(s).last, said[s[1]])
    <2>1. sul[s] # NoSul /\ sul[s] \in Sul /\ sul[s].queue # <<>>
      BY <1>4, <1>5
    <2>2. /\ A(s).i \in 0 .. Len(sul[s].queue) /\ A(s).ahead \in Nat /\ A(s).last \in Nat
          /\ A(s).last >= last[s[1]] /\ A(s).last <= said[s[1]]
          /\ \A j \in A(s).i + 1 .. Len(sul[s].queue) : sul[s].queue[j].n > A(s).last
      BY <2>1, Flushed
    <2>3. sul[s].queue \in Seq(Message) /\ InOrder(sul[s].queue, last[s[1]], said[s[1]])
      BY <2>1, SulFields DEF Book, Ordered
    <2> HIDE DEF A
    <2>4. R(s) \in Seq(Message) /\ InOrder(R(s), A(s).last, said[s[1]])
      BY <2>2, <2>3, RestOfQueue
    <2> QED BY <2>2, <2>4
  <1> HIDE DEF R
  <1>6. ASSUME NEW s \in Suls
        PROVE  /\ s \notin Backlog => sul'[s] = sul[s]
               /\ s \in Backlog /\ ~Sendable(s) => sul'[s] = free_sul_delayqueue(sul[s])
               /\ s \in Backlog /\ Sendable(s) =>
                     sul'[s] = [sul[s] EXCEPT !.ahead = A(s).ahead, !.queue = R(s)]
    BY <1>1 DEF R
  <1> HIDE DEF A
  <1>7. ASSUME NEW s \in Suls, s \in Backlog, Sendable(s)
        PROVE  /\ sul'[s] \in Sul /\ sul'[s].sp = sul[s].sp /\ sul'[s].linked = sul[s].linked
               /\ sul'[s].queue = R(s)
    <2> DEFINE e == sul[s]
               n == A(s).ahead
               q == R(s)
    <2>1. e \in Sul
      BY <1>4, <1>7
    <2>2. n \in Nat /\ q \in Seq(Message)
      BY <1>5, <1>7
    <2>3. sul'[s] = [e EXCEPT !.ahead = n, !.queue = q]
      BY <1>6, <1>7
    <2> HIDE DEF e, n, q
    <2>4. sul'[s] \in Sul /\ sul'[s].sp = e.sp /\ sul'[s].linked = e.linked /\ sul'[s].queue = q
      BY <2>1, <2>2, <2>3 DEF Sul
    <2> QED BY <2>4 DEF e, q
  <1>8. ASSUME NEW s \in Suls, sul[s] # NoSul
        PROVE  sul'[s] \in Sul /\ sul'[s].sp = sul[s].sp /\ sul'[s].linked = sul[s].linked
    <2>1. sul[s] \in Sul
      BY <1>8 DEF Book, Types, Entries
    <2>2. CASE s \notin Backlog
      BY <1>6, <2>1, <2>2
    <2>3. CASE s \in Backlog /\ ~Sendable(s)
      BY <1>6, <2>1, <2>3, Recounting DEF Recounted
    <2>4. CASE s \in Backlog /\ Sendable(s)
      BY <1>7, <2>4
    <2> QED BY <2>2, <2>3, <2>4
  <1>9. \A s \in Suls : sul[s] = NoSul => sul'[s] = NoSul
    BY <1>4, <1>6
  <1>10. Entries'
    <2>1. \A s \in Suls : sul'[s] \in Sul \cup {NoSul}
      BY <1>8, <1>9
    <2>2. sul' = [s \in Suls |-> sul'[s]]
      BY <1>1
    <2> QED BY <2>1, <2>2 DEF Entries
  <1>11. Same(sul, sul')
    <2>1. \A s \in Suls : sul[s] # NoSul => sul'[s] # NoSul
      BY <1>8, NoEntry
    <2> QED BY <1>8, <1>9, <2>1 DEF Same, In
  <1>12. Linked'
    BY <1>2, <1>8, <1>9 DEF Book, Linked
  <1>13. Listed'
    BY <1>2, <1>11, NobodyMoves DEF Book, LocalsStay
  \* What was sent on last.
  <1>14. ASSUME NEW k \in Calls
         PROVE  /\ <<k, "there">> \in Backlog /\ Sendable(<<k, "there">>) => last'[k] = A(<<k, "there">>).last
                /\ ~ (<<k, "there">> \in Backlog /\ Sendable(<<k, "there">>)) => last'[k] = last[k]
    <2> DEFINE s == <<k, "there">>
               B == {t \in Backlog : t[1] = k /\ Sendable(t)}
    <2>1. last'[k] = Max({last[k]} \cup {A(t).last : t \in B})
      BY <1>1 DEF A
    <2>2. s \in Suls /\ last[k] \in Nat /\ s[1] = k
      BY <1>3 DEF Suls
    <2>3. \A t \in B : t = s
      <3> SUFFICES ASSUME NEW t \in B PROVE t = s
        OBVIOUS
      <3>1. t \in Backlog /\ t \in Suls /\ t[1] = k
        BY DEF Backlog, Known
      <3> QED BY <1>4, <3>1
    <2>4. CASE s \in Backlog /\ Sendable(s)
      <3>1. B = {s}
        BY <2>2, <2>3, <2>4
      <3>2. {last[k]} \cup {A(t).last : t \in B} = {last[k], A(s).last}
        BY <3>1
      <3>3. A(s).last \in Nat /\ A(s).last >= last[k]
        BY <1>5, <2>2, <2>4
      <3> HIDE DEF s
      <3>4. Max({last[k], A(s).last}) = A(s).last
        BY <2>2, <3>3 DEF Max
      <3> QED BY <2>1, <2>4, <3>2, <3>4 DEF s
    <2>5. CASE ~ (s \in Backlog /\ Sendable(s))
      <3>1. B = {}
        BY <2>3, <2>5
      <3>2. {last[k]} \cup {A(t).last : t \in B} = {last[k]}
        BY <3>1
      <3>3. Max({last[k]}) = last[k]
        BY <2>2 DEF Max
      <3> QED BY <2>1, <2>5, <3>2, <3>3
    <2> QED BY <2>4, <2>5
  <1>15. ASSUME NEW k \in Calls PROVE last'[k] \in Nat /\ last'[k] <= said'[k]
    <2> DEFINE s == <<k, "there">>
    <2>1. s \in Suls /\ s[1] = k
      BY DEF Suls
    <2>2. CASE s \in Backlog /\ Sendable(s)
      BY <1>2, <1>5, <1>14, <2>1, <2>2
    <2>3. CASE ~ (s \in Backlog /\ Sendable(s))
      BY <1>2, <1>3, <1>14, <2>3
    <2> QED BY <2>2, <2>3
  <1>16. last' \in [Calls -> Nat]
    <2>1. last' = [k \in Calls |-> last'[k]]
      BY <1>1
    <2> QED BY <1>15, <2>1
  <1>17. Ordered'
    <2> SUFFICES ASSUME NEW t \in Suls, sul'[t] # NoSul, sul'[t].queue # <<>>
                 PROVE  t[2] = "there" /\ t[1] \in Calls /\ InOrder(sul'[t].queue, last'[t[1]], said'[t[1]])
      BY <1>15 DEF Ordered
    <2>1. sul[t] # NoSul
      BY <1>9
    <2>2. t \in Backlog
      <3>1. sul[t].queue # <<>>
        BY <1>6, <2>1 DEF Backlog, Known
      <3> QED BY <2>1, <3>1 DEF Backlog, Known
    <2>3. Sendable(t)
      <3>1. SUFFICES ASSUME ~Sendable(t) PROVE FALSE
        OBVIOUS
      <3>2. sul'[t] = free_sul_delayqueue(sul[t])
        BY <1>6, <2>2, <3>1
      <3>3. sul[t] \in Sul
        BY <1>4, <2>2
      <3>4. free_sul_delayqueue(sul[t]).queue = <<>>
        BY <3>3, Recounting
      <3> QED BY <3>2, <3>4
    <2>4. t[2] = "there" /\ t[1] \in Calls /\ t = <<t[1], "there">>
      BY <1>4, <2>2
    <2>5. last'[t[1]] = A(t).last
      BY <1>14, <2>2, <2>3, <2>4
    <2> QED BY <1>2, <1>5, <1>7, <2>2, <2>3, <2>4, <2>5
  <1>18. Types'
    BY <1>2, <1>10, <1>16 DEF Book, Types, LocalsStay
  <1> QED BY <1>12, <1>13, <1>17, <1>18 DEF Book

\* Any step of NoFlood.
LEMMA FloodStep ==
    ASSUME Book, LocalsStay, FloodNext
    PROVE  Book'
  <1>1. CASE LinkUp
    BY <1>1, LinkUpKeeps
  <1>2. CASE LinkDown
    BY <1>2, LinkDownKeeps
  <1>4. ASSUME NEW k \in Remote, NEW ch \in Chans, RemoteJoins(k, ch) \/ RemoteLeaves(k, ch)
        PROVE  Book'
    BY <1>4, RemoteJoinsKeeps, RemoteLeavesKeeps
  <1>5. ASSUME NEW k \in Remote, NEW to \in Chans \cup {"user", "self"}, RemoteSays(k, to)
        PROVE  Book'
    BY <1>5, RemoteSaysKeeps
  <1>6. ASSUME NEW k \in Remote, RemoteCommand(k)
        PROVE  Book'
    BY <1>6, RemoteCommandKeeps
  <1>7. ASSUME NEW s \in Suls, Recovers(s) \/ expire_sul(s)
        PROVE  Book'
    BY <1>7, RecoversKeeps, ExpireSulKeeps
  <1>8. ASSUME NEW k \in Calls, h_ban_command(k) \/ expire_banlist(k)
        PROVE  Book'
    <2>1. UNCHANGED <<sul, link, present, closed, said, last, conn, passwd>>
      BY <1>8 DEF h_ban_command, expire_banlist, LocalsStay
    <2> QED BY <2>1 DEF Book, Types, Entries, Listed, Linked, Ordered
  <1> QED BY <1>1, <1>2, <1>4, <1>5, <1>6, <1>7, <1>8 DEF FloodNext

-----------------------------------------------------------------------------
(***************************************************************************)
(* Connections.                                                            *)
(***************************************************************************)
Needs == {"socket", "answer", "aprs"}

\* r is a connection, with the type, name, nickname, socket and entry that q has.
Alike(r, q) ==
    /\ r \in Connection
    /\ r.type = q.type /\ r.name = q.name /\ r.sul = q.sul

\* What auth_command sets of a connection.
LEMMA SetNeed ==
    ASSUME NEW r \in Connection, NEW n \in SUBSET Needs
    PROVE  /\ Alike([r EXCEPT !.need = n], r) /\ [r EXCEPT !.need = n].need = n
           /\ [r EXCEPT !.need = n].want = r.want /\ [r EXCEPT !.need = n].asked = r.asked
           /\ [r EXCEPT !.need = n].got = r.got
           /\ [r EXCEPT !.need = n].irc = r.irc
  BY DEF Alike, Connection, Needs

\* ... an answer,
LEMMA SetGot ==
    ASSUME NEW r \in Connection, NEW g \in Answers \cup {NoAnswer}
    PROVE  /\ Alike([r EXCEPT !.got = g], r) /\ [r EXCEPT !.got = g].got = g
           /\ [r EXCEPT !.got = g].want = r.want /\ [r EXCEPT !.got = g].asked = r.asked
           /\ [r EXCEPT !.got = g].need = r.need
           /\ [r EXCEPT !.got = g].irc = r.irc
  BY DEF Alike, Connection

\* ... the result,
LEMMA SetAuth ==
    ASSUME NEW r \in Connection, NEW a \in 0 .. 2
    PROVE  /\ Alike([r EXCEPT !.isauth = a], r) /\ [r EXCEPT !.isauth = a].isauth = a
           /\ [r EXCEPT !.isauth = a].want = r.want /\ [r EXCEPT !.isauth = a].asked = r.asked
           /\ [r EXCEPT !.isauth = a].need = r.need
           /\ [r EXCEPT !.isauth = a].got = r.got
  BY DEF Alike, Connection

\* The challenge for password pw.
Wanted(kind, pw) == IF pw \in {"none", ""} THEN {} ELSE {<<kind, pw>>}

\* ... and the challenge.
LEMMA SetAsk ==
    ASSUME NEW r \in Connection, NEW kind \in Kinds, NEW pw \in Secrets \cup {"", "none"},
           Call(r) \in Calls
    PROVE  /\ Alike(Ask(r, kind, pw), r) /\ Ask(r, kind, pw).want = Wanted(kind, pw)
           /\ Ask(r, kind, pw).asked = {Call(r)}
           /\ Ask(r, kind, pw).need = r.need \cup {"answer"} /\ Ask(r, kind, pw).got = r.got
  <1> DEFINE w == Wanted(kind, pw)
             n == r.need \cup {"answer"}
             a == {Call(r)}
  <1>1. w \in SUBSET (Kinds \X Secrets)
    <2>1. CASE pw \in {"none", ""}
      BY <2>1 DEF Wanted
    <2>2. CASE pw \notin {"none", ""}
      <3>1. pw \in Secrets
        BY <2>2
      <3>2. w = {<<kind, pw>>}
        BY <2>2 DEF Wanted
      <3>3. <<kind, pw>> \in Kinds \X Secrets
        BY <3>1
      <3> HIDE DEF w
      <3> QED BY <3>2, <3>3, Zenon
    <2> QED BY <2>1, <2>2
  <1>2. n \in SUBSET Needs /\ a \in SUBSET Calls
    BY DEF Connection, Needs
  <1> DEFINE q == [r EXCEPT !.want = w, !.asked = a, !.need = n]
  <1>3. Ask(r, kind, pw) = q
    BY DEF Ask, Wanted
  <1> HIDE DEF w, n, a
  <1>4. Alike(q, r) /\ q.want = w /\ q.asked = a /\ q.need = n /\ q.got = r.got
    BY <1>1, <1>2 DEF Alike, Connection, Needs
  <1> HIDE DEF q
  <1> QED BY <1>3, <1>4 DEF w, n, a

\* The challenge of r is the one r0 had, or it is for a password of the call.
Challenged(r, r0) ==
    \/ r.want = r0.want /\ r.asked = r0.asked
    \/ /\ r0.name # NoName /\ r.asked = {Call(r0)}
       /\ \E kind \in Kinds : r.want = Wanted(kind, passwd[Call(r0)]) \/ r.want = Wanted(kind, aprs_pass[Call(r0)])

\* What r0 is asked is answered, or the password of the call is, or there is none.
Proven(r, r0) ==
    \/ /\ r.got # NoAnswer
       /\ \/ \E w \in r0.want : w \in r.got
          \/ /\ passwd[Call(r0)] \notin {"none", ""}
             /\ \E kind \in Kinds : <<kind, passwd[Call(r0)]>> \in r.got
    \/ passwd[Call(r0)] = ""
    \/ passwd[Call(r0)] = "none" /\ r.isauth = 1 /\ "socket" \notin r.need

\* A connection goes on waiting, or becomes a user in an entry of its call.
Waits(c, r0) ==
    \E r : Alike(r, r0) /\ Challenged(r, r0) /\ Only(c, r) /\ sul' = sul

Grows(c, r0) ==
    \E r, s :
       /\ r \in Connection /\ r.type = "user" /\ r.name = r0.name /\ r.name # NoName
       /\ r.want = {} /\ r.sul = s /\ Proven(r, r0)
       /\ Only(c, r)
       /\ s \in SulFor(Call(r0), FALSE)
       /\ sul' = generate_sul(c, s, FALSE, {r0.sul} \ {s})

\* What check_password finds.
LEMMA PasswordChecked ==
    ASSUME NEW r \in Connection
    PROVE  /\ check_password(r) \in {-2, -1, 0, 1}
           /\ check_password(r) \in {0, 1} =>
                 \/ r.want # {} /\ r.got # NoAnswer /\ r.want \subseteq r.got /\ check_password(r) = 0
                 \/ r.want = {} /\ passwd[Call(r)] = "none" /\ "socket" \notin r.need /\ check_password(r) = 1
                 \/ r.want = {} /\ passwd[Call(r)] = ""
                 \/ /\ r.want = {} /\ passwd[Call(r)] \notin {"none", ""}
                    /\ r.got # NoAnswer /\ <<"plain", passwd[Call(r)]>> \in r.got
  <1> DEFINE pw == passwd[Call(r)]
  <1>1. \A got, want : /\ verify_password(got, want) \in {-1, 0}
                       /\ verify_password(got, want) = 0 => got # NoAnswer /\ want \subseteq got
    <2> SUFFICES ASSUME NEW got, NEW want
                 PROVE  /\ verify_password(got, want) \in {-1, 0}
                        /\ verify_password(got, want) = 0 => got # NoAnswer /\ want \subseteq got
      OBVIOUS
    <2>1. CASE got # NoAnswer /\ want \subseteq got
      BY <2>1 DEF verify_password
    <2>2. CASE ~ (got # NoAnswer /\ want \subseteq got)
      <3>1. verify_password(got, want) = -1
        BY <2>2 DEF verify_password
      <3> QED BY <3>1
    <2> QED BY <2>1, <2>2
  <1>2. CASE r.want # {}
    <2>1. check_password(r) = verify_password(r.got, r.want)
      BY <1>2 DEF check_password
    <2>2. verify_password(r.got, r.want) = 0 => r.got # NoAnswer /\ r.want \subseteq r.got
      BY <1>1
    <2>3. verify_password(r.got, r.want) = -1 \/ verify_password(r.got, r.want) = 0
      BY <1>1
    <2> DEFINE ret == check_password(r)
    <2>4. ret = -1 \/ (ret = 0 /\ r.got # NoAnswer /\ r.want \subseteq r.got)
      BY <2>1, <2>2, <2>3
    <2> HIDE DEF ret
    <2>5. ret \in {-2, -1, 0, 1} /\ (ret \in {0, 1} => ret = 0 /\ r.got # NoAnswer /\ r.want \subseteq r.got)
      BY <2>4
    <2> QED BY <1>2, <2>5 DEF ret
  <1>3. CASE r.want = {} /\ pw = "none"
    BY <1>3 DEF check_password, read_password
  <1>4. CASE r.want = {} /\ pw = ""
    BY <1>4 DEF check_password, read_password
  <1>5. CASE r.want = {} /\ pw \notin {"none", ""}
    <2>1. check_password(r) = verify_password(r.got, {<<"plain", pw>>})
      BY <1>5 DEF check_password, read_password
    <2> DEFINE want == {<<"plain", pw>>}
    <2>2. <<"plain", pw>> \in want
      OBVIOUS
    <2>3. verify_password(r.got, want) = 0 => r.got # NoAnswer /\ want \subseteq r.got
      BY <1>1
    <2>4. verify_password(r.got, want) = -1 \/ verify_password(r.got, want) = 0
      BY <1>1
    <2>5. check_password(r) = 0 => r.got # NoAnswer /\ <<"plain", pw>> \in r.got
      BY <2>1, <2>2, <2>3
    <2>6. check_password(r) = -1 \/ check_password(r) = 0
      BY <2>1, <2>4
    <2> DEFINE ret == check_password(r)
    <2>7. ret = -1 \/ (ret = 0 /\ r.got # NoAnswer /\ <<"plain", pw>> \in r.got)
      BY <2>5, <2>6
    <2> HIDE DEF ret
    <2>8. ret \in {-2, -1, 0, 1} /\ (ret \in {0, 1} => r.got # NoAnswer /\ <<"plain", pw>> \in r.got)
      BY <2>7
    <2> QED BY <1>5, <2>8 DEF ret
  <1> QED BY <1>2, <1>3, <1>4, <1>5

\* The entries of a name that local users may be put in.
LEMMA EntriesHere ==
    ASSUME NEW k \in Calls \cup {Unnamed}
    PROVE  /\ \A s \in SulFor(k, FALSE) :
                 s \in Suls /\ (sul[s] = NoSul => s[2] = "here")
  <1>1. \A s \in get_sul(k, FALSE) : s \in Suls /\ sul[s] # NoSul
    BY DEF get_sul, Known
  <1>2. <<k, "here">> \in Suls /\ <<k, "here">>[2] = "here"
    BY DEF Suls
  <1> QED BY <1>1, <1>2 DEF SulFor

\* auth_command leaves the connection waiting or makes it a user, with the password.
LEMMA Authenticated ==
    ASSUME Types, NEW c \in Conns, NEW r0 \in Connection, r0.type = "unknown", NEW kind \in Kinds,
           NEW ans \in Answers \cup {NoAnswer}, auth_command(c, r0, kind, ans)
    PROVE  Waits(c, r0) \/ Grows(c, r0)
  <1> DEFINE k   == Call(r0)
             pw  == read_password(k)
             n1  == r0.need \ {"answer"}
             r1  == [r0 EXCEPT !.need = n1]
             r2  == IF ans = NoAnswer THEN Ask(r1, kind, read_password(Call(r1)))
                                      ELSE [r1 EXCEPT !.got = ans]
             ret == check_password(r2)
             r3  == [r2 EXCEPT !.need = @ \cup {"aprs"}]
             a4  == IF ret = 1 \/ "aprs" \in r2.need THEN 1 ELSE 2
             r4  == [r2 EXCEPT !.isauth = a4]
  <1>1. n1 \in SUBSET Needs
    BY DEF Connection, Needs
  <1>2. Alike(r1, r0) /\ r1.want = r0.want /\ r1.asked = r0.asked /\ r1.got = r0.got
    <2> HIDE DEF n1
    <2> QED BY <1>1, SetNeed
  <1>3. r0.name # NoName => k \in Calls
    BY LoginBounds DEF Call, Connection
  <1>4. Call(r1) = k
    <2> HIDE DEF r1
    <2> QED BY <1>2 DEF Alike, Call
  <1>5. r0.name # NoName =>
           /\ Alike(r2, r0) /\ r2 \in Connection
           /\ ans = NoAnswer => r2.want = Wanted(kind, pw) /\ r2.asked = {k}
           /\ ans # NoAnswer => r2.want = r0.want /\ r2.asked = r0.asked
    <2> SUFFICES ASSUME r0.name # NoName
                 PROVE  /\ Alike(r2, r0) /\ r2 \in Connection
                        /\ ans = NoAnswer => r2.want = Wanted(kind, pw) /\ r2.asked = {k}
                        /\ ans # NoAnswer => r2.want = r0.want /\ r2.asked = r0.asked
      OBVIOUS
    <2> HIDE DEF r1
    <2>1. pw \in Secrets \cup {"", "none"}
      BY <1>3 DEF Types, Secrets, read_password
    <2>2. CASE ans = NoAnswer
      <3>1. r2 = Ask(r1, kind, pw)
        BY <1>4, <2>2
      <3> HIDE DEF r2, pw
      <3>2. /\ Alike(Ask(r1, kind, pw), r1) /\ Ask(r1, kind, pw).want = Wanted(kind, pw)
            /\ Ask(r1, kind, pw).asked = {k}
        <4>1. r1 \in Connection /\ Call(r1) \in Calls
          BY <1>2, <1>3, <1>4 DEF Alike
        <4> HIDE DEF k
        <4> QED BY <1>4, <2>1, <4>1, SetAsk
      <3> QED BY <1>2, <2>2, <3>1, <3>2 DEF Alike
    <2>3. CASE ans # NoAnswer
      <3>1. r2 = [r1 EXCEPT !.got = ans]
        BY <2>3
      <3> HIDE DEF r2
      <3>2. Alike(r2, r1) /\ r2.want = r1.want /\ r2.asked = r1.asked
        BY <1>2, <3>1, SetGot DEF Alike
      <3> QED BY <1>2, <2>3, <3>2 DEF Alike
    <2> QED BY <2>2, <2>3
  <1>6. /\ r0.name = NoName =>
              /\ Only(c, IF ans = NoAnswer THEN r1 ELSE [r1 EXCEPT !.got = ans])
              /\ UNCHANGED sul
        /\ r0.name # NoName =>
              \/ /\ ret = -2
                 /\ Only(c, IF ans = NoAnswer THEN Ask(r3, kind, aprs_pass[Call(r3)]) ELSE r3)
                 /\ UNCHANGED sul
              \/ /\ Only(c, [r2 EXCEPT !.got = NoAnswer]) /\ UNCHANGED sul
              \/ /\ ret >= 0 /\ Only(c, r4) /\ UNCHANGED sul
              \/ /\ ~ (ret < 0) /\ BecomeUser(c, r4)
    <2>1. CASE r0.name = NoName
      BY <2>1 DEF auth_command
    <2>2. CASE r0.name # NoName
      <3>1. CASE ret = -2 /\ AcceptAPRSpass
        BY <2>2, <3>1 DEF auth_command
      <3>2. CASE ret < 0 /\ ~ (ret = -2 /\ AcceptAPRSpass)
        BY <2>2, <3>2 DEF auth_command
      <3>3. CASE ret >= 0 /\ ~ (ret < 0) /\ ~ (ret = -2)
        BY <2>2, <3>3 DEF auth_command
      <3>4. ret \in {-2, -1, 0, 1}
        BY <1>5, <2>2, PasswordChecked
      <3> QED BY <3>1, <3>2, <3>3, <3>4
    <2> QED BY <2>1, <2>2
  <1> HIDE DEF r1, r2
  <1>7. CASE r0.name = NoName
    <2>1. CASE ans = NoAnswer
      <3>1. Alike(r1, r0) /\ Challenged(r1, r0) /\ Only(c, r1) /\ sul' = sul
        BY <1>2, <1>6, <1>7, <2>1 DEF Challenged
      <3> QED BY <3>1 DEF Waits
    <2>2. CASE ans # NoAnswer
      <3> DEFINE r == [r1 EXCEPT !.got = ans]
      <3>1. Alike(r, r1) /\ r.want = r1.want /\ r.asked = r1.asked
        BY <1>2, SetGot DEF Alike
      <3>2. Only(c, r) /\ sul' = sul
        BY <1>6, <1>7, <2>2
      <3> HIDE DEF r
      <3>3. Alike(r, r0) /\ Challenged(r, r0)
        BY <1>2, <1>7, <3>1 DEF Challenged, Alike
      <3> QED BY <3>2, <3>3 DEF Waits
    <2> QED BY <2>1, <2>2
  <1>8. CASE r0.name # NoName
    <2>1. /\ r2 \in Connection /\ Alike(r2, r0)
          /\ ans = NoAnswer => r2.want = Wanted(kind, passwd[k]) /\ r2.asked = {k}
          /\ ans # NoAnswer => r2.want = r0.want /\ r2.asked = r0.asked
      BY <1>5, <1>8 DEF Alike, read_password
    <2>2. \A r : Alike(r, r2) /\ r.want = r2.want /\ r.asked = r2.asked => Alike(r, r0) /\ Challenged(r, r0)
      BY <1>8, <2>1 DEF Alike, Challenged
    <2>3. ret \in {-2, -1, 0, 1}
      BY <2>1, PasswordChecked
    <2>4. a4 \in 0 .. 2
      OBVIOUS
    <2>5. Alike(r4, r2) /\ r4.isauth = a4 /\ r4.want = r2.want /\ r4.asked = r2.asked /\ r4.need = r2.need /\ r4.got = r2.got
      <3> HIDE DEF a4
      <3> QED BY <2>1, <2>4, SetAuth
    <2>6. CASE /\ Only(c, IF ans = NoAnswer THEN Ask(r3, kind, aprs_pass[Call(r3)]) ELSE r3)
               /\ sul' = sul
      <3> DEFINE n3 == r2.need \cup {"aprs"}
      <3>1. n3 \in SUBSET Needs
        BY <2>1 DEF Connection, Needs
      <3>2. r3 = [r2 EXCEPT !.need = n3]
        OBVIOUS
      <3> HIDE DEF n3, r3
      <3>3. Alike(r3, r2) /\ r3.want = r2.want /\ r3.asked = r2.asked
        BY <2>1, <3>1, <3>2, SetNeed
      <3>4. CASE ans # NoAnswer
        BY <2>2, <2>6, <3>3, <3>4 DEF Waits
      <3>5. CASE ans = NoAnswer
        <4> DEFINE r == Ask(r3, kind, aprs_pass[k])
        <4>1. Call(r3) = k /\ r3 \in Connection
          BY <2>1, <3>3 DEF Alike, Call
        <4>2. aprs_pass[k] \in Secrets
          BY <1>3, <1>8 DEF Secrets
        <4>3. Alike(r, r3) /\ r.want = Wanted(kind, aprs_pass[k]) /\ r.asked = {k}
          <5>1. Call(r3) \in Calls /\ aprs_pass[k] \in Secrets \cup {"", "none"}
            BY <1>3, <1>8, <4>1, <4>2
          <5> HIDE DEF k
          <5> QED BY <4>1, <5>1, SetAsk
        <4>4. Only(c, r)
          BY <2>6, <3>5, <4>1
        <4> HIDE DEF r
        <4>5. Alike(r, r0) /\ Challenged(r, r0)
          BY <1>8, <2>1, <3>3, <4>3 DEF Alike, Challenged
        <4> QED BY <2>6, <4>4, <4>5 DEF Waits
      <3> QED BY <3>4, <3>5
    <2>7. CASE Only(c, [r2 EXCEPT !.got = NoAnswer]) /\ sul' = sul
      <3> DEFINE none == NoAnswer
                 r == [r2 EXCEPT !.got = none]
      <3>1. none \in Answers \cup {NoAnswer} /\ Only(c, r)
        BY <2>7
      <3> HIDE DEF none
      <3>2. Alike(r, r2) /\ r.want = r2.want /\ r.asked = r2.asked
        BY <2>1, <3>1, SetGot
      <3> HIDE DEF r
      <3> QED BY <2>2, <2>7, <3>1, <3>2 DEF Waits
    <2>8. CASE Only(c, r4) /\ sul' = sul
      <3> HIDE DEF r4
      <3> QED BY <2>2, <2>5, <2>8 DEF Waits
    <2>9. CASE ~ (ret < 0) /\ BecomeUser(c, r4)
      <3> HIDE DEF r4
      <3>1. Call(r4) = k /\ r4 \in Connection /\ r4.sul = r0.sul /\ r4.name = r0.name
        BY <2>1, <2>5 DEF Alike, Call
      <3> DEFINE m == r4.need \cap {"socket"}
                 none == {}
      <3>2. PICK s \in SulFor(k, FALSE) :
               /\ sul' = generate_sul(c, s, FALSE, {r0.sul} \ {s})
               /\ Only(c, [r4 EXCEPT !.type = "user", !.sul = s, !.want = none, !.asked = none, !.need = m])
        BY <2>9, <3>1 DEF BecomeUser
      <3> DEFINE r == [r4 EXCEPT !.type = "user", !.sul = s, !.want = none, !.asked = none, !.need = m]
      <3>3. s \in Suls
        BY <1>3, <1>8, EntriesHere
      <3>4. m \in SUBSET {"socket", "answer", "aprs"} /\ none \in SUBSET (Kinds \X Secrets)
            /\ none \in SUBSET Calls
        OBVIOUS
      <3>5. "socket" \in m <=> "socket" \in r2.need
        BY <2>5
      <3>6. none = {}
        OBVIOUS
      <3> HIDE DEF m, none
      <3>7. /\ r \in Connection /\ r.type = "user" /\ r.name = r4.name /\ r.sul = s /\ r.want = none
            /\ r.got = r4.got /\ r.isauth = r4.isauth /\ r.need = m
        BY <3>1, <3>3, <3>4 DEF Connection
      <3> HIDE DEF r
      <3>8. /\ r.got = r2.got /\ r.isauth = a4 /\ ("socket" \in r.need <=> "socket" \in r2.need)
            /\ Call(r2) = k
        BY <2>1, <2>5, <3>5, <3>7 DEF Alike, Call
      <3>9. ret \in {0, 1}
        <4> HIDE DEF ret
        <4> QED BY <2>3, <2>9
      <3>10. Proven(r, r0)
        <4>1. \/ r2.want # {} /\ r2.got # NoAnswer /\ r2.want \subseteq r2.got
              \/ passwd[k] = "none" /\ "socket" \notin r2.need /\ ret = 1
              \/ passwd[k] = ""
              \/ passwd[k] \notin {"none", ""} /\ r2.got # NoAnswer /\ <<"plain", passwd[k]>> \in r2.got
          BY <2>1, <3>8, <3>9, PasswordChecked
        <4>2. CASE r2.want # {} /\ r2.got # NoAnswer /\ r2.want \subseteq r2.got
          <5>1. CASE ans # NoAnswer
            BY <2>1, <3>8, <4>2, <5>1 DEF Proven
          <5>2. CASE ans = NoAnswer
            <6>1. Wanted(kind, passwd[k]) # {} /\ Wanted(kind, passwd[k]) \subseteq r.got
              BY <2>1, <3>8, <4>2, <5>2
            <6>2. passwd[k] \notin {"none", ""} /\ <<kind, passwd[k]>> \in r.got
              BY <6>1 DEF Wanted
            <6> QED BY <3>8, <4>2, <6>2 DEF Proven
          <5> QED BY <5>1, <5>2
        <4>3. CASE passwd[k] = "none" /\ "socket" \notin r2.need /\ ret = 1
          BY <3>8, <4>3 DEF Proven
        <4>4. CASE passwd[k] \notin {"none", ""} /\ r2.got # NoAnswer /\ <<"plain", passwd[k]>> \in r2.got
          BY <3>8, <4>4 DEF Proven, Kinds
        <4> QED BY <4>1, <4>2, <4>3, <4>4 DEF Proven
      <3>11. r.name = r0.name /\ r.name # NoName
        BY <1>8, <3>1, <3>7
      <3>12. Only(c, r) /\ r.want = {}
        BY <3>2, <3>6, <3>7 DEF r
      <3> QED BY <3>2, <3>7, <3>10, <3>11, <3>12 DEF Grows
    <2> HIDE DEF ret, r3, r4
    <2> QED BY <1>6, <1>8, <2>6, <2>7, <2>8, <2>9
  <1> QED BY <1>7, <1>8

-----------------------------------------------------------------------------
(***************************************************************************)
(* The commands of a connection that is no user yet.                       *)
(***************************************************************************)

\* r is the connection c with another name, nickname or protocol.
Renamed(c, r) ==
    /\ conn[c].type = "unknown"
    /\ r \in Connection /\ r.type = "unknown" /\ r.sul = conn[c].sul
    /\ r.want = conn[c].want /\ r.asked = conn[c].asked /\ r.got = conn[c].got

\* What a session may do.
Comes(c) ==
    /\ conn[c].type = "free"
    /\ \E s \in SulFor(Unnamed, FALSE), r \in Connection :
          /\ r.type = "unknown" /\ r.sul = s /\ r.want = {}
          /\ Only(c, r) /\ sul' = generate_sul(c, s, FALSE, {})

Goes(c) ==
    /\ conn[c].type # "free"
    /\ bye_command(c)

Rests(c) == \E r : Renamed(c, r) /\ Only(c, r) /\ sul' = sul

Enters(c) == \E r : Renamed(c, r) /\ (Waits(c, r) \/ Grows(c, r))

\* user_login_common_partA closes the connection or goes on to auth_command.
LEMMA PartA ==
    ASSUME Types, NEW c \in Conns, NEW r, Renamed(c, r), r.name # NoName,
           user_login_common_partA(c, r)
    PROVE  Goes(c) \/ Enters(c)
  <1> DEFINE kind == IF r.irc \/ Call(r) \notin authfile THEN "plain" ELSE "challenge"
             n == IF r.name \in OwnNames \/ AlreadyOn(c, r) THEN r.need \cup {"socket"} ELSE r.need
             k == IF r.irc THEN r.nick ELSE r.name
             q == [r EXCEPT !.need = n, !.nick = k, !.host = TRUE]
  <1>1. r \in Connection /\ r.type = "unknown" /\ r.sul = conn[c].sul
    BY DEF Renamed
  <1>2. kind \in Kinds
    BY DEF Kinds
  <1>3. n \in SUBSET {"socket", "answer", "aprs"} /\ k \in Names \cup {NoName} /\ r.got \in Answers \cup {NoAnswer}
    BY <1>1 DEF Connection
  <1>4. CASE bye_command(c)
    BY <1>4 DEF Goes, Renamed
  <1>5. CASE auth_command(c, q, kind, q.got)
    <2> HIDE DEF kind, n, k
    <2>1. Alike(q, r) /\ q.want = r.want /\ q.asked = r.asked /\ q.got = r.got
      BY <1>1, <1>3 DEF Connection, Alike
    <2> HIDE DEF q
    <2>2. q \in Connection /\ q.type = "unknown"
      BY <1>1, <2>1 DEF Alike
    <2>3. Waits(c, q) \/ Grows(c, q)
      BY <1>2, <1>3, <1>5, <2>1, <2>2, Authenticated
    <2>4. Renamed(c, q)
      BY <1>1, <2>1, <2>2 DEF Alike, Renamed
    <2> QED BY <2>3, <2>4 DEF Enters
  <1> QED BY <1>4, <1>5 DEF user_login_common_partA

\* /name.
LEMMA NameCommand ==
    ASSUME Types, NEW c \in Conns, NEW n \in Names, name_command(c, n)
    PROVE  Goes(c) \/ Enters(c) \/ Rests(c)
  <1> DEFINE r == [conn[c] EXCEPT !.name = n]
             no == FALSE
             q == [r EXCEPT !.irc = no]
  <1>1. conn[c] \in Connection /\ conn[c].type = "unknown"
    BY DEF Types, name_command
  <1>2. Renamed(c, r) /\ r.name = n
    BY <1>1 DEF Renamed, Connection
  <1>3. n # NoName
    BY LoginBounds
  <1>4. no \in BOOLEAN
    OBVIOUS
  <1>5. \/ n \in Invalid /\ Only(c, r) /\ sul' = sul
        \/ user_login_common_partA(c, q)
    BY DEF name_command
  <1> HIDE DEF r, no
  <1>6. CASE n \in Invalid /\ Only(c, r) /\ sul' = sul
    BY <1>2, <1>6 DEF Rests
  <1>7. CASE user_login_common_partA(c, q)
    <2>1. Renamed(c, q) /\ q.name = n
      BY <1>2, <1>4 DEF Renamed, Connection
    <2> HIDE DEF q
    <2> QED BY <1>3, <1>7, <2>1, PartA
  <1> QED BY <1>5, <1>6, <1>7

\* NICK.
LEMMA IrcNickCommand ==
    ASSUME Types, NEW c \in Conns, NEW n \in Names, irc_nick_command(c, n)
    PROVE  Goes(c) \/ Enters(c) \/ Rests(c)
  <1> DEFINE yes == TRUE
             r == [conn[c] EXCEPT !.nick = n, !.name = n, !.irc = yes]
  <1>1. conn[c] \in Connection /\ conn[c].type = "unknown"
    BY DEF Types, irc_nick_command
  <1>2. n # NoName /\ yes \in BOOLEAN
    BY LoginBounds
  <1>3. \/ conn[c].name # NoName /\ user_login_common_partA(c, r)
        \/ conn[c].name = NoName /\ Only(c, r) /\ sul' = sul
    BY DEF irc_nick_command
  <1> HIDE DEF yes
  <1>4. Renamed(c, r) /\ r.name = n
    BY <1>1, <1>2 DEF Renamed, Connection
  <1> HIDE DEF r
  <1>5. CASE conn[c].name # NoName /\ user_login_common_partA(c, r)
    BY <1>2, <1>4, <1>5, PartA
  <1>6. CASE conn[c].name = NoName /\ Only(c, r) /\ sul' = sul
    BY <1>4, <1>6 DEF Rests
  <1> QED BY <1>3, <1>5, <1>6

\* USER.
LEMMA IrcUserCommand ==
    ASSUME Types, NEW c \in Conns, NEW n \in Names, irc_user_command(c, n)
    PROVE  Goes(c) \/ Enters(c) \/ Rests(c)
  <1> DEFINE yes == TRUE
             m == IF conn[c].nick # NoName THEN conn[c].nick ELSE n
             r == [conn[c] EXCEPT !.name = m, !.irc = yes]
  <1>1. conn[c] \in Connection
    BY DEF Types
  <1>2. m \in Names /\ m # NoName /\ yes \in BOOLEAN
    BY <1>1, LoginBounds DEF Connection
  <1>3. /\ conn[c].type = "unknown"
        /\ \/ r.nick # NoName /\ user_login_common_partA(c, r)
           \/ r.nick = NoName /\ Only(c, r) /\ sul' = sul
    BY DEF irc_user_command
  <1> HIDE DEF yes, m
  <1>4. Renamed(c, r) /\ r.name = m /\ r.nick = conn[c].nick
    BY <1>1, <1>2, <1>3 DEF Renamed, Connection
  <1> HIDE DEF r
  <1>5. CASE r.nick # NoName /\ user_login_common_partA(c, r)
    BY <1>2, <1>4, <1>5, PartA
  <1>6. CASE r.nick = NoName /\ Only(c, r) /\ sul' = sul
    BY <1>4, <1>6 DEF Rests
  <1> QED BY <1>3, <1>5, <1>6

\* PASS, the answer to a prompt and /auth.
LEMMA Answering ==
    ASSUME Types, NEW c \in Conns, NEW kind \in Kinds, NEW ans \in Answers \cup {NoAnswer},
           conn[c].type = "unknown", NEW irc \in BOOLEAN,
           auth_command(c, [conn[c] EXCEPT !.irc = irc], kind, ans)
    PROVE  Enters(c)
  <1> DEFINE r == [conn[c] EXCEPT !.irc = irc]
  <1>1. conn[c] \in Connection
    BY DEF Types
  <1>2. Renamed(c, r) /\ r.name = conn[c].name
    BY <1>1 DEF Renamed, Connection
  <1> HIDE DEF r
  <1>3. Waits(c, r) \/ Grows(c, r)
    BY <1>2, Authenticated DEF Renamed, r
  <1> QED BY <1>2, <1>3 DEF Enters

\* A slot without a connection.
LEMMA FreeConnection ==
    Free \in Connection /\ Free.type = "free" /\ Free.want = {}
  <1> DEFINE no == FALSE
             none == {}
             here == <<Unnamed, "here">>
             q == [type |-> "free", sock |-> "open", name |-> NoName, nick |-> NoName, irc |-> no,
                   host |-> no, need |-> none, got |-> NoAnswer, want |-> none, asked |-> none,
                   isauth |-> 0, sul |-> here]
  <1>1. no \in BOOLEAN /\ none \subseteq Kinds \X Secrets /\ none \subseteq {"socket", "answer", "aprs"}
        /\ none \subseteq Calls /\ none = {} /\ here \in Suls
    BY DEF Suls
  <1>2. Free = q
    BY DEF Free
  <1> HIDE DEF no, none, here
  <1>3. q \in Connection /\ q.type = "free" /\ q.want = none
    BY <1>1 DEF Connection
  <1> QED BY <1>1, <1>2, <1>3

\* A connection that was closed.
LEMMA ClosedConnection ==
    ASSUME Types, NEW c \in Conns
    PROVE  /\ Closed(c) \in Connection /\ Closed(c).type = "closed" /\ Closed(c).want = {}
           /\ Closed(c).sul = conn[c].sul
  <1> DEFINE t == "closed"
             e == conn[c].sul
             q == [Free EXCEPT !.type = t, !.sul = e]
  <1>1. t \in {"free", "closed", "unknown", "user"} /\ e \in Suls
    BY DEF Types, Connection
  <1>2. Closed(c) = q
    BY DEF Closed
  <1> HIDE DEF t, e
  <1>3. q \in Connection /\ q.type = t /\ q.want = Free.want /\ q.sul = e
    BY <1>1, FreeConnection DEF Connection
  <1> HIDE DEF q
  <1> QED BY <1>2, <1>3, FreeConnection DEF t, e

\* What the commands of a session come to.
LEMMA SessionSteps ==
    ASSUME Types, NEW c \in Conns, SessionStep(c)
    PROVE  Comes(c) \/ Goes(c) \/ Enters(c) \/ Rests(c)
  <1>1. ASSUME NEW sock \in Sockets[c], accept_connect_request(c, sock)
        PROVE  Comes(c)
    <2> DEFINE n == IF sock = "auth" THEN {"socket"} ELSE {}
    <2>1. PICK s \in SulFor(Unnamed, FALSE) :
             /\ sul' = generate_sul(c, s, FALSE, {})
             /\ Only(c, [Free EXCEPT !.type = "unknown", !.sock = sock, !.sul = s, !.need = n])
      BY <1>1 DEF accept_connect_request
    <2> DEFINE r == [Free EXCEPT !.type = "unknown", !.sock = sock, !.sul = s, !.need = n]
    <2>2. s \in Suls
      BY EntriesHere
    <2>3. sock \in {"open", "auth", "reserved"}
      BY <1>1, LoginBounds
    <2>4. n \in SUBSET {"socket", "answer", "aprs"}
      OBVIOUS
    <2> HIDE DEF n
    <2>5. r \in Connection /\ r.type = "unknown" /\ r.sul = s /\ r.want = {}
      BY <2>2, <2>3, <2>4, FreeConnection DEF Connection
    <2>6. conn[c].type = "free"
      BY <1>1 DEF accept_connect_request
    <2> HIDE DEF r
    <2>7. Only(c, r)
      BY <2>1 DEF r
    <2> QED BY <2>1, <2>5, <2>6, <2>7 DEF Comes
  <1>2. NamesOf[c] \subseteq Names
    BY LoginBounds
  <1>3. ASSUME NEW n \in NamesOf[c], name_command(c, n)
        PROVE  Goes(c) \/ Enters(c) \/ Rests(c)
    BY <1>2, <1>3, NameCommand
  <1>4. ASSUME NEW n \in NamesOf[c], irc_nick_command(c, n) \/ irc_user_command(c, n)
        PROVE  Goes(c) \/ Enters(c) \/ Rests(c)
    BY <1>2, <1>4, IrcNickCommand, IrcUserCommand
  <1>5. "plain" \in Kinds
    BY DEF Kinds
  <1>6. ASSUME NEW ans \in Answers, irc_pass_command(c, ans)
        PROVE  Enters(c)
    <2> DEFINE plain == "plain"
               yes == TRUE
    <2>1. plain \in Kinds /\ yes \in BOOLEAN /\ conn[c].type = "unknown"
          /\ auth_command(c, [conn[c] EXCEPT !.irc = yes], plain, ans)
      BY <1>5, <1>6 DEF irc_pass_command
    <2> HIDE DEF plain, yes
    <2> QED BY <2>1, Answering
  <1>7. ASSUME NEW kind \in Kinds, NEW ans \in Answers \cup {NoAnswer}, conn[c].type = "unknown",
               auth_command(c, conn[c], kind, ans)
        PROVE  Enters(c)
    <2> DEFINE i == conn[c].irc
    <2>1. i \in BOOLEAN
      BY DEF Types, Connection
    <2>2. conn[c] = [conn[c] EXCEPT !.irc = i]
      BY DEF Types, Connection
    <2>3. auth_command(c, [conn[c] EXCEPT !.irc = i], kind, ans)
      BY <1>7, <2>2
    <2> HIDE DEF i
    <2> QED BY <1>7, <2>1, <2>3, Answering
  <1>8. ASSUME NEW ans \in Answers, AnswerLine(c, ans) \/ AuthCommand(c, "plain", ans)
        PROVE  Enters(c)
    BY <1>5, <1>7, <1>8 DEF AnswerLine, AuthCommand
  <1>9. ASSUME NEW kind \in Kinds, AuthCommand(c, kind, NoAnswer)
        PROVE  Enters(c)
    BY <1>7, <1>9 DEF AuthCommand
  <1>10. ASSUME Leave(c) PROVE Goes(c)
    BY <1>10 DEF Leave, Goes
  <1> QED BY <1>1, <1>3, <1>4, <1>6, <1>8, <1>9, <1>10 DEF SessionStep

\* A connection that changes alone.
LEMMA OnlyOne ==
    ASSUME Types, NEW c \in Conns, NEW r \in Connection, Only(c, r)
    PROVE  conn' \in [Conns -> Connection] /\ conn'[c] = r /\ OthersStay(c)
  BY DEF Types, Only, OthersStay

RestStays == UNCHANGED <<link, present, closed, said, last, passwd>>

\* A connection that stays in its entry.
LEMMA RestsKeeps ==
    ASSUME Book, RestStays, NEW c \in Conns, NEW r \in Connection, Only(c, r), sul' = sul,
           r.type # "free", conn[c].type # "free", r.sul = conn[c].sul
    PROVE  Book'
  <1>1. conn' \in [Conns -> Connection] /\ conn'[c] = r /\ OthersStay(c)
    BY OnlyOne DEF Book
  <1>2. Entered(sul, sul', link) /\ Same(sul, sul')
    BY DEF Entered, Same, Book, Types, Entries
  <1>3. Entries' /\ Linked' /\ Ordered'
    BY <1>2, BookKept DEF Book, Linked, RestStays
  <1>4. Listed'
    BY <1>1, <1>2, NobodyMoves DEF Book, RestStays, OthersStay
  <1>5. Types'
    BY <1>1, <1>3 DEF Book, Types, RestStays
  <1> QED BY <1>3, <1>4, <1>5 DEF Book

\* A connection that comes, or becomes a user: generate_sul.
LEMMA MovesKeeps ==
    ASSUME Book, RestStays, NEW c \in Conns, NEW r \in Connection, Only(c, r), r.type # "free",
           NEW k \in Calls \cup {Unnamed}, NEW s \in SulFor(k, FALSE), r.sul = s, NEW old,
           old = IF conn[c].type = "free" THEN {} ELSE {conn[c].sul} \ {s},
           sul' = generate_sul(c, s, FALSE, old)
    PROVE  Book'
  <1> DEFINE no == FALSE
  <1>1. conn' \in [Conns -> Connection] /\ conn'[c] = r /\ OthersStay(c)
    BY OnlyOne DEF Book
  <1>2. s \in Suls /\ (sul[s] = NoSul => s[2] = "here")
    BY EntriesHere
  <1>3. old \subseteq Known /\ s \notin old /\ \A o, p \in old : o = p
    <2>1. conn[c].type # "free" => conn[c].sul \in Known
      BY Apart DEF Book, Listed, In, Known
    <2> QED BY <2>1
  <1>4. no \in BOOLEAN /\ (sul[s] = NoSul => (no <=> (s[2] = "there" /\ link)))
        /\ sul' = generate_sul(c, s, no, old)
    BY <1>2
  <1>5. Entries /\ c \in Conns \cup (Calls \X Chans)
    BY DEF Book, Types
  <1> HIDE DEF no
  <1>6. Entered(sul, sul', link) /\ Moved(sul, sul', c, s, old)
    <2>1. Entered(sul, generate_sul(c, s, no, old), link) /\ Moved(sul, generate_sul(c, s, no, old), c, s, old)
      BY <1>2, <1>3, <1>4, <1>5, Generated
    <2> QED BY <1>4, <2>1
  <1>7. Entries' /\ Linked' /\ Ordered'
    BY <1>6, BookKept DEF Book, Linked, RestStays
  <1>8. Listed'
    BY <1>1, <1>2, <1>6, ConnMoves DEF Book, RestStays
  <1>9. Types'
    BY <1>1, <1>7 DEF Book, Types, RestStays
  <1> QED BY <1>7, <1>8, <1>9 DEF Book

\* The connection is closed, and its entry may be counted anew.
LEMMA GoesKeeps ==
    ASSUME Book, RestStays, NEW c \in Conns, conn[c].type # "free", Only(c, Closed(c)),
           NEW f, Recounted(sul[conn[c].sul], f), sul' = [sul EXCEPT ![conn[c].sul] = f]
    PROVE  Book'
  <1> DEFINE s == conn[c].sul
  <1>1. conn' \in [Conns -> Connection] /\ conn'[c] = Closed(c) /\ OthersStay(c)
    BY OnlyOne, ClosedConnection DEF Book
  <1>2. s \in Suls /\ sul[s] # NoSul
    BY Apart DEF Book, Listed, In
  <1>3. Entries
    BY DEF Book, Types
  <1>4. Entered(sul, sul', link) /\ Same(sul, sul')
    <2> HIDE DEF s
    <2>1. Recounted(sul[s], f) /\ sul' = [sul EXCEPT ![s] = f]
      BY DEF s
    <2> QED BY <1>2, <1>3, <2>1, Counted
  <1>5. Entries' /\ Linked' /\ Ordered'
    BY <1>4, BookKept DEF Book, Linked, RestStays
  <1>6. Listed'
    BY <1>1, <1>4, NobodyMoves, ClosedConnection DEF Book, RestStays, OthersStay
  <1>7. Types'
    BY <1>1, <1>5 DEF Book, Types, RestStays
  <1> QED BY <1>5, <1>6, <1>7 DEF Book

\* Any step of a session before it is a user, or its end.
LEMMA SessionKeeps ==
    ASSUME Book, RestStays, NEW c \in Conns, SessionStep(c)
    PROVE  Book'
  <1>1. Types
    BY DEF Book
  <1>2. CASE Comes(c)
    <2> DEFINE old == {}
    <2>1. PICK s \in SulFor(Unnamed, FALSE), r \in Connection :
             /\ r.type = "unknown" /\ r.sul = s /\ Only(c, r)
             /\ sul' = generate_sul(c, s, FALSE, old)
      BY <1>2 DEF Comes
    <2>2. old = IF conn[c].type = "free" THEN {} ELSE {conn[c].sul} \ {s}
      BY <1>2 DEF Comes
    <2> HIDE DEF old
    <2>3. r.type # "free" /\ Unnamed \in Calls \cup {Unnamed}
      BY <2>1
    <2> QED BY <2>1, <2>2, <2>3, MovesKeeps
  <1>3. CASE Goes(c)
    <2>1. conn[c].type # "free" /\ Only(c, Closed(c)) /\ sul' = sul
      BY <1>3 DEF Goes, bye_command
    <2>2. Closed(c) \in Connection /\ Closed(c).type # "free" /\ Closed(c).sul = conn[c].sul
      BY <1>1, ClosedConnection
    <2> QED BY <2>1, <2>2, RestsKeeps
  <1>4. CASE Rests(c)
    <2>1. PICK r : Renamed(c, r) /\ Only(c, r) /\ sul' = sul
      BY <1>4 DEF Rests
    <2>2. r \in Connection /\ r.type # "free" /\ conn[c].type # "free" /\ r.sul = conn[c].sul
      BY <2>1 DEF Renamed
    <2> QED BY <2>1, <2>2, RestsKeeps
  <1>5. CASE Enters(c)
    <2>1. PICK q : Renamed(c, q) /\ (Waits(c, q) \/ Grows(c, q))
      BY <1>5 DEF Enters
    <2>2. /\ conn[c].type = "unknown" /\ q \in Connection /\ q.type = "unknown"
          /\ q.sul = conn[c].sul
      BY <2>1 DEF Renamed
    <2>3. CASE Waits(c, q)
      <3>1. PICK r : Alike(r, q) /\ Only(c, r) /\ sul' = sul
        BY <2>3 DEF Waits
      <3>2. r \in Connection /\ r.type # "free" /\ conn[c].type # "free" /\ r.sul = conn[c].sul
        BY <2>2, <3>1 DEF Alike
      <3> QED BY <3>1, <3>2, RestsKeeps
    <2>4. CASE Grows(c, q)
      <3>1. PICK r, s :
               /\ r \in Connection /\ r.type = "user" /\ r.name = q.name /\ r.name # NoName
               /\ r.sul = s /\ Only(c, r) /\ s \in SulFor(Call(q), FALSE)
               /\ sul' = generate_sul(c, s, FALSE, {q.sul} \ {s})
        BY <2>4 DEF Grows
      <3> DEFINE old == {q.sul} \ {s}
      <3>2. old = IF conn[c].type = "free" THEN {} ELSE {conn[c].sul} \ {s}
        BY <2>2
      <3>3. Call(q) \in Calls \cup {Unnamed}
        BY <2>2, <3>1, LoginBounds DEF Call, Connection
      <3>4. r.type # "free" /\ sul' = generate_sul(c, s, FALSE, old)
        BY <3>1
      <3> HIDE DEF old
      <3> QED BY <3>1, <3>2, <3>3, <3>4, MovesKeeps
    <2> QED BY <2>1, <2>3, <2>4
  <1> QED BY <1>1, <1>2, <1>3, <1>4, <1>5, SessionSteps

\* A user's command, through check_cmd_flood.
LEMMA CommandKeeps ==
    ASSUME Book, RestStays, NEW c \in Conns, Command(c)
    PROVE  Book'
  <1> DEFINE s == conn[c].sul
  <1>1. conn[c].type # "free"
    BY DEF Command
  <1>2. s \in Suls /\ sul[s] # NoSul
    BY <1>1, Apart DEF Book, Listed, In
  <1>3. sul[s] \in Sul
    BY <1>2 DEF Book, Types, Entries
  <1>4. PICK e \in Charged(sul[s]) :
           \/ sul' = [sul EXCEPT ![s] = Stopped(e)] /\ Only(c, Closed(c))
           \/ (\E f \in Early(e) \cup InTime(e) : sul' = [sul EXCEPT ![s] = f]) /\ UNCHANGED conn
    BY DEF Command
  <1>5. CASE sul' = [sul EXCEPT ![s] = Stopped(e)] /\ Only(c, Closed(c))
    <2> DEFINE f == Stopped(e)
    <2>1. Recounted(sul[s], f) /\ sul' = [sul EXCEPT ![s] = f]
      BY <1>3, <1>5, ChargedEntry
    <2> HIDE DEF f
    <2> QED BY <1>1, <1>5, <2>1, GoesKeeps
  <1>6. CASE (\E f \in Early(e) \cup InTime(e) : sul' = [sul EXCEPT ![s] = f]) /\ UNCHANGED conn
    <2>1. PICK f : Recounted(sul[s], f) /\ sul' = [sul EXCEPT ![s] = f]
      BY <1>3, <1>6, ChargedEntry
    <2>2. LocalsStay
      BY <1>6 DEF LocalsStay, RestStays
    <2> QED BY <1>2, <2>1, <2>2, OnlyCounted DEF RestStays
  <1> QED BY <1>4, <1>5, <1>6

\* A user who sends too much at once.
LEMMA ExcessFloodKeeps ==
    ASSUME Book, RestStays, NEW c \in Conns, ExcessFlood(c)
    PROVE  Book'
  <1> DEFINE s == conn[c].sul
             f == free_sul_delayqueue(sul[s])
  <1>1. conn[c].type # "free" /\ Only(c, Closed(c))
    BY DEF ExcessFlood
  <1>2. s \in Suls /\ sul[s] # NoSul
    BY <1>1, Apart DEF Book, Listed, In
  <1>3. sul[s] \in Sul
    BY <1>2 DEF Book, Types, Entries
  <1>4. Recounted(sul[s], f) /\ sul' = [sul EXCEPT ![s] = f]
    BY <1>3, Recounting DEF ExcessFlood
  <1> HIDE DEF f
  <1> QED BY <1>1, <1>4, GoesKeeps

\* The next pass of the main loop frees what was closed.
LEMMA FreeKeeps ==
    ASSUME Book, free_closed_connections
    PROVE  Book'
  <1> DEFINE C == OfType("closed")
             X(t) == {x \in closed \ present : t = <<x[1], "there">>} \cup {c \in C : t = conn[c].sul}
             P(t) == sul[t].sp \ X(t)
             g(t) == [sul[t] EXCEPT !.sp = P(t)]
  <1>1. /\ closed' = {} /\ UNCHANGED <<link, present, said, last, passwd>>
        /\ conn' = [c \in Conns |-> IF conn[c].type = "closed" THEN Free ELSE conn[c]]
    BY DEF free_closed_connections
  <1>2. \A c \in C : c \in Conns /\ conn[c].type = "closed"
    BY DEF OfType
  <1>3. sul' = [t \in Suls |-> IF t \notin Known THEN NoSul ELSE g(t)]
    <2> DEFINE entry == [c \in Conns |-> conn[c].sul]
               Y(t) == {x \in closed \ present : t = <<x[1], "there">>} \cup {c \in C : t = entry[c]}
    <2>1. \A t : Y(t) = X(t)
      BY <1>2
    <2>2. sul' = [t \in Suls |-> IF t \notin Known THEN NoSul ELSE [sul[t] EXCEPT !.sp = @ \ Y(t)]]
      BY DEF free_closed_connections, free_sul_sp
    <2> HIDE DEF Y, X
    <2> QED BY <2>1, <2>2
  <1> HIDE DEF C, X
  <1>4. ASSUME NEW t \in Suls, sul[t] # NoSul
        PROVE  /\ sul'[t] \in Sul /\ sul'[t] # NoSul /\ sul'[t].sp = P(t)
               /\ sul'[t].linked = sul[t].linked /\ sul'[t].queue = sul[t].queue
    <2>1. sul[t] \in Sul
      BY <1>4 DEF Book, Types, Entries
    <2>2. P(t) \subseteq Conns \cup (Calls \X Chans)
      BY <2>1, SulFields
    <2>3. sul'[t] = g(t)
      BY <1>3, <1>4 DEF Known
    <2> HIDE DEF P
    <2>4. g(t) \in Sul /\ g(t).sp = P(t) /\ g(t).linked = sul[t].linked /\ g(t).queue = sul[t].queue
      BY <2>1, <2>2 DEF Sul
    <2> QED BY <2>3, <2>4, SulFields
  <1>5. \A t \in Suls : sul[t] = NoSul => sul'[t] = NoSul
    BY <1>3 DEF Known
  <1>6. Entered(sul, sul', link)
    <2>1. sul' = [t \in Suls |-> sul'[t]]
      BY <1>3
    <2>2. \A t \in Suls : sul'[t] \in Sul \cup {NoSul}
      BY <1>4, <1>5
    <2>3. sul' \in [Suls -> Sul \cup {NoSul}]
      BY <2>1, <2>2
    <2> QED BY <1>4, <1>5, <2>3 DEF Entered
  <1>7. \A t \in Suls : \A y : In(sul', t, y) <=> In(sul, t, y) /\ y \notin X(t)
    BY <1>4, <1>5 DEF In
  <1>8. Entries' /\ Linked' /\ Ordered'
    BY <1>1, <1>6, BookKept DEF Book, Linked
  <1>9. conn' \in [Conns -> Connection]
    BY <1>1, FreeConnection DEF Book, Types
  <1>10. Listed'
    <2>1. /\ \A c \in Conns : c \notin closed /\ c \notin present /\ conn[c].sul \in Suls
          /\ \A x \in present : x \notin Conns /\ <<x[1], "there">> \in Suls
      BY Apart DEF Book
    <2>2. ASSUME NEW c \in Conns, conn'[c].type # "free"
          PROVE  In(sul', conn'[c].sul, c)
      <3>1. conn[c].type # "closed" /\ conn'[c] = conn[c]
        BY <1>1, <2>2, FreeConnection
      <3>2. c \notin X(conn[c].sul)
        BY <1>2, <2>1, <3>1 DEF X
      <3> QED BY <1>7, <2>1, <2>2, <3>1, <3>2 DEF Book, Listed
    <2>3. ASSUME NEW x \in present
          PROVE  In(sul', <<x[1], "there">>, x)
      <3>1. x \notin X(<<x[1], "there">>)
        BY <1>2, <2>1 DEF X
      <3> QED BY <1>7, <2>1, <3>1 DEF Book, Listed
    <2>4. ASSUME NEW t \in Suls, NEW y, In(sul', t, y)
          PROVE  \/ y \in present /\ t = <<y[1], "there">>
                 \/ y \in Conns /\ conn'[y].type # "free" /\ conn'[y].sul = t
      <3>1. In(sul, t, y) /\ y \notin X(t)
        BY <1>7, <2>4
      <3>2. CASE y \in present \cup closed /\ t = <<y[1], "there">>
        BY <3>1, <3>2 DEF X
      <3>3. CASE y \in Conns /\ conn[y].type # "free" /\ conn[y].sul = t
        <4>1. y \notin C
          BY <3>1, <3>3 DEF X
        <4>2. conn[y].type # "closed"
          BY <3>3, <4>1 DEF C, OfType
        <4> QED BY <1>1, <3>3, <4>2
      <3> QED BY <3>1, <3>2, <3>3 DEF Book, Listed
    <2> QED BY <1>1, <2>2, <2>3, <2>4 DEF Listed
  <1>11. Types'
    BY <1>1, <1>8, <1>9 DEF Book, Types
  <1> QED BY <1>8, <1>10, <1>11 DEF Book

-----------------------------------------------------------------------------
(***************************************************************************)
(* The list and the queues, for every step.                                *)
(***************************************************************************)
\* The start.
LEMMA BookInit ==
    Init => Book
  <1> SUFFICES ASSUME Init PROVE Book
    OBVIOUS
  <1>1. sul = [s \in Suls |-> NoSul] /\ link = FALSE /\ present = {} /\ closed = {}
        /\ said = [k \in Calls |-> 0] /\ last = [k \in Calls |-> 0]
        /\ conn = [c \in Conns |-> Free]
    BY DEF Init, FloodInit
  <1>2. passwd \in [Calls -> Passwords \cup {"", "none"}]
    <2> DEFINE p == CHOOSE pw \in Passwords : TRUE
    <2>1. passwd = [k \in Calls |-> IF k \in Protected THEN p ELSE "none"]
      BY DEF Init
    <2>2. Protected # {} => p \in Passwords
      BY LoginBounds
    <2> HIDE DEF p
    <2> QED BY <2>1, <2>2
  <1>3. \A s \in Suls : sul[s] = NoSul
    BY <1>1
  <1>4. \A c \in Conns : conn[c] = Free
    BY <1>1
  <1>5. Types
    BY <1>1, <1>2, FreeConnection DEF Types, Entries
  <1>6. Listed
    BY <1>1, <1>3, <1>4, FreeConnection DEF Listed, In
  <1>7. Linked
    BY <1>1, <1>3 DEF Linked
  <1>8. Ordered
    BY <1>1, <1>3 DEF Ordered
  <1> QED BY <1>5, <1>6, <1>7, <1>8 DEF Book

\* Every step.
LEMMA BookStep ==
    Book /\ [Next]_vars => Book'
  <1> SUFFICES ASSUME Book, [Next]_vars PROVE Book'
    OBVIOUS
  <1>1. ASSUME NEW c \in Conns, SessionStep(c), NothingElse
        PROVE  Book'
    <2>1. RestStays
      BY <1>1 DEF NothingElse, RestStays
    <2> QED BY <1>1, <2>1, SessionKeeps
  <1>2. ASSUME NEW c \in Conns, Command(c) \/ ExcessFlood(c),
               UNCHANGED <<link, present, closed, said, last, cast, passwd, held>>
        PROVE  Book'
    <2>1. RestStays
      BY <1>2 DEF RestStays
    <2> QED BY <1>2, <2>1, CommandKeeps, ExcessFloodKeeps
  <1>3. ASSUME NEW c \in Conns, NEW n \in Names, NEW pw \in Passwords \cup {"", "none"},
               mkpass_command(c, n, pw)
        PROVE  Book'
    <2>1. UNCHANGED <<sul, link, present, closed, said, last, conn>>
          /\ passwd' = [passwd EXCEPT ![get_tidy_name[n]] = pw]
      BY <1>3 DEF mkpass_command, floodVars
    <2>2. passwd' \in [Calls -> Passwords \cup {"", "none"}]
      BY <2>1 DEF Book, Types
    <2> QED BY <2>1, <2>2 DEF Book, Types, Entries, Listed, Linked, Ordered
  <1>4. CASE FloodNext /\ UNCHANGED <<conn, passwd, authfile, held>>
    BY <1>4, FloodStep DEF LocalsStay
  <1>5. CASE UNCHANGED vars
    BY <1>5 DEF Book, Types, Entries, Listed, Linked, Ordered, vars, floodVars
  <1>6. CASE free_closed_connections
    BY <1>6, FreeKeeps
  <1>7. CASE send_sul_delayed_messages(OfType("user")) /\ UNCHANGED <<conn, passwd, authfile, held>>
    BY <1>7, FlushKeeps DEF LocalsStay
  <1> QED BY <1>1, <1>2, <1>3, <1>4, <1>5, <1>6, <1>7 DEF Next

\* conversd's list of static users and its sessions always agree: no open connection points to
\* an entry that was freed, local ones not even once they are closed, and no entry lists a session
\* that was freed, whatever of logins, floods, link breaks, expiry and passes of the main loop
\* happens in between.
THEOREM SessionLists == Spec => []SessionsAreListed
  <1>1. Book => SessionsAreListed
    <2> SUFFICES ASSUME Book PROVE SessionsAreListed
      OBVIOUS
    <2>1. \A c \in Conns : conn[c].sul \in Suls
      BY Apart DEF Book
    <2>2. \A x \in present : <<x[1], "there">> \in Suls
      BY Apart DEF Book
    <2> QED BY <2>1, <2>2 DEF Book, Listed, In, SessionsAreListed, Known
  <1> QED BY <1>1, BookInit, BookStep, PTL DEF Spec

\* The delay queue never lets a message overtake an earlier one of the same call.
THEOREM MessageOrder == Spec => []MessagesKeepTheirOrder
  <1>1. Book => MessagesKeepTheirOrder
    <2> SUFFICES ASSUME Book, NEW s \in Known, NEW i \in 1 .. Len(sul[s].queue)
                 PROVE  /\ sul[s].queue[i].n > last[s[1]]
                        /\ i > 1 => sul[s].queue[i].n > sul[s].queue[i - 1].n
      BY DEF MessagesKeepTheirOrder
    <2>1. s \in Suls /\ sul[s] # NoSul
      BY DEF Known
    <2>2. sul[s] \in Sul
      BY <2>1 DEF Book, Types, Entries
    <2>3. sul[s].queue \in Seq(Message)
      BY <2>2, SulFields
    <2>4. sul[s].queue # <<>>
      BY <2>3
    <2>5. InOrder(sul[s].queue, last[s[1]], said[s[1]])
      BY <2>1, <2>4 DEF Book, Ordered
    <2>6. \A j \in 1 .. Len(sul[s].queue) : sul[s].queue[j].n \in Nat
      <3>1. \A j \in 1 .. Len(sul[s].queue) : sul[s].queue[j] \in Message
        BY <2>3
      <3> QED BY <3>1 DEF Message
    <2>7. ASSUME i > 1 PROVE sul[s].queue[i].n > sul[s].queue[i - 1].n
      <3>1. i - 1 \in 1 .. Len(sul[s].queue) /\ i - 1 < i
        BY <2>3, <2>7
      <3>2. sul[s].queue[i - 1].n < sul[s].queue[i].n
        BY <2>5, <3>1 DEF InOrder
      <3> QED BY <2>6, <3>1, <3>2
    <2>8. sul[s].queue[i].n > last[s[1]]
      BY <2>5 DEF InOrder
    <2> QED BY <2>7, <2>8
  <1> QED BY <1>1, BookInit, BookStep, PTL DEF Spec

-----------------------------------------------------------------------------
(***************************************************************************)
(* Who becomes a user.  The challenge is not the one of the name when the  *)
(* client gave another one since, so the invariant is about the call that  *)
(* was asked for.                                                          *)
(***************************************************************************)

\* The challenge a connection has is for a password of the call it was asked for.
Asked(r) ==
    \A w \in r.want : \E k \in r.asked :
       w[2] = aprs_pass[k] \/ (w[2] \in Passwords /\ <<k, w[2]>> \in held)

Challenges ==
    /\ \A c \in Conns : Asked(conn[c])
    /\ \A k \in Calls : <<k, passwd[k]>> \in held

\* What LoginAnswersTheChallenge says of connection c, if that becomes r.
Answered(c, r) ==
    \/ \E k \in conn[c].asked \cup {Call(r)} : Shown(r, k)
    \/ NeedsNone(r)

AnswersTheChallenge(c) == LogsIn(c) => Answered(c, conn'[c])

\* Where nothing is asked any more.
LEMMA NotAsked ==
    ASSUME NEW r, r.want = {}
    PROVE  Asked(r)
  BY DEF Asked

\* A pair is made of its parts.
LEMMA PairOf ==
    ASSUME NEW A, NEW B, NEW w \in A \X B
    PROVE  w = <<w[1], w[2]>> /\ w[1] \in A
  OBVIOUS

\* At the start nobody is challenged.
LEMMA ChallengesInit ==
    Init => Challenges
  <1> SUFFICES ASSUME Init PROVE Challenges
    OBVIOUS
  <1>1. \A c \in Conns : conn[c] = Free
    BY DEF Init
  <1>2. \A k \in Calls : <<k, passwd[k]>> \in held
    BY DEF Init
  <1> QED BY <1>1, <1>2, FreeConnection, NotAsked DEF Challenges

\* A connection is asked for a password of a call, and becomes a user only with it, or with one of
\* the call it has by then.
LEMMA LoginStep ==
    ASSUME Types, Challenges, NEW c \in Conns, SessionStep(c), UNCHANGED <<passwd, held>>
    PROVE  Challenges' /\ \A d \in Conns : AnswersTheChallenge(d)
  <1>1. SUFFICES ASSUME NEW r \in Connection, Only(c, r), Asked(r), r.type = "user" => Answered(c, r)
                 PROVE  Challenges' /\ \A d \in Conns : AnswersTheChallenge(d)
    <2> DEFINE Good(r) == /\ r \in Connection /\ Only(c, r) /\ Asked(r)
                          /\ r.type = "user" => Answered(c, r)
    <2>1. SUFFICES \E r : Good(r)
      BY <1>1
    <2>2. CASE Comes(c)
      BY <2>2, NotAsked DEF Comes
    <2>3. CASE Goes(c)
      <3>1. Only(c, Closed(c))
        BY <2>3 DEF Goes, bye_command
      <3>2. Closed(c) \in Connection /\ Closed(c).type # "user" /\ Closed(c).want = {}
        BY ClosedConnection
      <3> QED BY <3>1, <3>2, NotAsked
    <2>4. CASE Rests(c)
      <3>1. PICK r : Renamed(c, r) /\ Only(c, r)
        BY <2>4 DEF Rests
      <3>2. r \in Connection /\ r.type # "user" /\ r.want = conn[c].want /\ r.asked = conn[c].asked
        BY <3>1 DEF Renamed
      <3>3. Asked(r)
        BY <3>2 DEF Challenges, Asked
      <3> QED BY <3>1, <3>2, <3>3
    <2>5. CASE Enters(c)
      <3>1. PICK q : Renamed(c, q) /\ (Waits(c, q) \/ Grows(c, q))
        BY <2>5 DEF Enters
      <3>2. q \in Connection /\ q.type = "unknown" /\ q.want = conn[c].want /\ q.asked = conn[c].asked
        BY <3>1 DEF Renamed
      <3>3. Asked(q)
        BY <3>2 DEF Challenges, Asked
      <3>4. ASSUME q.name # NoName
            PROVE  /\ Call(q) \in Calls /\ <<Call(q), passwd[Call(q)]>> \in held
                   /\ passwd[Call(q)] \in Passwords \cup {"", "none"}
        <4>1. Call(q) \in Calls
          BY <3>2, <3>4, LoginBounds DEF Call, Connection
        <4> QED BY <4>1 DEF Challenges, Types
      <3>5. CASE Waits(c, q)
        <4>1. PICK r : Alike(r, q) /\ Challenged(r, q) /\ Only(c, r)
          BY <3>5 DEF Waits
        <4>2. r \in Connection /\ r.type = "unknown"
          BY <3>2, <4>1 DEF Alike
        <4>3. Asked(r)
          <5>1. CASE r.want = q.want /\ r.asked = q.asked
            BY <3>3, <5>1 DEF Asked
          <5>2. ASSUME q.name # NoName, r.asked = {Call(q)}, NEW kind \in Kinds,
                       r.want = Wanted(kind, passwd[Call(q)])
                PROVE  Asked(r)
            <6> SUFFICES ASSUME NEW w \in r.want
                         PROVE  w[2] \in Passwords /\ <<Call(q), w[2]>> \in held
              BY <5>2 DEF Asked
            <6>1. passwd[Call(q)] \notin {"none", ""} /\ w = <<kind, passwd[Call(q)]>>
              BY <5>2 DEF Wanted
            <6> QED BY <3>4, <5>2, <6>1
          <5>3. ASSUME q.name # NoName, r.asked = {Call(q)}, NEW kind \in Kinds,
                       r.want = Wanted(kind, aprs_pass[Call(q)])
                PROVE  Asked(r)
            <6> SUFFICES ASSUME NEW w \in r.want PROVE w[2] = aprs_pass[Call(q)]
              BY <5>3 DEF Asked
            <6>1. w = <<kind, aprs_pass[Call(q)]>>
              BY <5>3 DEF Wanted
            <6> QED BY <6>1
          <5> QED BY <4>1, <5>1, <5>2, <5>3 DEF Challenged
        <4> QED BY <4>1, <4>2, <4>3
      <3>6. CASE Grows(c, q)
        <4>1. PICK r : /\ r \in Connection /\ r.type = "user" /\ r.name = q.name /\ r.name # NoName
                       /\ r.want = {} /\ Proven(r, q) /\ Only(c, r)
          BY <3>6 DEF Grows
        <4>2. Call(r) = Call(q) /\ q.name # NoName
          BY <4>1 DEF Call
        <4>3. Asked(r)
          BY <4>1, NotAsked
        <4>4. Answered(c, r)
          <5>1. CASE r.got # NoAnswer /\ \E w \in q.want : w \in r.got
            <6>1. PICK w \in q.want : w \in r.got
              BY <5>1
            <6>2. PICK k \in q.asked : w[2] = aprs_pass[k] \/ (w[2] \in Passwords /\ <<k, w[2]>> \in held)
              BY <3>3, Zenon DEF Asked
            <6>3. w = <<w[1], w[2]>> /\ w[1] \in Kinds
              <7>1. q.want \in SUBSET (Kinds \X Secrets)
                BY <3>2 DEF Connection
              <7>2. w \in Kinds \X Secrets
                BY <7>1, Zenon
              <7> QED BY <7>2, PairOf
            <6>4. Shown(r, k)
              BY <5>1, <6>1, <6>2, <6>3 DEF Shown
            <6> QED BY <3>2, <6>2, <6>4 DEF Answered
          <5>2. CASE /\ r.got # NoAnswer /\ passwd[Call(q)] \notin {"none", ""}
                     /\ \E kind \in Kinds : <<kind, passwd[Call(q)]>> \in r.got
            <6>1. Shown(r, Call(r))
              BY <3>4, <4>2, <5>2 DEF Shown
            <6> QED BY <6>1 DEF Answered
          <5>3. CASE passwd[Call(q)] = ""
            BY <3>4, <4>2, <5>3 DEF Answered, NeedsNone
          <5>4. CASE passwd[Call(q)] = "none" /\ r.isauth = 1 /\ "socket" \notin r.need
            BY <4>2, <5>4 DEF Answered, NeedsNone
          <5> QED BY <4>1, <5>1, <5>2, <5>3, <5>4 DEF Proven
        <4> QED BY <4>1, <4>3, <4>4
      <3> QED BY <3>1, <3>5, <3>6
    <2> QED BY <2>2, <2>3, <2>4, <2>5, SessionSteps
  <1>2. conn'[c] = r /\ OthersStay(c)
    BY <1>1, OnlyOne
  <1>3. ASSUME NEW d \in Conns PROVE Asked(conn'[d])
    BY <1>1, <1>2, <1>3 DEF OthersStay, Challenges
  <1>4. Challenges'
    BY <1>3 DEF Challenges, Asked
  <1>5. ASSUME NEW d \in Conns PROVE AnswersTheChallenge(d)
    <2>1. CASE d = c
      BY <1>1, <1>2, <2>1 DEF AnswersTheChallenge, LogsIn
    <2>2. CASE d # c
      BY <1>2, <2>2 DEF OthersStay, AnswersTheChallenge, LogsIn
    <2> QED BY <2>1, <2>2
  <1> QED BY <1>4, <1>5

\* Steps in which nobody becomes a user: connections stay or are closed or freed, passwords are added.
LEMMA NobodyLogsIn ==
    ASSUME Challenges, held \subseteq held', \A k \in Calls : <<k, passwd'[k]>> \in held',
           \A d \in Conns : conn'[d] = conn[d] \/ (conn'[d].type # "user" /\ conn'[d].want = {})
    PROVE  Challenges' /\ \A d \in Conns : AnswersTheChallenge(d)
  <1>1. ASSUME NEW d \in Conns PROVE AnswersTheChallenge(d) /\ Asked(conn[d])
    BY <1>1 DEF AnswersTheChallenge, LogsIn, Challenges
  <1>2. ASSUME NEW d \in Conns PROVE Asked(conn[d])'
    <2>1. CASE conn'[d].want = {}
      BY <2>1 DEF Asked
    <2>2. CASE conn'[d] = conn[d]
      BY <1>1, <2>2 DEF Asked
    <2> QED BY <2>1, <2>2
  <1> QED BY <1>1, <1>2 DEF Challenges

\* Every step, for the challenges and the logins.
LEMMA ChallengesStep ==
    Types /\ Challenges /\ [Next]_vars => Challenges' /\ \A d \in Conns : AnswersTheChallenge(d)
  <1> SUFFICES ASSUME Types, Challenges, [Next]_vars
               PROVE  Challenges' /\ \A d \in Conns : AnswersTheChallenge(d)
    OBVIOUS
  <1>1. ASSUME NEW c \in Conns, SessionStep(c), NothingElse
        PROVE  Challenges' /\ \A d \in Conns : AnswersTheChallenge(d)
    <2>1. UNCHANGED <<passwd, held>>
      BY <1>1 DEF NothingElse
    <2> QED BY <1>1, <2>1, LoginStep
  <1>2. ASSUME NEW c \in Conns, Command(c) \/ ExcessFlood(c),
               UNCHANGED <<link, present, closed, said, last, cast, passwd, held>>
        PROVE  Challenges' /\ \A d \in Conns : AnswersTheChallenge(d)
    <2>1. \A d \in Conns : conn'[d] = conn[d] \/ (conn'[d].type # "user" /\ conn'[d].want = {})
      <3>1. Only(c, Closed(c)) \/ conn' = conn
        BY <1>2 DEF Command, ExcessFlood
      <3>2. Closed(c).type # "user" /\ Closed(c).want = {}
        BY ClosedConnection
      <3> QED BY <3>1, <3>2 DEF Only, Types
    <2> QED BY <1>2, <2>1, NobodyLogsIn DEF Challenges
  <1>3. ASSUME NEW c \in Conns, NEW n \in Names, NEW pw \in Passwords \cup {"", "none"},
               mkpass_command(c, n, pw)
        PROVE  Challenges' /\ \A d \in Conns : AnswersTheChallenge(d)
    <2> DEFINE k == get_tidy_name[n]
    <2>1. passwd' = [passwd EXCEPT ![k] = pw] /\ held' = held \cup {<<k, pw>>} /\ conn' = conn
      BY <1>3 DEF mkpass_command
    <2>2. \A j \in Calls : <<j, passwd'[j]>> \in held'
      <3> HIDE DEF k
      <3> SUFFICES ASSUME NEW j \in Calls PROVE <<j, passwd'[j]>> \in held'
        OBVIOUS
      <3>1. CASE j = k
        BY <2>1, <3>1 DEF Types
      <3>2. CASE j # k
        BY <2>1, <3>2 DEF Types, Challenges
      <3> QED BY <3>1, <3>2
    <2> QED BY <2>1, <2>2, NobodyLogsIn
  <1>4. CASE UNCHANGED <<conn, passwd, held>>
    BY <1>4, NobodyLogsIn DEF Challenges
  <1>5. CASE free_closed_connections
    <2>1. /\ UNCHANGED <<passwd, held>>
          /\ conn' = [c \in Conns |-> IF conn[c].type = "closed" THEN Free ELSE conn[c]]
      BY <1>5 DEF free_closed_connections
    <2>2. \A d \in Conns : conn'[d] = conn[d] \/ (conn'[d].type # "user" /\ conn'[d].want = {})
      BY <2>1, FreeConnection
    <2> QED BY <2>1, <2>2, NobodyLogsIn DEF Challenges
  <1> QED BY <1>1, <1>2, <1>3, <1>4, <1>5 DEF Next, vars

\* Whoever becomes a user of conversd under a valid name has shown a password, or the aprs
\* password, of that call or of the call the connection was last asked for, or the call needs none
\* here; for all names, answers, challenges and changes of passwords in any order.
THEOREM LoginsAnswerTheChallenge == Spec => LoginAnswersTheChallenge
  <1>1. Book => Types
    BY DEF Book
  <1>2. Types /\ Challenges /\ [Next]_vars =>
           [\A c \in Conns : LogsIn(c) =>
              \/ \E k \in conn[c].asked \cup {Call(conn'[c])} : Shown(conn'[c], k)
              \/ NeedsNone(conn'[c])]_vars
    BY ChallengesStep DEF AnswersTheChallenge, Answered
  <1>3. Types /\ Challenges /\ [Next]_vars => Challenges'
    BY ChallengesStep
  <1> QED BY <1>1, <1>2, <1>3, BookInit, BookStep, ChallengesInit, PTL DEF Spec, LoginAnswersTheChallenge

=============================================================================
