----------------------- MODULE ConversHubTopicProofs ------------------------
(***************************************************************************)
(* Topics and the store: what a crash brings back is never older, to the   *)
(* second, than what users saw, so that topics only move forward.          *)
(***************************************************************************)
EXTENDS ConversHubProofs

\* A topic that the last step put on ch came from the network and is not
\* older than the one it replaces, or a local user on ch set it just now.
Admissible(ch, t) ==
    \/ topics[ch] # None => topics[ch].at <= t.at
    \/ t.at = now /\ \E s \in On(ch) : sessions[s].call = t.by

\* The ways in which a step can touch topics or the store's topics.
LEMMA TopicSteps ==
    ASSUME TypeOK, [Next]_vars
    PROVE  \/ UNCHANGED <<topics, storedTopics>>
           \/ \E ch \in Channel, t \in Topic : ApplyTopic(ch, t) /\ Admissible(ch, t)
           \/ Restart
  <1>1. CASE LocalEvent
    <2>1. PICK s \in Session : LocalEventOf(s)
      BY <1>1 DEF LocalEvent
    <2>2. ASSUME NEW text \in Text, LocalSetTopic(s, text)
          PROVE  \/ UNCHANGED <<topics, storedTopics>>
                 \/ \E ch \in Channel, t \in Topic : ApplyTopic(ch, t) /\ Admissible(ch, t)
      <3> DEFINE ch == sessions[s].channel
                 t == [text |-> text, by |-> sessions[s].call, at |-> now]
      <3>1. Live(s) /\ ch \in Channel /\ sessions[s].call \in Callsign
        BY <2>2, LiveSession DEF LocalSetTopic, MaySetTopic
      <3>2. t \in Topic
        BY <3>1 DEF Topic, TypeOK
      <3>3. Admissible(ch, t)
        BY <3>1 DEF Admissible, On
      <3>4. UNCHANGED <<topics, storedTopics>> \/ ApplyTopic(ch, t)
        BY <2>2 DEF LocalSetTopic, MaySetTopic
      <3> HIDE DEF ch, t
      <3> QED BY <3>1, <3>2, <3>3, <3>4
    <2>3. ASSUME NEW call \in Callsign, NEW ch \in Channel,
                 LocalJoin(s, call, ch) \/ LocalJoinRefused(s, call, ch)
          PROVE  UNCHANGED <<topics, storedTopics>>
      BY <2>3 DEF LocalJoin, LocalJoinRefused, store
    <2>4. ASSUME NEW ch \in Channel, LocalSwitchChannel(s, ch) \/ LocalSwitchRefused(s, ch)
          PROVE  UNCHANGED <<topics, storedTopics>>
      BY <2>4 DEF LocalSwitchChannel, MovedTo, LocalSwitchRefused, store
    <2>5. ASSUME LocalSay(s) \/ LocalLeave(s)
          PROVE  UNCHANGED <<topics, storedTopics>>
      BY <2>5 DEF LocalSay, LocalLeave, store
    <2>6. ASSUME NEW to \in Callsign, LocalPrivateMessage(s, to)
          PROVE  UNCHANGED <<topics, storedTopics>>
      BY <2>6 DEF LocalPrivateMessage, store
    <2>7. ASSUME NEW personal \in Text, LocalSetPersonal(s, personal)
          PROVE  UNCHANGED <<topics, storedTopics>>
      BY <2>7 DEF LocalSetPersonal
    <2>8. ASSUME NEW away \in BOOLEAN, LocalSetAway(s, away)
          PROVE  UNCHANGED <<topics, storedTopics>>
      BY <2>8 DEF LocalSetAway, store
    <2>9. ASSUME NEW to \in Callsign, NEW ch \in Channel, LocalInvite(s, to, ch)
          PROVE  UNCHANGED <<topics, storedTopics>>
      BY <2>9 DEF LocalInvite, store
    <2>10. ASSUME NEW ch \in Channel, NEW options \in Toggles, LocalSetMode(s, ch, options)
           PROVE  UNCHANGED <<topics, storedTopics>>
      BY <2>10 DEF LocalSetMode, store
    <2>11. ASSUME NEW ch \in Channel \cup {NoChannel}, NEW grant \in Grants,
                  LocalSetOperator(s, ch, grant)
           PROVE  UNCHANGED <<topics, storedTopics>>
      BY <2>11 DEF LocalSetOperator, store
    <2> QED BY <2>1, <2>2, <2>3, <2>4, <2>5, <2>6, <2>7, <2>8, <2>9, <2>10, <2>11
            DEF LocalEventOf
  <1>2. CASE HostEvent
    <2>1. ASSUME NEW user \in Callsign, NEW seconds \in 0..ToUnix(MaxTime),
                 NEW ch \in Channel, NEW text \in Text, HostTopic(user, seconds, ch, text)
          PROVE  \E c \in Channel, t \in Topic : ApplyTopic(c, t) /\ Admissible(c, t)
      <3> DEFINE t == [text |-> text, by |-> user, at |-> FromUnix(seconds)]
      <3>1. seconds \in Nat
        BY UnixType, ConstantsAssumption
      <3>2. t \in Topic
        BY <3>1, UnixType DEF Topic
      <3>3. ApplyTopic(ch, t) /\ Admissible(ch, t)
        BY <2>1 DEF HostTopic, PutTopic, Admissible
      <3> HIDE DEF t
      <3> QED BY <3>2, <3>3
    <2>2. ASSUME NEW user \in Callsign, NEW host \in Host, NEW ch \in Channel,
                 NEW personal \in Text, HostUser(user, host, ch, personal)
          PROVE  UNCHANGED <<topics, storedTopics>>
      BY <2>2 DEF HostUser, PutUser, store
    <2>3. ASSUME NEW user \in Callsign, NEW host \in Host, HostUserSignOff(user, host)
          PROVE  UNCHANGED <<topics, storedTopics>>
      BY <2>3 DEF HostUserSignOff, RemoveUser, store
    <2>4. ASSUME NEW user \in Callsign, NEW host \in Host, NEW personal \in Text,
                 HostPersonal(user, host, personal)
          PROVE  UNCHANGED <<topics, storedTopics>>
      BY <2>4 DEF HostPersonal, store
    <2>5. ASSUME NEW user \in Callsign, NEW host \in Host, NEW away \in BOOLEAN,
                 HostAway(user, host, away)
          PROVE  UNCHANGED <<topics, storedTopics>>
      BY <2>5 DEF HostAway, store
    <2>6. ASSUME NEW ch \in Channel, HostChannelMessage(ch)
          PROVE  UNCHANGED <<topics, storedTopics>>
      BY <2>6 DEF HostChannelMessage, store
    <2>7. ASSUME NEW to \in Callsign, HostPrivateMessage(to)
          PROVE  UNCHANGED <<topics, storedTopics>>
      BY <2>7 DEF HostPrivateMessage, store
    <2>8. ASSUME NEW user \in Callsign, NEW ch \in Channel, HostInvite(user, ch)
          PROVE  UNCHANGED <<topics, storedTopics>>
      BY <2>8 DEF HostInvite, store
    <2>9. ASSUME NEW ch \in Channel, NEW options \in Toggles, HostMode(ch, options)
          PROVE  UNCHANGED <<topics, storedTopics>>
      BY <2>9 DEF HostMode, store
    <2>10. ASSUME NEW user \in Callsign, NEW ch \in Channel \cup {NoChannel},
                  NEW grant \in Grants, HostOper(user, ch, grant)
           PROVE  UNCHANGED <<topics, storedTopics>>
      BY <2>10 DEF HostOper, store
    <2>11. ASSUME HostPingOrLoop
           PROVE  UNCHANGED <<topics, storedTopics>>
      BY <2>11 DEF HostPingOrLoop, store
    <2> QED BY <1>2, <2>1, <2>2, <2>3, <2>4, <2>5, <2>6, <2>7, <2>8, <2>9, <2>10, <2>11
            DEF HostEvent
  <1>3. CASE Tick
    BY <1>3 DEF Tick, store
  <1>4. CASE UNCHANGED vars
    BY <1>4 DEF vars
  <1> QED BY <1>1, <1>2, <1>3, <1>4 DEF Next

\* What a restart hydrates: the stored topic, at the start of its second.
LEMMA RestartTopic ==
    ASSUME TypeOK, Restart, NEW ch \in Channel
    PROVE  /\ storedTopics'[ch] = storedTopics[ch]
           /\ storedTopics[ch] = None => topics'[ch] = None
           /\ storedTopics[ch] # None =>
                /\ topics'[ch] # None
                /\ storedTopics[ch].at \in Nat
                /\ topics'[ch].at \in Nat
                /\ ToUnix(topics'[ch].at) = storedTopics[ch].at
  <1>1. storedTopics'[ch] = storedTopics[ch]
    BY DEF Restart, store
  <1>2. ASSUME storedTopics[ch] # None
        PROVE  /\ topics'[ch] # None
               /\ storedTopics[ch].at \in Nat
               /\ topics'[ch].at \in Nat
               /\ ToUnix(topics'[ch].at) = storedTopics[ch].at
    <2>1. storedTopics[ch] \in Topic
      BY <1>2 DEF TypeOK
    <2>2. topics'[ch] = [storedTopics[ch] EXCEPT !.at = FromUnix(storedTopics[ch].at)]
      BY <1>2 DEF Restart
    <2>3. storedTopics[ch].at \in Nat
      BY <2>1 DEF Topic
    <2>4. topics'[ch] \in Topic /\ topics'[ch].at = FromUnix(storedTopics[ch].at)
      BY <2>1, <2>2, <2>3, UnixType DEF Topic
    <2> QED BY <2>3, <2>4, UnixType, NoneIsFresh
  <1>3. storedTopics[ch] = None => topics'[ch] = None
    BY DEF Restart
  <1> QED BY <1>1, <1>2, <1>3

\* The store is never behind: UpsertTopic takes a topic or already holds one
\* that is at least as new.
THEOREM StoreIsAsNew == Spec => []StoredTopicIsAsNew
  <1>1. Init => StoredTopicIsAsNew
    BY DEF Init, StoredTopicIsAsNew
  <1>2. TypeOK /\ StoredTopicIsAsNew /\ [Next]_vars => StoredTopicIsAsNew'
    <2> SUFFICES ASSUME TypeOK, StoredTopicIsAsNew, [Next]_vars
                 PROVE  StoredTopicIsAsNew'
      OBVIOUS
    <2>1. CASE UNCHANGED <<topics, storedTopics>>
      BY <2>1 DEF StoredTopicIsAsNew
    <2>2. ASSUME NEW ch \in Channel, NEW t \in Topic, ApplyTopic(ch, t)
          PROVE  StoredTopicIsAsNew'
      <3>1. t.at \in Nat /\ ToUnix(t.at) \in Nat /\ t # None
        BY UnixType, NoneIsFresh DEF Topic
      <3>2. topics' = [topics EXCEPT ![ch] = t]
        BY <2>2 DEF ApplyTopic
      <3>3. ASSUME NEW c \in Channel, topics'[c] # None
            PROVE  storedTopics'[c] # None /\ storedTopics'[c].at >= ToUnix(topics'[c].at)
        <4>1. CASE c # ch
          <5>1. topics'[c] = topics[c] /\ storedTopics'[c] = storedTopics[c]
            BY <2>2, <4>1 DEF ApplyTopic, UpsertTopic, TypeOK
          <5> QED BY <3>3, <5>1 DEF StoredTopicIsAsNew
        <4>2. CASE c = ch /\ storedTopics[ch] # None /\ storedTopics[ch].at >= ToUnix(t.at)
          <5>1. storedTopics' = storedTopics /\ topics'[ch] = t
            BY <2>2, <3>2, <4>2 DEF ApplyTopic, UpsertTopic, TypeOK
          <5> QED BY <4>2, <5>1
        <4>3. CASE c = ch /\ ~(storedTopics[ch] # None /\ storedTopics[ch].at >= ToUnix(t.at))
          <5>1. storedTopics'[ch] = [t EXCEPT !.at = ToUnix(t.at)] /\ topics'[ch] = t
            BY <2>2, <3>2, <4>3 DEF ApplyTopic, UpsertTopic, TypeOK
          <5>2. storedTopics'[ch] \in Topic /\ storedTopics'[ch].at = ToUnix(t.at)
            BY <3>1, <5>1 DEF Topic
          <5> QED BY <3>1, <4>3, <5>1, <5>2, NoneIsFresh
        <4> QED BY <4>1, <4>2, <4>3
      <3> QED BY <3>3 DEF StoredTopicIsAsNew
    <2>3. CASE Restart
      BY <2>3, RestartTopic DEF StoredTopicIsAsNew
    <2> QED BY <2>1, <2>2, <2>3, TopicSteps
  <1> QED BY <1>1, <1>2, TypeCorrect, PTL DEF Spec

\* Topics move forward in time over every step, a restart included, except
\* when a local user sets one by a clock that is behind.
THEOREM TopicsMoveForward == Spec => TopicsNeverFallBack
  <1>1. ASSUME TypeOK, StoredTopicIsAsNew, [Next]_vars
        PROVE  TopicAgesForward
    <2>1. ASSUME NEW c \in Channel, topics[c] # None
          PROVE  topics[c] \in Topic /\ topics[c].at \in Nat /\ ToUnix(topics[c].at) \in Nat
      BY <1>1, <2>1, UnixType DEF TypeOK, Topic
    <2>2. CASE UNCHANGED <<topics, storedTopics>>
      BY <2>1, <2>2 DEF TopicAgesForward
    <2>3. ASSUME NEW ch \in Channel, NEW t \in Topic, ApplyTopic(ch, t), Admissible(ch, t)
          PROVE  TopicAgesForward
      <3>1. t.at \in Nat /\ t # None
        BY NoneIsFresh DEF Topic
      <3>2. topics'[ch] = t /\ \A c \in Channel \ {ch} : topics'[c] = topics[c]
        BY <1>1, <2>3 DEF ApplyTopic, TypeOK
      <3>3. topics[ch] # None /\ topics[ch].at <= t.at =>
              ToUnix(t.at) >= ToUnix(topics[ch].at)
        BY <2>1, <3>1, ToUnixMonotone, UnixType
      <3> QED BY <2>1, <2>3, <3>1, <3>2, <3>3 DEF TopicAgesForward, Admissible
    <2>4. CASE Restart
      BY <1>1, <2>4, RestartTopic DEF StoredTopicIsAsNew, TopicAgesForward
    <2> QED BY <1>1, <2>2, <2>3, <2>4, TopicSteps
  <1> QED BY <1>1, TypeCorrect, StoreIsAsNew, PTL DEF Spec, TopicsNeverFallBack

=============================================================================
