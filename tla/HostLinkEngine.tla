--------------------------- MODULE HostLinkEngine ---------------------------
(***************************************************************************)
(* The sans-IO core of a host link (Convers.Host/Uplink/HostLinkEngine.cs):*)
(* the /..HOST handshake, what becomes of an inbound line, and the timers. *)
(* One engine value is one connection's lifetime.  inbound selects the     *)
(* role: FALSE for the link that dials a parent, TRUE for a peer's.        *)
(*                                                                         *)
(* The code keeps time stamps and compares their age with a timeout, in    *)
(* OnTick only; the model keeps the ages, in any unit of time, and stops   *)
(* counting where the comparison no longer changes.                        *)
(***************************************************************************)
EXTENDS Integers, Sequences

CONSTANTS HandshakeTimeout, PingInterval, SilenceTimeout

\* HostLinkOptions.Validate
ASSUME TimingAssumption ==
    /\ HandshakeTimeout \in Nat
    /\ PingInterval \in Nat
    /\ SilenceTimeout \in Nat
    /\ SilenceTimeout > PingInterval

Engine ==
    [state : {"Disconnected", "Handshaking", "Established"},
     silent : 0..SilenceTimeout,      \* since _lastInbound
     pinged : 0..PingInterval,        \* since _lastPingSent
     shaking : 0..HandshakeTimeout]   \* since _handshakeSentAt

\* A new engine, and a connection that has just been opened.
NewEngine == [state |-> "Disconnected", silent |-> 0, pinged |-> 0, shaking |-> 0]
Opened == [NewEngine EXCEPT !.state = "Handshaking"]

Command(verb) == [verb |-> verb]

\* EngineStep, with the engine it leaves behind.  out: commands to send;
\* event: the line goes to the hub; completed: HandshakeCompleted; drop:
\* there is a DropReason.
StepTo(e) == [engine |-> e, out |-> <<>>, event |-> FALSE, completed |-> FALSE,
              drop |-> FALSE]

OnConnected == [StepTo(Opened) EXCEPT !.out = <<Command("HOST")>>]

OnAccepted == StepTo(Opened)

\* Mutant: presence that arrives before the reply is thrown away.
OnlyTheReply(e, line, inbound) ==
    IF line.verb = "HOST"
    THEN [StepTo([e EXCEPT !.state = "Established"]) EXCEPT !.completed = TRUE]
    ELSE StepTo(e)

\* Until the peer's /..HOST everything else already goes to the hub.
OnLineWhileHandshaking(e, line, inbound) ==
    IF line.verb = "HOST"
    THEN [StepTo([e EXCEPT !.state = "Established"]) EXCEPT
            !.completed = TRUE,
            !.out = IF inbound THEN <<Command("HOST")>> ELSE <<>>]
    ELSE [StepTo(e) EXCEPT !.event = TRUE]

\* ROUT and SYSI are answered here and never reach the hub.
OnLineWhileEstablished(e, line) ==
    CASE line.verb = "HOST" -> [StepTo(e) EXCEPT !.drop = TRUE]
      [] line.verb = "LOOP" -> [StepTo(e) EXCEPT !.event = TRUE, !.drop = TRUE]
      [] line.verb = "ROUT" -> [StepTo(e) EXCEPT !.out = <<Command("UMSG")>>]
      [] OTHER -> [StepTo(e) EXCEPT !.event = TRUE]

\* Any line counts as a sign of life; TEXT is one that is no host command.
OnLineReceived(e, line, inbound) ==
    LET heard == [e EXCEPT !.silent = 0] IN
    CASE line.verb = "TEXT" \/ e.state = "Disconnected" -> StepTo(heard)
      [] line.verb # "TEXT" /\ e.state = "Handshaking" ->
           OnLineWhileHandshaking(heard, line, inbound)
      [] line.verb # "TEXT" /\ e.state = "Established" ->
           OnLineWhileEstablished(heard, line)

\* Mutant: our own ping counts as a sign of life.
OnTickHearingItself(e) ==
    IF e.state = "Established" /\ e.pinged >= PingInterval
    THEN [StepTo([e EXCEPT !.pinged = 0, !.silent = 0]) EXCEPT !.out = <<Command("PING")>>]
    ELSE [StepTo(e) EXCEPT
            !.drop = e.state = "Handshaking" /\ e.shaking >= HandshakeTimeout]

\* Mutant: only an established link is watched.
OnTickEstablishedOnly(e) ==
    IF e.state # "Established" THEN StepTo(e)
    ELSE IF e.silent >= SilenceTimeout THEN [StepTo(e) EXCEPT !.drop = TRUE]
    ELSE IF e.pinged >= PingInterval
    THEN [StepTo([e EXCEPT !.pinged = 0]) EXCEPT !.out = <<Command("PING")>>]
    ELSE StepTo(e)

OnTick(e) ==
    LET stalled == e.state = "Handshaking" /\ e.shaking >= HandshakeTimeout
        dead == e.state = "Established" /\ e.silent >= SilenceTimeout
        due == e.state = "Established" /\ e.pinged >= PingInterval
    IN  CASE stalled \/ dead -> [StepTo(e) EXCEPT !.drop = TRUE]
          [] ~stalled /\ ~dead /\ due ->
               [StepTo([e EXCEPT !.pinged = 0]) EXCEPT !.out = <<Command("PING")>>]
          [] OTHER -> StepTo(e)

\* One unit of time passes.
Older(age, limit) == IF age < limit THEN age + 1 ELSE age

Aged(e) == [e EXCEPT !.silent = Older(@, SilenceTimeout),
                     !.pinged = Older(@, PingInterval),
                     !.shaking = Older(@, HandshakeTimeout)]

=============================================================================
