------------------------------- MODULE Login --------------------------------
(***************************************************************************)
(* How a connection to conversd-saupp becomes a user: by "/name" or by the *)
(* IRC commands NICK, USER and PASS in any order, with the password asked  *)
(* for in plain text or as the answer to a challenge (sys, md5), while     *)
(* other sessions of the same call come and go, passwords are changed,     *)
(* calls are banned, and NoFlood, which this module extends, keeps book.   *)
(*                                                                         *)
(* An answer is the set of passwords it contains, each with the form it is *)
(* given in: verify_password looks for the wanted one anywhere in the      *)
(* line.  The channel a user then enters is the subject of Channels.       *)
(***************************************************************************)
EXTENDS NoFlood

CONSTANTS
    Conns,            \* local connections
    IrcConns,         \* those whose client may speak IRC
    Names,            \* names given by /name, NICK and USER...
    NamesOf,          \* ... by the client of each connection
    MaxHeld,          \* bound on the passwords calls have had
    get_tidy_name,    \* the call of a name
    Invalid,          \* names validate_nickname refuses
    Unwelcome,        \* names refused by the access files, or for good
    OwnNames,         \* names that contain the host's own
    Passwords,        \* what /mkpass can set
    Answers,          \* what clients answer, as the sets of passwords contained
    aprs_pass,        \* compute_aprs_pass: the aprs password of a call
    Protected,        \* calls that have a password at first
    AuthFiles,        \* calls whose login asks with a challenge by default
    Sysops,           \* connections whose user is an operator
    Sockets,          \* kinds of sockets a connection may come from: "open",
                      \* "auth", "reserved"
    AcceptAPRSpass,
    ForceAuthWhenOn,  \* 0, 1 or 2
    Casts,            \* bound: the sets of connections and kinds of events that
                      \* meet in one behaviour
    NoName, NoAnswer  \* model values: an empty name, an empty pass_got

Kinds == {"plain", "challenge"}

ASSUME LoginBounds ==
    /\ get_tidy_name \in [Names -> Calls]
    /\ aprs_pass \in [Calls -> STRING]
    /\ Invalid \subseteq Names /\ Unwelcome \subseteq Names /\ OwnNames \subseteq Names
    /\ Protected \subseteq Calls /\ AuthFiles \subseteq Calls
    /\ Sockets \in [Conns -> SUBSET {"open", "auth", "reserved"}]
    /\ IrcConns \subseteq Conns
    /\ NamesOf \in [Conns -> SUBSET Names] /\ MaxHeld \in Nat
    /\ Answers \subseteq SUBSET (Kinds \X (Passwords \cup Range(aprs_pass)))
    /\ ForceAuthWhenOn \in 0 .. 2
    /\ AcceptAPRSpass \in BOOLEAN
    /\ NoName \notin Names /\ NoAnswer \notin Answers
    /\ Protected # {} => Passwords # {}
    /\ Conns \cap (Calls \X Chans) = {}

VARIABLES
    conn,      \* the local connections
    passwd,    \* the password file: per call "none", "" or a password
    authfile,  \* conversrc/<call>.auth
    held       \* history: which call has had which password

vars == <<floodVars, conn, passwd, authfile, held>>

\* struct static_user_list, with what NoFlood and Login look at.
Message == [n : Nat, to : Chans \cup {"user", "self"}]

Sul == [linked : BOOLEAN, sp : SUBSET (Conns \cup (Calls \X Chans)), floods : Nat, ahead : Nat,
        wait : {"none", "short", "long"}, queue : Seq(Message)]

ASSUME NoEntry == NoSul \notin Sul

\* No connection.  Its field asked is history: the call, if any, whose
\* password pass_want holds, or would hold if it had one.
Free ==
    [type |-> "free", sock |-> "open", name |-> NoName, nick |-> NoName, irc |-> FALSE, host |-> FALSE,
     need |-> {}, got |-> NoAnswer, want |-> {}, asked |-> {}, isauth |-> 0,
     sul |-> <<Unnamed, "here">>]

\* A closed connection: only its entry is looked at again.
Closed(c) == [Free EXCEPT !.type = "closed", !.sul = conn[c].sul]

Call(r) == get_tidy_name[r.name]

-----------------------------------------------------------------------------
(***************************************************************************)
(* Passwords.  pass_want holds at most one password, in the form asked.    *)
(***************************************************************************)
read_password(k) == passwd[k]

\* Mutant of Ask: the challenge is only replaced by another one.
AskKeepsOld(r, kind, pw) ==
    [r EXCEPT !.want = IF pw \in {"none", ""} THEN @ ELSE {<<kind, pw>>},
              !.asked = {Call(r)}, !.need = @ \cup {"answer"}]

\* ask_pw_plain, ask_pw_sys and ask_pw_md5 for password pw.
Ask(r, kind, pw) ==
    [r EXCEPT !.want = IF pw \in {"none", ""} THEN {} ELSE {<<kind, pw>>},
              !.asked = {Call(r)}, !.need = @ \cup {"answer"}]

verify_password(got, want) == IF got # NoAnswer /\ want \subseteq got THEN 0 ELSE -1

\* 0 is authenticated, 1 no password and none needed, -1 wrong, -2 none to
\* be had.
check_password(r) ==
    LET pw == read_password(Call(r))
    IN  IF r.want # {} THEN verify_password(r.got, r.want)
        ELSE CASE pw = "none" -> IF "socket" \in r.need THEN -2 ELSE 1
               [] pw = ""     -> 0
               [] OTHER       -> verify_password(r.got, {<<"plain", pw>>})

-----------------------------------------------------------------------------
(***************************************************************************)
(* Steps of a connection.                                                  *)
(***************************************************************************)
Only(c, r) == conn' = [conn EXCEPT ![c] = r]

NothingElse == UNCHANGED <<ban, link, present, closed, said, last, cast, passwd, held>>

\* bye_command2: the connection is closed, and stays in its entry.
bye_command(c) == Only(c, Closed(c)) /\ UNCHANGED sul

\* The last part of auth_command: he has gained user rights.  What is
\* stored of the challenge is not looked at any more.
BecomeUser(c, r) ==
    \E s \in SulFor(Call(r), FALSE) :
       /\ sul' = generate_sul(c, s, FALSE, {r.sul} \ {s})
       /\ Only(c, [r EXCEPT !.type = "user", !.sul = s, !.want = {}, !.asked = {},
                           !.need = @ \cap {"socket"}])

\* default_authtype: asking for a plain password removes the file.
KeepAuthType(r, kind) ==
    authfile' = IF kind = "plain" /\ ~r.irc THEN authfile \ {Call(r)} ELSE authfile

(***************************************************************************)
(* auth_command on connection c, which the caller left as r0: with no      *)
(* answer the password is asked for.  A call without a password on a       *)
(* socket that needs one is asked for its aprs password, if that is        *)
(* accepted; a user who showed it is let in unauthenticated.               *)
(***************************************************************************)
auth_command(c, r0, kind, ans) ==
    LET r1  == [r0 EXCEPT !.need = @ \ {"answer"}]
        r2  == IF ans = NoAnswer THEN Ask(r1, kind, read_password(Call(r1)))
                                 ELSE [r1 EXCEPT !.got = ans]
        ret == check_password(r2)
        r3  == [r2 EXCEPT !.need = @ \cup {"aprs"}]
        r4  == [r2 EXCEPT !.isauth = IF ret = 1 \/ "aprs" \in r2.need THEN 1 ELSE 2]
    IN  IF r0.type # "unknown"
        THEN Only(c, r1) /\ UNCHANGED <<sul, authfile>>
        ELSE IF r0.name = NoName
        THEN Only(c, IF ans = NoAnswer THEN r1 ELSE [r1 EXCEPT !.got = ans]) /\ UNCHANGED <<sul, authfile>>
        ELSE /\ IF ans = NoAnswer THEN KeepAuthType(r0, kind) ELSE UNCHANGED authfile
             /\ CASE ret = -2 /\ AcceptAPRSpass ->
                        /\ Only(c, IF ans = NoAnswer THEN Ask(r3, kind, aprs_pass[Call(r3)]) ELSE r3)
                        /\ UNCHANGED sul
                  [] ret < 0 /\ ~(ret = -2 /\ AcceptAPRSpass) ->
                        Only(c, [r2 EXCEPT !.got = NoAnswer]) /\ UNCHANGED sul
                  [] ret >= 0 /\ r4.irc /\ ~r4.host ->
                        Only(c, r4) /\ UNCHANGED sul
                  [] OTHER -> BecomeUser(c, r4)

Others(c, r) == {d \in Conns \ {c} : conn[d].type = "user" /\ Call(conn[d]) = Call(r)}

Refused(r) ==
    \/ is_banned(Call(r))
    \/ r.sock = "reserved"
    \/ r.name \in Unwelcome

\* ForceAuthWhenOn: the call is already on.
AlreadyOn(c, r) ==
    LET is_via   == \E x \in present : x[1] = Call(r)
        is_local == Others(c, r) # {}
    IN  CASE ForceAuthWhenOn = 0 -> FALSE
          [] ForceAuthWhenOn = 1 -> is_via /\ ~is_local
          [] OTHER -> is_via \/ is_local

\* user_login_common_partA.  Other sessions of the call may be on as many
\* channels as a call may join, which also ends the login.
user_login_common_partA(c, r) ==
    LET kind == IF r.irc \/ Call(r) \notin authfile THEN "plain" ELSE "challenge"
        r1   == [r EXCEPT !.need = IF r.name \in OwnNames \/ AlreadyOn(c, r) THEN @ \cup {"socket"} ELSE @,
                          !.nick = IF r.irc THEN @ ELSE r.name,
                          !.host = TRUE]
    IN  \/ /\ Refused(r) \/ Others(c, r) # {}
           /\ bye_command(c)
           /\ UNCHANGED authfile
        \/ ~Refused(r) /\ auth_command(c, r1, kind, r1.got)

accept_connect_request(c, sock) ==
    /\ conn[c].type = "free"
    /\ \E s \in SulFor(Unnamed, FALSE) :
          /\ sul' = generate_sul(c, s, FALSE, {})
          /\ Only(c, [Free EXCEPT !.type = "unknown", !.sock = sock, !.sul = s,
                                    !.need = IF sock = "auth" THEN {"socket"} ELSE {}])
    /\ UNCHANGED authfile

\* /name.  A name that is refused has already been stored.  Here and below,
\* pass_want is not cleared when another name is given: a login with an
\* answer stored, and a USER that waits for its NICK, leave it as it is.
name_command(c, n) ==
    /\ conn[c].type = "unknown"
    /\ LET r == [conn[c] EXCEPT !.name = n]
       IN  IF n \in Invalid THEN Only(c, r) /\ UNCHANGED <<sul, authfile>>
           ELSE user_login_common_partA(c, [r EXCEPT !.irc = FALSE])

\* Somebody else has the nickname.
check_nick_dupes(c, n) ==
    /\ n # conn[c].name
    /\ \E d \in Conns \ {c} :
          /\ conn[d].type = "user" /\ conn[d].name # conn[c].name
          /\ n \in {conn[d].nick, conn[d].name}

\* NICK of a connection that is not a user yet: the name is learned, once.
irc_nick_command(c, n) ==
    /\ conn[c].type = "unknown" /\ conn[c].nick = NoName
    /\ n \notin Invalid /\ ~check_nick_dupes(c, n)
    /\ LET r == [conn[c] EXCEPT !.nick = n, !.name = n, !.irc = TRUE]
       IN  IF conn[c].name # NoName THEN user_login_common_partA(c, r)
           ELSE Only(c, r) /\ UNCHANGED <<sul, authfile>>

\* USER: its name counts only if no NICK was given; the nickname, that a refused /name had
\* replaced, is the name again.
irc_user_command(c, n) ==
    LET r == [conn[c] EXCEPT !.name = IF conn[c].nick # NoName THEN conn[c].nick ELSE n,
                             !.irc = TRUE]
    IN  /\ conn[c].type = "unknown"
        /\ IF r.nick # NoName THEN user_login_common_partA(c, r)
           ELSE Only(c, r) /\ UNCHANGED <<sul, authfile>>

\* PASS with an answer.
irc_pass_command(c, ans) ==
    /\ conn[c].type = "unknown"
    /\ auth_command(c, [conn[c] EXCEPT !.irc = TRUE], "plain", ans)

\* process_input: a line that is no command answers the password prompt.
AnswerLine(c, ans) ==
    /\ conn[c].type = "unknown" /\ "answer" \in conn[c].need
    /\ auth_command(c, conn[c], "plain", ans)

\* /auth [sys|md5|plain] asks, /auth <answer> answers.
AuthCommand(c, kind, ans) ==
    /\ conn[c].type = "unknown"
    /\ auth_command(c, conn[c], kind, ans)

\* A command that is checked for floods, read once the rate limit allows:
\* who does not wait is banned and disconnected.
Command(c) ==
    LET s == conn[c].sul
    IN  /\ "floods" \in cast
        /\ conn[c].type = "user" /\ ~is_banned(Call(conn[c]))
        /\ c \notin Sysops
        /\ sul[s].ahead <= RateLimitMAX
        /\ \E e \in Charged(sul[s]) :
              \/ /\ Flooding(e)
                 /\ ban' = [ban EXCEPT ![Call(conn[c])] = "timed"]
                 /\ sul' = [sul EXCEPT ![s] = Stopped(e)]
                 /\ Only(c, Closed(c))
              \/ /\ \E f \in Early(e) \cup InTime(e) : sul' = [sul EXCEPT ![s] = f]
                 /\ UNCHANGED <<conn, ban>>
        /\ UNCHANGED authfile

\* The main loop reads more than FLOODSIZE characters ahead.
ExcessFlood(c) ==
    /\ "floods" \in cast
    /\ conn[c].type = "user"
    /\ ban' = [ban EXCEPT ![Call(conn[c])] = "timed"]
    /\ sul' = [sul EXCEPT ![conn[c].sul] = free_sul_delayqueue(@)]
    /\ Only(c, Closed(c))
    /\ UNCHANGED authfile

\* /mkpass: one's own password, or an operator anybody's.
mkpass_command(c, n, pw) ==
    /\ "mkpass" \in cast
    /\ conn[c].type = "user"
    /\ n # conn[c].name => c \in Sysops
    /\ passwd' = [passwd EXCEPT ![get_tidy_name[n]] = pw]
    /\ held' = held \cup {<<get_tidy_name[n], pw>>}
    /\ Cardinality(held') <= MaxHeld
    /\ UNCHANGED <<conn, authfile, floodVars>>

Leave(c) ==
    /\ conn[c].type \in {"unknown", "user"}
    /\ bye_command(c)
    /\ UNCHANGED authfile

OfType(t) == {c \in Conns : conn[c].type = t}

\* At the start of each pass of the main loop.  What closes a connection
\* later in the pass may come before or after expire_sul.
free_closed_connections ==
    /\ closed \cup OfType("closed") # {}
    /\ sul' = free_sul_sp(OfType("closed"), [c \in Conns |-> conn[c].sul])
    /\ closed' = {}
    /\ conn' = [c \in Conns |-> IF conn[c].type = "closed" THEN Free ELSE conn[c]]
    /\ UNCHANGED <<ban, link, present, said, last, cast, passwd, authfile, held>>

Init ==
    /\ FloodInit
    /\ cast \in Casts
    /\ conn = [c \in Conns |-> Free]
    /\ passwd = [k \in Calls |-> IF k \in Protected THEN CHOOSE pw \in Passwords : TRUE ELSE "none"]
    /\ authfile = AuthFiles
    /\ held = {<<k, passwd[k]>> : k \in Calls}

SessionStep(c) ==
    \/ \E sock \in Sockets[c] : accept_connect_request(c, sock)
    \/ \E n \in NamesOf[c] : name_command(c, n)
    \/ /\ c \in IrcConns
       /\ \/ \E n \in NamesOf[c] : irc_nick_command(c, n) \/ irc_user_command(c, n)
          \/ \E ans \in Answers : irc_pass_command(c, ans)
    \/ \E ans \in Answers : AnswerLine(c, ans)
    \/ \E kind \in Kinds : AuthCommand(c, kind, NoAnswer)
    \/ \E ans \in Answers : AuthCommand(c, "plain", ans)
    \/ Leave(c)

Next ==
    \/ \E c \in Conns \cap cast :
          \/ SessionStep(c) /\ NothingElse
          \/ (Command(c) \/ ExcessFlood(c)) /\ UNCHANGED <<link, present, closed, said, last, cast, passwd, held>>
          \/ \E n \in Names, pw \in Passwords \cup {"", "none"} : mkpass_command(c, n, pw)
    \/ free_closed_connections
    \/ /\ FloodNext \/ send_sul_delayed_messages(OfType("user"))
       /\ UNCHANGED <<conn, passwd, authfile, held>>

Spec == Init /\ [][Next]_vars

-----------------------------------------------------------------------------
(***************************************************************************)
(* Every session is listed in the entry of its call, local ones until they *)
(* are freed, and every entry lists only sessions there are: no open       *)
(* connection points to a freed entry (cp->sul is used without a check)    *)
(* and none is found through one after it was freed, whatever of logins,   *)
(* floods, link breaks and expiry happens in between.                      *)
(***************************************************************************)
SessionsAreListed ==
    /\ \A c \in Conns : conn[c].type # "free" =>
          conn[c].sul \in Known /\ c \in sul[conn[c].sul].sp
    /\ \A x \in present : <<x[1], "there">> \in Known /\ x \in sul[<<x[1], "there">>].sp
    /\ \A s \in Known : \A x \in sul[s].sp :
          x \in present \cup closed \/ (x \in Conns /\ conn[x].type # "free" /\ conn[x].sul = s)

\* The answer on connection r contains a password that call k has, or had
\* when it was asked for.
Shown(r, k) ==
    \E pw \in Passwords \cup {aprs_pass[k]}, kind \in Kinds :
       /\ r.got # NoAnswer /\ <<kind, pw>> \in r.got
       /\ <<k, pw>> \in held \/ pw = aprs_pass[k]

\* Nobody asks the user on connection r for a password.
NeedsNone(r) ==
    \/ <<Call(r), "">> \in held
    \/ r.isauth = 1 /\ passwd[Call(r)] = "none" /\ "socket" \notin r.need

\* Connection c becomes a user under a valid name.
LogsIn(c) == conn[c].type # "user" /\ conn'[c].type = "user" /\ conn'[c].name \notin Invalid

(***************************************************************************)
(* Whoever becomes a user shows a password (or the aprs password) of his   *)
(* call or of the call this connection was last asked the password of, or  *)
(* his call needs none; and without a password entry nobody gets in where  *)
(* one is required.  Names, answers, challenges and changes of the         *)
(* password come in any order.                                             *)
(***************************************************************************)
LoginAnswersTheChallenge ==
    [][\A c \in Conns : LogsIn(c) =>
          \/ \E k \in conn[c].asked \cup {Call(conn'[c])} : Shown(conn'[c], k)
          \/ NeedsNone(conn'[c])]_vars

\* ... and the password is one of the very call he becomes a user under.
LoginProvesTheCall ==
    [][\A c \in Conns : LogsIn(c) => Shown(conn'[c], Call(conn'[c])) \/ NeedsNone(conn'[c])]_vars

=============================================================================
