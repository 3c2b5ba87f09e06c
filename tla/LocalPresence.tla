--------------------------- MODULE LocalPresence ----------------------------
(***************************************************************************)
(* What a leaf promises the network about its own users, without sessions, *)
(* tables or commands other than /..USER: each user is absent or on one    *)
(* channel, every change is announced by exactly one /..USER whose "from"  *)
(* is where the network believes the user to be, and nothing is announced  *)
(* that did not change.                                                    *)
(*                                                                         *)
(* ConversHub implements it; HostLink, which carries the announcements to  *)
(* the parent, is built on it.                                             *)
(***************************************************************************)
EXTENDS Integers

CONSTANTS Callsign, Channel, None

VARIABLES
    own,    \* the channel of each of our users, None when absent
    sent    \* the announcement of the last step, None when it made none

vars == <<own, sent>>

NoChannel == -1

\* A channel as /..USER writes it.
Wire(ch) == IF ch = None THEN NoChannel ELSE ch

Announcement(c, to) == [verb |-> "USER", user |-> c, from |-> Wire(own[c]), to |-> Wire(to)]

Init ==
    /\ own = [c \in Callsign |-> None]
    /\ sent = None

\* A join, a switch (to a channel) or a sign-off (to None).
Move(c, to) ==
    /\ own[c] # to
    /\ own' = [own EXCEPT ![c] = to]
    /\ sent' = Announcement(c, to)

\* A step that concerns none of our users' channels.
Quiet == sent' = None /\ UNCHANGED own

\* The process restarts; the network sees the link die and signs all off.
Reset ==
    /\ own' = [c \in Callsign |-> None]
    /\ sent' = None

Next == (\E c \in Callsign, to \in Channel \cup {None} : Move(c, to)) \/ Quiet \/ Reset

Spec == Init /\ [][Next]_vars

=============================================================================
