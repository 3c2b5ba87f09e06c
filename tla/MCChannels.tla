----------------------------- MODULE MCChannels -----------------------------
(***************************************************************************)
(* Channels for TLC: a local user, in convers or irc mode, and a user   *)
(* of another host who can show up behind either of two neighbours.        *)
(***************************************************************************)
EXTENDS Channels

CONSTANT h

OneHost == [n \in Remote |-> h]

=============================================================================
