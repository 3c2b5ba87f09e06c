------------------------------ MODULE MCLogin -------------------------------
(***************************************************************************)
(* Login and NoFlood for TLC.  K and K-P are names of one call with a      *)
(* password, G is a guest without one.  A behaviour has either two local   *)
(* connections, or one and the link to the neighbour.                      *)
(***************************************************************************)
EXTENDS Login

CONSTANTS K, KP, G, Bad, c1, c2, c3, c4

CallOf == [n \in Names |-> IF n \in {K, KP} THEN "k" ELSE "g"]
Aprs == [x \in Calls |-> IF x = "k" THEN "aprs_k" ELSE "aprs_g"]
MCCasts == {{c1, c2, "mkpass"}, {c2, "floods", "bans", "expiry"}, {c2, c3, "expiry"}, {c4, "link", "expiry"}, {"link", "floods", "bans"}}
NameCasts == {{c1}}
MCNames == [c \in Conns |-> CASE c = c1 -> {K, G} [] c = c2 -> {KP} [] c = c3 -> {G, Bad} [] c = c4 -> {G}]
MCAnswers == {{}, {<<"plain", "p">>}, {<<"challenge", "p">>}, {<<"plain", "aprs_g">>}}
MCSockets == [c \in Conns |-> IF c = c3 THEN {"auth", "reserved"} ELSE {"open"}]

=============================================================================
