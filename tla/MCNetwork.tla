----------------------------- MODULE MCNetwork ------------------------------
(***************************************************************************)
(* Network for TLC: three hosts in a line.                                 *)
(***************************************************************************)
EXTENDS Network

CONSTANTS a, b, c, alice, bob

Line == {<<a, b>>, <<b, a>>, <<b, c>>, <<c, b>>}

AtTheEnds == [x \in Users |-> IF x = alice THEN a ELSE c]

=============================================================================
