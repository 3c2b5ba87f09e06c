---------------------------- MODULE ChannelModes ----------------------------
(***************************************************************************)
(* The channel-mode flags of Convers.Core and what a /..MODE toggle string *)
(* does to them (ChannelMode.cs, ChannelModes.cs).  A mode set is a set of *)
(* the letters s p t i m l.                                                *)
(*                                                                         *)
(* A toggle string such as "+mt-s" is a run of signs and letters in which  *)
(* the last occurrence of a letter decides.  What the code's loop computes *)
(* from it is therefore fixed by two disjoint sets: the letters it leaves  *)
(* switched on and the letters it leaves switched off.  A toggle is that   *)
(* pair; unknown characters, which the loop skips, are in neither.         *)
(***************************************************************************)

Mode == {"s", "p", "t", "i", "m", "l"}

Toggle == {o \in [on : SUBSET Mode, off : SUBSET Mode] : o.on \cap o.off = {}}

\* Channel 0 honours the topic lock and no other letter.
Honoured(isChannelZero) == IF isChannelZero THEN {"t"} ELSE Mode

Apply(start, options, isChannelZero) ==
    (start \ (options.off \cap Honoured(isChannelZero)))
        \cup (options.on \cap Honoured(isChannelZero))

\* The canonical full string "+<letters>", or "-" for no modes at all: it
\* names the letters that are set and never one that is clear.
ToWire(modes) == [on |-> modes, off |-> {}]

RequiresInvite(modes) == modes \cap {"p", "i"} # {}

=============================================================================
