---------------------------- MODULE MCPermlinks ----------------------------
(***************************************************************************)
(* Permlinks for TLC: hosts and connections are interchangeable.           *)
(***************************************************************************)
EXTENDS Permlinks, TLC

\* Pointers to an entry that was freed are undefined: what follows is not explored.
NothingDangles ==
    \A p \in Used(S) : {perm[p].primary, perm[p].backup} \subseteq Used(S) \cup {NoSlot}

\* For the run about chains, which users, locks and hosts behind a neighbour do not touch:
\* states where any are known are not explored further, nor are those where two entries
\* have one name, of which the property says nothing.
NeighboursOnly ==
    /\ NothingDangles /\ NamesAreUnique
    /\ \A p \in Used(S) : ~ perm[p].locked
    /\ \A c \in Conns : seen[c] = {} /\ told[c] = {}
    /\ \A h \in Hosts : dest[h].link # NoSlot => perm[dest[h].link].name = h /\ ~ dest[h].auto

Symmetric == Permutations(Hosts) \cup Permutations(Conns)

=============================================================================
