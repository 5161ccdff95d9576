----------------------------- MODULE Succession ------------------------------
(***************************************************************************)
(* What is reached from a member of a set when each member names others of *)
(* the set, in order: the files that a file includes, the targets that a   *)
(* target inherits from.  next[x][k] is what x names at its place k.       *)
(***************************************************************************)
EXTENDS Naturals

Successors(next, x) == {next[x][k] : k \in DOMAIN next[x]}

ClosedUnder(next, S) == \A x \in S : Successors(next, x) \subseteq S

(* The least set that has what x names and what its members name.          *)
Reached(next, x) ==
  {y \in DOMAIN next : \A S \in SUBSET DOMAIN next : Successors(next, x) \subseteq S /\ ClosedUnder(next, S) => y \in S}

(* What is reached from x forms a tree: x is not reached again, and all    *)
(* else is named at one place.                                             *)
ReachesTree(next, x) ==
  /\ x \notin Reached(next, x)
  /\ \A y, z \in Reached(next, x) \union {x} : \A k \in DOMAIN next[y], l \in DOMAIN next[z] :
        next[y][k] = next[z][l] => y = z /\ k = l

=============================================================================
