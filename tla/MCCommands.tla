---------------------------- MODULE MCCommands ----------------------------
(***************************************************************************)
(* Instances of KnownCommands for TLC: scope trees and LIKE behaviour as   *)
(* definitions, everything else in the .cfg files.                         *)
(***************************************************************************)
EXTENDS KnownCommands, TLC

CONSTANTS a, b, c   \* scope segments

\* One scope: nothing to move, nothing to prune.
FlatPaths == {<<a>>}

\* A scope and its child.
TreePaths == {<<a>>, <<a, b>>}

\* Two top-level scopes, one with a child.
ForestPaths == {<<a>>, <<b>>, <<b, c>>}

AllSegments == {a, b, c}

\* Segments with neither `_` nor letters that differ in case only.
PlainLike == [p \in Paths |-> {s \in Paths : Below(p, s)}]

\* `a` stands for a segment such as my_app and `b` for my-app.
Wildcard(x, y) == x = y \/ (x = a /\ y = b)

WildcardLike == [p \in Paths |->
    {s \in Paths : /\ Len(s) > Len(p)
                   /\ \A i \in 1..Len(p) : Wildcard(p[i], s[i])}]

NoWeights == {Null}

Symmetry == Permutations(Ids) \cup Permutations(EdgeIds)
              \cup Permutations(Procs) \cup Permutations(Contents)
              \cup Permutations(Titles) \cup Permutations(Labels)
=============================================================================
