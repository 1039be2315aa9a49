----------------------------- MODULE MCPostgres -----------------------------
(***************************************************************************)
(* An instance of KnownPostgres for TLC: a scope and one below it, two     *)
(* processes, the second of which also cleans up.                          *)
(***************************************************************************)
EXTENDS KnownPostgres, TLC

CONSTANTS a, b, p1, p2

TwoPaths == {<<a>>, <<a, b>>}

HierarchicalLike == [p \in Paths |-> {s \in Paths : Below(p, s)}]

NoHyphen == [s \in Segments |-> s]

Division == p1 :> {"add", "update"}
              @@ p2 :> {"add", "link", "unlink", "delete", "gc",
                        "scope create", "scope delete"}

Symmetry == Permutations(Ids)
=============================================================================
