---------------------------- MODULE MCTransfer ----------------------------
(* Two sites, SQLite and PostgreSQL, and one scope. *)
EXTENDS KnownTransfer, TLC

OnePath == {<<"a">>}
NothingUnder == [p \in OnePath |-> {}]
HomeAndAway == {"home", "away"}
OneOfEach == ("home" :> "sqlite") @@ ("away" :> "postgres")
Symmetry == Permutations(Ids) \cup Permutations(EdgeIds)
              \cup Permutations(Contents)
===========================================================================
