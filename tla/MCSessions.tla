---------------------------- MODULE MCSessions ----------------------------
(***************************************************************************)
(* Instances of KnownSessions for TLC: two entries in one scope, which the *)
(* commands of a session may link, with a weight or without.               *)
(***************************************************************************)
EXTENDS KnownSessions, TLC

CONSTANTS a, i1, i2, text1, text2, title

OnePath == {<<a>>}

NothingBelow == [p \in Paths |-> {}]

AllWeights == 0..1000 \cup {Null}

Entry(text) == [content |-> text, scope |-> <<a>>, title |-> title,
                created |-> 0, expires |-> Null, version |-> 1]

TwoEntries == [scopes  |-> OnePath,
               entries |-> [i \in Ids |->
                              IF i = i1 THEN Entry(text1) ELSE Entry(text2)],
               labels  |-> {},
               edges   |-> [e \in EdgeIds |-> Null]]

ManualWeights == {980, Null}

\* The two entries change places together with their texts.
Swap == i1 :> i2 @@ i2 :> i1 @@ text1 :> text2 @@ text2 :> text1

Symmetry == Permutations(Sessions) \cup {Swap}
              \cup {f @@ Swap : f \in Permutations(Sessions)}
=============================================================================
