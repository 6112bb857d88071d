---------------------------- MODULE MCMemoryItems ----------------------------
(***************************************************************************)
(* Instances of MemoryItems for TLC: "likes" and "loves" say the same,     *)
(* "hates" the opposite, "name" is protected and near to "likes".          *)
(***************************************************************************)
EXTENDS MemoryItems, TLC

CONSTANTS h1, h2

Texts == {"likes", "loves", "hates", "name"}

Symmetric(pairs) == pairs \cup {<<pair[2], pair[1]>> : pair \in pairs}

Contradictions == Symmetric({<<"likes", "hates">>, <<"loves", "hates">>})
Conflicts == Contradictions \cup Symmetric({<<"likes", "loves">>})
Resembling == Conflicts \cup Symmetric({<<"likes", "name">>})

Wishes == {[content |-> "likes", pending |-> FALSE], [content |-> "loves", pending |-> TRUE],
           [content |-> "hates", pending |-> FALSE], [content |-> "name", pending |-> FALSE]}

HandlerSymmetry == Permutations(Handler)

=============================================================================
