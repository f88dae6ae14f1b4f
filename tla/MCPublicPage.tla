---------------------------- MODULE MCPublicPage ----------------------------
(* PublicPage with a page and another client, and two lists of fields. *)
EXTENDS PublicPage, TLC

CONSTANTS page1, script1

Field(l, t, r) == [label |-> l, type |-> t, required |-> r]

MCContent == << {Field("a", "text", TRUE)},
                {Field("a", "multiple_choice", FALSE), Field("b", "text", TRUE)} >>

MCBodies == {[l \in L |-> a] : L \in {{"a"}, {"b"}, {"a", "b"}}, a \in {"empty", "blank", "option", "long"}}

Symmetry == Permutations(Editors)
=============================================================================
