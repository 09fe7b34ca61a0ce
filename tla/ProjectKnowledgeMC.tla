--------------------------- MODULE ProjectKnowledgeMC ---------------------------
(* A history of four commits: 2 and 3 branch off 1, 4 reverts 2 on top of both. *)
EXTENDS ProjectKnowledge, TLC
MCParents == 1 :> {} @@ 2 :> {1} @@ 3 :> {1} @@ 4 :> {2, 3}
Symmetric == Permutations(Requests)
MCReverts == 1 :> None @@ 2 :> None @@ 3 :> None @@ 4 :> 2
=============================================================================
