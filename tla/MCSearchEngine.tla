--------------------------- MODULE MCSearchEngine ----------------------------
(* Instances of SearchEngine: the ids are interchangeable, and so are the    *)
(* documents (neither is compared by anything but equality).                 *)
EXTENDS CarefulInvariant

IdSymmetry == Permutations(Ids)
Symmetry == Permutations(Ids) \cup Permutations(Docs)
=============================================================================
