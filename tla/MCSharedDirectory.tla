-------------------------- MODULE MCSharedDirectory ---------------------------
(* An instance of SharedDirectory for TLC.                                    *)
EXTENDS SharedDirectoryInvariant, TLC

Symmetry == Permutations(Processes) \cup Permutations(Ids)
=============================================================================
