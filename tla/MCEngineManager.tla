-------------------------- MODULE MCEngineManager ----------------------------
(* EngineManager with symmetric threads and document ids, for TLC.          *)
EXTENDS EngineManagerInvariant, TLC
ThreadSymmetry == Permutations(Handlers) \cup Permutations(Ids)
=============================================================================
