------------------------ MODULE MCZonelessScheduler ------------------------
(* Small instances of ZonelessScheduler for TLC. *)
EXTENDS ZonelessScheduler, TLC

Symmetry == Permutations(Effects) \cup Permutations(Views) \cup Permutations(Hooks)
============================================================================
