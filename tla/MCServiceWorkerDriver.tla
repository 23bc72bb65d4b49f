----------------------- MODULE MCServiceWorkerDriver -----------------------
(* Instances of ServiceWorkerDriver for TLC. *)
EXTENDS ServiceWorkerDriver, TLC

Symmetry == Permutations(Versions) \cup Permutations(Clients) \cup Permutations(Threads)
=============================================================================
