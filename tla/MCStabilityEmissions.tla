------------------------ MODULE MCStabilityEmissions ------------------------
(* Small instances of StabilityEmissions for TLC. *)
EXTENDS StabilityEmissions

\* Subscribers that react when the application becomes stable only: the case
\* that the comment in cleanup() describes.
ReactToStable == {FALSE}

\* Subscribers that react to any change, as {{ appRef.isStable | async }} does.
ReactToAll == BOOLEAN
============================================================================
