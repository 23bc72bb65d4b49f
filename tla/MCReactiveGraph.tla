--------------------------- MODULE MCReactiveGraph ---------------------------
(* Small instances of ReactiveGraph for TLC. *)
EXTENDS ReactiveGraph, TLC

CONSTANTS s1, s2, c1, c2

\* c1 = s1 ? s2 : 0 has a conditional dependency, and often an unchanged value;
\* c2 reads c1 and then s1 (a diamond below s1), and throws if c1 is 0 and s1 is 1.
MCBody(n, values) ==
    IF n = c1
    THEN CASE values = <<>> -> Reads(s1)
           [] values = <<1>> -> Reads(s2)
           [] OTHER -> Returns(values[Len(values)])
    ELSE CASE values = <<>> -> Reads(c1)
           [] Len(values) = 1 -> Reads(s1)
           [] OTHER -> Returns(IF values = <<0, 1>> THEN Errored ELSE values[2])

MCInitial == [n \in {s1, s2} |-> 0]

MCRank == (s1 :> 0) @@ (s2 :> 0) @@ (c1 :> 1) @@ (c2 :> 2)

Symmetry == Permutations(Effects)
============================================================================
