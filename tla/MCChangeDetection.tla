------------------------- MODULE MCChangeDetection -------------------------
(* Two processes; a file whose third version has the content of the first. *)
EXTENDS ChangeDetection, TLC

CONSTANTS j1, j2, p1, p2, a, b

TwoJobs == {j1, j2}
OnePath == {p1}
TwoPaths == {p1, p2}
Contents == {a, b}

TwoVersions == <<a, b>>
ThreeVersions == <<a, b, a>>

Symmetry == Permutations(Jobs) \cup Permutations(Paths)
=============================================================================
