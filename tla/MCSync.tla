------------------------------- MODULE MCSync -------------------------------
(* Instances of SyncEngine for TLC: one or two files, one or two contents. *)
EXTENDS SyncReplica, TLC

CONSTANTS p1, p2, d1, d2, d3, d4, d5, c1, c2

OnePath == {p1}
TwoPaths == {p1, p2}
ThreeDocs == {d1, d2, d3}
FourDocs == {d1, d2, d3, d4}
FiveDocs == {d1, d2, d3, d4, d5}
TwoContents == {c1, c2}
JustOne == {c1}

NoFaults == {}
AllFaults == FaultKind
\* Everything that can go wrong except a deletion by somebody else.
OwnFaults == FaultKind \ {"backoffice"}
GentleFaults == {"unreadable", "ingest"}

Symmetry == Permutations(Paths) \cup Permutations(DocIds)
=============================================================================
