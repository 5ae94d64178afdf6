----------------------------- MODULE MCRecovery -----------------------------
(* Instances of Recovery for TLC: documents are listed in the order of their ids, and c1 and c2 are of one size. *)
EXTENDS Recovery, TLC

CONSTANTS p1, p2, d1, d2, d3, d4, c1, c2, c3

OnePath == {p1}
TwoPaths == {p1, p2}
FourDocs == {d1, d2, d3, d4}
ThreeContents == {c1, c2, c3}
JustOne == {c1}

NoFaults == {}
RecoveryFaults == {"unreadable", "crash", "call", "abort"}

TwoSizes == (c1 :> 1) @@ (c2 :> 1) @@ (c3 :> 2)
OneSize == (c1 :> 1)

InOrderFour == (d1 :> 1) @@ (d2 :> 2) @@ (d3 :> 3) @@ (d4 :> 4)

\* Nothing is a link; p2 leads out of the tree; p1 leads to p2.
NoLinks == {[p \in Paths |-> p]}
AnyLinks == NoLinks \cup {(p1 :> p1) @@ (p2 :> Outside), (p1 :> p2) @@ (p2 :> p2)}
=============================================================================
