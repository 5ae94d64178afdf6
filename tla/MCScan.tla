------------------------------- MODULE MCScan -------------------------------
(* A root with a directory, or without; a link that leads down, up or out of   *)
(* the tree, to a file or nowhere; and every permission on either directory.   *)
EXTENDS Scan, TLC

CONSTANTS r, a, o

TheDirs == {r, a, o}
TheNames == {"x", "y", "f"}

Nothing == [kind |-> "none", link |-> FALSE, to |-> r]
File == [kind |-> "file", link |-> FALSE, to |-> r]
Dir(d) == [kind |-> "dir", link |-> FALSE, to |-> d]
LinkTo(d) == [kind |-> "dir", link |-> TRUE, to |-> d]
FileLink == [kind |-> "file", link |-> TRUE, to |-> r]
Broken == [kind |-> "other", link |-> TRUE, to |-> r]

\* o lies outside the tree and holds one file and a link back.
TheTrees ==
  {[d \in TheDirs |->
      CASE d = r -> [n \in TheNames |-> CASE n = "x" -> Dir(a) [] n = "y" -> top [] OTHER -> File]
        [] d = a -> [n \in TheNames |-> CASE n = "x" -> below [] n = "y" -> File [] OTHER -> file]
        [] d = o -> [n \in TheNames |-> CASE n = "x" -> LinkTo(r) [] n = "y" -> Nothing [] OTHER -> File]] :
     top \in {LinkTo(a), LinkTo(o), FileLink, Broken},
     below \in {LinkTo(r), LinkTo(o), Nothing},
     file \in {File, Nothing}}

ThePermissions ==
  {[d \in TheDirs |-> CASE d = r -> one [] d = a -> two [] OTHER -> {"read", "search"}] :
     one \in SUBSET {"read", "search"}, two \in SUBSET {"read", "search"}}

Anchored(n) == [name |-> n, anyDepth |-> FALSE]
AnyDepth(n) == [name |-> n, anyDepth |-> TRUE]
ThePatterns == {{}, {Anchored("x")}, {AnyDepth("f")}}
TheInclusions == {{}, {Anchored("x")}}
TheRejected == {"y"}
TheRows == {<<"f">>, <<"y">>, <<"x", "f">>, <<"x", "y">>, <<"y", "f">>}
=============================================================================
