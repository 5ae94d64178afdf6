----------------------------- MODULE ScanProofs -----------------------------
(***************************************************************************)
(* The walk, proved for every tree, permission, pattern and filter.         *)
(* Paths have any length, so the lemmas on Lookup and the properties that   *)
(* follow chains of directories need induction over lengths, in the form of *)
(* a set of naturals that holds zero and every successor.                   *)
(***************************************************************************)
EXTENDS Scan, FiniteSetTheorems, SequenceTheorems, WellFoundedInduction, TLAPS

-----------------------------------------------------------------------------
(* Induction *)

\* A set of naturals has a smallest element.
LEMMA SmallestOf ==
  ASSUME NEW T \in SUBSET Nat, T # {}
  PROVE  \E x \in T : \A y \in T : x <= y
<1> DEFINE R == OpToRel(<, Nat)
<1>1. IsWellFoundedOn(R, Nat)
  BY NatLessThanWellFounded
<1>2. \A x, y \in Nat : y < x => <<y, x>> \in R
  BY DEF OpToRel
<1> HIDE DEF R
<1>3. PICK x \in T : \A y \in T : ~(<<y, x>> \in R)
  BY <1>1, WFMin
<1>4. \A y \in T : ~(y < x)
  BY <1>2, <1>3
<1> QED BY <1>4

\* Induction over the naturals, with a set in the place of a predicate.
LEMMA SetInduction ==
  ASSUME NEW S, 0 \in S, \A n \in Nat : n \in S => n + 1 \in S
  PROVE  Nat \subseteq S
<1>1. SUFFICES ASSUME Nat \ S # {} PROVE FALSE
  OBVIOUS
<1>2. PICK x \in Nat \ S : \A y \in Nat \ S : x <= y
  BY <1>1, SmallestOf
<1>3. x # 0 /\ x - 1 \in Nat /\ x - 1 \in S
  BY <1>2
<1> QED BY <1>2, <1>3

\* f starts with a and follows step.
Follows(f, m, a, step) == f[0] = a /\ \A k \in 1..m : f[k] = step[k][f[k - 1]]

\* A function on 0..m is determined by its first value and by what leads from one to the next.
LEMMA RecursionExists ==
  ASSUME NEW m \in Nat, NEW S, NEW a \in S, NEW step \in [1..m -> [S -> S]]
  PROVE  \E f \in [0..m -> S] : Follows(f, m, a, step)
<1> DEFINE N == {k \in Nat : k <= m => \E f \in [0..k -> S] : Follows(f, k, a, step)}
<1>1. 0 \in N
  <2>1. [j \in 0..0 |-> a] \in [0..0 -> S] /\ Follows([j \in 0..0 |-> a], 0, a, step)
    BY DEF Follows
  <2> QED BY <2>1
<1>2. ASSUME NEW k \in Nat, k \in N PROVE k + 1 \in N
  <2>1. SUFFICES ASSUME k + 1 <= m PROVE \E f \in [0..(k + 1) -> S] : Follows(f, k + 1, a, step)
    OBVIOUS
  <2>2. PICK f \in [0..k -> S] : Follows(f, k, a, step)
    BY <1>2, <2>1
  <2> DEFINE g == [j \in 0..(k + 1) |-> IF j <= k THEN f[j] ELSE step[k + 1][f[k]]]
  <2>3. f[k] \in S /\ step[k + 1][f[k]] \in S
    BY <2>1, <2>2 DEF Follows
  <2>4. g \in [0..(k + 1) -> S]
    BY <2>2, <2>3
  <2>5. g[k + 1] = step[k + 1][f[k]] /\ \A j \in 0..k : g[j] = f[j]
    OBVIOUS
  <2> HIDE DEF g
  <2>6. ASSUME NEW j \in 1..(k + 1) PROVE g[j] = step[j][g[j - 1]]
    <3>1. CASE j = k + 1
      <4>1. j - 1 = k /\ k \in 0..k
        BY <3>1
      <4> QED BY <2>5, <3>1, <4>1
    <3>2. CASE j # k + 1
      <4>1. j \in 1..k /\ j \in 0..k /\ j - 1 \in 0..k
        BY <3>2
      <4> QED BY <2>2, <2>5, <4>1 DEF Follows
    <3> QED BY <3>1, <3>2
  <2>7. g[0] = a
    BY <2>2, <2>5 DEF Follows
  <2> QED BY <2>4, <2>6, <2>7 DEF Follows
<1>3. Nat \subseteq N
  <2> HIDE DEF N
  <2> QED BY <1>1, <1>2, SetInduction
<1>4. m \in N
  BY <1>3
<1> QED BY <1>4

-----------------------------------------------------------------------------
(* Paths and what they lead to *)

Found == [kind: Kind \cup {"denied"}, link: BOOLEAN, to: Dirs]
AllPermissions == [Dirs -> SUBSET {"read", "search"}]

LEMMA EnterType ==
  ASSUME NEW t \in Trees, NEW permission \in AllPermissions, NEW above \in Found, NEW n \in Names
  PROVE  Enter(t, permission, above, n) \in Found
<1>1. above.to \in Dirs /\ above.kind \in Kind \cup {"denied"}
  BY DEF Found
<1>2. t[above.to][n] \in Entry
  BY <1>1, ScanAssumption
<1>3. Entry \subseteq Found
  BY DEF Entry, Found, Kind
<1> QED BY <1>1, <1>2, <1>3 DEF Enter, Found, Kind

LEMMA LookupUnfolds ==
  ASSUME NEW t \in Trees, NEW permission \in AllPermissions, NEW path \in Paths
  PROVE  \E at \in [0..Len(path) -> Found] :
           /\ at[0] = TheRoot
           /\ \A k \in 1..Len(path) : at[k] = Enter(t, permission, at[k - 1], path[k])
           /\ Lookup(t, permission, path) = at[Len(path)]
<1> DEFINE m == Len(path)
           step == [k \in 1..m |-> [e \in Found |-> Enter(t, permission, e, path[k])]]
           body(at) == [n \in 0..m |->
                          IF n = 0 THEN TheRoot ELSE Enter(t, permission, at[n - 1], path[n])]
<1>1. m \in Nat /\ \A k \in 1..m : path[k] \in Names
  BY DEF Paths
<1>2. TheRoot \in Found
  BY ScanAssumption DEF TheRoot, Found, Kind
<1>3. step \in [1..m -> [Found -> Found]]
  BY <1>1, EnterType
<1>4. \A k \in 1..m, e \in Found : step[k][e] = Enter(t, permission, e, path[k])
  OBVIOUS
<1> HIDE DEF m, step
<1>5. PICK f \in [0..m -> Found] : Follows(f, m, TheRoot, step)
  BY <1>1, <1>2, <1>3, RecursionExists
<1>6. f = body(f)
  <2>1. \A k \in 1..m : f[k - 1] \in Found /\ f[k] = Enter(t, permission, f[k - 1], path[k])
    BY <1>1, <1>4, <1>5 DEF Follows
  <2>2. \A k \in 0..m : f[k] = body(f)[k]
    BY <1>1, <1>5, <2>1 DEF Follows
  <2>3. f = [n \in 0..m |-> f[n]]
    BY <1>5
  <2> QED BY <2>2, <2>3
<1> DEFINE g == CHOOSE at : at = body(at)
<1>7. g = body(g)
  <2> HIDE DEF body
  <2> QED BY <1>6
<1>8. Lookup(t, permission, path) = g[m]
  BY DEF Lookup, m
<1> HIDE DEF g
<1>9. g[0] = TheRoot /\ \A k \in 1..m : g[k] = Enter(t, permission, g[k - 1], path[k])
  BY <1>1, <1>7
<1>10. g \in [0..m -> Found]
  <2> DEFINE N == {k \in Nat : k <= m => g[k] \in Found}
  <2>1. 0 \in N
    BY <1>2, <1>9
  <2>2. ASSUME NEW k \in Nat, k \in N PROVE k + 1 \in N
    <3>1. SUFFICES ASSUME k + 1 <= m PROVE g[k + 1] \in Found
      OBVIOUS
    <3>2. g[k] \in Found /\ path[k + 1] \in Names /\ g[k + 1] = Enter(t, permission, g[k], path[k + 1])
      BY <1>1, <1>9, <2>2, <3>1
    <3> QED BY <3>2, EnterType
  <2>3. Nat \subseteq N
    <3> HIDE DEF N
    <3> QED BY <2>1, <2>2, SetInduction
  <2>4. \A k \in 0..m : g[k] \in Found
    BY <1>1, <2>3
  <2> QED BY <1>7, <2>4
<1> QED BY <1>8, <1>9, <1>10 DEF m

\* The root.
LEMMA LookupRoot ==
  ASSUME NEW t \in Trees, NEW permission \in AllPermissions
  PROVE  Lookup(t, permission, <<>>) = TheRoot
<1>1. <<>> \in Paths /\ Len(<<>>) = 0
  BY DEF Paths
<1> QED BY <1>1, LookupUnfolds

LEMMA LookupType ==
  ASSUME NEW t \in Trees, NEW permission \in AllPermissions, NEW path \in Paths
  PROVE  Lookup(t, permission, path) \in Found
<1>1. Len(path) \in 0..Len(path)
  BY DEF Paths
<1> QED BY <1>1, LookupUnfolds

\* One name further.
LEMMA LookupAppend ==
  ASSUME NEW t \in Trees, NEW permission \in AllPermissions, NEW path \in Paths, NEW n \in Names
  PROVE  /\ Append(path, n) \in Paths
         /\ Lookup(t, permission, Append(path, n)) = Enter(t, permission, Lookup(t, permission, path), n)
<1> DEFINE m == Len(path)  rel == Append(path, n)
<1>1. /\ m \in Nat /\ rel \in Paths /\ Len(rel) = m + 1
      /\ \A k \in 1..m : rel[k] = path[k]
      /\ rel[m + 1] = n
  BY DEF Paths
<1>2. PICK f \in [0..m -> Found] :
        /\ f[0] = TheRoot
        /\ \A k \in 1..m : f[k] = Enter(t, permission, f[k - 1], path[k])
        /\ Lookup(t, permission, path) = f[m]
  BY LookupUnfolds
<1>3. PICK g \in [0..Len(rel) -> Found] :
        /\ g[0] = TheRoot
        /\ \A k \in 1..Len(rel) : g[k] = Enter(t, permission, g[k - 1], rel[k])
        /\ Lookup(t, permission, rel) = g[Len(rel)]
  BY <1>1, LookupUnfolds
<1> HIDE DEF rel, m
<1> DEFINE N == {k \in Nat : k <= m => f[k] = g[k]}
<1>4. 0 \in N
  BY <1>2, <1>3
<1>5. ASSUME NEW k \in Nat, k \in N PROVE k + 1 \in N
  BY <1>1, <1>2, <1>3, <1>5
<1>6. Nat \subseteq N
  <2> HIDE DEF N
  <2> QED BY <1>4, <1>5, SetInduction
<1>7. f[m] = g[m]
  BY <1>1, <1>6
<1>8. Lookup(t, permission, rel) = Enter(t, permission, g[m], n)
  BY <1>1, <1>3
<1> QED BY <1>1, <1>2, <1>7, <1>8 DEF rel

\* Permissions only hide: what may be looked at is what is there.
LEMMA PermissionsHide ==
  ASSUME NEW t \in Trees, NEW permission \in AllPermissions, NEW path \in Paths,
         Lookup(t, permission, path).kind # "denied"
  PROVE  Lookup(t, FullPermission, path) = Lookup(t, permission, path)
<1> DEFINE m == Len(path)
<1>1. m \in Nat /\ FullPermission \in AllPermissions
  BY DEF Paths, FullPermission, AllPermissions
<1>2. PICK f \in [0..m -> Found] :
        /\ f[0] = TheRoot
        /\ \A k \in 1..m : f[k] = Enter(t, permission, f[k - 1], path[k])
        /\ Lookup(t, permission, path) = f[m]
  BY LookupUnfolds
<1>3. PICK g \in [0..m -> Found] :
        /\ g[0] = TheRoot
        /\ \A k \in 1..m : g[k] = Enter(t, FullPermission, g[k - 1], path[k])
        /\ Lookup(t, FullPermission, path) = g[m]
  BY <1>1, LookupUnfolds
<1> HIDE DEF m
<1> DEFINE N == {k \in Nat : k <= m /\ f[k].kind # "denied" => g[k] = f[k]}
<1>4. 0 \in N
  BY <1>2, <1>3
<1>5. ASSUME NEW k \in Nat, k \in N PROVE k + 1 \in N
  <2>1. SUFFICES ASSUME k + 1 <= m, f[k + 1].kind # "denied" PROVE g[k + 1] = f[k + 1]
    OBVIOUS
  <2>2. /\ k \in 0..m /\ f[k] \in Found
        /\ f[k + 1] = Enter(t, permission, f[k], path[k + 1])
        /\ g[k + 1] = Enter(t, FullPermission, g[k], path[k + 1])
    BY <1>1, <1>2, <1>3, <2>1
  <2>3. f[k].kind = "dir" => "search" \in permission[f[k].to]
    BY <2>1, <2>2 DEF Enter, Found
  <2>4. f[k].kind # "denied"
    BY <2>1, <2>2 DEF Enter, Found
  <2>5. g[k] = f[k]
    BY <1>1, <1>5, <2>1, <2>4
  <2>6. f[k].to \in Dirs /\ "search" \in FullPermission[f[k].to]
    BY <2>2 DEF FullPermission, Found
  <2> QED BY <2>2, <2>3, <2>5, <2>6 DEF Enter
<1>6. Nat \subseteq N
  <2> HIDE DEF N
  <2> QED BY <1>4, <1>5, SetInduction
<1>7. g[m] = f[m]
  BY <1>1, <1>2, <1>6
<1> QED BY <1>2, <1>3, <1>7

-----------------------------------------------------------------------------
(* The file system of a run *)

LEMMA Configured ==
  ASSUME ScanTypeOK
  PROVE  tree \in Trees /\ tree \in [Dirs -> [Names -> Entry]] /\ perm \in AllPermissions
BY ScanAssumption DEF ScanTypeOK, AllPermissions

LEMMA RootIsRoot ==
  ASSUME ScanTypeOK
  PROVE  <<>> \in Paths /\ Directory(<<>>) = Root /\ CanStat(<<>>)
BY Configured, LookupRoot DEF Directory, CanStat, TheRoot, Paths

LEMMA DirectoryType ==
  ASSUME ScanTypeOK, NEW path \in Paths
  PROVE  Directory(path) \in Dirs
BY Configured, LookupType DEF Directory, Found

\* What a path that may be looked at leads to is what its directory says.
LEMMA OneNameFurther ==
  ASSUME ScanTypeOK, NEW path \in Paths, NEW n \in Names, CanStat(path),
         CanInspect(Append(path, n))
  PROVE  Lookup(tree, perm, Append(path, n)) = tree[Directory(path)][n]
<1>1. Lookup(tree, perm, Append(path, n)) = Enter(tree, perm, Lookup(tree, perm, path), n)
  BY Configured, LookupAppend
<1>2. Lookup(tree, perm, path) \in Found
  BY Configured, LookupType
<1> QED BY <1>1, <1>2 DEF Enter, Found, CanStat, CanInspect, Directory

\* It does not matter by which path a directory was reached.
LEMMA SameDirectory ==
  ASSUME ScanTypeOK, NEW p \in Paths, NEW q \in Paths, NEW n \in Names,
         CanStat(p), CanStat(q), Directory(p) = Directory(q), CanRead(Append(p, n))
  PROVE  CanRead(Append(q, n)) /\ Directory(Append(q, n)) = Directory(Append(p, n))
<1>1. /\ Lookup(tree, perm, Append(p, n)) = Enter(tree, perm, Lookup(tree, perm, p), n)
      /\ Lookup(tree, perm, Append(q, n)) = Enter(tree, perm, Lookup(tree, perm, q), n)
  BY Configured, LookupAppend
<1>2. Lookup(tree, perm, p) \in Found /\ Lookup(tree, perm, q) \in Found
  BY Configured, LookupType
<1>3. Lookup(tree, perm, Append(p, n)).kind = "dir"
  BY DEF CanRead, CanStat
<1>4. "search" \in perm[Directory(p)]
  BY <1>1, <1>2, <1>3 DEF Enter, Found, CanStat, Directory
<1>5. Lookup(tree, perm, Append(q, n)) = Lookup(tree, perm, Append(p, n))
  BY <1>1, <1>4 DEF Enter, CanStat, Directory
<1> QED BY <1>5 DEF CanRead, CanStat, Directory

\* What the tree, the permissions and the options decide stays as it is.
LEMMA Unmoved ==
  ASSUME UNCHANGED configuration
  PROVE  /\ \A path : Directory(path)' = Directory(path)
         /\ \A path : CanStat(path)' <=> CanStat(path)
         /\ \A path : CanRead(path)' <=> CanRead(path)
         /\ \A path : CanInspect(path)' <=> CanInspect(path)
         /\ \A path : Excluded(path)' <=> Excluded(path)
         /\ \A path : Included(path)' <=> Included(path)
         /\ \A e : Seen(e)' = Seen(e)
<1>1. tree' = tree /\ perm' = perm /\ follow' = follow /\ exclude' = exclude /\ include' = include
  BY DEF configuration
<1> QED BY <1>1 DEF Directory, CanStat, CanRead, CanInspect, Excluded, Included, Seen

LEMMA DutiesUnmoved ==
  ASSUME UNCHANGED configuration
  PROVE  /\ \A path, n : Descends(path, n)' <=> Descends(path, n)
         /\ \A path : Holds(path)' = Holds(path)
<1>1. tree' = tree /\ follow' = follow
  BY DEF configuration
<1>2. \A path, n : Descends(path, n)' <=> Descends(path, n)
  BY <1>1, Unmoved DEF Descends
<1>3. ASSUME NEW path PROVE Holds(path)' = Holds(path)
  BY <1>1, Unmoved DEF Holds
<1> QED BY <1>2, <1>3

\* The files of a directory, name by name.
LEMMA HoldsByName ==
  ASSUME NEW path \in Paths, NEW n \in Names
  PROVE  Append(path, n) \in Holds(path) <=>
           LET e == tree[Directory(path)][n]  rel == Append(path, n) IN
           /\ e.kind = "file" /\ (e.link => follow)
           /\ CanInspect(rel) /\ Included(rel) /\ ~Excluded(rel)
<1>1. \A m \in Names : Append(path, m) = Append(path, n) => m = n
  BY DEF Paths
<1> QED BY <1>1 DEF Holds

-----------------------------------------------------------------------------
(* The first state *)

LEMMA ScanInit_Inv == ScanInit => ScanInv
<1> SUFFICES ASSUME ScanInit PROVE ScanInv
  OBVIOUS
<1>1. ScanTypeOK
  BY DEF ScanInit, ScanTypeOK, Paths
<1>2. Waiting = {<<>>}
  BY DEF ScanInit, Waiting
<1> QED
  BY <1>1, <1>2 DEF ScanInit, ScanInv, OneAtATime, Connected, WasFound, ReadableOnly,
                    KnowsWhatItRead, ListedOnce, RootFirst, NothingLost, NothingInvented, PlanStands

-----------------------------------------------------------------------------
(* Taking a directory off the stack *)

\* What is left on the stack.
LEMMA Popped ==
  ASSUME ScanTypeOK, stack # <<>>
  PROVE  /\ Last(stack) \in Paths /\ Last(stack) \in Waiting
         /\ Front(stack) \in Seq(Paths)
         /\ stack' = Front(stack) => Waiting' \subseteq Waiting
         /\ stack' = Front(stack) => Waiting \subseteq Waiting' \cup {Last(stack)}
<1>1. /\ Len(stack) \in Nat \ {0}
      /\ Front(stack) \in Seq(Paths) /\ Len(Front(stack)) = Len(stack) - 1
      /\ \A i \in 1..(Len(stack) - 1) : Front(stack)[i] = stack[i]
      /\ \A i \in 1..Len(stack) : stack[i] \in Paths
  <2>1. stack \in Seq(Paths) /\ Len(stack) \in Nat \ {0}
    BY EmptySeq DEF ScanTypeOK
  <2>2. \A i \in 1..Len(stack) : stack[i] \in Paths
    BY <2>1, ElementOfSeq
  <2> HIDE DEF Front
  <2>3. Front(stack) = SubSeq(stack, 1, Len(stack) - 1)
    BY DEF Front
  <2> DEFINE k == Len(stack) - 1
  <2>4. /\ 1 \in Int /\ k \in Int /\ k \in Nat /\ k + 1 = Len(stack)
        /\ \A i \in 1..k : stack[i] \in Paths
    BY <2>1, <2>2
  <2> HIDE DEF k
  <2>5. SubSeq(stack, 1, k) \in Seq(Paths)
    BY <2>4, SubSeqProperties, Zenon
  <2>6. Len(SubSeq(stack, 1, k)) = IF 1 <= k THEN k - 1 + 1 ELSE 0
    BY <2>4, SubSeqProperties
  <2>7. \A i \in 1..k : SubSeq(stack, 1, k)[i] = stack[i]
    BY <2>1, <2>4
  <2>8. Len(SubSeq(stack, 1, k)) = k
    BY <2>4, <2>6
  <2> QED BY <2>1, <2>2, <2>3, <2>5, <2>7, <2>8 DEF k
<1>2. Len(stack) \in 1..Len(stack) /\ Last(stack) = stack[Len(stack)]
  BY <1>1 DEF Last
<1>3. ASSUME stack' = Front(stack)
      PROVE  Waiting' \subseteq Waiting /\ Waiting \subseteq Waiting' \cup {Last(stack)}
  <2>1. Waiting' = {stack[i] : i \in 1..(Len(stack) - 1)}
    BY <1>1, <1>3 DEF Waiting
  <2>2. Waiting = {stack[i] : i \in 1..Len(stack)}
    BY DEF Waiting
  <2>3. \A i \in 1..Len(stack) : i \in 1..(Len(stack) - 1) \/ stack[i] = Last(stack)
    BY <1>1, <1>2
  <2>4. 1..(Len(stack) - 1) \subseteq 1..Len(stack)
    BY <1>1
  <2> HIDE DEF Waiting
  <2> QED BY <2>1, <2>2, <2>3, <2>4
<1> QED BY <1>1, <1>2, <1>3 DEF Waiting

\* What was found stays found as more directories are read.
LEMMA FoundStays ==
  ASSUME UNCHANGED configuration, listed \subseteq listed', NEW path, WasFound(path)
  PROVE  WasFound(path)'
<1>1. tree' = tree
  BY DEF configuration
<1> QED BY <1>1, Unmoved DEF WasFound

LEMMA EnteredStays ==
  ASSUME UNCHANGED configuration, listed \subseteq listed', NEW path, Entered(path)
  PROVE  Entered(path)'
<1>1. follow' = follow
  BY DEF configuration
<1> QED BY <1>1, Unmoved DEF Entered

LEMMA PopKeepsInv ==
  ASSUME ScanInv, Pop
  PROVE  ScanInv'
<1> DEFINE path == Last(stack)  d == Directory(path)
<1>1. /\ UNCHANGED configuration /\ UNCHANGED <<pc, seen, skipped, kept, doomed>>
      /\ pc = "walking" /\ here = {} /\ stack # <<>> /\ stack' = Front(stack)
      /\ visited' = IF follow /\ CanStat(path) THEN visited \cup {d} ELSE visited
      /\ IF CanRead(path) /\ ~Met(path)
         THEN /\ here' = {path}
              /\ left' = {n \in Names : tree[d][n].kind # "none"}
              /\ listed' = listed \cup {path}
         ELSE UNCHANGED <<here, left, listed>>
  BY DEF Pop, Rest, result
<1>2. /\ tree' = tree /\ perm' = perm /\ follow' = follow /\ exclude' = exclude
      /\ include' = include
      /\ listed \subseteq listed' /\ listed' \subseteq listed \cup {path}
      /\ path \in listed' => CanRead(path) \/ path \in listed
  BY <1>1 DEF configuration
<1>3. /\ ScanTypeOK /\ Connected /\ ReadableOnly /\ KnowsWhatItRead /\ RootFirst
      /\ NothingLost /\ NothingInvented /\ PlanStands
  BY DEF ScanInv
<1>4. /\ path \in Paths /\ path \in Waiting /\ Front(stack) \in Seq(Paths)
      /\ Waiting' \subseteq Waiting /\ Waiting \subseteq Waiting' \cup {path}
  BY <1>1, <1>3, Popped
<1>5. d \in Dirs
  BY <1>3, <1>4, DirectoryType
<1>6. CanRead(path) <=> CanStat(path) /\ "read" \in perm[d]
  BY DEF CanRead
<1>7. Met(path) <=> follow /\ d \in visited
  BY DEF Met
<1> HIDE DEF path, d
<1>8. ScanTypeOK'
  BY <1>1, <1>2, <1>3, <1>4, <1>5 DEF ScanTypeOK
<1>9. OneAtATime'
  BY <1>1 DEF OneAtATime
<1>10. Connected'
  BY <1>1, <1>2, <1>3, <1>4, FoundStays DEF Connected
<1>11. ReadableOnly'
  BY <1>1, <1>2, <1>3, Unmoved DEF ReadableOnly
<1>12. KnowsWhatItRead'
  <2>1. SUFFICES ASSUME follow
                 PROVE  /\ ListedOnce'
                        /\ \A p \in listed' : Directory(p) \in visited'
                        /\ \A c \in visited' : "read" \in perm[c] => \E q \in listed' : Directory(q) = c
    BY <1>1, <1>2, Unmoved DEF KnowsWhatItRead
  <2>2. /\ ListedOnce
        /\ \A p \in listed : Directory(p) \in visited
        /\ \A c \in visited : "read" \in perm[c] => \E q \in listed : Directory(q) = c
    BY <1>3, <2>1 DEF KnowsWhatItRead
  <2>3. CASE CanRead(path) /\ ~Met(path)
    <3>1. d \notin visited /\ visited' = visited \cup {d} /\ listed' = listed \cup {path}
      BY <1>1, <1>6, <1>7, <2>1, <2>3
    <3>2. ListedOnce'
      BY <1>1, <2>2, <3>1, Unmoved DEF ListedOnce, d
    <3> QED BY <2>2, <3>1, <3>2 DEF d
  <2>4. CASE ~(CanRead(path) /\ ~Met(path))
    <3>1. listed' = listed /\ visited \subseteq visited' /\ visited' \subseteq visited \cup {d}
      BY <1>1, <2>4
    <3>2. "read" \in perm[d] /\ d \in visited' => d \in visited
      BY <1>1, <1>6, <1>7, <2>4
    <3>3. ListedOnce'
      BY <1>1, <2>2, <3>1, Unmoved DEF ListedOnce
    <3> QED BY <2>2, <3>1, <3>2, <3>3
  <2> QED BY <2>3, <2>4
<1>13. RootFirst'
  <2>1. CASE listed = {} /\ visited = {} /\ stack = << <<>> >>
    <3>1. path = <<>>
      BY <2>1 DEF path, Last
    <3>2. CanRead(<<>>) => <<>> \in listed'
      BY <1>1, <1>7, <2>1, <3>1
    <3> QED BY <1>1, <3>2, Unmoved DEF RootFirst
  <2>2. CASE CanRead(<<>>) => <<>> \in listed
    BY <1>1, <1>2, <2>2, Unmoved DEF RootFirst
  <2> QED BY <1>3, <2>1, <2>2 DEF RootFirst
<1>14. NothingLost'
  <2>1. ASSUME NEW p \in listed', NEW n \in Names, ~(p \in here' /\ n \in left')
        PROVE  LookedAt(p, n)'
    <3> DEFINE rel == Append(p, n)
    <3>1. CASE p \in listed
      <4>1. LookedAt(p, n)
        BY <1>1, <1>3, <3>1 DEF NothingLost
      <4>2. ASSUME Descends(p, n) PROVE rel \in Waiting' \/ Entered(rel)'
        <5>1. CASE Entered(rel)
          BY <1>1, <1>2, <5>1, EnteredStays
        <5>2. CASE rel \in Waiting /\ rel # path
          BY <1>4, <5>2
        <5>3. CASE rel = path
          <6>1. CanRead(path)
            BY <4>2, <5>3 DEF Descends
          <6>2. CASE Met(path)
            <7>1. PICK q \in listed : Directory(q) = d
              BY <1>3, <1>6, <1>7, <6>1, <6>2 DEF KnowsWhatItRead
            <7>2. Entered(rel)
              BY <1>7, <5>3, <6>2, <7>1 DEF Entered, d
            <7> QED BY <1>1, <1>2, <7>2, EnteredStays
          <6>3. CASE ~Met(path)
            <7>1. path \in listed'
              BY <1>1, <6>1, <6>3
            <7> QED BY <5>3, <7>1 DEF Entered
          <6> QED BY <6>2, <6>3
        <5> QED BY <4>1, <4>2, <5>1, <5>2, <5>3 DEF LookedAt
      <4>3. rel \in Holds(p) => rel \in seen \cup skipped
        BY <4>1 DEF LookedAt
      <4> HIDE DEF rel
      <4> QED BY <1>1, <4>2, <4>3, DutiesUnmoved DEF LookedAt, rel
    <3>2. CASE p \notin listed
      <4>1. p = path /\ here' = {path} /\ left' = {m \in Names : tree[d][m].kind # "none"}
        BY <1>1, <1>2, <3>2
      <4>2. tree[Directory(p)][n].kind = "none"
        BY <2>1, <4>1 DEF d
      <4>3. ~Descends(p, n)
        BY <4>2 DEF Descends
      <4>4. rel \notin Holds(p)
        BY <1>4, <4>1, <4>2, HoldsByName
      <4> HIDE DEF rel
      <4> QED BY <1>1, <4>3, <4>4, DutiesUnmoved DEF LookedAt, rel
    <3> QED BY <3>1, <3>2
  <2> QED BY <2>1 DEF NothingLost
<1>15. NothingInvented'
  BY <1>1, <1>2, <1>3, DutiesUnmoved DEF NothingInvented
<1>16. PlanStands'
  BY <1>1, <1>3 DEF PlanStands
<1> QED BY <1>8, <1>9, <1>10, <1>11, <1>12, <1>13, <1>14, <1>15, <1>16 DEF ScanInv

-----------------------------------------------------------------------------
(* Looking at an entry *)

LEMMA LookKeepsInv ==
  ASSUME ScanInv, NEW path \in here, NEW n \in Names, Look(path, n)
  PROVE  ScanInv'
<1> DEFINE rel == Append(path, n)
           e == tree[Directory(path)][n]
           offered == ~Excluded(rel) /\ (e.link /\ follow => CanInspect(rel))
           yielded == offered /\ Seen(e) = "file" /\ Included(rel) /\ CanInspect(rel)
<1>1. /\ UNCHANGED configuration /\ UNCHANGED <<pc, visited, here, listed, kept, doomed>>
      /\ here = {path} /\ n \in left /\ left' = left \ {n}
      /\ stack' = IF offered /\ Seen(e) = "dir" THEN Append(stack, rel) ELSE stack
      /\ seen' = IF yielded /\ Passes(n) THEN seen \cup {rel} ELSE seen
      /\ skipped' = IF yielded /\ ~Passes(n) THEN skipped \cup {rel} ELSE skipped
  BY DEF Look
<1>2. /\ tree' = tree /\ perm' = perm /\ follow' = follow /\ exclude' = exclude
      /\ include' = include
  BY <1>1 DEF configuration
<1>3. /\ ScanTypeOK /\ OneAtATime /\ Connected /\ ReadableOnly /\ KnowsWhatItRead
      /\ RootFirst /\ NothingLost /\ NothingInvented /\ PlanStands
  BY DEF ScanInv
<1>4. path \in listed /\ path \in Paths /\ rel \in Paths
  <2>1. path \in listed
    BY <1>3 DEF OneAtATime
  <2>2. path \in Paths
    BY <1>3, <2>1 DEF ScanTypeOK
  <2> QED BY <2>1, <2>2 DEF Paths
<1>5. /\ Descends(path, n) => offered /\ Seen(e) = "dir"
      /\ rel \in Holds(path) <=> yielded
  <2>1. Descends(path, n) => offered /\ Seen(e) = "dir"
    BY DEF Descends, CanRead, CanStat, CanInspect, Seen
  <2>2. rel \in Holds(path) <=>
          /\ e.kind = "file" /\ (e.link => follow)
          /\ CanInspect(rel) /\ Included(rel) /\ ~Excluded(rel)
    BY <1>4, HoldsByName
  <2> QED BY <2>1, <2>2 DEF Seen
<1>6. Seen(e) = "dir" /\ offered => WasFound(rel)
  BY <1>4 DEF WasFound
<1> HIDE DEF offered, yielded, rel, e
<1>7. /\ stack' \in Seq(Paths) /\ Waiting \subseteq Waiting'
      /\ offered /\ Seen(e) = "dir" => rel \in Waiting'
      /\ \A x \in Waiting' : x \in Waiting \/ (x = rel /\ WasFound(rel))
  <2>1. CASE offered /\ Seen(e) = "dir"
    <3>1. stack' = Append(stack, rel) /\ stack \in Seq(Paths)
      BY <1>1, <1>3, <2>1 DEF ScanTypeOK
    <3>2. /\ Len(stack) \in Nat /\ Len(stack') = Len(stack) + 1 /\ stack' \in Seq(Paths)
          /\ \A i \in 1..Len(stack) : stack'[i] = stack[i]
          /\ stack'[Len(stack) + 1] = rel
      BY <1>4, <3>1
    <3>3. Waiting = {stack[i] : i \in 1..Len(stack)}
      BY DEF Waiting
    <3>4. Waiting' = {stack'[i] : i \in 1..(Len(stack) + 1)}
      BY <3>2 DEF Waiting
    <3> HIDE DEF Waiting
    <3>5. \A i \in 1..(Len(stack) + 1) : i \in 1..Len(stack) \/ i = Len(stack) + 1
      BY <3>2
    <3>6. Len(stack) + 1 \in 1..(Len(stack) + 1) /\ 1..Len(stack) \subseteq 1..(Len(stack) + 1)
      BY <3>2
    <3> QED BY <1>6, <2>1, <3>2, <3>3, <3>4, <3>5, <3>6
  <2>2. CASE ~(offered /\ Seen(e) = "dir")
    <3>1. stack' = stack /\ stack \in Seq(Paths)
      BY <1>1, <1>3, <2>2 DEF ScanTypeOK
    <3>2. Waiting' = Waiting
      BY <3>1 DEF Waiting
    <3> HIDE DEF Waiting
    <3>3. offered /\ Seen(e) = "dir" => rel \in Waiting'
      BY <2>2
    <3> QED BY <3>1, <3>2, <3>3
  <2> QED BY <2>1, <2>2
<1>8. ScanTypeOK'
  BY <1>1, <1>2, <1>3, <1>4, <1>7 DEF ScanTypeOK
<1>9. OneAtATime'
  <2>1. pc = "walking"
    BY <1>1, <1>3 DEF OneAtATime
  <2> QED BY <1>1, <1>4, <2>1 DEF OneAtATime
<1>10. Connected'
  BY <1>1, <1>2, <1>3, <1>7, FoundStays DEF Connected
<1>11. ReadableOnly'
  BY <1>1, <1>3, Unmoved DEF ReadableOnly
<1>12. KnowsWhatItRead'
  BY <1>1, <1>2, <1>3, Unmoved DEF KnowsWhatItRead, ListedOnce
<1>13. RootFirst'
  BY <1>1, <1>3, <1>4, Unmoved DEF RootFirst
<1>14. NothingLost'
  <2>1. ASSUME NEW p \in listed', NEW m \in Names, ~(p \in here' /\ m \in left')
        PROVE  LookedAt(p, m)'
    <3> DEFINE at == Append(p, m)
    <3>1. /\ Descends(p, m) => at \in Waiting' \/ Entered(at)
          /\ at \in Holds(p) => at \in seen' \cup skipped'
      <4>1. CASE p = path /\ m = n
        BY <1>1, <1>5, <1>7, <4>1 DEF rel, yielded
      <4>2. CASE ~(p = path /\ m = n)
        <5>1. LookedAt(p, m)
          BY <1>1, <1>3, <2>1, <4>2 DEF NothingLost
        <5> QED BY <1>1, <1>7, <5>1 DEF LookedAt
      <4> QED BY <4>1, <4>2
    <3>2. Entered(at) => Entered(at)'
      BY <1>1, EnteredStays
    <3> HIDE DEF at
    <3> QED BY <1>1, <3>1, <3>2, DutiesUnmoved DEF LookedAt, at
  <2> QED BY <2>1 DEF NothingLost
<1>15. NothingInvented'
  <2>1. \A x \in seen' \cup skipped' : x \in seen \cup skipped \/ (x = rel /\ yielded)
    BY <1>1
  <2> QED BY <1>1, <1>3, <1>4, <1>5, <2>1, DutiesUnmoved DEF NothingInvented
<1>16. PlanStands'
  <2>1. pc = "walking"
    BY <1>1, <1>3 DEF OneAtATime
  <2> QED BY <1>1, <1>3, <2>1 DEF PlanStands
<1> QED BY <1>8, <1>9, <1>10, <1>11, <1>12, <1>13, <1>14, <1>15, <1>16 DEF ScanInv

-----------------------------------------------------------------------------
(* The steps that leave the walk as it is *)

LEMMA WalkUntouched ==
  ASSUME ScanInv, UNCHANGED configuration, here = {} \/ left = {},
         UNCHANGED <<stack, visited, left, listed, seen, skipped>>, here' = {}
  PROVE  /\ (pc' \in {"walking", "deleting", "planned", "raised"}) => ScanTypeOK'
         /\ Connected' /\ ReadableOnly' /\ KnowsWhatItRead' /\ RootFirst'
         /\ NothingLost' /\ NothingInvented'
<1>1. /\ tree' = tree /\ perm' = perm /\ follow' = follow /\ exclude' = exclude
      /\ include' = include
  BY DEF configuration
<1>2. /\ ScanTypeOK /\ Connected /\ ReadableOnly /\ KnowsWhatItRead /\ RootFirst
      /\ NothingLost /\ NothingInvented
  BY DEF ScanInv
<1>3. (pc' \in {"walking", "deleting", "planned", "raised"}) => ScanTypeOK'
  BY <1>1, <1>2 DEF ScanTypeOK
<1>4. Waiting' = Waiting
  BY DEF Waiting
<1>5. Connected'
  BY <1>2, <1>4, FoundStays DEF Connected
<1>6. ReadableOnly' /\ RootFirst'
  BY <1>2, Unmoved DEF ReadableOnly, RootFirst
<1>7. KnowsWhatItRead'
  BY <1>1, <1>2, Unmoved DEF KnowsWhatItRead, ListedOnce
<1>8. NothingLost'
  <2>1. ASSUME NEW p \in listed, NEW n \in Names PROVE LookedAt(p, n)'
    <3>1. LookedAt(p, n)
      BY <1>2 DEF NothingLost
    <3>2. Entered(Append(p, n)) => Entered(Append(p, n))'
      BY EnteredStays
    <3> QED BY <1>4, <3>1, <3>2, DutiesUnmoved DEF LookedAt
  <2> QED BY <2>1 DEF NothingLost
<1>9. NothingInvented'
  BY <1>2, DutiesUnmoved DEF NothingInvented
<1> QED BY <1>3, <1>5, <1>6, <1>7, <1>8, <1>9

LEMMA CloseKeepsInv ==
  ASSUME ScanInv, Close
  PROVE  ScanInv'
<1>1. /\ UNCHANGED configuration /\ here' = {} /\ left = {} /\ here # {}
      /\ UNCHANGED <<pc, stack, visited, left, listed, seen, skipped, kept, doomed>>
  BY DEF Close, result
<1>2. ScanTypeOK /\ OneAtATime /\ PlanStands
  BY DEF ScanInv
<1>3. pc = "walking"
  BY <1>1, <1>2 DEF OneAtATime
<1>4. OneAtATime' /\ PlanStands'
  BY <1>1, <1>2, <1>3 DEF OneAtATime, PlanStands
<1> QED BY <1>1, <1>3, <1>4, WalkUntouched DEF ScanInv

LEMMA FinishWalkKeepsInv ==
  ASSUME ScanInv, FinishWalk
  PROVE  ScanInv'
<1>1. /\ UNCHANGED configuration /\ here' = {} /\ here = {} /\ stack = <<>> /\ pc' = "deleting"
      /\ UNCHANGED <<stack, visited, left, listed, seen, skipped, kept, doomed>>
      /\ pc = "walking"
  BY DEF FinishWalk, result
<1>2. OneAtATime /\ PlanStands
  BY DEF ScanInv
<1>3. OneAtATime' /\ PlanStands'
  BY <1>1, <1>2 DEF OneAtATime, PlanStands
<1> QED BY <1>1, <1>3, WalkUntouched DEF ScanInv

\* Where it can be told whether a file exists, it is told rightly.
LEMMA ExistsIsTrue ==
  ASSUME ScanTypeOK, NEW path \in Recorded, ~CannotTell(path)
  PROVE  Exists(path) <=> ReallyThere(path)
<1>1. path \in Paths
  BY ScanAssumption DEF Paths
<1>2. Lookup(tree, FullPermission, path) = Lookup(tree, perm, path)
  BY <1>1, Configured, PermissionsHide DEF CannotTell
<1> QED BY <1>2 DEF Exists, ReallyThere, CannotTell

LEMMA PlanDeletionsKeepsInv ==
  ASSUME ScanInv, PlanDeletions
  PROVE  ScanInv'
<1> DEFINE unmet == Recorded \ seen
<1>1. /\ UNCHANGED configuration /\ pc = "deleting"
      /\ UNCHANGED <<stack, visited, here, left, listed, seen, skipped>>
      /\ IF \E path \in unmet : CannotTell(path)
         THEN pc' = "raised" /\ UNCHANGED <<kept, doomed>>
         ELSE /\ pc' = "planned"
              /\ kept' = {path \in unmet : Exists(path)}
              /\ doomed' = unmet \ kept'
  BY DEF PlanDeletions
<1>2. ScanTypeOK /\ OneAtATime /\ PlanStands
  BY DEF ScanInv
<1>3. here = {} /\ here' = {} /\ stack' = <<>>
  BY <1>1, <1>2 DEF OneAtATime
<1>4. PlanStands'
  <2>1. CASE \E path \in unmet : CannotTell(path)
    BY <1>1, <1>2, <2>1 DEF PlanStands
  <2>2. CASE ~(\E path \in unmet : CannotTell(path))
    <3>1. \A path \in unmet : Exists(path) <=> ReallyThere(path)
      BY <1>2, <2>2, ExistsIsTrue
    <3>2. doomed' = {path \in unmet : ~ReallyThere(path)} /\ pc' = "planned"
      BY <1>1, <2>2, <3>1
    <3>3. \A path : ReallyThere(path)' <=> ReallyThere(path)
      BY <1>1 DEF ReallyThere, configuration
    <3> QED BY <1>1, <3>2, <3>3 DEF PlanStands
  <2> QED BY <2>1, <2>2
<1>5. OneAtATime'
  BY <1>3 DEF OneAtATime
<1> QED BY <1>1, <1>3, <1>4, <1>5, WalkUntouched DEF ScanInv

LEMMA ScanStutterKeepsInv ==
  ASSUME ScanInv, UNCHANGED scanVars
  PROVE  ScanInv'
<1>1. /\ UNCHANGED configuration /\ UNCHANGED <<tree, perm, follow, exclude, include>>
      /\ UNCHANGED <<pc, stack, visited, here, left, listed, seen, skipped, kept, doomed>>
  BY DEF scanVars, configuration
<1>2. Waiting' = Waiting
  BY <1>1 DEF Waiting
<1>3. ScanTypeOK' /\ OneAtATime'
  BY <1>1 DEF ScanInv, ScanTypeOK, OneAtATime
<1>4. Connected' /\ ReadableOnly' /\ RootFirst'
  BY <1>1, <1>2, FoundStays, Unmoved DEF ScanInv, Connected, ReadableOnly, RootFirst
<1>5. KnowsWhatItRead'
  BY <1>1, Unmoved DEF ScanInv, KnowsWhatItRead, ListedOnce
<1>6. NothingLost'
  <2>1. ASSUME NEW p \in listed, NEW n \in Names, LookedAt(p, n) PROVE LookedAt(p, n)'
    <3>1. Entered(Append(p, n)) => Entered(Append(p, n))'
      BY <1>1, EnteredStays
    <3> QED BY <1>1, <1>2, <2>1, <3>1, DutiesUnmoved DEF LookedAt
  <2> QED BY <1>1, <2>1 DEF ScanInv, NothingLost
<1>7. NothingInvented'
  BY <1>1, DutiesUnmoved DEF ScanInv, NothingInvented
<1>8. PlanStands'
  <2>1. \A path : ReallyThere(path)' <=> ReallyThere(path)
    BY <1>1 DEF ReallyThere
  <2> QED BY <1>1, <2>1 DEF ScanInv, PlanStands
<1> QED BY <1>3, <1>4, <1>5, <1>6, <1>7, <1>8 DEF ScanInv

\* In every reachable state the walk has lost nothing and invented nothing.
THEOREM ScanInvAlways == ScanSpec => []ScanInv
<1>1. ScanInv /\ [ScanNext]_scanVars => ScanInv'
  <2> SUFFICES ASSUME ScanInv, [ScanNext]_scanVars PROVE ScanInv'
    OBVIOUS
  <2> QED
    BY PopKeepsInv, LookKeepsInv, CloseKeepsInv, FinishWalkKeepsInv, PlanDeletionsKeepsInv,
       ScanStutterKeepsInv DEF ScanNext, Done
<1> QED BY <1>1, ScanInit_Inv, PTL DEF ScanSpec

-----------------------------------------------------------------------------
(* Once, and under one path *)

\* What has been read below the root, without following links, is a real entry of a
\* directory that has been read.
LEMMA ReadFromParent ==
  ASSUME ScanInv, ~follow, NEW path \in listed, path # <<>>
  PROVE  \E q \in listed, n \in Names :
           /\ path = Append(q, n)
           /\ RealDir(tree, Directory(q), n)
           /\ tree[Directory(q)][n].to = Directory(path)
<1>1. ScanTypeOK /\ Connected /\ ReadableOnly
  BY DEF ScanInv
<1>2. PICK q \in listed, n \in Names :
        path = Append(q, n) /\ Seen(tree[Directory(q)][n]) = "dir"
  BY <1>1 DEF Connected, WasFound
<1>3. q \in Paths /\ CanStat(q) /\ CanInspect(path)
  BY <1>1 DEF ScanTypeOK, ReadableOnly, CanRead, CanStat, CanInspect
<1>4. Directory(path) = tree[Directory(q)][n].to
  BY <1>1, <1>2, <1>3, OneNameFurther DEF Directory
<1>5. RealDir(tree, Directory(q), n)
  BY <1>2 DEF Seen, RealDir
<1> QED BY <1>2, <1>4, <1>5

\* Directories lie as deep as their paths are long.
LEMMA DepthIsLength ==
  ASSUME ScanInv, ~follow, NEW depth \in [Dirs -> Nat],
         \A d \in Dirs, n \in Names :
           RealDir(tree, d, n) => depth[tree[d][n].to] = depth[d] + 1,
         NEW path \in listed
  PROVE  depth[Directory(path)] = depth[Root] + Len(path)
<1>1. ScanTypeOK /\ \A p \in listed : p \in Paths /\ Len(p) \in Nat /\ Directory(p) \in Dirs
  BY DirectoryType DEF ScanInv, ScanTypeOK, Paths
<1> DEFINE N == {k \in Nat : \A p \in listed :
                   Len(p) = k => depth[Directory(p)] = depth[Root] + k}
<1>2. 0 \in N
  <2>1. \A p \in listed : Len(p) = 0 => p = <<>>
    BY <1>1, EmptySeq DEF Paths
  <2>2. depth[Root] \in Nat
    BY ScanAssumption
  <2> QED BY <1>1, <2>1, <2>2, RootIsRoot
<1>3. ASSUME NEW k \in Nat, k \in N PROVE k + 1 \in N
  <2>1. SUFFICES ASSUME NEW p \in listed, Len(p) = k + 1
                 PROVE  depth[Directory(p)] = depth[Root] + (k + 1)
    OBVIOUS
  <2>2. p # <<>>
    BY <1>1, <2>1, EmptySeq
  <2>3. PICK q \in listed, n \in Names :
          p = Append(q, n) /\ RealDir(tree, Directory(q), n) /\ tree[Directory(q)][n].to = Directory(p)
    BY <2>2, ReadFromParent
  <2>4. Len(q) = k
    BY <1>1, <2>1, <2>3 DEF Paths
  <2>5. depth[Directory(q)] = depth[Root] + k
    BY <1>3, <2>4
  <2>6. depth[Directory(p)] = depth[Directory(q)] + 1
    BY <1>1, <2>3
  <2>7. depth[Root] \in Nat
    BY ScanAssumption
  <2> QED BY <2>5, <2>6, <2>7
<1>4. Nat \subseteq N
  <2> HIDE DEF N
  <2> QED BY <1>2, <1>3, SetInduction
<1> QED BY <1>1, <1>4

\* One directory has one path of real entries.
LEMMA OnePathEach ==
  ASSUME ScanInv, ~follow
  PROVE  ListedOnce
<1>1. ScanTypeOK /\ \A p \in listed : p \in Paths /\ Len(p) \in Nat /\ Directory(p) \in Dirs
  BY DirectoryType DEF ScanInv, ScanTypeOK, Paths
<1>2. tree \in Trees
  BY <1>1 DEF ScanTypeOK
<1>3. PICK depth \in [Dirs -> Nat] :
        \A d \in Dirs, n \in Names : RealDir(tree, d, n) => depth[tree[d][n].to] = depth[d] + 1
  <2>1. \E depth \in [Dirs -> 0..Cardinality(Dirs)] :
          \A d \in Dirs, n \in Names : RealDir(tree, d, n) => depth[tree[d][n].to] = depth[d] + 1
    BY <1>2, ForestAssumption
  <2>2. [Dirs -> 0..Cardinality(Dirs)] \subseteq [Dirs -> Nat]
    OBVIOUS
  <2> QED BY <2>1, <2>2
<1>4. \A c, d \in Dirs, m, n \in Names :
        RealDir(tree, c, m) /\ RealDir(tree, d, n) /\ tree[c][m].to = tree[d][n].to => c = d /\ m = n
  BY <1>2, ForestAssumption
<1>5. \A p \in listed : depth[Directory(p)] = depth[Root] + Len(p)
  BY <1>3, DepthIsLength
<1> DEFINE N == {k \in Nat : \A p, q \in listed :
                   Len(p) = k /\ Len(q) = k /\ Directory(p) = Directory(q) => p = q}
<1>6. 0 \in N
  BY <1>1, EmptySeq DEF Paths
<1>7. ASSUME NEW k \in Nat, k \in N PROVE k + 1 \in N
  <2>1. SUFFICES ASSUME NEW p \in listed, NEW q \in listed, Len(p) = k + 1, Len(q) = k + 1,
                        Directory(p) = Directory(q)
                 PROVE  p = q
    OBVIOUS
  <2>2. p # <<>> /\ q # <<>>
    BY <1>1, <2>1, EmptySeq
  <2>3. PICK p0 \in listed, m \in Names :
          p = Append(p0, m) /\ RealDir(tree, Directory(p0), m) /\ tree[Directory(p0)][m].to = Directory(p)
    BY <2>2, ReadFromParent
  <2>4. PICK q0 \in listed, n \in Names :
          q = Append(q0, n) /\ RealDir(tree, Directory(q0), n) /\ tree[Directory(q0)][n].to = Directory(q)
    BY <2>2, ReadFromParent
  <2>5. Directory(p0) = Directory(q0) /\ m = n
    BY <1>1, <1>4, <2>1, <2>3, <2>4
  <2>6. Len(p0) = k /\ Len(q0) = k
    BY <1>1, <2>1, <2>3, <2>4 DEF Paths
  <2>7. p0 = q0
    BY <1>7, <2>5, <2>6
  <2> QED BY <2>3, <2>4, <2>5, <2>7
<1>8. Nat \subseteq N
  <2> HIDE DEF N
  <2> QED BY <1>6, <1>7, SetInduction
<1>9. ASSUME NEW p \in listed, NEW q \in listed, Directory(p) = Directory(q) PROVE p = q
  <2>1. depth[Root] \in Nat
    BY ScanAssumption
  <2>2. Len(p) = Len(q)
    BY <1>1, <1>5, <1>9, <2>1
  <2> QED BY <1>1, <1>8, <1>9, <2>2
<1> QED BY <1>9 DEF ListedOnce

\* No directory is read under two paths: with links, because of visited (walker.py:92-96);
\* without, because a file system has no other way to reach a directory twice.
THEOREM ListedOnceAlways == ScanSpec => []ListedOnce
<1>1. ScanInv => ListedOnce
  BY OnePathEach DEF ScanInv, KnowsWhatItRead
<1> QED BY <1>1, ScanInvAlways, PTL

-----------------------------------------------------------------------------
(* What exists is kept *)

\* Whatever cannot be read, is filtered out or is reached by a link, no row is planned for
\* deletion whose file is there (planner.py:195-219).
THEOREM KeepsWhatExistsAlways == ScanSpec => []KeepsWhatExists
<1>1. ScanInv => KeepsWhatExists
  BY DEF ScanInv, PlanStands, KeepsWhatExists
<1> QED BY <1>1, ScanInvAlways, PTL

-----------------------------------------------------------------------------
(* Nothing that can be reached is missed *)

\* The directories reached with one name more.
Onward(reached) ==
  reached \cup {Append(s[1], s[2]) : s \in {t \in reached \X Names : Descends(t[1], t[2])}}
Start == {path \in {<<>>} : CanRead(path)}

LEMMA OnwardType == ASSUME NEW X \in SUBSET Paths PROVE Onward(X) \in SUBSET Paths
<1>1. ASSUME NEW s \in X \X Names PROVE Append(s[1], s[2]) \in Paths
  BY DEF Paths
<1> QED BY <1>1 DEF Onward

LEMMA ReachableUnfolds ==
  \E m \in Nat : \E to \in [0..m -> SUBSET Paths] :
    /\ to[0] = Start
    /\ \A k \in 1..m : to[k] = Onward(to[k - 1])
    /\ Reachable = to[m]
<1> DEFINE m == Cardinality(Dirs) - 1
           S == SUBSET Paths
           step == [k \in 1..m |-> [X \in S |-> Onward(X)]]
           body(to) == [n \in 0..m |-> IF n = 0 THEN Start ELSE Onward(to[n - 1])]
<1>1. m \in Nat
  <2>1. IsFiniteSet(Dirs) /\ Dirs # {}
    BY ScanAssumption
  <2>2. Cardinality(Dirs) \in Nat /\ Cardinality(Dirs) # 0
    BY <2>1, FS_CardinalityType, FS_EmptySet
  <2> QED BY <2>2
<1>2. Start \in S
  <2>1. <<>> \in Paths
    BY DEF Paths
  <2> QED BY <2>1 DEF Start
<1> DEFINE g == CHOOSE to : to = body(to)
<1>3. Reachable = g[m]
  BY DEF Reachable, Onward, Start
<1>4. \A k \in 1..m, X \in S : step[k][X] = Onward(X)
  OBVIOUS
<1>5. step \in [1..m -> [S -> S]]
  BY OnwardType
<1> HIDE DEF m, step, S
<1>6. PICK f \in [0..m -> S] : Follows(f, m, Start, step)
  BY <1>1, <1>2, <1>5, RecursionExists
<1>7. f = body(f)
  <2>1. \A k \in 1..m : f[k - 1] \in S /\ f[k] = Onward(f[k - 1])
    BY <1>1, <1>4, <1>6 DEF Follows
  <2>2. \A k \in 0..m : f[k] = body(f)[k]
    BY <1>1, <1>6, <2>1 DEF Follows
  <2>3. f = [n \in 0..m |-> f[n]]
    BY <1>6
  <2> QED BY <2>2, <2>3
<1>8. g = body(g)
  <2> HIDE DEF body
  <2> QED BY <1>7
<1> HIDE DEF g
<1>9. g[0] = Start /\ \A k \in 1..m : g[k] = Onward(g[k - 1])
  BY <1>1, <1>8
<1>10. g \in [0..m -> S]
  <2> DEFINE N == {k \in Nat : k <= m => g[k] \in S}
  <2>1. 0 \in N
    BY <1>2, <1>9
  <2>2. ASSUME NEW k \in Nat, k \in N PROVE k + 1 \in N
    <3>1. SUFFICES ASSUME k + 1 <= m PROVE g[k + 1] \in S
      OBVIOUS
    <3>2. g[k] \in S /\ g[k + 1] = Onward(g[k])
      BY <1>1, <1>9, <2>2, <3>1
    <3> QED BY <3>2, OnwardType DEF S
  <2>3. Nat \subseteq N
    <3> HIDE DEF N
    <3> QED BY <2>1, <2>2, SetInduction
  <2>4. \A k \in 0..m : g[k] \in S
    BY <1>1, <2>3
  <2> QED BY <1>8, <2>4
<1> QED BY <1>1, <1>3, <1>9, <1>10 DEF S

\* Below the root, what is excluded next depends on the name alone.
LEMMA ExcludedByName ==
  ASSUME NEW p \in Paths, p # <<>>, ~Excluded(p), NEW n \in Names
  PROVE  Excluded(Append(p, n)) <=> \E pattern \in exclude : pattern.anyDepth /\ pattern.name = n
<1> DEFINE m == Len(p)  rel == Append(p, n)
<1>1. /\ m \in Nat \ {0} /\ Len(rel) = m + 1 /\ rel[m + 1] = n
      /\ \A i \in 1..m : rel[i] = p[i]
  BY EmptySeq DEF Paths
<1> HIDE DEF m, rel
<1>2. ASSUME NEW pattern \in exclude
      PROVE  Matches(rel, pattern) <=> pattern.anyDepth /\ pattern.name = n
  <2>1. ~Matches(p, pattern)
    BY DEF Excluded
  <2>2. CASE pattern.anyDepth
    <3>1. \A i \in 1..m : ~(p[i] = pattern.name /\ (i # 1 \/ m = 1))
      BY <2>1, <2>2 DEF Matches, m
    <3>2. Matches(rel, pattern) <=>
            \E i \in 1..(m + 1) : rel[i] = pattern.name /\ (i # 1 \/ m + 1 = 1)
      BY <1>1, <2>2 DEF Matches
    <3>3. ASSUME NEW i \in 1..(m + 1), rel[i] = pattern.name, i # 1 \/ m + 1 = 1
          PROVE  pattern.name = n
      BY <1>1, <3>1, <3>3
    <3>4. pattern.name = n =>
            \E i \in 1..(m + 1) : rel[i] = pattern.name /\ (i # 1 \/ m + 1 = 1)
      <4>1. m + 1 \in 1..(m + 1) /\ m + 1 # 1
        BY <1>1
      <4> QED BY <1>1, <4>1
    <3> QED BY <2>2, <3>2, <3>3, <3>4
  <2>3. CASE ~pattern.anyDepth
    <3>1. p[1] # pattern.name
      BY <2>1, <2>3 DEF Matches
    <3>2. rel[1] = p[1]
      BY <1>1
    <3> QED BY <2>3, <3>1, <3>2 DEF Matches
  <2> QED BY <2>2, <2>3
<1> QED BY <1>2 DEF Excluded, rel

\* A directory reached from one that has been entered is entered.
Reached(p) ==
  /\ p \in Paths /\ CanRead(p) /\ Entered(p)
  /\ p # <<>> => ~Excluded(p) /\ Directory(p) # Root

LEMMA OneMoreEntered ==
  ASSUME ScanInv, pc # "walking", NEW p, Reached(p), NEW n \in Names, Descends(p, n)
  PROVE  Reached(Append(p, n))
<1> DEFINE rel == Append(p, n)
<1>1. /\ ScanTypeOK /\ OneAtATime /\ Connected /\ ReadableOnly /\ RootFirst /\ NothingLost
      /\ p \in Paths /\ CanRead(p) /\ CanStat(p)
  BY DEF ScanInv, Reached, CanRead
<1>2. here = {} /\ stack = <<>> /\ Waiting = {}
  BY <1>1 DEF OneAtATime, Waiting
<1>3. /\ tree[Directory(p)][n].kind = "dir" /\ (tree[Directory(p)][n].link => follow)
      /\ CanRead(rel) /\ ~Excluded(rel) /\ Directory(rel) # Root
  BY DEF Descends
<1>4. rel \in Paths /\ rel # <<>>
  BY <1>1 DEF Paths
<1>5. PICK q \in listed :
        /\ Directory(q) = Directory(p) /\ (follow \/ q = p)
        /\ p = <<>> <=> q = <<>>
  <2>1. CASE p = <<>>
    BY <1>1, <1>2, <2>1 DEF RootFirst
  <2>2. CASE p # <<>>
    BY <1>1, <2>2, RootIsRoot DEF Reached, Entered
  <2> QED BY <2>1, <2>2
<1>6. q \in Paths /\ CanStat(q)
  BY <1>1 DEF ScanTypeOK, ReadableOnly, CanRead
<1>7. CanRead(Append(q, n)) /\ Directory(Append(q, n)) = Directory(rel)
  BY <1>1, <1>3, <1>5, <1>6, SameDirectory
<1>8. ~Excluded(Append(q, n))
  <2>1. CASE p = <<>>
    BY <1>3, <1>5, <2>1
  <2>2. CASE p # <<>>
    <3>1. ~Excluded(q)
      BY <1>1, <1>5, <2>2 DEF Connected, WasFound
    <3>2. Excluded(Append(q, n)) <=> \E pattern \in exclude : pattern.anyDepth /\ pattern.name = n
      BY <1>5, <1>6, <2>2, <3>1, ExcludedByName
    <3>3. Excluded(Append(p, n)) <=> \E pattern \in exclude : pattern.anyDepth /\ pattern.name = n
      BY <1>1, <2>2, ExcludedByName DEF Reached
    <3> QED BY <1>3, <3>2, <3>3
  <2> QED BY <2>1, <2>2
<1>9. Descends(q, n)
  BY <1>3, <1>5, <1>7, <1>8 DEF Descends
<1>10. Entered(Append(q, n))
  BY <1>1, <1>2, <1>9 DEF NothingLost, LookedAt
<1>11. Entered(rel)
  BY <1>5, <1>7, <1>10 DEF Entered
<1> QED BY <1>3, <1>4, <1>11 DEF Reached

\* Every directory a path leads to that does not come back to the root is read, under that
\* path if links are not followed; and the files yielded or filtered are those the
\* directories read hold (walker.py:81-146).
THEOREM WalkIsExactAlways == ScanSpec => []WalkIsExact
<1>1. ASSUME ScanInv, pc # "walking", NEW p \in Reachable PROVE Entered(p)
  <2>1. PICK m \in Nat : \E to \in [0..m -> SUBSET Paths] :
          /\ to[0] = Start
          /\ \A k \in 1..m : to[k] = Onward(to[k - 1])
          /\ Reachable = to[m]
    BY ReachableUnfolds
  <2>2. PICK to \in [0..m -> SUBSET Paths] :
          /\ to[0] = Start
          /\ \A k \in 1..m : to[k] = Onward(to[k - 1])
          /\ Reachable = to[m]
    BY <2>1
  <2> DEFINE N == {k \in Nat : k <= m => \A q \in to[k] : Reached(q)}
  <2>3. 0 \in N
    <3>1. RootFirst /\ ScanTypeOK /\ stack = <<>>
      BY <1>1 DEF ScanInv, OneAtATime
    <3>2. CanRead(<<>>) => <<>> \in listed
      BY <3>1 DEF RootFirst
    <3> QED BY <2>2, <3>1, <3>2, RootIsRoot DEF Start, Reached, Entered
  <2>4. ASSUME NEW k \in Nat, k \in N PROVE k + 1 \in N
    <3>1. SUFFICES ASSUME k + 1 <= m, NEW q \in to[k + 1] PROVE Reached(q)
      OBVIOUS
    <3>2. to[k + 1] = Onward(to[k]) /\ \A x \in to[k] : Reached(x)
      BY <2>2, <2>4, <3>1
    <3>3. CASE q \in to[k]
      BY <3>2, <3>3
    <3>4. CASE q \notin to[k]
      <4>1. PICK x \in to[k], n \in Names : q = Append(x, n) /\ Descends(x, n)
        BY <3>2, <3>4 DEF Onward
      <4> QED BY <1>1, <3>2, <4>1, OneMoreEntered
    <3> QED BY <3>3, <3>4
  <2>5. Nat \subseteq N
    <3> HIDE DEF N
    <3> QED BY <2>3, <2>4, SetInduction
  <2> QED BY <1>1, <2>2, <2>5 DEF Reached
<1>2. ASSUME ScanInv, pc # "walking" PROVE seen \cup skipped = UNION {Holds(q) : q \in listed}
  <2>1. NothingLost /\ NothingInvented /\ here = {}
    BY <1>2 DEF ScanInv, OneAtATime
  <2>2. ASSUME NEW q \in listed, NEW x \in Holds(q) PROVE x \in seen \cup skipped
    <3>1. PICK n \in Names : x = Append(q, n)
      BY DEF Holds
    <3> QED BY <2>1, <3>1 DEF NothingLost, LookedAt
  <2> QED BY <2>1, <2>2 DEF NothingInvented
<1>3. ScanInv => WalkIsExact
  BY <1>1, <1>2 DEF WalkIsExact, Entered
<1> QED BY <1>3, ScanInvAlways, PTL
=============================================================================
