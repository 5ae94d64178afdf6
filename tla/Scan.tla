-------------------------------- MODULE Scan --------------------------------
(***************************************************************************)
(* The walk of scan/walker.py over a tree with symbolic links and           *)
(* directories that cannot be read, the gate of scan/filters.py, and what   *)
(* _plan_deletions of sync/planner.py makes of the paths it did not meet.   *)
(*                                                                          *)
(* A path is the sequence of its names below the root.  A pattern is a name *)
(* at the root or, written **/name, at any depth; wildcards are left out.   *)
(***************************************************************************)
EXTENDS Integers, Sequences, SequencesExt, FiniteSets

CONSTANTS
  Dirs, Root,    \* directories (inodes), and the one the walk starts at
  Names,         \* of directory entries
  Trees,         \* the trees to walk: what each directory holds under each name
  Permissions,   \* the permissions to try, Dirs -> SUBSET {"read", "search"}
  Patterns,      \* the source.exclude lists to try
  Inclusions,    \* the source.include lists to try
  Rejected,      \* names whose type or size the filters reject
  Recorded       \* the paths that have a row

\* An entry: what it is or, for a link, what it leads to.
Kind == {"none", "dir", "file", "other"}
Entry == [kind: Kind, link: BOOLEAN, to: Dirs]

ASSUME ScanAssumption ==
  /\ Root \in Dirs
  /\ Trees \subseteq [Dirs -> [Names -> Entry]]
  /\ Permissions \subseteq [Dirs -> SUBSET {"read", "search"}]
  /\ Recorded \subseteq Seq(Names)
  /\ IsFiniteSet(Dirs)

\* Without its links a file system is a forest: no directory is an entry of two others,
\* or of one below it.
RealDir(t, d, n) == t[d][n].kind = "dir" /\ ~t[d][n].link

ASSUME ForestAssumption ==
  \A t \in Trees :
    /\ \E depth \in [Dirs -> 0..Cardinality(Dirs)] :
         \A d \in Dirs, n \in Names : RealDir(t, d, n) => depth[t[d][n].to] = depth[d] + 1
    /\ \A c, d \in Dirs, m, n \in Names :
         RealDir(t, c, m) /\ RealDir(t, d, n) /\ t[c][m].to = t[d][n].to => c = d /\ m = n

VARIABLES
  tree, perm,   \* the tree and its permissions
  follow,       \* source.follow_symlinks
  exclude,      \* source.exclude
  include,      \* source.include; empty is everything
  pc,           \* "walking", "deleting", "planned", "raised"
  stack,        \* paths of the directories still to be read
  visited,      \* directories read, kept only when links are followed
  here,         \* the directory being read, at most one path
  left,         \* names of it still to be looked at
  listed,       \* history: the paths under which directories were read
  seen,         \* accepted files
  skipped,      \* files the filters reject
  kept, doomed  \* rows found to exist out of scope, and rows to delete

scanVars == <<tree, perm, follow, exclude, include, pc, stack, visited, here, left, listed,
              seen, skipped, kept, doomed>>

-----------------------------------------------------------------------------
(* The file system *)

\* The root itself is a directory.
TheRoot == [kind |-> "dir", link |-> FALSE, to |-> Root]

\* One name further in tree t: "denied" below a directory that may not be searched, "none"
\* if there is nothing.
Enter(t, permission, above, n) ==
  IF above.kind = "dir" /\ "search" \in permission[above.to]
  THEN t[above.to][n]
  ELSE [above EXCEPT !.kind = IF @ \in {"dir", "denied"} THEN "denied" ELSE "none"]

\* The entry a path leads to, every link followed.
Lookup(t, permission, path) ==
  LET at[n \in 0..Len(path)] ==
        IF n = 0 THEN TheRoot ELSE Enter(t, permission, at[n - 1], path[n])
  IN  at[Len(path)]

\* A link that leads nowhere is of kind "other", like a pipe, but does not exist.
Dangling(e) == e.link /\ e.kind = "other"

\* What a mistake would do: look through links that are not to be followed.
SeenThroughLinks(e) == e.kind

\* What is_dir and is_file see of an entry.
Seen(e) == IF e.link /\ ~follow THEN "other" ELSE e.kind

-----------------------------------------------------------------------------
(* The walk *)

\* matches_any: the name itself, at the root or at any depth, and all below it.
Matches(path, pattern) ==
  IF pattern.anyDepth
  THEN \E i \in 1..Len(path) : path[i] = pattern.name /\ (i # 1 \/ Len(path) = 1)
  ELSE path[1] = pattern.name

Excluded(path) == \E pattern \in exclude : Matches(path, pattern)
Included(path) == include = {} \/ \E pattern \in include : Matches(path, pattern)

\* apply_filters: size first, then the content type, which the name decides.
Passes(n) == n \notin Rejected

ScanInit ==
  /\ tree \in Trees
  /\ perm \in Permissions
  /\ follow \in BOOLEAN
  /\ exclude \in Patterns
  /\ include \in Inclusions
  /\ pc = "walking"
  /\ stack = << <<>> >>
  /\ visited = {}
  /\ here = {}
  /\ left = {}
  /\ listed = {}
  /\ seen = {} /\ skipped = {} /\ kept = {} /\ doomed = {}

configuration == <<tree, perm, follow, exclude, include>>
result == <<seen, skipped, kept, doomed>>

Directory(path) == Lookup(tree, perm, path).to

\* current.stat() fails below a directory that may not be searched.
CanStat(path) == Lookup(tree, perm, path).kind = "dir"

\* os.scandir.
CanRead(path) == CanStat(path) /\ "read" \in perm[Directory(path)]

\* What a mistake would do: compare paths; end the walk at a failure; try again.
MetUnderThisPath(path) == follow /\ path \in visited
RestUnlessFailed(path) == IF CanRead(path) THEN Front(stack) ELSE <<>>
RestAndRetry(path) == (IF CanRead(path) THEN <<>> ELSE <<path>>) \o Front(stack)

\* The loop check, by identity; and the directories left once this one is done with.
Met(path) == follow /\ Directory(path) \in visited
Rest(path) == Front(stack)

\* The listing of a directory, or a warning: one that fails is done with.
Pop ==
  LET path == Last(stack)  d == Directory(path) IN
  /\ pc = "walking"
  /\ here = {} /\ stack # <<>>
  /\ stack' = Rest(path)
  /\ visited' = IF follow /\ CanStat(path) THEN visited \cup {d} ELSE visited
  /\ IF CanRead(path) /\ ~Met(path)
     THEN /\ here' = {path}
          /\ left' = {n \in Names : tree[d][n].kind # "none"}
          /\ listed' = listed \cup {path}
     ELSE UNCHANGED <<here, left, listed>>
  /\ UNCHANGED <<configuration, pc, result>>

\* entry.stat needs the permission to search; so does the look through a link.
CanInspect(path) == Lookup(tree, perm, path).kind # "denied"

\* One entry, in whatever order the directory lists them.
Look(path, n) ==
  LET rel == Append(path, n)  e == tree[Directory(path)][n]
      offered == ~Excluded(rel) /\ (e.link /\ follow => CanInspect(rel))
      yielded == offered /\ Seen(e) = "file" /\ Included(rel) /\ CanInspect(rel)
  IN
  /\ here = {path}
  /\ n \in left
  /\ left' = left \ {n}
  /\ stack' = IF offered /\ Seen(e) = "dir" THEN Append(stack, rel) ELSE stack
  /\ seen' = IF yielded /\ Passes(n) THEN seen \cup {rel} ELSE seen
  /\ skipped' = IF yielded /\ ~Passes(n) THEN skipped \cup {rel} ELSE skipped
  /\ UNCHANGED <<configuration, pc, visited, here, listed, kept, doomed>>

\* The last entry is done with.
Close ==
  /\ here # {} /\ left = {}
  /\ here' = {}
  /\ UNCHANGED <<configuration, pc, stack, visited, left, listed, result>>

FinishWalk ==
  /\ pc = "walking"
  /\ here = {} /\ stack = <<>>
  /\ pc' = "deleting"
  /\ UNCHANGED <<configuration, stack, visited, here, left, listed, result>>

-----------------------------------------------------------------------------
(* The deletions *)

\* Path.exists, which follows links, raises what it cannot tell and has no notion of
\* filters or patterns.
Exists(path) ==
  LET e == Lookup(tree, perm, path) IN e.kind \notin {"none", "denied"} /\ ~Dangling(e)

\* As os.path.exists would: what may not be looked at is not there.
NeverRaises(path) == FALSE

CannotTell(path) == Lookup(tree, perm, path).kind = "denied"

\* _plan_deletions: what is not seen and still there is out of scope and left alone.  One
\* row whose file may not be looked at fails the run before anything is carried out.
PlanDeletions ==
  LET unmet == Recorded \ seen IN
  /\ pc = "deleting"
  /\ IF \E path \in unmet : CannotTell(path)
     THEN pc' = "raised" /\ UNCHANGED <<kept, doomed>>
     ELSE /\ pc' = "planned"
          /\ kept' = {path \in unmet : Exists(path)}
          /\ doomed' = unmet \ kept'
  /\ UNCHANGED <<configuration, stack, visited, here, left, listed, seen, skipped>>

Done == pc \in {"planned", "raised"} /\ UNCHANGED scanVars

ScanNext ==
  \/ Pop
  \/ \E path \in here, n \in Names : Look(path, n)
  \/ Close
  \/ FinishWalk
  \/ PlanDeletions
  \/ Done

ScanSpec == ScanInit /\ [][ScanNext]_scanVars
FairScanSpec == ScanSpec /\ WF_scanVars(ScanNext)

-----------------------------------------------------------------------------
(* Properties *)

\* A link is an entry like any other, the walk one loop: no directory is read under two
\* paths, whatever cycles the links make.
ListedOnce == \A p, q \in listed : Directory(p) = Directory(q) => p = q

\* The directories a user who may read them would descend into, by paths that do not come
\* back to the root.
Descends(path, n) ==
  LET e == tree[Directory(path)][n]  rel == Append(path, n) IN
  /\ e.kind = "dir" /\ (e.link => follow)
  /\ CanRead(rel) /\ ~Excluded(rel) /\ Directory(rel) # Root

Reachable ==
  LET to[n \in 0..Cardinality(Dirs) - 1] ==
        IF n = 0 THEN {path \in {<<>>} : CanRead(path)}
        ELSE to[n - 1] \cup {Append(s[1], s[2]) : s \in
               {t \in to[n - 1] \X Names : Descends(t[1], t[2])}}
  IN  to[Cardinality(Dirs) - 1]

\* The files the patterns let through among what a listed directory holds.
Holds(path) ==
  {Append(path, n) : n \in {m \in Names :
     LET e == tree[Directory(path)][m]  rel == Append(path, m) IN
     /\ e.kind = "file" /\ (e.link => follow)
     /\ CanInspect(rel) /\ Included(rel) /\ ~Excluded(rel)}}

\* One directory that cannot be read, one link that leads nowhere, one entry that cannot be
\* inspected costs nothing else: the walk reads every directory that can be reached, and
\* yields exactly the files these hold.  With links followed, a directory is read under one
\* of its paths, whichever comes first.
WalkIsExact ==
  pc # "walking" =>
    /\ \A p \in Reachable : \E q \in listed : Directory(q) = Directory(p) /\ (follow \/ q = p)
    /\ seen \cup skipped = UNION {Holds(q) : q \in listed}

\* Whatever the permissions, patterns, filters and links, no row is doomed whose file is
\* there, and when the plan stands every row that was not met has been decided.
FullPermission == [d \in Dirs |-> {"read", "search"}]
ReallyThere(path) ==
  LET e == Lookup(tree, FullPermission, path) IN e.kind # "none" /\ ~Dangling(e)

KeepsWhatExists ==
  /\ \A path \in doomed : ~ReallyThere(path)
  /\ pc = "planned" =>
       \A path \in Recorded \ seen : path \in doomed <=> ~ReallyThere(path)

\* The walk of a finite tree ends, links or no links.
WalkEnds == <>(pc \in {"planned", "raised"})

-----------------------------------------------------------------------------
(* Why the walk is exact: the inductive invariant *)

Paths == Seq(Names)

ScanTypeOK ==
  /\ tree \in Trees /\ perm \in Permissions /\ follow \in BOOLEAN
  /\ pc \in {"walking", "deleting", "planned", "raised"}
  /\ stack \in Seq(Paths) /\ visited \subseteq Dirs
  /\ left \subseteq Names /\ listed \subseteq Paths
  /\ seen \subseteq Paths /\ skipped \subseteq Paths

\* One directory is being read at a time, and only while the walk goes on.
OneAtATime ==
  /\ here = {} \/ \E path \in listed : here = {path}
  /\ pc # "walking" => here = {} /\ stack = <<>>

\* What waits or has been read was found in a directory that has been read.
WasFound(path) ==
  path = <<>> \/ \E q \in listed, n \in Names :
    path = Append(q, n) /\ Seen(tree[Directory(q)][n]) = "dir" /\ ~Excluded(path)
Waiting == {stack[i] : i \in 1..Len(stack)}
Connected == \A path \in listed \cup Waiting : WasFound(path)
ReadableOnly == \A path \in listed : CanRead(path)

\* visited is the identities of what was read, and of what could not be.
KnowsWhatItRead ==
  follow =>
    /\ ListedOnce
    /\ \A path \in listed : Directory(path) \in visited
    /\ \A d \in visited : "read" \in perm[d] => \E q \in listed : Directory(q) = d

\* Nothing comes before the root.
RootFirst ==
  \/ listed = {} /\ visited = {} /\ stack = << <<>> >>
  \/ CanRead(<<>>) => <<>> \in listed

\* What an entry owes to the walk once it has been looked at.
Entered(path) == \E q \in listed : Directory(q) = Directory(path) /\ (follow \/ q = path)
LookedAt(path, n) ==
  LET rel == Append(path, n) IN
  /\ Descends(path, n) => rel \in Waiting \/ Entered(rel)
  /\ rel \in Holds(path) => rel \in seen \cup skipped
NothingLost ==
  \A path \in listed, n \in Names : (path \in here /\ n \in left) \/ LookedAt(path, n)
NothingInvented == \A rel \in seen \cup skipped : \E q \in listed : rel \in Holds(q)

PlanStands ==
  /\ pc # "planned" => doomed = {}
  /\ pc = "planned" => doomed = {path \in Recorded \ seen : ~ReallyThere(path)}

\* Every entry of every directory read has been turned into what it is worth, or is about to
\* be, under one path per directory; and the plan agrees with the tree.
ScanInv ==
  /\ ScanTypeOK
  /\ OneAtATime /\ Connected /\ ReadableOnly
  /\ KnowsWhatItRead /\ RootFirst
  /\ NothingLost /\ NothingInvented
  /\ PlanStands

=============================================================================
