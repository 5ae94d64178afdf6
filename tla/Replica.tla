------------------------------- MODULE Replica -------------------------------
(***************************************************************************)
(* What a sync job promises, without runs, rows, documents or workers: a    *)
(* one-way replica.  Bytes reach the corpus only out of the file they are   *)
(* filed under; what the corpus holds of a path changes only by taking in   *)
(* such bytes, or because the file was missing.                             *)
(***************************************************************************)
EXTENDS Integers

CONSTANTS Paths, Contents, NoContent,
          OtherHands   \* whether anyone else deletes documents

VARIABLES
  tree,     \* the file at each path, NoContent if there is none
  missing,  \* paths the run under way has found without a file
  staged,   \* what has been sent and can still be handed to ingestion
  holds,    \* what has been handed to ingestion
  mishaps   \* things that went wrong

replicaVars == <<tree, missing, staged, holds, mishaps>>

Nowhere == [p \in Paths |-> {}]

ReplicaInit ==
  /\ tree \in [Paths -> Contents \cup {NoContent}]
  /\ missing = {}
  /\ staged = Nowhere /\ holds = Nowhere
  /\ mishaps = 0

\* A run begins, looks, or ends: it can miss only what is not there.
LookAround ==
  /\ missing' \subseteq missing \cup {p \in Paths : tree'[p] = NoContent}
  /\ UNCHANGED <<staged, holds>>

Look == LookAround /\ UNCHANGED tree

\* The user writes or removes the file.
Change(p) ==
  /\ LookAround
  /\ \E c \in Contents \cup {NoContent} : tree' = [tree EXCEPT ![p] = c]

Only(p, f, g) == \A q \in Paths \ {p} : f[q] = g[q]

\* What the file holds now is sent, over what was sent before.
Stage(p) ==
  /\ tree[p] # NoContent
  /\ staged' \in [Paths -> SUBSET Contents] /\ Only(p, staged', staged)
  /\ staged'[p] \subseteq staged[p] \cup {tree[p]}
  /\ UNCHANGED <<tree, missing, holds>>

\* A place is prepared for new bytes.
Unstage(p) ==
  /\ staged' \in [Paths -> SUBSET Contents] /\ Only(p, staged', staged)
  /\ staged'[p] \subseteq staged[p]
  /\ UNCHANGED <<tree, missing, holds>>

\* What was sent takes the place of one earlier version, or stands beside it.
Publish(p) ==
  /\ \E new \in staged[p], old \in SUBSET holds[p] :
       /\ \A c, d \in old : c = d
       /\ holds' = [holds EXCEPT ![p] = (@ \ old) \cup {new}]
  /\ UNCHANGED <<tree, missing, staged>>

Shrink(p) ==
  /\ staged' \in [Paths -> SUBSET Contents] /\ holds' \in [Paths -> SUBSET Contents]
  /\ Only(p, staged', staged) /\ Only(p, holds', holds)
  /\ staged'[p] \subseteq staged[p] /\ holds'[p] \subseteq holds[p]
  /\ UNCHANGED <<tree, missing>>

\* The corpus loses content of a path: its file was missing, or somebody else's doing.
Withdraw(p) == p \in missing /\ Shrink(p)

Intrude(p) == OtherHands /\ mishaps' # mishaps /\ Shrink(p)

ReplicaNext ==
  /\ mishaps' \in {mishaps, mishaps + 1}
  /\ \/ Look
     \/ \E p \in Paths :
          Change(p) \/ Stage(p) \/ Unstage(p) \/ Publish(p) \/ Withdraw(p) \/ Intrude(p)

ReplicaSpec == ReplicaInit /\ [][ReplicaNext]_replicaVars
=============================================================================
