----------------------------- MODULE SyncReplica -----------------------------
(***************************************************************************)
(* The sync job implements Replica: documents become, for each path, the    *)
(* bytes that were sent and the contents that were handed to ingestion.     *)
(***************************************************************************)
EXTENDS SyncInvariant

Of(p) == {d \in DocIds : docs[d].path = p}

Sent == [p \in Paths |-> {c \in Contents : \E d \in Of(p) : docs[d].blob = c}]
Held == [p \in Paths |-> {c \in Contents : \E d \in Of(p) : docs[d].content = c}]

R == INSTANCE Replica WITH
       tree <- disk, missing <- vanished \ seen, staged <- Sent, holds <- Held,
       OtherHands <- "backoffice" \in Faults

\* Whatever fails and whenever the tree is edited, the corpus takes in only bytes of the
\* file they are filed under, and loses content only to newer bytes of the same file or
\* because this very run missed the file (README: "a one-way sync", deletions).
ImplementsReplica == R!ReplicaSpec
=============================================================================
