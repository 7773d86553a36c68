------------------------------ MODULE Tracking ------------------------------
(***************************************************************************)
(* What pulling from a peer promises (README.md, src/sync.rs): a pull      *)
(* takes one snapshot of the peer's branches, and the remote-tracking refs *)
(* kept for the peer only ever become, at once and completely, a snapshot  *)
(* that a pull has taken.  Pulls and the local branches never move each    *)
(* other.                                                                  *)
(***************************************************************************)
CONSTANTS
  Puller, Snapshots, BranchTables,
  NoRefs,     \* no branch at all
  None        \* a pull that has no snapshot

VARIABLES
  published,  \* the refs the peer has now
  taken,      \* the snapshot each pull works on
  mirror,     \* what the client knows of them
  branches    \* the client's own branches

vars == <<published, taken, mirror, branches>>

Init ==
  /\ published \in Snapshots
  /\ taken = [p \in Puller |-> None]
  /\ mirror = NoRefs
  /\ branches \in BranchTables

Publish ==
  /\ published' \in Snapshots
  /\ UNCHANGED <<taken, mirror, branches>>

Take(p) ==
  /\ taken[p] = None
  /\ taken' = [taken EXCEPT ![p] = published]
  /\ UNCHANGED <<published, mirror, branches>>

Finish(p) ==
  /\ taken[p] # None
  /\ mirror' = taken[p]
  /\ taken' = [taken EXCEPT ![p] = None]
  /\ UNCHANGED <<published, branches>>

GiveUp(p) ==
  /\ taken' = [taken EXCEPT ![p] = None]
  /\ UNCHANGED <<published, mirror, branches>>

WorkLocally ==
  /\ branches' \in BranchTables
  /\ UNCHANGED <<published, taken, mirror>>

Next ==
  \/ Publish
  \/ \E p \in Puller : Take(p) \/ Finish(p) \/ GiveUp(p)
  \/ WorkLocally

Spec == Init /\ [][Next]_vars
=============================================================================
