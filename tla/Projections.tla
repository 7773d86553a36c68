---------------------------- MODULE Projections ----------------------------
(***************************************************************************)
(* What callers of Store::project rely on, over the event graph of         *)
(* ContextStore.  How a projection is computed is Traversal; that it keeps *)
(* these promises is checked with Export and proved in ServerProofs.       *)
(***************************************************************************)
EXTENDS ContextStore, Listing

CONSTANT
  Projected     \* set of heads -> its projection

\* The edges that the bodies of events commit to.
Parents == [e \in EventId |-> Body[e].parents]

\* The history of the heads, each event once, parents first: what the loop of
\* Traversal makes of them (ProjectionsAsAssumed, ServerProofs).
ASSUME ProjectedAssumption ==
  /\ Projected \in [SUBSET EventId -> Seq(EventId)]
  /\ \A heads \in SUBSET EventId :
       ListsOnce(Projected[heads], UNION {Ancestors[h] : h \in heads}, Parents)

\* Fault: the projection is taken for a log, of which the rest is missing.
DifferenceAfterKnown(requested, known) ==
  LET seq == Projected[requested]
      has == ListedIn(Projected[known])
      after == {i \in DOMAIN seq : \A j \in i..Len(seq) : seq[j] \notin has}
  IN  SubSeq(seq, Len(seq) - Cardinality(after) + 1, Len(seq))

\* The events of one projection that another does not list, in order: what a
\* bundle or an export plan holds.
Difference(requested, known) ==
  Kept(Projected[requested], EventId \ ListedIn(Projected[known]))
=============================================================================
