----------------------------- MODULE MCPullSync -----------------------------
(* A genesis 1, its child 2, a fork 3 of 1 by another author, and 4 on top  *)
(* of 2; either side may write any of them.  Pages hold one event.          *)
EXTENDS PullSync, Traversal, TLC

CONSTANTS c1, sam, carol, main, dev, peer, p1, p2

Note(a, k, ps) == [context |-> c1, author |-> a, kind |-> k, parents |-> ps]

MCBody ==
  LET all == <<Note(sam, "context.genesis", {}), Note(sam, "note", {1}),
               Note(carol, "note", {1}), Note(sam, "note", {2})>>
  IN  [e \in EventId |-> all[e]]

MCIdOrder == SelectSeq(<<4, 1, 3, 2>>, LAMBDA e : e \in EventId)
MCSize == [e \in EventId |-> 1]

\* The projections of the traversal, tabulated once.
Traversed ==
  LET Table == [heads \in SUBSET EventId |->
                  ProjectedOrder([e \in EventId |-> Body[e].parents], heads,
                                 [events |-> 4, bytes |-> 4])]
  IN  CHOOSE f \in {Table} : f \in [SUBSET EventId -> Seq(EventId)]

MCProjected == Traversed

Symmetric == Permutations({p1, p2})
=============================================================================
