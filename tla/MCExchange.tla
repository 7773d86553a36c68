----------------------------- MODULE MCExchange -----------------------------
(* A genesis 1, its children 2 and 3, their merge 4; 5 is another context's *)
(* genesis.  Addresses are not in the order of the history.                 *)
EXTENDS Exchange, Traversal

CONSTANTS c1, c2, sam, main, dev, peer

Note(c, k, ps) == [context |-> c, author |-> sam, kind |-> k, parents |-> ps]

MCBody ==
  LET all == <<Note(c1, "context.genesis", {}), Note(c1, "note", {1}),
               Note(c1, "note", {1}), Note(c1, "note", {2, 3}),
             Note(c2, "context.genesis", {})>>
  IN  [e \in EventId |-> all[e]]

MCIdOrder == <<5, 4, 3, 1, 2>>
MCSize == [e \in EventId |-> 1]

Traversed ==
  LET Table == [heads \in SUBSET EventId |->
                  ProjectedOrder([e \in EventId |-> Body[e].parents], heads,
                                 [events |-> 5, bytes |-> 5])]
  IN  CHOOSE f \in {Table} : f \in [SUBSET EventId -> Seq(EventId)]

MCProjected == Traversed
MCAsked == {{1}, {2}, {2, 3}, {4}, {5}}
MCKnownToUser == {{}, {2}}
MCTasks == {[text |-> "terms", matches |-> {2}], [text |-> "terms", matches |-> {2, 3, 4}],
            [text |-> "blank", matches |-> {}], [text |-> "no terms", matches |-> {}]}
MCCandidateSets == {{}, {2, 4}, {2, 3, 4}, {2, 5}}
MCReferenced == {{}, {2, 3}, {4}, {5}}
=============================================================================
