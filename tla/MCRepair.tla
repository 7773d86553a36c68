------------------------------ MODULE MCRepair ------------------------------
(* A line of two events and a critical event at its end.                     *)
EXTENDS Repair, TLC

MCEventId == 1..3
MCParents == (1 :> {}) @@ (2 :> {1}) @@ (3 :> {2})
MCPayloadBytes == [e \in MCEventId |-> 1]

\* One sequence may end for lack of iterations, another for lack of
\* re-inclusions, and a follow-up with all three events is over the first's
\* byte bound.
MCBounds == {[iterations |-> 1, reIncluded |-> 2, bytes |-> 2],
             [iterations |-> 2, reIncluded |-> 1, bytes |-> 3]}

\* For the history file alone: one event is enough.
MCOne == {1}
MCOneParents == (1 :> {})
MCOneBytes == [e \in MCOne |-> 1]
MCOneBounds == {[iterations |-> 1, reIncluded |-> 1, bytes |-> 1]}
=============================================================================
