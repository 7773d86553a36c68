----------------------------- MODULE Traversal -----------------------------
(***************************************************************************)
(* project_on (store/dag.rs): the iterative depth-first traversal that     *)
(* lists the history of a set of heads, each event once and parents before *)
(* children.  A traversal is a record that TraversalStep transforms: the   *)
(* stack (top first), the events being visited (mark 1), those already     *)
(* listed (mark 2), and the bytes loaded so far.                           *)
(***************************************************************************)
EXTENDS Integers, FiniteSets, Listing

CONSTANTS
  IdOrder,  \* every event address, in byte order
  Size      \* event -> the length of its canonical wire form

InOrder(S) == Kept(IdOrder, S)

Enter(e) == [frame |-> "enter", id |-> e]
Exit(e) == [frame |-> "exit", id |-> e]
Entries(S) == [i \in DOMAIN InOrder(S) |-> Enter(InOrder(S)[i])]

StartTraversal(heads) ==
  [stack |-> Entries(heads), visiting |-> {}, listed |-> {}, ordered |-> << >>,
   bytes |-> 0, outcome |-> "running"]

Pop(t) == [t EXCEPT !.stack = Tail(@)]

\* Faults: an already listed event is visited again; or its frame stays on
\* the stack; or events are counted only once they are listed.
AlreadyListedNever(t, e) == FALSE

SkipListedInPlace(t) == t

OverLimitListedOnly(t, e, limits) ==
  \/ Len(t.ordered) + 1 > limits.events
  \/ t.bytes + Size[e] > limits.bytes

AlreadyListed(t, e) == e \in t.listed

SkipListed(t) == Pop(t)

\* The event about to be loaded would exceed a limit.
OverLimit(t, e, limits) ==
  \/ Cardinality(t.visiting) + Len(t.ordered) + 1 > limits.events
  \/ t.bytes + Size[e] > limits.bytes

\* Fault: the event is listed before its parents.
VisitParentsLast(t, e, parents) ==
  [t EXCEPT !.stack = <<Exit(e)>> \o Entries(parents[e]) \o Tail(@),
            !.visiting = @ \cup {e}, !.bytes = @ + Size[e]]

Visit(t, e, parents) ==
  [t EXCEPT !.stack = Entries(parents[e]) \o <<Exit(e)>> \o Tail(@),
            !.visiting = @ \cup {e}, !.bytes = @ + Size[e]]

Leave(t, e) ==
  [Pop(t) EXCEPT !.visiting = @ \ {e}, !.listed = @ \cup {e},
                 !.ordered = Append(@, e)]

EnterFrame(t, e, parents, limits) ==
  IF AlreadyListed(t, e) THEN SkipListed(t)
  ELSE IF e \in t.visiting THEN [t EXCEPT !.outcome = "cycle"]
  ELSE IF OverLimit(t, e, limits) THEN [t EXCEPT !.outcome = "limit"]
  ELSE Visit(t, e, parents)

TraversalStep(t, parents, limits) ==
  IF t.stack = << >> THEN [t EXCEPT !.outcome = "done"]
  ELSE LET top == Head(t.stack) IN
       IF top.frame = "exit" THEN Leave(t, top.id)
                             ELSE EnterFrame(t, top.id, parents, limits)

\* The finished traversal: enough steps for every frame of the graph.
Project(parents, heads, limits) ==
  LET Steps == (Len(IdOrder) + 2) * (Len(IdOrder) + 2)
      After[i \in 0..Steps] ==
        IF i = 0 THEN StartTraversal(heads)
        ELSE LET t == After[i - 1] IN
             IF t.outcome = "running" THEN TraversalStep(t, parents, limits) ELSE t
  IN  After[Steps]

ProjectedOrder(parents, heads, limits) == Project(parents, heads, limits).ordered
=============================================================================
