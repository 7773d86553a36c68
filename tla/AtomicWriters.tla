--------------------------- MODULE AtomicWriters ---------------------------
(***************************************************************************)
(* What append, merge and create_branch promise their callers              *)
(* (tests/oa02_concurrency.rs): an event takes its place on a branch in    *)
(* one step, on top of the head that the branch has in that step, or not   *)
(* at all; and a caller is only told of it while it is the head.           *)
(*                                                                         *)
(* BranchWriters implements this, though its writers read, sign and submit *)
(* apart, lose answers and submit again.  Invocation, PullSync and         *)
(* Exchange therefore take a whole append or merge as one step.            *)
(***************************************************************************)
EXTENDS ContextStore

CONSTANT
  Ctx    \* the context the writers work in

VARIABLE
  told   \* history: what writers were told, as BranchWriters records it

atomicVars == <<storeVars, told>>

Answer(n, head, e) == [name |-> n, expected |-> head, event |-> e]

\* An event is put on the head of a branch, and its writer may be told.
Write(n, e) ==
  /\ ExtendBranch(Ctx, n, e)
  /\ told' \in {told, told \cup {Answer(n, localRef[Ctx][n], e)}}

\* A writer that lost the answer is told of its event, still the head.
Confirm(n, e) ==
  /\ localRef[Ctx][n] = e
  /\ \E head \in Body[e].parents : told' = told \cup {Answer(n, head, e)}
  /\ UNCHANGED storeVars

Manage ==
  /\ \/ \E e \in EventId, n \in RefName : CreateContext(e, n) \/ CreateBranch(Ctx, n, e)
     \/ \E a \in AuthorId : AuthorizeAuthor(Ctx, a)
  /\ UNCHANGED told

AtomicNext == Manage \/ \E n \in RefName, e \in EventId : Write(n, e) \/ Confirm(n, e)

AtomicSpec == Init /\ told = {} /\ [][AtomicNext]_atomicVars
=============================================================================
